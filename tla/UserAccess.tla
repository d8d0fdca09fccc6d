----------------------------- MODULE UserAccess -----------------------------
(***************************************************************************)
(* Accounts and sessions of one tenant (modules/users, modules/auth,       *)
(* bitrix.ts): administrators add people and change their role or access,  *)
(* a launch from the portal opens a session, an installation brings the    *)
(* configured administrator in.  A command is authorised on a connection   *)
(* of its own before its transaction begins.                               *)
(***************************************************************************)
EXTENDS Integers, FiniteSets

CONSTANTS
  Attempts,        \* server processes handling a request
  People,          \* employees of the portal
  Installer,       \* BITRIX_ADMIN_USER_ID
  InitialAccounts, \* accounts before the first request
  Roles,           \* INTERNAL_ASSIGNABLE_ROLES
  Tokens,          \* bound: sessions at a time
  Absent,          \* no account, or a free token
  Same,            \* a field the command leaves out
  MaxRequests      \* bound: requests altogether

VARIABLES
  users,    \* [People -> Account or Absent]
  sessions, \* [Tokens -> People or Absent], committed
  attempts, \* [Attempts -> Attempt]
  requests  \* requests begun so far

rows == <<users, sessions>>
vars == <<rows, attempts, requests>>

External == "CONTRACTOR_VIEWER"
Account == [role : Roles \cup {External}, access : {"on", "off"}]

\* What the constants satisfy.
AccessAssumption ==
  /\ "ADMIN" \in Roles /\ External \notin Roles
  /\ Installer \in People /\ Absent \notin Account \cup People
  /\ \A accounts \in InitialAccounts :
       /\ accounts \in [People -> Account \cup {Absent}]
       /\ [role |-> "ADMIN", access |-> "on"] \in {accounts[u] : u \in People}
  /\ MaxRequests \in Nat

Idle == [phase |-> "idle"]
In(t, phase) == attempts[t].phase = phase
Cmd(t) == attempts[t].cmd

\* Every account that is on may have a session already.
Init ==
  /\ users \in InitialAccounts
  /\ sessions \in [Tokens -> {u \in People : users[u] # Absent} \cup {Absent}]
  /\ \A k \in Tokens : sessions[k] # Absent => users[sessions[k]].access = "on"
  /\ attempts = [t \in Attempts |-> Idle]
  /\ requests = 0

-----------------------------------------------------------------------------
Exists(u) == users[u] # Absent
Active(u) == Exists(u) /\ users[u].access = "on"
Administers(u) == Active(u) /\ users[u].role = "ADMIN"
Open(u) == {k \in Tokens : sessions[k] = u}

\* authenticate and requirePermission(ADMIN_USERS): a session of an active
\* administrator.
AdminActor == \E u \in People : Administers(u) /\ Open(u) # {}

\* COALESCE of what the command sends over what the row holds.
After(cmd) ==
  LET before == users[cmd.who] IN
    [role |-> IF cmd.role = Same THEN before.role ELSE cmd.role,
     access |-> IF cmd.access = Same THEN before.access ELSE cmd.access]

UpdateAllowed(cmd) ==
  /\ Exists(cmd.who) /\ users[cmd.who].role # External
  /\ After(cmd) # users[cmd.who]
  /\ Administers(cmd.who) /\ After(cmd) # users[cmd.who] =>
       \E other \in People \ {cmd.who} : Administers(other)

\* An installation fails closed on an account that is switched off.
Allowed(cmd) ==
  CASE cmd.kind \in {"add", "addUser"} -> ~Exists(cmd.who)
    [] cmd.kind = "update" -> UpdateAllowed(cmd)
    [] cmd.kind = "install" -> ~Exists(cmd.who) \/ Active(cmd.who)
    [] OTHER -> TRUE

-----------------------------------------------------------------------------
\* Row locks on the tenant: a reference to it is FOR KEY SHARE, which a
\* FOR NO KEY UPDATE lets pass and a FOR UPDATE does not.
TenantLock(cmd) ==
  CASE cmd.kind = "install" -> "update"
    [] cmd.kind \in {"add", "update"} -> "no key update"
    [] OTHER -> "key share"
TenantIsFree(t) ==
  \A u \in Attempts \ {t} : In(u, "checked") =>
    LET locks == {TenantLock(Cmd(t)), TenantLock(Cmd(u))} IN
      locks = {"key share"} \/ locks = {"key share", "no key update"}

\* The account itself: an update holds it FOR UPDATE, which the reference of a
\* new session waits for; a new row waits for its twin on users_unique.
\* Mutated form: update() reads the account without FOR UPDATE.
Inserts == {"add", "addUser", "install"}
TwinsOnly(t) ==
  \A u \in Attempts \ {t} : In(u, "checked") /\ Cmd(u).who = Cmd(t).who =>
    ~({Cmd(t).kind, Cmd(u).kind} \subseteq Inserts)
AccountIsFree(t) ==
  \A u \in Attempts \ {t} : In(u, "checked") /\ Cmd(u).who = Cmd(t).who =>
    LET kinds == {Cmd(t).kind, Cmd(u).kind} IN
      "update" \notin kinds /\ ~(kinds \subseteq Inserts)

-----------------------------------------------------------------------------
AdminCommand ==
  [kind : {"add", "addUser"}, who : People, role : Roles]
    \cup [kind : {"update"}, who : People, role : Roles \cup {Same}, access : {"on", "off", Same}]

Command == AdminCommand \cup [kind : {"login"}, who : People]
                        \cup [kind : {"install"}, who : {Installer}]

\* A launch verified with the portal reads the account before it inserts.
NewCommand ==
  (IF AdminActor THEN AdminCommand ELSE {})
    \cup {[kind |-> "login", who |-> u] : u \in {v \in People : Active(v)}}
    \cup {[kind |-> "install", who |-> Installer]}

Begin(t, cmd) ==
  /\ In(t, "idle") /\ requests < MaxRequests
  /\ cmd.kind = "add" => ~Exists(cmd.who)
  /\ attempts' = [attempts EXCEPT ![t] = [phase |-> "begun", cmd |-> cmd]]
  /\ requests' = requests + 1
  /\ UNCHANGED rows

LockAndCheck(t) ==
  /\ In(t, "begun") /\ TenantIsFree(t) /\ AccountIsFree(t)
  /\ Allowed(Cmd(t))
  /\ attempts' = [attempts EXCEPT ![t].phase = "checked"]
  /\ UNCHANGED <<rows, requests>>

\* Refused, unchanged, crashed or cut off.
Refuse(t) ==
  /\ ~In(t, "idle")
  /\ attempts' = [attempts EXCEPT ![t] = Idle]
  /\ UNCHANGED <<rows, requests>>

Committing(t, kinds) ==
  /\ In(t, "checked") /\ Cmd(t).kind \in kinds
  /\ attempts' = [attempts EXCEPT ![t] = Idle]
  /\ UNCHANGED requests

AddAccount(t) ==
  /\ Committing(t, {"add", "addUser"})
  /\ users' = [users EXCEPT ![Cmd(t).who] = [role |-> Cmd(t).role, access |-> "on"]]
  /\ UNCHANGED sessions

\* Switching an account off deletes its sessions.
UpdateAccount(t) ==
  LET cmd == Cmd(t) IN
    /\ Committing(t, {"update"})
    /\ users' = [users EXCEPT ![cmd.who] = After(cmd)]
    /\ sessions' =
         IF Active(cmd.who) /\ After(cmd).access = "off"
         THEN [k \in Tokens |-> IF k \in Open(cmd.who) THEN Absent ELSE sessions[k]]
         ELSE sessions

OpenSession(who) ==
  \E k \in Open(Absent) : sessions' = [sessions EXCEPT ![k] = who]

Login(t) ==
  /\ Committing(t, {"login"})
  /\ OpenSession(Cmd(t).who)
  /\ UNCHANGED users

InstallBitrix(t) ==
  /\ Committing(t, {"install"})
  /\ users' = IF Exists(Installer) THEN users
              ELSE [users EXCEPT ![Installer] = [role |-> "ADMIN", access |-> "on"]]
  /\ OpenSession(Installer)

\* Logout, or the hour of a session is over.
EndSession(k) ==
  /\ sessions[k] # Absent
  /\ sessions' = [sessions EXCEPT ![k] = Absent]
  /\ UNCHANGED <<users, attempts, requests>>

Next ==
  \/ \E t \in Attempts :
       \/ \E cmd \in NewCommand : Begin(t, cmd)
       \/ LockAndCheck(t) \/ Refuse(t)
       \/ AddAccount(t) \/ UpdateAccount(t) \/ Login(t) \/ InstallBitrix(t)
  \/ \E k \in Tokens : EndSession(k)

Spec == Init /\ [][Next]_vars

-----------------------------------------------------------------------------
\* Every variable keeps its shape.
TypeOK ==
  /\ users \in [People -> Account \cup {Absent}]
  /\ sessions \in [Tokens -> {u \in People : Exists(u)} \cup {Absent}]
  /\ attempts \in [Attempts -> {Idle} \cup [phase : {"begun", "checked"}, cmd : Command]]
  /\ requests \in 0..MaxRequests

\* The organisation always has an active administrator, even when two of them
\* switch each other off at once (admin-users.controller.ts:108-114).
AdministratorRemains == \E u \in People : Administers(u)

\* The command that switches an account off leaves it no session, and no login
\* that has the account's row already is waiting to commit
\* (admin-users.controller.ts:119-122).  A login that has read the account and
\* has yet to insert its session is not kept out: ReactivationNeedsALaunch.
AccessEndsWithItsSessions ==
  \A u \in People : Active(u) /\ users'[u] # Absent /\ users'[u].access = "off" =>
    /\ \A k \in Tokens : sessions'[k] # u
    /\ ~\E t \in Attempts :
         attempts'[t].phase = "checked" /\ Cmd(t).kind = "login" /\ Cmd(t).who = u

\* A session is given to an account that is on, or to one that was when the
\* launch read it; an installation gives none to an account that was switched
\* off meanwhile (bitrix.ts:74-76, 118-151).
SessionsAreForTheActive ==
  \A k \in Tokens : sessions'[k] \notin {sessions[k], Absent} =>
    \/ users'[sessions'[k]].access = "on"
    \/ \E t \in Attempts :
         /\ In(t, "checked") /\ attempts'[t] = Idle
         /\ Cmd(t).kind = "login" /\ Cmd(t).who = sessions'[k]

\* An administrator, and what goes with an account that is switched off.
AccessIsSound ==
  /\ [](TypeOK /\ AdministratorRemains)
  /\ [][AccessEndsWithItsSessions /\ SessionsAreForTheActive]_vars

\* What the code says of it: an account that is switched on again has no
\* session from before, a fresh launch is needed
\* (admin-users.controller.ts:119-120).
ReactivationNeedsALaunch ==
  [][\A u \in People : Exists(u) /\ ~Active(u) /\ users'[u].access = "on" => Open(u) = {}]_vars
=============================================================================
