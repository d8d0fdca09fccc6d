---------------------------- MODULE Office_proofs ----------------------------
(***************************************************************************)
(* Proofs about the accounts of a tenant (UserAccess), the tokens of its   *)
(* installation (PortalInstallation), its files (FileStorage), its acts    *)
(* (AosrPreparation), the older closing route (ExecutiveClosing) and its   *)
(* teams (TeamAssignments), for any number of processes, people, tokens,   *)
(* uploads, acts, packages, managers and objects and for every bound and   *)
(* amount.  All are instances here because each has its own Init, Next and *)
(* attempts.                                                               *)
(***************************************************************************)
EXTENDS Office, FiniteSetTheorems, SequenceTheorems, TLAPS

-----------------------------------------------------------------------------
(* Accounts: the inductive invariant                                       *)

Checked(t) == Access!In(t, "checked")
Cmd(t) == Access!Cmd(t)
Writes == {"add", "update"}

\* What the row locks on tenant and account leave to two commands at a time.
Apart(c, d) ==
  /\ c.kind # "install" /\ d.kind # "install"
  /\ c.kind \notin Writes \/ d.kind \notin Writes
  /\ c.who = d.who =>
       /\ c.kind # "update" /\ d.kind # "update"
       /\ c.kind \notin Access!Inserts \/ d.kind \notin Access!Inserts

LocksApart == \A t, u \in Attempts : t # u /\ Checked(t) /\ Checked(u) => Apart(Cmd(t), Cmd(u))

\* What a command was checked against still holds when it commits.
StillAllowed == \A t \in Attempts : Checked(t) => Access!Allowed(Cmd(t))

\* An account is never deleted, so a login finds the one it read.
LoginsExist ==
  \A t \in Attempts :
    ~Access!In(t, "idle") /\ Cmd(t).kind = "login" => Access!Exists(Cmd(t).who)

AccessInv ==
  /\ Access!TypeOK
  /\ LocksApart
  /\ StillAllowed
  /\ LoginsExist
  /\ Access!AdministratorRemains

(* An attempt that is not idle has a command.                              *)
LEMMA AttemptHasCommand ==
  ASSUME Access!TypeOK, NEW t \in Attempts, ~Access!In(t, "idle")
  PROVE  /\ attempts[t] \in [phase : {"begun", "checked"}, cmd : Access!Command]
         /\ Cmd(t) \in Access!Command /\ Cmd(t).who \in People \cup {Installer}
  BY DEF Access!TypeOK, Access!In, Access!Idle, Access!Command, Access!AdminCommand, Cmd,
         Access!Cmd

(* The locks a command is granted set it apart from every checked one.     *)
LEMMA GrantedIsApart ==
  ASSUME NEW t \in Attempts, Access!TenantIsFree(t), Access!AccountIsFree(t),
         NEW u \in Attempts \ {t}, Checked(u)
  PROVE  Apart(Cmd(t), Cmd(u)) /\ Apart(Cmd(u), Cmd(t))
  <1> DEFINE own == Access!TenantLock(Cmd(t))
             other == Access!TenantLock(Cmd(u))
  <1>1. {own, other} = {"key share"} \/ {own, other} = {"key share", "no key update"}
    BY DEF Access!TenantIsFree, Checked, Cmd
  <1>2. /\ own # "update" /\ other # "update"
        /\ ~(own = "no key update" /\ other = "no key update")
    <2> HIDE DEF own, other
    <2>1. own \in {own, other} /\ other \in {own, other} /\ "key share" \in {own, other}
      BY <1>1
    <2>2. QED
      BY <1>1, <2>1
  <1>3. Cmd(t).kind # "install" /\ Cmd(u).kind # "install"
    BY <1>2 DEF Access!TenantLock
  <1>4. Cmd(t).kind \notin Writes \/ Cmd(u).kind \notin Writes
    BY <1>2, <1>3 DEF Access!TenantLock, Writes
  <1>5. Cmd(u).who = Cmd(t).who =>
          /\ Cmd(t).kind # "update" /\ Cmd(u).kind # "update"
          /\ Cmd(t).kind \notin Access!Inserts \/ Cmd(u).kind \notin Access!Inserts
    BY DEF Access!AccountIsFree, Checked, Cmd
  <1>6. QED
    BY <1>3, <1>4, <1>5 DEF Apart

(* A commit keeps what the others were checked against: their locks keep   *)
(* it from their accounts, and it takes no administrator from an update.   *)
LEMMA CommitKeeps ==
  ASSUME Access!AccessAssumption, AccessInv, NEW t \in Attempts, Checked(t),
         attempts' = [attempts EXCEPT ![t] = Access!Idle],
         \/ users' = users
         \/ /\ Cmd(t).kind \in Access!Inserts /\ ~Access!Exists(Cmd(t).who)
            /\ \E account \in Access!Account :
                 users' = [users EXCEPT ![Cmd(t).who] = account]
         \/ /\ Cmd(t).kind = "update"
            /\ users' = [users EXCEPT ![Cmd(t).who] = Access!After(Cmd(t))]
  PROVE  /\ users' \in [People -> Access!Account \cup {None}]
         /\ \A u \in People : Access!Exists(u) => Access!Exists(u)'
         /\ attempts' \in [Attempts -> {Access!Idle} \cup
                             [phase : {"begun", "checked"}, cmd : Access!Command]]
         /\ LocksApart' /\ StillAllowed' /\ LoginsExist' /\ Access!AdministratorRemains'
  <1> DEFINE who == Cmd(t).who
  <1>1. /\ Cmd(t) \in Access!Command /\ who \in People
        /\ users \in [People -> Access!Account \cup {None}]
        /\ Access!Allowed(Cmd(t)) /\ None \notin Access!Account
    BY AttemptHasCommand DEF AccessInv, StillAllowed, Checked, Access!In, Access!AccessAssumption,
       Access!TypeOK
  <1>2. ASSUME Cmd(t).kind = "update"
        PROVE  /\ Access!Exists(who) /\ Access!After(Cmd(t)) \in Access!Account
               /\ Access!Administers(who) /\ Access!After(Cmd(t)) # users[who] =>
                    \E other \in People \ {who} : Access!Administers(other)
    <2>1. Access!UpdateAllowed(Cmd(t))
      BY <1>1, <1>2 DEF Access!Allowed
    <2>2. Cmd(t).role \in Roles \cup {Same} /\ Cmd(t).access \in {"on", "off", Same}
      BY <1>1, <1>2 DEF Access!Command, Access!AdminCommand
    <2>3. users[who] \in Access!Account
      BY <1>1, <2>1 DEF Access!UpdateAllowed, Access!Exists
    <2>4. Access!After(Cmd(t)) \in Access!Account
      BY <2>2, <2>3 DEF Access!After, Access!Account
    <2>5. QED
      BY <2>1, <2>4 DEF Access!UpdateAllowed
  <1>3. /\ users' \in [People -> Access!Account \cup {None}]
        /\ \A u \in People \ {who} : users'[u] = users[u]
        /\ users' # users => users'[who] \in Access!Account
    BY <1>1, <1>2
  <1>4. \A u \in People : Access!Exists(u) => Access!Exists(u)'
    BY <1>1, <1>3 DEF Access!Exists
  <1>5. /\ attempts' \in [Attempts -> {Access!Idle} \cup
                            [phase : {"begun", "checked"}, cmd : Access!Command]]
        /\ \A u \in Attempts \ {t} : attempts'[u] = attempts[u]
        /\ attempts'[t].phase = "idle"
    BY DEF AccessInv, Access!TypeOK, Access!Idle
  <1>6. \A u \in Attempts : ~Access!In(u, "idle")' =>
          u # t /\ ~Access!In(u, "idle") /\ Cmd(u)' = Cmd(u) /\ (Checked(u)' <=> Checked(u))
    BY <1>5 DEF Access!In, Cmd, Access!Cmd, Checked
  <1>7. \A u \in Attempts : Checked(u)' => u # t /\ Checked(u) /\ Cmd(u)' = Cmd(u)
    BY <1>6 DEF Checked, Access!In
  <1>8. LocksApart'
    BY <1>7 DEF LocksApart, AccessInv, Apart, Access!Inserts
  <1>9. LoginsExist'
    <2>1. SUFFICES ASSUME NEW u \in Attempts, ~Access!In(u, "idle")', Cmd(u)'.kind = "login"
                   PROVE  Access!Exists(Cmd(u).who)'
      BY <1>6 DEF LoginsExist
    <2>2. Access!Exists(Cmd(u).who) /\ Cmd(u).who \in People
      BY <1>6, <2>1, AttemptHasCommand DEF LoginsExist, AccessInv, Access!AccessAssumption
    <2>3. QED
      BY <1>4, <1>6, <2>1, <2>2
  <1>10. StillAllowed'
    <2>1. SUFFICES ASSUME NEW u \in Attempts \ {t}, Checked(u), Cmd(u)' = Cmd(u),
                          Access!Allowed(Cmd(u)), Apart(Cmd(t), Cmd(u))
                   PROVE  Access!Allowed(Cmd(u))'
      BY <1>7 DEF StillAllowed, LocksApart, AccessInv
    <2>2. /\ Cmd(u) \in Access!Command
          /\ Cmd(u).kind \in {"add", "addUser", "update", "login"}
      BY <2>1, AttemptHasCommand DEF AccessInv, Checked, Access!In, Access!Command,
         Access!AdminCommand, Apart
    <2>3. CASE Cmd(u).kind \in {"add", "addUser"}
      <3>1. Cmd(u).who \in People /\ ~Access!Exists(Cmd(u).who)
        BY <2>1, <2>2, <2>3 DEF Access!Allowed, Access!Command, Access!AdminCommand
      <3>2. users'[Cmd(u).who] = users[Cmd(u).who]
        BY <1>1, <1>3, <2>1, <2>3, <3>1 DEF Apart, Access!Inserts
      <3>3. QED
        BY <2>1, <2>3, <3>1, <3>2 DEF Access!Allowed, Access!Exists
    <2>4. CASE Cmd(u).kind = "update"
      <3>1. Cmd(u).who \in People /\ Access!UpdateAllowed(Cmd(u))
        BY <2>1, <2>2, <2>4 DEF Access!Allowed, Access!Command, Access!AdminCommand
      <3>2. users' = users \/ (Cmd(t).kind = "addUser" /\ ~Access!Exists(who))
        BY <2>1, <2>4 DEF Apart, Writes, Access!Inserts
      <3>3. users'[Cmd(u).who] = users[Cmd(u).who]
        BY <1>3, <2>1, <2>4, <3>1, <3>2 DEF Apart
      <3>4. \A other \in People : Access!Administers(other) => Access!Administers(other)'
        BY <1>1, <1>3, <3>2 DEF Access!Administers, Access!Active, Access!Exists
      <3>5. /\ Access!After(Cmd(u))' = Access!After(Cmd(u))
            /\ Access!Administers(Cmd(u).who)' <=> Access!Administers(Cmd(u).who)
        BY <2>1, <3>3 DEF Access!After, Access!Administers, Access!Active, Access!Exists
      <3>6. Access!UpdateAllowed(Cmd(u))'
        BY <2>1, <3>1, <3>3, <3>4, <3>5 DEF Access!UpdateAllowed, Access!Exists
      <3>7. QED
        BY <2>1, <2>4, <3>6 DEF Access!Allowed
    <2>5. CASE Cmd(u).kind = "login"
      BY <2>1, <2>5 DEF Access!Allowed
    <2>6. QED
      BY <2>2, <2>3, <2>4, <2>5
  <1>11. Access!AdministratorRemains'
    <2>1. PICK u \in People : Access!Administers(u)
      BY DEF AccessInv, Access!AdministratorRemains
    <2>2. CASE users'[u] = users[u]
      BY <2>1, <2>2 DEF Access!AdministratorRemains, Access!Administers, Access!Active,
         Access!Exists
    <2>3. CASE users'[u] # users[u]
      <3>1. u = who /\ Cmd(t).kind = "update" /\ users'[who] = Access!After(Cmd(t))
        BY <1>1, <1>3, <2>1, <2>3 DEF Access!Administers, Access!Active
      <3>2. PICK other \in People \ {who} : Access!Administers(other)
        BY <1>2, <2>1, <2>3, <3>1
      <3>3. users'[other] = users[other]
        BY <1>3
      <3>4. QED
        BY <3>2, <3>3 DEF Access!AdministratorRemains, Access!Administers, Access!Active,
           Access!Exists
    <2>4. QED
      BY <2>2, <2>3
  <1>12. QED
    BY <1>3, <1>4, <1>5, <1>8, <1>9, <1>10, <1>11

(* An attempt that takes no row leaves every condition as it was.          *)
LEMMA BeginStep ==
  ASSUME Access!AccessAssumption, AccessInv, NEW t \in Attempts,
         NEW cmd \in Access!NewCommand, Access!Begin(t, cmd)
  PROVE  AccessInv'
  <1>1. cmd \in Access!Command /\ (cmd.kind = "login" => Access!Exists(cmd.who))
    BY DEF Access!NewCommand, Access!Command, Access!AdminCommand, Access!Active
  <1>2. /\ users' = users /\ sessions' = sessions
        /\ attempts'[t] = [phase |-> "begun", cmd |-> cmd]
        /\ \A u \in Attempts \ {t} : attempts'[u] = attempts[u]
    BY DEF Access!Begin, Access!rows, AccessInv, Access!TypeOK
  <1>3. Access!TypeOK'
    <2>1. requests' \in 0..MaxRequests
      BY DEF Access!Begin, AccessInv, Access!TypeOK, Access!AccessAssumption
    <2>2. attempts' \in [Attempts -> {Access!Idle} \cup
                           [phase : {"begun", "checked"}, cmd : Access!Command]]
      BY <1>1 DEF Access!Begin, AccessInv, Access!TypeOK
    <2>3. QED
      BY <1>2, <2>1, <2>2 DEF AccessInv, Access!TypeOK, Access!Exists
  <1>4. \A u \in Attempts : Checked(u)' => u # t /\ Checked(u) /\ Cmd(u)' = Cmd(u)
    BY <1>2 DEF Checked, Access!In, Cmd, Access!Cmd
  <1>5. LocksApart'
    BY <1>4 DEF AccessInv, LocksApart, Apart, Access!Inserts
  <1>6. StillAllowed'
    BY <1>2, <1>4 DEF AccessInv, StillAllowed, Access!Allowed, Access!UpdateAllowed, Access!After,
       Access!Administers, Access!Active, Access!Exists
  <1>7. LoginsExist'
    BY <1>1, <1>2 DEF AccessInv, LoginsExist, Access!In, Cmd, Access!Cmd, Access!Exists
  <1>8. Access!AdministratorRemains'
    BY <1>2 DEF AccessInv, Access!AdministratorRemains, Access!Administers, Access!Active,
       Access!Exists
  <1>9. QED
    BY <1>3, <1>5, <1>6, <1>7, <1>8 DEF AccessInv

LEMMA CheckStep ==
  ASSUME AccessInv, NEW t \in Attempts, Access!LockAndCheck(t)
  PROVE  AccessInv'
  <1>1. /\ users' = users /\ sessions' = sessions /\ requests' = requests
        /\ attempts'[t].phase = "checked" /\ attempts'[t].cmd = attempts[t].cmd
        /\ \A u \in Attempts \ {t} : attempts'[u] = attempts[u]
        /\ attempts' \in [Attempts -> {Access!Idle} \cup
                            [phase : {"begun", "checked"}, cmd : Access!Command]]
    <2>1. attempts[t] \in [phase : {"begun", "checked"}, cmd : Access!Command]
      BY AttemptHasCommand DEF Access!LockAndCheck, Access!In, AccessInv
    <2> DEFINE new == [attempts[t] EXCEPT !.phase = "checked"]
    <2>2. /\ new \in [phase : {"begun", "checked"}, cmd : Access!Command]
          /\ new.phase = "checked" /\ new.cmd = attempts[t].cmd
      BY <2>1
    <2>3. attempts' = [attempts EXCEPT ![t] = new]
      BY DEF Access!LockAndCheck
    <2> HIDE DEF new
    <2>4. users' = users /\ sessions' = sessions /\ requests' = requests
      BY DEF Access!LockAndCheck, Access!rows
    <2>5. attempts \in [Attempts -> {Access!Idle} \cup
                          [phase : {"begun", "checked"}, cmd : Access!Command]]
      BY DEF AccessInv, Access!TypeOK
    <2>6. QED
      BY <2>2, <2>3, <2>4, <2>5
  <1>2. Access!TypeOK'
    BY <1>1 DEF AccessInv, Access!TypeOK, Access!Exists
  <1>3. \A u \in Attempts : Cmd(u)' = Cmd(u)
    BY <1>1 DEF Cmd, Access!Cmd
  <1>4. \A u \in Attempts \ {t} : Checked(u)' => Checked(u)
    BY <1>1 DEF Checked, Access!In
  <1>5. LocksApart'
    <2>1. SUFFICES ASSUME NEW u \in Attempts, NEW v \in Attempts, u # v, Checked(u)', Checked(v)'
                   PROVE  Apart(Cmd(u), Cmd(v))
      BY <1>3 DEF LocksApart, Apart, Access!Inserts
    <2>2. CASE u # t /\ v # t
      BY <1>4, <2>1, <2>2 DEF AccessInv, LocksApart
    <2>3. CASE u = t
      BY <1>4, <2>1, <2>3, GrantedIsApart DEF Access!LockAndCheck
    <2>4. CASE v = t
      BY <1>4, <2>1, <2>4, GrantedIsApart DEF Access!LockAndCheck
    <2>5. QED
      BY <2>2, <2>3, <2>4
  <1>6. StillAllowed'
    <2>1. Access!Allowed(Cmd(t))
      BY DEF Access!LockAndCheck, Cmd
    <2>2. \A u \in Attempts : Checked(u)' => Access!Allowed(Cmd(u))
      BY <1>4, <2>1 DEF AccessInv, StillAllowed
    <2>3. QED
      BY <1>1, <1>3, <2>2 DEF StillAllowed, Access!Allowed, Access!UpdateAllowed, Access!After,
         Access!Administers, Access!Active, Access!Exists
  <1>7. LoginsExist'
    BY <1>1, <1>3 DEF AccessInv, LoginsExist, Access!In, Access!Exists, Access!LockAndCheck
  <1>8. Access!AdministratorRemains'
    BY <1>1 DEF AccessInv, Access!AdministratorRemains, Access!Administers, Access!Active,
       Access!Exists
  <1>9. QED
    BY <1>2, <1>5, <1>6, <1>7, <1>8 DEF AccessInv

(* A command that gives up leaves less to be said.                         *)
LEMMA RefuseStep ==
  ASSUME AccessInv, NEW t \in Attempts, Access!Refuse(t)
  PROVE  AccessInv'
  <1>1. /\ users' = users /\ sessions' = sessions /\ requests' = requests
        /\ attempts' \in [Attempts -> {Access!Idle} \cup
                            [phase : {"begun", "checked"}, cmd : Access!Command]]
        /\ \A u \in Attempts \ {t} : attempts'[u] = attempts[u]
        /\ attempts'[t].phase = "idle"
    BY DEF Access!Refuse, Access!rows, Access!Idle, AccessInv, Access!TypeOK
  <1>2. Access!TypeOK'
    BY <1>1 DEF AccessInv, Access!TypeOK, Access!Exists
  <1>3. \A u \in Attempts : ~Access!In(u, "idle")' =>
          u # t /\ ~Access!In(u, "idle") /\ Cmd(u)' = Cmd(u) /\ (Checked(u)' <=> Checked(u))
    BY <1>1 DEF Access!In, Cmd, Access!Cmd, Checked
  <1>4. \A u \in Attempts : Checked(u)' => u # t /\ Checked(u) /\ Cmd(u)' = Cmd(u)
    BY <1>3 DEF Checked, Access!In
  <1>5. LocksApart'
    BY <1>4 DEF LocksApart, AccessInv, Apart, Access!Inserts
  <1>6. StillAllowed'
    BY <1>1, <1>4 DEF AccessInv, StillAllowed, Access!Allowed, Access!UpdateAllowed, Access!After,
       Access!Administers, Access!Active, Access!Exists
  <1>7. LoginsExist'
    BY <1>1, <1>3 DEF AccessInv, LoginsExist, Access!Exists
  <1>8. Access!AdministratorRemains'
    BY <1>1 DEF AccessInv, Access!AdministratorRemains, Access!Administers, Access!Active,
       Access!Exists
  <1>9. QED
    BY <1>2, <1>5, <1>6, <1>7, <1>8 DEF AccessInv

(* A new session is of an account that exists.                             *)
LEMMA SessionsAreOfAccounts ==
  ASSUME Access!TypeOK, NEW who \in People, Access!Exists(who)',
         \A u \in People : Access!Exists(u) => Access!Exists(u)',
         Access!OpenSession(who) \/ sessions' = sessions
  PROVE  sessions' \in [Tokens -> {u \in People : Access!Exists(u)'} \cup {None}]
  BY DEF Access!TypeOK, Access!OpenSession, Access!Open

LEMMA CommitStep ==
  ASSUME Access!AccessAssumption, AccessInv, NEW t \in Attempts,
         \/ Access!AddAccount(t) \/ Access!UpdateAccount(t)
         \/ Access!Login(t) \/ Access!InstallBitrix(t)
  PROVE  AccessInv'
  <1>0. PICK who : who = Cmd(t).who
    OBVIOUS
  <1>1. /\ Checked(t) /\ attempts' = [attempts EXCEPT ![t] = Access!Idle]
        /\ requests' = requests
    BY DEF Access!AddAccount, Access!UpdateAccount, Access!Login, Access!InstallBitrix,
       Access!Committing, Checked
  <1>2. /\ Cmd(t) \in Access!Command /\ who \in People /\ Access!Allowed(Cmd(t))
        /\ ~Access!In(t, "idle")
    BY <1>0, <1>1, AttemptHasCommand DEF AccessInv, StillAllowed, Checked, Access!In,
       Access!AccessAssumption
  <1>3. /\ \/ users' = users
           \/ /\ Cmd(t).kind \in Access!Inserts /\ ~Access!Exists(who)
              /\ \E account \in Access!Account : users' = [users EXCEPT ![who] = account]
           \/ /\ Cmd(t).kind = "update"
              /\ users' = [users EXCEPT ![who] = Access!After(Cmd(t))]
        /\ \/ Access!OpenSession(who) \/ sessions' = sessions
           \/ sessions' = [k \in Tokens |-> IF k \in Access!Open(who) THEN None ELSE sessions[k]]
        /\ Access!OpenSession(who) => Access!Exists(who)'
    <2>1. CASE Access!AddAccount(t)
      <3>1. Cmd(t).kind \in {"add", "addUser"}
        BY <2>1 DEF Access!AddAccount, Access!Committing, Cmd
      <3>2. ~Access!Exists(who) /\ [role |-> Cmd(t).role, access |-> "on"] \in Access!Account
        BY <1>0, <1>2, <3>1 DEF Access!Allowed, Access!Command, Access!AdminCommand, Access!Account
      <3>3. /\ users' = [users EXCEPT ![who] = [role |-> Cmd(t).role, access |-> "on"]]
            /\ sessions' = sessions
        BY <1>0, <2>1 DEF Access!AddAccount, Cmd
      <3>4. Access!Exists(who)'
        BY <1>0, <1>2, <3>2, <3>3 DEF Access!Exists, Access!AccessAssumption, AccessInv,
             Access!TypeOK
      <3>5. QED
        BY <3>1, <3>2, <3>3, <3>4 DEF Access!Inserts
    <2>2. CASE Access!UpdateAccount(t)
      <3>1. /\ Cmd(t).kind = "update"
            /\ users' = [users EXCEPT ![who] = Access!After(Cmd(t))]
            /\ \/ sessions' = sessions
               \/ sessions' = [k \in Tokens |->
                                 IF k \in Access!Open(who) THEN None ELSE sessions[k]]
        BY <1>0, <2>2 DEF Access!UpdateAccount, Access!Committing, Cmd
      <3>2. Access!UpdateAllowed(Cmd(t))
        BY <1>0, <1>2, <3>1 DEF Access!Allowed
      <3>3. Access!Exists(who)'
        <4>1. Cmd(t).role \in Roles \cup {Same} /\ Cmd(t).access \in {"on", "off", Same}
          BY <1>0, <1>2, <3>1 DEF Access!Command, Access!AdminCommand
        <4>2. users[who] \in Access!Account
          BY <1>0, <1>2, <3>2 DEF Access!UpdateAllowed, Access!Exists, AccessInv, Access!TypeOK
        <4>3. Access!After(Cmd(t)) \in Access!Account
          BY <1>0, <4>1, <4>2 DEF Access!After, Access!Account
        <4>4. QED
          BY <1>0, <1>2, <3>1, <4>3 DEF Access!Exists, Access!AccessAssumption, AccessInv,
             Access!TypeOK
      <3>4. QED
        BY <3>1, <3>3
    <2>3. CASE Access!Login(t)
      <3>1. Cmd(t).kind = "login" /\ users' = users /\ Access!OpenSession(who)
        BY <1>0, <2>3 DEF Access!Login, Access!Committing, Cmd
      <3>2. Access!Exists(who)
        BY <1>0, <1>2, <3>1 DEF AccessInv, LoginsExist
      <3>3. QED
        BY <3>1, <3>2 DEF Access!Exists
    <2>4. CASE Access!InstallBitrix(t)
      <3>1. /\ Cmd(t).kind = "install" /\ Access!OpenSession(Installer)
            /\ users' = IF Access!Exists(Installer) THEN users
                        ELSE [users EXCEPT ![Installer] = [role |-> "ADMIN", access |-> "on"]]
        BY <2>4 DEF Access!InstallBitrix, Access!Committing, Cmd
      <3>2. who = Installer
        BY <1>0, <1>2, <3>1 DEF Access!Command, Access!AdminCommand
      <3>3. [role |-> "ADMIN", access |-> "on"] \in Access!Account
        BY DEF Access!Account, Access!AccessAssumption
      <3>4. Access!Exists(who)'
        BY <1>0, <1>2, <3>1, <3>2, <3>3 DEF Access!Exists, Access!AccessAssumption, AccessInv,
           Access!TypeOK
      <3>5. QED
        BY <3>1, <3>2, <3>3, <3>4 DEF Access!Inserts
    <2>5. QED
      BY <2>1, <2>2, <2>3, <2>4
  <1>4. /\ users' \in [People -> Access!Account \cup {None}]
        /\ \A u \in People : Access!Exists(u) => Access!Exists(u)'
        /\ attempts' \in [Attempts -> {Access!Idle} \cup
                            [phase : {"begun", "checked"}, cmd : Access!Command]]
        /\ LocksApart' /\ StillAllowed' /\ LoginsExist' /\ Access!AdministratorRemains'
    BY <1>0, <1>1, <1>3, CommitKeeps
  <1>5. sessions' \in [Tokens -> {u \in People : Access!Exists(u)'} \cup {None}]
    <2>1. CASE Access!OpenSession(who)
      BY <1>2, <1>3, <1>4, <2>1, SessionsAreOfAccounts DEF AccessInv
    <2>2. CASE \/ sessions' = sessions
               \/ sessions' = [k \in Tokens |->
                                 IF k \in Access!Open(who) THEN None ELSE sessions[k]]
      BY <1>4, <2>2 DEF AccessInv, Access!TypeOK
    <2>3. QED
      BY <1>3, <2>1, <2>2
  <1>6. QED
    BY <1>1, <1>4, <1>5 DEF AccessInv, Access!TypeOK

LEMMA EndStep ==
  ASSUME AccessInv, NEW k \in Tokens, Access!EndSession(k)
  PROVE  AccessInv'
  <1>1. /\ users' = users /\ attempts' = attempts /\ requests' = requests
        /\ sessions' = [sessions EXCEPT ![k] = None]
    BY DEF Access!EndSession
  <1>2. Access!TypeOK'
    BY <1>1 DEF AccessInv, Access!TypeOK, Access!Exists
  <1>3. QED
    BY <1>1, <1>2 DEF AccessInv, LocksApart, StillAllowed, LoginsExist, Checked, Cmd, Access!Cmd,
       Access!In, Apart, Access!Inserts, Access!Allowed, Access!UpdateAllowed, Access!After,
       Access!AdministratorRemains, Access!Administers, Access!Active, Access!Exists

LEMMA AccessInitially ==
  ASSUME Access!AccessAssumption, Access!Init
  PROVE  AccessInv
  <1>1. \A t \in Attempts : attempts[t] = Access!Idle /\ attempts[t].phase = "idle"
    BY DEF Access!Init, Access!Idle
  <1>2. /\ users \in [People -> Access!Account \cup {None}]
        /\ [role |-> "ADMIN", access |-> "on"] \in {users[u] : u \in People}
    BY DEF Access!Init, Access!AccessAssumption
  <1>3. Access!TypeOK
    BY <1>1, <1>2 DEF Access!Init, Access!TypeOK, Access!Exists, Access!AccessAssumption
  <1>4. LocksApart /\ StillAllowed /\ LoginsExist
    BY <1>1 DEF LocksApart, StillAllowed, LoginsExist, Checked, Access!In
  <1>5. Access!AdministratorRemains
    <2>1. PICK u \in People : users[u] = [role |-> "ADMIN", access |-> "on"]
      BY <1>2
    <2>2. users[u].role = "ADMIN" /\ users[u].access = "on" /\ users[u] \in Access!Account
      BY <2>1 DEF Access!Account, Access!AccessAssumption
    <2>3. QED
      BY <2>2 DEF Access!AdministratorRemains, Access!Administers, Access!Active, Access!Exists,
         Access!AccessAssumption
  <1>6. QED
    BY <1>3, <1>4, <1>5 DEF AccessInv

LEMMA AccessStep ==
  ASSUME Access!AccessAssumption, AccessInv, [Access!Next]_(Access!vars)
  PROVE  AccessInv'
  <1>1. CASE UNCHANGED Access!vars
    BY <1>1 DEF Access!vars, Access!rows, AccessInv, LocksApart, StillAllowed, LoginsExist,
       Checked, Cmd, Access!Cmd, Access!In, Apart, Access!Inserts, Access!Allowed,
       Access!UpdateAllowed, Access!After, Access!AdministratorRemains, Access!Administers,
       Access!Active, Access!Exists, Access!TypeOK
  <1>2. CASE Access!Next
    BY <1>2, BeginStep, CheckStep, RefuseStep, CommitStep, EndStep DEF Access!Next
  <1>3. QED
    BY <1>1, <1>2

(* The locks of tenant and account leave a checked command what it was     *)
(* checked against, an update the administrator it leaves behind           *)
(* (modules/users/admin-users.controller.ts:90-127).                       *)
THEOREM AccessInvariance ==
  ASSUME Access!AccessAssumption
  PROVE  Access!Spec => []AccessInv
  <1>1. Access!Init => AccessInv
    BY AccessInitially
  <1>2. AccessInv /\ [Access!Next]_(Access!vars) => AccessInv'
    BY AccessStep
  <1>3. QED
    BY <1>1, <1>2, PTL DEF Access!Spec

(* Only an update switches an account off, and it takes its sessions along;*)
(* no session of that account is under way, for a login that was checked   *)
(* refers to the account's row, which the update has locked.               *)
LEMMA SwitchedOff ==
  ASSUME Access!AccessAssumption, AccessInv, [Access!Next]_(Access!vars)
  PROVE  Access!AccessEndsWithItsSessions
  <1>1. SUFFICES ASSUME NEW u \in People, Access!Active(u), users'[u] # None,
                        users'[u].access = "off"
                 PROVE  /\ \A k \in Tokens : sessions'[k] # u
                        /\ ~\E t \in Attempts :
                              /\ attempts'[t].phase = "checked"
                              /\ Cmd(t).kind = "login" /\ Cmd(t).who = u
    BY DEF Access!AccessEndsWithItsSessions, Cmd
  <1>2. users' # users
    BY <1>1 DEF Access!Active
  <1>3. PICK t \in Attempts :
          Access!AddAccount(t) \/ Access!UpdateAccount(t) \/ Access!InstallBitrix(t)
    BY <1>2 DEF Access!Next, Access!vars, Access!rows, Access!Begin, Access!LockAndCheck,
       Access!Refuse, Access!Login, Access!EndSession
  <1>4. /\ Checked(t) /\ Access!Allowed(Cmd(t)) /\ Cmd(t) \in Access!Command
        /\ attempts' = [attempts EXCEPT ![t] = Access!Idle]
    BY <1>3, AttemptHasCommand DEF Access!AddAccount, Access!UpdateAccount, Access!InstallBitrix,
       Access!Committing, Checked, Access!In, AccessInv, StillAllowed
  <1>5. Access!UpdateAccount(t) /\ u = Cmd(t).who
    <2>1. CASE Access!AddAccount(t)
      <3>1. /\ Cmd(t).kind \in {"add", "addUser"}
            /\ users' = [users EXCEPT ![Cmd(t).who] = [role |-> Cmd(t).role, access |-> "on"]]
        BY <2>1 DEF Access!AddAccount, Access!Committing, Cmd
      <3>2. ~Access!Exists(Cmd(t).who)
        BY <1>4, <3>1 DEF Access!Allowed
      <3>3. QED
        BY <1>1, <3>1, <3>2 DEF Access!Active, AccessInv, Access!TypeOK
    <2>2. CASE Access!InstallBitrix(t)
      BY <1>1, <1>2, <2>2 DEF Access!InstallBitrix, Access!Active, Access!Exists, AccessInv,
         Access!TypeOK
    <2>3. CASE Access!UpdateAccount(t)
      <3>1. users' = [users EXCEPT ![Cmd(t).who] = Access!After(Cmd(t))]
        BY <2>3 DEF Access!UpdateAccount, Cmd
      <3>2. QED
        BY <1>1, <2>3, <3>1 DEF Access!Active, AccessInv, Access!TypeOK
    <2>4. QED
      BY <1>3, <2>1, <2>2, <2>3
  <1>6. /\ Cmd(t).kind = "update"
        /\ users' = [users EXCEPT ![Cmd(t).who] = Access!After(Cmd(t))]
        /\ sessions' = IF Access!Active(Cmd(t).who) /\ Access!After(Cmd(t)).access = "off"
                       THEN [k \in Tokens |->
                               IF k \in Access!Open(Cmd(t).who) THEN None ELSE sessions[k]]
                       ELSE sessions
    BY <1>5 DEF Access!UpdateAccount, Access!Committing, Cmd
  <1>7. \A k \in Tokens : sessions'[k] # u
    <2>1. Access!After(Cmd(t)).access = "off"
      BY <1>1, <1>5, <1>6 DEF AccessInv, Access!TypeOK
    <2>2. \A k \in Tokens : sessions'[k] = IF sessions[k] = u THEN None ELSE sessions[k]
      BY <1>1, <1>5, <1>6, <2>1 DEF Access!Open
    <2>3. QED
      BY <2>2 DEF Access!AccessAssumption
  <1>8. ASSUME NEW v \in Attempts, attempts'[v].phase = "checked", Cmd(v).kind = "login",
               Cmd(v).who = u
        PROVE  FALSE
    <2>1. v # t /\ Checked(v)
      BY <1>4, <1>8 DEF Checked, Access!In, Access!Idle, AccessInv, Access!TypeOK
    <2>2. Apart(Cmd(t), Cmd(v))
      BY <1>4, <2>1 DEF AccessInv, LocksApart
    <2>3. QED
      BY <1>5, <1>6, <1>8, <2>2 DEF Apart
  <1>9. QED
    BY <1>7, <1>8

(* A session is given by a login that was checked, or by an installation,  *)
(* which has seen the administrator's account on and is apart from every   *)
(* command that could switch it off (bitrix.ts:74-76, 142-151).            *)
LEMMA SessionGiven ==
  ASSUME Access!AccessAssumption, AccessInv, [Access!Next]_(Access!vars)
  PROVE  Access!SessionsAreForTheActive
  <1>1. SUFFICES ASSUME NEW k \in Tokens, sessions'[k] # sessions[k], sessions'[k] # None
                 PROVE  \/ users'[sessions'[k]].access = "on"
                        \/ \E t \in Attempts :
                             /\ Checked(t) /\ attempts'[t] = Access!Idle
                             /\ Cmd(t).kind = "login" /\ Cmd(t).who = sessions'[k]
    BY DEF Access!SessionsAreForTheActive, Access!In, Checked, Cmd, Access!Cmd
  <1>2. PICK t \in Attempts :
          Access!UpdateAccount(t) \/ Access!Login(t) \/ Access!InstallBitrix(t)
    <2>1. CASE \E j \in Tokens : Access!EndSession(j)
      BY <1>1, <2>1 DEF Access!EndSession, AccessInv, Access!TypeOK
    <2>2. CASE ~\E j \in Tokens : Access!EndSession(j)
      BY <1>1, <2>2 DEF Access!Next, Access!vars, Access!rows, Access!Begin,
         Access!LockAndCheck, Access!Refuse, Access!AddAccount
    <2>3. QED
      BY <2>1, <2>2
  <1>3. Checked(t) /\ Access!Allowed(Cmd(t)) /\ attempts'[t] = Access!Idle
    BY <1>2 DEF Access!UpdateAccount, Access!Login, Access!InstallBitrix, Access!Committing,
       Checked, Access!In, AccessInv, StillAllowed, Access!TypeOK
  <1>4. CASE Access!UpdateAccount(t)
    BY <1>1, <1>4 DEF Access!UpdateAccount, AccessInv, Access!TypeOK
  <1>5. CASE Access!Login(t)
    <2>1. Cmd(t).kind = "login" /\ sessions'[k] = Cmd(t).who
      BY <1>1, <1>5 DEF Access!Login, Access!Committing, Access!OpenSession, Access!Open, Cmd,
         Access!Cmd, AccessInv, Access!TypeOK
    <2>2. QED
      BY <1>3, <2>1
  <1>6. CASE Access!InstallBitrix(t)
    <2>1. /\ Cmd(t).kind = "install" /\ sessions'[k] = Installer
          /\ users' = IF Access!Exists(Installer) THEN users
                      ELSE [users EXCEPT ![Installer] = [role |-> "ADMIN", access |-> "on"]]
      BY <1>1, <1>6 DEF Access!InstallBitrix, Access!Committing, Access!OpenSession,
         Access!Open, Cmd, Access!Cmd, AccessInv, Access!TypeOK
    <2>2. /\ Cmd(t).who = Installer /\ Installer \in People
          /\ ~Access!Exists(Installer) \/ Access!Active(Installer)
      <3>1. Cmd(t) \in Access!Command
        BY <1>3, AttemptHasCommand DEF Checked, Access!In, AccessInv
      <3>2. Cmd(t).who = Installer
        BY <2>1, <3>1 DEF Access!Command, Access!AdminCommand
      <3>3. QED
        BY <1>3, <2>1, <3>2 DEF Access!Allowed, Access!AccessAssumption
    <2>3. users'[Installer].access = "on"
      BY <2>1, <2>2 DEF Access!Active, AccessInv, Access!TypeOK
    <2>4. QED
      BY <2>1, <2>3
  <1>7. QED
    BY <1>2, <1>4, <1>5, <1>6

(* The organisation keeps an active administrator even when two of them    *)
(* switch each other off at once; the command that switches an account off *)
(* leaves it no session and no login that holds its row; and a session is  *)
(* given to an account that is on, or by a login that read it while it was *)
(* (modules/users/admin-users.controller.ts:108-122, bitrix.ts:74-76).     *)
THEOREM AccessStaysSound ==
  ASSUME Access!AccessAssumption
  PROVE  Access!Spec => AccessIsSound
  <1> DEFINE Kept == Access!AccessEndsWithItsSessions /\ Access!SessionsAreForTheActive
  <1>1. AccessInv => Access!TypeOK /\ Access!AdministratorRemains
    BY DEF AccessInv
  <1>2. AccessInv /\ [Access!Next]_(Access!vars) => [Kept]_(Access!vars)
    BY SwitchedOff, SessionGiven
  <1>3. QED
    BY <1>1, <1>2, AccessInvariance, PTL DEF AccessIsSound, Access!Spec, Access!AccessIsSound

-----------------------------------------------------------------------------
(* Tokens of the installation: the inductive invariant                     *)

Processes == Callers \cup Installers
Attempt == {Portal!Idle} \cup Portal!Reading \cup Portal!Exchanged \cup Portal!Installing
InTransaction(c) == c.phase \in Portal!Transaction
HoldsPair(c) == c.phase \in {"exchanged", "verified", "writing"}

\* What one process may rely on: who refreshes under the lock has the row as it
\* is, or will notice that it is not, and a pair in hand is nobody's yet.
Reliable(c) ==
  /\ c.phase = "refused" =>
       /\ c.seen.pair \in expired /\ c.seen.version <= row.version
       /\ c.seen.version = row.version => c.seen = row
  /\ c.phase \in {"exchanging", "exchanged"} => c.seen = row /\ row.pair \in expired
  /\ HoldsPair(c) => c.pair \in 1..issued /\ c.pair # row.pair /\ c.pair \notin spent
  /\ c.phase = "writing" => row.token \in {None, c.token}

OneTransaction ==
  \A t, u \in Processes : InTransaction(calls[t]) /\ InTransaction(calls[u]) => t = u

PairsDiffer ==
  \A t, u \in Processes :
    HoldsPair(calls[t]) /\ HoldsPair(calls[u]) /\ calls[t].pair = calls[u].pair => t = u

PortalInv ==
  /\ Portal!TypeOK /\ row.pair <= issued
  /\ OneTransaction
  /\ PairsDiffer
  /\ \A t \in Processes : Reliable(calls[t])
  /\ Portal!ExchangesAreNeeded
  /\ Portal!RowIsUsable

(* A process that moves and leaves the row and the pairs alone.  Who gives *)
(* an exchanged pair up has counted the spent one as lost.                 *)
LEMMA ProcessMoves ==
  ASSUME Portal!InstallationAssumption, PortalInv, NEW t \in Processes, NEW c \in Attempt,
         calls' = [calls EXCEPT ![t] = c],
         UNCHANGED <<row, issued, expired, spent>>,
         lost \subseteq lost', lost' \subseteq 1..issued,
         Reliable(c), c.phase # "exchanged",
         InTransaction(c) => Portal!RowIsFree(t),
         HoldsPair(c) => HoldsPair(calls[t]) /\ c.pair = calls[t].pair,
         calls[t].phase = "exchanged" => row.pair \in lost'
  PROVE  PortalInv'
  <1>1. /\ calls' \in [Processes -> Attempt] /\ calls'[t] = c
        /\ \A u \in Processes \ {t} : calls'[u] = calls[u]
    BY DEF PortalInv, Portal!TypeOK, Processes, Attempt
  <1>2. Portal!TypeOK' /\ row'.pair <= issued'
    BY <1>1 DEF PortalInv, Portal!TypeOK, Processes, Attempt
  <1>3. OneTransaction'
    <2>1. \A u \in Processes \ {t} : ~(InTransaction(c) /\ InTransaction(calls[u]))
      BY DEF Portal!RowIsFree, InTransaction, Processes
    <2>2. QED
      BY <1>1, <2>1 DEF PortalInv, OneTransaction, InTransaction
  <1>4. PairsDiffer'
    BY <1>1 DEF PortalInv, PairsDiffer, HoldsPair
  <1>5. \A u \in Processes : Reliable(calls[u])'
    <2>1. Reliable(calls[t])'
      BY <1>1 DEF Reliable, HoldsPair
    <2>2. ASSUME NEW u \in Processes \ {t}
          PROVE  Reliable(calls[u])'
      BY <1>1 DEF PortalInv, Reliable, HoldsPair
    <2>3. QED
      BY <2>1, <2>2
  <1>6. Portal!RowIsUsable'
    <2>1. SUFFICES ASSUME row.pair \in spent, row.pair \notin lost'
                   PROVE  \E u \in Callers : calls'[u].phase = "exchanged" /\ calls'[u].seen = row
      BY DEF Portal!RowIsUsable, Portal!In, Portal!Seen
    <2>2. PICK u \in Callers : calls[u].phase = "exchanged" /\ calls[u].seen = row
      BY <2>1 DEF PortalInv, Portal!RowIsUsable, Portal!In, Portal!Seen
    <2>3. u # t
      BY <2>1, <2>2
    <2>4. QED
      BY <1>1, <2>2, <2>3 DEF Processes
  <1>7. Portal!ExchangesAreNeeded'
    <2>1. SUFFICES ASSUME NEW u \in Callers, calls'[u].phase = "exchanging"
                   PROVE  /\ calls'[u].seen = row /\ row.pair \in expired
                          /\ row.pair \in spent => row.pair \in lost'
      BY DEF Portal!ExchangesAreNeeded, Portal!In, Portal!Seen
    <2>2. calls'[u].seen = row /\ row.pair \in expired
      BY <1>5, <2>1 DEF Reliable, Processes
    <2>3. ~\E v \in Callers : calls'[v].phase = "exchanged"
      BY <1>3, <2>1 DEF OneTransaction, InTransaction, Portal!Transaction, Processes
    <2>4. row.pair \in spent => row.pair \in lost'
      BY <1>6, <2>3 DEF Portal!RowIsUsable, Portal!In
    <2>5. QED
      BY <2>2, <2>4
  <1>8. QED
    BY <1>2, <1>3, <1>4, <1>5, <1>6, <1>7 DEF PortalInv

LEMMA IdleIsReliable ==
  /\ Portal!Idle \in Attempt /\ Reliable(Portal!Idle)
  /\ Portal!Idle.phase = "idle"
  /\ ~InTransaction(Portal!Idle) /\ ~HoldsPair(Portal!Idle)
  BY DEF Portal!Idle, Attempt, Reliable, InTransaction, HoldsPair, Portal!Transaction

(* The call that finds its token expired, and the row it read.             *)
LEMMA CallStep ==
  ASSUME Portal!InstallationAssumption, PortalInv, NEW t \in Processes,
         Portal!Call(t) \/ Portal!LockRow(t) \/ Portal!LockTenant(t) \/ Portal!Abort(t)
  PROVE  PortalInv'
  <1>1. /\ UNCHANGED <<row, issued, expired, spent>>
        /\ calls[t] \in Attempt /\ Reliable(calls[t]) /\ lost \subseteq 1..issued
    BY DEF Portal!Call, Portal!LockRow, Portal!LockTenant, Portal!Abort, Portal!server,
       PortalInv, Portal!TypeOK, Processes, Attempt
  <1>2. CASE Portal!Call(t)
    <2> DEFINE c == IF row.pair \in expired THEN [phase |-> "refused", seen |-> row]
                    ELSE Portal!Idle
    <2>1. /\ calls' = [calls EXCEPT ![t] = c] /\ lost' = lost
          /\ calls[t].phase = "idle"
      BY <1>2 DEF Portal!Call, Portal!Become, Portal!In
    <2>2. c \in Attempt /\ Reliable(c) /\ c.phase \in {"idle", "refused"}
      BY IdleIsReliable DEF Attempt, Portal!Reading, Reliable, HoldsPair, PortalInv,
         Portal!TypeOK, Portal!Row
    <2> HIDE DEF c
    <2>3. c.phase # "exchanged" /\ ~InTransaction(c) /\ ~HoldsPair(c)
      BY <2>2 DEF InTransaction, HoldsPair, Portal!Transaction
    <2>4. QED
      BY <1>1, <2>1, <2>2, <2>3, ProcessMoves
  <1>3. CASE Portal!LockRow(t)
    <2> DEFINE c == IF row.version # calls[t].seen.version THEN Portal!Idle
                    ELSE [phase |-> "exchanging", seen |-> row]
    <2>1. /\ calls' = [calls EXCEPT ![t] = c] /\ lost' = lost
          /\ calls[t].phase = "refused" /\ Portal!RowIsFree(t)
      BY <1>3 DEF Portal!LockRow, Portal!Become, Portal!In, Portal!Seen
    <2>2. row.version = calls[t].seen.version => row.pair \in expired
      BY <1>1, <2>1 DEF Reliable
    <2>3. c \in Attempt /\ Reliable(c) /\ c.phase \in {"idle", "exchanging"}
      BY <2>2, IdleIsReliable DEF Attempt, Portal!Reading, Reliable, HoldsPair, PortalInv,
         Portal!TypeOK
    <2> HIDE DEF c
    <2>4. c.phase # "exchanged" /\ ~HoldsPair(c)
      BY <2>3 DEF HoldsPair
    <2>5. QED
      BY <1>1, <2>1, <2>3, <2>4, ProcessMoves
  <1>4. CASE Portal!LockTenant(t)
    <2> DEFINE c == [calls[t] EXCEPT !.phase = "writing"]
    <2>1. /\ calls' = [calls EXCEPT ![t] = c] /\ lost' = lost
          /\ calls[t].phase = "verified" /\ Portal!RowIsFree(t)
          /\ row.token \in {None, calls[t].token}
      BY <1>4 DEF Portal!LockTenant, Portal!Become, Portal!In, Portal!MatchesStill, Portal!Matches
    <2>2. calls[t] \in Portal!Installing
      BY <1>1, <2>1 DEF Attempt, Portal!Idle, Portal!Reading, Portal!Exchanged
    <2>3. /\ c \in Portal!Installing /\ c.phase = "writing"
          /\ c.pair = calls[t].pair /\ c.token = calls[t].token
      BY <2>2 DEF Portal!Installing
    <2> HIDE DEF c
    <2>4. /\ c \in Attempt /\ Reliable(c) /\ c.phase # "exchanged" /\ HoldsPair(calls[t])
      BY <1>1, <2>1, <2>3 DEF Attempt, Reliable, HoldsPair
    <2>5. QED
      BY <1>1, <2>1, <2>3, <2>4, ProcessMoves
  <1>5. CASE Portal!Abort(t)
    <2>1. /\ calls' = [calls EXCEPT ![t] = Portal!Idle]
          /\ lost' = IF calls[t].phase = "exchanged" THEN lost \cup {calls[t].seen.pair} ELSE lost
      BY <1>5 DEF Portal!Abort, Portal!Become, Portal!In, Portal!Seen
    <2>2. calls[t].phase = "exchanged" => calls[t].seen = row /\ row.pair \in 1..issued
      BY <1>1 DEF Reliable, PortalInv, Portal!TypeOK
    <2>3. /\ lost \subseteq lost' /\ lost' \subseteq 1..issued
          /\ calls[t].phase = "exchanged" => row.pair \in lost'
      BY <1>1, <2>1, <2>2
    <2>4. QED
      BY <1>1, <2>1, <2>3, IdleIsReliable, ProcessMoves
  <1>6. QED
    BY <1>2, <1>3, <1>4, <1>5

(* A token that runs out spoils no pair in hand.                           *)
LEMMA ExpireStep ==
  ASSUME PortalInv, NEW pair \in 1..MaxPairs, Portal!Expire(pair)
  PROVE  PortalInv'
  <1>1. /\ expired \subseteq expired' /\ expired' \subseteq expired \cup (1..issued)
        /\ UNCHANGED <<row, issued, spent, lost, calls>>
    BY DEF Portal!Expire
  <1>2. Portal!TypeOK' /\ row'.pair <= issued'
    BY <1>1 DEF PortalInv, Portal!TypeOK
  <1>3. \A u \in Processes : Reliable(calls[u])'
    BY <1>1 DEF PortalInv, Reliable, HoldsPair
  <1>4. OneTransaction' /\ PairsDiffer'
    BY <1>1 DEF PortalInv, OneTransaction, PairsDiffer, InTransaction, HoldsPair
  <1>5. Portal!ExchangesAreNeeded' /\ Portal!RowIsUsable'
    BY <1>1 DEF PortalInv, Portal!ExchangesAreNeeded, Portal!RowIsUsable, Portal!In, Portal!Seen
  <1>6. QED
    BY <1>2, <1>3, <1>4, <1>5 DEF PortalInv

(* A pair issued by the portal is nobody's before, and spends at most the  *)
(* row's own, which no one holds.                                          *)
LEMMA PairIssued ==
  ASSUME Portal!InstallationAssumption, PortalInv, NEW t \in Processes, NEW c \in Attempt,
         issued < MaxPairs,
         calls' = [calls EXCEPT ![t] = c], issued' = issued + 1,
         UNCHANGED <<row, expired, lost>>,
         HoldsPair(c), c.pair = issued + 1,
         c.phase = "exchanged" => c.seen = row /\ row.pair \in expired,
         c.phase # "writing",
         InTransaction(c) => InTransaction(calls[t]),
         spent' \in {spent, spent \cup {row.pair}},
         spent' # spent => row.pair \in expired
  PROVE  /\ Portal!TypeOK' /\ row'.pair <= issued'
         /\ OneTransaction' /\ PairsDiffer'
         /\ \A u \in Processes : Reliable(calls[u])'
  <1>1. /\ calls' \in [Processes -> Attempt] /\ calls'[t] = c
        /\ \A u \in Processes \ {t} : calls'[u] = calls[u]
    BY DEF PortalInv, Portal!TypeOK, Processes, Attempt
  <1>2. issued' \in 0..MaxPairs /\ row.pair \in 0..issued /\ issued \in Nat /\ MaxPairs \in Int
    BY DEF Portal!InstallationAssumption, PortalInv, Portal!TypeOK, Portal!Row
  <1>3. expired \cup spent \cup lost \subseteq 1..issued /\ spent' \subseteq 1..issued
    BY DEF PortalInv, Portal!TypeOK
  <1>4. expired' \cup spent' \cup lost' \subseteq 1..issued'
    BY <1>2, <1>3
  <1>5. Portal!TypeOK' /\ row'.pair <= issued'
    BY <1>1, <1>2, <1>4 DEF PortalInv, Portal!TypeOK, Processes, Attempt
  <1>6. OneTransaction'
    BY <1>1 DEF PortalInv, OneTransaction, InTransaction
  <1>7. \A u \in Processes : HoldsPair(calls[u]) => calls[u].pair \in 1..issued
    BY DEF PortalInv, Reliable
  <1>8. PairsDiffer'
    <2>1. SUFFICES ASSUME NEW u \in Processes, NEW v \in Processes, HoldsPair(calls'[u]),
                          HoldsPair(calls'[v]), calls'[u].pair = calls'[v].pair, u # v
                   PROVE  FALSE
      BY DEF PairsDiffer, HoldsPair
    <2>2. CASE u # t /\ v # t
      BY <1>1, <2>1, <2>2 DEF PortalInv, PairsDiffer
    <2>3. CASE u = t
      <3>1. HoldsPair(calls[v]) /\ calls[v].pair = issued + 1
        BY <1>1, <2>1, <2>3
      <3>2. QED
        BY <1>2, <1>7, <3>1
    <2>4. CASE v = t
      <3>1. HoldsPair(calls[u]) /\ calls[u].pair = issued + 1
        BY <1>1, <2>1, <2>4
      <3>2. QED
        BY <1>2, <1>7, <3>1
    <2>5. QED
      BY <2>2, <2>3, <2>4
  <1>9. ASSUME NEW u \in Processes PROVE Reliable(calls[u])'
    <2>1. CASE u = t
      <3>1. c.phase \notin {"refused", "exchanging", "writing"}
        BY DEF HoldsPair
      <3>2. issued + 1 \in 1..issued' /\ issued + 1 # row.pair /\ issued + 1 \notin spent'
        BY <1>2, <1>3
      <3>3. QED
        BY <1>1, <2>1, <3>1, <3>2 DEF Reliable, HoldsPair
    <2>2. CASE u # t
      <3>1. Reliable(calls[u]) /\ calls'[u] = calls[u]
        BY <1>1, <2>2 DEF PortalInv
      <3>2. HoldsPair(calls[u]) => calls[u].pair \in 1..issued' /\ calls[u].pair \notin spent'
        BY <1>2, <3>1 DEF Reliable
      <3>3. QED
        BY <3>1, <3>2 DEF Reliable, HoldsPair
    <2>3. QED
      BY <2>1, <2>2
  <1>10. QED
    BY <1>5, <1>6, <1>8, <1>9

(* The exchange is made under the lock, so the pair it spends is the row's.*)
LEMMA ExchangeStep ==
  ASSUME Portal!InstallationAssumption, PortalInv, NEW t \in Callers, Portal!Exchange(t)
  PROVE  PortalInv'
  <1> DEFINE c == [phase |-> "exchanged", seen |-> row, pair |-> issued + 1]
  <1>1. /\ calls[t].phase = "exchanging" /\ issued < MaxPairs /\ t \in Processes
        /\ calls[t].seen = row /\ row.pair \in expired
    BY DEF Portal!Exchange, Portal!In, PortalInv, Reliable, Processes
  <1>2. /\ calls' = [calls EXCEPT ![t] = c] /\ issued' = issued + 1
        /\ spent' = spent \cup {row.pair}
        /\ UNCHANGED <<row, expired, lost>>
    BY <1>1 DEF Portal!Exchange, Portal!Become, Portal!Seen
  <1>3. c \in Portal!Exchanged
    BY <1>1 DEF Portal!InstallationAssumption, Portal!Exchanged, PortalInv, Portal!TypeOK
  <1>4. c.phase = "exchanged" /\ c.seen = row /\ c.pair = issued + 1
    OBVIOUS
  <1> HIDE DEF c
  <1>5. /\ c \in Attempt /\ HoldsPair(c) /\ c.phase # "writing"
        /\ InTransaction(c) /\ InTransaction(calls[t])
    BY <1>1, <1>3, <1>4 DEF Attempt, HoldsPair, InTransaction, Portal!Transaction
  <1>6. /\ Portal!TypeOK' /\ row'.pair <= issued'
        /\ OneTransaction' /\ PairsDiffer'
        /\ \A u \in Processes : Reliable(calls[u])'
    BY <1>1, <1>2, <1>4, <1>5, PairIssued
  <1>7. calls'[t] = c
    BY <1>1, <1>2 DEF PortalInv, Portal!TypeOK, Processes
  <1>8. Portal!ExchangesAreNeeded'
    <2>1. SUFFICES ASSUME NEW u \in Callers, calls'[u].phase = "exchanging"
                   PROVE  FALSE
      BY DEF Portal!ExchangesAreNeeded, Portal!In
    <2>2. u = t
      BY <1>1, <1>4, <1>6, <1>7, <2>1
         DEF OneTransaction, InTransaction, Portal!Transaction, Processes
    <2>3. QED
      BY <1>4, <1>7, <2>1, <2>2
  <1>9. Portal!RowIsUsable'
    BY <1>2, <1>4, <1>7 DEF Portal!RowIsUsable, Portal!In, Portal!Seen
  <1>10. QED
    BY <1>6, <1>8, <1>9 DEF PortalInv

(* An installation takes a pair of its own, outside any transaction.       *)
LEMMA InstallStep ==
  ASSUME Portal!InstallationAssumption, PortalInv, NEW t \in Installers,
         NEW token \in ApplicationTokens,
         Portal!Install(t, token)
  PROVE  PortalInv'
  <1> DEFINE c == [phase |-> "verified", token |-> token, pair |-> issued + 1]
  <1>1. calls[t].phase = "idle" /\ issued < MaxPairs /\ t \in Processes
    BY DEF Portal!Install, Portal!In, Processes
  <1>2. /\ calls' = [calls EXCEPT ![t] = c] /\ issued' = issued + 1
        /\ UNCHANGED <<row, expired, spent, lost>>
    BY DEF Portal!Install, Portal!Become
  <1>3. c \in Portal!Installing
    BY <1>1 DEF Portal!InstallationAssumption, Portal!Installing, PortalInv, Portal!TypeOK
  <1>4. c.phase = "verified" /\ c.pair = issued + 1
    OBVIOUS
  <1> HIDE DEF c
  <1>5. /\ c \in Attempt /\ HoldsPair(c) /\ ~InTransaction(c)
    BY <1>3, <1>4 DEF Attempt, HoldsPair, InTransaction, Portal!Transaction
  <1>6. /\ Portal!TypeOK' /\ row'.pair <= issued'
        /\ OneTransaction' /\ PairsDiffer'
        /\ \A u \in Processes : Reliable(calls[u])'
    BY <1>1, <1>2, <1>4, <1>5, PairIssued
  <1>7. /\ calls'[t].phase = "verified"
        /\ \A u \in Processes \ {t} : calls'[u] = calls[u]
    BY <1>1, <1>2, <1>4 DEF PortalInv, Portal!TypeOK, Processes
  <1>8. Portal!ExchangesAreNeeded' /\ Portal!RowIsUsable'
    <2>1. \A u \in Callers : calls'[u].phase = "exchanging" => calls'[u] = calls[u]
      BY <1>7 DEF Processes
    <2>2. \A u \in Callers : calls[u].phase = "exchanged" => calls'[u] = calls[u]
      BY <1>1, <1>7 DEF Processes
    <2>3. QED
      BY <1>2, <2>1, <2>2
         DEF PortalInv, Portal!ExchangesAreNeeded, Portal!RowIsUsable, Portal!In, Portal!Seen
  <1>9. QED
    BY <1>6, <1>8 DEF PortalInv

(* Who writes the row has it locked, and gives it a pair that is new; who  *)
(* read it before will notice by its version.                              *)
LEMMA RowWritten ==
  ASSUME Portal!InstallationAssumption, PortalInv, NEW t \in Processes,
         InTransaction(calls[t]), HoldsPair(calls[t]),
         NEW token \in ApplicationTokens \cup {None},
         row' = [pair |-> calls[t].pair, version |-> row.version + 1, token |-> token],
         calls' = [calls EXCEPT ![t] = Portal!Idle],
         UNCHANGED <<issued, expired, spent, lost>>
  PROVE  PortalInv'
  <1>1. /\ calls' \in [Processes -> Attempt] /\ calls'[t] = Portal!Idle
        /\ \A u \in Processes \ {t} : calls'[u] = calls[u]
    BY IdleIsReliable DEF PortalInv, Portal!TypeOK, Processes, Attempt
  <1>2. /\ calls[t].pair \in 1..issued /\ calls[t].pair \notin spent
        /\ row.version \in Nat /\ issued \in 0..MaxPairs /\ MaxPairs \in Int
    BY DEF Portal!InstallationAssumption, PortalInv, Reliable, Portal!TypeOK, Portal!Row
  <1>3. row'.pair = calls[t].pair /\ row'.version = row.version + 1 /\ row' \in Portal!Row
    BY <1>2 DEF Portal!Row
  <1>4. Portal!TypeOK' /\ row'.pair <= issued'
    BY <1>1, <1>2, <1>3 DEF PortalInv, Portal!TypeOK, Processes, Attempt
  <1>5. \A u \in Processes : ~InTransaction(calls'[u])
    BY <1>1, IdleIsReliable DEF PortalInv, OneTransaction
  <1>6. OneTransaction'
    BY <1>5 DEF OneTransaction, InTransaction
  <1>7. PairsDiffer'
    BY <1>1, IdleIsReliable DEF PortalInv, PairsDiffer, HoldsPair
  <1>8. ASSUME NEW u \in Processes PROVE Reliable(calls[u])'
    <2>1. CASE u = t
      BY <1>1, <2>1, IdleIsReliable DEF Reliable, HoldsPair, Portal!Idle
    <2>2. CASE u # t
      <3>1. Reliable(calls[u]) /\ calls'[u] = calls[u] /\ ~InTransaction(calls[u])
        BY <1>1, <1>5, <2>2 DEF PortalInv
      <3>2. HoldsPair(calls[u]) => calls[u].pair # row'.pair
        BY <1>3, <2>2 DEF PortalInv, PairsDiffer
      <3>3. calls[u].phase = "refused" =>
              /\ calls[u].seen.version <= row'.version /\ calls[u].seen.version # row'.version
        <4>1. SUFFICES ASSUME calls[u].phase = "refused"
                       PROVE  /\ calls[u].seen.version <= row'.version
                              /\ calls[u].seen.version # row'.version
          OBVIOUS
        <4>2. calls[u] \in Portal!Reading
          BY <4>1 DEF PortalInv, Portal!TypeOK, Portal!Idle, Portal!Exchanged,
             Portal!Installing, Processes
        <4>3. calls[u].seen.version \in Nat /\ calls[u].seen.version <= row.version
          BY <3>1, <4>1, <4>2 DEF Portal!Reading, Portal!Row, Reliable
        <4>4. QED
          BY <1>2, <1>3, <4>3
      <3>4. QED
        BY <3>1, <3>2, <3>3 DEF Reliable, HoldsPair, InTransaction, Portal!Transaction
    <2>3. QED
      BY <2>1, <2>2
  <1>9. Portal!ExchangesAreNeeded'
    BY <1>5 DEF Portal!ExchangesAreNeeded, Portal!In, InTransaction, Portal!Transaction, Processes
  <1>10. Portal!RowIsUsable'
    BY <1>2, <1>3 DEF Portal!RowIsUsable
  <1>11. QED
    BY <1>4, <1>6, <1>7, <1>8, <1>9, <1>10 DEF PortalInv

LEMMA WriteStep ==
  ASSUME Portal!InstallationAssumption, PortalInv, NEW t \in Processes,
         Portal!Refresh(t) \/ Portal!StoreInstallation(t)
  PROVE  PortalInv'
  <1>1. row.token \in ApplicationTokens \cup {None}
    BY DEF PortalInv, Portal!TypeOK, Portal!Row
  <1>2. CASE Portal!Refresh(t)
    <2>1. InTransaction(calls[t]) /\ HoldsPair(calls[t])
      BY <1>2 DEF Portal!Refresh, Portal!In, InTransaction, HoldsPair, Portal!Transaction
    <2>2. /\ row' = [pair |-> calls[t].pair, version |-> row.version + 1, token |-> row.token]
          /\ calls' = [calls EXCEPT ![t] = Portal!Idle]
          /\ UNCHANGED <<issued, expired, spent, lost>>
      BY <1>2 DEF Portal!Refresh, Portal!Write, Portal!Become, Portal!server
    <2>3. QED
      BY <1>1, <2>1, <2>2, RowWritten
  <1>3. CASE Portal!StoreInstallation(t)
    <2>1. calls[t].phase = "writing" /\ InTransaction(calls[t]) /\ HoldsPair(calls[t])
      BY <1>3 DEF Portal!StoreInstallation, Portal!In, InTransaction, HoldsPair,
         Portal!Transaction
    <2>2. /\ row' = [pair |-> calls[t].pair, version |-> row.version + 1,
                     token |-> calls[t].token]
          /\ calls' = [calls EXCEPT ![t] = Portal!Idle]
          /\ UNCHANGED <<issued, expired, spent, lost>>
      BY <1>3 DEF Portal!StoreInstallation, Portal!Write, Portal!Become, Portal!server
    <2>3. calls[t].token \in ApplicationTokens
      BY <2>1 DEF PortalInv, Portal!TypeOK, Portal!Idle, Portal!Reading, Portal!Exchanged,
         Portal!Installing, Processes
    <2>4. QED
      BY <2>1, <2>2, <2>3, RowWritten
  <1>4. QED
    BY <1>2, <1>3

LEMMA PortalInitially ==
  ASSUME Portal!InstallationAssumption, Portal!Init
  PROVE  PortalInv
  <1>1. \A t \in Processes : calls[t] = Portal!Idle
    BY DEF Portal!Init, Processes
  <1>2. Portal!TypeOK /\ row.pair <= issued
    BY DEF Portal!Init, Portal!TypeOK, Portal!Row, Portal!InstallationAssumption
  <1>3. /\ \A t \in Processes : Reliable(calls[t])
        /\ OneTransaction /\ PairsDiffer
    BY <1>1, IdleIsReliable DEF OneTransaction, PairsDiffer
  <1>4. Portal!ExchangesAreNeeded
    BY <1>1, IdleIsReliable DEF Portal!ExchangesAreNeeded, Portal!In, Processes
  <1>5. Portal!RowIsUsable
    BY DEF Portal!Init, Portal!RowIsUsable
  <1>6. QED
    BY <1>2, <1>3, <1>4, <1>5 DEF PortalInv

LEMMA PortalStep ==
  ASSUME Portal!InstallationAssumption, PortalInv, [Portal!Next]_(Portal!vars)
  PROVE  PortalInv'
  <1>1. CASE UNCHANGED Portal!vars
    BY <1>1 DEF Portal!vars, Portal!server, PortalInv, OneTransaction, PairsDiffer, Reliable,
       InTransaction, HoldsPair, Portal!TypeOK, Portal!ExchangesAreNeeded, Portal!RowIsUsable,
       Portal!In, Portal!Seen
  <1>2. CASE Portal!Next
    BY <1>2, ExpireStep, CallStep, ExchangeStep, InstallStep, WriteStep
       DEF Portal!Next, Processes
  <1>3. QED
    BY <1>1, <1>2

(* Under the row's lock a pair is exchanged once, and a pair in hand is    *)
(* nobody else's (integrations/bitrix/bitrix.ts:41-60).                    *)
THEOREM PortalInvariance ==
  ASSUME Portal!InstallationAssumption
  PROVE  Portal!Spec => []PortalInv
  <1>1. Portal!Init => PortalInv
    BY PortalInitially
  <1>2. PortalInv /\ [Portal!Next]_(Portal!vars) => PortalInv'
    BY PortalStep
  <1>3. QED
    BY <1>1, <1>2, PTL DEF Portal!Spec

(* A refresh writes the token back; an installation checked it under the   *)
(* lock it still holds.                                                    *)
LEMMA TokenStays ==
  ASSUME PortalInv, [Portal!Next]_(Portal!vars)
  PROVE  Portal!BindingStays
  <1>1. CASE row' = row
    BY <1>1 DEF Portal!BindingStays
  <1>2. CASE row' # row
    <2>1. PICK t \in Processes : Portal!Refresh(t) \/ Portal!StoreInstallation(t)
      BY <1>2 DEF Portal!Next, Portal!vars, Portal!Expire, Portal!Call, Portal!LockRow,
         Portal!Exchange, Portal!Abort, Portal!Install, Portal!LockTenant, Processes
    <2>2. Portal!StoreInstallation(t) => row.token \in {None, calls[t].token}
      BY DEF PortalInv, Reliable, Portal!StoreInstallation, Portal!In
    <2>3. QED
      BY <2>1, <2>2 DEF Portal!BindingStays, Portal!Refresh, Portal!StoreInstallation,
         Portal!Write
  <1>3. QED
    BY <1>1, <1>2

(* However many calls find the token expired at once, it is exchanged for  *)
(* one of them; the row keeps a pair that can be refreshed unless a        *)
(* transaction was lost after its exchange; and the application token is   *)
(* never replaced by another (integrations/bitrix/bitrix.ts:41-43, 139-144).*)
THEOREM InstallationStaysUsable ==
  ASSUME Portal!InstallationAssumption
  PROVE  Portal!Spec => InstallationIsUsable
  <1> DEFINE Kept == Portal!BindingStays
  <1>1. PortalInv => Portal!TypeOK /\ Portal!ExchangesAreNeeded /\ Portal!RowIsUsable
    BY DEF PortalInv
  <1>2. PortalInv /\ [Portal!Next]_(Portal!vars) => [Kept]_(Portal!vars)
    BY TokenStays
  <1>3. QED
    BY <1>1, <1>2, PortalInvariance, PTL
       DEF InstallationIsUsable, Portal!Spec, Portal!InstallationIsUsable
-----------------------------------------------------------------------------
(* Files: the inductive invariant                                          *)

Runs == {"admitted"} \cup Storage!Holding
Running == {u \in Uploads : uploads[u].phase \in Runs}

\* The gate: who waits is in the queue once, who runs is counted once.
GateInv ==
  /\ waiting \in Seq(Uploads)
  /\ \A i \in DOMAIN waiting : uploads[waiting[i]].phase = "queued"
  /\ \A i, j \in DOMAIN waiting : waiting[i] = waiting[j] => i = j
  /\ IsFiniteSet(Running) /\ active = Cardinality(Running)
  /\ waiting # <<>> => active = Limit

\* Where a request can be with what Disk and the database have of its file.
\* What a failed request does not track is not on Disk or was named already.
PlacedAs(u, r, d) ==
  /\ r.phase \in {"idle", "queued", "admitted", "uploading"} => d = "none"
  /\ r.phase = "verify" => d \in Storage!OnDisk
  /\ r.phase \in {"uploaded", "recorded"} => d = "stored"
  /\ r.phase \in {"refused", "rejected"} => u \in named
  /\ r.phase = "failed" /\ ~r.tracked => d = "none" \/ u \in named
  /\ r.phase = "done" => d = "none" \/ u \in records \cup named \cup crashed
  /\ d = "flying" => r.phase = "lookup" \/ u \in named \cup crashed
  /\ u \in records \ unsure => r.phase = "done" /\ d = "stored"
Placed(u) == PlacedAs(u, uploads[u], disk[u])

StorageInv == Storage!TypeOK /\ GateInv /\ \A u \in Uploads : Placed(u)

(* The instance has the library's Cardinality.                             *)
LEMMA SameCardinality ==
  ASSUME NEW S
  PROVE  Storage!Cardinality(S) = Cardinality(S)
  BY DEF Storage!Cardinality, Cardinality

(* The bound on who runs, from which the pool's follows.                   *)
LEMMA GateBounds ==
  ASSUME Storage!StorageAssumption, StorageInv
  PROVE  Storage!PoolIsNotExhausted /\ Storage!GateIsExact
  <1> DEFINE Held == {u \in Uploads : uploads[u].phase \in Storage!Holding}
  <1>1. Cardinality(Held) <= Cardinality(Running) /\ Cardinality(Held) \in Nat
    <2>1. Held \in SUBSET Running
      BY DEF Running, Runs
    <2>2. IsFiniteSet(Running)
      BY DEF StorageInv, GateInv
    <2> HIDE DEF Held
    <2>3. QED
      BY <2>1, <2>2, FS_Subset, FS_CardinalityType
  <1>2. Cardinality(Running) <= Limit /\ Cardinality(Running) \in Nat
    BY DEF StorageInv, GateInv, Storage!TypeOK, Storage!StorageAssumption
  <1>3. Storage!PoolIsNotExhausted
    <2> HIDE DEF Held
    <2>1. Cardinality(Held) + Others < PoolMax
      BY <1>1, <1>2 DEF Storage!StorageAssumption
    <2>2. QED
      BY <2>1, SameCardinality DEF Storage!PoolIsNotExhausted, Held
  <1>4. Storage!GateIsExact
    BY SameCardinality DEF StorageInv, GateInv, Storage!GateIsExact, Running, Runs
  <1>5. QED
    BY <1>3, <1>4

(* A request that neither enters nor leaves the gate changes nothing there.*)
LEMMA StaysInGate ==
  ASSUME Storage!TypeOK, GateInv, UNCHANGED <<active, waiting>>,
         NEW u \in Uploads, uploads[u].phase # "queued",
         uploads[u].phase \in Runs <=> uploads'[u].phase \in Runs,
         \A v \in Uploads \ {u} : uploads'[v] = uploads[v]
  PROVE  GateInv'
  <1>1. Running' = Running
    BY DEF Running
  <1>2. \A i \in DOMAIN waiting : waiting[i] \in Uploads /\ waiting[i] # u
    BY DEF GateInv
  <1>3. \A i \in DOMAIN waiting' : uploads'[waiting'[i]].phase = "queued"
    BY <1>2 DEF GateInv
  <1>4. QED
    BY <1>1, <1>3 DEF GateInv

(* Gate.run: a request that gets a slot is counted, one that does not is   *)
(* the last of the queue.                                                  *)
LEMMA Arrives ==
  ASSUME Storage!StorageAssumption, Storage!TypeOK, GateInv,
         NEW u \in Uploads, Storage!Arrive(u)
  PROVE  /\ GateInv' /\ active' \in 0..Limit
         /\ \E phase \in {"admitted", "queued"} :
              uploads' = [uploads EXCEPT ![u].phase = phase]
  <1>1. uploads[u].phase = "idle" /\ u \notin Running
    BY DEF Storage!Arrive, Storage!In, Running, Runs, Storage!Holding
  <1>2. \A i \in DOMAIN waiting : waiting[i] \in Uploads /\ waiting[i] # u
    BY <1>1 DEF GateInv
  <1>3. CASE active < Limit
    <2>1. /\ active' = active + 1 /\ waiting' = waiting
          /\ uploads' = [uploads EXCEPT ![u].phase = "admitted"]
      BY <1>3 DEF Storage!Arrive, Storage!Move
    <2>2. /\ uploads'[u].phase = "admitted"
          /\ \A v \in Uploads \ {u} : uploads'[v] = uploads[v]
      BY <2>1 DEF Storage!TypeOK, Storage!Request
    <2>3. Running' = Running \cup {u}
      BY <2>2 DEF Running, Runs
    <2>4. IsFiniteSet(Running') /\ active' = Cardinality(Running')
      BY <1>1, <2>1, <2>3, FS_AddElement DEF GateInv
    <2>5. waiting = <<>>
      BY <1>3 DEF GateInv, Storage!TypeOK, Storage!StorageAssumption
    <2>6. GateInv'
      BY <2>1, <2>4, <2>5 DEF GateInv
    <2>7. QED
      BY <1>3, <2>1, <2>6 DEF Storage!TypeOK, Storage!StorageAssumption
  <1>4. CASE ~(active < Limit)
    <2>1. /\ waiting' = Append(waiting, u) /\ active' = active
          /\ uploads' = [uploads EXCEPT ![u].phase = "queued"]
      BY <1>4 DEF Storage!Arrive, Storage!Move
    <2>2. /\ uploads'[u].phase = "queued"
          /\ \A v \in Uploads \ {u} : uploads'[v] = uploads[v]
      BY <2>1 DEF Storage!TypeOK, Storage!Request
    <2>3. Running' = Running
      BY <1>1, <2>2 DEF Running, Runs, Storage!Holding
    <2>4. /\ waiting' \in Seq(Uploads) /\ Len(waiting') = Len(waiting) + 1
          /\ waiting'[Len(waiting) + 1] = u
          /\ \A i \in 1..Len(waiting) : waiting'[i] = waiting[i]
      BY <2>1, AppendProperties DEF GateInv
    <2>5. /\ DOMAIN waiting = 1..Len(waiting) /\ DOMAIN waiting' = 1..Len(waiting')
          /\ Len(waiting) \in Nat
      BY <2>4 DEF GateInv
    <2>6. \A i \in DOMAIN waiting' :
            i = Len(waiting) + 1 \/ (i \in DOMAIN waiting /\ waiting'[i] = waiting[i])
      BY <2>4, <2>5
    <2>7. \A i \in DOMAIN waiting' : uploads'[waiting'[i]].phase = "queued"
      BY <1>2, <2>2, <2>4, <2>6 DEF GateInv
    <2>8. \A i, j \in DOMAIN waiting' : waiting'[i] = waiting'[j] => i = j
      BY <1>2, <2>4, <2>6 DEF GateInv
    <2>9. active' = Limit
      BY <1>4, <2>1 DEF Storage!TypeOK, Storage!StorageAssumption
    <2>10. IsFiniteSet(Running') /\ active' = Cardinality(Running')
      BY <2>1, <2>3 DEF GateInv
    <2>11. GateInv'
      BY <2>4, <2>7, <2>8, <2>9, <2>10 DEF GateInv
    <2>12. QED
      BY <2>1, <2>11 DEF Storage!TypeOK
  <1>5. QED
    BY <1>3, <1>4

(* The end of a transaction wakes the first that waits, or frees a slot.   *)
LEMMA Leaves ==
  ASSUME Storage!StorageAssumption, Storage!TypeOK, GateInv,
         NEW u \in Running, NEW end \in Storage!Request, end.phase \in {"failed", "done"},
         Storage!Leave(u, end)
  PROVE  /\ GateInv' /\ active' \in 0..Limit
         /\ uploads' \in [Uploads -> Storage!Request] /\ uploads'[u] = end
         /\ \A v \in Uploads \ {u} :
              \/ uploads'[v] = uploads[v]
              \/ /\ uploads[v].phase = "queued"
                 /\ uploads'[v] = [uploads[v] EXCEPT !.phase = "admitted"]
  <1>1. /\ u \in Uploads /\ uploads[u].phase \in Runs /\ "queued" \notin Runs
        /\ end.phase \notin Runs /\ "admitted" \in Runs
    BY DEF Running, Runs, Storage!Holding
  <1>2. IsFiniteSet(Running \ {u}) /\ Cardinality(Running \ {u}) = active - 1
    BY FS_RemoveElement DEF GateInv
  <1>3. CASE waiting = <<>>
    <2>1. /\ uploads' = [uploads EXCEPT ![u] = end] /\ active' = active - 1
          /\ waiting' = waiting
      BY <1>3 DEF Storage!Leave
    <2>2. Running' = Running \ {u}
      BY <1>1, <2>1 DEF Running, Storage!TypeOK
    <2>3. active' \in 0..Limit
      BY <1>2, <2>1, FS_CardinalityType DEF Storage!TypeOK, Storage!StorageAssumption
    <2>4. GateInv'
      BY <1>2, <1>3, <2>1, <2>2 DEF GateInv
    <2>5. QED
      BY <1>1, <2>1, <2>3, <2>4 DEF Storage!TypeOK
  <1>4. CASE waiting # <<>>
    <2> DEFINE first == Head(waiting)
    <2>1. /\ first = waiting[1] /\ first \in Uploads /\ 1 \in DOMAIN waiting
          /\ uploads[first].phase = "queued" /\ first # u
      BY <1>1, <1>4 DEF GateInv
    <2>2. /\ uploads' = [[uploads EXCEPT ![u] = end] EXCEPT ![first].phase = "admitted"]
          /\ waiting' = Tail(waiting) /\ active' = active
      BY <1>4 DEF Storage!Leave
    <2> HIDE DEF first
    <2>3. /\ uploads' \in [Uploads -> Storage!Request]
          /\ \A v \in Uploads :
               uploads'[v] = IF v = u THEN end
                             ELSE IF v = first THEN [uploads[v] EXCEPT !.phase = "admitted"]
                             ELSE uploads[v]
      BY <1>1, <2>1, <2>2 DEF Storage!TypeOK, Storage!Request, Storage!Phases
    <2>4. uploads'[first].phase = "admitted"
      BY <2>1, <2>3 DEF Storage!TypeOK, Storage!Request
    <2>5. Running' = (Running \ {u}) \cup {first} /\ first \notin Running \ {u}
      BY <1>1, <2>1, <2>3, <2>4 DEF Running
    <2>6. IsFiniteSet(Running') /\ Cardinality(Running') = active
      <3> DEFINE rest == Running \ {u}
      <3>1. IsFiniteSet(rest) /\ Cardinality(rest) = active - 1 /\ first \notin rest
        BY <1>2, <2>5
      <3>2. Running' = rest \cup {first}
        BY <2>5
      <3> HIDE DEF rest
      <3>3. /\ IsFiniteSet(rest \cup {first})
            /\ Cardinality(rest \cup {first}) = Cardinality(rest) + 1
        BY <3>1, FS_AddElement
      <3>4. QED
        BY <3>1, <3>2, <3>3 DEF Storage!TypeOK, Storage!StorageAssumption
    <2>7. /\ waiting' \in Seq(Uploads) /\ Len(waiting') = Len(waiting) - 1
          /\ \A i \in 1..Len(waiting') : waiting'[i] = waiting[i + 1]
      BY <1>4, <2>2, HeadTailProperties DEF GateInv
    <2>8. \A i \in DOMAIN waiting' : i \in 1..Len(waiting') /\ i + 1 \in DOMAIN waiting
      BY <2>7 DEF GateInv
    <2>9. \A i \in DOMAIN waiting' : uploads'[waiting'[i]].phase = "queued"
      <3>1. TAKE i \in DOMAIN waiting'
      <3>2. /\ waiting'[i] = waiting[i + 1] /\ waiting[i + 1] \in Uploads
            /\ uploads[waiting[i + 1]].phase = "queued" /\ waiting[i + 1] # first
        <4>1. i + 1 # 1 /\ i + 1 \in DOMAIN waiting /\ waiting'[i] = waiting[i + 1]
          BY <2>7, <2>8
        <4>2. QED
          BY <2>1, <4>1 DEF GateInv
      <3>3. QED
        BY <1>1, <2>3, <3>2
    <2>10. \A i, j \in DOMAIN waiting' : waiting'[i] = waiting'[j] => i = j
      BY <2>7, <2>8 DEF GateInv
    <2>11. GateInv'
      BY <1>4, <2>2, <2>6, <2>7, <2>9, <2>10 DEF GateInv
    <2>12. QED
      BY <1>1, <2>1, <2>2, <2>3, <2>11 DEF Storage!TypeOK
  <1>5. QED
    BY <1>3, <1>4

(* A step of one request leaves the files of the others where they were.   *)
LEMMA OthersStayPlaced ==
  ASSUME StorageInv, NEW u \in Uploads,
         named \subseteq named', unsure \subseteq unsure', crashed \subseteq crashed',
         records \subseteq records', records' \subseteq records \cup {u},
         \A v \in Uploads \ {u} :
           /\ disk'[v] = disk[v]
           /\ \/ uploads'[v] = uploads[v]
              \/ /\ uploads[v].phase = "queued"
                 /\ uploads'[v] = [uploads[v] EXCEPT !.phase = "admitted"],
         Placed(u)'
  PROVE  \A v \in Uploads : Placed(v)'
  <1>1. SUFFICES ASSUME NEW v \in Uploads \ {u}
                 PROVE  Placed(v)'
    OBVIOUS
  <1>2. Placed(v) /\ uploads[v] \in Storage!Request
    BY DEF StorageInv, Storage!TypeOK
  <1>3. CASE uploads'[v] = uploads[v]
    BY <1>2, <1>3 DEF Placed, PlacedAs
  <1>4. CASE /\ uploads[v].phase = "queued"
             /\ uploads'[v] = [uploads[v] EXCEPT !.phase = "admitted"]
    <2>1. uploads'[v].phase = "admitted"
      BY <1>2, <1>4 DEF Storage!Request
    <2>2. QED
      BY <1>2, <1>4, <2>1 DEF Placed, PlacedAs
  <1>5. QED
    BY <1>3, <1>4

(* What a request does while it keeps its slot, or has none.               *)
LEMMA MoveOutcome ==
  ASSUME Storage!TypeOK, NEW u \in Uploads, NEW phase \in Storage!Phases, Storage!Move(u, phase)
  PROVE  /\ uploads' \in [Uploads -> Storage!Request]
         /\ uploads'[u].phase = phase /\ uploads'[u].tracked = uploads[u].tracked
         /\ \A v \in Uploads \ {u} : uploads'[v] = uploads[v]
  BY DEF Storage!TypeOK, Storage!Move, Storage!Request

LEMMA KeepsSlotStep ==
  ASSUME StorageInv, NEW u \in Uploads,
         \/ Storage!Connect(u) \/ Storage!Upload(u) \/ Storage!Lookup(u) \/ Storage!Heal(u)
         \/ Storage!Verify(u) \/ Storage!Record(u) \/ Storage!Compensate(u)
  PROVE  StorageInv'
  <1>1. /\ uploads[u] \in Storage!Request /\ disk[u] \in {"none", "flying"} \cup Storage!OnDisk
        /\ Placed(u) /\ Storage!TypeOK /\ GateInv
    BY DEF StorageInv, Storage!TypeOK
  <1>2. /\ UNCHANGED <<active, waiting, records, unsure, crashed>>
        /\ uploads[u].phase \notin {"idle", "queued", "done"}
        /\ named' \in {named, named \cup {u}}
    BY DEF Storage!Connect, Storage!Upload, Storage!Lookup, Storage!Heal, Storage!Verify,
       Storage!Record, Storage!Compensate, Storage!gate, Storage!history, Storage!Name,
       Storage!In
  <1>3. /\ disk' \in [Uploads -> {"none", "flying"} \cup Storage!OnDisk]
        /\ \A v \in Uploads \ {u} : disk'[v] = disk[v]
    BY <1>1 DEF Storage!Connect, Storage!Upload, Storage!Lookup, Storage!Heal, Storage!Verify,
       Storage!Record, Storage!Compensate, Storage!Put, Storage!OnDisk, Storage!TypeOK
  <1> DEFINE Phase == uploads[u].phase
             Goes == /\ uploads' \in [Uploads -> Storage!Request]
                     /\ \A v \in Uploads \ {u} : uploads'[v] = uploads[v]
                     /\ Phase \in Runs <=> uploads'[u].phase \in Runs
                     /\ Placed(u)'
  <1>4. Goes
    <2>1. CASE Storage!Connect(u)
      <3>1. Phase = "admitted" /\ Storage!Move(u, "uploading") /\ UNCHANGED <<disk, named>>
        BY <2>1 DEF Storage!Connect, Storage!In
      <3>2. QED
        BY <1>1, <1>2, <3>1, MoveOutcome DEF Storage!Phases, Storage!Holding, Runs, Placed, PlacedAs
    <2>2. CASE Storage!Upload(u)
      <3>1. Phase = "uploading" /\ disk[u] = "none"
        BY <1>1, <2>2 DEF Storage!Upload, Storage!In, Placed, PlacedAs
      <3>2. PICK phase \in {"verify", "refused", "lookup"} :
              /\ Storage!Move(u, phase)
              /\ phase = "verify" => disk'[u] \in Storage!OnDisk
              /\ phase = "refused" => disk'[u] = "none" /\ u \in named'
        BY <1>1, <2>2, <3>1 DEF Storage!Upload, Storage!Put, Storage!Name, Storage!TypeOK
      <3>3. QED
        BY <1>1, <1>2, <3>1, <3>2, MoveOutcome
           DEF Storage!Phases, Storage!Holding, Storage!OnDisk, Runs, Placed, PlacedAs
    <2>3. CASE Storage!Lookup(u)
      <3>1. Phase = "lookup" /\ UNCHANGED disk
        BY <2>3 DEF Storage!Lookup, Storage!In
      <3>2. PICK phase \in {"uploaded", "refused"} :
              /\ Storage!Move(u, phase)
              /\ phase = "uploaded" => disk[u] = "stored"
              /\ phase = "refused" => u \in named'
        BY <2>3 DEF Storage!Lookup, Storage!Name
      <3>3. QED
        BY <1>1, <1>2, <3>1, <3>2, MoveOutcome
           DEF Storage!Phases, Storage!Holding, Storage!OnDisk, Runs, Placed, PlacedAs
    <2>4. CASE Storage!Heal(u)
      <3>1. /\ Phase = "refused" /\ disk'[u] = "none" /\ UNCHANGED named
            /\ uploads' = [uploads EXCEPT ![u].phase = "uploading", ![u].healed = TRUE]
        BY <1>1, <2>4 DEF Storage!Heal, Storage!In, Storage!Put, Storage!TypeOK
      <3>2. /\ uploads' \in [Uploads -> Storage!Request] /\ uploads'[u].phase = "uploading"
            /\ \A v \in Uploads \ {u} : uploads'[v] = uploads[v]
        BY <1>1, <3>1 DEF Storage!TypeOK, Storage!Request, Storage!Phases, Storage!Holding
      <3>3. QED
        BY <1>1, <1>2, <3>1, <3>2 DEF Storage!Holding, Runs, Placed, PlacedAs
    <2>5. CASE Storage!Verify(u)
      <3>1. Phase = "verify" /\ disk[u] \in Storage!OnDisk
        BY <1>1, <2>5 DEF Storage!Verify, Storage!In, Placed, PlacedAs
      <3>2. PICK phase \in {"uploaded", "rejected"} :
              /\ Storage!Move(u, phase)
              /\ disk'[u] # "flying"
              /\ phase = "uploaded" => disk'[u] = "stored"
              /\ phase = "rejected" => u \in named'
        BY <1>1, <2>5, <3>1
           DEF Storage!Verify, Storage!Put, Storage!Name, Storage!TypeOK, Storage!OnDisk
      <3>3. QED
        BY <1>1, <1>2, <3>1, <3>2, MoveOutcome
           DEF Storage!Phases, Storage!Holding, Storage!OnDisk, Runs, Placed, PlacedAs
    <2>6. CASE Storage!Record(u)
      <3>1. Phase = "uploaded" /\ Storage!Move(u, "recorded") /\ UNCHANGED <<disk, named>>
        BY <2>6 DEF Storage!Record, Storage!In
      <3>2. QED
        BY <1>1, <1>2, <3>1, MoveOutcome DEF Storage!Phases, Storage!Holding, Runs, Placed, PlacedAs
    <2>7. CASE Storage!Compensate(u)
      <3>1. Phase = "failed" /\ uploads' = [uploads EXCEPT ![u] = Storage!At("done")]
        BY <2>7 DEF Storage!Compensate, Storage!In
      <3>2. /\ uploads' \in [Uploads -> Storage!Request] /\ uploads'[u].phase = "done"
            /\ \A v \in Uploads \ {u} : uploads'[v] = uploads[v]
        BY <1>1, <3>1 DEF Storage!TypeOK, Storage!Request, Storage!Phases, Storage!At
      <3>3. disk'[u] = "none" \/ u \in named'
        BY <1>1, <2>7, <3>1
           DEF Storage!Compensate, Storage!Put, Storage!Name, Storage!TypeOK, Placed, PlacedAs
      <3>4. QED
        BY <1>1, <1>2, <3>1, <3>2, <3>3 DEF Storage!Holding, Runs, Placed, PlacedAs
    <2>8. QED
      BY <2>1, <2>2, <2>3, <2>4, <2>5, <2>6, <2>7
  <1>5. GateInv'
    BY <1>1, <1>2, <1>4, StaysInGate
  <1>6. \A v \in Uploads : Placed(v)'
    BY <1>2, <1>3, <1>4, OthersStayPlaced
  <1>7. Storage!TypeOK'
    BY <1>1, <1>2, <1>3, <1>4 DEF Storage!TypeOK
  <1>8. QED
    BY <1>5, <1>6, <1>7 DEF StorageInv

LEMMA LandStep ==
  ASSUME StorageInv, NEW u \in Uploads, Storage!Land(u)
  PROVE  StorageInv'
  <1>1. /\ disk[u] = "flying" /\ disk' = [disk EXCEPT ![u] = "stored"]
        /\ UNCHANGED <<uploads, active, waiting, records, named, unsure, crashed>>
    BY DEF Storage!Land, Storage!Put, Storage!gate, Storage!history
  <1>2. Storage!TypeOK' /\ disk'[u] = "stored"
    BY <1>1 DEF StorageInv, Storage!TypeOK, Storage!OnDisk
  <1>3. GateInv'
    BY <1>1 DEF StorageInv, GateInv, Running
  <1>4. Placed(u)'
    BY <1>1, <1>2 DEF StorageInv, Placed, PlacedAs, Storage!OnDisk
  <1>5. \A v \in Uploads : Placed(v)'
    BY <1>1, <1>4, OthersStayPlaced DEF StorageInv, Storage!TypeOK
  <1>6. QED
    BY <1>2, <1>3, <1>5 DEF StorageInv

LEMMA ArriveStep ==
  ASSUME Storage!StorageAssumption, StorageInv, NEW u \in Uploads, Storage!Arrive(u)
  PROVE  StorageInv'
  <1>1. Storage!TypeOK /\ GateInv /\ Placed(u) /\ uploads[u].phase = "idle"
    BY DEF StorageInv, Storage!Arrive, Storage!In
  <1>2. PICK phase \in {"admitted", "queued"} : Storage!Move(u, phase)
    BY <1>1, Arrives DEF Storage!Move
  <1>3. /\ uploads' \in [Uploads -> Storage!Request]
        /\ uploads'[u].phase = phase
        /\ \A v \in Uploads \ {u} : uploads'[v] = uploads[v]
    BY <1>1, <1>2, MoveOutcome DEF Storage!Phases
  <1>4. UNCHANGED <<disk, records, named, unsure, crashed>>
    BY DEF Storage!Arrive, Storage!history
  <1>5. GateInv' /\ active' \in 0..Limit
    BY <1>1, Arrives
  <1>6. Placed(u)'
    BY <1>1, <1>3, <1>4 DEF Placed, PlacedAs
  <1>7. \A v \in Uploads : Placed(v)'
    BY <1>3, <1>4, <1>6, OthersStayPlaced
  <1>8. Storage!TypeOK'
    BY <1>1, <1>3, <1>4, <1>5 DEF Storage!TypeOK
  <1>9. QED
    BY <1>5, <1>7, <1>8 DEF StorageInv

(* A request ends: what it leaves on Disk is recorded, tracked or named.   *)
LEMMA FinishStep ==
  ASSUME Storage!StorageAssumption, StorageInv, NEW u \in Uploads,
         Storage!Fail(u) \/ Storage!Commit(u)
  PROVE  StorageInv'
  <1>1. Storage!TypeOK /\ GateInv /\ Placed(u) /\ uploads[u] \in Storage!Request
    BY DEF StorageInv, Storage!TypeOK
  <1>2. UNCHANGED <<disk, named, crashed>>
    BY DEF Storage!Fail, Storage!Commit, Storage!history
  <1>3. PICK end \in Storage!Request :
          /\ Storage!Leave(u, end) /\ end.phase \in {"failed", "done"}
          /\ \/ /\ Storage!Fail(u) /\ UNCHANGED <<records, unsure>>
                /\ end.phase = "failed" /\ end.tracked = Storage!Tracked(u)
             \/ /\ Storage!Commit(u) /\ records' = records \cup {u}
                /\ \/ end.phase = "done" /\ UNCHANGED unsure
                   \/ /\ end.phase = "failed" /\ end.tracked
                      /\ unsure' = unsure \cup {u}
    <2>1. Storage!At("done") \in Storage!Request /\ Storage!At("done").phase = "done"
      BY DEF Storage!At, Storage!Request, Storage!Phases
    <2>2. /\ Storage!Failed(u) \in Storage!Request /\ Storage!Failed(u).phase = "failed"
          /\ Storage!Failed(u).tracked = Storage!Tracked(u)
      BY DEF Storage!Failed, Storage!At, Storage!Request, Storage!Phases, Storage!Tracked,
         Storage!In
    <2>3. Storage!Commit(u) => Storage!Tracked(u)
      BY DEF Storage!Commit, Storage!Tracked
    <2>4. CASE Storage!Fail(u)
      BY <2>2, <2>4 DEF Storage!Fail, Storage!history
    <2>5. CASE Storage!Commit(u)
      BY <2>1, <2>2, <2>3, <2>5 DEF Storage!Commit
    <2>6. QED
      BY <2>4, <2>5
  <1>4. u \in Running
    BY DEF Storage!Fail, Storage!Commit, Storage!In, Running, Runs, Storage!Holding
  <1>5. /\ GateInv' /\ active' \in 0..Limit
        /\ uploads' \in [Uploads -> Storage!Request] /\ uploads'[u] = end
        /\ \A v \in Uploads \ {u} :
             \/ uploads'[v] = uploads[v]
             \/ /\ uploads[v].phase = "queued"
                /\ uploads'[v] = [uploads[v] EXCEPT !.phase = "admitted"]
    BY <1>1, <1>3, <1>4, Leaves
  <1>6. Placed(u)'
    <2>1. CASE /\ Storage!Fail(u) /\ UNCHANGED <<records, unsure>>
               /\ end.phase = "failed" /\ end.tracked = Storage!Tracked(u)
      BY <1>1, <1>2, <1>3, <1>5, <2>1
         DEF Placed, PlacedAs, Storage!Fail, Storage!Tracked, Storage!In
    <2>2. CASE /\ Storage!Commit(u) /\ records' = records \cup {u}
               /\ \/ end.phase = "done" /\ UNCHANGED unsure
                  \/ /\ end.phase = "failed" /\ end.tracked
                     /\ unsure' = unsure \cup {u}
      <3>1. disk'[u] = "stored"
        BY <1>1, <1>2, <2>2 DEF Placed, PlacedAs, Storage!Commit, Storage!In
      <3>2. /\ uploads'[u].phase \in {"done", "failed"} /\ u \in records'
            /\ uploads'[u].phase = "failed" => uploads'[u].tracked /\ u \in unsure'
        BY <1>5, <2>2
      <3>3. QED
        BY <3>1, <3>2 DEF Placed, PlacedAs
    <2>3. QED
      BY <1>3, <2>1, <2>2
  <1>7. \A v \in Uploads : Placed(v)'
    BY <1>2, <1>3, <1>5, <1>6, OthersStayPlaced
  <1>8. Storage!TypeOK'
    BY <1>1, <1>2, <1>3, <1>5 DEF Storage!TypeOK
  <1>9. QED
    BY <1>5, <1>7, <1>8 DEF StorageInv

(* When the process stops nobody runs or waits, and what was under way is  *)
(* left by a process that stopped.                                         *)
LEMMA StopStep ==
  ASSUME Storage!StorageAssumption, StorageInv, Storage!Crash
  PROVE  StorageInv'
  <1>1. Storage!TypeOK /\ GateInv /\ \A u \in Uploads : Placed(u)
    BY DEF StorageInv
  <1>2. PICK done \in SUBSET {u \in Uploads : Storage!In(u, "recorded")} :
          records' = records \cup done
    BY DEF Storage!Crash
  <1>3. /\ active' = 0 /\ waiting' = <<>> /\ UNCHANGED <<disk, named, unsure>>
        /\ crashed' = crashed \cup Storage!InFlight
    BY DEF Storage!Crash
  <1>4. /\ uploads' \in [Uploads -> Storage!Request]
        /\ \A u \in Uploads :
             \/ /\ u \in Storage!InFlight /\ uploads'[u].phase = "done" /\ u \in crashed'
             \/ /\ u \notin Storage!InFlight /\ uploads'[u] = uploads[u]
                /\ uploads[u].phase \in {"idle", "done"}
    BY <1>1, <1>3 DEF Storage!Crash, Storage!TypeOK, Storage!At, Storage!Request,
       Storage!Phases, Storage!InFlight
  <1>5. Running' = {}
    BY <1>4 DEF Running, Runs, Storage!Holding
  <1>6. GateInv'
    BY <1>3, <1>5, FS_EmptySet DEF GateInv
  <1>7. Storage!TypeOK'
    BY <1>1, <1>2, <1>3, <1>4 DEF Storage!TypeOK, Storage!InFlight, Storage!StorageAssumption
  <1>8. ASSUME NEW u \in Uploads
        PROVE  Placed(u)'
    <2>1. u \in done => disk[u] = "stored" /\ u \in Storage!InFlight
      BY <1>1 DEF Placed, PlacedAs, Storage!In, Storage!InFlight
    <2>2. CASE u \in Storage!InFlight
      BY <1>1, <1>2, <1>3, <1>4, <2>1, <2>2 DEF Placed, PlacedAs, Storage!InFlight
    <2>3. CASE u \notin Storage!InFlight
      BY <1>1, <1>2, <1>3, <1>4, <2>1, <2>3 DEF Placed, PlacedAs
    <2>4. QED
      BY <2>2, <2>3
  <1>9. QED
    BY <1>6, <1>7, <1>8 DEF StorageInv

LEMMA StorageInitially ==
  ASSUME Storage!StorageAssumption, Storage!Init
  PROVE  StorageInv
  <1>1. /\ \A u \in Uploads : uploads[u].phase = "idle" /\ disk[u] = "none"
        /\ Storage!TypeOK
    BY DEF Storage!Init, Storage!TypeOK, Storage!At, Storage!Request, Storage!Phases,
       Storage!StorageAssumption
  <1>2. Running = {}
    BY <1>1 DEF Running, Runs, Storage!Holding
  <1>3. GateInv
    BY <1>2, FS_EmptySet DEF Storage!Init, GateInv
  <1>4. QED
    BY <1>1, <1>3 DEF Storage!Init, StorageInv, Placed, PlacedAs

LEMMA StorageStep ==
  ASSUME Storage!StorageAssumption, StorageInv, [Storage!Next]_(Storage!vars)
  PROVE  StorageInv'
  <1>1. CASE UNCHANGED Storage!vars
    BY <1>1 DEF Storage!vars, Storage!gate, Storage!history, StorageInv, GateInv, Running,
       Placed, PlacedAs, Storage!TypeOK
  <1>2. CASE Storage!Next
    BY <1>2, StopStep, ArriveStep, LandStep, KeepsSlotStep, FinishStep
       DEF Storage!Next, Storage!Step
  <1>3. QED
    BY <1>1, <1>2

(* Who holds a slot is counted when it is handed over, and what is on Disk *)
(* of a file is tied to how far its request has come                       *)
(* (file-storage/file-store.ts:24-28, 56-61).                              *)
THEOREM StorageInvariance ==
  ASSUME Storage!StorageAssumption
  PROVE  Storage!Spec => []StorageInv
  <1>1. Storage!Init => StorageInv
    BY StorageInitially
  <1>2. StorageInv /\ [Storage!Next]_(Storage!vars) => StorageInv'
    BY StorageStep
  <1>3. QED
    BY <1>1, <1>2, PTL DEF Storage!Spec

(* A record has its file unless a COMMIT was not answered, a file without  *)
(* a record is named in the log, in a request's hands or left by a process *)
(* that stopped, and uploads never hold the whole pool, for any number of  *)
(* uploads and slots (file-storage/file-store.ts:24-28, 47-51, 97).        *)
THEOREM FilesStayAccounted ==
  ASSUME Storage!StorageAssumption
  PROVE  Storage!Spec => []FilesAreAccounted
  <1>1. StorageInv => FilesAreAccounted
    <2>1. SUFFICES ASSUME StorageInv
                   PROVE  FilesAreAccounted
      OBVIOUS
    <2>2. Storage!RecordsHaveFiles
      BY <2>1 DEF StorageInv, Storage!TypeOK, Storage!RecordsHaveFiles, Placed, PlacedAs
    <2>3. Storage!OrphansAreNamed
      BY <2>1 DEF StorageInv, Storage!TypeOK, Storage!OrphansAreNamed, Placed, PlacedAs,
         Storage!InFlight, Storage!OnDisk
    <2>4. QED
      BY <2>1, <2>2, <2>3, GateBounds DEF StorageInv, FilesAreAccounted, Storage!FilesAreAccounted
  <1>2. QED
    BY <1>1, StorageInvariance, PTL
-----------------------------------------------------------------------------
(* Acts: the inductive invariant                                           *)

\* The commands of an act and those of a package, whatever acts there are.
ActCommand ==
  [kind : {"edit"}, act : Nat, content : Contents]
    \cup [kind : {"links"}, act : Nat, materials : SUBSET Materials]
    \cup [kind : {"remove", "generate"}, act : Nat]
PackageCommand ==
  [kind : {"method"}, package : Packages, method : Acts!Methods]
    \cup [kind : {"create"}, package : Packages, typical : BOOLEAN]
    \cup [kind : {"dismiss", "party"}, package : Packages]
    \cup [kind : {"quality"}, package : Packages, material : Materials]

HasRows(t) == preparing[t].phase \in {"locked", "numbered"}

CommandsKnown ==
  /\ DOMAIN preparing = Attempts
  /\ \A t \in Attempts :
       /\ preparing[t].phase \in {"idle", "begun", "read", "locked", "numbered"}
       /\ preparing[t].phase # "idle" =>
            /\ Acts!Cmd(t) \in ActCommand \cup PackageCommand
            /\ Acts!OfAct(Acts!Cmd(t)) => Acts!Cmd(t).act \in DOMAIN acts

\* One command at a time has the row of a package.
PackagesApart ==
  \A t, u \in Attempts : t # u /\ HasRows(t) /\ HasRows(u) =>
    Acts!PackageOf(Acts!Cmd(t)) # Acts!PackageOf(Acts!Cmd(u))

\* What an act is rendered from has not changed under it, save that quality
\* documents were added.
RenderedFrom(i, evidence) ==
  /\ DOMAIN evidence = acts[i].materials
  /\ \A m \in acts[i].materials : evidence[m] \in 1..quality[m]

\* What a command was checked against under the lock holds until it commits.
StillHolds(t) ==
  LET cmd == Acts!Cmd(t)
      p == Acts!PackageOf(cmd) IN
    /\ Acts!IsContent(cmd) => stage[p] = "open"
    /\ cmd.kind \in {"create", "dismiss", "generate"} => method[p] = "CORE"
    /\ cmd.kind = "method" => Acts!MayChoose(cmd)
    /\ cmd.kind = "create" /\ cmd.typical => \A i \in Acts!ActsOf(p) : ~acts[i].typical
    /\ cmd.kind \in {"edit", "links", "generate"} => ~acts[cmd.act].deleted
    /\ cmd.kind = "generate" => RenderedFrom(cmd.act, preparing[t].evidence)

\* A number in hand is the act's own or the next of the object, and only one
\* generation has the next.
TakesNext(t) == Acts!In(t, "numbered") /\ acts[Acts!Cmd(t).act].number = 0
NumberInHand(t) ==
  /\ Acts!Cmd(t).kind = "generate"
  /\ preparing[t].number = IF acts[Acts!Cmd(t).act].number = 0 THEN counter + 1
                           ELSE acts[Acts!Cmd(t).act].number

AttemptsInv ==
  /\ CommandsKnown /\ PackagesApart
  /\ \A t \in Attempts : HasRows(t) => StillHolds(t)
  /\ \A t \in Attempts : Acts!In(t, "numbered") => NumberInHand(t)
  /\ \A t, u \in Attempts : TakesNext(t) /\ TakesNext(u) => t = u

\* A row of aosr_documents: numbered by its first revision, and generated at a
\* version it had.
RowHolds(act) ==
  /\ act.number > 0 <=> act.revision > 0
  /\ act.generatedAt <= act.version
NumbersHold ==
  /\ \A i \in Acts!Live : acts[i].number <= counter
  /\ \A n \in 1..counter : \E i \in Acts!Live : acts[i].number = n
  /\ \A i, j \in Acts!Live : acts[i].number > 0 /\ acts[i].number = acts[j].number => i = j
RevisionsHold ==
  /\ \A r \in revisions :
       /\ r.act \in Acts!Live /\ r.number = acts[r.act].number
       /\ r.revision \in 1..acts[r.act].revision
  /\ \A i \in DOMAIN acts : \A n \in 1..acts[i].revision :
       \E r \in revisions : r.act = i /\ r.revision = n
  /\ \A r, s \in revisions : r.act = s.act /\ r.revision = s.revision => r = s
IsRendered(i) ==
  acts[i].number > 0 /\ Acts!Generated(i) =>
    \E r \in revisions :
      /\ r.act = i /\ r.revision = acts[i].revision /\ r.content = acts[i].content
      /\ RenderedFrom(i, r.evidence)

ActRowsInv ==
  /\ Acts!TypeOK /\ acts \in Seq(Acts!Act)
  /\ \A i \in DOMAIN acts : RowHolds(acts[i])
  /\ NumbersHold /\ RevisionsHold /\ \A i \in Acts!Live : IsRendered(i)
  /\ Acts!ExternalKeepsNothing /\ Acts!GateIsLostByChoiceOnly /\ Acts!PartyHistoryIsWhole

ActsInv == ActRowsInv /\ AttemptsInv

(* What a command is about.                                                *)
LEMMA CommandTyped ==
  ASSUME ActRowsInv, CommandsKnown, NEW t \in Attempts, preparing[t].phase # "idle"
  PROVE  /\ Acts!Cmd(t) \in ActCommand \cup PackageCommand
         /\ Acts!OfAct(Acts!Cmd(t)) => /\ Acts!Cmd(t).act \in DOMAIN acts
                                       /\ acts[Acts!Cmd(t).act] \in Acts!Act
         /\ Acts!PackageOf(Acts!Cmd(t)) \in Packages
  <1>1. /\ Acts!Cmd(t) \in ActCommand \cup PackageCommand
        /\ Acts!OfAct(Acts!Cmd(t)) => Acts!Cmd(t).act \in DOMAIN acts
    BY DEF CommandsKnown
  <1>2. \A i \in DOMAIN acts : acts[i] \in Acts!Act
    BY DEF ActRowsInv, Acts!TypeOK
  <1>3. Acts!PackageOf(Acts!Cmd(t)) \in Packages
    BY <1>1, <1>2 DEF Acts!PackageOf, Acts!OfAct, ActCommand, PackageCommand, Acts!Act
  <1>4. QED
    BY <1>1, <1>2, <1>3

\* What a step about one package leaves to the others.
ElsewhereSame(mine) ==
  /\ DOMAIN acts \subseteq DOMAIN acts'
  /\ \A i \in DOMAIN acts :
       /\ acts'[i].package = acts[i].package
       /\ acts[i].package # mine => acts'[i] = acts[i]
  /\ \A i \in DOMAIN acts' \ DOMAIN acts : acts'[i].package = mine
  /\ \A p \in Packages \ {mine} : method'[p] = method[p]

LEMMA OtherPackages ==
  ASSUME NEW mine, ElsewhereSame(mine), NEW p \in Packages \ {mine}
  PROVE  /\ Acts!ActsOf(p)' = Acts!ActsOf(p)
         /\ \A i \in Acts!ActsOf(p) : acts'[i] = acts[i]
         /\ Acts!ForwardGate(p)' <=> Acts!ForwardGate(p)
  <1>1. Acts!ActsOf(p)' = Acts!ActsOf(p) /\ \A i \in Acts!ActsOf(p) : acts'[i] = acts[i]
    BY DEF ElsewhereSame, Acts!ActsOf, Acts!Live
  <1>2. method'[p] = method[p]
    BY DEF ElsewhereSame
  <1>3. Acts!ForwardGate(p)' <=> Acts!ForwardGate(p)
    BY <1>1, <1>2 DEF Acts!ForwardGate, Acts!Generated
  <1>4. QED
    BY <1>1, <1>3

(* A commit leaves to the other commands what they were checked against:   *)
(* they have other packages, and quality documents are only added.         *)
LEMMA OthersStillHold ==
  ASSUME ActsInv, NEW t \in Attempts, HasRows(t),
         preparing' = [preparing EXCEPT ![t] = Acts!Idle], stage' = stage,
         ElsewhereSame(Acts!PackageOf(Acts!Cmd(t))),
         \A m \in Materials : quality'[m] >= quality[m] /\ quality'[m] \in Nat,
         \A u \in Attempts \ {t} : TakesNext(u) => counter' = counter
  PROVE  AttemptsInv'
  <1> DEFINE mine == Acts!PackageOf(Acts!Cmd(t))
  <1>1. \A u \in Attempts : preparing'[u] = IF u = t THEN Acts!Idle ELSE preparing[u]
    BY DEF ActsInv, AttemptsInv, CommandsKnown
  <1>2. CommandsKnown'
    BY <1>1 DEF ActsInv, AttemptsInv, CommandsKnown, Acts!Idle, Acts!Cmd, Acts!OfAct,
       ElsewhereSame
  <1>3. ASSUME NEW u \in Attempts, preparing'[u].phase # "idle"
        PROVE  /\ u # t /\ preparing'[u] = preparing[u]
               /\ Acts!Cmd(u)' = Acts!Cmd(u)
               /\ Acts!PackageOf(Acts!Cmd(u))' = Acts!PackageOf(Acts!Cmd(u))
    <2>1. u # t /\ preparing'[u] = preparing[u]
      BY <1>1, <1>3 DEF Acts!Idle
    <2>2. Acts!OfAct(Acts!Cmd(u)) => Acts!Cmd(u).act \in DOMAIN acts
      BY <2>1, <1>3, CommandTyped DEF ActsInv, AttemptsInv
    <2>3. QED
      BY <2>1, <2>2 DEF Acts!Cmd, Acts!PackageOf, Acts!OfAct, ElsewhereSame
  <1>4. PackagesApart'
    <2>1. SUFFICES ASSUME NEW u \in Attempts, NEW v \in Attempts, u # v, HasRows(u)', HasRows(v)'
                   PROVE  (Acts!PackageOf(Acts!Cmd(u)) # Acts!PackageOf(Acts!Cmd(v)))'
      BY DEF PackagesApart
    <2>2. preparing'[u].phase # "idle" /\ preparing'[v].phase # "idle"
      BY <2>1 DEF HasRows
    <2>3. QED
      BY <2>1, <2>2, <1>3 DEF HasRows, ActsInv, AttemptsInv, PackagesApart
  <1>5. ASSUME NEW u \in Attempts, HasRows(u)'
        PROVE  /\ u # t /\ HasRows(u) /\ preparing'[u] = preparing[u]
               /\ Acts!Cmd(u)' = Acts!Cmd(u)
               /\ Acts!PackageOf(Acts!Cmd(u)) \in Packages \ {mine}
               /\ Acts!PackageOf(Acts!Cmd(u))' = Acts!PackageOf(Acts!Cmd(u))
               /\ Acts!OfAct(Acts!Cmd(u)) =>
                    acts'[Acts!Cmd(u).act] = acts[Acts!Cmd(u).act]
    <2>1. preparing'[u].phase # "idle"
      BY <1>5 DEF HasRows
    <2>2. /\ u # t /\ preparing'[u] = preparing[u] /\ Acts!Cmd(u)' = Acts!Cmd(u)
          /\ Acts!PackageOf(Acts!Cmd(u))' = Acts!PackageOf(Acts!Cmd(u))
      BY <2>1, <1>3
    <2>3. HasRows(u) /\ preparing[u].phase # "idle"
      BY <2>1, <2>2, <1>5 DEF HasRows
    <2>4. /\ Acts!PackageOf(Acts!Cmd(u)) \in Packages
          /\ Acts!OfAct(Acts!Cmd(u)) => Acts!Cmd(u).act \in DOMAIN acts
      BY <2>3, CommandTyped DEF ActsInv, AttemptsInv
    <2>5. Acts!PackageOf(Acts!Cmd(u)) # mine
      BY <2>2, <2>3 DEF ActsInv, AttemptsInv, PackagesApart
    <2>6. QED
      BY <2>2, <2>3, <2>4, <2>5 DEF ElsewhereSame, Acts!PackageOf
  <1>6. ASSUME NEW u \in Attempts, HasRows(u)'
        PROVE  StillHolds(u)'
    <2> DEFINE cmd == Acts!Cmd(u)
               p == Acts!PackageOf(cmd)
    <2>1. /\ u # t /\ StillHolds(u) /\ preparing'[u] = preparing[u]
          /\ cmd' = cmd /\ p' = p /\ p \in Packages \ {mine}
          /\ Acts!OfAct(cmd) => acts'[cmd.act] = acts[cmd.act]
      BY <1>5, <1>6 DEF ActsInv, AttemptsInv
    <2>2. /\ stage'[p] = stage[p] /\ method'[p] = method[p]
          /\ Acts!ActsOf(p)' = Acts!ActsOf(p)
          /\ \A i \in Acts!ActsOf(p) : acts'[i] = acts[i]
      BY <2>1, OtherPackages DEF ElsewhereSame
    <2>3. cmd.kind = "method" => Acts!MayChoose(cmd)'
      <3>1. ASSUME cmd.kind = "method" PROVE p = cmd.package /\ Acts!MayChoose(cmd)
        BY <2>1, <3>1 DEF StillHolds, Acts!PackageOf, Acts!OfAct
      <3>2. QED
        BY <2>1, <2>2, <3>1 DEF Acts!MayChoose
    <2>4. cmd.kind = "generate" => RenderedFrom(cmd.act, preparing[u].evidence)'
      <3>1. SUFFICES ASSUME cmd.kind = "generate"
                     PROVE  RenderedFrom(cmd.act, preparing[u].evidence)'
        OBVIOUS
      <3>2. /\ RenderedFrom(cmd.act, preparing[u].evidence) /\ Acts!OfAct(cmd)
            /\ acts[cmd.act].materials \subseteq Materials
        <4>1. RenderedFrom(cmd.act, preparing[u].evidence) /\ Acts!OfAct(cmd)
          BY <2>1, <3>1 DEF StillHolds, Acts!OfAct
        <4>2. preparing[u].phase # "idle"
          BY <1>5, <1>6 DEF HasRows
        <4>3. acts[cmd.act] \in Acts!Act
          BY <4>1, <4>2, CommandTyped DEF ActsInv, AttemptsInv
        <4>4. QED
          BY <4>1, <4>3 DEF Acts!Act
      <3>3. \A m \in Materials : quality[m] \in Nat
        BY DEF ActsInv, ActRowsInv, Acts!TypeOK
      <3>4. QED
        BY <2>1, <3>2, <3>3 DEF RenderedFrom
    <2>5. QED
      BY <2>1, <2>2, <2>3, <2>4 DEF StillHolds, Acts!IsContent, Acts!OfAct
  <1>7. ASSUME NEW u \in Attempts, Acts!In(u, "numbered")'
        PROVE  NumberInHand(u)' /\ (TakesNext(u)' => TakesNext(u))
    <2>1. HasRows(u)'
      BY <1>7 DEF Acts!In, HasRows
    <2>2. /\ u # t /\ preparing'[u] = preparing[u] /\ Acts!Cmd(u)' = Acts!Cmd(u)
          /\ Acts!OfAct(Acts!Cmd(u)) => acts'[Acts!Cmd(u).act] = acts[Acts!Cmd(u).act]
      BY <2>1, <1>5
    <2>3. Acts!In(u, "numbered") /\ NumberInHand(u)
      BY <1>7, <2>2 DEF Acts!In, ActsInv, AttemptsInv
    <2>4. acts'[Acts!Cmd(u).act] = acts[Acts!Cmd(u).act]
      BY <2>2, <2>3 DEF NumberInHand, Acts!OfAct
    <2>5. QED
      BY <2>2, <2>3, <2>4 DEF NumberInHand, TakesNext, Acts!In
  <1>8. \A u, v \in Attempts : TakesNext(u)' /\ TakesNext(v)' => u = v
    BY <1>7 DEF TakesNext, ActsInv, AttemptsInv
  <1>9. QED
    BY <1>2, <1>4, <1>6, <1>7, <1>8 DEF AttemptsInv

(* An edit, new links or a removal keeps the numbers and revisions: what   *)
(* has a revision is not removed, and what is written is a new version.    *)
LEMMA ChangedActHolds ==
  ASSUME Acts!AosrAssumption, ActRowsInv, NEW i \in DOMAIN acts, NEW act \in Acts!Act,
         \A field \in {"package", "typical", "number", "revision", "generatedAt"} :
           act[field] = acts[i][field],
         acts[i].deleted => act.deleted,
         act.version = acts[i].version + IF act.deleted THEN 0 ELSE 1,
         act.deleted => Acts!NothingRefersTo(i),
         stage[acts[i].package] = "open",
         acts' = [acts EXCEPT ![i] = act],
         UNCHANGED <<stage, method, counter, revisions, quality, party, snapshots, dismissed>>
  PROVE  ActRowsInv' /\ ElsewhereSame(acts[i].package)
  <1>1. /\ act.package = acts[i].package /\ act.typical = acts[i].typical
        /\ act.number = acts[i].number /\ act.revision = acts[i].revision
        /\ act.generatedAt = acts[i].generatedAt
    OBVIOUS
  <1>2. /\ acts \in Seq(Acts!Act) /\ Acts!TypeOK /\ acts[i] \in Acts!Act
        /\ \A j \in DOMAIN acts : RowHolds(acts[j])
    BY DEF ActRowsInv, Acts!TypeOK
  <1>3. /\ acts' \in Seq(Acts!Act) /\ DOMAIN acts' = DOMAIN acts
        /\ \A j \in DOMAIN acts : acts'[j] = IF j = i THEN act ELSE acts[j]
    BY <1>2
  <1>4. ElsewhereSame(acts[i].package)
    BY <1>1, <1>3 DEF ElsewhereSame
  <1>5. Acts!TypeOK'
    BY <1>2, <1>3 DEF Acts!TypeOK
  <1>6. \A j \in DOMAIN acts' : RowHolds(acts'[j])
    BY <1>1, <1>2, <1>3 DEF RowHolds, Acts!Act
  <1>7. act.deleted => acts[i].revision = 0 /\ acts[i].number = 0
    <2>1. act.deleted => 1 \notin 1..acts[i].revision
      BY DEF ActRowsInv, RevisionsHold, Acts!NothingRefersTo
    <2>2. QED
      BY <1>2, <2>1 DEF RowHolds, Acts!Act
  <1>8. Acts!Live' = IF act.deleted THEN Acts!Live \ {i} ELSE Acts!Live
    BY <1>3 DEF Acts!Live
  <1>9. NumbersHold'
    <2>1. NumbersHold
      BY DEF ActRowsInv
    <2>2. /\ \A j \in Acts!Live' : j \in Acts!Live
          /\ \A j \in Acts!Live : acts'[j].number = acts[j].number
          /\ \A j \in Acts!Live : acts[j].number > 0 => j \in Acts!Live'
      BY <1>1, <1>2, <1>3, <1>7, <1>8 DEF Acts!Live
    <2>3. QED
      BY <2>1, <2>2 DEF NumbersHold
  <1>10. RevisionsHold'
    <2>1. RevisionsHold
      BY DEF ActRowsInv
    <2>2. \A r \in revisions : r.act \in Acts!Live'
      BY <1>8, <2>1 DEF RevisionsHold, Acts!NothingRefersTo
    <2>3. \A j \in DOMAIN acts : /\ acts'[j].revision = acts[j].revision
                                 /\ acts'[j].number = acts[j].number
      BY <1>1, <1>3
    <2>4. QED
      BY <1>3, <2>1, <2>2, <2>3 DEF RevisionsHold, Acts!Live
  <1>11. \A j \in Acts!Live' : IsRendered(j)'
    <2>1. ASSUME NEW j \in Acts!Live', j # i
          PROVE  IsRendered(j)'
      BY <1>3, <1>8, <2>1 DEF ActRowsInv, IsRendered, RenderedFrom, Acts!Generated, Acts!Live
    <2>2. i \in Acts!Live' => ~Acts!Generated(i)'
      BY <1>1, <1>2, <1>3, <1>8 DEF RowHolds, Acts!Generated, Acts!Act, Acts!Live
    <2>3. QED
      BY <2>1, <2>2 DEF IsRendered
  <1>12. Acts!ExternalKeepsNothing'
    <2>1. \A p \in Packages : \A j \in Acts!ActsOf(p)' :
            j \in Acts!ActsOf(p) /\ acts'[j].typical = acts[j].typical
      BY <1>1, <1>3, <1>8 DEF Acts!ActsOf, Acts!Live
    <2>2. Acts!ExternalKeepsNothing
      BY DEF ActRowsInv
    <2>3. QED
      BY <2>1, <2>2 DEF Acts!ExternalKeepsNothing
  <1>13. Acts!GateIsLostByChoiceOnly'
    <2>1. \A p \in Packages \ {acts[i].package} :
            /\ Acts!ActsOf(p)' = Acts!ActsOf(p)
            /\ Acts!ForwardGate(p)' <=> Acts!ForwardGate(p)
      BY <1>4, OtherPackages
    <2>2. QED
      BY <2>1 DEF ActRowsInv, Acts!GateIsLostByChoiceOnly
  <1>14. Acts!PartyHistoryIsWhole'
    BY DEF ActRowsInv, Acts!PartyHistoryIsWhole
  <1>15. QED
    BY <1>3, <1>4, <1>5, <1>6, <1>9, <1>10, <1>11, <1>12, <1>13, <1>14 DEF ActRowsInv

(* A new act has no number, revision or rendering, in a package that is    *)
(* open and prepared in Core.                                              *)
LEMMA NewActHolds ==
  ASSUME Acts!AosrAssumption, ActRowsInv, NEW act \in Acts!Act, NEW new,
         ~act.deleted, act.number = 0, act.revision = 0, act.generatedAt = 0, act.version = 1,
         stage[act.package] = "open", method[act.package] = "CORE",
         act.typical => \A i \in Acts!ActsOf(act.package) : ~acts[i].typical,
         acts' \in Seq(Acts!Act), DOMAIN acts' = DOMAIN acts \cup {new}, new \notin DOMAIN acts,
         acts'[new] = act, \A i \in DOMAIN acts : acts'[i] = acts[i],
         UNCHANGED <<stage, method, counter, revisions, quality, party, snapshots, dismissed>>
  PROVE  ActRowsInv' /\ ElsewhereSame(act.package)
  <1>1. /\ acts \in Seq(Acts!Act) /\ Acts!TypeOK
        /\ \A j \in DOMAIN acts : RowHolds(acts[j])
    BY DEF ActRowsInv, Acts!TypeOK
  <1>2. /\ acts' \in Seq(Acts!Act) /\ DOMAIN acts' = DOMAIN acts \cup {new}
        /\ new \notin DOMAIN acts /\ acts'[new] = act
        /\ \A j \in DOMAIN acts : acts'[j] = acts[j]
    OBVIOUS
  <1>3. ElsewhereSame(act.package)
    BY <1>2 DEF ElsewhereSame
  <1>4. Acts!TypeOK'
    BY <1>1, <1>2 DEF Acts!TypeOK
  <1>5. \A j \in DOMAIN acts' : RowHolds(acts'[j])
    BY <1>1, <1>2 DEF RowHolds
  <1>6. Acts!Live' = Acts!Live \cup {new} /\ new \notin Acts!Live
    BY <1>2 DEF Acts!Live
  <1>7. NumbersHold'
    <2>1. NumbersHold /\ counter \in Nat
      BY <1>1 DEF ActRowsInv, Acts!TypeOK
    <2>2. /\ \A j \in Acts!Live : acts'[j].number = acts[j].number
          /\ acts'[new].number = 0
      BY <1>2 DEF Acts!Live
    <2>3. \A j \in Acts!Live' : acts'[j].number <= counter
      BY <1>6, <2>1, <2>2 DEF NumbersHold
    <2>4. \A n \in 1..counter : \E j \in Acts!Live' : acts'[j].number = n
      BY <1>6, <2>1, <2>2 DEF NumbersHold
    <2>5. ASSUME NEW j \in Acts!Live', NEW k \in Acts!Live',
                 acts'[j].number > 0, acts'[j].number = acts'[k].number
          PROVE  j = k
      <3>1. j # new /\ k # new
        BY <2>2, <2>5
      <3>2. QED
        BY <1>6, <2>1, <2>2, <2>5, <3>1 DEF NumbersHold
    <2>6. QED
      BY <2>3, <2>4, <2>5 DEF NumbersHold
  <1>8. RevisionsHold'
    <2>1. RevisionsHold
      BY DEF ActRowsInv
    <2>2. \A r \in revisions : r.act \in Acts!Live' /\ acts'[r.act] = acts[r.act]
      BY <1>2, <1>6, <2>1 DEF RevisionsHold, Acts!Live
    <2>3. \A n \in 1..acts'[new].revision : FALSE
      BY <1>2
    <2>4. QED
      BY <1>2, <2>1, <2>2, <2>3 DEF RevisionsHold
  <1>9. \A j \in Acts!Live' : IsRendered(j)'
    BY <1>2, <1>6 DEF ActRowsInv, IsRendered, RenderedFrom, Acts!Generated, Acts!Live
  <1>10. Acts!ExternalKeepsNothing'
    <2>1. Acts!ActsOf(act.package)' = Acts!ActsOf(act.package) \cup {new}
      BY <1>2, <1>6 DEF Acts!ActsOf, Acts!Live
    <2>2. \A j \in Acts!ActsOf(act.package) : acts'[j] = acts[j]
      BY <1>2 DEF Acts!ActsOf, Acts!Live
    <2>3. \A p \in Packages \ {act.package} :
            /\ Acts!ActsOf(p)' = Acts!ActsOf(p)
            /\ \A i \in Acts!ActsOf(p) : acts'[i] = acts[i]
      BY <1>3, OtherPackages
    <2>4. Acts!ExternalKeepsNothing
      BY DEF ActRowsInv
    <2>5. ASSUME NEW p \in Packages, p # act.package
          PROVE  /\ method'[p] # "CORE" => Acts!ActsOf(p)' = {}
                 /\ \A i, j \in Acts!ActsOf(p)' : acts'[i].typical /\ acts'[j].typical => i = j
      BY <2>3, <2>4, <2>5 DEF Acts!ExternalKeepsNothing
    <2>6. \A i, j \in Acts!ActsOf(act.package)' : acts'[i].typical /\ acts'[j].typical => i = j
      <3>1. act.package \in Packages
        BY DEF Acts!Act
      <3>2. QED
        BY <1>2, <2>1, <2>2, <2>4, <3>1 DEF Acts!ExternalKeepsNothing
    <2>7. QED
      BY <2>5, <2>6 DEF Acts!ExternalKeepsNothing
  <1>11. Acts!GateIsLostByChoiceOnly'
    <2>1. \A p \in Packages \ {act.package} :
            /\ Acts!ActsOf(p)' = Acts!ActsOf(p)
            /\ Acts!ForwardGate(p)' <=> Acts!ForwardGate(p)
      BY <1>3, OtherPackages
    <2>2. QED
      BY <2>1 DEF ActRowsInv, Acts!GateIsLostByChoiceOnly
  <1>12. Acts!PartyHistoryIsWhole'
    BY DEF ActRowsInv, Acts!PartyHistoryIsWhole
  <1>13. QED
    BY <1>2, <1>3, <1>4, <1>5, <1>7, <1>8, <1>9, <1>10, <1>11, <1>12 DEF ActRowsInv

(* A generation takes the next number or keeps the act's, and adds the     *)
(* revision that was rendered from the row as it is.                       *)
LEMMA RenderedActHolds ==
  ASSUME ActRowsInv, NEW i \in Acts!Live, NEW act \in Acts!Act, NEW record,
         ~act.deleted, act.package = acts[i].package, act.typical = acts[i].typical,
         act.content = acts[i].content, act.materials = acts[i].materials,
         act.number = IF acts[i].number = 0 THEN counter + 1 ELSE acts[i].number,
         act.revision = acts[i].revision + 1, act.version = acts[i].version + 1,
         act.generatedAt = act.version,
         record.act = i, record.revision = act.revision, record.number = act.number,
         record.content = act.content, RenderedFrom(i, record.evidence),
         stage[acts[i].package] = "open",
         acts' = [acts EXCEPT ![i] = act],
         counter' = IF acts[i].number = 0 THEN act.number ELSE counter,
         revisions' = revisions \cup {record},
         UNCHANGED <<stage, method, quality, party, snapshots, dismissed>>
  PROVE  ActRowsInv' /\ ElsewhereSame(acts[i].package)
  <1>1. /\ acts \in Seq(Acts!Act) /\ Acts!TypeOK /\ acts[i] \in Acts!Act /\ i \in DOMAIN acts
        /\ \A j \in DOMAIN acts : RowHolds(acts[j])
    BY DEF ActRowsInv, Acts!TypeOK, Acts!Live
  <1>2. /\ acts' \in Seq(Acts!Act) /\ DOMAIN acts' = DOMAIN acts
        /\ \A j \in DOMAIN acts : acts'[j] = IF j = i THEN act ELSE acts[j]
    BY <1>1
  <1>3. /\ counter \in Nat /\ counter' \in Nat /\ counter' >= counter
        /\ acts[i].number \in Nat /\ acts[i].revision \in Nat /\ acts[i].version \in Nat
    <2>1. acts[i].number \in Nat /\ acts[i].revision \in Nat /\ acts[i].version \in Nat
      BY <1>1 DEF Acts!Act
    <2>2. counter \in Nat
      BY <1>1 DEF Acts!TypeOK
    <2>3. counter' \in Nat /\ counter' >= counter
      <3>1. CASE acts[i].number = 0
        BY <2>2, <3>1
      <3>2. CASE acts[i].number # 0
        BY <2>2, <3>2
      <3>3. QED
        BY <3>1, <3>2
    <2>4. QED
      BY <2>1, <2>2, <2>3
  <1>4. ElsewhereSame(acts[i].package)
    BY <1>2 DEF ElsewhereSame
  <1>5. Acts!TypeOK'
    BY <1>1, <1>2, <1>3 DEF Acts!TypeOK
  <1>6. \A j \in DOMAIN acts' : RowHolds(acts'[j])
    BY <1>1, <1>2, <1>3 DEF RowHolds
  <1>7. Acts!Live' = Acts!Live
    BY <1>1, <1>2 DEF Acts!Live
  <1>8. \A j \in Acts!Live : acts[j].number \in Nat /\ acts'[j] = IF j = i THEN act ELSE acts[j]
    BY <1>1, <1>2 DEF Acts!Live, Acts!TypeOK, Acts!Act
  <1>9. NumbersHold'
    <2>1. NumbersHold
      BY DEF ActRowsInv
    <2>2. \A j \in Acts!Live' : acts'[j].number <= counter'
      BY <1>3, <1>7, <1>8, <2>1 DEF NumbersHold
    <2>3. ASSUME NEW n \in 1..counter'
          PROVE  \E j \in Acts!Live' : acts'[j].number = n
      <3>1. CASE acts[i].number = 0 /\ n = counter + 1
        BY <1>7, <1>8, <3>1
      <3>2. CASE n \in 1..counter
        <4>1. PICK j \in Acts!Live : acts[j].number = n
          BY <2>1, <3>2 DEF NumbersHold
        <4>2. acts'[j].number = n
          BY <1>8, <3>2, <4>1
        <4>3. QED
          BY <1>7, <4>1, <4>2
      <3>3. QED
        BY <1>3, <2>3, <3>1, <3>2
    <2>4. ASSUME NEW j \in Acts!Live', NEW k \in Acts!Live',
                 acts'[j].number > 0, acts'[j].number = acts'[k].number
          PROVE  j = k
      BY <1>3, <1>7, <1>8, <2>1, <2>4 DEF NumbersHold
    <2>5. QED
      BY <2>2, <2>3, <2>4 DEF NumbersHold
  <1>10. RevisionsHold'
    <2>1. RevisionsHold
      BY DEF ActRowsInv
    <2>2. ASSUME NEW r \in revisions'
          PROVE  /\ r.act \in Acts!Live' /\ r.number = acts'[r.act].number
                 /\ r.revision \in 1..acts'[r.act].revision
      <3>1. CASE r = record
        BY <1>1, <1>2, <1>3, <1>7, <3>1
      <3>2. CASE r \in revisions /\ r.act # i
        BY <1>7, <1>8, <2>1, <3>2 DEF RevisionsHold
      <3>3. CASE r \in revisions /\ r.act = i
        <4>1. r.number = acts[i].number /\ r.revision \in 1..acts[i].revision
          BY <2>1, <3>3 DEF RevisionsHold
        <4>2. acts[i].number # 0
          BY <1>1, <1>3, <4>1 DEF RowHolds
        <4>3. QED
          BY <1>3, <1>7, <1>8, <3>3, <4>1, <4>2
      <3>4. QED
        BY <2>2, <3>1, <3>2, <3>3
    <2>3. ASSUME NEW j \in DOMAIN acts', NEW n \in 1..acts'[j].revision
          PROVE  \E r \in revisions' : r.act = j /\ r.revision = n
      <3>1. CASE j = i /\ n = act.revision
        BY <3>1
      <3>2. CASE j # i \/ n # act.revision
        <4>1. n \in 1..acts[j].revision
          BY <1>2, <1>3, <2>3, <3>2
        <4>2. QED
          BY <1>2, <2>1, <4>1 DEF RevisionsHold
      <3>3. QED
        BY <3>1, <3>2
    <2>4. ASSUME NEW r \in revisions', NEW s \in revisions', r.act = s.act, r.revision = s.revision
          PROVE  r = s
      <3>1. \A q \in revisions : q.act = i => q.revision # record.revision
        BY <1>3, <2>1 DEF RevisionsHold
      <3>2. QED
        BY <2>1, <2>4, <3>1 DEF RevisionsHold
    <2>5. QED
      BY <2>2, <2>3, <2>4 DEF RevisionsHold
  <1>11. \A j \in Acts!Live' : IsRendered(j)'
    <2>1. ASSUME NEW j \in Acts!Live', j # i
          PROVE  IsRendered(j)'
      BY <1>2, <1>7, <2>1 DEF ActRowsInv, IsRendered, RenderedFrom, Acts!Generated, Acts!Live
    <2>2. RenderedFrom(i, record.evidence)'
      BY <1>1, <1>2 DEF RenderedFrom
    <2>3. IsRendered(i)'
      BY <1>1, <1>2, <2>2 DEF IsRendered
    <2>4. QED
      BY <2>1, <2>3
  <1>12. Acts!ExternalKeepsNothing'
    <2>1. \A p \in Packages : Acts!ActsOf(p)' = Acts!ActsOf(p)
      BY <1>7, <1>8 DEF Acts!ActsOf
    <2>2. \A j \in Acts!Live : acts'[j].typical = acts[j].typical
      BY <1>8
    <2>3. QED
      BY <2>1, <2>2 DEF ActRowsInv, Acts!ExternalKeepsNothing, Acts!ActsOf
  <1>13. Acts!GateIsLostByChoiceOnly'
    <2>1. \A p \in Packages \ {acts[i].package} :
            /\ Acts!ActsOf(p)' = Acts!ActsOf(p)
            /\ Acts!ForwardGate(p)' <=> Acts!ForwardGate(p)
      BY <1>4, OtherPackages
    <2>2. QED
      BY <2>1 DEF ActRowsInv, Acts!GateIsLostByChoiceOnly
  <1>14. Acts!PartyHistoryIsWhole'
    BY DEF ActRowsInv, Acts!PartyHistoryIsWhole
  <1>15. QED
    BY <1>2, <1>4, <1>5, <1>6, <1>9, <1>10, <1>11, <1>12, <1>13, <1>14 DEF ActRowsInv

(* A choice of method: outside Core only for a package without acts.       *)
LEMMA ChosenMethodHolds ==
  ASSUME Acts!AosrAssumption, ActRowsInv, NEW p \in Packages, NEW chosen \in Acts!Methods,
         method[p] # chosen, chosen = "EXTERNAL" => Acts!ActsOf(p) = {},
         method' = [method EXCEPT ![p] = chosen],
         UNCHANGED <<stage, acts, counter, revisions, quality, party, snapshots, dismissed>>
  PROVE  ActRowsInv' /\ ElsewhereSame(p)
  <1>1. /\ method \in [Packages -> Acts!Methods \cup {None}]
        /\ \A q \in Packages : method'[q] = IF q = p THEN chosen ELSE method[q]
    BY DEF ActRowsInv, Acts!TypeOK
  <1>2. ElsewhereSame(p)
    BY <1>1 DEF ElsewhereSame
  <1>3. Acts!TypeOK'
    BY DEF ActRowsInv, Acts!TypeOK
  <1>4. Acts!ActsOf(p) = {}
    BY DEF ActRowsInv, Acts!ExternalKeepsNothing, Acts!Methods
  <1>5. \A q \in Packages : Acts!ActsOf(q)' = Acts!ActsOf(q)
    BY DEF Acts!ActsOf, Acts!Live
  <1>6. Acts!ExternalKeepsNothing'
    BY <1>1, <1>4, <1>5 DEF ActRowsInv, Acts!ExternalKeepsNothing
  <1>7. Acts!GateIsLostByChoiceOnly'
    <2>1. \A q \in Packages \ {p} : Acts!ForwardGate(q)' <=> Acts!ForwardGate(q)
      BY <1>2, OtherPackages
    <2>2. chosen = "EXTERNAL" => Acts!ForwardGate(p)'
      BY <1>1 DEF Acts!ForwardGate, Acts!AosrAssumption, Acts!Methods
    <2>3. QED
      BY <1>1, <1>4, <1>5, <2>1, <2>2
         DEF ActRowsInv, Acts!GateIsLostByChoiceOnly, Acts!Methods
  <1>8. /\ NumbersHold' /\ RevisionsHold' /\ Acts!PartyHistoryIsWhole'
        /\ \A j \in Acts!Live' : IsRendered(j)'
    BY DEF ActRowsInv, NumbersHold, RevisionsHold, Acts!PartyHistoryIsWhole, IsRendered,
       RenderedFrom, Acts!Generated, Acts!Live
  <1>9. QED
    BY <1>2, <1>3, <1>6, <1>7, <1>8 DEF ActRowsInv

(* A command with its rows has what it was checked against.                *)
LEMMA RowsHeld ==
  ASSUME ActsInv, NEW t \in Attempts, HasRows(t)
  PROVE  /\ StillHolds(t) /\ Acts!Cmd(t) \in ActCommand \cup PackageCommand
         /\ Acts!OfAct(Acts!Cmd(t)) => /\ Acts!Cmd(t).act \in DOMAIN acts
                                       /\ acts[Acts!Cmd(t).act] \in Acts!Act
  <1>1. preparing[t].phase # "idle"
    BY DEF HasRows
  <1>2. QED
    BY <1>1, CommandTyped DEF ActsInv, AttemptsInv

(* A row with one column written is a row.                                 *)
LEMMA ColumnWritten ==
  ASSUME NEW act \in Acts!Act
  PROVE  /\ \A n \in Nat : [act EXCEPT !.number = n] \in Acts!Act
         /\ \A n \in Nat : [act EXCEPT !.revision = n] \in Acts!Act
         /\ \A n \in Nat : [act EXCEPT !.version = n] \in Acts!Act
         /\ \A n \in Nat : [act EXCEPT !.generatedAt = n] \in Acts!Act
         /\ \A c \in Contents : [act EXCEPT !.content = c] \in Acts!Act
         /\ \A links \in SUBSET Materials : [act EXCEPT !.materials = links] \in Acts!Act
         /\ \A b \in BOOLEAN : [act EXCEPT !.scheme = b] \in Acts!Act
         /\ [act EXCEPT !.deleted = TRUE] \in Acts!Act
  BY DEF Acts!Act

\* What neither an edit nor a removal touches.
SameNumbering(act, old) ==
  /\ act.package = old.package /\ act.typical = old.typical
  /\ act.number = old.number /\ act.revision = old.revision
  /\ act.generatedAt = old.generatedAt

\* The rows an edit, a setting of links, a removal and a generation write.
Edited(old, content) == Acts!Versioned([old EXCEPT !.content = content])
Linked(old, links) == Acts!Versioned([old EXCEPT !.materials = links, !.scheme = TRUE])
Removed(old) == [old EXCEPT !.deleted = TRUE, !.materials = {}, !.scheme = FALSE]
Rendered(old, number) ==
  [old EXCEPT !.number = number, !.revision = @ + 1,
              !.generatedAt = old.version + 1, !.version = @ + 1]

LEMMA EditedRow ==
  ASSUME NEW old \in Acts!Act, NEW content \in Contents, NEW act, act = Edited(old, content)
  PROVE  /\ act \in Acts!Act /\ SameNumbering(act, old)
         /\ act.deleted = old.deleted /\ act.version = old.version + 1
  <1> DEFINE edited == [old EXCEPT !.content = content]
  <1>1. act = [edited EXCEPT !.version = old.version + 1]
    BY DEF Edited, Acts!Versioned, Acts!Act
  <1>2. old.version + 1 \in Nat /\ edited \in Acts!Act
    BY ColumnWritten DEF Acts!Act
  <1>3. act \in Acts!Act
    <2> HIDE DEF edited
    <2>1. QED
      BY <1>1, <1>2, ColumnWritten
  <1>4. SameNumbering(act, old) /\ act.deleted = old.deleted /\ act.version = old.version + 1
    BY <1>1 DEF SameNumbering, Acts!Act
  <1>5. QED
    BY <1>3, <1>4

LEMMA LinkedRow ==
  ASSUME NEW old \in Acts!Act, NEW links \in SUBSET Materials, NEW act,
         act = Linked(old, links)
  PROVE  /\ act \in Acts!Act /\ SameNumbering(act, old)
         /\ act.deleted = old.deleted /\ act.version = old.version + 1
  <1> DEFINE linked == [old EXCEPT !.materials = links]
             schemed == [linked EXCEPT !.scheme = TRUE]
  <1>1. act = [schemed EXCEPT !.version = old.version + 1]
    BY DEF Linked, Acts!Versioned, Acts!Act
  <1>2. old.version + 1 \in Nat /\ linked \in Acts!Act
    BY ColumnWritten DEF Acts!Act
  <1>3. schemed \in Acts!Act
    <2> HIDE DEF linked
    <2>1. QED
      BY <1>2, ColumnWritten
  <1>4. act \in Acts!Act
    <2> HIDE DEF schemed
    <2>1. QED
      BY <1>1, <1>2, <1>3, ColumnWritten
  <1>5. SameNumbering(act, old) /\ act.deleted = old.deleted /\ act.version = old.version + 1
    BY <1>1 DEF SameNumbering, Acts!Act
  <1>6. QED
    BY <1>4, <1>5

LEMMA RemovedRow ==
  ASSUME NEW old \in Acts!Act, NEW act, act = Removed(old)
  PROVE  /\ act \in Acts!Act /\ SameNumbering(act, old)
         /\ act.deleted /\ act.version = old.version
  <1> DEFINE deleted == [old EXCEPT !.deleted = TRUE]
             unlinked == [deleted EXCEPT !.materials = {}]
  <1>1. act = [unlinked EXCEPT !.scheme = FALSE]
    BY DEF Removed
  <1>2. deleted \in Acts!Act
    BY ColumnWritten
  <1>3. unlinked \in Acts!Act
    <2> HIDE DEF deleted
    <2>1. QED
      BY <1>2, ColumnWritten
  <1>4. act \in Acts!Act
    <2> HIDE DEF unlinked
    <2>1. QED
      BY <1>1, <1>3, ColumnWritten
  <1>5. SameNumbering(act, old) /\ act.deleted /\ act.version = old.version
    BY <1>1 DEF SameNumbering, Acts!Act
  <1>6. QED
    BY <1>4, <1>5

IsRevisionOf(act, old, number) ==
  /\ act.package = old.package /\ act.typical = old.typical
  /\ act.content = old.content /\ act.materials = old.materials
  /\ act.deleted = old.deleted /\ act.number = number
  /\ act.revision = old.revision + 1 /\ act.version = old.version + 1
  /\ act.generatedAt = act.version

LEMMA GeneratedRow ==
  ASSUME NEW old \in Acts!Act, NEW number \in Nat, NEW act, act = Rendered(old, number)
  PROVE  act \in Acts!Act /\ IsRevisionOf(act, old, number)
  <1> DEFINE numbered == [old EXCEPT !.number = number]
             revised == [numbered EXCEPT !.revision = old.revision + 1]
             generated == [revised EXCEPT !.generatedAt = old.version + 1]
  <1>1. act = [generated EXCEPT !.version = old.version + 1]
    BY DEF Rendered, Acts!Act
  <1>2. old.version + 1 \in Nat /\ old.revision + 1 \in Nat /\ numbered \in Acts!Act
    BY ColumnWritten DEF Acts!Act
  <1>3. revised \in Acts!Act
    <2> HIDE DEF numbered
    <2>1. QED
      BY <1>2, ColumnWritten
  <1>4. generated \in Acts!Act
    <2> HIDE DEF revised
    <2>1. QED
      BY <1>2, <1>3, ColumnWritten
  <1>5. \A n \in Nat : [generated EXCEPT !.version = n] \in Acts!Act
    <2> HIDE DEF generated
    <2>1. QED
      BY <1>4, ColumnWritten
  <1>6. act \in Acts!Act
    <2> HIDE DEF generated
    <2>1. QED
      BY <1>1, <1>2, <1>5
  <1>7. QED
    BY <1>1, <1>6 DEF IsRevisionOf, Acts!Act

(* A commit that leaves the acts, their packages and methods alone.        *)
LEMMA ActsStand ==
  ASSUME ActRowsInv, UNCHANGED <<stage, method, acts, counter, revisions>>
  PROVE  /\ acts' \in Seq(Acts!Act) /\ \A i \in DOMAIN acts' : RowHolds(acts'[i])
         /\ NumbersHold' /\ RevisionsHold' /\ Acts!Live' = Acts!Live
         /\ Acts!ExternalKeepsNothing' /\ Acts!GateIsLostByChoiceOnly'
         /\ quality' = quality => \A i \in Acts!Live' : IsRendered(i)'
  <1>1. Acts!Live' = Acts!Live /\ \A p \in Packages : Acts!ActsOf(p)' = Acts!ActsOf(p)
    BY DEF Acts!Live, Acts!ActsOf
  <1>2. acts' \in Seq(Acts!Act) /\ \A i \in DOMAIN acts' : RowHolds(acts'[i])
    BY DEF ActRowsInv
  <1>3. NumbersHold'
    BY <1>1 DEF ActRowsInv, NumbersHold
  <1>4. RevisionsHold'
    BY <1>1 DEF ActRowsInv, RevisionsHold
  <1>5. Acts!ExternalKeepsNothing'
    BY <1>1 DEF ActRowsInv, Acts!ExternalKeepsNothing
  <1>6. Acts!GateIsLostByChoiceOnly'
    BY <1>1 DEF ActRowsInv, Acts!GateIsLostByChoiceOnly, Acts!ForwardGate, Acts!Generated
  <1>7. quality' = quality => \A i \in Acts!Live' : IsRendered(i)'
    BY <1>1 DEF ActRowsInv, IsRendered, RenderedFrom, Acts!Generated
  <1>8. QED
    BY <1>1, <1>2, <1>3, <1>4, <1>5, <1>6, <1>7

LEMMA ActCommitStep ==
  ASSUME Acts!AosrAssumption, ActsInv, NEW t \in Attempts,
         \/ Acts!SetMethod(t) \/ Acts!CreateAct(t) \/ Acts!DismissSuggestion(t)
         \/ Acts!EditAct(t) \/ Acts!SetLinks(t) \/ Acts!RemoveAct(t) \/ Acts!GenerateAct(t)
         \/ Acts!SaveParty(t) \/ Acts!AddQualityDocument(t)
  PROVE  ActsInv'
  <1>1. PICK cmd : cmd = Acts!Cmd(t)
    OBVIOUS
  <1>2. PICK mine : mine = Acts!PackageOf(cmd)
    OBVIOUS
  <1>3. ActRowsInv /\ \A m \in Materials : quality[m] \in Nat
    BY DEF ActsInv, ActRowsInv, Acts!TypeOK
  <1>4. ASSUME HasRows(t), preparing' = [preparing EXCEPT ![t] = Acts!Idle], stage' = stage,
               ActRowsInv', ElsewhereSame(mine), \A m \in Materials : quality'[m] >= quality[m],
               \A u \in Attempts \ {t} : TakesNext(u) => counter' = counter
        PROVE  ActsInv'
    <2>1. \A m \in Materials : quality'[m] \in Nat
      BY <1>4 DEF ActRowsInv, Acts!TypeOK
    <2>2. AttemptsInv'
      BY <1>1, <1>2, <1>4, <2>1, OthersStillHold
    <2>3. QED
      BY <1>4, <2>2 DEF ActsInv
  <1>5. ASSUME UNCHANGED <<stage, acts, method, counter, revisions>>
        PROVE  ElsewhereSame(mine)
    BY <1>5 DEF ElsewhereSame
  <1>6. CASE Acts!SetMethod(t)
    <2>1. /\ HasRows(t) /\ Acts!Cmd(t).kind = "method" /\ stage' = stage
          /\ preparing' = [preparing EXCEPT ![t] = Acts!Idle]
          /\ method' = [method EXCEPT ![cmd.package] = cmd.method]
          /\ UNCHANGED <<acts, counter, revisions, quality, party, snapshots, dismissed>>
      BY <1>1, <1>6 DEF Acts!SetMethod, Acts!kept, Acts!shared,
         Acts!Committing, Acts!In, HasRows
    <2>2. /\ HasRows(t) /\ StillHolds(t) /\ cmd.kind = "method" /\ stage' = stage
          /\ cmd \in ActCommand \cup PackageCommand
          /\ preparing' = [preparing EXCEPT ![t] = Acts!Idle]
      BY <1>1, <2>1, RowsHeld
    <2>3. /\ cmd.package \in Packages /\ cmd.method \in Acts!Methods /\ mine = cmd.package
      BY <1>2, <2>2 DEF ActCommand, PackageCommand, Acts!PackageOf, Acts!OfAct
    <2>4. Acts!MayChoose(cmd)
      BY <1>1, <2>2 DEF StillHolds
    <2>5. ActRowsInv' /\ ElsewhereSame(mine)
      BY <1>3, <2>1, <2>2, <2>3, <2>4, ChosenMethodHolds DEF Acts!MayChoose
    <2>6. QED
      BY <1>3, <1>4, <2>1, <2>2, <2>5
  <1>7. CASE Acts!CreateAct(t)
    <2> DEFINE act == [package |-> cmd.package, deleted |-> FALSE, typical |-> cmd.typical,
                       version |-> 1, number |-> 0, revision |-> 0, generatedAt |-> 0,
                       content |-> None, materials |-> {}, scheme |-> FALSE]
               new == Len(acts) + 1
    <2>1. /\ HasRows(t) /\ Acts!Cmd(t).kind = "create" /\ stage' = stage
          /\ preparing' = [preparing EXCEPT ![t] = Acts!Idle] /\ acts' = Append(acts, act)
          /\ UNCHANGED <<method, counter, revisions, quality, party, snapshots, dismissed>>
      BY <1>1, <1>7 DEF Acts!CreateAct, Acts!shared,
         Acts!Committing, Acts!In, HasRows
    <2>2. /\ HasRows(t) /\ StillHolds(t) /\ cmd.kind = "create" /\ stage' = stage
          /\ cmd \in ActCommand \cup PackageCommand
          /\ preparing' = [preparing EXCEPT ![t] = Acts!Idle]
      BY <1>1, <2>1, RowsHeld
    <2>3. /\ cmd.package \in Packages /\ cmd.typical \in BOOLEAN /\ mine = cmd.package
      BY <1>2, <2>2 DEF ActCommand, PackageCommand, Acts!PackageOf, Acts!OfAct
    <2>4. /\ stage[mine] = "open" /\ method[mine] = "CORE"
          /\ cmd.typical => \A i \in Acts!ActsOf(mine) : ~acts[i].typical
      BY <1>1, <1>2, <2>2 DEF StillHolds, Acts!IsContent
    <2>5. /\ act \in Acts!Act /\ ~act.deleted /\ act.number = 0 /\ act.revision = 0
          /\ act.generatedAt = 0 /\ act.version = 1 /\ act.package = mine
          /\ act.typical = cmd.typical
      BY <2>3 DEF Acts!Act
    <2> HIDE DEF act
    <2>6. acts \in Seq(Acts!Act)
      BY <1>3 DEF ActRowsInv
    <2>7. /\ acts' \in Seq(Acts!Act) /\ DOMAIN acts' = DOMAIN acts \cup {new}
          /\ new \notin DOMAIN acts /\ acts'[new] = act
          /\ \A i \in DOMAIN acts : acts'[i] = acts[i]
      BY <2>1, <2>5, <2>6
    <2> HIDE DEF new
    <2>8. ActRowsInv' /\ ElsewhereSame(mine)
      <3>1. UNCHANGED <<stage, method, counter, revisions, quality, party, snapshots, dismissed>>
        BY <2>1, <2>2
      <3>2. act.typical => \A i \in Acts!ActsOf(act.package) : ~acts[i].typical
        BY <2>4, <2>5
      <3>3. QED
        BY <1>3, <2>4, <2>5, <2>7, <3>1, <3>2, NewActHolds
    <2>9. QED
      BY <1>3, <1>4, <2>1, <2>2, <2>8
  <1>8. CASE Acts!DismissSuggestion(t)
    <2>1. /\ HasRows(t) /\ Acts!Cmd(t).kind = "dismiss" /\ stage' = stage
          /\ preparing' = [preparing EXCEPT ![t] = Acts!Idle]
          /\ dismissed' = dismissed \cup {cmd.package}
          /\ UNCHANGED <<method, acts, counter, revisions, quality, party, snapshots>>
      BY <1>1, <1>8 DEF Acts!DismissSuggestion, Acts!kept, Acts!shared,
         Acts!Committing, Acts!In, HasRows
    <2>2. /\ HasRows(t) /\ cmd.kind = "dismiss" /\ stage' = stage
          /\ cmd \in ActCommand \cup PackageCommand
          /\ preparing' = [preparing EXCEPT ![t] = Acts!Idle]
      BY <1>1, <2>1, RowsHeld
    <2>3. cmd.package \in Packages
      BY <2>2 DEF ActCommand, PackageCommand
    <2>4. Acts!TypeOK' /\ Acts!PartyHistoryIsWhole'
      BY <1>3, <2>1, <2>2, <2>3 DEF ActRowsInv, Acts!TypeOK, Acts!PartyHistoryIsWhole
    <2>5. ActRowsInv'
      BY <1>3, <2>1, <2>2, <2>4, ActsStand DEF ActRowsInv
    <2>6. QED
      BY <1>3, <1>4, <1>5, <2>1, <2>2, <2>5
  <1>9. CASE Acts!EditAct(t) \/ Acts!SetLinks(t) \/ Acts!RemoveAct(t)
    <2>1. PICK kind \in {"edit", "links", "remove"} :
            /\ HasRows(t) /\ Acts!Cmd(t).kind = kind /\ stage' = stage
            /\ preparing' = [preparing EXCEPT ![t] = Acts!Idle]
            /\ kind = "edit" => Acts!EditAct(t)
            /\ kind = "links" => Acts!SetLinks(t)
            /\ kind = "remove" => Acts!RemoveAct(t)
      BY <1>9 DEF Acts!EditAct, Acts!SetLinks, Acts!RemoveAct, Acts!Committing, Acts!In, HasRows
    <2>2. /\ HasRows(t) /\ StillHolds(t) /\ cmd.kind = kind /\ stage' = stage
          /\ cmd \in ActCommand \cup PackageCommand
          /\ preparing' = [preparing EXCEPT ![t] = Acts!Idle]
          /\ Acts!OfAct(cmd) => cmd.act \in DOMAIN acts /\ acts[cmd.act] \in Acts!Act
      BY <1>1, <2>1, RowsHeld
    <2>3. /\ Acts!OfAct(cmd) /\ cmd.act \in DOMAIN acts /\ acts[cmd.act] \in Acts!Act
          /\ mine = acts[cmd.act].package /\ acts[cmd.act].version \in Nat
      BY <1>2, <2>2 DEF Acts!OfAct, Acts!PackageOf, Acts!Act
    <2>4. stage[acts[cmd.act].package] = "open" /\ (kind # "remove" => ~acts[cmd.act].deleted)
      BY <1>1, <1>2, <2>1, <2>2, <2>3 DEF StillHolds, Acts!IsContent
    <2> PICK old : old = acts[cmd.act]
      OBVIOUS
    <2>5. PICK act :
            /\ acts' = [acts EXCEPT ![cmd.act] = act] /\ act \in Acts!Act
            /\ SameNumbering(act, acts[cmd.act])
            /\ acts[cmd.act].deleted => act.deleted
            /\ act.deleted => /\ act.version = acts[cmd.act].version
                              /\ Acts!NothingRefersTo(cmd.act)
            /\ ~act.deleted => act.version = acts[cmd.act].version + 1
            /\ UNCHANGED <<method, counter, revisions, quality, party, snapshots, dismissed>>
      <3>1. CASE kind = "edit"
        <4> PICK act : act = Edited(old, cmd.content)
          OBVIOUS
        <4>1. /\ acts' = [acts EXCEPT ![cmd.act] = act]
              /\ UNCHANGED <<method, counter, revisions, quality, party, snapshots, dismissed>>
          BY <1>1, <2>1, <3>1 DEF Edited, Acts!EditAct, Acts!Changes, Acts!shared
        <4>2. cmd.content \in Contents
          BY <2>2, <3>1 DEF ActCommand, PackageCommand
        <4>3. /\ act \in Acts!Act
              /\ SameNumbering(act, old)
              /\ ~act.deleted /\ act.version = old.version + 1
          BY <2>3, <2>4, <3>1, <4>2, EditedRow
        <4>4. QED
          BY <2>3, <2>4, <3>1, <4>1, <4>3
      <3>2. CASE kind = "links"
        <4> PICK act : act = Linked(old, cmd.materials)
          OBVIOUS
        <4>1. /\ acts' = [acts EXCEPT ![cmd.act] = act]
              /\ UNCHANGED <<method, counter, revisions, quality, party, snapshots, dismissed>>
          BY <1>1, <2>1, <3>2 DEF Linked, Acts!SetLinks, Acts!Changes, Acts!shared
        <4>2. cmd.materials \subseteq Materials
          BY <2>2, <3>2 DEF ActCommand, PackageCommand
        <4>3. /\ act \in Acts!Act
              /\ SameNumbering(act, old)
              /\ ~act.deleted /\ act.version = old.version + 1
          BY <2>3, <2>4, <3>2, <4>2, LinkedRow
        <4>4. QED
          BY <2>3, <2>4, <3>2, <4>1, <4>3
      <3>3. CASE kind = "remove"
        <4> PICK act : act = Removed(old)
          OBVIOUS
        <4>1. /\ acts' = [acts EXCEPT ![cmd.act] = act] /\ Acts!NothingRefersTo(cmd.act)
              /\ UNCHANGED <<method, counter, revisions, quality, party, snapshots, dismissed>>
          BY <1>1, <2>1, <3>3 DEF Removed, Acts!RemoveAct, Acts!Changes, Acts!shared
        <4>2. /\ act \in Acts!Act
              /\ SameNumbering(act, old)
              /\ act.deleted /\ act.version = old.version
          BY <2>3, RemovedRow
        <4>3. QED
          BY <2>3, <4>1, <4>2
      <3>4. QED
        BY <2>1, <3>1, <3>2, <3>3
    <2>6. ActRowsInv' /\ ElsewhereSame(mine)
      <3>1. \A field \in {"package", "typical", "number", "revision", "generatedAt"} :
              act[field] = acts[cmd.act][field]
        BY <2>5 DEF SameNumbering
      <3>2. UNCHANGED <<stage, method, counter, revisions, quality, party, snapshots, dismissed>>
        BY <2>2, <2>5
      <3>3. act.version = acts[cmd.act].version + IF act.deleted THEN 0 ELSE 1
        BY <2>3, <2>5
      <3>4. QED
        BY <1>3, <2>3, <2>4, <2>5, <3>1, <3>2, <3>3, ChangedActHolds
    <2>7. QED
      BY <1>3, <1>4, <2>2, <2>5, <2>6
  <1>10. CASE Acts!GenerateAct(t)
    <2> DEFINE i == cmd.act
    <2> PICK number : number = preparing[t].number
      OBVIOUS
    <2> PICK old : old = acts[i]
      OBVIOUS
    <2> PICK act : act = Rendered(old, number)
      OBVIOUS
    <2> PICK record :
          record = [act |-> i, revision |-> acts[i].revision + 1, number |-> number,
                    content |-> acts[i].content, evidence |-> preparing[t].evidence]
      OBVIOUS
    <2>1. /\ HasRows(t) /\ Acts!Cmd(t).kind = "generate" /\ stage' = stage
          /\ preparing' = [preparing EXCEPT ![t] = Acts!Idle]
          /\ Acts!In(t, "numbered") /\ acts' = [acts EXCEPT ![i] = act]
          /\ counter' = IF acts[i].number = 0 THEN number ELSE counter
          /\ revisions' = revisions \cup {record}
          /\ UNCHANGED <<method, quality, party, snapshots, dismissed>>
      BY <1>1, <1>10 DEF Rendered, Acts!GenerateAct, Acts!Changes, Acts!shared,
         Acts!Committing, Acts!In, HasRows
    <2>2. /\ HasRows(t) /\ StillHolds(t) /\ cmd.kind = "generate" /\ stage' = stage
          /\ preparing' = [preparing EXCEPT ![t] = Acts!Idle]
          /\ Acts!In(t, "numbered") /\ NumberInHand(t)
          /\ Acts!OfAct(cmd) => i \in DOMAIN acts /\ acts[i] \in Acts!Act
      <3>1. Acts!In(t, "numbered") /\ NumberInHand(t)
        BY <2>1 DEF ActsInv, AttemptsInv
      <3>2. QED
        BY <1>1, <2>1, <3>1, RowsHeld
    <2>3. /\ Acts!OfAct(cmd) /\ i \in DOMAIN acts /\ acts[i] \in Acts!Act /\ counter \in Nat
          /\ mine = acts[i].package /\ acts[i].version \in Nat /\ acts[i].revision \in Nat
          /\ acts[i].number \in Nat
      BY <1>2, <1>3, <2>2 DEF Acts!OfAct, Acts!PackageOf, Acts!Act, ActRowsInv, Acts!TypeOK
    <2>4. /\ stage[mine] = "open" /\ ~acts[i].deleted
          /\ RenderedFrom(i, preparing[t].evidence)
      BY <1>1, <1>2, <2>2 DEF StillHolds, Acts!IsContent
    <2>5. i \in Acts!Live
      BY <2>3, <2>4 DEF Acts!Live
    <2>6. number = IF acts[i].number = 0 THEN counter + 1 ELSE acts[i].number
      BY <1>1, <2>2 DEF NumberInHand
    <2>7. number \in Nat
      BY <2>3, <2>6
    <2>8. /\ act \in Acts!Act /\ act.package = old.package /\ act.typical = old.typical
          /\ act.content = old.content /\ act.materials = old.materials
          /\ act.deleted = old.deleted /\ act.number = number
          /\ act.revision = old.revision + 1 /\ act.version = old.version + 1
          /\ act.generatedAt = act.version
      <3>1. act \in Acts!Act /\ IsRevisionOf(act, old, number)
        BY <2>3, <2>7, GeneratedRow
      <3>2. QED
        BY <3>1 DEF IsRevisionOf
    <2>9. /\ record.act = i /\ record.revision = act.revision /\ record.number = act.number
          /\ record.content = act.content /\ record.evidence = preparing[t].evidence
      BY <2>8
    <2>10. ActRowsInv' /\ ElsewhereSame(mine)
      <3>1. UNCHANGED <<stage, method, quality, party, snapshots, dismissed>>
        BY <2>1, <2>2
      <3>2. /\ act.number = IF acts[i].number = 0 THEN counter + 1 ELSE acts[i].number
            /\ counter' = IF acts[i].number = 0 THEN act.number ELSE counter
            /\ RenderedFrom(i, record.evidence) /\ stage[acts[i].package] = "open"
            /\ ~act.deleted /\ act.revision = acts[i].revision + 1
            /\ act.version = acts[i].version + 1
        BY <2>1, <2>3, <2>4, <2>6, <2>8, <2>9
      <3> HIDE DEF i
      <3>3. QED
        BY <1>3, <2>1, <2>3, <2>5, <2>8, <2>9, <3>1, <3>2, RenderedActHolds
    <2>11. \A u \in Attempts \ {t} : TakesNext(u) => counter' = counter
      BY <1>1, <2>1, <2>2 DEF ActsInv, AttemptsInv, TakesNext
    <2>12. \A m \in Materials : quality'[m] >= quality[m]
      BY <1>3, <2>1
    <2>13. QED
      BY <1>4, <2>2, <2>10, <2>11, <2>12
  <1>11. CASE Acts!SaveParty(t)
    <2>1. /\ HasRows(t) /\ Acts!Cmd(t).kind = "party" /\ stage' = stage
          /\ preparing' = [preparing EXCEPT ![t] = Acts!Idle]
          /\ party' = party + 1 /\ snapshots' = Append(snapshots, party + 1)
          /\ UNCHANGED <<method, acts, counter, revisions, quality, dismissed>>
      BY <1>11 DEF Acts!SaveParty, Acts!kept,
         Acts!Committing, Acts!In, HasRows
    <2>2. /\ HasRows(t) /\ stage' = stage /\ preparing' = [preparing EXCEPT ![t] = Acts!Idle]
      BY <2>1, RowsHeld
    <2>3. Acts!PartyHistoryIsWhole'
      <3>1. party \in Nat /\ snapshots = [v \in 1..party |-> v]
        BY DEF ActsInv, ActRowsInv, Acts!TypeOK, Acts!PartyHistoryIsWhole
      <3>2. QED
        BY <2>1, <3>1 DEF Acts!PartyHistoryIsWhole
    <2>4. Acts!TypeOK'
      BY <1>3, <2>1, <2>2 DEF ActRowsInv, Acts!TypeOK
    <2>5. ActRowsInv'
      BY <1>3, <2>1, <2>2, <2>3, <2>4, ActsStand DEF ActRowsInv
    <2>6. QED
      BY <1>3, <1>4, <1>5, <2>1, <2>2, <2>5
  <1>12. CASE Acts!AddQualityDocument(t)
    <2>1. /\ HasRows(t) /\ Acts!Cmd(t).kind = "quality" /\ stage' = stage
          /\ preparing' = [preparing EXCEPT ![t] = Acts!Idle] /\ quality[cmd.material] < MaxQuality
          /\ quality' = [quality EXCEPT ![cmd.material] = @ + 1]
          /\ UNCHANGED <<method, acts, counter, revisions, party, snapshots, dismissed>>
      BY <1>1, <1>12 DEF Acts!AddQualityDocument, Acts!kept,
         Acts!Committing, Acts!In, HasRows
    <2>2. /\ HasRows(t) /\ stage' = stage /\ preparing' = [preparing EXCEPT ![t] = Acts!Idle]
          /\ cmd \in ActCommand \cup PackageCommand /\ cmd.kind = "quality"
      BY <1>1, <2>1, RowsHeld
    <2>3. cmd.material \in Materials
      BY <2>2 DEF ActCommand, PackageCommand
    <2>4. /\ quality' \in [Materials -> 0..MaxQuality]
          /\ \A m \in Materials : quality'[m] >= quality[m]
      BY <1>3, <2>1, <2>3 DEF ActRowsInv, Acts!TypeOK, Acts!AosrAssumption
    <2>5. \A i \in Acts!Live : IsRendered(i)'
      <3>1. ASSUME NEW i \in Acts!Live, NEW evidence, RenderedFrom(i, evidence)
            PROVE  RenderedFrom(i, evidence)'
        <4>1. acts[i].materials \subseteq Materials
          BY <1>3 DEF ActRowsInv, Acts!TypeOK, Acts!Live, Acts!Act
        <4>2. QED
          BY <1>3, <2>1, <2>4, <3>1, <4>1 DEF RenderedFrom, Acts!TypeOK
      <3>2. QED
        BY <1>3, <2>1, <3>1 DEF ActRowsInv, IsRendered, Acts!Generated
    <2>6. Acts!TypeOK' /\ Acts!PartyHistoryIsWhole'
      BY <1>3, <2>1, <2>2, <2>4 DEF ActRowsInv, Acts!TypeOK, Acts!PartyHistoryIsWhole
    <2>7. ActRowsInv'
      BY <1>3, <2>1, <2>2, <2>5, <2>6, ActsStand DEF ActRowsInv
    <2>8. QED
      BY <1>4, <1>5, <2>1, <2>2, <2>4, <2>7
  <1>13. QED
    BY <1>6, <1>7, <1>8, <1>9, <1>10, <1>11, <1>12

(* A step of one process that writes no row leaves the others what they    *)
(* have.                                                                   *)
LEMMA PreparationMoves ==
  ASSUME ActsInv, NEW t \in Attempts, NEW new, preparing' = [preparing EXCEPT ![t] = new],
         UNCHANGED <<stage, method, acts, counter, revisions>>,
         UNCHANGED <<quality, party, snapshots, dismissed>>,
         new.phase \in {"idle", "begun", "read", "locked", "numbered"},
         new.phase # "idle" => /\ new.cmd \in ActCommand \cup PackageCommand
                               /\ Acts!OfAct(new.cmd) => new.cmd.act \in DOMAIN acts,
         new.phase \in {"locked", "numbered"} =>
           /\ \A u \in Attempts \ {t} : HasRows(u) =>
                Acts!PackageOf(new.cmd) # Acts!PackageOf(Acts!Cmd(u))
           /\ StillHolds(t)',
         new.phase = "numbered" =>
           /\ NumberInHand(t)'
           /\ TakesNext(t)' => \A u \in Attempts \ {t} : ~TakesNext(u)
  PROVE  ActsInv'
  <1>1. ActRowsInv'
    <2>1. ActRowsInv
      BY DEF ActsInv
    <2>2. Acts!TypeOK' /\ Acts!PartyHistoryIsWhole'
      BY <2>1 DEF ActRowsInv, Acts!TypeOK, Acts!PartyHistoryIsWhole
    <2>3. QED
      BY <2>1, <2>2, ActsStand DEF ActRowsInv
  <1>2. \A u \in Attempts : preparing'[u] = IF u = t THEN new ELSE preparing[u]
    BY DEF ActsInv, AttemptsInv, CommandsKnown
  <1>3. CommandsKnown'
    BY <1>2 DEF ActsInv, AttemptsInv, CommandsKnown, Acts!Cmd
  <1>4. Acts!Cmd(t)' = new.cmd
    BY <1>2 DEF Acts!Cmd
  <1>5. \A u \in Attempts \ {t} : /\ HasRows(u)' = HasRows(u) /\ Acts!Cmd(u)' = Acts!Cmd(u)
                                  /\ TakesNext(u)' = TakesNext(u)
                                  /\ Acts!In(u, "numbered")' = Acts!In(u, "numbered")
    BY <1>2 DEF HasRows, Acts!Cmd, TakesNext, Acts!In
  <1>6. PackagesApart'
    <2>1. ASSUME NEW u \in Attempts \ {t}, HasRows(u), HasRows(t)'
          PROVE  Acts!PackageOf(new.cmd) # Acts!PackageOf(Acts!Cmd(u))
      BY <1>2, <2>1 DEF HasRows
    <2>2. SUFFICES ASSUME NEW u \in Attempts, NEW v \in Attempts, u # v, HasRows(u)', HasRows(v)'
                   PROVE  (Acts!PackageOf(Acts!Cmd(u)) # Acts!PackageOf(Acts!Cmd(v)))'
      BY DEF PackagesApart
    <2>3. Acts!PackageOf(Acts!Cmd(u))' = IF u = t THEN Acts!PackageOf(new.cmd)
                                         ELSE Acts!PackageOf(Acts!Cmd(u))
      BY <1>4, <1>5 DEF Acts!PackageOf
    <2>4. Acts!PackageOf(Acts!Cmd(v))' = IF v = t THEN Acts!PackageOf(new.cmd)
                                         ELSE Acts!PackageOf(Acts!Cmd(v))
      BY <1>4, <1>5 DEF Acts!PackageOf
    <2>5. CASE u # t /\ v # t
      BY <1>5, <2>2, <2>3, <2>4, <2>5 DEF ActsInv, AttemptsInv, PackagesApart
    <2>6. CASE u = t
      BY <1>5, <2>1, <2>2, <2>3, <2>4, <2>6
    <2>7. CASE v = t
      BY <1>5, <2>1, <2>2, <2>3, <2>4, <2>7
    <2>8. QED
      BY <2>5, <2>6, <2>7
  <1>7. \A u \in Attempts : HasRows(u)' => StillHolds(u)'
    <2>1. HasRows(t)' => StillHolds(t)'
      BY <1>2 DEF HasRows
    <2>2. ASSUME NEW u \in Attempts \ {t}, HasRows(u)
          PROVE  StillHolds(u)'
      <3>1. StillHolds(u) /\ Acts!Cmd(u)' = Acts!Cmd(u) /\ preparing'[u] = preparing[u]
        BY <1>2, <1>5, <2>2 DEF ActsInv, AttemptsInv
      <3>2. \A p : Acts!ActsOf(p)' = Acts!ActsOf(p)
        BY DEF Acts!ActsOf, Acts!Live
      <3>3. Acts!PackageOf(Acts!Cmd(u))' = Acts!PackageOf(Acts!Cmd(u))
        BY <3>1 DEF Acts!PackageOf
      <3>4. Acts!MayChoose(Acts!Cmd(u))' = Acts!MayChoose(Acts!Cmd(u))
        BY <3>1, <3>2 DEF Acts!MayChoose
      <3>5. QED
        BY <3>1, <3>2, <3>3, <3>4 DEF StillHolds, RenderedFrom, Acts!IsContent
    <2>3. QED
      BY <1>5, <2>1, <2>2
  <1>8. \A u \in Attempts : Acts!In(u, "numbered")' => NumberInHand(u)'
    <2>1. Acts!In(t, "numbered")' => NumberInHand(t)'
      BY <1>2 DEF Acts!In
    <2>2. \A u \in Attempts \ {t} : Acts!In(u, "numbered") => NumberInHand(u)'
      BY <1>2, <1>5 DEF ActsInv, AttemptsInv, NumberInHand
    <2>3. QED
      BY <1>5, <2>1, <2>2
  <1>9. \A u, v \in Attempts : TakesNext(u)' /\ TakesNext(v)' => u = v
    <2>1. TakesNext(t)' => \A u \in Attempts \ {t} : ~TakesNext(u)
      BY <1>2 DEF TakesNext, Acts!In
    <2>2. \A u, v \in Attempts : TakesNext(u) /\ TakesNext(v) => u = v
      BY DEF ActsInv, AttemptsInv
    <2>3. QED
      BY <1>5, <2>1, <2>2
  <1>10. QED
    BY <1>1, <1>3, <1>6, <1>7, <1>8, <1>9 DEF ActsInv, AttemptsInv

(* A request, a read, a refusal: no rows are held after it.                *)
LEMMA WithoutRows ==
  ASSUME ActsInv, NEW t \in Attempts, Acts!Begin(t) \/ Acts!Read(t) \/ Acts!Refuse(t)
  PROVE  ActsInv'
  <1>1. CASE Acts!Begin(t)
    <2>1. PICK cmd \in Acts!NewCommand :
            preparing' = [preparing EXCEPT ![t] = [phase |-> "begun", cmd |-> cmd, seen |->
              IF Acts!OfAct(cmd) THEN acts[cmd.act].version
              ELSE IF cmd.kind = "party" THEN party ELSE 0]]
      BY <1>1 DEF Acts!Begin
    <2> PICK new : new = [phase |-> "begun", cmd |-> cmd, seen |->
              IF Acts!OfAct(cmd) THEN acts[cmd.act].version
              ELSE IF cmd.kind = "party" THEN party ELSE 0]
      OBVIOUS
    <2>2. /\ UNCHANGED <<stage, method, acts, counter, revisions>>
          /\ UNCHANGED <<quality, party, snapshots, dismissed>>
      BY <1>1 DEF Acts!Begin, Acts!kept, Acts!shared
    <2>3. Acts!Live \subseteq Nat /\ Acts!Live \subseteq DOMAIN acts
      BY DEF Acts!Live, ActsInv, ActRowsInv
    <2>4. /\ cmd \in ActCommand \cup PackageCommand
          /\ Acts!OfAct(cmd) => cmd.act \in DOMAIN acts
      <3> DEFINE Known(c) == /\ c \in ActCommand \cup PackageCommand
                             /\ Acts!OfAct(c) => c.act \in DOMAIN acts
      <3>1. ASSUME NEW p \in Packages, NEW m \in Acts!Methods,
                   cmd = [kind |-> "method", package |-> p, method |-> m]
            PROVE  Known(cmd)
        BY <3>1 DEF PackageCommand, Acts!OfAct
      <3>2. ASSUME NEW p \in Packages, NEW b \in BOOLEAN,
                   cmd = [kind |-> "create", package |-> p, typical |-> b]
            PROVE  Known(cmd)
        BY <3>2 DEF PackageCommand, Acts!OfAct
      <3>3. ASSUME NEW kind \in {"dismiss", "party"}, NEW p \in Packages,
                   cmd = [kind |-> kind, package |-> p]
            PROVE  Known(cmd)
        BY <3>3 DEF PackageCommand, Acts!OfAct
      <3>4. ASSUME NEW p \in Packages, NEW m \in Materials,
                   cmd = [kind |-> "quality", package |-> p, material |-> m]
            PROVE  Known(cmd)
        BY <3>4 DEF PackageCommand, Acts!OfAct
      <3>5. ASSUME NEW i \in Acts!Live, NEW c \in Contents,
                   cmd = [kind |-> "edit", act |-> i, content |-> c]
            PROVE  Known(cmd)
        BY <2>3, <3>5 DEF ActCommand
      <3>6. ASSUME NEW i \in Acts!Live, NEW ms \in SUBSET Materials,
                   cmd = [kind |-> "links", act |-> i, materials |-> ms]
            PROVE  Known(cmd)
        BY <2>3, <3>6 DEF ActCommand
      <3>7. ASSUME NEW kind \in {"remove", "generate"}, NEW i \in Acts!Live,
                   cmd = [kind |-> kind, act |-> i]
            PROVE  Known(cmd)
        BY <2>3, <3>7 DEF ActCommand
      <3>8. Known(cmd)
        BY <2>1, <3>1, <3>2, <3>3, <3>4, <3>5, <3>6, <3>7 DEF Acts!NewCommand
      <3>9. QED
        BY <3>8
    <2>5. /\ new.phase = "begun" /\ new.cmd = cmd
      OBVIOUS
    <2>6. preparing' = [preparing EXCEPT ![t] = new]
      BY <2>1
    <2>7. QED
      BY <2>2, <2>4, <2>5, <2>6, PreparationMoves
  <1>2. CASE Acts!Read(t)
    <2> PICK new : new = [phase |-> "read", cmd |-> Acts!Cmd(t), seen |-> preparing[t].seen,
                          read |-> acts[Acts!Cmd(t).act]]
      OBVIOUS
    <2>1. /\ preparing' = [preparing EXCEPT ![t] = new] /\ preparing[t].phase # "idle"
          /\ UNCHANGED <<stage, method, acts, counter, revisions>>
          /\ UNCHANGED <<quality, party, snapshots, dismissed>>
      BY <1>2 DEF Acts!Read, Acts!Moves, Acts!In, Acts!kept, Acts!shared
    <2>2. /\ new.phase = "read" /\ new.cmd = Acts!Cmd(t)
      OBVIOUS
    <2>3. /\ Acts!Cmd(t) \in ActCommand \cup PackageCommand
          /\ Acts!OfAct(Acts!Cmd(t)) => Acts!Cmd(t).act \in DOMAIN acts
      BY <2>1 DEF ActsInv, AttemptsInv, CommandsKnown
    <2>4. QED
      BY <2>1, <2>2, <2>3, PreparationMoves
  <1>3. CASE Acts!Refuse(t)
    <2>1. /\ preparing' = [preparing EXCEPT ![t] = Acts!Idle] /\ Acts!Idle.phase = "idle"
          /\ UNCHANGED <<stage, method, acts, counter, revisions>>
          /\ UNCHANGED <<quality, party, snapshots, dismissed>>
      BY <1>3 DEF Acts!Refuse, Acts!Moves, Acts!Idle, Acts!kept, Acts!shared
    <2>2. QED
      BY <2>1, PreparationMoves
  <1>4. QED
    BY <1>1, <1>2, <1>3

(* The lock is granted beside other packages, and everything is checked    *)
(* under it.                                                               *)
LEMMA LockStep ==
  ASSUME ActsInv, NEW t \in Attempts, Acts!Lock(t)
  PROVE  ActsInv'
  <1> PICK cmd : cmd = Acts!Cmd(t)
    OBVIOUS
  <1> PICK evidence :
        evidence = IF cmd.kind = "generate" THEN [m \in acts[cmd.act].materials |-> quality[m]]
                   ELSE <<>>
    OBVIOUS
  <1> PICK new : new = [phase |-> "locked", cmd |-> cmd, evidence |-> evidence]
    OBVIOUS
  <1>1. /\ preparing[t].phase # "idle" /\ Acts!RowsAreFree(t) /\ Acts!Allowed(t)
        /\ preparing' = [preparing EXCEPT ![t] = new]
        /\ UNCHANGED <<stage, method, acts, counter, revisions>>
        /\ UNCHANGED <<quality, party, snapshots, dismissed>>
    BY DEF Acts!Lock, Acts!Moves, Acts!In, Acts!kept, Acts!shared
  <1>2. /\ cmd \in ActCommand \cup PackageCommand
        /\ Acts!OfAct(cmd) => cmd.act \in DOMAIN acts
    BY <1>1 DEF ActsInv, AttemptsInv, CommandsKnown
  <1>3. new.phase = "locked" /\ new.cmd = cmd /\ new.evidence = evidence
    OBVIOUS
  <1>4. preparing'[t] = new /\ Acts!Cmd(t)' = cmd
    BY <1>1, <1>3 DEF ActsInv, AttemptsInv, CommandsKnown, Acts!Cmd
  <1>5. ASSUME NEW u \in Attempts \ {t}, HasRows(u)
        PROVE  Acts!PackageOf(cmd) # Acts!PackageOf(Acts!Cmd(u))
    <2>1. /\ <<"package", Acts!PackageOf(cmd)>> \in Acts!Rows(Acts!Cmd(t))
          /\ <<"package", Acts!PackageOf(Acts!Cmd(u))>> \in Acts!Rows(Acts!Cmd(u))
      BY DEF Acts!Rows
    <2>2. Acts!Rows(Acts!Cmd(t)) \cap Acts!Rows(Acts!Cmd(u)) = {}
      BY <1>1, <1>5 DEF Acts!RowsAreFree, HasRows
    <2>3. QED
      BY <2>1, <2>2
  <1>6. StillHolds(t)'
    <2>1. /\ \A p : Acts!ActsOf(p)' = Acts!ActsOf(p)
          /\ Acts!PackageOf(cmd)' = Acts!PackageOf(cmd)
      BY <1>1 DEF Acts!ActsOf, Acts!Live, Acts!PackageOf
    <2>2. cmd.kind = "generate" =>
            /\ DOMAIN evidence = acts[cmd.act].materials
            /\ \A m \in acts[cmd.act].materials : evidence[m] \in 1..quality[m]
      <3>1. SUFFICES ASSUME cmd.kind = "generate"
                     PROVE  \A m \in acts[cmd.act].materials : quality[m] \in 1..quality[m]
        OBVIOUS
      <3>2. \A m \in acts[cmd.act].materials : quality[m] > 0
        BY <1>1, <3>1 DEF Acts!Allowed, Acts!Ready
      <3>3. acts[cmd.act] \in Acts!Act /\ \A m \in Materials : quality[m] \in Nat
        BY <1>2, <3>1 DEF Acts!OfAct, ActsInv, ActRowsInv, Acts!TypeOK
      <3>4. acts[cmd.act].materials \subseteq Materials
        BY <3>3 DEF Acts!Act
      <3>5. QED
        BY <3>2, <3>3, <3>4
    <2>3. /\ Acts!IsContent(cmd) => stage[Acts!PackageOf(cmd)] = "open"
          /\ cmd.kind \in {"create", "dismiss", "generate"} => method[Acts!PackageOf(cmd)] = "CORE"
          /\ cmd.kind \in {"edit", "links", "generate"} => ~acts[cmd.act].deleted
          /\ cmd.kind = "method" => Acts!MayChoose(cmd)
      BY <1>1 DEF Acts!Allowed
    <2>4. cmd.kind = "create" /\ cmd.typical =>
            \A i \in Acts!ActsOf(Acts!PackageOf(cmd)) : ~acts[i].typical
      BY <1>1 DEF Acts!Allowed, Acts!PackageOf, Acts!OfAct
    <2>5. Acts!MayChoose(cmd)' = Acts!MayChoose(cmd)
      BY <1>1, <2>1 DEF Acts!MayChoose
    <2>6. QED
      BY <1>1, <1>3, <1>4, <2>1, <2>2, <2>3, <2>4, <2>5
         DEF StillHolds, RenderedFrom, Acts!IsContent
  <1>7. \A u \in Attempts \ {t} : HasRows(u) =>
          Acts!PackageOf(new.cmd) # Acts!PackageOf(Acts!Cmd(u))
    BY <1>3, <1>5
  <1>8. QED
    BY <1>1, <1>2, <1>3, <1>6, <1>7, PreparationMoves

(* The next number is taken while nobody else has it in hand.              *)
LEMMA NumberStep ==
  ASSUME ActsInv, NEW t \in Attempts, Acts!TakeNumber(t)
  PROVE  ActsInv'
  <1> PICK cmd : cmd = Acts!Cmd(t)
    OBVIOUS
  <1> PICK number :
        number = IF acts[cmd.act].number = 0 THEN counter + 1 ELSE acts[cmd.act].number
    OBVIOUS
  <1> PICK new : new = [phase |-> "numbered", cmd |-> cmd, evidence |-> preparing[t].evidence,
                        number |-> number]
    OBVIOUS
  <1>1. /\ HasRows(t) /\ cmd.kind = "generate"
        /\ acts[cmd.act].number = 0 => Acts!CounterIsFree(t)
        /\ preparing' = [preparing EXCEPT ![t] = new]
        /\ UNCHANGED <<stage, method, acts, counter, revisions>>
        /\ UNCHANGED <<quality, party, snapshots, dismissed>>
    BY DEF Acts!TakeNumber, Acts!Moves, Acts!In, HasRows, Acts!kept, Acts!shared
  <1>2. /\ StillHolds(t) /\ cmd \in ActCommand \cup PackageCommand
        /\ Acts!OfAct(cmd) => cmd.act \in DOMAIN acts
    BY <1>1, RowsHeld
  <1>3. /\ new.phase = "numbered" /\ new.cmd = cmd /\ new.evidence = preparing[t].evidence
        /\ new.number = number
    OBVIOUS
  <1>4. preparing'[t] = new /\ Acts!Cmd(t)' = cmd
    BY <1>1, <1>3 DEF ActsInv, AttemptsInv, CommandsKnown, Acts!Cmd
  <1>5. \A u \in Attempts \ {t} : HasRows(u) =>
          Acts!PackageOf(cmd) # Acts!PackageOf(Acts!Cmd(u))
    BY <1>1 DEF ActsInv, AttemptsInv, PackagesApart
  <1>6. StillHolds(t)'
    <2>1. /\ stage[Acts!PackageOf(cmd)] = "open" /\ method[Acts!PackageOf(cmd)] = "CORE"
          /\ ~acts[cmd.act].deleted /\ RenderedFrom(cmd.act, preparing[t].evidence)
      BY <1>1, <1>2 DEF StillHolds, Acts!IsContent
    <2>2. Acts!PackageOf(cmd)' = Acts!PackageOf(cmd)
      BY <1>1 DEF Acts!PackageOf
    <2>3. QED
      BY <1>1, <1>3, <1>4, <2>1, <2>2 DEF StillHolds, RenderedFrom
  <1>7. NumberInHand(t)'
    BY <1>1, <1>3, <1>4 DEF NumberInHand
  <1>8. ASSUME TakesNext(t)', NEW u \in Attempts \ {t}, TakesNext(u)
        PROVE  FALSE
    <2>1. acts[cmd.act].number = 0
      BY <1>1, <1>4, <1>8 DEF TakesNext
    <2>2. preparing[u].number <= counter
      BY <1>1, <1>8, <2>1 DEF Acts!CounterIsFree, TakesNext
    <2>3. preparing[u].number = counter + 1
      BY <1>8 DEF TakesNext, ActsInv, AttemptsInv, NumberInHand
    <2>4. counter \in Nat
      BY DEF ActsInv, ActRowsInv, Acts!TypeOK
    <2>5. QED
      BY <2>2, <2>3, <2>4
  <1>9. QED
    BY <1>1, <1>2, <1>3, <1>5, <1>6, <1>7, <1>8, PreparationMoves

(* A package moves while no command has its row, forward by its gate.      *)
LEMMA PackageStep ==
  ASSUME ActsInv, NEW p \in Packages,
         \/ Acts!Present(p) \/ Acts!Correct(p) \/ Acts!HandOff(p) \/ Acts!ReturnToPto(p)
  PROVE  ActsInv'
  <1>1. PICK from \in Acts!Stages, to \in Acts!Stages :
          /\ Acts!MovePackage(p, from, to)
          /\ from = "open" => Acts!ForwardGate(p)
    BY DEF Acts!Present, Acts!Correct, Acts!HandOff, Acts!ReturnToPto, Acts!Stages
  <1>2. /\ stage[p] = from /\ stage' = [stage EXCEPT ![p] = to]
        /\ \A t \in Attempts : HasRows(t) => Acts!PackageOf(Acts!Cmd(t)) # p
        /\ UNCHANGED <<preparing, method, acts, counter, revisions>>
        /\ UNCHANGED <<quality, party, snapshots, dismissed>>
    BY <1>1 DEF Acts!MovePackage, HasRows, Acts!kept, Acts!shared
  <1>3. /\ Acts!TypeOK /\ ActRowsInv
        /\ \A q \in Packages : stage'[q] = IF q = p THEN to ELSE stage[q]
    BY <1>2 DEF ActsInv, ActRowsInv, Acts!TypeOK
  <1>4. /\ Acts!Live' = Acts!Live /\ \A q : Acts!ActsOf(q)' = Acts!ActsOf(q)
        /\ \A q : Acts!ForwardGate(q)' = Acts!ForwardGate(q)
    <2>1. Acts!Live' = Acts!Live /\ \A q : Acts!ActsOf(q)' = Acts!ActsOf(q)
      BY <1>2 DEF Acts!Live, Acts!ActsOf
    <2>2. QED
      BY <1>2, <2>1 DEF Acts!ForwardGate, Acts!Generated
  <1>5. Acts!TypeOK'
    BY <1>2, <1>3 DEF Acts!TypeOK
  <1>6. Acts!GateIsLostByChoiceOnly'
    BY <1>1, <1>2, <1>3, <1>4 DEF ActRowsInv, Acts!GateIsLostByChoiceOnly
  <1>7. /\ NumbersHold' /\ RevisionsHold' /\ Acts!PartyHistoryIsWhole'
        /\ \A i \in Acts!Live' : IsRendered(i)'
    BY <1>2, <1>3, <1>4 DEF ActRowsInv, NumbersHold, RevisionsHold,
       Acts!PartyHistoryIsWhole, IsRendered, RenderedFrom, Acts!Generated
  <1>8. Acts!ExternalKeepsNothing'
    BY <1>2, <1>3, <1>4 DEF ActRowsInv, Acts!ExternalKeepsNothing
  <1>9. ActRowsInv'
    BY <1>2, <1>3, <1>5, <1>6, <1>7, <1>8 DEF ActRowsInv
  <1>10. ASSUME NEW t \in Attempts, HasRows(t)
         PROVE  StillHolds(t)'
    <2> PICK cmd : cmd = Acts!Cmd(t)
      OBVIOUS
    <2>1. StillHolds(t) /\ Acts!PackageOf(cmd) \in Packages \ {p}
      <3>1. preparing[t].phase # "idle"
        BY <1>10 DEF HasRows
      <3>2. QED
        BY <1>2, <1>10, <3>1, CommandTyped DEF ActsInv, AttemptsInv
    <2>2. /\ Acts!Cmd(t)' = cmd /\ Acts!PackageOf(cmd)' = Acts!PackageOf(cmd)
          /\ stage'[Acts!PackageOf(cmd)] = stage[Acts!PackageOf(cmd)]
      BY <1>2, <1>3, <2>1 DEF Acts!Cmd, Acts!PackageOf
    <2>3. cmd.kind = "method" => Acts!MayChoose(cmd)' = Acts!MayChoose(cmd)
      BY <1>2, <1>4, <2>2 DEF Acts!MayChoose, Acts!PackageOf, Acts!OfAct
    <2>4. QED
      BY <1>2, <1>4, <2>1, <2>2, <2>3 DEF StillHolds, RenderedFrom, Acts!IsContent
  <1>11. CommandsKnown' /\ PackagesApart'
    BY <1>2 DEF ActsInv, AttemptsInv, CommandsKnown, PackagesApart, HasRows, Acts!Cmd,
       Acts!PackageOf
  <1>12. /\ \A t \in Attempts : Acts!In(t, "numbered")' => NumberInHand(t)'
         /\ \A t, u \in Attempts : TakesNext(t)' /\ TakesNext(u)' => t = u
    BY <1>2 DEF ActsInv, AttemptsInv, NumberInHand, TakesNext, Acts!In, Acts!Cmd
  <1>13. \A t \in Attempts : HasRows(t)' = HasRows(t)
    BY <1>2 DEF HasRows
  <1>14. QED
    BY <1>9, <1>10, <1>11, <1>12, <1>13 DEF ActsInv, AttemptsInv

LEMMA ActsInitially ==
  ASSUME Acts!AosrAssumption, Acts!Init
  PROVE  ActsInv
  <1>1. /\ acts \in Seq(Acts!Act) /\ revisions = {} /\ counter = 0
        /\ \A i \in DOMAIN acts :
             /\ acts[i] \in Acts!Act /\ ~acts[i].deleted /\ acts[i].version > 0
             /\ acts[i].number = 0 /\ acts[i].revision = 0 /\ acts[i].generatedAt = 0
    BY DEF Acts!Init, Acts!AosrAssumption
  <1>2. Acts!TypeOK
    BY <1>1 DEF Acts!Init, Acts!TypeOK, Acts!AosrAssumption, Acts!Stages, Acts!Methods
  <1>3. \A i \in DOMAIN acts : RowHolds(acts[i])
    BY <1>1 DEF RowHolds, Acts!Act
  <1>4. NumbersHold /\ RevisionsHold /\ \A i \in Acts!Live : IsRendered(i)
    BY <1>1 DEF NumbersHold, RevisionsHold, IsRendered, Acts!Live
  <1>5. Acts!ExternalKeepsNothing
    BY <1>1 DEF Acts!Init, Acts!ExternalKeepsNothing, Acts!ActsOf, Acts!Live,
       Acts!AosrAssumption
  <1>6. Acts!GateIsLostByChoiceOnly /\ Acts!PartyHistoryIsWhole
    BY DEF Acts!Init, Acts!GateIsLostByChoiceOnly, Acts!PartyHistoryIsWhole
  <1>7. AttemptsInv
    BY DEF Acts!Init, AttemptsInv, CommandsKnown, PackagesApart, HasRows, TakesNext,
       Acts!In, Acts!Idle
  <1>8. QED
    BY <1>1, <1>2, <1>3, <1>4, <1>5, <1>6, <1>7 DEF ActsInv, ActRowsInv

LEMMA ActsStep ==
  ASSUME Acts!AosrAssumption, ActsInv, [Acts!Next]_(Acts!vars)
  PROVE  ActsInv'
  <1>1. CASE UNCHANGED Acts!vars
    <2>1. /\ UNCHANGED <<stage, method, acts, counter, revisions>>
          /\ UNCHANGED <<quality, party, snapshots, dismissed, preparing>>
      BY <1>1 DEF Acts!vars, Acts!kept, Acts!shared
    <2>2. ActRowsInv'
      <3>1. ActRowsInv
        BY DEF ActsInv
      <3>2. Acts!TypeOK' /\ Acts!PartyHistoryIsWhole'
        BY <2>1, <3>1 DEF ActRowsInv, Acts!TypeOK, Acts!PartyHistoryIsWhole
      <3>3. QED
        BY <2>1, <3>1, <3>2, ActsStand DEF ActRowsInv
    <2>3. AttemptsInv'
      BY <2>1 DEF ActsInv, AttemptsInv, CommandsKnown, PackagesApart, HasRows, StillHolds,
         NumberInHand, TakesNext, RenderedFrom, Acts!In, Acts!Cmd, Acts!PackageOf,
         Acts!MayChoose, Acts!ActsOf, Acts!Live
    <2>4. QED
      BY <2>2, <2>3 DEF ActsInv
  <1>2. CASE Acts!Next
    BY <1>2, WithoutRows, LockStep, NumberStep, ActCommitStep, PackageStep DEF Acts!Next
  <1>3. QED
    BY <1>1, <1>2

(* What a command was checked against under its package's lock holds until *)
(* it commits, the next number is in one hand, and every current rendering *)
(* has its revision (aosr-service.ts:127-206, 310-384).                    *)
THEOREM ActsInvariance ==
  ASSUME Acts!AosrAssumption
  PROVE  Acts!Spec => []ActsInv
  <1>1. Acts!Init => ActsInv
    BY ActsInitially
  <1>2. ActsInv /\ [Acts!Next]_(Acts!vars) => ActsInv'
    BY ActsStep
  <1>3. QED
    BY <1>1, <1>2, PTL DEF Acts!Spec

(* The official numbers have no gap and no twin, a revision keeps its act, *)
(* a current DOCX shows the row as it is, a package prepared outside Core  *)
(* has no act and a presented one loses its gate by a choice only, for any *)
(* number of processes, packages and acts (aosr-service.ts:127-206,        *)
(* 310-384, infra/020).                                                    *)
THEOREM ActsStaySound ==
  ASSUME Acts!AosrAssumption
  PROVE  Acts!Spec => []ActsAreSound
  <1>1. ActsInv => ActsAreSound
    <2>1. SUFFICES ASSUME ActsInv
                   PROVE  ActsAreSound
      OBVIOUS
    <2>2. /\ \A i \in DOMAIN acts : acts[i] \in Acts!Act
          /\ counter \in Nat
      BY <2>1 DEF ActsInv, ActRowsInv, Acts!TypeOK
    <2>3. Acts!NumbersAreConsecutive
      <3> DEFINE numbered == {i \in Acts!Live : acts[i].number > 0}
      <3>1. NumbersHold
        BY <2>1 DEF ActsInv, ActRowsInv
      <3>2. \A i \in Acts!Live : acts[i].number \in Nat
        BY <2>2 DEF Acts!Live, Acts!Act
      <3>3. \A n : n \in {acts[i].number : i \in numbered} <=> n \in 1..counter
        BY <2>2, <3>1, <3>2 DEF NumbersHold
      <3>4. \A i, j \in numbered : acts[i].number = acts[j].number => i = j
        BY <3>1 DEF NumbersHold
      <3>5. {acts[i].number : i \in numbered} = 1..counter
        BY <3>3
      <3>6. QED
        BY <3>4, <3>5 DEF Acts!NumbersAreConsecutive
    <2>4. Acts!RevisionsAreOfTheirAct
      <3>1. RevisionsHold
        BY <2>1 DEF ActsInv, ActRowsInv
      <3>2. ASSUME NEW i \in DOMAIN acts
            PROVE  {r.revision : r \in {s \in revisions : s.act = i}} = 1..acts[i].revision
        <4>1. \A n : n \in {r.revision : r \in {s \in revisions : s.act = i}}
                       <=> n \in 1..acts[i].revision
          BY <3>1 DEF RevisionsHold
        <4>2. QED
          BY <4>1
      <3>3. QED
        BY <3>1, <3>2 DEF RevisionsHold, Acts!RevisionsAreOfTheirAct
    <2>5. Acts!GeneratedIsRendered
      BY <2>1 DEF ActsInv, ActRowsInv, Acts!GeneratedIsRendered, IsRendered, RenderedFrom
    <2>6. QED
      BY <2>1, <2>3, <2>4, <2>5 DEF ActsInv, ActRowsInv, ActsAreSound, Acts!ActsAreSound
  <1>2. QED
    BY <1>1, ActsInvariance, PTL

-----------------------------------------------------------------------------
(* Closings: sums                                                          *)

(* The library's Cardinality, and what sums are made of, in the instance.  *)
LEMMA SameSums ==
  ASSUME NEW f, NEW S
  PROVE  Closing!SumOver(f, S) = Cardinality(Closing!UnitsOf(f, S))
  BY DEF Closing!SumOver, Closing!Cardinality, Cardinality

(* An amount has as many units as it says.                                 *)
LEMMA UnitsOfOne ==
  ASSUME NEW x, NEW n \in Nat
  PROVE  IsFiniteSet({x} \X (1..n)) /\ Cardinality({x} \X (1..n)) = n
  <1>1. IsFiniteSet({x}) /\ Cardinality({x}) = 1
    BY FS_Singleton
  <1>2. IsFiniteSet(1..n) /\ Cardinality(1..n) = n
    BY FS_Interval
  <1>3. /\ IsFiniteSet({x} \X (1..n))
        /\ Cardinality({x} \X (1..n)) = Cardinality({x}) * Cardinality(1..n)
    BY <1>1, <1>2, FS_Product
  <1>4. 1 * n = n
    OBVIOUS
  <1>5. QED
    BY <1>1, <1>2, <1>3, <1>4

(* A finite sum of amounts is an amount.                                   *)
LEMMA SumIsFinite ==
  ASSUME NEW S, IsFiniteSet(S), NEW f, \A x \in S : f[x] \in Nat
  PROVE  IsFiniteSet(Closing!UnitsOf(f, S)) /\ Closing!SumOver(f, S) \in Nat
  <1>1. IsFiniteSet({{x} \X (1..f[x]) : x \in S})
    <2> DEFINE of == [x \in S |-> {x} \X (1..f[x])]
    <2>1. of \in Surjection(S, {{x} \X (1..f[x]) : x \in S})
      BY DEF Surjection
    <2> HIDE DEF of
    <2>2. QED
      BY <2>1, FS_Surjection
  <1>2. \A x \in S : IsFiniteSet({x} \X (1..f[x]))
    BY UnitsOfOne
  <1>3. IsFiniteSet(Closing!UnitsOf(f, S))
    BY <1>1, <1>2, FS_UNION DEF Closing!UnitsOf
  <1>4. QED
    BY <1>3, FS_CardinalityType, SameSums

(* One more term adds its amount.                                          *)
LEMMA SumWithOneMore ==
  ASSUME NEW S, IsFiniteSet(S), NEW f, \A x \in S : f[x] \in Nat,
         NEW y, y \notin S, f[y] \in Nat
  PROVE  Closing!SumOver(f, S \cup {y}) = Closing!SumOver(f, S) + f[y]
  <1> DEFINE A == Closing!UnitsOf(f, S)
             B == {y} \X (1..f[y])
  <1>1. Closing!UnitsOf(f, S \cup {y}) = A \cup B
    BY DEF Closing!UnitsOf
  <1>2. A \cap B = {}
    BY DEF Closing!UnitsOf
  <1>3. /\ IsFiniteSet(A) /\ Cardinality(A) \in Nat
        /\ IsFiniteSet(B) /\ Cardinality(B) = f[y]
    BY SumIsFinite, SameSums, UnitsOfOne
  <1> HIDE DEF A, B
  <1>4. Cardinality(A \cap B) = 0
    BY <1>2, FS_EmptySet
  <1>5. Cardinality(A \cup B) = Cardinality(A) + Cardinality(B) - Cardinality(A \cap B)
    BY <1>3, FS_Union
  <1>6. Cardinality(A \cup B) = Cardinality(A) + f[y]
    BY <1>3, <1>4, <1>5
  <1>7. QED
    BY <1>1, <1>6, SameSums DEF A

(* Sums of the same amounts are the same.                                  *)
LEMMA SameAmountsSameSum ==
  ASSUME NEW S, NEW f, NEW g, \A x \in S : f[x] = g[x]
  PROVE  Closing!SumOver(f, S) = Closing!SumOver(g, S)
  <1>1. Closing!UnitsOf(f, S) = Closing!UnitsOf(g, S)
    BY DEF Closing!UnitsOf
  <1>2. QED
    BY <1>1, SameSums

(* Of nothing the sum is nothing.                                          *)
LEMMA SumOfNone ==
  ASSUME NEW f
  PROVE  Closing!SumOver(f, {}) = 0
  <1>1. Closing!UnitsOf(f, {}) = {}
    BY DEF Closing!UnitsOf
  <1>2. QED
    BY <1>1, FS_EmptySet, SameSums

-----------------------------------------------------------------------------
(* Closings: the inductive invariant                                       *)

Closes(t) == Closing!In(t, "checked")
Asked(t) == Closing!Cmd(t)

(* What is in hand is about rows that are there.                           *)
CommandsFit ==
  \A t \in Attempts : ~Closing!In(t, "idle") =>
    /\ Asked(t).kind = "approve" =>
         Asked(t).document \in DOMAIN executive[Asked(t).package].documents
    /\ Asked(t).kind \in {"calculate", "close"} => cases[Asked(t).package] # None

(* Nothing is closed without a case.                                       *)
ClosingsFit == \A c \in closings : cases[c.package] # None

RowsApart ==
  \A t, u \in Attempts : t # u /\ Closes(t) /\ Closes(u) =>
    Closing!Rows(Asked(t)) \cap Closing!Rows(Asked(u)) = {}

(* What a command was checked against under its locks holds until it       *)
(* commits; whether the work is accepted and its materials are documented  *)
(* was read without a lock.                                                *)
Stands(cmd) ==
  /\ cmd.kind = "document" =>
       /\ executive[cmd.package].status # "TRANSFERRED_TO_SDO"
       /\ Closing!FileIsOfObject(cmd.file, cmd.package)
  /\ cmd.kind \in {"ready", "transfer"} =>
       /\ executive[cmd.package].status # "TRANSFERRED_TO_SDO"
       /\ Closing!HasAosr(cmd.package) /\ Closing!AllApproved(cmd.package)
  /\ cmd.kind = "calculate" => cases[cmd.package].status \in {"TRANSFERRED", "CALCULATED"}
  /\ cmd.kind = "close" =>
       \/ Closing!Replays(cmd)
       \/ /\ cases[cmd.package].status \in {"CALCULATED", "READY_TO_CLOSE"}
          /\ Closing!Sum(cmd.package) + cmd.amount <= cases[cmd.package].value

CheckedStands == \A t \in Attempts : Closes(t) => Stands(Asked(t))

ClosingInv ==
  /\ Closing!ClosingIsSound
  /\ IsFiniteSet(closings)
  /\ ClosingsFit
  /\ CommandsFit
  /\ RowsApart
  /\ CheckedStands

(* An attempt that is not idle has a command.                              *)
LEMMA AskedIsCommand ==
  ASSUME Closing!TypeOK, NEW t \in Attempts, ~Closing!In(t, "idle")
  PROVE  /\ closers[t] \in [phase : {"begun", "checked"}, cmd : Closing!Command]
         /\ Asked(t) \in Closing!Command /\ Asked(t).package \in ExecutivePackages
  BY DEF Closing!TypeOK, Closing!In, Closing!Idle, Closing!Command, Asked, Closing!Cmd

(* Whoever ends leaves the others' commands and locks as they are.         *)
LEMMA EndedAlone ==
  ASSUME ClosingInv, NEW t \in Attempts,
         closers' = [closers EXCEPT ![t] = Closing!Idle]
  PROVE  /\ closers' \in [Attempts -> {Closing!Idle} \cup
                            [phase : {"begun", "checked"}, cmd : Closing!Command]]
         /\ \A u \in Attempts : ~Closing!In(u, "idle")' =>
              u # t /\ ~Closing!In(u, "idle") /\ Asked(u)' = Asked(u)
         /\ \A u \in Attempts : Closes(u)' => u # t /\ Closes(u) /\ Asked(u)' = Asked(u)
         /\ RowsApart'
  <1>1. /\ closers' \in [Attempts -> {Closing!Idle} \cup
                           [phase : {"begun", "checked"}, cmd : Closing!Command]]
        /\ \A u \in Attempts \ {t} : closers'[u] = closers[u]
        /\ closers'[t].phase = "idle"
    BY DEF ClosingInv, Closing!ClosingIsSound, Closing!TypeOK, Closing!Idle
  <1>2. \A u \in Attempts : ~Closing!In(u, "idle")' =>
          u # t /\ ~Closing!In(u, "idle") /\ Asked(u)' = Asked(u)
    BY <1>1 DEF Closing!In, Asked, Closing!Cmd
  <1>3. \A u \in Attempts : Closes(u)' => u # t /\ Closes(u) /\ Asked(u)' = Asked(u)
    BY <1>1 DEF Closing!In, Asked, Closing!Cmd, Closes
  <1>4. RowsApart'
    BY <1>3 DEF RowsApart, ClosingInv, Closing!Rows
  <1>5. QED
    BY <1>1, <1>2, <1>3, <1>4

(* A sum over the closings on record is an amount.                         *)
LEMMA SumIsAmount ==
  ASSUME ClosingInv, NEW p \in ExecutivePackages
  PROVE  Closing!Sum(p) \in Nat /\ IsFiniteSet(Closing!ClosingsOf(p))
  <1> DEFINE amount == [c \in closings |-> c.amount]
  <1>1. Closing!ClosingsOf(p) \in SUBSET closings /\ IsFiniteSet(closings)
    BY DEF Closing!ClosingsOf, ClosingInv
  <1>2. IsFiniteSet(Closing!ClosingsOf(p))
    BY <1>1, FS_Subset
  <1>3. \A c \in Closing!ClosingsOf(p) : amount[c] \in Nat
    BY <1>1 DEF ClosingInv, Closing!ClosingIsSound, Closing!TypeOK, Closing!Closing
  <1> HIDE DEF amount
  <1>4. Closing!SumOver(amount, Closing!ClosingsOf(p)) \in Nat
    BY <1>2, <1>3, SumIsFinite
  <1>5. QED
    BY <1>2, <1>4 DEF Closing!Sum, amount

(* No closing, no document: nothing is wrong.                              *)
LEMMA ClosingInitially ==
  ASSUME Closing!ExecutiveAssumption, Closing!Init
  PROVE  ClosingInv
  <1>1. Closing!TypeOK
    <2>1. \A p \in ExecutivePackages :
            [status |-> "DRAFT", version |-> 1, documents |-> <<>>] \in Closing!Package
      BY DEF Closing!Package
    <2>2. QED
      BY <2>1 DEF Closing!Init, Closing!TypeOK, Closing!Idle
  <1>2. Closing!SettledPackagesAreApproved /\ Closing!OneCasePerWork
    BY DEF Closing!Init, Closing!SettledPackagesAreApproved, Closing!OneCasePerWork
  <1>3. Closing!StatusTellsTheClosings
    BY DEF Closing!Init, Closing!StatusTellsTheClosings
  <1>4. Closing!FilesStayInTheirObject
    BY DEF Closing!Init, Closing!FilesStayInTheirObject, Closing!UsedInPackage
  <1>5. ClosingsFit /\ CommandsFit /\ RowsApart /\ CheckedStands
    BY DEF Closing!Init, Closing!Idle, Closing!In, ClosingsFit, CommandsFit, RowsApart,
       CheckedStands, Closes
  <1>6. IsFiniteSet(closings)
    BY FS_EmptySet DEF Closing!Init
  <1>7. QED
    BY <1>1, <1>2, <1>3, <1>4, <1>5, <1>6 DEF ClosingInv, Closing!ClosingIsSound

(* Where no document, case or closing changes, they are as sound as before *)
(* and whoever was allowed to go on still is.                              *)
LEMMA NothingOnRecord ==
  ASSUME ClosingInv, UNCHANGED <<executive, cases, closings>>
  PROVE  /\ Closing!SettledPackagesAreApproved'
         /\ Closing!OneCasePerWork'
         /\ Closing!StatusTellsTheClosings'
         /\ Closing!FilesStayInTheirObject'
         /\ IsFiniteSet(closings') /\ ClosingsFit'
         /\ \A cmd : Stands(cmd) => Stands(cmd)'
  <1>1. /\ Closing!SettledPackagesAreApproved'
        /\ Closing!OneCasePerWork'
    BY DEF ClosingInv, Closing!ClosingIsSound, Closing!SettledPackagesAreApproved,
       Closing!OneCasePerWork, Closing!HasAosr, Closing!AllApproved
  <1>2. \A p : Closing!Sum(p)' = Closing!Sum(p)
    BY DEF Closing!Sum, Closing!ClosingsOf
  <1>3. Closing!StatusTellsTheClosings'
    BY <1>2 DEF ClosingInv, Closing!ClosingIsSound, Closing!StatusTellsTheClosings
  <1>4. Closing!FilesStayInTheirObject'
    BY DEF ClosingInv, Closing!ClosingIsSound, Closing!FilesStayInTheirObject,
       Closing!UsedInPackage
  <1>5. ASSUME NEW cmd, Stands(cmd)
        PROVE  Stands(cmd)'
    BY <1>2, <1>5 DEF Stands, Closing!FileIsOfObject, Closing!UsedInPackage, Closing!HasAosr,
       Closing!AllApproved, Closing!Replays
  <1>6. QED
    BY <1>1, <1>3, <1>4, <1>5 DEF ClosingInv, ClosingsFit

(* A new command is well-formed, and has been checked against nothing      *)
(* yet.                                                                    *)
LEMMA BeginKeeps ==
  ASSUME ClosingInv, NEW t \in Attempts, Closing!Begin(t)
  PROVE  ClosingInv'
  <1>1. PICK cmd \in Closing!NewCommand :
          closers' = [closers EXCEPT ![t] = [phase |-> "begun", cmd |-> cmd]]
    BY DEF Closing!Begin
  <1>2. /\ cmd \in Closing!Command
        /\ cmd.kind = "approve" => cmd.document \in DOMAIN executive[cmd.package].documents
        /\ cmd.kind \in {"calculate", "close"} => cases[cmd.package] # None
    <2>1. /\ executive \in [ExecutivePackages -> Closing!Package]
          /\ cases \in [ExecutivePackages -> Closing!Case \cup {None}]
      BY DEF ClosingInv, Closing!ClosingIsSound, Closing!TypeOK
    <2>2. ASSUME NEW p \in ExecutivePackages
          PROVE  /\ executive[p].version \in Nat
                 /\ executive[p].documents \in Seq(Closing!Document)
                 /\ \A d \in DOMAIN executive[p].documents :
                      d \in Nat /\ executive[p].documents[d].version \in Nat
                 /\ cases[p] # None => cases[p].version \in Nat
      <3>1. /\ executive[p] \in Closing!Package
            /\ cases[p] \in Closing!Case \cup {None}
        BY <2>1
      <3>2. executive[p].version \in Nat /\ executive[p].documents \in Seq(Closing!Document)
        BY <3>1 DEF Closing!Package
      <3>3. \A d \in DOMAIN executive[p].documents :
              d \in Nat /\ executive[p].documents[d] \in Closing!Document
        BY <3>2
      <3>4. QED
        BY <3>1, <3>2, <3>3 DEF Closing!Document, Closing!Case
    <2>3. ASSUME NEW p \in ExecutivePackages, NEW type \in {"AOSR", "OTHER"},
                 NEW f \in Files \cup {None},
                 cmd = [kind |-> "document", package |-> p, type |-> type, file |-> f]
          PROVE  cmd \in Closing!Command /\ cmd.kind = "document"
      BY <2>3 DEF Closing!Command
    <2>4. ASSUME NEW p \in ExecutivePackages, NEW d \in DOMAIN executive[p].documents,
                 cmd = [kind |-> "approve", package |-> p, document |-> d,
                        version |-> executive[p].documents[d].version]
          PROVE  /\ cmd \in Closing!Command /\ cmd.kind = "approve"
                 /\ cmd.document \in DOMAIN executive[cmd.package].documents
      BY <2>2, <2>4 DEF Closing!Command
    <2>5. ASSUME NEW p \in ExecutivePackages, NEW kind \in {"ready", "transfer"},
                 cmd = [kind |-> kind, package |-> p, version |-> executive[p].version]
          PROVE  cmd \in Closing!Command /\ cmd.kind \in {"ready", "transfer"}
      BY <2>2, <2>5 DEF Closing!Command
    <2>6. ASSUME NEW p \in ExecutivePackages, NEW v \in 0..MaxValue, cases[p] # None,
                 cmd = [kind |-> "calculate", package |-> p, value |-> v,
                        version |-> cases[p].version]
          PROVE  cmd \in Closing!Command /\ cmd.kind = "calculate" /\ cases[cmd.package] # None
      BY <2>2, <2>6 DEF Closing!Command
    <2>7. ASSUME NEW p \in ExecutivePackages, NEW k \in Keys, NEW a \in 1..MaxValue,
                 cases[p] # None,
                 cmd = [kind |-> "close", package |-> p, key |-> k, amount |-> a,
                        version |-> cases[p].version]
          PROVE  cmd \in Closing!Command /\ cmd.kind = "close" /\ cases[cmd.package] # None
      BY <2>2, <2>7 DEF Closing!Command
    <2>8. QED
      BY <1>1, <2>3, <2>4, <2>5, <2>6, <2>7 DEF Closing!NewCommand
  <1>3. /\ closers' \in [Attempts -> {Closing!Idle} \cup
                           [phase : {"begun", "checked"}, cmd : Closing!Command]]
        /\ \A u \in Attempts \ {t} : closers'[u] = closers[u]
        /\ closers'[t] = [phase |-> "begun", cmd |-> cmd]
    BY <1>1, <1>2 DEF ClosingInv, Closing!ClosingIsSound, Closing!TypeOK
  <1>4. UNCHANGED <<executive, accepted, materials, cases, closings>> /\ asked' \in Nat
    BY DEF Closing!Begin, ClosingInv, Closing!ClosingIsSound, Closing!TypeOK
  <1>5. Closing!TypeOK'
    BY <1>3, <1>4 DEF ClosingInv, Closing!ClosingIsSound, Closing!TypeOK
  <1>6. \A u \in Attempts : Closes(u)' => u # t /\ Closes(u) /\ Asked(u)' = Asked(u)
    BY <1>3 DEF Closing!In, Asked, Closing!Cmd, Closes
  <1>7. RowsApart'
    BY <1>6 DEF RowsApart, ClosingInv, Closing!Rows
  <1>8. CommandsFit'
    BY <1>2, <1>3, <1>4 DEF CommandsFit, ClosingInv, Closing!In, Asked, Closing!Cmd
  <1>9. CheckedStands'
    BY <1>4, <1>6, NothingOnRecord DEF CheckedStands, ClosingInv
  <1>10. QED
    BY <1>4, <1>5, <1>7, <1>8, <1>9, NothingOnRecord DEF ClosingInv, Closing!ClosingIsSound

(* Who has taken its locks and been checked stands beside the others.      *)
LEMMA LockAndCheckKeeps ==
  ASSUME ClosingInv, NEW t \in Attempts, Closing!LockAndCheck(t)
  PROVE  ClosingInv'
  <1>1. /\ closers[t].phase = "begun" /\ closers' = [closers EXCEPT ![t].phase = "checked"]
        /\ Closing!RowsAreFree(t) /\ Closing!Allowed(Asked(t))
        /\ UNCHANGED <<executive, accepted, materials, cases, closings, asked>>
    BY DEF Closing!LockAndCheck, Closing!In, Asked
  <1>2. /\ Asked(t) \in Closing!Command /\ closers[t].cmd = Asked(t)
        /\ closers[t] \in [phase : {"begun", "checked"}, cmd : Closing!Command]
    BY <1>1, AskedIsCommand
       DEF ClosingInv, Closing!ClosingIsSound, Closing!In, Asked, Closing!Cmd
  <1>3. /\ closers' \in [Attempts -> {Closing!Idle} \cup
                           [phase : {"begun", "checked"}, cmd : Closing!Command]]
        /\ \A u \in Attempts \ {t} : closers'[u] = closers[u]
        /\ closers'[t] = [phase |-> "checked", cmd |-> Asked(t)]
    BY <1>1, <1>2 DEF ClosingInv, Closing!ClosingIsSound, Closing!TypeOK
  <1>4. Closing!TypeOK'
    BY <1>1, <1>3 DEF ClosingInv, Closing!ClosingIsSound, Closing!TypeOK
  <1>5. \A u \in Attempts : /\ Asked(u)' = Asked(u)
                            /\ Closing!In(u, "idle")' <=> Closing!In(u, "idle")
    <2>1. closers'[t].cmd = Asked(t) /\ closers'[t].phase = "checked"
      BY <1>3
    <2>2. \A u \in Attempts : closers'[u].cmd = closers[u].cmd
      BY <1>2, <1>3, <2>1
    <2>3. \A u \in Attempts : closers'[u].phase = "idle" <=> closers[u].phase = "idle"
      BY <1>1, <1>3, <2>1
    <2>4. QED
      BY <2>2, <2>3 DEF Closing!In, Asked, Closing!Cmd
  <1>6. \A u \in Attempts : Closes(u)' <=> u = t \/ Closes(u)
    BY <1>3 DEF Closing!In, Closes
  <1>7. RowsApart'
    <2> DEFINE locked(u) == Closing!Rows(Asked(u))
    <2>1. \A u \in Attempts : locked(u)' = locked(u)
      BY <1>5 DEF Closing!Rows
    <2>2. \A u \in Attempts \ {t} : Closes(u) => locked(t) \cap locked(u) = {}
      BY <1>1 DEF Closing!RowsAreFree, Closes, Asked
    <2>3. \A u, v \in Attempts : u # v /\ Closes(u) /\ Closes(v) => locked(u) \cap locked(v) = {}
      BY DEF ClosingInv, RowsApart
    <2> HIDE DEF locked
    <2>4. \A u, v \in Attempts :
            u # v /\ Closes(u)' /\ Closes(v)' => locked(u) \cap locked(v) = {}
      BY <1>6, <2>2, <2>3
    <2>5. QED
      BY <2>1, <2>4 DEF RowsApart, locked
  <1>8. CommandsFit'
    BY <1>1, <1>5 DEF CommandsFit, ClosingInv
  <1>9. Stands(Asked(t))
    BY <1>1, <1>2 DEF Stands, Closing!Allowed, Closing!ActionAllowed, Closing!Valid,
       Closing!CalculationAllowed, Closing!CloseAllowed, Closing!Command
  <1>10. CheckedStands'
    BY <1>1, <1>5, <1>6, <1>9, NothingOnRecord DEF CheckedStands, ClosingInv
  <1>11. QED
    BY <1>1, <1>4, <1>7, <1>8, <1>10, NothingOnRecord DEF ClosingInv, Closing!ClosingIsSound

(* Refused, replayed, or of something else: the record stays.              *)
LEMMA EndWithoutEffect ==
  ASSUME ClosingInv, NEW t \in Attempts,
         closers' = [closers EXCEPT ![t] = Closing!Idle],
         UNCHANGED <<executive, accepted, materials, cases, closings, asked>>
  PROVE  ClosingInv'
  <1>1. Closing!TypeOK'
    BY EndedAlone DEF ClosingInv, Closing!ClosingIsSound, Closing!TypeOK
  <1>2. CommandsFit'
    BY EndedAlone DEF CommandsFit, ClosingInv
  <1>3. CheckedStands'
    BY EndedAlone, NothingOnRecord DEF CheckedStands, ClosingInv
  <1>4. QED
    BY <1>1, <1>2, <1>3, EndedAlone, NothingOnRecord DEF ClosingInv, Closing!ClosingIsSound
(* Nothing on record changes while the sites go on, or nothing at all.     *)
LEMMA OfficeStandsStill ==
  ASSUME ClosingInv, UNCHANGED <<executive, cases, closings, closers, asked>>,
         accepted' \subseteq Closing!Works, materials' \subseteq Closing!Works
  PROVE  ClosingInv'
  <1>1. Closing!TypeOK'
    BY DEF ClosingInv, Closing!ClosingIsSound, Closing!TypeOK
  <1>2. \A u \in Attempts : /\ Asked(u)' = Asked(u) /\ (Closes(u)' <=> Closes(u))
                            /\ Closing!In(u, "idle")' <=> Closing!In(u, "idle")
    BY DEF Asked, Closing!Cmd, Closes, Closing!In
  <1>3. CommandsFit' /\ RowsApart'
    BY <1>2 DEF CommandsFit, RowsApart, ClosingInv, Closing!Rows
  <1>4. CheckedStands'
    BY <1>2, NothingOnRecord DEF CheckedStands, ClosingInv
  <1>5. QED
    BY <1>1, <1>3, <1>4, NothingOnRecord DEF ClosingInv, Closing!ClosingIsSound


(* Accepted works and moved materials leave what is on record alone.       *)
LEMMA SiteKeeps ==
  ASSUME ClosingInv, NEW w \in Closing!Works, Closing!AcceptWork(w) \/ Closing!ChangeMaterials(w)
  PROVE  ClosingInv'
  <1>1. UNCHANGED <<executive, cases, closings, closers, asked>>
    BY DEF Closing!AcceptWork, Closing!ChangeMaterials
  <1>2. accepted' \subseteq Closing!Works /\ materials' \subseteq Closing!Works
    BY DEF Closing!AcceptWork, Closing!ChangeMaterials, ClosingInv, Closing!ClosingIsSound,
       Closing!TypeOK
  <1>3. QED
    BY <1>1, <1>2, OfficeStandsStill

(* A commit keeps what the sums are of unless it closes.                   *)
LEMMA SameClosings ==
  ASSUME closings' = closings, NEW p
  PROVE  Closing!Sum(p)' = Closing!Sum(p) /\ \A cmd : Closing!Replays(cmd)' <=> Closing!Replays(cmd)
  BY DEF Closing!Sum, Closing!ClosingsOf, Closing!Replays

(* Who commits has what he was checked against.                            *)
LEMMA CommitStands ==
  ASSUME ClosingInv, NEW t \in Attempts, NEW kinds, Closing!Committing(t, kinds)
  PROVE  /\ Closes(t) /\ Asked(t).kind \in kinds
         /\ Asked(t) \in Closing!Command /\ Asked(t).package \in ExecutivePackages
         /\ Stands(Asked(t))
         /\ closers' = [closers EXCEPT ![t] = Closing!Idle]
         /\ UNCHANGED <<accepted, materials, asked>>
         /\ \A u \in Attempts : Closes(u)' =>
              /\ u # t /\ Closes(u) /\ Asked(u)' = Asked(u)
              /\ Asked(u) \in Closing!Command /\ Asked(u).package \in ExecutivePackages
              /\ Stands(Asked(u))
              /\ Closing!Rows(Asked(t)) \cap Closing!Rows(Asked(u)) = {}
  <1>1. /\ Closes(t) /\ Asked(t).kind \in kinds
        /\ closers' = [closers EXCEPT ![t] = Closing!Idle]
        /\ UNCHANGED <<accepted, materials, asked>>
    BY DEF Closing!Committing, Closes, Asked
  <1>2. \A u \in Attempts : Closes(u) => ~Closing!In(u, "idle") /\ Stands(Asked(u))
    BY DEF Closes, Closing!In, ClosingInv, CheckedStands
  <1>3. \A u \in Attempts : Closes(u) =>
          Asked(u) \in Closing!Command /\ Asked(u).package \in ExecutivePackages
    BY <1>2, AskedIsCommand DEF ClosingInv, Closing!ClosingIsSound
  <1>4. \A u \in Attempts : Closes(u)' => u # t /\ Closes(u) /\ Asked(u)' = Asked(u)
    BY <1>1, EndedAlone
  <1>5. \A u \in Attempts : Closes(u)' =>
          Closing!Rows(Asked(t)) \cap Closing!Rows(Asked(u)) = {}
    BY <1>1, <1>4 DEF ClosingInv, RowsApart
  <1>6. QED
    BY <1>1, <1>2, <1>3, <1>4, <1>5

(* The lock of a package is on its row.                                    *)
LEMMA PackageLock ==
  ASSUME NEW c \in Closing!Command, NEW d \in Closing!Command,
         Closing!Rows(c) \cap Closing!Rows(d) = {}
  PROVE  /\ {c.kind, d.kind} \subseteq {"document", "ready", "transfer"}
              => c.package # d.package
         /\ c.kind \in {"calculate", "close"} /\ d.kind \in {"calculate", "close"}
              => c.package # d.package
         /\ c.kind = "document" /\ d.kind = "document" /\ c.file # None => c.file # d.file
  <1>1. /\ c.kind \in {"document", "ready", "transfer"} =>
             <<"package", c.package>> \in Closing!Rows(c)
        /\ d.kind \in {"document", "ready", "transfer"} =>
             <<"package", d.package>> \in Closing!Rows(d)
    BY DEF Closing!Rows, Closing!Command
  <1>2. /\ c.kind \in {"calculate", "close"} => <<"case", c.package>> \in Closing!Rows(c)
        /\ d.kind \in {"calculate", "close"} => <<"case", d.package>> \in Closing!Rows(d)
    BY DEF Closing!Rows, Closing!Command
  <1>3. /\ c.kind = "document" /\ c.file # None => <<"file", c.file>> \in Closing!Rows(c)
        /\ d.kind = "document" /\ d.file # None => <<"file", d.file>> \in Closing!Rows(d)
    BY DEF Closing!Rows, Closing!Command
  <1>4. QED
    BY <1>1, <1>2, <1>3

(* One element more, at the end.                                           *)
LEMMA OneMoreAtTheEnd ==
  ASSUME NEW D, NEW s \in Seq(D), NEW d \in D
  PROVE  /\ Append(s, d) \in Seq(D)
         /\ \A i \in DOMAIN s : i \in DOMAIN Append(s, d) /\ Append(s, d)[i] = s[i]
         /\ \A i \in DOMAIN Append(s, d) : i \in DOMAIN s \/ Append(s, d)[i] = d
  OBVIOUS

(* Commands stay about rows that are there: none goes.                     *)
LEMMA FitAfter ==
  ASSUME ClosingInv, NEW t \in Attempts,
         closers' = [closers EXCEPT ![t] = Closing!Idle],
         \A p \in ExecutivePackages :
           /\ DOMAIN executive[p].documents \subseteq DOMAIN executive'[p].documents
           /\ cases[p] # None => cases'[p] # None
  PROVE  CommandsFit'
  <1>1. SUFFICES ASSUME NEW u \in Attempts, ~Closing!In(u, "idle")'
                 PROVE  /\ Asked(u)'.kind = "approve" =>
                             Asked(u)'.document \in DOMAIN executive'[Asked(u)'.package].documents
                        /\ Asked(u)'.kind \in {"calculate", "close"} =>
                             cases'[Asked(u)'.package] # None
    BY DEF CommandsFit
  <1>2. PICK c \in Closing!Command :
          c = Asked(u) /\ Asked(u)' = c /\ c.package \in ExecutivePackages
    BY <1>1, EndedAlone, AskedIsCommand DEF ClosingInv, Closing!ClosingIsSound
  <1>3. ~Closing!In(u, "idle")
    BY <1>1, EndedAlone
  <1>4. /\ c.kind = "approve" => c.document \in DOMAIN executive[c.package].documents
        /\ c.kind \in {"calculate", "close"} => cases[c.package] # None
    BY <1>2, <1>3 DEF ClosingInv, CommandsFit
  <1>5. QED
    BY <1>2, <1>4

(* A case stands as long as nobody decides on it.                          *)
LEMMA CaseStands ==
  ASSUME NEW c, c.kind \in {"calculate", "close"}, Stands(c),
         cases'[c.package] = cases[c.package],
         Closing!Sum(c.package)' = Closing!Sum(c.package),
         closings \subseteq closings'
  PROVE  Stands(c)'
  <1>1. Closing!Replays(c) => Closing!Replays(c)'
    BY DEF Closing!Replays
  <1>2. QED
    BY <1>1 DEF Stands

(* A new document takes a file that only its object uses, and unsettles    *)
(* no package.                                                             *)
LEMMA CreateDocumentKeeps ==
  ASSUME Closing!ExecutiveAssumption, ClosingInv, NEW t \in Attempts, Closing!CreateDocument(t)
  PROVE  ClosingInv'
  <1>1. PICK cmd : cmd = Asked(t)
    OBVIOUS
  <1> DEFINE p == cmd.package
             f == cmd.file
             doc == [type |-> cmd.type, file |-> f, approved |-> FALSE, version |-> 1]
  <1>2. /\ Closing!Committing(t, {"document"}) /\ Closing!AddDocument(p, doc)
        /\ UNCHANGED <<cases, closings>>
    BY <1>1 DEF Closing!CreateDocument, Asked
  <1>3. /\ cmd.kind = "document" /\ cmd \in Closing!Command /\ p \in ExecutivePackages
        /\ executive[p].status # "TRANSFERRED_TO_SDO"
        /\ Closing!FileIsOfObject(f, p)
        /\ closers' = [closers EXCEPT ![t] = Closing!Idle]
        /\ UNCHANGED <<accepted, materials, asked>>
    BY <1>1, <1>2, CommitStands DEF Stands
  <1>4. f \in Files \cup {None} /\ doc \in Closing!Document
    BY <1>3 DEF Closing!Command, Closing!Document
  <1>5. /\ executive \in [ExecutivePackages -> Closing!Package]
        /\ executive[p] \in Closing!Package
    BY <1>3 DEF ClosingInv, Closing!ClosingIsSound, Closing!TypeOK
  <1>6. PICK moved : moved = [status |-> "IN_PROGRESS", version |-> executive[p].version + 1,
                            documents |-> Append(executive[p].documents, doc)]
    OBVIOUS
  <1>7. executive' = [executive EXCEPT ![p] = moved]
    BY <1>2, <1>3, <1>5, <1>6 DEF Closing!AddDocument, Closing!Package
  <1>8. /\ \A d \in DOMAIN executive[p].documents :
             d \in DOMAIN moved.documents /\ moved.documents[d] = executive[p].documents[d]
        /\ \A d \in DOMAIN moved.documents :
             d \in DOMAIN executive[p].documents \/ moved.documents[d] = doc
        /\ moved.documents \in Seq(Closing!Document)
    <2>1. executive[p].documents \in Seq(Closing!Document)
      BY <1>5 DEF Closing!Package
    <2> HIDE DEF doc
    <2>2. moved.documents = Append(executive[p].documents, doc)
      BY <1>6
    <2>3. QED
      BY <1>4, <2>1, <2>2, OneMoreAtTheEnd
  <1>9. moved \in Closing!Package
    BY <1>5, <1>6, <1>8 DEF Closing!Package
  <1>10. moved.status = "IN_PROGRESS" /\ doc.file = f
    BY <1>6
  <1>11. /\ \A q \in ExecutivePackages \ {p} : executive'[q] = executive[q]
         /\ executive'[p] = moved /\ executive' \in [ExecutivePackages -> Closing!Package]
    BY <1>3, <1>5, <1>7, <1>9
  <1> HIDE DEF doc
  <1>12. Closing!TypeOK'
    BY <1>2, <1>3, <1>11, EndedAlone DEF ClosingInv, Closing!ClosingIsSound, Closing!TypeOK
  <1>13. Closing!SettledPackagesAreApproved' /\ Closing!OneCasePerWork'
    BY <1>2, <1>3, <1>10, <1>11
       DEF ClosingInv, Closing!ClosingIsSound, Closing!SettledPackagesAreApproved,
           Closing!OneCasePerWork, Closing!HasAosr, Closing!AllApproved
  <1>14. Closing!StatusTellsTheClosings'
    BY <1>2, SameClosings DEF ClosingInv, Closing!ClosingIsSound, Closing!StatusTellsTheClosings
  <1>15. ASSUME NEW g, NEW q \in ExecutivePackages, Closing!UsedInPackage(g, q)'
         PROVE  Closing!UsedInPackage(g, q) \/ (g = f /\ q = p)
    BY <1>8, <1>10, <1>11, <1>15 DEF Closing!UsedInPackage
  <1>16. Closing!FilesStayInTheirObject'
    <2>1. SUFFICES ASSUME NEW q \in ExecutivePackages, NEW r \in ExecutivePackages, NEW g \in Files,
                          Closing!UsedInPackage(g, q)', Closing!UsedInPackage(g, r)'
                   PROVE  ObjectOf[q] = ObjectOf[r]
      BY DEF Closing!FilesStayInTheirObject
    <2>2. CASE Closing!UsedInPackage(g, q) /\ Closing!UsedInPackage(g, r)
      BY <2>2 DEF ClosingInv, Closing!ClosingIsSound, Closing!FilesStayInTheirObject
    <2>3. CASE g = f
      <3>1. f # None
        BY <2>3 DEF Closing!ExecutiveAssumption
      <3>2. \A x \in ExecutivePackages : Closing!UsedInPackage(f, x) => ObjectOf[x] = ObjectOf[p]
        BY <1>3, <3>1 DEF Closing!FileIsOfObject
      <3>3. QED
        BY <1>15, <2>1, <2>3, <3>2
    <2>4. QED
      BY <1>15, <2>1, <2>2, <2>3
  <1>17. CommandsFit'
    BY <1>2, <1>3, <1>8, <1>11, FitAfter
  <1>18. CheckedStands'
    <2>1. SUFFICES ASSUME NEW u \in Attempts, Closes(u)'
                   PROVE  Stands(Asked(u))'
      BY DEF CheckedStands
    <2>2. PICK c \in Closing!Command :
            /\ Asked(u)' = c /\ c.package \in ExecutivePackages
            /\ Stands(c) /\ Closing!Rows(cmd) \cap Closing!Rows(c) = {}
      BY <1>1, <1>2, <2>1, CommitStands
    <2>3. /\ c.kind \in {"document", "ready", "transfer"} => c.package # p
          /\ c.kind = "document" /\ f # None => c.file # f
      BY <1>3, <2>2, PackageLock
    <2>4. c.kind \in {"document", "ready", "transfer"} =>
            executive'[c.package] = executive[c.package]
      BY <1>11, <2>2, <2>3
    <2>5. c.kind = "document" => Closing!FileIsOfObject(c.file, c.package)'
      BY <1>15, <2>2, <2>3 DEF Stands, Closing!FileIsOfObject
    <2>6. c.kind \in {"ready", "transfer"} =>
            Closing!HasAosr(c.package)' /\ Closing!AllApproved(c.package)'
      BY <2>2, <2>4 DEF Stands, Closing!HasAosr, Closing!AllApproved
    <2>7. c.kind \in {"calculate", "close"} => Stands(c)'
      BY <1>2, <2>2, SameClosings, CaseStands
    <2>8. c.kind \in {"document", "ready", "transfer"} => Stands(c)'
      BY <2>2, <2>4, <2>5, <2>6 DEF Stands
    <2>9. c.kind = "approve" => Stands(c)'
      BY DEF Stands
    <2>10. Stands(c)'
      BY <2>7, <2>8, <2>9 DEF Closing!Command
    <2>11. QED
      BY <2>2, <2>10
  <1>19. QED
    BY <1>2, <1>3, <1>12, <1>13, <1>14, <1>16, <1>17, <1>18, EndedAlone
       DEF ClosingInv, ClosingsFit, Closing!ClosingIsSound

(* Where documents are only approved and a package that becomes READY was  *)
(* checked, the rest of what the others were checked against stays.        *)
PackageMove(t, cmd, moved) ==
  /\ cmd \in Closing!Command /\ cmd = Asked(t) /\ Closes(t) /\ cmd.package \in ExecutivePackages
  /\ closers' = [closers EXCEPT ![t] = Closing!Idle]
  /\ UNCHANGED <<accepted, materials, asked, cases, closings>>
  /\ moved \in Closing!Package /\ executive' = [executive EXCEPT ![cmd.package] = moved]
  /\ DOMAIN moved.documents = DOMAIN executive[cmd.package].documents
  /\ \A d \in DOMAIN moved.documents :
       /\ moved.documents[d].file = executive[cmd.package].documents[d].file
       /\ moved.documents[d].type = executive[cmd.package].documents[d].type
       /\ executive[cmd.package].documents[d].approved => moved.documents[d].approved
  /\ \/ moved.status = executive[cmd.package].status
     \/ /\ moved.status = "READY" /\ executive[cmd.package].status # "TRANSFERRED_TO_SDO"
        /\ Closing!HasAosr(cmd.package) /\ Closing!AllApproved(cmd.package)

(* A package that moves on under its lock leaves the cases and closings    *)
(* as they were.                                                           *)
LEMMA PackageMoves ==
  ASSUME Closing!ExecutiveAssumption, ClosingInv, NEW t \in Attempts, NEW cmd, NEW moved,
         PackageMove(t, cmd, moved)
  PROVE  ClosingInv'
  <1> USE DEF PackageMove
  <1> DEFINE p == cmd.package
  <1>1. executive \in [ExecutivePackages -> Closing!Package]
    BY DEF ClosingInv, Closing!ClosingIsSound, Closing!TypeOK
  <1>2. /\ \A q \in ExecutivePackages \ {p} : executive'[q] = executive[q]
        /\ executive'[p] = moved /\ executive' \in [ExecutivePackages -> Closing!Package]
    BY <1>1
  <1>3. Closing!TypeOK'
    BY <1>2, EndedAlone DEF ClosingInv, Closing!ClosingIsSound, Closing!TypeOK
  <1>4. \A q \in ExecutivePackages :
          /\ Closing!HasAosr(q) => Closing!HasAosr(q)'
          /\ Closing!AllApproved(q) => Closing!AllApproved(q)'
          /\ \A g : Closing!UsedInPackage(g, q)' => Closing!UsedInPackage(g, q)
    BY <1>2 DEF Closing!HasAosr, Closing!AllApproved, Closing!UsedInPackage
  <1>5. \A q \in ExecutivePackages :
          executive'[q].status = "TRANSFERRED_TO_SDO" <=> executive[q].status = "TRANSFERRED_TO_SDO"
    BY <1>2
  <1>6. Closing!SettledPackagesAreApproved'
    <2>1. SUFFICES ASSUME NEW q \in ExecutivePackages,
                          executive'[q].status \in {"READY", "TRANSFERRED_TO_SDO"}
                   PROVE  Closing!HasAosr(q)' /\ Closing!AllApproved(q)'
      BY DEF Closing!SettledPackagesAreApproved
    <2>2. \/ executive[q].status \in {"READY", "TRANSFERRED_TO_SDO"}
          \/ Closing!HasAosr(q) /\ Closing!AllApproved(q)
      BY <1>2, <2>1
    <2>3. QED
      BY <1>4, <2>2 DEF ClosingInv, Closing!ClosingIsSound, Closing!SettledPackagesAreApproved
  <1>7. Closing!OneCasePerWork'
    BY <1>5 DEF ClosingInv, Closing!ClosingIsSound, Closing!OneCasePerWork
  <1>8. Closing!StatusTellsTheClosings'
    BY SameClosings DEF ClosingInv, Closing!ClosingIsSound, Closing!StatusTellsTheClosings
  <1>9. Closing!FilesStayInTheirObject'
    BY <1>4 DEF ClosingInv, Closing!ClosingIsSound, Closing!FilesStayInTheirObject
  <1>10. CommandsFit'
    BY <1>2, FitAfter
  <1>11. CheckedStands'
    <2>1. SUFFICES ASSUME NEW u \in Attempts, Closes(u)'
                   PROVE  Stands(Asked(u))'
      BY DEF CheckedStands
    <2>2. PICK c \in Closing!Command :
            /\ Asked(u)' = c /\ c.package \in ExecutivePackages /\ Stands(c)
      BY <2>1, EndedAlone, AskedIsCommand
         DEF ClosingInv, Closing!ClosingIsSound, CheckedStands, Closes, Closing!In
    <2>3. Closing!FileIsOfObject(c.file, c.package) => Closing!FileIsOfObject(c.file, c.package)'
      BY <1>4 DEF Closing!FileIsOfObject
    <2>4. c.kind \in {"document", "ready", "transfer"} => Stands(c)'
      BY <1>4, <1>5, <2>2, <2>3 DEF Stands
    <2>5. c.kind \in {"calculate", "close"} => Stands(c)'
      BY <2>2, SameClosings, CaseStands
    <2>6. c.kind = "approve" => Stands(c)'
      BY DEF Stands
    <2>7. QED
      BY <2>2, <2>4, <2>5, <2>6 DEF Closing!Command
  <1>12. QED
    BY <1>3, <1>6, <1>7, <1>8, <1>9, <1>10, <1>11, EndedAlone
       DEF ClosingInv, ClosingsFit, Closing!ClosingIsSound

(* An approval sends a package back from nothing it has reached.           *)
LEMMA ApproveDocumentKeeps ==
  ASSUME Closing!ExecutiveAssumption, ClosingInv, NEW t \in Attempts, Closing!ApproveDocument(t)
  PROVE  ClosingInv'
  <1>1. PICK cmd : cmd = Asked(t)
    OBVIOUS
  <1> DEFINE p == cmd.package
             n == cmd.document
  <1>2. /\ Closing!Committing(t, {"approve"}) /\ UNCHANGED <<cases, closings>>
        /\ executive' = [executive EXCEPT ![p].documents[n] = Closing!Approved(@)]
    BY <1>1 DEF Closing!ApproveDocument, Asked
  <1>3. /\ cmd.kind = "approve" /\ cmd \in Closing!Command /\ p \in ExecutivePackages
        /\ closers' = [closers EXCEPT ![t] = Closing!Idle] /\ Closes(t)
        /\ UNCHANGED <<accepted, materials, asked>>
    BY <1>1, <1>2, CommitStands
  <1>4. n \in DOMAIN executive[p].documents
    BY <1>1, <1>3 DEF Closes, Closing!In, ClosingInv, CommandsFit
  <1>5. /\ executive \in [ExecutivePackages -> Closing!Package]
        /\ executive[p] \in Closing!Package
    BY <1>3 DEF ClosingInv, Closing!ClosingIsSound, Closing!TypeOK
  <1>6. executive[p].documents \in Seq(Closing!Document)
    BY <1>5 DEF Closing!Package
  <1>7. PICK old \in Closing!Document : old = executive[p].documents[n]
    BY <1>4, <1>6
  <1>8. PICK doc : doc = [type |-> old.type, file |-> old.file, approved |-> TRUE,
                          version |-> old.version + 1]
    OBVIOUS
  <1>9. doc \in Closing!Document
    BY <1>7, <1>8 DEF Closing!Document
  <1>10. PICK documents : documents = [executive[p].documents EXCEPT ![n] = doc]
    OBVIOUS
  <1>11. documents \in Seq(Closing!Document) /\ DOMAIN documents = DOMAIN executive[p].documents
    BY <1>4, <1>6, <1>9, <1>10
  <1>12. PICK moved : moved = [status |-> executive[p].status, version |-> executive[p].version,
                           documents |-> documents]
    OBVIOUS
  <1>13. moved \in Closing!Package
    BY <1>5, <1>11, <1>12 DEF Closing!Package
  <1>14. executive' = [executive EXCEPT ![p] = moved]
    <2>1. doc = Closing!Approved(executive[p].documents[n])
      <3>1. doc = Closing!Approved(old)
        BY <1>8 DEF Closing!Approved
      <3>2. QED
        BY <1>7, <3>1
    <2>2. executive' = [executive EXCEPT ![p].documents[n] = doc]
      BY <1>2, <2>1
    <2>3. moved = [executive[p] EXCEPT !.documents = documents]
      BY <1>5, <1>12 DEF Closing!Package
    <2>4. QED
      BY <1>10, <2>2, <2>3
  <1>15. \A d \in DOMAIN moved.documents :
           /\ moved.documents[d].file = executive[p].documents[d].file
           /\ moved.documents[d].type = executive[p].documents[d].type
           /\ executive[p].documents[d].approved => moved.documents[d].approved
    BY <1>4, <1>7, <1>8, <1>10, <1>11, <1>12
  <1>16. QED
    <2>1. PackageMove(t, cmd, moved)
      BY <1>1, <1>2, <1>3, <1>11, <1>12, <1>13, <1>14, <1>15 DEF PackageMove
    <2>2. QED
      BY <2>1, PackageMoves

(* Only a package whose documents are all approved becomes READY.          *)
LEMMA MarkReadyKeeps ==
  ASSUME Closing!ExecutiveAssumption, ClosingInv, NEW t \in Attempts, Closing!MarkReady(t)
  PROVE  ClosingInv'
  <1>1. PICK cmd : cmd = Asked(t)
    OBVIOUS
  <1> DEFINE p == cmd.package
  <1>2. /\ Closing!Committing(t, {"ready"}) /\ UNCHANGED <<cases, closings>>
        /\ executive' = [executive EXCEPT ![p].status = "READY", ![p].version = @ + 1]
    BY <1>1 DEF Closing!MarkReady, Asked
  <1>3. /\ cmd.kind = "ready" /\ cmd \in Closing!Command /\ p \in ExecutivePackages
        /\ closers' = [closers EXCEPT ![t] = Closing!Idle] /\ Closes(t)
        /\ UNCHANGED <<accepted, materials, asked>>
        /\ executive[p].status # "TRANSFERRED_TO_SDO"
        /\ Closing!HasAosr(p) /\ Closing!AllApproved(p)
    BY <1>1, <1>2, CommitStands DEF Stands
  <1>4. /\ executive \in [ExecutivePackages -> Closing!Package]
        /\ executive[p] \in Closing!Package
    BY <1>3 DEF ClosingInv, Closing!ClosingIsSound, Closing!TypeOK
  <1>5. PICK moved : moved = [status |-> "READY", version |-> executive[p].version + 1,
                          documents |-> executive[p].documents]
    OBVIOUS
  <1>6. moved \in Closing!Package /\ executive' = [executive EXCEPT ![p] = moved]
    BY <1>2, <1>3, <1>4, <1>5 DEF Closing!Package
  <1>7. QED
    <2>1. PackageMove(t, cmd, moved)
      BY <1>1, <1>2, <1>3, <1>5, <1>6 DEF PackageMove
    <2>2. QED
      BY <2>1, PackageMoves

(* A transfer opens the one case of its work.                              *)
LEMMA TransferKeeps ==
  ASSUME Closing!ExecutiveAssumption, ClosingInv, NEW t \in Attempts, Closing!Transfer(t)
  PROVE  ClosingInv'
  <1>1. PICK cmd : cmd = Asked(t)
    OBVIOUS
  <1> DEFINE p == cmd.package
             new == [status |-> "TRANSFERRED", value |-> 0, version |-> 1]
  <1>2. /\ Closing!Committing(t, {"transfer"}) /\ closings' = closings
        /\ Closing!CaseIsNew(p)
        /\ cases' = [cases EXCEPT ![p] = new]
        /\ executive' = [executive EXCEPT ![p].status = "TRANSFERRED_TO_SDO", ![p].version = @ + 1]
    BY <1>1 DEF Closing!Transfer, Asked
  <1>3. /\ cmd.kind = "transfer" /\ cmd \in Closing!Command /\ p \in ExecutivePackages
        /\ closers' = [closers EXCEPT ![t] = Closing!Idle] /\ Closes(t)
        /\ UNCHANGED <<accepted, materials, asked>>
        /\ Closing!HasAosr(p) /\ Closing!AllApproved(p)
    BY <1>1, <1>2, CommitStands DEF Stands
  <1>4. /\ executive \in [ExecutivePackages -> Closing!Package]
        /\ executive[p] \in Closing!Package
        /\ cases \in [ExecutivePackages -> Closing!Case \cup {None}]
    BY <1>3 DEF ClosingInv, Closing!ClosingIsSound, Closing!TypeOK
  <1>5. PICK moved : moved = [status |-> "TRANSFERRED_TO_SDO", version |-> executive[p].version + 1,
                          documents |-> executive[p].documents]
    OBVIOUS
  <1>6. moved \in Closing!Package /\ executive' = [executive EXCEPT ![p] = moved]
    BY <1>2, <1>3, <1>4, <1>5 DEF Closing!Package
  <1>7. new \in Closing!Case /\ new # None
    BY DEF Closing!Case, Closing!ExecutiveAssumption
  <1>8. /\ \A q \in ExecutivePackages \ {p} : executive'[q] = executive[q] /\ cases'[q] = cases[q]
        /\ executive'[p] = moved /\ executive' \in [ExecutivePackages -> Closing!Package]
        /\ cases'[p] = new /\ cases' \in [ExecutivePackages -> Closing!Case \cup {None}]
    BY <1>2, <1>3, <1>4, <1>6, <1>7
  <1>9. cases[p] = None
    BY <1>2, <1>3 DEF Closing!CaseIsNew
  <1>10. Closing!TypeOK'
    BY <1>2, <1>3, <1>8, EndedAlone DEF ClosingInv, Closing!ClosingIsSound, Closing!TypeOK
  <1>11. \A q \in ExecutivePackages :
           /\ Closing!HasAosr(q)' <=> Closing!HasAosr(q)
           /\ Closing!AllApproved(q)' <=> Closing!AllApproved(q)
           /\ \A g : Closing!UsedInPackage(g, q)' <=> Closing!UsedInPackage(g, q)
    BY <1>5, <1>8 DEF Closing!HasAosr, Closing!AllApproved, Closing!UsedInPackage
  <1>12. Closing!SettledPackagesAreApproved'
    BY <1>3, <1>8, <1>11 DEF ClosingInv, Closing!ClosingIsSound, Closing!SettledPackagesAreApproved
  <1>13. Closing!OneCasePerWork'
    <2>1. \A q, r \in ExecutivePackages :
            cases'[q] # None /\ cases'[r] # None /\ WorkOf[q] = WorkOf[r] => q = r
      BY <1>2, <1>3, <1>7, <1>8
         DEF ClosingInv, Closing!ClosingIsSound, Closing!OneCasePerWork, Closing!CaseIsNew
    <2>2. \A q \in ExecutivePackages :
            cases'[q] # None <=> executive'[q].status = "TRANSFERRED_TO_SDO"
      BY <1>5, <1>7, <1>8 DEF ClosingInv, Closing!ClosingIsSound, Closing!OneCasePerWork
    <2>3. QED
      BY <2>1, <2>2 DEF Closing!OneCasePerWork
  <1>14. Closing!Sum(p) = 0
    <2>1. Closing!ClosingsOf(p) = {}
      BY <1>9 DEF Closing!ClosingsOf, ClosingInv, ClosingsFit
    <2>2. QED
      BY <2>1, SumOfNone DEF Closing!Sum
  <1>15. Closing!StatusTellsTheClosings'
    <2>1. SUFFICES ASSUME NEW q \in ExecutivePackages, cases'[q] # None
                   PROVE  /\ Closing!Sum(q) <= cases'[q].value
                          /\ cases'[q].status = "READY_TO_CLOSE" <=>
                               Closing!Sum(q) \in 1..(cases'[q].value - 1)
                          /\ cases'[q].status = "CLOSED" <=>
                               Closing!Sum(q) > 0 /\ Closing!Sum(q) = cases'[q].value
      BY <1>2, SameClosings DEF Closing!StatusTellsTheClosings
    <2>2. CASE q = p
      BY <1>8, <1>14, <2>2
    <2>3. CASE q # p
      BY <1>8, <2>1, <2>3 DEF ClosingInv, Closing!ClosingIsSound, Closing!StatusTellsTheClosings
    <2>4. QED
      BY <2>2, <2>3
  <1>16. Closing!FilesStayInTheirObject'
    BY <1>11 DEF ClosingInv, Closing!ClosingIsSound, Closing!FilesStayInTheirObject
  <1>17. \A q \in ExecutivePackages : cases[q] # None => cases'[q] # None
    BY <1>8, <1>9
  <1>18. CommandsFit'
    <2>1. \A q \in ExecutivePackages : executive'[q].documents = executive[q].documents
      BY <1>5, <1>8
    <2>2. QED
      BY <1>3, <1>17, <2>1, FitAfter
  <1>19. ClosingsFit'
    BY <1>2, <1>17
       DEF ClosingInv, ClosingsFit, Closing!ClosingIsSound, Closing!TypeOK, Closing!Closing
  <1>20. CheckedStands'
    <2>1. SUFFICES ASSUME NEW u \in Attempts, Closes(u)'
                   PROVE  Stands(Asked(u))'
      BY DEF CheckedStands
    <2>2. PICK c \in Closing!Command :
            /\ Asked(u)' = c /\ c.package \in ExecutivePackages
            /\ Stands(c) /\ Closing!Rows(cmd) \cap Closing!Rows(c) = {}
            /\ c.kind \in {"calculate", "close"} => cases[c.package] # None
      <3>1. ~Closing!In(u, "idle")
        BY <1>1, <1>2, <2>1, CommitStands DEF Closes, Closing!In
      <3>2. Asked(u).kind \in {"calculate", "close"} => cases[Asked(u).package] # None
        BY <3>1 DEF ClosingInv, CommandsFit
      <3>3. QED
        BY <1>1, <1>2, <2>1, <3>2, CommitStands
    <2>3. c.kind \in {"document", "ready", "transfer"} => c.package # p
      BY <1>3, <2>2, PackageLock
    <2>4. Closing!FileIsOfObject(c.file, c.package) => Closing!FileIsOfObject(c.file, c.package)'
      BY <1>11 DEF Closing!FileIsOfObject
    <2>5. c.kind \in {"document", "ready", "transfer"} => Stands(c)'
      BY <1>8, <1>11, <2>2, <2>3, <2>4 DEF Stands
    <2>6. c.kind \in {"calculate", "close"} => cases'[c.package] = cases[c.package]
      BY <1>8, <1>9, <2>2
    <2>7. c.kind \in {"calculate", "close"} => Stands(c)'
      BY <1>2, <2>2, <2>6, SameClosings, CaseStands
    <2>8. c.kind = "approve" => Stands(c)'
      BY DEF Stands
    <2>9. QED
      BY <2>2, <2>5, <2>7, <2>8 DEF Closing!Command
  <1>21. QED
    BY <1>2, <1>3, <1>10, <1>12, <1>13, <1>15, <1>16, <1>18, <1>19, <1>20, EndedAlone
       DEF ClosingInv, Closing!ClosingIsSound

(* A decision on one case: its row, and its closings, are nobody else's.   *)
CaseMove(t, cmd, moved) ==
  /\ cmd \in Closing!Command /\ cmd = Asked(t) /\ Closes(t) /\ cmd.package \in ExecutivePackages
  /\ cmd.kind \in {"calculate", "close"}
  /\ closers' = [closers EXCEPT ![t] = Closing!Idle]
  /\ UNCHANGED <<accepted, materials, asked, executive>>
  /\ moved \in Closing!Case /\ cases' = [cases EXCEPT ![cmd.package] = moved]
  /\ closings \subseteq closings' /\ closings' \subseteq Closing!Closing /\ IsFiniteSet(closings')
  /\ \A c \in closings' \ closings : c.package = cmd.package
  /\ LET sum == Closing!Sum(cmd.package)' IN
       /\ sum <= moved.value
       /\ moved.status = "READY_TO_CLOSE" <=> sum \in 1..(moved.value - 1)
       /\ moved.status = "CLOSED" <=> sum > 0 /\ sum = moved.value

(* A case that moves on under its lock leaves the other cases' sums        *)
(* alone.                                                                  *)
LEMMA CaseMoves ==
  ASSUME Closing!ExecutiveAssumption, ClosingInv, NEW t \in Attempts, NEW cmd, NEW moved,
         CaseMove(t, cmd, moved)
  PROVE  ClosingInv'
  <1> USE DEF CaseMove
  <1> DEFINE p == cmd.package
  <1>1. cases \in [ExecutivePackages -> Closing!Case \cup {None}]
    BY DEF ClosingInv, Closing!ClosingIsSound, Closing!TypeOK
  <1>2. moved # None
    BY DEF Closing!ExecutiveAssumption
  <1>3. /\ \A q \in ExecutivePackages \ {p} : cases'[q] = cases[q]
        /\ cases'[p] = moved /\ cases' \in [ExecutivePackages -> Closing!Case \cup {None}]
    BY <1>1
  <1>4. cases[p] # None
    BY DEF Closes, Closing!In, ClosingInv, CommandsFit
  <1>5. Closing!TypeOK'
    BY <1>3, EndedAlone DEF ClosingInv, Closing!ClosingIsSound, Closing!TypeOK
  <1>6. \A q \in ExecutivePackages : cases'[q] # None <=> cases[q] # None
    BY <1>2, <1>3, <1>4
  <1>7. \A q \in ExecutivePackages :
          /\ Closing!HasAosr(q)' <=> Closing!HasAosr(q)
          /\ Closing!AllApproved(q)' <=> Closing!AllApproved(q)
          /\ \A g : Closing!UsedInPackage(g, q)' <=> Closing!UsedInPackage(g, q)
    BY DEF Closing!HasAosr, Closing!AllApproved, Closing!UsedInPackage
  <1>8. /\ Closing!SettledPackagesAreApproved'
        /\ Closing!OneCasePerWork'
        /\ Closing!FilesStayInTheirObject'
    BY <1>6, <1>7 DEF ClosingInv, Closing!ClosingIsSound, Closing!SettledPackagesAreApproved,
       Closing!OneCasePerWork, Closing!FilesStayInTheirObject
  <1>9. \A q \in ExecutivePackages \ {p} : Closing!Sum(q)' = Closing!Sum(q)
    <2>1. TAKE q \in ExecutivePackages \ {p}
    <2> DEFINE of == Closing!ClosingsOf(q)
    <2>2. PICK S : S = of
      OBVIOUS
    <2>3. Closing!ClosingsOf(q)' = S /\ S \subseteq closings /\ S \subseteq closings'
      BY <2>2 DEF Closing!ClosingsOf
    <2>4. PICK f : f = [c \in closings |-> c.amount]
      OBVIOUS
    <2>5. PICK g : g = [c \in closings' |-> c.amount]
      OBVIOUS
    <2>6. Closing!SumOver(f, S) = Closing!SumOver(g, S)
      BY <2>3, <2>4, <2>5, SameAmountsSameSum
    <2>7. Closing!Sum(q) = Closing!SumOver(f, S)
      BY <2>2, <2>4 DEF Closing!Sum
    <2>8. Closing!Sum(q)' = Closing!SumOver(g, S)
      BY <2>3, <2>5 DEF Closing!Sum
    <2>9. QED
      BY <2>6, <2>7, <2>8
  <1>10. Closing!StatusTellsTheClosings'
    BY <1>3, <1>9 DEF ClosingInv, Closing!ClosingIsSound, Closing!StatusTellsTheClosings
  <1>11. CommandsFit'
    BY <1>6, FitAfter
  <1>12. ClosingsFit'
    BY <1>4, <1>6
       DEF ClosingInv, ClosingsFit, Closing!ClosingIsSound, Closing!TypeOK, Closing!Closing
  <1>13. CheckedStands'
    <2>1. SUFFICES ASSUME NEW u \in Attempts, Closes(u)'
                   PROVE  Stands(Asked(u))'
      BY DEF CheckedStands
    <2>2. PICK c \in Closing!Command :
            /\ Asked(u)' = c /\ c.package \in ExecutivePackages
            /\ Stands(c) /\ Closing!Rows(cmd) \cap Closing!Rows(c) = {}
      <3>1. /\ u # t /\ Closes(u) /\ Asked(u)' = Asked(u)
        BY <2>1, EndedAlone
      <3>2. /\ Asked(u) \in Closing!Command /\ Asked(u).package \in ExecutivePackages
            /\ Stands(Asked(u)) /\ Closing!Rows(cmd) \cap Closing!Rows(Asked(u)) = {}
        BY <3>1, AskedIsCommand
           DEF ClosingInv, Closing!ClosingIsSound, RowsApart, CheckedStands, Closes, Closing!In
      <3>3. QED
        BY <3>1, <3>2
    <2>3. c.kind \in {"calculate", "close"} => c.package # p
      BY <2>2, PackageLock
    <2>4. Closing!FileIsOfObject(c.file, c.package) => Closing!FileIsOfObject(c.file, c.package)'
      BY <1>7 DEF Closing!FileIsOfObject
    <2>5. c.kind \in {"document", "ready", "transfer"} => Stands(c)'
      BY <1>7, <2>2, <2>4 DEF Stands
    <2>6. c.kind \in {"calculate", "close"} => Stands(c)'
      BY <1>3, <1>9, <2>2, <2>3, CaseStands
    <2>7. c.kind = "approve" => Stands(c)'
      BY DEF Stands
    <2>8. QED
      BY <2>2, <2>5, <2>6, <2>7 DEF Closing!Command
  <1>14. QED
    BY <1>5, <1>8, <1>10, <1>11, <1>12, <1>13, EndedAlone DEF ClosingInv, Closing!ClosingIsSound

(* A calculation takes a case that nothing has been closed of.             *)
LEMMA CalculateSdoKeeps ==
  ASSUME Closing!ExecutiveAssumption, ClosingInv, NEW t \in Attempts, Closing!CalculateSdo(t)
  PROVE  ClosingInv'
  <1>1. PICK cmd : cmd = Asked(t)
    OBVIOUS
  <1> DEFINE p == cmd.package
  <1>2. /\ Closing!Committing(t, {"calculate"}) /\ UNCHANGED <<executive, closings>>
        /\ cases' = [cases EXCEPT ![p] =
             [status |-> "CALCULATED", value |-> cmd.value, version |-> cases[p].version + 1]]
    BY <1>1 DEF Closing!CalculateSdo, Asked
  <1>3. /\ cmd.kind = "calculate" /\ cmd \in Closing!Command /\ p \in ExecutivePackages
        /\ closers' = [closers EXCEPT ![t] = Closing!Idle] /\ Closes(t)
        /\ UNCHANGED <<accepted, materials, asked>>
        /\ cases[p].status \in {"TRANSFERRED", "CALCULATED"}
    BY <1>1, <1>2, CommitStands DEF Stands
  <1>4. cases[p] # None /\ cases[p] \in Closing!Case
    BY <1>1, <1>3 DEF Closes, Closing!In, ClosingInv, CommandsFit, Closing!ClosingIsSound,
       Closing!TypeOK
  <1>5. cmd.value \in 0..MaxValue
    BY <1>3 DEF Closing!Command
  <1>6. PICK moved : moved = [status |-> "CALCULATED", value |-> cmd.value,
                          version |-> cases[p].version + 1]
    OBVIOUS
  <1>7. moved \in Closing!Case
    BY <1>4, <1>5, <1>6 DEF Closing!Case
  <1>8. Closing!Sum(p)' = 0
    <2>1. Closing!Sum(p) \in Nat
      BY <1>3, SumIsAmount
    <2>2. /\ Closing!Sum(p) <= cases[p].value
          /\ ~(Closing!Sum(p) \in 1..(cases[p].value - 1))
          /\ ~(Closing!Sum(p) > 0 /\ Closing!Sum(p) = cases[p].value)
      BY <1>3, <1>4 DEF ClosingInv, Closing!ClosingIsSound, Closing!StatusTellsTheClosings
    <2>3. cases[p].value \in Nat
      BY <1>4 DEF Closing!Case, Closing!ExecutiveAssumption
    <2>4. Closing!Sum(p) = 0
      BY <2>1, <2>2, <2>3
    <2>5. QED
      BY <1>2, <2>4, SameClosings
  <1>9. /\ closings \subseteq closings' /\ closings' \subseteq Closing!Closing
        /\ IsFiniteSet(closings') /\ closings' \ closings = {}
    BY <1>2 DEF ClosingInv, Closing!ClosingIsSound, Closing!TypeOK
  <1>10. CaseMove(t, cmd, moved)
    BY <1>1, <1>2, <1>3, <1>5, <1>6, <1>7, <1>8, <1>9 DEF CaseMove
  <1>11. QED
    BY <1>10, CaseMoves

(* A closing adds its amount to the sum and the status follows.            *)
LEMMA CloseKeeps ==
  ASSUME Closing!ExecutiveAssumption, ClosingInv, NEW t \in Attempts, Closing!Close(t)
  PROVE  ClosingInv'
  <1>1. PICK cmd : cmd = Asked(t)
    OBVIOUS
  <1>2. PICK new : new = [key |-> cmd.key, package |-> cmd.package, amount |-> cmd.amount]
    OBVIOUS
  <1> DEFINE p == cmd.package
  <1>3. PICK sum : sum = Closing!Sum(p)
    OBVIOUS
  <1>4. /\ Closing!Committing(t, {"close"}) /\ executive' = executive
        /\ ~Closing!Known(cmd.key)
        /\ closings' = closings \cup {new}
        /\ cases' = [cases EXCEPT ![p].status = Closing!StatusAfter(p, sum + cmd.amount),
                                  ![p].version = @ + 1]
    BY <1>1, <1>2, <1>3 DEF Closing!Close, Asked
  <1>5. ~Closing!Replays(cmd)
    BY <1>4 DEF Closing!Replays, Closing!Known
  <1>6. /\ cmd.kind = "close" /\ cmd \in Closing!Command /\ p \in ExecutivePackages
        /\ closers' = [closers EXCEPT ![t] = Closing!Idle] /\ Closes(t)
        /\ UNCHANGED <<accepted, materials, asked>>
        /\ sum + cmd.amount <= cases[p].value
    BY <1>1, <1>3, <1>4, <1>5, CommitStands DEF Stands
  <1>7. cases[p] # None /\ cases[p] \in Closing!Case
    BY <1>1, <1>6 DEF Closes, Closing!In, ClosingInv, CommandsFit, Closing!ClosingIsSound,
       Closing!TypeOK
  <1>8. /\ cmd.amount \in Nat /\ cmd.amount > 0 /\ new \in Closing!Closing
    BY <1>2, <1>6 DEF Closing!Command, Closing!Closing, Closing!ExecutiveAssumption
  <1>9. cases[p].value \in Nat
    BY <1>7 DEF Closing!Case, Closing!ExecutiveAssumption
  <1>10. PICK status : status = IF sum + cmd.amount = cases[p].value THEN "CLOSED"
                                ELSE "READY_TO_CLOSE"
    OBVIOUS
  <1>11. PICK moved : moved = [status |-> status, value |-> cases[p].value,
                           version |-> cases[p].version + 1]
    OBVIOUS
  <1>12. moved \in Closing!Case /\ cases' = [cases EXCEPT ![p] = moved]
    <2>1. status \in {"CLOSED", "READY_TO_CLOSE"}
      BY <1>10
    <2>2. cases \in [ExecutivePackages -> Closing!Case \cup {None}]
      BY DEF ClosingInv, Closing!ClosingIsSound, Closing!TypeOK
    <2>3. cases' = [cases EXCEPT ![p].status = status, ![p].version = @ + 1]
      BY <1>4, <1>10 DEF Closing!StatusAfter
    <2>4. QED
      BY <1>6, <1>7, <1>11, <2>1, <2>2, <2>3 DEF Closing!Case
  <1>13. new \notin closings
    BY <1>2, <1>4 DEF Closing!Known
  <1>14. sum \in Nat /\ Closing!Sum(p)' = sum + cmd.amount
    <2>1. PICK S : S = Closing!ClosingsOf(p)
      OBVIOUS
    <2>2. /\ Closing!ClosingsOf(p)' = S \cup {new} /\ new \notin S
          /\ S \subseteq closings /\ S \subseteq closings'
      BY <1>2, <1>4, <1>13, <2>1 DEF Closing!ClosingsOf
    <2>3. PICK f : f = [c \in closings |-> c.amount]
      OBVIOUS
    <2>4. PICK g : g = [c \in closings' |-> c.amount]
      OBVIOUS
    <2>5. g[new] = cmd.amount /\ \A c \in S : g[c] = f[c] /\ g[c] \in Nat
      <3>1. \A c \in closings : c.amount \in Nat
        BY DEF ClosingInv, Closing!ClosingIsSound, Closing!TypeOK, Closing!Closing,
           Closing!ExecutiveAssumption
      <3>2. QED
        BY <1>2, <1>4, <2>2, <2>3, <2>4, <3>1
    <2>6. sum \in Nat /\ IsFiniteSet(S)
      BY <1>3, <1>6, <2>1, SumIsAmount
    <2>7. Closing!SumOver(g, S \cup {new}) = Closing!SumOver(g, S) + g[new]
      BY <1>8, <2>2, <2>5, <2>6, SumWithOneMore
    <2>8. Closing!SumOver(g, S) = Closing!SumOver(f, S)
      BY <2>5, SameAmountsSameSum
    <2>9. sum = Closing!SumOver(f, S) /\ Closing!Sum(p)' = Closing!SumOver(g, S \cup {new})
      BY <1>3, <2>1, <2>2, <2>3, <2>4 DEF Closing!Sum
    <2>10. QED
      BY <2>5, <2>6, <2>7, <2>8, <2>9
  <1>15. /\ closings \subseteq closings' /\ closings' \subseteq Closing!Closing
         /\ IsFiniteSet(closings') /\ \A c \in closings' \ closings : c.package = p
    BY <1>2, <1>4, <1>8, FS_AddElement DEF ClosingInv, Closing!ClosingIsSound, Closing!TypeOK
  <1>16. LET total == Closing!Sum(p)' IN
           /\ total <= moved.value
           /\ moved.status = "READY_TO_CLOSE" <=> total \in 1..(moved.value - 1)
           /\ moved.status = "CLOSED" <=> total > 0 /\ total = moved.value
    BY <1>6, <1>8, <1>9, <1>10, <1>11, <1>14
  <1>17. CaseMove(t, cmd, moved)
    BY <1>1, <1>4, <1>6, <1>12, <1>15, <1>16 DEF CaseMove
  <1>18. QED
    BY <1>17, CaseMoves

(* The inductive invariant of the older closing route: row locks keep      *)
(* checked commands apart, what one was checked against holds until it     *)
(* commits, and nothing is closed without a case.                          *)
THEOREM ClosingInvariance ==
  ASSUME Closing!ExecutiveAssumption
  PROVE  Closing!Spec => []ClosingInv
  <1>1. Closing!Init => ClosingInv
    BY ClosingInitially
  <1>2. ClosingInv /\ [Closing!Next]_(Closing!vars) => ClosingInv'
    <2>1. SUFFICES ASSUME ClosingInv, [Closing!Next]_(Closing!vars)
                   PROVE  ClosingInv'
      OBVIOUS
    <2>2. CASE UNCHANGED Closing!vars
      <3>1. /\ UNCHANGED <<executive, cases, closings, closers, asked>>
            /\ accepted' \subseteq Closing!Works /\ materials' \subseteq Closing!Works
        BY <2>1, <2>2 DEF Closing!vars, ClosingInv, Closing!ClosingIsSound, Closing!TypeOK
      <3>2. QED
        BY <2>1, <3>1, OfficeStandsStill
    <2>3. ASSUME NEW t \in Attempts, Closing!Begin(t)
          PROVE  ClosingInv'
      BY <2>1, <2>3, BeginKeeps
    <2>4. ASSUME NEW t \in Attempts, Closing!LockAndCheck(t)
          PROVE  ClosingInv'
      BY <2>1, <2>4, LockAndCheckKeeps
    <2>5. ASSUME NEW t \in Attempts, Closing!Refuse(t) \/ Closing!Replay(t)
          PROVE  ClosingInv'
      BY <2>1, <2>5, EndWithoutEffect DEF Closing!Refuse, Closing!Replay, Closing!Committing
    <2>6. ASSUME NEW t \in Attempts, Closing!CreateDocument(t)
          PROVE  ClosingInv'
      BY <2>1, <2>6, CreateDocumentKeeps
    <2>7. ASSUME NEW t \in Attempts, Closing!ApproveDocument(t)
          PROVE  ClosingInv'
      BY <2>1, <2>7, ApproveDocumentKeeps
    <2>8. ASSUME NEW t \in Attempts, Closing!MarkReady(t)
          PROVE  ClosingInv'
      BY <2>1, <2>8, MarkReadyKeeps
    <2>9. ASSUME NEW t \in Attempts, Closing!Transfer(t)
          PROVE  ClosingInv'
      BY <2>1, <2>9, TransferKeeps
    <2>10. ASSUME NEW t \in Attempts, Closing!CalculateSdo(t)
           PROVE  ClosingInv'
      BY <2>1, <2>10, CalculateSdoKeeps
    <2>11. ASSUME NEW t \in Attempts, Closing!Close(t)
           PROVE  ClosingInv'
      BY <2>1, <2>11, CloseKeeps
    <2>12. ASSUME NEW w \in Closing!Works, Closing!AcceptWork(w) \/ Closing!ChangeMaterials(w)
           PROVE  ClosingInv'
      BY <2>1, <2>12, SiteKeeps
    <2>13. QED
      BY <2>1, <2>2, <2>3, <2>4, <2>5, <2>6, <2>7, <2>8, <2>9, <2>10, <2>11, <2>12
         DEF Closing!Next
  <1>3. QED
    BY <1>1, <1>2, PTL DEF Closing!Spec

(* What is READY or transferred holds approved documents only, a work goes *)
(* to SDO once, no file is evidence of two objects, and what is closed     *)
(* stays within the accepted value and is told by the status, for any      *)
(* packages, files, amounts and number of processes.                       *)
THEOREM ExecutiveStaysSound ==
  ASSUME Closing!ExecutiveAssumption
  PROVE  Closing!Spec => []ExecutiveIsSound
  <1>1. ClosingInv => ExecutiveIsSound
    BY DEF ClosingInv, ExecutiveIsSound
  <1>2. QED
    BY <1>1, ClosingInvariance, PTL

-----------------------------------------------------------------------------
(* Teams: the inductive invariant                                          *)

Deciding(t) == Teams!In(t, "checked")

TeamRows ==
  /\ onDuty \subseteq Teams!Users /\ assigned \in 0..MaxAssignments
  /\ org \in Seq(Teams!OrgRow) /\ leads \in Seq(Teams!LeadRow) /\ members \in Seq(Teams!MemberRow)
  /\ handovers \in Seq(Teams!Handover) /\ handoffs \in Seq(Teams!Handoff)
  /\ responsible \in [Objects -> Engineers \cup {None}]

\* One current row at most of an engineer's team, of an object's lead, and of
\* an engineer on an object.
OneTeam == \A i, j \in Teams!Current(org) : org[i].member = org[j].member => i = j
OneLead == \A i, j \in Teams!Current(leads) : leads[i].object = leads[j].object => i = j
OncePerObject ==
  \A i, j \in Teams!Current(members) :
    members[i].object = members[j].object /\ members[i].member = members[j].member => i = j

\* A lead is ended only by the one who comes next.
EndedLeadsAreFollowed ==
  \A i \in DOMAIN leads : leads[i].ended =>
    \E j \in DOMAIN leads : i < j /\ leads[j].object = leads[i].object

\* What a client names is there.
AssignmentIsKnown(cmd) ==
  /\ cmd.kind \in {"org", "orgEnd", "lead", "redistribute", "add", "remove", "handoff",
                   "package", "archive", "complete"}
  /\ cmd.kind = "org" => cmd.member \in Engineers /\ cmd.manager \in Heads
  /\ cmd.kind = "orgEnd" => cmd.member \in Engineers
  /\ cmd.kind = "lead" => cmd.object \in Objects /\ cmd.lead \in Heads
  /\ cmd.kind = "redistribute" => cmd.parts \in Redistributions
  /\ cmd.kind \in {"add", "remove", "handoff"} =>
       cmd.object \in Objects /\ cmd.member \in Engineers /\ cmd.actor \in Heads \cup {Admin}
  /\ cmd.kind \in {"package", "archive"} => cmd.object \in Objects
  /\ cmd.kind = "complete" => cmd.handover \in DOMAIN handovers

\* What still holds, when a command commits, of what was checked.
SeenStands(e, seen) == seen = Teams!IdOf(Teams!OrgOf(e))
PartsStand(r, seen) ==
  /\ \A e \in r.orgEnds : SeenStands(e, seen)
  /\ \A x \in r.orgTransfers : x[1] \in onDuty /\ x[2] \in onDuty /\ SeenStands(x[1], seen)
  /\ \A x \in r.leadChanges : x[2] \in onDuty
  /\ \A x \in r.memberAdds : x[2] \in onDuty /\ (Teams!IsMember(x[2], x[1]) => x \in r.memberEnds)
AssignmentStands(cmd) ==
  /\ cmd.kind = "org" =>
       cmd.member \in onDuty /\ cmd.manager \in onDuty /\ SeenStands(cmd.member, cmd.seen)
  /\ cmd.kind = "orgEnd" => SeenStands(cmd.member, cmd.seen)
  /\ cmd.kind = "lead" => cmd.lead \in onDuty
  /\ cmd.kind = "redistribute" => PartsStand(cmd.parts, cmd.seen)
  /\ cmd.kind = "add" => Teams!AddAllowed(cmd)
  /\ cmd.kind = "handoff" =>
       cmd.member \in onDuty /\ (Teams!Keeps(cmd) \/ responsible[cmd.object] = None)
  /\ cmd.kind = "package" => Teams!HandoffOf(cmd.object) # {}
  /\ cmd.kind = "complete" => handovers[cmd.handover].status = "OPEN"

\* What the locks on users, objects and rows leave to two commands at a time.
ScopesApart(c, d) ==
  /\ Teams!TeamScope(c).users \cap Teams!TeamScope(d).users = {}
  /\ Teams!TeamScope(c).objects \cap Teams!TeamScope(d).objects = {}
  /\ Teams!RowsOf(c) \cap Teams!RowsOf(d) = {}

ManagersHold ==
  /\ DOMAIN managers = Attempts
  /\ \A t \in Attempts :
       \/ managers[t] = [phase |-> "idle"]
       \/ /\ managers[t] = [phase |-> managers[t].phase, cmd |-> Teams!Cmd(t)]
          /\ managers[t].phase \in {"begun", "checked"}
          /\ AssignmentIsKnown(Teams!Cmd(t))
  /\ \A t \in Attempts : Deciding(t) => AssignmentStands(Teams!Cmd(t))
  /\ \A t, u \in Attempts : t # u /\ Deciding(t) /\ Deciding(u) =>
       ScopesApart(Teams!Cmd(t), Teams!Cmd(u))

TeamsStand ==
  /\ TeamRows /\ OneTeam /\ OneLead /\ OncePerObject
  /\ EndedLeadsAreFollowed /\ Teams!ReplacedLeadsHandOver /\ Teams!PackageKeepsItsEngineer
TeamsInv == TeamsStand /\ ManagersHold

-----------------------------------------------------------------------------
(* Teams: tables and the rows written to them                              *)

(* The library's sequence of a finite set has each of its elements once.   *)
LEMMA RowsInOrder ==
  ASSUME NEW S, IsFiniteSet(S)
  PROVE  \E n \in Nat :
           /\ Teams!SetToSeq(S) \in [1..n -> S]
           /\ \A i, j \in 1..n : Teams!SetToSeq(S)[i] = Teams!SetToSeq(S)[j] => i = j
           /\ \A x \in S : \E i \in 1..n : Teams!SetToSeq(S)[i] = x
  <1> DEFINE n == Cardinality(S)
  <1>1. n \in Nat /\ ExistsBijection(1..n, S)
    BY FS_CardinalityType
  <1>2. PICK f \in Bijection(1..n, S) : TRUE
    BY <1>1 DEF ExistsBijection
  <1>3. f \in [1..n -> S] /\ Teams!IsInjective(f)
    BY <1>2 DEF Bijection, Injection, IsInjective, Teams!IsInjective
  <1>4. Teams!SetToSeq(S) = CHOOSE g \in [1..n -> S] : Teams!IsInjective(g)
    BY DEF Teams!SetToSeq, Teams!Cardinality, Cardinality
  <1>5. Teams!SetToSeq(S) \in [1..n -> S] /\ Teams!IsInjective(Teams!SetToSeq(S))
    <2> HIDE DEF n
    <2>1. QED
      BY <1>3, <1>4
  <1>6. \A i, j \in 1..n : Teams!SetToSeq(S)[i] = Teams!SetToSeq(S)[j] => i = j
    BY <1>5 DEF Teams!IsInjective
  <1>7. \A x \in S : \E i \in 1..n : Teams!SetToSeq(S)[i] = x
    <2> DEFINE s == Teams!SetToSeq(S)
    <2>1. s \in Injection(1..n, S)
      BY <1>5, <1>6 DEF Injection, IsInjective
    <2>2. IsFiniteSet(1..n) /\ Cardinality(1..n) = n
      BY <1>1, FS_Interval
    <2> HIDE DEF s
    <2>3. s \in Surjection(1..n, S)
      BY <2>1, <2>2, FS_Injection
    <2>4. \A x \in S : \E i \in 1..n : s[i] = x
      BY <2>3 DEF Surjection
    <2>5. QED
      BY <2>4 DEF s
  <1>8. QED
    BY <1>1, <1>5, <1>6, <1>7

\* New rows follow those of a table, each once.
Grown(out, base, new) ==
  /\ DOMAIN base \subseteq DOMAIN out
  /\ \A i \in DOMAIN out : i \notin DOMAIN base => out[i] \in new
  /\ \A x \in new : \E i \in DOMAIN out : i \notin DOMAIN base /\ out[i] = x
  /\ \A i, j \in DOMAIN out :
        i \notin DOMAIN base /\ j \notin DOMAIN base /\ out[i] = out[j] => i = j
  /\ \A i \in DOMAIN base, j \in DOMAIN out : j \notin DOMAIN base => i < j

LEMMA AddedRows ==
  ASSUME NEW R, NEW base \in Seq(R), NEW new, IsFiniteSet(new), new \subseteq R
  PROVE  LET out == base \o Teams!SetToSeq(new) IN
           out \in Seq(R) /\ Grown(out, base, new) /\ \A i \in DOMAIN base : out[i] = base[i]
  <1> DEFINE out == base \o Teams!SetToSeq(new)
  <1>1. PICK n \in Nat :
          /\ Teams!SetToSeq(new) \in [1..n -> new]
          /\ \A i, j \in 1..n : Teams!SetToSeq(new)[i] = Teams!SetToSeq(new)[j] => i = j
          /\ \A x \in new : \E i \in 1..n : Teams!SetToSeq(new)[i] = x
    BY RowsInOrder
  <1>2. PICK s : s = Teams!SetToSeq(new)
    OBVIOUS
  <1>3. s \in Seq(R) /\ Len(s) = n
    <2>1. s \in [1..n -> R]
      BY <1>1, <1>2
    <2>2. QED
      BY <2>1
  <1>4. PICK m \in Nat : m = Len(base)
    OBVIOUS
  <1>5. /\ out \in Seq(R) /\ Len(out) = m + n
        /\ \A i \in 1..m+n : out[i] = IF i <= m THEN base[i] ELSE s[i - m]
    BY <1>2, <1>3, <1>4, ConcatProperties
  <1> HIDE DEF out
  <1>6. DOMAIN base = 1..m /\ DOMAIN out = 1..m+n
    BY <1>4, <1>5
  <1>7. \A i \in 1..m+n : i \notin 1..m => i - m \in 1..n /\ out[i] = s[i - m]
    BY <1>5
  <1>8. \A i, j \in DOMAIN out :
          i \notin DOMAIN base /\ j \notin DOMAIN base /\ out[i] = out[j] => i = j
    <2>1. TAKE i, j \in DOMAIN out
    <2>2. HAVE i \notin DOMAIN base /\ j \notin DOMAIN base /\ out[i] = out[j]
    <2>3. i - m \in 1..n /\ j - m \in 1..n /\ s[i - m] = s[j - m]
      BY <1>6, <1>7, <2>2
    <2>4. QED
      BY <1>1, <1>2, <1>6, <2>3
  <1>9. \A x \in new : \E i \in DOMAIN out : i \notin DOMAIN base /\ out[i] = x
    <2>1. TAKE x \in new
    <2>2. PICK k \in 1..n : s[k] = x
      BY <1>1, <1>2
    <2>3. m + k \in 1..m+n /\ m + k \notin 1..m /\ (m + k) - m = k
      OBVIOUS
    <2>4. QED
      BY <1>6, <1>7, <2>2, <2>3
  <1>10. \A i \in DOMAIN out : i \notin DOMAIN base => out[i] \in new
    BY <1>1, <1>2, <1>6, <1>7
  <1>11. /\ DOMAIN base \subseteq DOMAIN out /\ \A i \in DOMAIN base : out[i] = base[i]
         /\ \A i \in DOMAIN base, j \in DOMAIN out : j \notin DOMAIN base => i < j
    BY <1>5, <1>6
  <1>12. out \in Seq(R) /\ Grown(out, base, new) /\ \A i \in DOMAIN base : out[i] = base[i]
    BY <1>5, <1>8, <1>9, <1>10, <1>11 DEF Grown
  <1>13. QED
    BY <1>12 DEF out

\* The rows of a table are of the same kind when they are ended.
Closable(R) == \A r \in R : [r EXCEPT !.ended = TRUE] \in R

LEMMA ReplacedRows ==
  ASSUME NEW R, NEW table, NEW ended, NEW new, NEW out,
         table \in Seq(R), IsFiniteSet(new), new \subseteq R, Closable(R),
         out = Teams!Replaced(table, ended, new)
  PROVE  /\ out \in Seq(R) /\ Grown(out, table, new)
         /\ \A i \in DOMAIN table : i \notin ended => out[i] = table[i]
         /\ \A i \in DOMAIN table : i \in ended => out[i] = [table[i] EXCEPT !.ended = TRUE]
  <1>1. PICK base : base = [i \in DOMAIN table |->
                              IF i \in ended THEN [table[i] EXCEPT !.ended = TRUE] ELSE table[i]]
    OBVIOUS
  <1>2. base \in Seq(R) /\ DOMAIN base = DOMAIN table
    BY <1>1 DEF Closable
  <1>3. out = base \o Teams!SetToSeq(new)
    BY <1>1 DEF Teams!Replaced
  <1>4. out \in Seq(R) /\ Grown(out, base, new) /\ \A i \in DOMAIN base : out[i] = base[i]
    BY <1>2, <1>3, AddedRows
  <1>5. Grown(out, table, new)
    BY <1>2, <1>4 DEF Grown
  <1>6. QED
    BY <1>1, <1>2, <1>4, <1>5

LEMMA FiniteImage ==
  ASSUME NEW S, IsFiniteSet(S), NEW f, DOMAIN f = S
  PROVE  IsFiniteSet({f[x] : x \in S})
  <1> DEFINE T == {f[x] : x \in S}
             g == [x \in S |-> f[x]]
  <1>1. g \in Surjection(S, T)
    BY DEF Surjection
  <1> HIDE DEF g, T
  <1>2. IsFiniteSet(T)
    BY <1>1, FS_Surjection
  <1>3. QED
    BY <1>2 DEF T

-----------------------------------------------------------------------------
(* Teams: what a command writes                                            *)

SameTeam(e) == Teams!OrgOf(e)' = Teams!OrgOf(e) /\ \A i \in Teams!OrgOf(e) : org'[i] = org[i]
SameLead(o) == Teams!LeadOf(o)' = Teams!LeadOf(o) /\ \A i \in Teams!LeadOf(o) : leads'[i] = leads[i]
SameMembers(o) == \A e \in Engineers : Teams!IsMember(e, o)' <=> Teams!IsMember(e, o)
SameHandoffs(o) == Teams!HandoffOf(o)' = Teams!HandoffOf(o) /\ \A i \in Teams!HandoffOf(o) :
  handoffs'[i] = handoffs[i]

OrgWritten(ends, transfers) ==
  /\ \A e \in Engineers : e \notin ends /\ (\A x \in transfers : x[1] # e) => SameTeam(e)
  /\ \A i \in DOMAIN org' : i \notin DOMAIN org =>
       \E x \in transfers : org'[i].member = x[1] /\ org'[i].manager = x[2]
  /\ \A i \in Teams!Current(org) : i \in DOMAIN org' /\ org'[i].ended =>
       i \in Teams!OrgOf(org[i].member) /\ org[i].member \in ends \cup {x[1] : x \in transfers}

LEMMA OrgMoves ==
  ASSUME TeamRows, OneTeam, NEW ends \in SUBSET Engineers,
         NEW transfers \in SUBSET (Engineers \X Heads), IsFiniteSet(transfers),
         \A x, y \in transfers : x[1] = y[1] => x = y,
         org' = Teams!OrgAfter(ends, transfers)
  PROVE  org' \in Seq(Teams!OrgRow) /\ OneTeam' /\ OrgWritten(ends, transfers)
  <1> DEFINE Row(x) == [member |-> x[1], manager |-> x[2], ended |-> FALSE]
             ended == UNION {Teams!OrgOf(e) : e \in ends \cup {x[1] : x \in transfers}}
             new == {Row(x) : x \in transfers}
  <1>1. org \in Seq(Teams!OrgRow) /\ new \subseteq Teams!OrgRow
    <2>1. \A x \in transfers : Row(x) \in Teams!OrgRow
      BY DEF Teams!OrgRow
    <2>2. QED
      BY <2>1 DEF TeamRows
  <1>2. IsFiniteSet(new)
    <2> DEFINE f == [x \in transfers |-> Row(x)]
    <2>1. new = {f[x] : x \in transfers} /\ DOMAIN f = transfers
      OBVIOUS
    <2> HIDE DEF f, new
    <2>2. QED
      BY <2>1, FiniteImage
  <1>3. \A r \in Teams!OrgRow : LET s == [r EXCEPT !.ended = TRUE] IN
          s \in Teams!OrgRow /\ s.member = r.member /\ s.ended
    BY DEF Teams!OrgRow
  <1>4. org' = Teams!Replaced(org, ended, new)
    BY DEF Teams!OrgAfter
  <1>5. \A i : i \in ended <=> i \in DOMAIN org /\ ~org[i].ended
                 /\ org[i].member \in ends \cup {x[1] : x \in transfers}
    BY DEF Teams!OrgOf, Teams!Current
  <1>6. \A x \in transfers : Row(x) \in new /\ Row(x).member = x[1] /\ Row(x).manager = x[2]
          /\ ~Row(x).ended
    OBVIOUS
  <1>7. \A r \in new : \E x \in transfers : r = Row(x)
    OBVIOUS
  <1> HIDE DEF ended, new, Row
  <1>0. Closable(Teams!OrgRow)
    BY <1>3 DEF Closable
  <1>8. /\ org' \in Seq(Teams!OrgRow) /\ Grown(org', org, new)
        /\ \A i \in DOMAIN org : i \notin ended => org'[i] = org[i]
        /\ \A i \in DOMAIN org : i \in ended => org'[i] = [org[i] EXCEPT !.ended = TRUE]
    BY <1>0, <1>1, <1>2, <1>4, ReplacedRows
  <1>9. /\ DOMAIN org \subseteq DOMAIN org'
        /\ \A i \in DOMAIN org : org[i] \in Teams!OrgRow /\ org'[i].member = org[i].member
        /\ \A i \in DOMAIN org : i \in ended => org'[i].ended
    <2>1. \A i \in DOMAIN org : org[i] \in Teams!OrgRow
      BY <1>1
    <2>2. ASSUME NEW i \in DOMAIN org, i \in ended
          PROVE  org'[i].member = org[i].member /\ org'[i].ended
      <3>1. org'[i] = [org[i] EXCEPT !.ended = TRUE]
        BY <1>8, <2>2
      <3>2. QED
        BY <1>3, <2>1, <3>1
    <2>3. \A i \in DOMAIN org : i \notin ended => org'[i].member = org[i].member
      BY <1>8
    <2>4. DOMAIN org \subseteq DOMAIN org'
      BY <1>8 DEF Grown
    <2>5. QED
      BY <2>1, <2>2, <2>3, <2>4
  <1>10. \A i \in DOMAIN org' : i \notin DOMAIN org =>
           \E x \in transfers : org'[i] = Row(x) /\ org'[i].member = x[1] /\ org'[i].manager = x[2]
             /\ ~org'[i].ended
    BY <1>6, <1>7, <1>8 DEF Grown
  <1>11. OneTeam'
    <2>1. SUFFICES ASSUME NEW i \in DOMAIN org', NEW j \in DOMAIN org', ~org'[i].ended,
                          ~org'[j].ended, org'[i].member = org'[j].member
                   PROVE  i = j
      BY DEF OneTeam, Teams!Current
    <2>2. CASE i \in DOMAIN org /\ j \in DOMAIN org
      <3>1. i \notin ended /\ j \notin ended
        BY <1>9, <2>1, <2>2
      <3>2. i \in Teams!Current(org) /\ j \in Teams!Current(org) /\ org[i].member = org[j].member
        BY <1>8, <2>1, <2>2, <3>1 DEF Teams!Current
      <3>3. QED
        BY <3>2 DEF OneTeam
    <2>3. ASSUME NEW k \in DOMAIN org, NEW l \in DOMAIN org', l \notin DOMAIN org,
                 ~org'[k].ended, org'[k].member = org'[l].member
          PROVE  FALSE
      <3>1. PICK x \in transfers : org'[l].member = x[1]
        BY <1>10, <2>3
      <3>2. k \notin ended /\ org[k].member = x[1] /\ ~org[k].ended
        BY <1>8, <1>9, <2>3, <3>1
      <3>3. QED
        BY <1>5, <3>1, <3>2
    <2>4. CASE i \notin DOMAIN org /\ j \notin DOMAIN org
      <3>1. PICK x \in transfers : org'[i] = Row(x) /\ org'[i].member = x[1]
        BY <1>10, <2>4
      <3>2. PICK y \in transfers : org'[j] = Row(y) /\ org'[j].member = y[1]
        BY <1>10, <2>4
      <3>3. org'[i] = org'[j]
        BY <2>1, <3>1, <3>2
      <3>4. QED
        BY <1>8, <2>4, <3>3 DEF Grown
    <2>5. QED
      BY <2>1, <2>2, <2>3, <2>4
  <1>12. ASSUME NEW e \in Engineers, e \notin ends, \A x \in transfers : x[1] # e
         PROVE  SameTeam(e)
    <2>1. \A i \in DOMAIN org : org[i].member = e => i \notin ended
      BY <1>5, <1>12
    <2>2. \A i \in DOMAIN org' : org'[i].member = e => i \in DOMAIN org
      BY <1>10, <1>12
    <2>3. Teams!OrgOf(e)' = Teams!OrgOf(e)
      <3>1. Teams!OrgOf(e)' = {i \in DOMAIN org' : ~org'[i].ended /\ org'[i].member = e}
        BY DEF Teams!OrgOf, Teams!Current
      <3>2. Teams!OrgOf(e) = {i \in DOMAIN org : ~org[i].ended /\ org[i].member = e}
        BY DEF Teams!OrgOf, Teams!Current
      <3>3. QED
        BY <1>8, <1>9, <2>1, <2>2, <3>1, <3>2
    <2>4. \A i \in Teams!OrgOf(e) : org'[i] = org[i]
      BY <1>8, <2>1 DEF Teams!OrgOf, Teams!Current
    <2>5. QED
      BY <2>3, <2>4 DEF SameTeam
  <1>13. ASSUME NEW i \in Teams!Current(org), org'[i].ended
         PROVE  /\ i \in Teams!OrgOf(org[i].member)
                /\ org[i].member \in ends \cup {x[1] : x \in transfers}
    BY <1>5, <1>8, <1>13 DEF Teams!OrgOf, Teams!Current
  <1>14. QED
    BY <1>8, <1>10, <1>11, <1>12, <1>13 DEF OrgWritten

LeadsWritten(changes) ==
  /\ DOMAIN leads \subseteq DOMAIN leads'
  /\ \A i \in DOMAIN leads : leads'[i].object = leads[i].object /\ leads'[i].lead = leads[i].lead
  /\ \A i \in DOMAIN leads, j \in DOMAIN leads' : j \notin DOMAIN leads => i < j
  /\ \A o \in Objects : (\A x \in changes : x[1] # o) => SameLead(o)
  /\ \A i \in DOMAIN leads' : i \notin DOMAIN leads =>
       \E x \in changes : leads'[i].object = x[1] /\ leads'[i].lead = x[2]
  /\ \A i, j \in DOMAIN leads' :
       i \notin DOMAIN leads /\ j \notin DOMAIN leads /\ leads'[i].object = leads'[j].object => i =
         j

LEMMA LeadsMove ==
  ASSUME TeamRows, OneLead, EndedLeadsAreFollowed,
         NEW changes \in SUBSET (Objects \X Heads), IsFiniteSet(changes),
         \A x, y \in changes : x[1] = y[1] => x = y,
         leads' = Teams!LeadsAfter(changes)
  PROVE  leads' \in Seq(Teams!LeadRow) /\ OneLead' /\ EndedLeadsAreFollowed'
         /\ LeadsWritten(changes)
  <1> DEFINE Row(x) == [object |-> x[1], lead |-> x[2], ended |-> FALSE]
             ended == UNION {Teams!LeadOf(x[1]) : x \in changes}
             new == {Row(x) : x \in changes}
  <1>1. leads \in Seq(Teams!LeadRow) /\ new \subseteq Teams!LeadRow
    <2>1. \A x \in changes : Row(x) \in Teams!LeadRow
      BY DEF Teams!LeadRow
    <2>2. QED
      BY <2>1 DEF TeamRows
  <1>2. IsFiniteSet(new)
    <2> DEFINE f == [x \in changes |-> Row(x)]
    <2>1. new = {f[x] : x \in changes} /\ DOMAIN f = changes
      OBVIOUS
    <2> HIDE DEF f, new
    <2>2. QED
      BY <2>1, FiniteImage
  <1>3. \A r \in Teams!LeadRow : LET s == [r EXCEPT !.ended = TRUE] IN
          s \in Teams!LeadRow /\ s.object = r.object /\ s.lead = r.lead /\ s.ended
    BY DEF Teams!LeadRow
  <1>4. leads' = Teams!Replaced(leads, ended, new)
    BY DEF Teams!LeadsAfter
  <1>5. \A i : i \in ended <=> i \in DOMAIN leads /\ ~leads[i].ended
                 /\ \E x \in changes : leads[i].object = x[1]
    BY DEF Teams!LeadOf, Teams!Current
  <1>6. \A x \in changes : Row(x) \in new /\ Row(x).object = x[1] /\ Row(x).lead = x[2]
          /\ ~Row(x).ended
    OBVIOUS
  <1>7. \A r \in new : \E x \in changes : r = Row(x)
    OBVIOUS
  <1> HIDE DEF ended, new, Row
  <1>0. Closable(Teams!LeadRow)
    BY <1>3 DEF Closable
  <1>8. /\ leads' \in Seq(Teams!LeadRow) /\ Grown(leads', leads, new)
        /\ \A i \in DOMAIN leads : i \notin ended => leads'[i] = leads[i]
        /\ \A i \in DOMAIN leads : i \in ended => leads'[i] = [leads[i] EXCEPT !.ended = TRUE]
    BY <1>0, <1>1, <1>2, <1>4, ReplacedRows
  <1>9. /\ DOMAIN leads \subseteq DOMAIN leads'
        /\ \A i \in DOMAIN leads :
             leads'[i].object = leads[i].object /\ leads'[i].lead = leads[i].lead
        /\ \A i \in DOMAIN leads : i \in ended => leads'[i].ended
    <2>1. \A i \in DOMAIN leads : leads[i] \in Teams!LeadRow
      BY <1>1
    <2>2. ASSUME NEW i \in DOMAIN leads, i \in ended
          PROVE  leads'[i].object = leads[i].object /\ leads'[i].lead = leads[i].lead
                 /\ leads'[i].ended
      <3>1. leads'[i] = [leads[i] EXCEPT !.ended = TRUE]
        BY <1>8, <2>2
      <3>2. QED
        BY <1>3, <2>1, <3>1
    <2>3. \A i \in DOMAIN leads : i \notin ended =>
            leads'[i].object = leads[i].object /\ leads'[i].lead = leads[i].lead
      BY <1>8
    <2>4. DOMAIN leads \subseteq DOMAIN leads'
      BY <1>8 DEF Grown
    <2>5. QED
      BY <2>2, <2>3, <2>4
  <1>10. \A i \in DOMAIN leads' : i \notin DOMAIN leads =>
           \E x \in changes : leads'[i] = Row(x) /\ leads'[i].object = x[1] /\ leads'[i].lead = x[2]
             /\ ~leads'[i].ended
    BY <1>6, <1>7, <1>8 DEF Grown
  <1>11. \A i, j \in DOMAIN leads' :
           i \notin DOMAIN leads /\ j \notin DOMAIN leads /\ leads'[i].object = leads'[j].object
             => i = j
    <2>1. SUFFICES ASSUME NEW i \in DOMAIN leads', NEW j \in DOMAIN leads', i \notin DOMAIN leads,
                          j \notin DOMAIN leads, leads'[i].object = leads'[j].object
                   PROVE  i = j
      OBVIOUS
    <2>2. PICK x \in changes : leads'[i] = Row(x) /\ leads'[i].object = x[1]
      BY <1>10, <2>1
    <2>3. PICK y \in changes : leads'[j] = Row(y) /\ leads'[j].object = y[1]
      BY <1>10, <2>1
    <2>4. leads'[i] = leads'[j]
      BY <2>1, <2>2, <2>3
    <2>5. QED
      BY <1>8, <2>1, <2>4 DEF Grown
  <1>12. OneLead'
    <2>1. SUFFICES ASSUME NEW i \in DOMAIN leads', NEW j \in DOMAIN leads', ~leads'[i].ended,
                          ~leads'[j].ended, leads'[i].object = leads'[j].object
                   PROVE  i = j
      BY DEF OneLead, Teams!Current
    <2>2. CASE i \in DOMAIN leads /\ j \in DOMAIN leads
      <3>1. i \notin ended /\ j \notin ended
        BY <1>9, <2>1, <2>2
      <3>2. i \in Teams!Current(leads) /\ j \in Teams!Current(leads) /\ leads[i].object =
              leads[j].object
        BY <1>8, <2>1, <2>2, <3>1 DEF Teams!Current
      <3>3. QED
        BY <3>2 DEF OneLead
    <2>3. ASSUME NEW k \in DOMAIN leads, NEW l \in DOMAIN leads', l \notin DOMAIN leads,
                 ~leads'[k].ended, leads'[k].object = leads'[l].object
          PROVE  FALSE
      <3>1. PICK x \in changes : leads'[l].object = x[1]
        BY <1>10, <2>3
      <3>2. k \notin ended /\ leads[k].object = x[1] /\ ~leads[k].ended
        BY <1>8, <1>9, <2>3, <3>1
      <3>3. QED
        BY <1>5, <3>1, <3>2
    <2>4. QED
      BY <1>11, <2>1, <2>2, <2>3
  <1>13. EndedLeadsAreFollowed'
    <2>1. SUFFICES ASSUME NEW i \in DOMAIN leads', leads'[i].ended
                   PROVE  \E j \in DOMAIN leads' : i < j /\ leads'[j].object = leads'[i].object
      BY DEF EndedLeadsAreFollowed
    <2>2. i \in DOMAIN leads
      BY <1>10, <2>1
    <2>3. CASE i \in ended
      <3>1. PICK x \in changes : leads[i].object = x[1]
        BY <1>5, <2>3
      <3>2. PICK j \in DOMAIN leads' : j \notin DOMAIN leads /\ leads'[j] = Row(x)
        BY <1>6, <1>8 DEF Grown
      <3>3. i < j /\ leads'[j].object = leads'[i].object
        BY <1>6, <1>8, <1>9, <2>2, <3>1, <3>2 DEF Grown
      <3>4. QED
        BY <3>3
    <2>4. CASE i \notin ended
      <3>1. leads[i].ended
        BY <1>8, <2>1, <2>2, <2>4
      <3>2. PICK j \in DOMAIN leads : i < j /\ leads[j].object = leads[i].object
        BY <2>2, <3>1 DEF EndedLeadsAreFollowed
      <3>3. QED
        BY <1>9, <2>2, <3>2
    <2>5. QED
      BY <2>3, <2>4
  <1>14. ASSUME NEW o \in Objects, \A x \in changes : x[1] # o
         PROVE  SameLead(o)
    <2>1. \A i \in DOMAIN leads : leads[i].object = o => i \notin ended
      BY <1>5, <1>14
    <2>2. \A i \in DOMAIN leads' : leads'[i].object = o => i \in DOMAIN leads
      BY <1>10, <1>14
    <2>3. Teams!LeadOf(o)' = Teams!LeadOf(o)
      <3>1. Teams!LeadOf(o)' = {i \in DOMAIN leads' : ~leads'[i].ended /\ leads'[i].object = o}
        BY DEF Teams!LeadOf, Teams!Current
      <3>2. Teams!LeadOf(o) = {i \in DOMAIN leads : ~leads[i].ended /\ leads[i].object = o}
        BY DEF Teams!LeadOf, Teams!Current
      <3>3. QED
        BY <1>8, <1>9, <2>1, <2>2, <3>1, <3>2
    <2>4. \A i \in Teams!LeadOf(o) : leads'[i] = leads[i]
      BY <1>8, <2>1 DEF Teams!LeadOf, Teams!Current
    <2>5. QED
      BY <2>3, <2>4 DEF SameLead
  <1>15. \A i \in DOMAIN leads, j \in DOMAIN leads' : j \notin DOMAIN leads => i < j
    BY <1>8 DEF Grown
  <1>16. LeadsWritten(changes)
    BY <1>9, <1>10, <1>11, <1>14, <1>15 DEF LeadsWritten
  <1>17. QED
    BY <1>8, <1>12, <1>13, <1>16

HandoversWritten(changes) ==
  /\ DOMAIN handovers \subseteq DOMAIN handovers'
  /\ \A i \in DOMAIN handovers : handovers'[i] = handovers[i]
  /\ \A x \in Teams!LeadHandovers(changes) : \E i \in DOMAIN handovers' :
       /\ handovers'[i].object = x[1] /\ handovers'[i].outgoing = x[2]
       /\ handovers'[i].incoming = x[3]

LEMMA HandoversMove ==
  ASSUME TeamRows, NEW wanted \in SUBSET (Objects \X Teams!Users \X Teams!Users),
           IsFiniteSet(wanted),
         NEW changes \in SUBSET (Objects \X Heads), IsFiniteSet(changes),
         handovers' = Teams!HandoversAfter(wanted, changes)
  PROVE  handovers' \in Seq(Teams!Handover) /\ HandoversWritten(changes)
  <1> DEFINE Row(x) == [object |-> x[1], outgoing |-> x[2], incoming |-> x[3], status |-> "OPEN"]
             all == wanted \cup Teams!LeadHandovers(changes)
             new == {Row(x) : x \in all}
             pairs == {ix \in Teams!Current(leads) \X changes : leads[ix[1]].object = ix[2][1]}
             Passed(r) == <<leads[r[1]].object, leads[r[1]].lead, r[2][2]>>
  <1>1. IsFiniteSet(pairs)
    <2>1. IsFiniteSet(DOMAIN leads)
      BY FS_Interval DEF TeamRows
    <2>2. IsFiniteSet(Teams!Current(leads))
      BY <2>1, FS_Subset DEF Teams!Current
    <2>3. IsFiniteSet(Teams!Current(leads) \X changes)
      BY <2>2, FS_Product
    <2>4. QED
      BY <2>3, FS_Subset
  <1>2. Teams!LeadHandovers(changes) = {Passed(r) : r \in pairs}
    BY DEF Teams!LeadHandovers
  <1>3. \A r \in pairs : Passed(r) \in Objects \X Teams!Users \X Teams!Users
    <2>1. TAKE r \in pairs
    <2>2. r[1] \in DOMAIN leads /\ r[2] \in changes
      BY DEF Teams!Current
    <2>3. leads[r[1]] \in Teams!LeadRow
      BY <2>2 DEF TeamRows
    <2>4. leads[r[1]].object \in Objects /\ leads[r[1]].lead \in Teams!Users
          /\ r[2][2] \in Teams!Users
      BY <2>2, <2>3 DEF Teams!LeadRow, Teams!Users
    <2>5. QED
      BY <2>4
  <1>4. IsFiniteSet(Teams!LeadHandovers(changes))
    <2> DEFINE f == [r \in pairs |-> Passed(r)]
    <2>1. Teams!LeadHandovers(changes) = {f[r] : r \in pairs} /\ DOMAIN f = pairs
      BY <1>2
    <2> HIDE DEF f, pairs
    <2>2. QED
      BY <1>1, <2>1, FiniteImage
  <1>5. all \subseteq Objects \X Teams!Users \X Teams!Users /\ IsFiniteSet(all)
    <2>1. Teams!LeadHandovers(changes) \subseteq Objects \X Teams!Users \X Teams!Users
      BY <1>2, <1>3
    <2>2. QED
      BY <1>4, <2>1, FS_Union
  <1>6. new \subseteq Teams!Handover
    <2>1. \A x \in all : Row(x) \in Teams!Handover
      BY <1>5 DEF Teams!Handover
    <2>2. QED
      BY <2>1
  <1>7. IsFiniteSet(new)
    <2> DEFINE f == [x \in all |-> Row(x)]
    <2>1. new = {f[x] : x \in all} /\ DOMAIN f = all
      OBVIOUS
    <2> HIDE DEF f, new, all
    <2>2. QED
      BY <1>5, <2>1, FiniteImage
  <1>8. handovers' = handovers \o Teams!SetToSeq(new)
    BY DEF Teams!HandoversAfter
  <1>9. \A x \in all : Row(x) \in new /\ Row(x).object = x[1] /\ Row(x).outgoing = x[2]
          /\ Row(x).incoming = x[3]
    OBVIOUS
  <1>10. Teams!LeadHandovers(changes) \subseteq all
    OBVIOUS
  <1> HIDE DEF new, all, Row
  <1>11. /\ handovers' \in Seq(Teams!Handover) /\ Grown(handovers', handovers, new)
         /\ \A i \in DOMAIN handovers : handovers'[i] = handovers[i]
    BY <1>6, <1>7, <1>8, AddedRows DEF TeamRows
  <1>12. \A x \in Teams!LeadHandovers(changes) : \E i \in DOMAIN handovers' : handovers'[i] = Row(x)
    BY <1>9, <1>10, <1>11 DEF Grown
  <1>13. QED
    BY <1>9, <1>10, <1>11, <1>12 DEF HandoversWritten, Grown

(* A lead who is replaced is the last one of his object.                   *)
LEMMA LeadsHandOver ==
  ASSUME TeamRows, EndedLeadsAreFollowed, Teams!ReplacedLeadsHandOver,
         NEW changes \in SUBSET (Objects \X Heads), LeadsWritten(changes),
           HandoversWritten(changes),
         leads' \in Seq(Teams!LeadRow)
  PROVE  Teams!ReplacedLeadsHandOver'
  <1>1. DOMAIN leads \subseteq DOMAIN leads' /\ DOMAIN leads' \subseteq Int
    BY DEF LeadsWritten
  <1>2. SUFFICES ASSUME NEW i \in DOMAIN leads', NEW j \in DOMAIN leads', i < j,
                        leads'[i].object = leads'[j].object,
                        \A k \in i+1..j-1 : leads'[k].object # leads'[i].object
                 PROVE  \E n \in DOMAIN handovers' :
                          /\ handovers'[n].object = leads'[i].object
                          /\ handovers'[n].outgoing = leads'[i].lead
                          /\ handovers'[n].incoming = leads'[j].lead
    BY DEF Teams!ReplacedLeadsHandOver, Teams!ToSet
  <1>3. i \in DOMAIN leads
    <2>1. i \in Int /\ j \in Int
      BY <1>1
    <2>2. j \notin DOMAIN leads => i = j \/ i \in DOMAIN leads
      BY <1>2 DEF LeadsWritten
    <2>3. j \in DOMAIN leads => j < i \/ i \in DOMAIN leads
      BY DEF LeadsWritten
    <2>4. QED
      BY <1>2, <2>1, <2>2, <2>3
  <1>4. CASE j \in DOMAIN leads
    <2>1. i+1..j-1 \subseteq DOMAIN leads
      BY <1>3, <1>4 DEF TeamRows
    <2>2. \A k \in i+1..j-1 : leads[k].object # leads[i].object
      BY <1>2, <1>3, <2>1 DEF LeadsWritten
    <2>3. leads[i].object = leads[j].object
      BY <1>2, <1>3, <1>4 DEF LeadsWritten
    <2>4. PICK n \in DOMAIN handovers :
            /\ handovers[n].object = leads[i].object /\ handovers[n].outgoing = leads[i].lead
            /\ handovers[n].incoming = leads[j].lead
      BY <1>2, <1>3, <1>4, <2>2, <2>3 DEF Teams!ReplacedLeadsHandOver, Teams!ToSet
    <2>5. QED
      BY <1>3, <1>4, <2>4 DEF LeadsWritten, HandoversWritten
  <1>5. CASE j \notin DOMAIN leads
    <2>1. PICK x \in changes : leads'[j].object = x[1] /\ leads'[j].lead = x[2]
      BY <1>5 DEF LeadsWritten
    <2>2. ~leads[i].ended
      <3>1. SUFFICES ASSUME leads[i].ended PROVE FALSE
        OBVIOUS
      <3>2. PICK k \in DOMAIN leads : i < k /\ leads[k].object = leads[i].object
        BY <1>3, <3>1 DEF EndedLeadsAreFollowed
      <3>3. k < j /\ k \in Int /\ i \in Int /\ j \in Int
        BY <1>1, <1>5, <3>2 DEF LeadsWritten
      <3>4. leads'[k].object = leads'[i].object
        BY <1>3, <3>2 DEF LeadsWritten
      <3>5. QED
        BY <1>2, <3>2, <3>3, <3>4
    <2>3. leads[i].object = x[1] /\ <<i, x>> \in Teams!Current(leads) \X changes
      BY <1>2, <1>3, <2>1, <2>2 DEF Teams!Current, LeadsWritten
    <2>4. <<leads[i].object, leads[i].lead, x[2]>> \in Teams!LeadHandovers(changes)
      BY <2>3 DEF Teams!LeadHandovers
    <2>5. QED
      BY <1>3, <2>1, <2>4 DEF LeadsWritten, HandoversWritten
  <1>6. QED
    BY <1>4, <1>5

MembersWritten(ends, adds, by) ==
  /\ \A o \in Objects : (\A x \in ends \cup adds : x[1] # o) => SameMembers(o)
  /\ \A i \in DOMAIN members' : i \notin DOMAIN members =>
       \E x \in adds :
         members'[i].object = x[1] /\ members'[i].member = x[2] /\ members'[i].by = by

LEMMA MembersMove ==
  ASSUME TeamRows, OncePerObject,
         NEW ends \in SUBSET (Objects \X Engineers), NEW adds \in SUBSET (Objects \X Engineers),
         IsFiniteSet(adds), NEW by \in Heads \cup {Admin},
         \A x \in adds : Teams!IsMember(x[2], x[1]) => x \in ends,
         members' = Teams!MembersAfter(ends, adds, by)
  PROVE  members' \in Seq(Teams!MemberRow) /\ OncePerObject' /\ MembersWritten(ends, adds, by)
  <1> DEFINE Row(x) == [object |-> x[1], member |-> x[2], by |-> by, ended |-> FALSE]
             ended == {i \in Teams!Current(members) :
               <<members[i].object, members[i].member>> \in ends}
             new == {Row(x) : x \in adds}
  <1>1. members \in Seq(Teams!MemberRow) /\ new \subseteq Teams!MemberRow
    <2>1. \A x \in adds : Row(x) \in Teams!MemberRow
      BY DEF Teams!MemberRow
    <2>2. QED
      BY <2>1 DEF TeamRows
  <1>2. IsFiniteSet(new)
    <2> DEFINE f == [x \in adds |-> Row(x)]
    <2>1. new = {f[x] : x \in adds} /\ DOMAIN f = adds
      OBVIOUS
    <2> HIDE DEF f, new
    <2>2. QED
      BY <2>1, FiniteImage
  <1>3. \A r \in Teams!MemberRow : LET s == [r EXCEPT !.ended = TRUE] IN
          s \in Teams!MemberRow /\ s.object = r.object /\ s.member = r.member /\ s.ended
    BY DEF Teams!MemberRow
  <1>4. members' = Teams!Replaced(members, ended, new)
    BY DEF Teams!MembersAfter
  <1>5. \A i : i \in ended <=> i \in DOMAIN members /\ ~members[i].ended
                 /\ <<members[i].object, members[i].member>> \in ends
    BY DEF Teams!Current
  <1>6. \A x \in adds : Row(x) \in new /\ Row(x).object = x[1] /\ Row(x).member = x[2]
          /\ Row(x).by = by /\ ~Row(x).ended
    OBVIOUS
  <1>7. \A r \in new : \E x \in adds : r = Row(x)
    OBVIOUS
  <1> HIDE DEF ended, new, Row
  <1>8. Closable(Teams!MemberRow)
    BY <1>3 DEF Closable
  <1>9. /\ members' \in Seq(Teams!MemberRow) /\ Grown(members', members, new)
        /\ \A i \in DOMAIN members : i \notin ended => members'[i] = members[i]
        /\ \A i \in DOMAIN members : i \in ended => members'[i] = [members[i] EXCEPT !.ended = TRUE]
    BY <1>1, <1>2, <1>4, <1>8, ReplacedRows
  <1>10. /\ DOMAIN members \subseteq DOMAIN members'
         /\ \A i \in DOMAIN members : i \in ended => members'[i].ended
         /\ \A i \in DOMAIN members :
              members'[i].object = members[i].object /\ members'[i].member = members[i].member
    <2>1. \A i \in DOMAIN members : members[i] \in Teams!MemberRow
      BY <1>1
    <2>2. \A i \in DOMAIN members : i \in ended =>
            /\ members'[i].object = members[i].object /\ members'[i].member = members[i].member
            /\ members'[i].ended
      BY <1>3, <1>9, <2>1
    <2>3. \A i \in DOMAIN members : i \notin ended =>
            members'[i].object = members[i].object /\ members'[i].member = members[i].member
      BY <1>9
    <2>4. DOMAIN members \subseteq DOMAIN members'
      BY <1>9 DEF Grown
    <2>5. QED
      BY <2>2, <2>3, <2>4
  <1>11. \A i \in DOMAIN members' : i \notin DOMAIN members =>
           \E x \in adds : /\ members'[i] = Row(x) /\ members'[i].object = x[1]
                           /\ members'[i].member = x[2] /\ members'[i].by = by
                           /\ ~members'[i].ended
    BY <1>6, <1>7, <1>9 DEF Grown
  <1>12. \A x \in adds : \A i \in DOMAIN members :
           members[i].object = x[1] /\ members[i].member = x[2] /\ ~members[i].ended => i \in ended
    <2>1. SUFFICES ASSUME NEW x \in adds, NEW i \in DOMAIN members, members[i].object = x[1],
                          members[i].member = x[2], ~members[i].ended
                   PROVE  i \in ended
      OBVIOUS
    <2>2. x \in ends
      BY <2>1 DEF Teams!IsMember, Teams!Current
    <2>3. x = <<x[1], x[2]>>
      OBVIOUS
    <2>4. QED
      BY <1>5, <2>1, <2>2, <2>3
  <1>13. OncePerObject'
    <2>1. SUFFICES ASSUME NEW i \in DOMAIN members', NEW j \in DOMAIN members',
                          ~members'[i].ended, ~members'[j].ended,
                          members'[i].object = members'[j].object,
                          members'[i].member = members'[j].member
                   PROVE  i = j
      BY DEF OncePerObject, Teams!Current
    <2>2. CASE i \in DOMAIN members /\ j \in DOMAIN members
      <3>1. i \notin ended /\ j \notin ended
        BY <1>10, <2>1, <2>2
      <3>2. /\ i \in Teams!Current(members) /\ j \in Teams!Current(members)
            /\ members[i].object = members[j].object /\ members[i].member = members[j].member
        BY <1>9, <2>1, <2>2, <3>1 DEF Teams!Current
      <3>3. QED
        BY <3>2 DEF OncePerObject
    <2>3. ASSUME NEW k \in DOMAIN members, NEW l \in DOMAIN members', l \notin DOMAIN members,
                 ~members'[k].ended, members'[k].object = members'[l].object,
                 members'[k].member = members'[l].member
          PROVE  FALSE
      <3>1. PICK x \in adds : members'[l].object = x[1] /\ members'[l].member = x[2]
        BY <1>11, <2>3
      <3>2. k \notin ended
        BY <1>10, <2>3
      <3>3. members[k].object = x[1] /\ members[k].member = x[2] /\ ~members[k].ended
        BY <1>9, <1>10, <2>3, <3>1, <3>2
      <3>4. QED
        BY <1>12, <3>1, <3>2, <3>3
    <2>4. CASE i \notin DOMAIN members /\ j \notin DOMAIN members
      <3>1. PICK x \in adds : /\ members'[i] = Row(x) /\ members'[i].object = x[1]
                              /\ members'[i].member = x[2]
        BY <1>11, <2>4
      <3>2. PICK y \in adds : /\ members'[j] = Row(y) /\ members'[j].object = y[1]
                              /\ members'[j].member = y[2]
        BY <1>11, <2>4
      <3>3. x = <<x[1], x[2]>> /\ y = <<y[1], y[2]>>
        OBVIOUS
      <3>4. members'[i] = members'[j]
        BY <2>1, <3>1, <3>2, <3>3
      <3>5. QED
        BY <1>9, <2>4, <3>4 DEF Grown
    <2>5. QED
      BY <2>1, <2>2, <2>3, <2>4
  <1>14. ASSUME NEW o \in Objects, \A x \in ends \cup adds : x[1] # o
         PROVE  SameMembers(o)
    <2>1. \A i \in DOMAIN members : members[i].object = o => i \notin ended
      <3>1. SUFFICES ASSUME NEW i \in ended PROVE members[i].object # o
        OBVIOUS
      <3>2. PICK x : x = <<members[i].object, members[i].member>> /\ x \in ends
        BY <1>5
      <3>3. x[1] = members[i].object
        BY <3>2
      <3>4. QED
        BY <1>14, <3>2, <3>3
    <2>2. \A i \in DOMAIN members' : members'[i].object = o => i \in DOMAIN members
      BY <1>11, <1>14
    <2>3. SUFFICES ASSUME NEW e \in Engineers
                   PROVE  Teams!IsMember(e, o)' <=> Teams!IsMember(e, o)
      BY DEF SameMembers
    <2>4. Teams!IsMember(e, o)' => Teams!IsMember(e, o)
      BY <1>9, <1>10, <2>1, <2>2 DEF Teams!IsMember, Teams!Current
    <2>5. Teams!IsMember(e, o) => Teams!IsMember(e, o)'
      BY <1>9, <1>10, <2>1 DEF Teams!IsMember, Teams!Current
    <2>6. QED
      BY <2>4, <2>5
  <1>15. MembersWritten(ends, adds, by)
    BY <1>11, <1>14 DEF MembersWritten
  <1>16. QED
    BY <1>9, <1>13, <1>15

HandoffsWritten(o, e) ==
  /\ \A q \in Objects : q # o => SameHandoffs(q)
  /\ \A i \in DOMAIN handoffs' : i \notin DOMAIN handoffs => handoffs'[i].assignee = e
  /\ Teams!HandoffOf(o)' # {}

LEMMA HandoffsMove ==
  ASSUME TeamRows, NEW o \in Objects, NEW e \in Engineers,
         handoffs' = Teams!Replaced(handoffs, Teams!HandoffOf(o),
                              {[object |-> o, assignee |-> e, ended |-> FALSE]})
  PROVE  handoffs' \in Seq(Teams!Handoff) /\ HandoffsWritten(o, e)
  <1> DEFINE r == [object |-> o, assignee |-> e, ended |-> FALSE]
             new == {r}
  <1>1. handoffs \in Seq(Teams!Handoff) /\ new \subseteq Teams!Handoff /\ IsFiniteSet(new)
    <2>1. r \in Teams!Handoff
      BY DEF Teams!Handoff
    <2>2. handoffs \in Seq(Teams!Handoff)
      BY DEF TeamRows
    <2>3. IsFiniteSet(new)
      <3> HIDE DEF r
      <3>1. QED
        BY FS_Singleton
    <2>4. QED
      BY <2>1, <2>2, <2>3
  <1>2. Closable(Teams!Handoff)
    BY DEF Teams!Handoff, Closable
  <1>3. handoffs' = Teams!Replaced(handoffs, Teams!HandoffOf(o), new)
    OBVIOUS
  <1>4. r.object = o /\ r.assignee = e /\ ~r.ended /\ r \in new /\ \A s \in new : s = r
    OBVIOUS
  <1> HIDE DEF new, r
  <1>5. /\ handoffs' \in Seq(Teams!Handoff) /\ Grown(handoffs', handoffs, new)
        /\ \A i \in DOMAIN handoffs : i \notin Teams!HandoffOf(o) => handoffs'[i] = handoffs[i]
        /\ \A i \in DOMAIN handoffs : i \in Teams!HandoffOf(o) =>
             handoffs'[i] = [handoffs[i] EXCEPT !.ended = TRUE]
    <2> DEFINE ended == Teams!HandoffOf(o)
    <2>1. PICK out : out = Teams!Replaced(handoffs, ended, new)
      OBVIOUS
    <2>2. out = handoffs'
      BY <1>3, <2>1
    <2> HIDE DEF ended
    <2>3. out \in Seq(Teams!Handoff) /\ Grown(out, handoffs, new)
      BY <1>1, <1>2, <2>1, ReplacedRows
    <2>4. \A i \in DOMAIN handoffs : i \notin ended => out[i] = handoffs[i]
      BY <1>1, <1>2, <2>1, ReplacedRows
    <2>5. \A i \in DOMAIN handoffs : i \in ended => out[i] = [handoffs[i] EXCEPT !.ended = TRUE]
      BY <1>1, <1>2, <2>1, ReplacedRows
    <2>6. QED
      BY <2>2, <2>3, <2>4, <2>5 DEF ended
  <1>6. ASSUME NEW q \in Objects, q # o
        PROVE  SameHandoffs(q)
    <2>1. \A i \in Teams!HandoffOf(q) : i \in DOMAIN handoffs /\ handoffs'[i] = handoffs[i]
      BY <1>5, <1>6 DEF Teams!HandoffOf, Teams!Current
    <2>2. \A i \in DOMAIN handoffs' : i \notin DOMAIN handoffs => handoffs'[i].object # q
      BY <1>4, <1>5, <1>6 DEF Grown
    <2>3. ASSUME NEW i \in Teams!HandoffOf(o)
          PROVE  handoffs'[i].ended
      <3>1. i \in DOMAIN handoffs
        BY DEF Teams!HandoffOf, Teams!Current
      <3>2. handoffs[i] \in Teams!Handoff
        BY <1>1, <3>1
      <3>3. handoffs'[i] = [handoffs[i] EXCEPT !.ended = TRUE]
        BY <1>5, <3>1
      <3>4. QED
        BY <3>2, <3>3 DEF Teams!Handoff
    <2>4. Teams!HandoffOf(q)' = Teams!HandoffOf(q)
      <3>1. Teams!HandoffOf(q)' = {i \in DOMAIN handoffs' : ~handoffs'[i].ended
            /\ handoffs'[i].object = q}
        BY DEF Teams!HandoffOf, Teams!Current
      <3>2. Teams!HandoffOf(q) = {i \in DOMAIN handoffs : ~handoffs[i].ended
            /\ handoffs[i].object = q}
        BY DEF Teams!HandoffOf, Teams!Current
      <3>3. DOMAIN handoffs \subseteq DOMAIN handoffs'
        BY <1>5 DEF Grown
      <3>4. ASSUME NEW i \in Teams!HandoffOf(q)
            PROVE  i \in Teams!HandoffOf(q)'
        BY <2>1, <3>1, <3>2, <3>3
      <3>5. ASSUME NEW i \in Teams!HandoffOf(q)'
            PROVE  i \in Teams!HandoffOf(q)
        <4>1. i \in DOMAIN handoffs' /\ ~handoffs'[i].ended /\ handoffs'[i].object = q
          BY <3>1
        <4>2. i \in DOMAIN handoffs /\ i \notin Teams!HandoffOf(o)
          BY <2>2, <2>3, <4>1
        <4>3. handoffs'[i] = handoffs[i]
          BY <1>5, <4>2
        <4>4. QED
          BY <3>2, <4>1, <4>2, <4>3
      <3>6. QED
        BY <3>4, <3>5
    <2>5. QED
      BY <2>1, <2>4 DEF SameHandoffs
  <1>7. Teams!HandoffOf(o)' # {}
    <2>1. PICK i \in DOMAIN handoffs' : handoffs'[i] = r
      BY <1>4, <1>5 DEF Grown
    <2>2. i \in Teams!HandoffOf(o)'
      BY <1>4, <2>1 DEF Teams!HandoffOf, Teams!Current
    <2>3. QED
      BY <2>2
  <1>8. \A i \in DOMAIN handoffs' : i \notin DOMAIN handoffs => handoffs'[i].assignee = e
    BY <1>4, <1>5 DEF Grown
  <1>9. QED
    BY <1>5, <1>6, <1>7, <1>8 DEF HandoffsWritten

-----------------------------------------------------------------------------
(* Teams: what was checked holds while the locks are held                  *)

\* What a command may change: people, objects and rows it has locked.
Within(c) ==
  /\ onDuty' = onDuty
  /\ \A e \in Engineers : e \notin Teams!TeamScope(c).users => SameTeam(e)
  /\ \A o \in Objects : o \notin Teams!TeamScope(c).objects => SameLead(o) /\ SameMembers(o)
  /\ \A o \in Objects : <<"work", o>> \notin Teams!RowsOf(c) =>
       SameHandoffs(o) /\ responsible'[o] \in {responsible[o], None}
  /\ \A i \in DOMAIN handovers :
       i \in DOMAIN handovers' /\ (<<"handover", i>> \notin Teams!RowsOf(c) => handovers'[i] =
         handovers[i])

\* What the check of a command rests on.
Untouched(d) ==
  /\ \A u \in Teams!TeamScope(d).users : u \in onDuty => u \in onDuty'
  /\ \A e \in Engineers : e \in Teams!TeamScope(d).users => SameTeam(e)
  /\ \A o \in Objects : o \in Teams!TeamScope(d).objects => SameLead(o) /\ SameMembers(o)
  /\ \A o \in Objects : <<"work", o>> \in Teams!RowsOf(d) =>
       SameHandoffs(o) /\ responsible'[o] \in {responsible[o], None}
  /\ \A i \in DOMAIN handovers :
       i \in DOMAIN handovers' /\ (<<"handover", i>> \in Teams!RowsOf(d) => handovers'[i] =
         handovers[i])

LEMMA ScopesKeepApart ==
  ASSUME NEW c, NEW d, Within(c), ScopesApart(c, d)
  PROVE  Untouched(d)
  BY DEF Within, Untouched, ScopesApart

LEMMA TeamSeen ==
  ASSUME NEW e, SameTeam(e)
  PROVE  /\ \A s : SeenStands(e, s) => SeenStands(e, s)'
         /\ \A h : Teams!InTeamOf(h, e) => Teams!InTeamOf(h, e)'
  BY DEF SameTeam, SeenStands, Teams!IdOf, Teams!InTeamOf

LEMMA LeadSeen ==
  ASSUME NEW o, SameLead(o)
  PROVE  \A h : Teams!IsLead(h, o) => Teams!IsLead(h, o)'
  BY DEF SameLead, Teams!IsLead

LEMMA ScopeOfKind ==
  ASSUME NEW d
  PROVE  /\ d.kind = "org" => Teams!TeamScope(d).users = {d.member, d.manager}
         /\ d.kind = "orgEnd" => Teams!TeamScope(d).users = {d.member}
         /\ d.kind = "lead" => Teams!TeamScope(d).users = {d.lead} /\ Teams!TeamScope(d).objects =
              {d.object}
         /\ d.kind = "redistribute" =>
              Teams!TeamScope(d).users = Teams!UsersOf(d.parts) /\ Teams!TeamScope(d).objects =
                Teams!ObjectsOf(d.parts)
         /\ d.kind \in {"add", "handoff"} =>
              /\ Teams!TeamScope(d).users = {d.member, d.actor} \ {Admin}
              /\ Teams!TeamScope(d).objects = {d.object}
         /\ d.kind = "remove" =>
              Teams!TeamScope(d).users = {d.member} /\ Teams!TeamScope(d).objects = {d.object}
         /\ d.kind \in {"handoff", "package"} => Teams!RowsOf(d) = {<<"work", d.object>>}
         /\ d.kind = "archive" => Teams!RowsOf(d) = {<<"package", d.object>>}
         /\ d.kind = "complete" => Teams!RowsOf(d) = {<<"handover", d.handover>>}
  BY DEF Teams!TeamScope, Teams!RowsOf

LEMMA PartsInScope ==
  ASSUME Teams!TeamAssumption, NEW r \in Redistributions
  PROVE  /\ r.orgEnds \subseteq Engineers /\ r.orgTransfers \subseteq Engineers \X Heads
         /\ r.leadChanges \subseteq Objects \X Heads
         /\ r.memberEnds \subseteq Objects \X Engineers
         /\ r.memberAdds \subseteq Objects \X Engineers
         /\ r.handovers \subseteq Objects \X Teams!Users \X Teams!Users
         /\ \A e \in r.orgEnds : e \in Teams!UsersOf(r)
         /\ \A x \in r.orgTransfers : x[1] \in Teams!UsersOf(r) /\ x[2] \in Teams!UsersOf(r)
         /\ \A x \in r.leadChanges : x[2] \in Teams!UsersOf(r) /\ x[1] \in Teams!ObjectsOf(r)
         /\ \A x \in r.memberEnds : x[1] \in Teams!ObjectsOf(r)
         /\ \A x \in r.memberAdds : x[2] \in Teams!UsersOf(r) /\ x[1] \in Teams!ObjectsOf(r)
  <1>1. r \in Teams!Redistribution
    BY DEF Teams!TeamAssumption
  <1>2. QED
    BY <1>1 DEF Teams!Redistribution, Teams!UsersOf, Teams!ObjectsOf

LEMMA PartsStillStand ==
  ASSUME Teams!TeamAssumption, NEW r \in Redistributions, NEW s, PartsStand(r, s),
         \A u \in Teams!UsersOf(r) : u \in onDuty => u \in onDuty',
         \A e \in Engineers : e \in Teams!UsersOf(r) => SameTeam(e),
         \A o \in Objects : o \in Teams!ObjectsOf(r) => SameMembers(o)
  PROVE  PartsStand(r, s)'
  <1>1. \A e \in r.orgEnds : SeenStands(e, s)'
    <2>1. TAKE e \in r.orgEnds
    <2>2. SameTeam(e) /\ SeenStands(e, s)
      BY PartsInScope DEF PartsStand
    <2>3. QED
      BY <2>2, TeamSeen
  <1>2. \A x \in r.orgTransfers : x[1] \in onDuty' /\ x[2] \in onDuty' /\ SeenStands(x[1], s)'
    <2>1. TAKE x \in r.orgTransfers
    <2>2. PICK e \in Engineers : e = x[1]
      BY PartsInScope
    <2>3. SameTeam(e) /\ SeenStands(e, s) /\ x[1] \in onDuty' /\ x[2] \in onDuty'
      BY <2>2, PartsInScope DEF PartsStand
    <2>4. SeenStands(e, s)'
      BY <2>3, TeamSeen
    <2>5. QED
      BY <2>2, <2>3, <2>4
  <1>3. \A x \in r.leadChanges : x[2] \in onDuty'
    BY PartsInScope DEF PartsStand
  <1>4. \A x \in r.memberAdds : x[2] \in onDuty' /\ (Teams!IsMember(x[2], x[1])' =>
          x \in r.memberEnds)
    <2>1. TAKE x \in r.memberAdds
    <2>2. PICK o \in Objects, e \in Engineers : o = x[1] /\ e = x[2]
      BY PartsInScope
    <2>3. Teams!IsMember(e, o)' <=> Teams!IsMember(e, o)
      BY <2>2, PartsInScope DEF SameMembers
    <2>4. x[2] \in onDuty'
      BY PartsInScope DEF PartsStand
    <2>5. QED
      BY <2>2, <2>3, <2>4 DEF PartsStand
  <1>5. QED
    BY <1>1, <1>2, <1>3, <1>4 DEF PartsStand

LEMMA StillStands ==
  ASSUME Teams!TeamAssumption, TeamRows, NEW d, AssignmentIsKnown(d), Untouched(d)
  PROVE  AssignmentStands(d) => AssignmentStands(d)'
  <1>1. SUFFICES ASSUME AssignmentStands(d) PROVE AssignmentStands(d)'
    OBVIOUS
  <1>2. ASSUME d.kind = "org"
        PROVE  d.member \in onDuty' /\ d.manager \in onDuty' /\ SeenStands(d.member, d.seen)'
    <2>1. d.member \in Engineers /\ d.member \in Teams!TeamScope(d).users
          /\ d.manager \in Teams!TeamScope(d).users
      BY <1>2, ScopeOfKind DEF AssignmentIsKnown
    <2>2. SameTeam(d.member) /\ SeenStands(d.member, d.seen)
      BY <1>1, <1>2, <2>1 DEF Untouched, AssignmentStands
    <2>3. QED
      BY <1>1, <1>2, <2>1, <2>2, TeamSeen DEF Untouched, AssignmentStands
  <1>3. ASSUME d.kind = "orgEnd"
        PROVE  SeenStands(d.member, d.seen)'
    <2>1. d.member \in Engineers /\ d.member \in Teams!TeamScope(d).users
      BY <1>3, ScopeOfKind DEF AssignmentIsKnown
    <2>2. SameTeam(d.member) /\ SeenStands(d.member, d.seen)
      BY <1>1, <1>3, <2>1 DEF Untouched, AssignmentStands
    <2>3. QED
      BY <2>2, TeamSeen
  <1>4. ASSUME d.kind = "lead" PROVE d.lead \in onDuty'
    BY <1>1, <1>4, ScopeOfKind DEF Untouched, AssignmentStands
  <1>5. ASSUME d.kind = "redistribute" PROVE PartsStand(d.parts, d.seen)'
    <2>1. d.parts \in Redistributions /\ PartsStand(d.parts, d.seen)
      BY <1>1, <1>5 DEF AssignmentIsKnown, AssignmentStands
    <2>2. Teams!TeamScope(d).users = Teams!UsersOf(d.parts) /\ Teams!TeamScope(d).objects =
            Teams!ObjectsOf(d.parts)
      BY <1>5, ScopeOfKind
    <2>3. QED
      BY <2>1, <2>2, PartsStillStand DEF Untouched
  <1>6. ASSUME d.kind = "add" PROVE Teams!AddAllowed(d)'
    <2>1. Teams!AddAllowed(d)
      BY <1>1, <1>6 DEF AssignmentStands
    <2>2. PICK o \in Objects, e \in Engineers, h \in Heads \cup {Admin} :
            o = d.object /\ e = d.member /\ h = d.actor
      BY <1>6 DEF AssignmentIsKnown
    <2>3. Teams!TeamScope(d).users = {e, h} \ {Admin} /\ Teams!TeamScope(d).objects = {o}
          /\ e # Admin
      <3>1. Admin \notin Teams!Users
        BY DEF Teams!TeamAssumption
      <3>2. QED
        BY <1>6, <2>2, <3>1, ScopeOfKind DEF Teams!Users
    <2>4. SameTeam(e) /\ SameLead(o) /\ (Teams!IsMember(e, o)' <=> Teams!IsMember(e, o))
          /\ (e \in onDuty => e \in onDuty')
      BY <2>3 DEF Untouched, SameMembers
    <2>5. Teams!IsLead(h, o) => Teams!IsLead(h, o)'
      BY <2>4, LeadSeen
    <2>6. Teams!InTeamOf(h, e) => Teams!InTeamOf(h, e)'
      BY <2>4, TeamSeen
    <2>7. QED
      BY <2>1, <2>2, <2>4, <2>5, <2>6 DEF Teams!AddAllowed, Teams!ActsAsLead
  <1>7. ASSUME d.kind = "handoff"
        PROVE  d.member \in onDuty' /\ (Teams!Keeps(d)' \/ responsible'[d.object] = None)
    <2>1. d.member \in onDuty /\ (Teams!Keeps(d) \/ responsible[d.object] = None)
      BY <1>1, <1>7 DEF AssignmentStands
    <2>2. PICK o \in Objects, e \in Engineers : o = d.object /\ e = d.member
      BY <1>7 DEF AssignmentIsKnown
    <2>3. e \in Teams!TeamScope(d).users /\ <<"work", o>> \in Teams!RowsOf(d)
      <3>1. Admin \notin Teams!Users
        BY DEF Teams!TeamAssumption
      <3>2. QED
        BY <1>7, <2>2, <3>1, ScopeOfKind DEF Teams!Users
    <2>4. e \in onDuty' /\ SameHandoffs(o) /\ responsible'[o] \in {responsible[o], None}
      BY <2>1, <2>2, <2>3 DEF Untouched
    <2>5. Teams!Keeps(d) => Teams!Keeps(d)'
      BY <2>2, <2>4 DEF Teams!Keeps, SameHandoffs
    <2>6. QED
      BY <2>1, <2>2, <2>4, <2>5
  <1>8. ASSUME d.kind = "package" PROVE Teams!HandoffOf(d.object)' # {}
    <2>1. Teams!HandoffOf(d.object) # {}
      BY <1>1, <1>8 DEF AssignmentStands
    <2>2. PICK o \in Objects : o = d.object
      BY <1>8 DEF AssignmentIsKnown
    <2>3. <<"work", o>> \in Teams!RowsOf(d)
      BY <1>8, <2>2, ScopeOfKind
    <2>4. SameHandoffs(o)
      BY <2>3 DEF Untouched
    <2>5. QED
      BY <2>1, <2>2, <2>4 DEF SameHandoffs
  <1>9. ASSUME d.kind = "complete" PROVE handovers'[d.handover].status = "OPEN"
    <2>1. d.handover \in DOMAIN handovers /\ <<"handover", d.handover>> \in Teams!RowsOf(d)
      BY <1>9, ScopeOfKind DEF AssignmentIsKnown
    <2>2. QED
      BY <1>1, <1>9, <2>1 DEF Untouched, AssignmentStands
  <1>10. QED
    BY <1>2, <1>3, <1>4, <1>5, <1>6, <1>7, <1>8, <1>9 DEF AssignmentStands

LEMMA StillKnown ==
  ASSUME NEW d, AssignmentIsKnown(d), DOMAIN handovers \subseteq DOMAIN handovers'
  PROVE  AssignmentIsKnown(d)'
  BY DEF AssignmentIsKnown

LEMMA AssignmentCommits ==
  ASSUME TeamsInv, NEW t \in Attempts, NEW kind, Teams!Committing(t, kind)
  PROVE  \E c : /\ c = Teams!Cmd(t) /\ c.kind = kind /\ Deciding(t)
                /\ AssignmentIsKnown(c) /\ AssignmentStands(c)
                /\ managers' = [managers EXCEPT ![t] = Teams!Idle] /\ onDuty' = onDuty
                /\ assigned' = assigned
  <1>1. /\ ManagersHold /\ Deciding(t) /\ Teams!Cmd(t).kind = kind
        /\ managers' = [managers EXCEPT ![t] = Teams!Idle] /\ onDuty' = onDuty /\ assigned' =
             assigned
    BY DEF TeamsInv, Teams!Committing, Deciding
  <1>2. managers[t].phase = "checked" /\ managers[t] # [phase |-> "idle"]
    BY <1>1 DEF Deciding, Teams!In
  <1>3. AssignmentIsKnown(Teams!Cmd(t)) /\ AssignmentStands(Teams!Cmd(t))
    BY <1>1, <1>2 DEF ManagersHold
  <1>4. QED
    BY <1>1, <1>3

LEMMA StillApart ==
  ASSUME NEW u, NEW w, NEW a, NEW b, ScopesApart(a, b), Teams!Cmd(u)' = a, Teams!Cmd(w)' = b
  PROVE  ScopesApart(Teams!Cmd(u), Teams!Cmd(w))'
  BY DEF ScopesApart

(* A command that ends leaves the others theirs.                           *)
LEMMA ManagersAfter ==
  ASSUME Teams!TeamAssumption, TeamRows, ManagersHold, DOMAIN managers' = Attempts,
         DOMAIN handovers \subseteq DOMAIN handovers',
         \A u \in Attempts :
           \/ managers'[u] = [phase |-> "idle"]
           \/ managers'[u] = managers[u] /\ (Deciding(u) => Untouched(Teams!Cmd(u)))
  PROVE  ManagersHold'
  <1>1. ASSUME NEW u \in Attempts, managers'[u] # [phase |-> "idle"]
        PROVE  /\ managers'[u] = managers[u] /\ Teams!Cmd(u)' = Teams!Cmd(u)
               /\ Deciding(u)' <=> Deciding(u)
               /\ Deciding(u) => Untouched(Teams!Cmd(u))
    <2>1. managers'[u] = managers[u] /\ (Deciding(u) => Untouched(Teams!Cmd(u)))
      BY <1>1
    <2>2. QED
      BY <2>1 DEF Teams!Cmd, Deciding, Teams!In
  <1>2. ASSUME NEW u \in Attempts, Deciding(u)'
        PROVE  managers'[u] # [phase |-> "idle"]
    BY <1>2 DEF Deciding, Teams!In
  <1>3. ASSUME NEW u \in Attempts
        PROVE  \/ managers'[u] = [phase |-> "idle"]
               \/ /\ managers'[u] = [phase |-> managers'[u].phase, cmd |-> Teams!Cmd(u)']
                  /\ managers'[u].phase \in {"begun", "checked"}
                  /\ AssignmentIsKnown(Teams!Cmd(u))'
    <2>1. SUFFICES ASSUME managers'[u] # [phase |-> "idle"]
                   PROVE  /\ managers'[u] = [phase |-> managers'[u].phase, cmd |-> Teams!Cmd(u)']
                          /\ managers'[u].phase \in {"begun", "checked"}
                          /\ AssignmentIsKnown(Teams!Cmd(u))'
      OBVIOUS
    <2>2. PICK d : d = Teams!Cmd(u)
      OBVIOUS
    <2>3. Teams!Cmd(u)' = d /\ managers'[u] = managers[u]
      BY <1>1, <2>1, <2>2
    <2>4. /\ managers[u] = [phase |-> managers[u].phase, cmd |-> d]
          /\ managers[u].phase \in {"begun", "checked"} /\ AssignmentIsKnown(d)
      BY <2>1, <2>2, <2>3 DEF ManagersHold
    <2>5. AssignmentIsKnown(d)'
      BY <2>4, StillKnown
    <2>6. AssignmentIsKnown(Teams!Cmd(u))'
      BY <2>3, <2>5 DEF AssignmentIsKnown
    <2>7. QED
      BY <2>3, <2>4, <2>6
  <1>4. ASSUME NEW u \in Attempts, Deciding(u)'
        PROVE  AssignmentStands(Teams!Cmd(u))'
    <2>1. PICK d : d = Teams!Cmd(u)
      OBVIOUS
    <2>2. Deciding(u) /\ Teams!Cmd(u)' = d /\ Untouched(d) /\ managers[u] # [phase |-> "idle"]
      BY <1>1, <1>2, <1>4, <2>1
    <2>3. AssignmentIsKnown(d) /\ AssignmentStands(d)
      BY <2>1, <2>2 DEF ManagersHold
    <2>4. AssignmentStands(d)'
      BY <2>2, <2>3, StillStands
    <2>5. QED
      BY <2>2, <2>4 DEF AssignmentStands
  <1>5. ASSUME NEW u \in Attempts, NEW w \in Attempts, u # w, Deciding(u)', Deciding(w)'
        PROVE  ScopesApart(Teams!Cmd(u), Teams!Cmd(w))'
    <2>1. Deciding(u) /\ Deciding(w) /\ Teams!Cmd(u)' = Teams!Cmd(u) /\ Teams!Cmd(w)' = Teams!Cmd(w)
      BY <1>1, <1>2, <1>5
    <2>2. ScopesApart(Teams!Cmd(u), Teams!Cmd(w))
      BY <1>5, <2>1 DEF ManagersHold
    <2>3. PICK c, d : c = Teams!Cmd(u) /\ d = Teams!Cmd(w) /\ ScopesApart(c, d)
      BY <2>2
    <2>4. Teams!Cmd(u)' = c /\ Teams!Cmd(w)' = d
      BY <2>1, <2>3
    <2>5. QED
      BY <2>3, <2>4, StillApart
  <1>6. QED
    BY <1>3, <1>4, <1>5 DEF ManagersHold

-----------------------------------------------------------------------------
(* Teams: a commit, table by table                                         *)

TeamsMoved(c) ==
  /\ org' \in Seq(Teams!OrgRow) /\ OneTeam' /\ Teams!TransfersAreInformed
  /\ \A e \in Engineers : e \notin Teams!TeamScope(c).users => SameTeam(e)
  /\ \A i \in DOMAIN org' : i \notin DOMAIN org => org'[i].member \in onDuty
     /\ org'[i].manager \in onDuty
LeadsMoved(c) ==
  /\ leads' \in Seq(Teams!LeadRow) /\ OneLead' /\ EndedLeadsAreFollowed'
     /\ Teams!ReplacedLeadsHandOver'
  /\ \A o \in Objects : o \notin Teams!TeamScope(c).objects => SameLead(o)
  /\ \A i \in DOMAIN leads' : i \notin DOMAIN leads => leads'[i].lead \in onDuty
  /\ handovers' \in Seq(Teams!Handover) /\ Teams!HandoversFinishOnce
  /\ \A i \in DOMAIN handovers :
       i \in DOMAIN handovers' /\ (<<"handover", i>> \notin Teams!RowsOf(c) => handovers'[i] =
         handovers[i])
MembersMoved(c) ==
  /\ members' \in Seq(Teams!MemberRow) /\ OncePerObject' /\ Teams!TeamGrowsByItsLead
  /\ \A o \in Objects : o \notin Teams!TeamScope(c).objects => SameMembers(o)
  /\ \A i \in DOMAIN members' : i \notin DOMAIN members => members'[i].member \in onDuty
WorkMoved(c) ==
  /\ handoffs' \in Seq(Teams!Handoff) /\ responsible' \in [Objects -> Engineers \cup {None}]
  /\ Teams!PackageKeepsItsEngineer'
  /\ \A o \in Objects : <<"work", o>> \notin Teams!RowsOf(c) =>
       SameHandoffs(o) /\ responsible'[o] \in {responsible[o], None}
  /\ \A i \in DOMAIN handoffs' : i \notin DOMAIN handoffs => handoffs'[i].assignee \in onDuty

TeamsMoveSoundly ==
  Teams!TeamGrowsByItsLead /\ Teams!NewAssigneesAreActive /\ Teams!TransfersAreInformed
  /\ Teams!HandoversFinishOnce

LEMMA AssignmentKeeps ==
  ASSUME Teams!TeamAssumption, TeamsInv, NEW t \in Attempts, NEW c, c = Teams!Cmd(t), Deciding(t),
         managers' = [managers EXCEPT ![t] = Teams!Idle], onDuty' = onDuty, assigned' = assigned,
         TeamsMoved(c), LeadsMoved(c), MembersMoved(c), WorkMoved(c)
  PROVE  TeamsInv' /\ TeamsMoveSoundly
  <1>1. TeamRows /\ ManagersHold
    BY DEF TeamsInv, TeamsStand
  <1>2. Within(c)
    BY DEF Within, TeamsMoved, LeadsMoved, MembersMoved, WorkMoved
  <1>3. \A u \in Attempts : u # t /\ Deciding(u) => Untouched(Teams!Cmd(u))
    <2>1. TAKE u \in Attempts
    <2>2. HAVE u # t /\ Deciding(u)
    <2>3. PICK d : d = Teams!Cmd(u)
      OBVIOUS
    <2>4. ScopesApart(c, d)
      BY <1>1, <2>2, <2>3 DEF ManagersHold
    <2>5. Untouched(d)
      BY <1>2, <2>4, ScopesKeepApart
    <2>6. QED
      BY <2>3, <2>5
  <1>4. DOMAIN handovers \subseteq DOMAIN handovers'
    BY DEF LeadsMoved
  <1>5. ManagersHold'
    <2>1. DOMAIN managers' = Attempts /\ managers'[t] = [phase |-> "idle"]
          /\ \A u \in Attempts : u # t => managers'[u] = managers[u]
      BY <1>1 DEF ManagersHold, Teams!Idle
    <2>2. QED
      BY <1>1, <1>3, <1>4, <2>1, ManagersAfter
  <1>6. TeamRows'
    BY <1>1 DEF TeamRows, TeamsMoved, LeadsMoved, MembersMoved, WorkMoved
  <1>7. TeamsStand'
    BY <1>6 DEF TeamsStand, TeamsMoved, LeadsMoved, MembersMoved, WorkMoved
  <1>8. Teams!NewAssigneesAreActive
    BY DEF Teams!NewAssigneesAreActive, TeamsMoved, LeadsMoved, MembersMoved, WorkMoved
  <1>9. QED
    BY <1>5, <1>7, <1>8 DEF TeamsInv, TeamsMoveSoundly, TeamsMoved, LeadsMoved, MembersMoved

LEMMA TeamsStay ==
  ASSUME TeamRows, OneTeam, org' = org, NEW c
  PROVE  TeamsMoved(c)
  <1>1. OneTeam' /\ Teams!TransfersAreInformed
    BY DEF OneTeam, Teams!TransfersAreInformed, Teams!Current
  <1>2. \A e \in Engineers : SameTeam(e)
    BY DEF SameTeam, Teams!OrgOf, Teams!Current
  <1>3. QED
    BY <1>1, <1>2 DEF TeamRows, TeamsMoved

LEMMA LeadsStay ==
  ASSUME TeamsStand, leads' = leads, handovers' = handovers, NEW c
  PROVE  LeadsMoved(c)
  <1>1. OneLead' /\ EndedLeadsAreFollowed' /\ Teams!ReplacedLeadsHandOver'
        /\ Teams!HandoversFinishOnce
    BY DEF TeamsStand, OneLead, EndedLeadsAreFollowed, Teams!ReplacedLeadsHandOver,
       Teams!HandoversFinishOnce, Teams!Current
  <1>2. \A o \in Objects : SameLead(o)
    BY DEF SameLead, Teams!LeadOf, Teams!Current
  <1>3. QED
    BY <1>1, <1>2 DEF TeamsStand, TeamRows, LeadsMoved

LEMMA MembersStay ==
  ASSUME TeamRows, OncePerObject, members' = members, NEW c
  PROVE  MembersMoved(c)
  <1>1. OncePerObject' /\ Teams!TeamGrowsByItsLead
    BY DEF OncePerObject, Teams!TeamGrowsByItsLead, Teams!Current
  <1>2. \A o \in Objects : SameMembers(o)
    BY DEF SameMembers, Teams!IsMember, Teams!Current
  <1>3. QED
    BY <1>1, <1>2 DEF TeamRows, MembersMoved

LEMMA WorkStays ==
  ASSUME TeamRows, Teams!PackageKeepsItsEngineer, handoffs' = handoffs, responsible' = responsible,
           NEW c
  PROVE  WorkMoved(c)
  <1>1. Teams!PackageKeepsItsEngineer'
    BY DEF Teams!PackageKeepsItsEngineer, Teams!HandoffOf, Teams!Current
  <1>2. \A o \in Objects : SameHandoffs(o)
    BY DEF SameHandoffs, Teams!HandoffOf, Teams!Current
  <1>3. QED
    BY <1>1, <1>2 DEF TeamRows, WorkMoved

(* Who leaves a team leaves the one the sender has seen.                   *)
LEMMA TeamsPass ==
  ASSUME TeamRows, OneTeam, NEW t \in Attempts, NEW c, c = Teams!Cmd(t), Deciding(t),
           managers'[t] = Teams!Idle,
         NEW ends \in SUBSET Engineers,
         NEW transfers \in SUBSET (Engineers \X Heads), IsFiniteSet(transfers),
         \A x, y \in transfers : x[1] = y[1] => x = y,
         org' = Teams!OrgAfter(ends, transfers),
         \A e \in ends : e \in Teams!TeamScope(c).users /\ SeenStands(e, c.seen),
         \A x \in transfers :
           /\ x[1] \in Teams!TeamScope(c).users /\ SeenStands(x[1], c.seen)
           /\ x[1] \in onDuty /\ x[2] \in onDuty
  PROVE  TeamsMoved(c)
  <1>1. org' \in Seq(Teams!OrgRow) /\ OneTeam' /\ OrgWritten(ends, transfers)
    BY OrgMoves
  <1>2. Teams!TransfersAreInformed
    <2>1. SUFFICES ASSUME NEW i \in Teams!Current(org), i \in DOMAIN org', org'[i].ended
                   PROVE  c.seen = i
      BY DEF Teams!TransfersAreInformed, Deciding
    <2>2. PICK e : e = org[i].member
      OBVIOUS
    <2>3. i \in Teams!OrgOf(e) /\ (e \in ends \/ \E x \in transfers : x[1] = e)
      BY <1>1, <2>1, <2>2 DEF OrgWritten
    <2>4. SeenStands(e, c.seen)
      BY <2>3
    <2>5. \A j \in Teams!OrgOf(e) : j = i
      BY <2>3 DEF OneTeam, Teams!OrgOf
    <2>6. Teams!IdOf(Teams!OrgOf(e)) = i
      BY <2>3, <2>5 DEF Teams!IdOf
    <2>7. QED
      BY <2>4, <2>6 DEF SeenStands
  <1>3. ASSUME NEW e \in Engineers, e \notin Teams!TeamScope(c).users PROVE SameTeam(e)
    BY <1>1, <1>3 DEF OrgWritten
  <1>4. \A i \in DOMAIN org' : i \notin DOMAIN org =>
          org'[i].member \in onDuty /\ org'[i].manager \in onDuty
    BY <1>1 DEF OrgWritten
  <1>5. QED
    BY <1>1, <1>2, <1>3, <1>4 DEF TeamsMoved

LEMMA LeadsPass ==
  ASSUME TeamsStand, NEW c,
         NEW wanted \in SUBSET (Objects \X Teams!Users \X Teams!Users), IsFiniteSet(wanted),
         NEW changes \in SUBSET (Objects \X Heads), IsFiniteSet(changes),
         \A x, y \in changes : x[1] = y[1] => x = y,
         leads' = Teams!LeadsAfter(changes), handovers' = Teams!HandoversAfter(wanted, changes),
         \A x \in changes : x[1] \in Teams!TeamScope(c).objects /\ x[2] \in onDuty
  PROVE  LeadsMoved(c)
  <1>1. leads' \in Seq(Teams!LeadRow) /\ OneLead' /\ EndedLeadsAreFollowed' /\ LeadsWritten(changes)
    BY LeadsMove DEF TeamsStand
  <1>2. handovers' \in Seq(Teams!Handover) /\ HandoversWritten(changes)
    BY HandoversMove DEF TeamsStand
  <1>3. Teams!ReplacedLeadsHandOver'
    BY <1>1, <1>2, LeadsHandOver DEF TeamsStand
  <1>4. Teams!HandoversFinishOnce
    BY <1>2 DEF HandoversWritten, Teams!HandoversFinishOnce
  <1>5. \A o \in Objects : o \notin Teams!TeamScope(c).objects => SameLead(o)
    BY <1>1 DEF LeadsWritten
  <1>6. \A i \in DOMAIN leads' : i \notin DOMAIN leads => leads'[i].lead \in onDuty
    BY <1>1 DEF LeadsWritten
  <1>7. \A i \in DOMAIN handovers : i \in DOMAIN handovers' /\ handovers'[i] = handovers[i]
    BY <1>2 DEF HandoversWritten
  <1>8. QED
    BY <1>1, <1>2, <1>3, <1>4, <1>5, <1>6, <1>7 DEF LeadsMoved

LEMMA MembersPass ==
  ASSUME TeamRows, OncePerObject, NEW c,
         NEW ends \in SUBSET (Objects \X Engineers), NEW adds \in SUBSET (Objects \X Engineers),
         IsFiniteSet(adds), NEW by \in Heads \cup {Admin},
         members' = Teams!MembersAfter(ends, adds, by),
         \A x \in ends \cup adds : x[1] \in Teams!TeamScope(c).objects,
         \A x \in adds : x[2] \in onDuty /\ (Teams!IsMember(x[2], x[1]) => x \in ends),
         by # Admin => \A x \in adds : Teams!IsLead(by, x[1]) /\ Teams!InTeamOf(by, x[2])
  PROVE  MembersMoved(c)
  <1>1. members' \in Seq(Teams!MemberRow) /\ OncePerObject' /\ MembersWritten(ends, adds, by)
    BY MembersMove
  <1>2. Teams!TeamGrowsByItsLead
    <2>1. SUFFICES ASSUME NEW i \in DOMAIN members', i \notin DOMAIN members,
                          members'[i].by # Admin
                   PROVE  /\ Teams!IsLead(members'[i].by, members'[i].object)
                          /\ Teams!InTeamOf(members'[i].by, members'[i].member)
      BY DEF Teams!TeamGrowsByItsLead
    <2>2. PICK x \in adds :
            members'[i].object = x[1] /\ members'[i].member = x[2] /\ members'[i].by = by
      BY <1>1, <2>1 DEF MembersWritten
    <2>3. QED
      BY <2>1, <2>2
  <1>3. \A o \in Objects : o \notin Teams!TeamScope(c).objects => SameMembers(o)
    BY <1>1 DEF MembersWritten
  <1>4. \A i \in DOMAIN members' : i \notin DOMAIN members => members'[i].member \in onDuty
    BY <1>1 DEF MembersWritten
  <1>5. QED
    BY <1>1, <1>2, <1>3, <1>4 DEF MembersMoved

-----------------------------------------------------------------------------
(* Teams: every command keeps the invariant                                *)

LEMMA TeamFacts ==
  ASSUME TeamsInv
  PROVE  /\ TeamsStand /\ TeamRows /\ OneTeam /\ OncePerObject /\ Teams!PackageKeepsItsEngineer
         /\ ManagersHold
  BY DEF TeamsInv, TeamsStand

LEMMA OneFinite ==
  ASSUME NEW x
  PROVE  IsFiniteSet({x}) /\ IsFiniteSet({})
  BY FS_Singleton, FS_EmptySet

LEMMA AssignOrgMemberKeeps ==
  ASSUME Teams!TeamAssumption, TeamsInv, NEW t \in Attempts, Teams!AssignOrgMember(t)
  PROVE  TeamsInv' /\ TeamsMoveSoundly
  <1>1. PICK c : /\ c = Teams!Cmd(t) /\ c.kind = "org" /\ Deciding(t)
                 /\ AssignmentIsKnown(c) /\ AssignmentStands(c)
                 /\ managers' = [managers EXCEPT ![t] = Teams!Idle] /\ onDuty' = onDuty
                 /\ assigned' = assigned
    BY AssignmentCommits DEF Teams!AssignOrgMember
  <1>2. PICK e \in Engineers, h \in Heads : e = c.member /\ h = c.manager
    BY <1>1 DEF AssignmentIsKnown
  <1>3. e \in onDuty /\ h \in onDuty /\ SeenStands(e, c.seen) /\ e \in Teams!TeamScope(c).users
    BY <1>1, <1>2, ScopeOfKind DEF AssignmentStands
  <1>4. /\ org' = Teams!OrgAfter({}, {<<e, h>>}) /\ leads' = leads /\ members' = members
        /\ handovers' = handovers /\ handoffs' = handoffs /\ responsible' = responsible
    BY <1>1, <1>2 DEF Teams!AssignOrgMember
  <1>5. TeamsMoved(c)
    <2>1. PICK transfers : transfers = {<<e, h>>}
      OBVIOUS
    <2>2. transfers \in SUBSET (Engineers \X Heads) /\ IsFiniteSet(transfers)
          /\ \A x, y \in transfers : x[1] = y[1] => x = y
      BY <2>1, OneFinite
    <2>3. \A x \in transfers : x[1] \in Teams!TeamScope(c).users /\ SeenStands(x[1], c.seen)
                                 /\ x[1] \in onDuty /\ x[2] \in onDuty
      BY <1>3, <2>1
    <2>4. managers'[t] = Teams!Idle
      BY <1>1, TeamFacts DEF ManagersHold
    <2>5. PICK ends \in SUBSET Engineers : ends = {}
      OBVIOUS
    <2>6. QED
      BY <1>1, <1>4, <2>1, <2>2, <2>3, <2>4, <2>5, TeamFacts, TeamsPass
  <1>6. LeadsMoved(c) /\ MembersMoved(c) /\ WorkMoved(c)
    BY <1>4, TeamFacts, LeadsStay, MembersStay, WorkStays
  <1>7. QED
    BY <1>1, <1>5, <1>6, AssignmentKeeps

LEMMA EndOrgMemberKeeps ==
  ASSUME Teams!TeamAssumption, TeamsInv, NEW t \in Attempts, Teams!EndOrgMember(t)
  PROVE  TeamsInv' /\ TeamsMoveSoundly
  <1>1. PICK c : /\ c = Teams!Cmd(t) /\ c.kind = "orgEnd" /\ Deciding(t)
                 /\ AssignmentIsKnown(c) /\ AssignmentStands(c)
                 /\ managers' = [managers EXCEPT ![t] = Teams!Idle] /\ onDuty' = onDuty
                 /\ assigned' = assigned
    BY AssignmentCommits DEF Teams!EndOrgMember
  <1>2. PICK e \in Engineers : e = c.member
    BY <1>1 DEF AssignmentIsKnown
  <1>3. SeenStands(e, c.seen) /\ e \in Teams!TeamScope(c).users
    BY <1>1, <1>2, ScopeOfKind DEF AssignmentStands
  <1>4. /\ org' = Teams!OrgAfter({e}, {}) /\ leads' = leads /\ members' = members
        /\ handovers' = handovers /\ handoffs' = handoffs /\ responsible' = responsible
    BY <1>1, <1>2 DEF Teams!EndOrgMember
  <1>5. TeamsMoved(c)
    <2>1. PICK ends \in SUBSET Engineers : ends = {e}
      OBVIOUS
    <2>2. PICK transfers \in SUBSET (Engineers \X Heads) : transfers = {}
      OBVIOUS
    <2>3. IsFiniteSet(transfers)
      BY <2>2, OneFinite
    <2>4. managers'[t] = Teams!Idle
      BY <1>1, TeamFacts DEF ManagersHold
    <2>5. QED
      BY <1>1, <1>3, <1>4, <2>1, <2>2, <2>3, <2>4, TeamFacts, TeamsPass
  <1>6. LeadsMoved(c) /\ MembersMoved(c) /\ WorkMoved(c)
    BY <1>4, TeamFacts, LeadsStay, MembersStay, WorkStays
  <1>7. QED
    BY <1>1, <1>5, <1>6, AssignmentKeeps

LEMMA AssignObjectLeadKeeps ==
  ASSUME Teams!TeamAssumption, TeamsInv, NEW t \in Attempts, Teams!AssignObjectLead(t)
  PROVE  TeamsInv' /\ TeamsMoveSoundly
  <1>1. PICK c : /\ c = Teams!Cmd(t) /\ c.kind = "lead" /\ Deciding(t)
                 /\ AssignmentIsKnown(c) /\ AssignmentStands(c)
                 /\ managers' = [managers EXCEPT ![t] = Teams!Idle] /\ onDuty' = onDuty
                 /\ assigned' = assigned
    BY AssignmentCommits DEF Teams!AssignObjectLead
  <1>2. PICK o \in Objects, h \in Heads : o = c.object /\ h = c.lead
    BY <1>1 DEF AssignmentIsKnown
  <1>3. h \in onDuty /\ o \in Teams!TeamScope(c).objects
    BY <1>1, <1>2, ScopeOfKind DEF AssignmentStands
  <1>4. /\ leads' = Teams!LeadsAfter({<<o, h>>}) /\ handovers' =
             Teams!HandoversAfter({}, {<<o, h>>})
        /\ org' = org /\ members' = members /\ handoffs' = handoffs /\ responsible' = responsible
    BY <1>1, <1>2 DEF Teams!AssignObjectLead
  <1>5. LeadsMoved(c)
    <2>1. PICK changes : changes = {<<o, h>>}
      OBVIOUS
    <2>2. changes \in SUBSET (Objects \X Heads) /\ IsFiniteSet(changes)
          /\ \A x, y \in changes : x[1] = y[1] => x = y
      BY <2>1, OneFinite
    <2>3. \A x \in changes : x[1] \in Teams!TeamScope(c).objects /\ x[2] \in onDuty
      BY <1>3, <2>1
    <2>4. PICK wanted \in SUBSET (Objects \X Teams!Users \X Teams!Users) : wanted = {}
      OBVIOUS
    <2>5. IsFiniteSet(wanted)
      BY <2>4, OneFinite
    <2>6. QED
      BY <1>4, <2>1, <2>2, <2>3, <2>4, <2>5, TeamFacts, LeadsPass
  <1>6. TeamsMoved(c) /\ MembersMoved(c) /\ WorkMoved(c)
    BY <1>4, TeamFacts, TeamsStay, MembersStay, WorkStays
  <1>7. QED
    BY <1>1, <1>5, <1>6, AssignmentKeeps

LEMMA RedistributeKeeps ==
  ASSUME Teams!TeamAssumption, TeamsInv, NEW t \in Attempts, Teams!Redistribute(t)
  PROVE  TeamsInv' /\ TeamsMoveSoundly
  <1>1. PICK c : /\ c = Teams!Cmd(t) /\ c.kind = "redistribute" /\ Deciding(t)
                 /\ AssignmentIsKnown(c) /\ AssignmentStands(c)
                 /\ managers' = [managers EXCEPT ![t] = Teams!Idle] /\ onDuty' = onDuty
                 /\ assigned' = assigned
    BY AssignmentCommits DEF Teams!Redistribute
  <1>2. PICK r \in Redistributions : r = c.parts /\ PartsStand(r, c.seen)
    BY <1>1 DEF AssignmentIsKnown, AssignmentStands
  <1>3. /\ org' = Teams!OrgAfter(r.orgEnds, r.orgTransfers)
        /\ leads' = Teams!LeadsAfter(r.leadChanges)
        /\ members' = Teams!MembersAfter(r.memberEnds, r.memberAdds, Admin)
        /\ handovers' = Teams!HandoversAfter(r.handovers, r.leadChanges)
        /\ handoffs' = handoffs /\ responsible' = responsible
    BY <1>1, <1>2 DEF Teams!Redistribute
  <1>4. Teams!TeamScope(c).users = Teams!UsersOf(r) /\ Teams!TeamScope(c).objects =
          Teams!ObjectsOf(r)
    BY <1>1, <1>2, ScopeOfKind
  <1>5. /\ IsFiniteSet(r.orgTransfers) /\ IsFiniteSet(r.leadChanges)
        /\ IsFiniteSet(r.memberAdds) /\ IsFiniteSet(r.handovers)
    <2>1. DOMAIN r = {"orgEnds", "orgTransfers", "leadChanges", "memberEnds", "memberAdds",
                      "handovers"}
      BY DEF Teams!TeamAssumption, Teams!Redistribution
    <2>2. \A f \in DOMAIN r : Teams!IsFiniteSet(r[f])
      BY DEF Teams!TeamAssumption
    <2>3. \A S : Teams!IsFiniteSet(S) => IsFiniteSet(S)
      BY DEF IsFiniteSet, Teams!IsFiniteSet
    <2>4. QED
      BY <2>1, <2>2, <2>3
  <1>6. /\ \A x, y \in r.orgTransfers : x[1] = y[1] => x = y
        /\ \A x, y \in r.leadChanges : x[1] = y[1] => x = y
    BY DEF Teams!TeamAssumption
  <1>7. TeamsMoved(c)
    <2>1. managers'[t] = Teams!Idle
      BY <1>1, TeamFacts DEF ManagersHold
    <2>2. \A e \in r.orgEnds : e \in Teams!TeamScope(c).users /\ SeenStands(e, c.seen)
      BY <1>2, <1>4, PartsInScope DEF PartsStand
    <2>3. \A x \in r.orgTransfers :
            /\ x[1] \in Teams!TeamScope(c).users /\ SeenStands(x[1], c.seen)
            /\ x[1] \in onDuty /\ x[2] \in onDuty
      BY <1>2, <1>4, PartsInScope DEF PartsStand
    <2>4. PICK ends \in SUBSET Engineers : ends = r.orgEnds
      BY PartsInScope
    <2>5. PICK transfers \in SUBSET (Engineers \X Heads) : transfers = r.orgTransfers
      BY PartsInScope
    <2>6. QED
      BY <1>1, <1>3, <1>5, <1>6, <2>1, <2>2, <2>3, <2>4, <2>5, TeamFacts, TeamsPass
  <1>8. LeadsMoved(c)
    <2>1. \A x \in r.leadChanges : x[1] \in Teams!TeamScope(c).objects /\ x[2] \in onDuty
      BY <1>2, <1>4, PartsInScope DEF PartsStand
    <2>2. PICK changes \in SUBSET (Objects \X Heads) : changes = r.leadChanges
      BY PartsInScope
    <2>3. PICK wanted \in SUBSET (Objects \X Teams!Users \X Teams!Users) : wanted = r.handovers
      BY PartsInScope
    <2>4. QED
      BY <1>3, <1>5, <1>6, <2>1, <2>2, <2>3, TeamFacts, LeadsPass
  <1>9. MembersMoved(c)
    <2>1. PICK ends \in SUBSET (Objects \X Engineers) : ends = r.memberEnds
      BY PartsInScope
    <2>2. PICK adds \in SUBSET (Objects \X Engineers) : adds = r.memberAdds
      BY PartsInScope
    <2>3. \A x \in ends \cup adds : x[1] \in Teams!TeamScope(c).objects
      BY <1>4, <2>1, <2>2, PartsInScope
    <2>4. \A x \in adds : x[2] \in onDuty /\ (Teams!IsMember(x[2], x[1]) => x \in ends)
      BY <1>2, <2>1, <2>2 DEF PartsStand
    <2>5. PICK by \in Heads \cup {Admin} : by = Admin
      OBVIOUS
    <2>6. QED
      BY <1>3, <1>5, <2>1, <2>2, <2>3, <2>4, <2>5, TeamFacts, MembersPass
  <1>10. WorkMoved(c)
    BY <1>3, TeamFacts, WorkStays
  <1>11. QED
    BY <1>1, <1>7, <1>8, <1>9, <1>10, AssignmentKeeps

LEMMA AddObjectMemberKeeps ==
  ASSUME Teams!TeamAssumption, TeamsInv, NEW t \in Attempts, Teams!AddObjectMember(t)
  PROVE  TeamsInv' /\ TeamsMoveSoundly
  <1>1. PICK c : /\ c = Teams!Cmd(t) /\ c.kind = "add" /\ Deciding(t)
                 /\ AssignmentIsKnown(c) /\ AssignmentStands(c)
                 /\ managers' = [managers EXCEPT ![t] = Teams!Idle] /\ onDuty' = onDuty
                 /\ assigned' = assigned
    BY AssignmentCommits DEF Teams!AddObjectMember
  <1>2. PICK o \in Objects, e \in Engineers, h \in Heads \cup {Admin} :
          o = c.object /\ e = c.member /\ h = c.actor
    BY <1>1 DEF AssignmentIsKnown
  <1>3. /\ h = Admin \/ Teams!IsLead(h, o)
        /\ h # Admin => Teams!InTeamOf(h, e)
        /\ e \in onDuty /\ ~Teams!IsMember(e, o) /\ o \in Teams!TeamScope(c).objects
    BY <1>1, <1>2, ScopeOfKind DEF AssignmentStands, Teams!AddAllowed, Teams!ActsAsLead
  <1>4. /\ members' = Teams!MembersAfter({}, {<<o, e>>}, h)
        /\ org' = org /\ leads' = leads /\ handovers' = handovers
        /\ handoffs' = handoffs /\ responsible' = responsible
    BY <1>1, <1>2 DEF Teams!AddObjectMember
  <1>5. MembersMoved(c)
    <2>1. PICK adds : adds = {<<o, e>>}
      OBVIOUS
    <2>2. adds \in SUBSET (Objects \X Engineers) /\ IsFiniteSet(adds)
      <3>1. <<o, e>> \in Objects \X Engineers
        OBVIOUS
      <3>2. IsFiniteSet(adds)
        BY <2>1, OneFinite
      <3>3. QED
        BY <2>1, <3>1, <3>2
    <2>3. PICK ends \in SUBSET (Objects \X Engineers) : ends = {}
      OBVIOUS
    <2>4. /\ \A x \in ends \cup adds : x[1] \in Teams!TeamScope(c).objects
          /\ \A x \in adds : x[2] \in onDuty /\ (Teams!IsMember(x[2], x[1]) => x \in ends)
          /\ h # Admin => \A x \in adds : Teams!IsLead(h, x[1]) /\ Teams!InTeamOf(h, x[2])
      BY <1>3, <2>1, <2>3
    <2>5. QED
      BY <1>4, <2>1, <2>2, <2>3, <2>4, TeamFacts, MembersPass
  <1>6. TeamsMoved(c) /\ LeadsMoved(c) /\ WorkMoved(c)
    BY <1>4, TeamFacts, TeamsStay, LeadsStay, WorkStays
  <1>7. QED
    BY <1>1, <1>5, <1>6, AssignmentKeeps

LEMMA EndObjectMemberKeeps ==
  ASSUME Teams!TeamAssumption, TeamsInv, NEW t \in Attempts, Teams!EndObjectMember(t)
  PROVE  TeamsInv' /\ TeamsMoveSoundly
  <1>1. PICK c : /\ c = Teams!Cmd(t) /\ c.kind = "remove" /\ Deciding(t)
                 /\ AssignmentIsKnown(c) /\ AssignmentStands(c)
                 /\ managers' = [managers EXCEPT ![t] = Teams!Idle] /\ onDuty' = onDuty
                 /\ assigned' = assigned
    BY AssignmentCommits DEF Teams!EndObjectMember
  <1>2. PICK o \in Objects, e \in Engineers : o = c.object /\ e = c.member
    BY <1>1 DEF AssignmentIsKnown
  <1>3. o \in Teams!TeamScope(c).objects
    BY <1>1, <1>2, ScopeOfKind
  <1>4. /\ members' = Teams!MembersAfter({<<o, e>>}, {}, Admin)
        /\ org' = org /\ leads' = leads /\ handovers' = handovers
        /\ handoffs' = handoffs /\ responsible' = responsible
    BY <1>1, <1>2 DEF Teams!EndObjectMember
  <1>5. MembersMoved(c)
    <2>1. PICK ends \in SUBSET (Objects \X Engineers) : ends = {<<o, e>>}
      <3>1. <<o, e>> \in Objects \X Engineers
        OBVIOUS
      <3>2. QED
        BY <3>1
    <2>2. PICK adds \in SUBSET (Objects \X Engineers) : adds = {}
      OBVIOUS
    <2>3. IsFiniteSet(adds) /\ \A x \in ends \cup adds : x[1] \in Teams!TeamScope(c).objects
      <3>1. IsFiniteSet(adds)
        BY <2>2, OneFinite
      <3>2. \A x \in ends \cup adds : x[1] \in Teams!TeamScope(c).objects
        BY <1>3, <2>1, <2>2
      <3>3. QED
        BY <3>1, <3>2
    <2>4. PICK by \in Heads \cup {Admin} : by = Admin
      OBVIOUS
    <2>5. QED
      BY <1>4, <2>1, <2>2, <2>3, <2>4, TeamFacts, MembersPass
  <1>6. TeamsMoved(c) /\ LeadsMoved(c) /\ WorkMoved(c)
    BY <1>4, TeamFacts, TeamsStay, LeadsStay, WorkStays
  <1>7. QED
    BY <1>1, <1>5, <1>6, AssignmentKeeps

LEMMA AssignWorkKeeps ==
  ASSUME Teams!TeamAssumption, TeamsInv, NEW t \in Attempts, Teams!AssignWork(t)
  PROVE  TeamsInv' /\ TeamsMoveSoundly
  <1>1. PICK c : /\ c = Teams!Cmd(t) /\ c.kind = "handoff" /\ Deciding(t)
                 /\ AssignmentIsKnown(c) /\ AssignmentStands(c)
                 /\ managers' = [managers EXCEPT ![t] = Teams!Idle] /\ onDuty' = onDuty
                 /\ assigned' = assigned
    BY AssignmentCommits DEF Teams!AssignWork
  <1>2. PICK o \in Objects, e \in Engineers : o = c.object /\ e = c.member
    BY <1>1 DEF AssignmentIsKnown
  <1>3. e \in onDuty /\ (Teams!Keeps(c) \/ responsible[o] = None) /\ <<"work",
          o>> \in Teams!RowsOf(c)
    BY <1>1, <1>2, ScopeOfKind DEF AssignmentStands
  <1>4. /\ handoffs' = IF Teams!Keeps(c) THEN handoffs
                       ELSE Teams!Replaced(handoffs, Teams!HandoffOf(o),
                                     {[object |-> o, assignee |-> e, ended |-> FALSE]})
        /\ org' = org /\ leads' = leads /\ members' = members
        /\ handovers' = handovers /\ responsible' = responsible
    BY <1>1, <1>2 DEF Teams!AssignWork
  <1>5. WorkMoved(c)
    <2>1. CASE Teams!Keeps(c)
      BY <1>4, <2>1, TeamFacts, WorkStays
    <2>2. CASE ~Teams!Keeps(c)
      <3>1. handoffs' \in Seq(Teams!Handoff) /\ HandoffsWritten(o, e)
        BY <1>4, <2>2, TeamFacts, HandoffsMove
      <3>2. responsible[o] = None
        BY <1>3, <2>2
      <3>3. Teams!PackageKeepsItsEngineer'
        <4>1. SUFFICES ASSUME NEW q \in Objects, responsible'[q] # None
                       PROVE  \E i \in Teams!HandoffOf(q)' : handoffs'[i].assignee = responsible'[q]
          BY DEF Teams!PackageKeepsItsEngineer
        <4>2. q # o /\ responsible'[q] = responsible[q]
          BY <1>4, <3>2, <4>1
        <4>3. SameHandoffs(q)
          BY <3>1, <4>2 DEF HandoffsWritten
        <4>4. PICK i \in Teams!HandoffOf(q) : handoffs[i].assignee = responsible[q]
          BY <4>1, <4>2, TeamFacts DEF Teams!PackageKeepsItsEngineer
        <4>5. QED
          BY <4>2, <4>3, <4>4 DEF SameHandoffs
      <3>4. \A q \in Objects : <<"work", q>> \notin Teams!RowsOf(c) => SameHandoffs(q)
        BY <1>3, <3>1 DEF HandoffsWritten
      <3>5. \A i \in DOMAIN handoffs' : i \notin DOMAIN handoffs => handoffs'[i].assignee \in onDuty
        BY <1>3, <3>1 DEF HandoffsWritten
      <3>6. responsible' \in [Objects -> Engineers \cup {None}]
        BY <1>4, TeamFacts DEF TeamRows
      <3>7. QED
        BY <1>4, <3>1, <3>3, <3>4, <3>5, <3>6 DEF WorkMoved
    <2>3. QED
      BY <2>1, <2>2
  <1>6. TeamsMoved(c) /\ LeadsMoved(c) /\ MembersMoved(c)
    BY <1>4, TeamFacts, TeamsStay, LeadsStay, MembersStay
  <1>7. QED
    BY <1>1, <1>5, <1>6, AssignmentKeeps

LEMMA CreatePackageKeeps ==
  ASSUME Teams!TeamAssumption, TeamsInv, NEW t \in Attempts, Teams!CreatePackage(t)
  PROVE  TeamsInv' /\ TeamsMoveSoundly
  <1>1. PICK c : /\ c = Teams!Cmd(t) /\ c.kind = "package" /\ Deciding(t)
                 /\ AssignmentIsKnown(c) /\ AssignmentStands(c)
                 /\ managers' = [managers EXCEPT ![t] = Teams!Idle] /\ onDuty' = onDuty
                 /\ assigned' = assigned
    BY AssignmentCommits DEF Teams!CreatePackage
  <1>2. PICK o \in Objects : o = c.object
    BY <1>1 DEF AssignmentIsKnown
  <1>3. Teams!HandoffOf(o) # {} /\ <<"work", o>> \in Teams!RowsOf(c)
    BY <1>1, <1>2, ScopeOfKind DEF AssignmentStands
  <1>4. PICK i : i = Teams!IdOf(Teams!HandoffOf(o)) /\ i \in Teams!HandoffOf(o)
    BY <1>3 DEF Teams!IdOf
  <1>5. /\ responsible' = [responsible EXCEPT ![o] = handoffs[i].assignee]
        /\ org' = org /\ leads' = leads /\ members' = members
        /\ handovers' = handovers /\ handoffs' = handoffs
    BY <1>1, <1>2, <1>4 DEF Teams!CreatePackage
  <1>6. handoffs[i].assignee \in Engineers
    <2>1. i \in DOMAIN handoffs
      BY <1>4 DEF Teams!HandoffOf, Teams!Current
    <2>2. handoffs[i] \in Teams!Handoff
      BY <2>1, TeamFacts DEF TeamRows
    <2>3. QED
      BY <2>2 DEF Teams!Handoff
  <1>7. WorkMoved(c)
    <2>1. \A q \in Objects : Teams!HandoffOf(q)' = Teams!HandoffOf(q) /\ SameHandoffs(q)
      BY <1>5 DEF SameHandoffs, Teams!HandoffOf, Teams!Current
    <2>2. responsible \in [Objects -> Engineers \cup {None}] /\ handoffs \in Seq(Teams!Handoff)
      BY TeamFacts DEF TeamRows
    <2>3. responsible' \in [Objects -> Engineers \cup {None}]
      BY <1>5, <1>6, <2>2
    <2>4. responsible'[o] = handoffs[i].assignee /\ \A q \in Objects : q # o => responsible'[q] =
            responsible[q]
      BY <1>5, <2>2
    <2>5. Teams!PackageKeepsItsEngineer'
      <3>1. \A q \in Objects : responsible[q] # None =>
              \E k \in Teams!HandoffOf(q) : handoffs[k].assignee = responsible[q]
        BY TeamFacts DEF Teams!PackageKeepsItsEngineer
      <3>2. \A q \in Objects : responsible'[q] # None =>
              \E k \in Teams!HandoffOf(q) : handoffs[k].assignee = responsible'[q]
        BY <1>4, <2>4, <3>1
      <3>3. QED
        BY <1>5, <2>1, <3>2 DEF Teams!PackageKeepsItsEngineer
    <2>6. \A q \in Objects : <<"work", q>> \notin Teams!RowsOf(c) =>
            SameHandoffs(q) /\ responsible'[q] = responsible[q]
      BY <1>3, <2>1, <2>4
    <2>7. QED
      BY <1>5, <2>2, <2>3, <2>5, <2>6 DEF WorkMoved
  <1>8. TeamsMoved(c) /\ LeadsMoved(c) /\ MembersMoved(c)
    BY <1>5, TeamFacts, TeamsStay, LeadsStay, MembersStay
  <1>9. QED
    BY <1>1, <1>7, <1>8, AssignmentKeeps

LEMMA ArchivePackageKeeps ==
  ASSUME Teams!TeamAssumption, TeamsInv, NEW t \in Attempts, Teams!ArchivePackage(t)
  PROVE  TeamsInv' /\ TeamsMoveSoundly
  <1>1. PICK c : /\ c = Teams!Cmd(t) /\ c.kind = "archive" /\ Deciding(t)
                 /\ AssignmentIsKnown(c) /\ AssignmentStands(c)
                 /\ managers' = [managers EXCEPT ![t] = Teams!Idle] /\ onDuty' = onDuty
                 /\ assigned' = assigned
    BY AssignmentCommits DEF Teams!ArchivePackage
  <1>2. PICK o \in Objects : o = c.object
    BY <1>1 DEF AssignmentIsKnown
  <1>3. /\ responsible' = [responsible EXCEPT ![o] = None]
        /\ org' = org /\ leads' = leads /\ members' = members
        /\ handovers' = handovers /\ handoffs' = handoffs
    BY <1>1, <1>2 DEF Teams!ArchivePackage
  <1>4. WorkMoved(c)
    <2>1. \A q \in Objects : Teams!HandoffOf(q)' = Teams!HandoffOf(q) /\ SameHandoffs(q)
      BY <1>3 DEF SameHandoffs, Teams!HandoffOf, Teams!Current
    <2>2. responsible \in [Objects -> Engineers \cup {None}] /\ handoffs \in Seq(Teams!Handoff)
      BY TeamFacts DEF TeamRows
    <2>3. /\ responsible' \in [Objects -> Engineers \cup {None}]
          /\ \A q \in Objects : responsible'[q] \in {responsible[q], None}
      BY <1>3, <2>2
    <2>4. Teams!PackageKeepsItsEngineer'
      <3>1. \A q \in Objects : responsible[q] # None =>
              \E k \in Teams!HandoffOf(q) : handoffs[k].assignee = responsible[q]
        BY TeamFacts DEF Teams!PackageKeepsItsEngineer
      <3>2. \A q \in Objects : responsible'[q] # None =>
              \E k \in Teams!HandoffOf(q) : handoffs[k].assignee = responsible'[q]
        BY <2>3, <3>1
      <3>3. QED
        BY <1>3, <2>1, <3>2 DEF Teams!PackageKeepsItsEngineer
    <2>5. QED
      BY <1>3, <2>1, <2>2, <2>3, <2>4 DEF WorkMoved
  <1>5. TeamsMoved(c) /\ LeadsMoved(c) /\ MembersMoved(c)
    BY <1>3, TeamFacts, TeamsStay, LeadsStay, MembersStay
  <1>6. QED
    BY <1>1, <1>4, <1>5, AssignmentKeeps

LEMMA CompleteHandoverKeeps ==
  ASSUME Teams!TeamAssumption, TeamsInv, NEW t \in Attempts, Teams!CompleteHandover(t)
  PROVE  TeamsInv' /\ TeamsMoveSoundly
  <1>1. PICK c : /\ c = Teams!Cmd(t) /\ c.kind = "complete" /\ Deciding(t)
                 /\ AssignmentIsKnown(c) /\ AssignmentStands(c)
                 /\ managers' = [managers EXCEPT ![t] = Teams!Idle] /\ onDuty' = onDuty
                 /\ assigned' = assigned
    BY AssignmentCommits DEF Teams!CompleteHandover
  <1>2. PICK n \in DOMAIN handovers : n = c.handover /\ handovers[n].status = "OPEN"
    BY <1>1 DEF AssignmentIsKnown, AssignmentStands
  <1>3. PICK status \in {"ACKNOWLEDGED", "ADMIN_COMPLETED"} :
          handovers' = [handovers EXCEPT ![n].status = status]
    <2>1. handovers' = [handovers EXCEPT ![n].status =
                          IF c.actor = Admin THEN "ADMIN_COMPLETED" ELSE "ACKNOWLEDGED"]
      BY <1>1, <1>2 DEF Teams!CompleteHandover
    <2>2. QED
      BY <2>1
  <1>4. /\ org' = org /\ leads' = leads /\ members' = members
        /\ handoffs' = handoffs /\ responsible' = responsible
    BY <1>1 DEF Teams!CompleteHandover
  <1>5. /\ handovers \in Seq(Teams!Handover) /\ leads \in Seq(Teams!LeadRow) /\ OneLead
        /\ EndedLeadsAreFollowed /\ Teams!ReplacedLeadsHandOver
    BY TeamFacts DEF TeamRows, TeamsStand
  <1>6. PICK done : done = [handovers[n] EXCEPT !.status = status]
    OBVIOUS
  <1>7. handovers[n] \in Teams!Handover
    BY <1>5
  <1>8. /\ done \in Teams!Handover /\ done.object = handovers[n].object
        /\ done.outgoing = handovers[n].outgoing /\ done.incoming = handovers[n].incoming
    BY <1>6, <1>7 DEF Teams!Handover
  <1>9. handovers' = [handovers EXCEPT ![n] = done]
    BY <1>3, <1>6
  <1>10. /\ handovers' \in Seq(Teams!Handover) /\ DOMAIN handovers' = DOMAIN handovers
         /\ handovers'[n] = done /\ \A i \in DOMAIN handovers : i # n => handovers'[i] =
              handovers[i]
    BY <1>5, <1>8, <1>9
  <1>11. LeadsMoved(c)
    <2>1. OneLead' /\ EndedLeadsAreFollowed'
      BY <1>4, <1>5 DEF OneLead, EndedLeadsAreFollowed, Teams!Current
    <2>2. Teams!HandoversFinishOnce
      BY <1>2, <1>10 DEF Teams!HandoversFinishOnce
    <2>3. \A i \in DOMAIN handovers :
            /\ handovers'[i].object = handovers[i].object
            /\ handovers'[i].outgoing = handovers[i].outgoing
            /\ handovers'[i].incoming = handovers[i].incoming
      BY <1>8, <1>10
    <2>4. Teams!ReplacedLeadsHandOver'
      BY <1>4, <1>5, <1>10, <2>3 DEF Teams!ReplacedLeadsHandOver, Teams!ToSet
    <2>5. \A o \in Objects : SameLead(o)
      BY <1>4 DEF SameLead, Teams!LeadOf, Teams!Current
    <2>6. <<"handover", n>> \in Teams!RowsOf(c)
      BY <1>1, <1>2, ScopeOfKind
    <2>7. QED
      BY <1>4, <1>5, <1>10, <2>1, <2>2, <2>4, <2>5, <2>6 DEF LeadsMoved
  <1>12. TeamsMoved(c) /\ MembersMoved(c) /\ WorkMoved(c)
    BY <1>4, TeamFacts, TeamsStay, MembersStay, WorkStays
  <1>13. QED
    BY <1>1, <1>11, <1>12, AssignmentKeeps

LEMMA AllowedStands ==
  ASSUME Teams!TeamAssumption, TeamsInv, NEW d, AssignmentIsKnown(d), Teams!Allowed(d)
  PROVE  AssignmentStands(d)
  <1>1. ASSUME d.kind = "org"
        PROVE  d.member \in onDuty /\ d.manager \in onDuty /\ SeenStands(d.member, d.seen)
    BY <1>1 DEF Teams!Allowed, Teams!OrgTransferAllowed, SeenStands
  <1>2. ASSUME d.kind = "orgEnd" PROVE SeenStands(d.member, d.seen)
    BY <1>2 DEF Teams!Allowed, Teams!OrgEndAllowed, SeenStands
  <1>3. ASSUME d.kind = "lead" PROVE d.lead \in onDuty
    BY <1>3 DEF Teams!Allowed, Teams!LeadAllowed, Teams!LeadChangeAllowed
  <1>4. ASSUME d.kind = "redistribute" PROVE PartsStand(d.parts, d.seen)
    <2>1. Teams!RedistributionAllowed(d)
      BY <1>4 DEF Teams!Allowed
    <2>2. QED
      BY <2>1 DEF Teams!RedistributionAllowed, PartsStand, Teams!OrgEndAllowed,
         Teams!OrgTransferAllowed, SeenStands, Teams!LeadChangeAllowed
  <1>5. ASSUME d.kind = "add" PROVE Teams!AddAllowed(d)
    BY <1>5 DEF Teams!Allowed
  <1>6. ASSUME d.kind = "handoff"
        PROVE  d.member \in onDuty /\ (Teams!Keeps(d) \/ responsible[d.object] = None)
    <2>1. Teams!HandoffAllowed(d) /\ d.object \in Objects
      BY <1>6 DEF Teams!Allowed, AssignmentIsKnown
    <2>2. d.member \in onDuty
      BY <2>1 DEF Teams!HandoffAllowed, Teams!Eligible
    <2>3. Teams!HandoffOf(d.object) # {} \/ responsible[d.object] = None
      BY <2>1, TeamFacts DEF Teams!PackageKeepsItsEngineer
    <2>4. QED
      BY <2>1, <2>2, <2>3 DEF Teams!HandoffAllowed
  <1>7. ASSUME d.kind = "package" PROVE Teams!HandoffOf(d.object) # {}
    <2>1. Teams!PackageAllowed(d)
      BY <1>7 DEF Teams!Allowed
    <2>2. QED
      BY <2>1 DEF Teams!PackageAllowed, Teams!Effective
  <1>8. ASSUME d.kind = "complete" PROVE handovers[d.handover].status = "OPEN"
    BY <1>8 DEF Teams!Allowed, Teams!CompleteAllowed
  <1>9. QED
    BY <1>1, <1>2, <1>3, <1>4, <1>5, <1>6, <1>7, <1>8 DEF AssignmentStands

LEMMA NewIsKnown ==
  ASSUME NEW d \in Teams!NewCommand
  PROVE  AssignmentIsKnown(d)
  <1> DEFINE Seen(r) == Teams!IdOf(UNION {Teams!OrgOf(e) : e \in r.orgEnds \cup {x[1] :
    x \in r.orgTransfers}})
             orgs == {[kind |-> "org", member |-> e, manager |-> h,
                       seen |-> Teams!IdOf(Teams!OrgOf(e))] : e \in Engineers, h \in Heads}
             ends == {[kind |-> "orgEnd", member |-> e, seen |-> Teams!IdOf(Teams!OrgOf(e))] :
               e \in Engineers}
             changes == {[kind |-> "lead", object |-> o, lead |-> h,
                          seen |-> Teams!IdOf(Teams!LeadOf(o))] : o \in Objects, h \in Heads}
             moves == {[kind |-> "redistribute", parts |-> r, seen |-> Seen(r)] :
                         r \in Redistributions}
             places == {[kind |-> kind, object |-> o, member |-> e, actor |-> a] :
                          kind \in {"add", "remove", "handoff"}, o \in Objects, e \in Engineers,
                          a \in Heads \cup {Admin}}
             works == {[kind |-> kind, object |-> o, actor |-> a] :
                         kind \in {"package", "archive"}, o \in Objects, a \in Engineers
                           \cup {Admin}}
             passed == {[kind |-> "complete", handover |-> i, actor |-> a] :
                          i \in DOMAIN handovers, a \in Teams!Users \cup {Admin}}
  <1>1. Teams!NewCommand = UNION {orgs, ends, changes, moves, places, works, passed}
    BY DEF Teams!NewCommand
  <1>2. d \in orgs => AssignmentIsKnown(d)
    BY DEF AssignmentIsKnown
  <1>3. d \in ends => AssignmentIsKnown(d)
    BY DEF AssignmentIsKnown
  <1>4. d \in changes => AssignmentIsKnown(d)
    BY DEF AssignmentIsKnown
  <1>5. d \in moves => AssignmentIsKnown(d)
    <2> HIDE DEF Seen
    <2>1. QED
      BY DEF AssignmentIsKnown
  <1>6. d \in places => AssignmentIsKnown(d)
    BY DEF AssignmentIsKnown
  <1>7. d \in works => AssignmentIsKnown(d)
    BY DEF AssignmentIsKnown
  <1>8. d \in passed => AssignmentIsKnown(d)
    BY DEF AssignmentIsKnown
  <1> HIDE DEF orgs, ends, changes, moves, places, works, passed
  <1>9. QED
    BY <1>1, <1>2, <1>3, <1>4, <1>5, <1>6, <1>7, <1>8

LEMMA QuietStep ==
  ASSUME TeamsInv, UNCHANGED Teams!rows, onDuty' \subseteq Teams!Users,
           assigned' \in 0..MaxAssignments
  PROVE  TeamsStand' /\ TeamsMoveSoundly
  <1>1. /\ org' = org /\ leads' = leads /\ members' = members /\ handovers' = handovers
        /\ handoffs' = handoffs /\ responsible' = responsible
    BY DEF Teams!rows
  <1>2. PICK c : c = 0
    OBVIOUS
  <1>3. TeamsMoved(c) /\ LeadsMoved(c) /\ MembersMoved(c) /\ WorkMoved(c)
    BY <1>1, TeamFacts, TeamsStay, LeadsStay, MembersStay, WorkStays
  <1>4. Teams!NewAssigneesAreActive
    BY <1>1 DEF Teams!NewAssigneesAreActive
  <1>5. QED
    BY <1>3, <1>4 DEF TeamsStand, TeamRows, TeamsMoveSoundly, TeamsMoved, LeadsMoved,
       MembersMoved, WorkMoved

LEMMA QuietUntouched ==
  ASSUME UNCHANGED Teams!rows, NEW d, \A u \in Teams!TeamScope(d).users : u \in onDuty =>
           u \in onDuty'
  PROVE  Untouched(d)
  <1>1. /\ org' = org /\ leads' = leads /\ members' = members /\ handovers' = handovers
        /\ handoffs' = handoffs /\ responsible' = responsible
    BY DEF Teams!rows
  <1>2. /\ \A e \in Engineers : SameTeam(e)
        /\ \A o \in Objects : SameLead(o) /\ SameMembers(o) /\ SameHandoffs(o)
    BY <1>1 DEF SameTeam, Teams!OrgOf, SameLead, Teams!LeadOf, SameMembers, Teams!IsMember,
       SameHandoffs, Teams!HandoffOf, Teams!Current
  <1>3. QED
    BY <1>1, <1>2 DEF Untouched

(* A request, or one that passes its check, beside those under way.        *)
LEMMA OneManagerMoves ==
  ASSUME Teams!TeamAssumption, TeamsInv, UNCHANGED <<onDuty, Teams!rows>>, NEW t \in Attempts,
           NEW d,
         NEW phase \in {"begun", "checked"},
         managers' = [managers EXCEPT ![t] = [phase |-> phase, cmd |-> d]],
         AssignmentIsKnown(d),
         phase = "checked" =>
           AssignmentStands(d) /\ \A u \in Attempts : u # t /\ Deciding(u) =>
             ScopesApart(d, Teams!Cmd(u))
  PROVE  ManagersHold'
  <1>1. /\ ManagersHold /\ DOMAIN managers' = Attempts
        /\ managers'[t] = [phase |-> phase, cmd |-> d]
        /\ \A u \in Attempts : u # t => managers'[u] = managers[u]
    BY DEF TeamsInv, ManagersHold
  <1>2. /\ Teams!Cmd(t)' = d /\ (Deciding(t)' <=> phase = "checked")
        /\ \A u \in Attempts : u # t => Teams!Cmd(u)' = Teams!Cmd(u)
           /\ (Deciding(u)' <=> Deciding(u))
    BY <1>1 DEF Teams!Cmd, Deciding, Teams!In
  <1>3. \A e : AssignmentIsKnown(e) => AssignmentIsKnown(e)'
    BY DEF AssignmentIsKnown, Teams!rows
  <1>4. \A e : AssignmentIsKnown(e) /\ AssignmentStands(e) => AssignmentStands(e)'
    <2>1. TAKE e
    <2>2. Untouched(e)
      BY QuietUntouched
    <2>3. QED
      BY <2>2, StillStands, TeamFacts
  <1>5. ASSUME NEW u \in Attempts
        PROVE  \/ managers'[u] = [phase |-> "idle"]
               \/ /\ managers'[u] = [phase |-> managers'[u].phase, cmd |-> Teams!Cmd(u)']
                  /\ managers'[u].phase \in {"begun", "checked"}
                  /\ AssignmentIsKnown(Teams!Cmd(u))'
    <2>1. PICK e : e = Teams!Cmd(u)'
      OBVIOUS
    <2>2. \/ managers'[u] = [phase |-> "idle"]
          \/ /\ managers'[u] = [phase |-> managers'[u].phase, cmd |-> e]
             /\ managers'[u].phase \in {"begun", "checked"} /\ AssignmentIsKnown(e)
      <3>1. CASE u = t
        BY <1>1, <1>2, <2>1, <3>1
      <3>2. CASE u # t
        BY <1>1, <1>2, <2>1, <3>2 DEF ManagersHold
      <3>3. QED
        BY <3>1, <3>2
    <2>3. AssignmentIsKnown(e) => AssignmentIsKnown(e)'
      BY <1>3
    <2>4. AssignmentIsKnown(e)' => AssignmentIsKnown(Teams!Cmd(u))'
      BY <2>1 DEF AssignmentIsKnown
    <2>5. QED
      BY <2>1, <2>2, <2>3, <2>4
  <1>6. ASSUME NEW u \in Attempts, Deciding(u)'
        PROVE  AssignmentStands(Teams!Cmd(u))'
    <2>1. PICK e : e = Teams!Cmd(u)'
      OBVIOUS
    <2>2. AssignmentIsKnown(e) /\ AssignmentStands(e)
      <3>1. CASE u = t
        BY <1>2, <1>6, <2>1, <3>1
      <3>2. CASE u # t
        <4>1. Deciding(u) /\ e = Teams!Cmd(u)
          BY <1>2, <1>6, <2>1, <3>2
        <4>2. managers[u] # [phase |-> "idle"]
          BY <4>1 DEF Deciding, Teams!In
        <4>3. QED
          BY <1>1, <4>1, <4>2 DEF ManagersHold
      <3>3. QED
        BY <3>1, <3>2
    <2>3. AssignmentStands(e)'
      BY <1>4, <2>2
    <2>4. QED
      BY <2>1, <2>3 DEF AssignmentStands
  <1>7. ASSUME NEW u \in Attempts, NEW w \in Attempts, u # w, Deciding(u)', Deciding(w)'
        PROVE  ScopesApart(Teams!Cmd(u), Teams!Cmd(w))'
    <2>1. PICK a, b : a = Teams!Cmd(u)' /\ b = Teams!Cmd(w)'
      OBVIOUS
    <2>2. ScopesApart(a, b)
      <3>1. CASE u = t
        BY <1>2, <1>7, <2>1, <3>1
      <3>2. CASE w = t
        <4>1. ScopesApart(b, a)
          BY <1>2, <1>7, <2>1, <3>2
        <4>2. QED
          BY <4>1 DEF ScopesApart
      <3>3. CASE u # t /\ w # t
        BY <1>1, <1>2, <1>7, <2>1, <3>3 DEF ManagersHold
      <3>4. QED
        BY <3>1, <3>2, <3>3
    <2>3. Teams!Cmd(u)' = a /\ Teams!Cmd(w)' = b
      BY <2>1
    <2>4. QED
      BY <2>2, <2>3, StillApart
  <1>8. QED
    BY <1>1, <1>5, <1>6, <1>7 DEF ManagersHold

LEMMA TeamRequestKeeps ==
  ASSUME Teams!TeamAssumption, TeamsInv, NEW t \in Attempts, NEW d \in Teams!NewCommand,
           Teams!Begin(t, d)
  PROVE  TeamsInv' /\ TeamsMoveSoundly
  <1>1. /\ assigned < MaxAssignments /\ assigned' = assigned + 1 /\ UNCHANGED <<onDuty, Teams!rows>>
        /\ managers' = [managers EXCEPT ![t] = [phase |-> "begun", cmd |-> d]]
    BY DEF Teams!Begin
  <1>2. assigned' \in 0..MaxAssignments /\ onDuty' \subseteq Teams!Users
    BY <1>1, TeamFacts DEF TeamRows, Teams!TeamAssumption
  <1>3. TeamsStand' /\ TeamsMoveSoundly
    BY <1>1, <1>2, QuietStep
  <1>4. ManagersHold'
    BY <1>1, NewIsKnown, OneManagerMoves
  <1>5. QED
    BY <1>3, <1>4 DEF TeamsInv

LEMMA TeamCheckKeeps ==
  ASSUME Teams!TeamAssumption, TeamsInv, NEW t \in Attempts, Teams!LockAndCheck(t)
  PROVE  TeamsInv' /\ TeamsMoveSoundly
  <1>1. PICK d : d = Teams!Cmd(t) /\ managers[t] = [phase |-> "begun", cmd |-> d]
                   /\ AssignmentIsKnown(d) /\ Teams!Allowed(d)
    <2>1. managers[t].phase = "begun" /\ Teams!Allowed(Teams!Cmd(t))
      BY DEF Teams!LockAndCheck, Teams!In
    <2>2. managers[t] # [phase |-> "idle"]
      BY <2>1
    <2>3. QED
      BY <2>1, <2>2, TeamFacts DEF ManagersHold
  <1>2. /\ managers' = [managers EXCEPT ![t] = [phase |-> "checked", cmd |-> d]]
        /\ UNCHANGED <<onDuty, Teams!rows>> /\ assigned' = assigned /\ Teams!ScopeIsFree(t)
    <2>1. managers' = [managers EXCEPT ![t].phase = "checked"] /\ UNCHANGED <<onDuty, Teams!rows,
            assigned>>
          /\ Teams!ScopeIsFree(t)
      BY DEF Teams!LockAndCheck
    <2>2. [managers[t] EXCEPT !.phase = "checked"] = [phase |-> "checked", cmd |-> d]
      BY <1>1
    <2>3. QED
      BY <2>1, <2>2
  <1>3. AssignmentStands(d)
    BY <1>1, AllowedStands
  <1>4. \A u \in Attempts : u # t /\ Deciding(u) => ScopesApart(d, Teams!Cmd(u))
    BY <1>1, <1>2 DEF Teams!ScopeIsFree, ScopesApart, Deciding
  <1>5. ManagersHold'
    BY <1>1, <1>2, <1>3, <1>4, OneManagerMoves
  <1>6. TeamsStand' /\ TeamsMoveSoundly
    BY <1>2, QuietStep, TeamFacts DEF TeamRows
  <1>7. QED
    BY <1>5, <1>6 DEF TeamsInv

LEMMA TeamRefusalKeeps ==
  ASSUME Teams!TeamAssumption, TeamsInv, NEW t \in Attempts, Teams!Refuse(t)
  PROVE  TeamsInv' /\ TeamsMoveSoundly
  <1>1. managers' = [managers EXCEPT ![t] = Teams!Idle] /\ UNCHANGED <<onDuty, Teams!rows,
          assigned>>
    BY DEF Teams!Refuse
  <1>2. TeamsStand' /\ TeamsMoveSoundly
    BY <1>1, QuietStep, TeamFacts DEF TeamRows
  <1>3. \A d : Untouched(d)
    BY <1>1, QuietUntouched
  <1>4. /\ DOMAIN managers' = Attempts /\ managers'[t] = [phase |-> "idle"]
        /\ \A u \in Attempts : u # t => managers'[u] = managers[u]
    BY <1>1, TeamFacts DEF ManagersHold, Teams!Idle
  <1>5. DOMAIN handovers \subseteq DOMAIN handovers'
    BY <1>1 DEF Teams!rows
  <1>6. ManagersHold'
    BY <1>3, <1>4, <1>5, TeamFacts, ManagersAfter
  <1>7. QED
    BY <1>2, <1>6 DEF TeamsInv

LEMMA SwitchUserKeeps ==
  ASSUME Teams!TeamAssumption, TeamsInv, NEW w \in Teams!Users, Teams!SwitchUser(w)
  PROVE  TeamsInv' /\ TeamsMoveSoundly
  <1>1. /\ assigned < MaxAssignments /\ assigned' = assigned + 1
        /\ \A t \in Attempts : Deciding(t) => w \notin Teams!TeamScope(Teams!Cmd(t)).users
        /\ onDuty' = (onDuty \cup {w}) \ (onDuty \cap {w})
        /\ UNCHANGED Teams!rows /\ managers' = managers
    BY DEF Teams!SwitchUser, Deciding
  <1>2. assigned' \in 0..MaxAssignments /\ onDuty' \subseteq Teams!Users
    BY <1>1, TeamFacts DEF TeamRows, Teams!TeamAssumption
  <1>3. TeamsStand' /\ TeamsMoveSoundly
    BY <1>1, <1>2, QuietStep
  <1>4. \A t \in Attempts : Deciding(t) => Untouched(Teams!Cmd(t))
    <2>1. TAKE t \in Attempts
    <2>2. HAVE Deciding(t)
    <2>3. PICK d : d = Teams!Cmd(t)
      OBVIOUS
    <2>4. \A u \in Teams!TeamScope(d).users : u \in onDuty => u \in onDuty'
      BY <1>1, <2>2, <2>3
    <2>5. Untouched(d)
      BY <1>1, <2>4, QuietUntouched
    <2>6. QED
      BY <2>3, <2>5
  <1>5. DOMAIN handovers \subseteq DOMAIN handovers'
    BY <1>1 DEF Teams!rows
  <1>6. ManagersHold'
    BY <1>1, <1>4, <1>5, TeamFacts, ManagersAfter DEF ManagersHold
  <1>7. QED
    BY <1>3, <1>6 DEF TeamsInv

LEMMA TeamsBegin ==
  ASSUME Teams!TeamAssumption, Teams!Init
  PROVE  TeamsInv
  <1>1. /\ onDuty = Teams!Users /\ org = InitialOrg /\ leads = InitialLeads /\ members =
             InitialMembers
        /\ handovers = <<>> /\ handoffs = <<>> /\ responsible = [o \in Objects |-> None]
        /\ managers = [t \in Attempts |-> Teams!Idle] /\ assigned = 0
    BY DEF Teams!Init
  <1>2. TeamRows
    BY <1>1 DEF TeamRows, Teams!TeamAssumption
  <1>3. OneTeam
    BY <1>1 DEF OneTeam, Teams!Current, Teams!TeamAssumption
  <1>4. OneLead
    BY <1>1 DEF OneLead, Teams!Current, Teams!TeamAssumption
  <1>5. OncePerObject
    <2>1. SUFFICES ASSUME NEW i \in DOMAIN members, NEW j \in DOMAIN members,
                          members[i].object = members[j].object,
                          members[i].member = members[j].member
                   PROVE  i = j
      BY DEF OncePerObject, Teams!Current
    <2>2. <<members[i].object, members[i].member>> = <<members[j].object, members[j].member>>
      BY <2>1
    <2>3. QED
      BY <1>1, <2>2 DEF Teams!TeamAssumption
  <1>6. EndedLeadsAreFollowed
    BY <1>1 DEF EndedLeadsAreFollowed, Teams!TeamAssumption
  <1>7. Teams!ReplacedLeadsHandOver
    <2>1. SUFFICES ASSUME NEW i \in DOMAIN leads, NEW j \in DOMAIN leads, i < j,
                          leads[i].object = leads[j].object
                   PROVE  FALSE
      BY DEF Teams!ReplacedLeadsHandOver
    <2>2. i = j /\ i \in Int
      BY <1>1, <1>2, <2>1 DEF Teams!TeamAssumption, TeamRows
    <2>3. QED
      BY <2>1, <2>2
  <1>8. Teams!PackageKeepsItsEngineer
    BY <1>1 DEF Teams!PackageKeepsItsEngineer
  <1>9. ManagersHold
    BY <1>1 DEF ManagersHold, Deciding, Teams!In, Teams!Idle
  <1>10. QED
    BY <1>2, <1>3, <1>4, <1>5, <1>6, <1>7, <1>8, <1>9 DEF TeamsInv, TeamsStand

LEMMA TeamsStep ==
  ASSUME Teams!TeamAssumption, TeamsInv, [Teams!Next]_(Teams!vars)
  PROVE  TeamsInv' /\ TeamsMoveSoundly
  <1>1. ASSUME UNCHANGED Teams!vars
        PROVE  TeamsInv' /\ TeamsMoveSoundly
    <2>1. UNCHANGED <<onDuty, Teams!rows, managers, assigned>>
      BY <1>1 DEF Teams!vars
    <2>2. TeamsStand' /\ TeamsMoveSoundly
      BY <2>1, QuietStep, TeamFacts DEF TeamRows
    <2>3. \A d : Untouched(d)
      BY <2>1, QuietUntouched
    <2>4. DOMAIN handovers \subseteq DOMAIN handovers'
      BY <2>1 DEF Teams!rows
    <2>5. ManagersHold'
      BY <2>1, <2>3, <2>4, TeamFacts, ManagersAfter DEF ManagersHold
    <2>6. QED
      BY <2>2, <2>5 DEF TeamsInv
  <1>2. ASSUME NEW t \in Attempts, NEW d \in Teams!NewCommand, Teams!Begin(t, d)
        PROVE  TeamsInv' /\ TeamsMoveSoundly
    BY <1>2, TeamRequestKeeps
  <1>3. ASSUME NEW t \in Attempts,
               \/ Teams!LockAndCheck(t) \/ Teams!Refuse(t) \/ Teams!AssignOrgMember(t)
                  \/ Teams!EndOrgMember(t)
               \/ Teams!AssignObjectLead(t) \/ Teams!Redistribute(t) \/ Teams!AddObjectMember(t)
               \/ Teams!EndObjectMember(t) \/ Teams!AssignWork(t) \/ Teams!CreatePackage(t)
                  \/ Teams!ArchivePackage(t)
               \/ Teams!CompleteHandover(t)
        PROVE  TeamsInv' /\ TeamsMoveSoundly
    BY <1>3, TeamCheckKeeps, TeamRefusalKeeps, AssignOrgMemberKeeps, EndOrgMemberKeeps,
       AssignObjectLeadKeeps, RedistributeKeeps, AddObjectMemberKeeps, EndObjectMemberKeeps,
       AssignWorkKeeps, CreatePackageKeeps, ArchivePackageKeeps, CompleteHandoverKeeps
  <1>4. ASSUME NEW w \in Teams!Users, Teams!SwitchUser(w)
        PROVE  TeamsInv' /\ TeamsMoveSoundly
    BY <1>4, SwitchUserKeeps
  <1>5. QED
    BY <1>1, <1>2, <1>3, <1>4 DEF Teams!Next

\* The inductive invariant of the teams: what a command has checked stands until
\* it commits, for the people, objects and rows it holds are changed by nobody
\* else, and the last lead of an object is the one who has it.
THEOREM TeamsInvariance ==
  ASSUME Teams!TeamAssumption
  PROVE  Teams!Spec => []TeamsInv
  <1>1. Teams!Init => TeamsInv
    BY TeamsBegin
  <1>2. TeamsInv /\ [Teams!Next]_(Teams!vars) => TeamsInv'
    BY TeamsStep
  <1>3. QED
    BY <1>1, <1>2, PTL DEF Teams!Spec

\* Whoever led an object has handed over to the next, one row at most is
\* current, the responsible of a live package is the engineer its work is handed
\* to, teams grow by their lead and by active people, an engineer leaves by a
\* command that has seen his membership, and a handover is finished once
\* (team-service.ts, pto-work-assignment-service.ts).
THEOREM TeamsStaySound ==
  ASSUME Teams!TeamAssumption
  PROVE  Teams!Spec => TeamsAreSound
  <1>1. TeamsInv => Teams!TypeOK /\ Teams!ReplacedLeadsHandOver /\ Teams!PackageKeepsItsEngineer
    <2> SUFFICES ASSUME TeamsInv PROVE Teams!TypeOK /\ Teams!ReplacedLeadsHandOver
    /\ Teams!PackageKeepsItsEngineer
      OBVIOUS
    <2>1. TeamRows /\ OneTeam /\ OneLead /\ OncePerObject
          /\ Teams!ReplacedLeadsHandOver /\ Teams!PackageKeepsItsEngineer
      BY DEF TeamsInv, TeamsStand
    <2>2. /\ Teams!ToSet(org) \subseteq Teams!OrgRow /\ Teams!ToSet(leads) \subseteq Teams!LeadRow
          /\ Teams!ToSet(members) \subseteq Teams!MemberRow
          /\ Teams!ToSet(handovers) \subseteq Teams!Handover
          /\ Teams!ToSet(handoffs) \subseteq Teams!Handoff
      BY <2>1 DEF TeamRows, Teams!ToSet
    <2>3. \A i, j \in Teams!Current(members) :
            <<members[i].object, members[i].member>> = <<members[j].object, members[j].member>>
              => i = j
      BY <2>1 DEF OncePerObject
    <2>4. QED
      BY <2>1, <2>2, <2>3 DEF Teams!TypeOK, TeamRows, OneTeam, OneLead
  <1>2. TeamsInv /\ [Teams!Next]_(Teams!vars) =>
          /\ Teams!TeamGrowsByItsLead /\ Teams!NewAssigneesAreActive
          /\ Teams!TransfersAreInformed /\ Teams!HandoversFinishOnce
    BY TeamsStep DEF TeamsMoveSoundly
  <1>3. Teams!Spec => []TeamsInv
    BY TeamsInvariance
  <1>4. Teams!vars = teaming
    BY DEF Teams!vars, Teams!rows, teaming, assignments
  <1>5. QED
    BY <1>1, <1>2, <1>3, <1>4, PTL DEF Teams!Spec, TeamsAreSound
=============================================================================
