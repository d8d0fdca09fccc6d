-------------------------- MODULE TeamAssignments --------------------------
(***************************************************************************)
(* Who answers for an object (team-service.ts, org-structure-service.ts,   *)
(* pto-work-assignment-service.ts, infra/016, 019): engineers belong to a  *)
(* head's team, an object has one lead and members, a work is handed to    *)
(* one engineer, and whoever leaves hands over.  Assignments are only      *)
(* ended and replaced.  Commands take sorted advisory locks of objects and *)
(* users, then the users' rows FOR SHARE.  Every object has one work.      *)
(***************************************************************************)
EXTENDS Integers, SequencesExt

CONSTANTS
  Attempts,        \* server processes handling a request
  Objects,         \* objects, each with one work
  Heads,           \* users with the role PTO_HEAD
  Engineers,       \* users with the role PTO
  Admin,           \* an administrator
  None,            \* no package
  Kinds,           \* the commands clients send
  Redistributions, \* the redistributions clients send
  InitialOrg,      \* Seq([member, manager, ended]): organisational memberships
  InitialLeads,    \* Seq([object, lead, ended])
  InitialMembers,  \* Seq([object, member, by, ended])
  MaxRequests      \* bound: commands and changes of users altogether

VARIABLES
  active,    \* users whose account is active
  org,       \* functional_team_memberships
  leads,     \* object_function_lead_assignments
  members,   \* object_function_member_assignments
  handovers, \* object_function_handovers
  handoffs,  \* pto_work_assignments
  packages,  \* [Objects -> responsible of the work's live package, or None]
  attempts,  \* [Attempts -> Attempt]
  requests   \* commands sent so far

rows == <<org, leads, members, handovers, handoffs, packages>>
vars == <<active, rows, attempts, requests>>

Users == Heads \cup Engineers
OrgRow == [member : Engineers, manager : Heads, ended : BOOLEAN]
LeadRow == [object : Objects, lead : Heads, ended : BOOLEAN]
MemberRow == [object : Objects, member : Engineers, by : Heads \cup {Admin}, ended : BOOLEAN]
Handover ==
  [object : Objects, outgoing : Users, incoming : Users,
   status : {"OPEN", "ACKNOWLEDGED", "ADMIN_COMPLETED"}]
Handoff == [object : Objects, assignee : Engineers, ended : BOOLEAN]

\* Sets of at most one element keep redistributions small.
Redistribution ==
  [orgEnds : SUBSET Engineers, orgTransfers : SUBSET (Engineers \X Heads),
   leadChanges : SUBSET (Objects \X Heads), memberEnds : SUBSET (Objects \X Engineers),
   memberAdds : SUBSET (Objects \X Engineers), handovers : SUBSET (Objects \X Users \X Users)]

\* What the constants satisfy.  A redistribution names an engineer's team and
\* an object's lead once (dup), and the indexes of infra/016 hold to begin with.
TeamAssumption ==
  /\ Heads \cap Engineers = {} /\ Admin \notin Users /\ None \notin Users
  /\ Redistributions \subseteq Redistribution
  /\ \A r \in Redistributions :
       /\ r.orgEnds = {} \/ (r.orgTransfers = {} /\ \A u, w \in r.orgEnds : u = w)
       /\ \A x, y \in r.orgTransfers : x[1] = y[1] => x = y
       /\ \A x, y \in r.leadChanges : x[1] = y[1] => x = y
       /\ \A f \in DOMAIN r : IsFiniteSet(r[f])
  /\ InitialOrg \in Seq(OrgRow) /\ InitialLeads \in Seq(LeadRow)
  /\ InitialMembers \in Seq(MemberRow)
  /\ \A i, j \in DOMAIN InitialOrg : InitialOrg[i].member = InitialOrg[j].member => i = j
  /\ \A i \in DOMAIN InitialLeads : ~InitialLeads[i].ended
  /\ \A i, j \in DOMAIN InitialLeads : InitialLeads[i].object = InitialLeads[j].object => i = j
  /\ \A i, j \in DOMAIN InitialMembers :
       <<InitialMembers[i].object, InitialMembers[i].member>> =
         <<InitialMembers[j].object, InitialMembers[j].member>> => i = j
  /\ MaxRequests \in Nat

Idle == [phase |-> "idle"]
In(t, phase) == attempts[t].phase = phase
Cmd(t) == attempts[t].cmd

Init ==
  /\ active = Users
  /\ org = InitialOrg /\ leads = InitialLeads /\ members = InitialMembers
  /\ handovers = <<>> /\ handoffs = <<>>
  /\ packages = [o \in Objects |-> None]
  /\ attempts = [t \in Attempts |-> Idle]
  /\ requests = 0

-----------------------------------------------------------------------------
\* Current rows: those not ended.
Current(table) == {i \in DOMAIN table : ~table[i].ended}
OrgOf(e) == {i \in Current(org) : org[i].member = e}
LeadOf(o) == {i \in Current(leads) : leads[i].object = o}
HandoffOf(o) == {i \in Current(handoffs) : handoffs[i].object = o}
IdOf(S) == IF S = {} THEN 0 ELSE CHOOSE i \in S : TRUE

IsLead(h, o) == \E i \in LeadOf(o) : leads[i].lead = h
IsMember(e, o) == \E i \in Current(members) : members[i].object = o /\ members[i].member = e
InTeamOf(h, e) == \E i \in OrgOf(e) : org[i].manager = h

\* resolvePtoWorkEligibility: active engineers of the object's active lead.
Eligible(o) ==
  {e \in Engineers \cap active : \E h \in Heads \cap active : IsLead(h, o) /\ InTeamOf(h, e)}
\* effectivePtoWorkAssignment
Effective(o) == {e \in Eligible(o) : \E i \in HandoffOf(o) : handoffs[i].assignee = e}

-----------------------------------------------------------------------------
\* Requests.  A client names the row it has seen, 0 when it saw none.
NewCommand ==
  UNION {
    {[kind |-> "org", member |-> e, manager |-> h, seen |-> IdOf(OrgOf(e))] :
       e \in Engineers, h \in Heads},
    {[kind |-> "orgEnd", member |-> e, seen |-> IdOf(OrgOf(e))] : e \in Engineers},
    {[kind |-> "lead", object |-> o, lead |-> h, seen |-> IdOf(LeadOf(o))] :
       o \in Objects, h \in Heads},
    {[kind |-> "redistribute", parts |-> r,
      seen |-> IdOf(UNION {OrgOf(e) : e \in r.orgEnds \cup {x[1] : x \in r.orgTransfers}})] :
       r \in Redistributions},
    {[kind |-> kind, object |-> o, member |-> e, actor |-> a] :
       kind \in {"add", "remove", "handoff"}, o \in Objects, e \in Engineers,
       a \in Heads \cup {Admin}},
    {[kind |-> kind, object |-> o, actor |-> a] :
       kind \in {"package", "archive"}, o \in Objects, a \in Engineers \cup {Admin}},
    {[kind |-> "complete", handover |-> i, actor |-> a] :
       i \in DOMAIN handovers, a \in Users \cup {Admin}}}

\* Users and objects a redistribution touches (redistribute: userIds, objectIds).
UsersOf(r) ==
  UNION {r.orgEnds, UNION {{x[1], x[2]} : x \in r.orgTransfers}, {x[2] : x \in r.leadChanges},
         {x[2] : x \in r.memberEnds \cup r.memberAdds}, UNION {{x[2], x[3]} : x \in r.handovers}}
ObjectsOf(r) ==
  {x[1] : x \in r.leadChanges \cup r.memberEnds \cup r.memberAdds} \cup {x[1] : x \in r.handovers}

\* lockTeamScope: advisory locks on these users and objects, the users FOR SHARE.
TeamScope(cmd) ==
  CASE cmd.kind = "org" -> [users |-> {cmd.member, cmd.manager}, objects |-> {}]
    [] cmd.kind = "orgEnd" -> [users |-> {cmd.member}, objects |-> {}]
    [] cmd.kind = "lead" -> [users |-> {cmd.lead}, objects |-> {cmd.object}]
    [] cmd.kind = "redistribute" -> [users |-> UsersOf(cmd.parts), objects |-> ObjectsOf(cmd.parts)]
    [] cmd.kind \in {"add", "handoff"} ->
         [users |-> {cmd.member, cmd.actor} \ {Admin}, objects |-> {cmd.object}]
    [] cmd.kind = "remove" -> [users |-> {cmd.member}, objects |-> {cmd.object}]
    [] OTHER -> [users |-> {}, objects |-> {}]

\* Rows locked FOR UPDATE besides: the work, a handover, a package.
RowsOf(cmd) ==
  CASE cmd.kind \in {"handoff", "package"} -> {<<"work", cmd.object>>}
    [] cmd.kind = "archive" -> {<<"package", cmd.object>>}
    [] cmd.kind = "complete" -> {<<"handover", cmd.handover>>}
    [] OTHER -> {}

ScopeIsFree(t) ==
  \A u \in Attempts \ {t} :
    In(u, "checked") =>
      LET mine == TeamScope(Cmd(t))  theirs == TeamScope(Cmd(u)) IN
        /\ mine.users \cap theirs.users = {} /\ mine.objects \cap theirs.objects = {}
        /\ RowsOf(Cmd(t)) \cap RowsOf(Cmd(u)) = {}

-----------------------------------------------------------------------------
OrgTransferAllowed(e, h, seen) ==
  /\ {e, h} \subseteq active
  /\ seen = IdOf(OrgOf(e))
  /\ ~InTeamOf(h, e)
OrgEndAllowed(e, seen) == OrgOf(e) # {} /\ seen = IdOf(OrgOf(e))

LeadChangeAllowed(o, h) == h \in active /\ ~IsLead(h, o)
\* assignObjectLead names the assignment it replaces; redistribute does not.
LeadAllowed(cmd) ==
  /\ LeadChangeAllowed(cmd.object, cmd.lead)
  /\ LeadOf(cmd.object) # {} => cmd.seen = IdOf(LeadOf(cmd.object))

\* Engineers replaced on an object hand over to those who replace them.
Covered(r) ==
  \A o \in {x[1] : x \in r.memberEnds} \cap {x[1] : x \in r.memberAdds} :
    LET ends == {x[2] : x \in {y \in r.memberEnds : y[1] = o}}
        adds == {x[2] : x \in {y \in r.memberAdds : y[1] = o}}
    IN  /\ \A e \in ends : \E n \in adds : <<o, e, n>> \in r.handovers
        /\ \A n \in adds : \E e \in ends : <<o, e, n>> \in r.handovers

\* On the object once the parts before the handovers are done.
OnObjectAfter(r, u, o) ==
  \/ <<o, u>> \in r.leadChanges \cup r.memberAdds
  \/ IsLead(u, o) /\ ~\E x \in r.leadChanges : x[1] = o
  \/ IsMember(u, o) /\ <<o, u>> \notin r.memberEnds
EverOnObject(r, u, o) ==
  \/ <<o, u>> \in r.leadChanges \cup r.memberAdds
  \/ \E i \in DOMAIN leads : leads[i].object = o /\ leads[i].lead = u
  \/ \E i \in DOMAIN members : members[i].object = o /\ members[i].member = u

RedistributionAllowed(cmd) ==
  LET r == cmd.parts IN
    /\ Covered(r)
    /\ \A e \in r.orgEnds : OrgEndAllowed(e, cmd.seen)
    /\ \A x \in r.orgTransfers : OrgTransferAllowed(x[1], x[2], cmd.seen)
    /\ \A x \in r.leadChanges : LeadChangeAllowed(x[1], x[2])
    /\ \A x \in r.memberEnds : IsMember(x[2], x[1])
    /\ \A x \in r.memberAdds : x[2] \in active /\ (IsMember(x[2], x[1]) => x \in r.memberEnds)
    /\ \A x \in r.handovers :
         x[2] # x[3] /\ OnObjectAfter(r, x[3], x[1]) /\ EverOnObject(r, x[2], x[1])

ActsAsLead(cmd) == cmd.actor = Admin \/ IsLead(cmd.actor, cmd.object)
AddAllowed(cmd) ==
  /\ ActsAsLead(cmd)
  /\ cmd.actor # Admin => InTeamOf(cmd.actor, cmd.member)
  /\ cmd.member \in active /\ ~IsMember(cmd.member, cmd.object)
RemoveAllowed(cmd) == ActsAsLead(cmd) /\ IsMember(cmd.member, cmd.object)

\* assign: the work's engineer changes only while it has no live package.
Keeps(cmd) == \E i \in HandoffOf(cmd.object) : handoffs[i].assignee = cmd.member
HandoffAllowed(cmd) ==
  /\ ActsAsLead(cmd)
  /\ cmd.member \in Eligible(cmd.object)
  /\ HandoffOf(cmd.object) # {} /\ ~Keeps(cmd) => packages[cmd.object] = None
\* createDocumentationPackage: the effective assignee; portions are claimed once.
PackageAllowed(cmd) ==
  /\ packages[cmd.object] = None
  /\ Effective(cmd.object) # {}
  /\ cmd.actor = Admin \/ cmd.actor \in Effective(cmd.object)

CompleteAllowed(cmd) ==
  /\ handovers[cmd.handover].status = "OPEN"
  /\ cmd.actor \in {Admin, handovers[cmd.handover].incoming}

Allowed(cmd) ==
  CASE cmd.kind = "org" -> OrgTransferAllowed(cmd.member, cmd.manager, cmd.seen)
    [] cmd.kind = "orgEnd" -> OrgEndAllowed(cmd.member, cmd.seen)
    [] cmd.kind = "lead" -> LeadAllowed(cmd)
    [] cmd.kind = "redistribute" -> RedistributionAllowed(cmd)
    [] cmd.kind = "add" -> AddAllowed(cmd)
    [] cmd.kind = "remove" -> RemoveAllowed(cmd)
    [] cmd.kind = "handoff" -> HandoffAllowed(cmd)
    [] cmd.kind = "package" -> PackageAllowed(cmd)
    [] cmd.kind = "archive" -> packages[cmd.object] # None
    [] cmd.kind = "complete" -> CompleteAllowed(cmd)

-----------------------------------------------------------------------------
Begin(t, cmd) ==
  /\ In(t, "idle") /\ requests < MaxRequests
  /\ requests' = requests + 1
  /\ attempts' = [attempts EXCEPT ![t] = [phase |-> "begun", cmd |-> cmd]]
  /\ UNCHANGED <<active, rows>>

LockAndCheck(t) ==
  /\ In(t, "begun") /\ ScopeIsFree(t) /\ Allowed(Cmd(t))
  /\ attempts' = [attempts EXCEPT ![t].phase = "checked"]
  /\ UNCHANGED <<active, rows, requests>>

\* A guard refuses, or the transaction is lost at any point.
Refuse(t) ==
  /\ ~In(t, "idle")
  /\ attempts' = [attempts EXCEPT ![t] = Idle]
  /\ UNCHANGED <<active, rows, requests>>

Committing(t, kind) ==
  /\ In(t, "checked") /\ Cmd(t).kind = kind
  /\ attempts' = [attempts EXCEPT ![t] = Idle]
  /\ UNCHANGED <<active, requests>>

\* The rows of a table with the chosen ones ended and new ones inserted.
Replaced(table, ended, new) ==
  [i \in DOMAIN table |->
     IF i \in ended THEN [table[i] EXCEPT !.ended = TRUE] ELSE table[i]] \o SetToSeq(new)

OrgAfter(ends, transfers) ==
  Replaced(org, UNION {OrgOf(e) : e \in ends \cup {x[1] : x \in transfers}},
           {[member |-> x[1], manager |-> x[2], ended |-> FALSE] : x \in transfers})
LeadsAfter(changes) ==
  Replaced(leads, UNION {LeadOf(x[1]) : x \in changes},
           {[object |-> x[1], lead |-> x[2], ended |-> FALSE] : x \in changes})
MembersAfter(ends, adds, by) ==
  Replaced(members, {i \in Current(members) : <<members[i].object, members[i].member>> \in ends},
           {[object |-> x[1], member |-> x[2], by |-> by, ended |-> FALSE] : x \in adds})

\* Every lead replaced hands over to the new one, besides the handovers asked for.
LeadHandovers(changes) ==
  {<<leads[r[1]].object, leads[r[1]].lead, r[2][2]>> :
     r \in {ix \in Current(leads) \X changes : leads[ix[1]].object = ix[2][1]}}
\* Mutated form: a redistribution writes the handovers asked for only.
HandoversAsked(asked, changes) ==
  handovers \o SetToSeq({[object |-> x[1], outgoing |-> x[2], incoming |-> x[3], status |-> "OPEN"] :
                           x \in asked})
HandoversAfter(asked, changes) ==
  handovers \o SetToSeq({[object |-> x[1], outgoing |-> x[2], incoming |-> x[3], status |-> "OPEN"] :
                           x \in asked \cup LeadHandovers(changes)})

AssignOrgMember(t) ==
  /\ Committing(t, "org")
  /\ org' = OrgAfter({}, {<<Cmd(t).member, Cmd(t).manager>>})
  /\ UNCHANGED <<leads, members, handovers, handoffs, packages>>

EndOrgMember(t) ==
  /\ Committing(t, "orgEnd")
  /\ org' = OrgAfter({Cmd(t).member}, {})
  /\ UNCHANGED <<leads, members, handovers, handoffs, packages>>

AssignObjectLead(t) ==
  LET change == {<<Cmd(t).object, Cmd(t).lead>>} IN
    /\ Committing(t, "lead")
    /\ leads' = LeadsAfter(change)
    /\ handovers' = HandoversAfter({}, change)
    /\ UNCHANGED <<org, members, handoffs, packages>>

Redistribute(t) ==
  LET r == Cmd(t).parts IN
    /\ Committing(t, "redistribute")
    /\ org' = OrgAfter(r.orgEnds, r.orgTransfers)
    /\ leads' = LeadsAfter(r.leadChanges)
    /\ members' = MembersAfter(r.memberEnds, r.memberAdds, Admin)
    /\ handovers' = HandoversAfter(r.handovers, r.leadChanges)
    /\ UNCHANGED <<handoffs, packages>>

AddObjectMember(t) ==
  /\ Committing(t, "add")
  /\ members' = MembersAfter({}, {<<Cmd(t).object, Cmd(t).member>>}, Cmd(t).actor)
  /\ UNCHANGED <<org, leads, handovers, handoffs, packages>>

EndObjectMember(t) ==
  /\ Committing(t, "remove")
  /\ members' = MembersAfter({<<Cmd(t).object, Cmd(t).member>>}, {}, Admin)
  /\ UNCHANGED <<org, leads, handovers, handoffs, packages>>

\* The same engineer again changes nothing.
AssignWork(t) ==
  LET cmd == Cmd(t) IN
    /\ Committing(t, "handoff")
    /\ handoffs' = IF Keeps(cmd) THEN handoffs
                   ELSE Replaced(handoffs, HandoffOf(cmd.object),
                          {[object |-> cmd.object, assignee |-> cmd.member, ended |-> FALSE]})
    /\ UNCHANGED <<org, leads, members, handovers, packages>>

CreatePackage(t) ==
  LET i == IdOf(HandoffOf(Cmd(t).object)) IN
    /\ Committing(t, "package")
    /\ packages' = [packages EXCEPT ![Cmd(t).object] = handoffs[i].assignee]
    /\ UNCHANGED <<org, leads, members, handovers, handoffs>>

ArchivePackage(t) ==
  /\ Committing(t, "archive")
  /\ packages' = [packages EXCEPT ![Cmd(t).object] = None]
  /\ UNCHANGED <<org, leads, members, handovers, handoffs>>

CompleteHandover(t) ==
  LET cmd == Cmd(t) IN
    /\ Committing(t, "complete")
    /\ handovers' = [handovers EXCEPT ![cmd.handover].status =
                       IF cmd.actor = Admin THEN "ADMIN_COMPLETED" ELSE "ACKNOWLEDGED"]
    /\ UNCHANGED <<org, leads, members, handoffs, packages>>

\* admin-users update: waits for every command that holds the user FOR SHARE.
SwitchUser(u) ==
  /\ requests < MaxRequests
  /\ \A t \in Attempts : In(t, "checked") => u \notin TeamScope(Cmd(t)).users
  /\ active' = (active \cup {u}) \ (active \cap {u})
  /\ requests' = requests + 1
  /\ UNCHANGED <<rows, attempts>>

Next ==
  \/ \E t \in Attempts :
       \/ \E cmd \in {c \in NewCommand : c.kind \in Kinds} : Begin(t, cmd)
       \/ LockAndCheck(t)
       \/ Refuse(t)
       \/ AssignOrgMember(t)
       \/ EndOrgMember(t)
       \/ AssignObjectLead(t)
       \/ Redistribute(t)
       \/ AddObjectMember(t)
       \/ EndObjectMember(t)
       \/ AssignWork(t)
       \/ CreatePackage(t)
       \/ ArchivePackage(t)
       \/ CompleteHandover(t)
  \/ \E u \in Users : SwitchUser(u)

Spec == Init /\ [][Next]_vars

-----------------------------------------------------------------------------
\* Every variable keeps its shape, and whoever is current is so once, without
\* the unique indexes of infra/016 to say so.
TypeOK ==
  /\ active \subseteq Users
  /\ ToSet(org) \subseteq OrgRow /\ ToSet(leads) \subseteq LeadRow
  /\ ToSet(members) \subseteq MemberRow
  /\ ToSet(handovers) \subseteq Handover /\ ToSet(handoffs) \subseteq Handoff
  /\ packages \in [Objects -> Engineers \cup {None}]
  /\ \A i, j \in Current(members) :
       <<members[i].object, members[i].member>> = <<members[j].object, members[j].member>> => i = j
  /\ \A i, j \in Current(leads) : leads[i].object = leads[j].object => i = j
  /\ \A i, j \in Current(org) : org[i].member = org[j].member => i = j
  /\ requests \in 0..MaxRequests

\* Whoever led an object before its present lead has a record of handing over
\* to the one who came next, by whichever command he was replaced
\* (team-service.ts:231, 288-290).
ReplacedLeadsHandOver ==
  \A i, j \in DOMAIN leads :
    (/\ i < j /\ leads[i].object = leads[j].object
     /\ \A k \in i+1..j-1 : leads[k].object # leads[i].object) =>
       \E h \in ToSet(handovers) :
         h.object = leads[i].object /\ h.outgoing = leads[i].lead /\ h.incoming = leads[j].lead

\* A head adds to an object only what is his when the row appears: he leads the
\* object and the engineer is of his team, although other commands move both
\* (team-service.ts:305-318).
TeamGrowsByItsLead ==
  \A i \in DOMAIN members' \ DOMAIN members :
     members'[i].by # Admin =>
       IsLead(members'[i].by, members'[i].object) /\ InTeamOf(members'[i].by, members'[i].member)

\* Nobody is given a new place whose account has been closed meanwhile
\* (team-service.ts:66-69: users are read FOR SHARE).
NewAssigneesAreActive ==
  /\ \A i \in DOMAIN org' \ DOMAIN org : {org'[i].member, org'[i].manager} \subseteq active
  /\ \A i \in DOMAIN leads' \ DOMAIN leads : leads'[i].lead \in active
  /\ \A i \in DOMAIN members' \ DOMAIN members : members'[i].member \in active
  /\ \A i \in DOMAIN handoffs' \ DOMAIN handoffs : handoffs'[i].assignee \in active

\* An engineer leaves a team only by a command whose sender has seen exactly
\* that membership, not an earlier or a later one of the same engineer
\* (team-service.ts:90-95).
TransfersAreInformed ==
  \A i \in Current(org) \cap DOMAIN org' :
     org'[i].ended =>
       \E t \in Attempts : In(t, "checked") /\ attempts'[t] = Idle /\ Cmd(t).seen = i

\* A handover is finished once, by its receiver or by an administrator, not by
\* both (team-service.ts:333-360).
HandoversFinishOnce ==
  \A i \in DOMAIN handovers :
     handovers[i].status # "OPEN" => handovers'[i] = handovers[i]

\* The responsible of a live package stays the engineer the work is handed to,
\* although packages are made while works are handed on
\* (pto-work-assignment-service.ts:79-87, service.ts:373-383).
PackageKeepsItsEngineer ==
  \A o \in Objects :
    packages[o] # None => \E i \in HandoffOf(o) : handoffs[i].assignee = packages[o]
=============================================================================
