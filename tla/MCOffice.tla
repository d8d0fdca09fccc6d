------------------------------ MODULE MCOffice ------------------------------
(***************************************************************************)
(* The office beside the site: its acts, accounts, tokens and files, the   *)
(* tree of its folders, and the teams and leads, the engineers of a work   *)
(* and the executive packages of the older closing route.  One part runs   *)
(* at a time, over the same two server processes, and the others stand     *)
(* still.                                                                  *)
(***************************************************************************)
EXTENDS Office, TLC

CONSTANTS
  t1, t2, t3,          \* server processes, or requests
  o1, o2, w1, w2,      \* objects and works
  h1, h2, e1, e2,      \* heads of PTO and engineers
  p1, p2, d1, k1, k2,  \* packages, a file, keys of closings
  m1, c1, c2,          \* a material, contents of an act
  s1, s2               \* twins: installers, packages of one work

VARIABLES
  scene, folders, mapping, writers

acting == <<stage, method, acts, counter, revisions, quality, party, snapshots, dismissed,
            preparing, prepared>>
accounts == <<users, sessions, attempts, requests>>
installation == <<row, issued, expired, spent, lost, calls>>
storage == <<uploads, active, waiting, disk, records, named, unsure, crashed>>
closing == <<executive, accepted, materials, cases, closings, closers, asked>>
office == <<acting, accounts, installation, storage, closing>>
tree == <<folders, mapping, writers>>
others == <<teaming, tree>>
mcVars == <<scene, office, others>>

TwoAttempts == {t1, t2}

-----------------------------------------------------------------------------
Nothing ==
  [orgEnds |-> {}, orgTransfers |-> {}, leadChanges |-> {}, memberEnds |-> {},
   memberAdds |-> {}, handovers |-> {}]
(* A new lead, with an engineer moved to him; an engineer let go.          *)
LeadRedistributions ==
  {[Nothing EXCEPT !.leadChanges = {<<o1, h>>}] : h \in {h1, h2}}
    \cup {[Nothing EXCEPT !.leadChanges = {<<o1, h2>>}, !.orgTransfers = {<<e2, h2>>}],
          [Nothing EXCEPT !.leadChanges = {<<o1, h2>>}, !.handovers = {<<o1, h1, h2>>}],
          [Nothing EXCEPT !.orgEnds = {e2}]}
(* One engineer replaced by the other, with and without a handover.        *)
MemberRedistributions ==
  {[Nothing EXCEPT !.memberEnds = {<<o1, e1>>}, !.memberAdds = {<<o1, e2>>},
                   !.handovers = {<<o1, e1, e2>>}],
   [Nothing EXCEPT !.memberEnds = {<<o1, e1>>}, !.memberAdds = {<<o1, e2>>}],
   [Nothing EXCEPT !.memberEnds = {<<o1, e2>>}],
   [Nothing EXCEPT !.handovers = {<<o1, e2, e1>>}]}

Of(e, h) == [member |-> e, manager |-> h, ended |-> FALSE]
FirstLeads == <<[object |-> o1, lead |-> h1, ended |-> FALSE]>>

FirstOrg == <<Of(e1, h1), Of(e2, h1)>>
FirstMembers == <<[object |-> o1, member |-> e1, by |-> h1, ended |-> FALSE]>>
MCRedistributions == LeadRedistributions \cup MemberRedistributions

(* The leads of an object and one engineer; who is on it; who does its work. *)
Arranged(cmd) ==
  CASE scene = "leads" ->
         /\ cmd.kind \in {"org", "orgEnd", "lead", "redistribute", "add"}
         /\ cmd.kind \in {"org", "orgEnd", "add"} => cmd.member = e2
         /\ cmd.kind = "redistribute" => cmd.parts \in LeadRedistributions
    [] scene = "members" ->
         /\ cmd.kind \in {"redistribute", "add", "remove", "complete", "lead"}
         /\ cmd.kind = "redistribute" => cmd.parts \in MemberRedistributions
    [] scene = "work" -> cmd.kind \in {"handoff", "package", "archive", "org"}

-----------------------------------------------------------------------------
(* Two packages of one work and one of a work of another object.           *)
ExecutiveWork == [q \in {s1, s2} |-> w1] @@ p2 :> w2
ExecutiveObject == [q \in {s1, s2} |-> o1] @@ p2 :> o2

(* One package up to its last closing; the two of a work, up to the        *)
(* transfer, with a document each; and files in packages of two objects.   *)
Asked(cmd) ==
  CASE scene = "money" ->
         /\ cmd.package = p2
         /\ cmd.kind = "document" => (cmd.type = "AOSR") = (cmd.file = d1)
         /\ cmd.kind = "approve" => cmd.document <= 2
    [] scene = "transfers" ->
         /\ cmd.package # p2 /\ cmd.kind # "close"
         /\ cmd.kind = "document" =>
              executive[cmd.package].documents = <<>> /\ cmd.type = "AOSR" /\ cmd.file = d1
         /\ cmd.kind = "approve" => cmd.document = 1
         /\ cmd.kind = "calculate" => cmd.value = 0
    [] scene = "evidence" -> cmd.kind \in {"document", "approve"}
MostAsked == IF scene = "evidence" THEN 3 ELSE 8
WorksOfScene ==
  CASE scene = "money" -> {w2} [] scene = "transfers" -> {w1} [] scene = "evidence" -> {w1, w2}

(* Two packages of an object, each with an act ready to be generated.      *)
ReadyAct(p) ==
  [package |-> p, deleted |-> FALSE, typical |-> p = p1, version |-> 1, number |-> 0,
   revision |-> 0, generatedAt |-> 0, content |-> c1, materials |-> {m1}, scheme |-> TRUE]
TwoActs == <<ReadyAct(p1), ReadyAct(p2)>>

(* Two administrators, one of whom installs, and an employee who is not    *)
(* in Core or is an outside participant.                                   *)
On(role) == [role |-> role, access |-> "on"]
With(account) == h1 :> On("ADMIN") @@ h2 :> On("ADMIN") @@ e1 :> account
Staffs == {With(account) : account \in {None, On("CONTRACTOR_VIEWER")}}

Tree == INSTANCE DiskFolders WITH Writers <- TwoAttempts, Depth <- 2, MaxFolders <- 5

ASSUME OfficeHolds == OfficeAssumption
ASSUME TreeHolds == Tree!FoldersAssumption

-----------------------------------------------------------------------------
(* Nobody was ever logged in, nothing installed.                           *)
AccountsStill == users = With(None) /\ sessions = [k \in Tokens |-> None]
InstallationStill == issued = 0
ClosingStill == materials = {}

Scenes ==
  {"acts", "accounts", "tokens", "files", "tree", "money", "transfers", "evidence",
   "leads", "members", "work"}

MCInit ==
  /\ Acts!Init /\ Access!Init /\ Portal!Init /\ Storage!Init /\ Closing!Init
  /\ Teams!Init /\ Tree!Init
  /\ scene \in Scenes
  /\ scene # "accounts" => AccountsStill
  /\ scene # "tokens" => InstallationStill
  /\ IF scene \in {"money", "transfers", "evidence"} THEN materials \subseteq WorksOfScene
     ELSE ClosingStill

ActsNext ==
  scene = "acts" /\ Acts!Next /\ UNCHANGED <<accounts, installation, storage, closing, others>>
AccountsNext ==
  scene = "accounts" /\ Access!Next /\ UNCHANGED <<acting, installation, storage, closing, others>>
TokensNext ==
  scene = "tokens" /\ Portal!Next /\ UNCHANGED <<acting, accounts, storage, closing, others>>
FilesNext ==
  scene = "files" /\ Storage!Next /\ UNCHANGED <<acting, accounts, installation, closing, others>>
TreeNext ==
  /\ scene = "tree" /\ Tree!Next
  /\ UNCHANGED <<office, teaming>>
TeamsNext ==
  /\ scene \in {"leads", "members", "work"}
  /\ Teams!Next
  /\ assigned' # assigned =>
       \A t \in Attempts : managers'[t] # managers[t] => Arranged(managers'[t].cmd)
  /\ scene = "leads" => e1 \in onDuty'
  /\ UNCHANGED <<office, tree>>
ClosingNext ==
  /\ scene \in {"money", "transfers", "evidence"}
  /\ Closing!Next
  /\ asked' <= MostAsked
  /\ asked' # asked => \A t \in Attempts : closers'[t] # closers[t] => Asked(closers'[t].cmd)
  /\ (accepted' \cup materials') \subseteq WorksOfScene
  /\ UNCHANGED <<acting, accounts, installation, storage, others>>

MCNext ==
  /\ \/ ActsNext \/ AccountsNext \/ TokensNext \/ FilesNext \/ TreeNext
     \/ TeamsNext \/ ClosingNext
  /\ UNCHANGED scene

MCSpec == MCInit /\ [][MCNext]_mcVars

(* The accounts alone.                                                     *)
AccountsSpec == MCInit /\ scene = "accounts" /\ [][AccountsNext /\ UNCHANGED scene]_mcVars

Symmetry == Permutations({t1, t2}) \cup Permutations({s1, s2})

-----------------------------------------------------------------------------
\* First uploads converge on one tree under its mapped folders, and a folder
\* that is there keeps its row while others recreate the deleted ones
\* (bitrix-disk-folders.ts:25-26, 123-145).
FoldersConverge == Tree!FoldersConverge
=============================================================================
