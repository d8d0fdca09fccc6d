--------------------------- MODULE AosrPreparation ---------------------------
(***************************************************************************)
(* The AOSRs that Core prepares for the documentation packages of one      *)
(* object (aosr-service.ts, infra/020, 021): the declared method, the rows *)
(* of the acts, their links, the official numbers, the technical           *)
(* revisions, and the parties and materials the packages share.  A command *)
(* reads its act, locks the row of the package and re-reads; a generation  *)
(* locks the object's counter besides.  Content of the packages and what   *)
(* follows their presentation is DocumentationPackages; here a package is  *)
(* open, before the customer, or held by SDO.                              *)
(***************************************************************************)
EXTENDS Integers, Sequences

CONSTANTS
  Attempts,    \* server processes handling a command
  Packages,    \* documentation packages of the object
  Materials,   \* material records of the object
  Contents,    \* complete contents of an act
  InitialActs, \* Seq(Act): the acts to start with
  Nothing,     \* no method, no content, no suggestion
  MaxActs,     \* bound: acts altogether
  MaxQuality,  \* bound: quality documents of a material
  MaxRequests  \* bound: requests clients send altogether

VARIABLES
  stage,      \* [Packages -> Stages]
  method,     \* latest row of documentation_package_aosr_methods
  acts,       \* aosr_documents with their links, in the order of creation
  counter,    \* aosr_number_counters.last_number
  revisions,  \* aosr_revisions
  quality,    \* aosr_quality_documents of each material; -1: no such record
  party,      \* version of the object's party record; 0: none
  snapshots,  \* aosr_party_record_history
  dismissed,  \* packages that dismissed the typical suggestion
  attempts,   \* [Attempts -> Attempt]
  requests    \* requests sent so far

kept == <<acts, counter, revisions>>
shared == <<quality, party, snapshots>>
vars == <<stage, method, kept, shared, dismissed, attempts, requests>>

Stages == {"open", "presented", "custody"}
Methods == {"CORE", "EXTERNAL"}
\* number: 0 before the first generation.  generatedAt: the version it set.
Act ==
  [package : Packages, deleted : BOOLEAN, typical : BOOLEAN, version : Nat, number : Nat,
   revision : Nat, generatedAt : Nat, content : Contents \cup {Nothing},
   materials : SUBSET Materials, scheme : BOOLEAN]

\* What the constants satisfy.
AosrAssumption ==
  /\ Nothing \notin Contents \cup Methods
  /\ InitialActs \in Seq(Act) /\ Len(InitialActs) <= MaxActs
  /\ \A i \in DOMAIN InitialActs :
       /\ ~InitialActs[i].deleted /\ InitialActs[i].version > 0
       /\ InitialActs[i].number = 0 /\ InitialActs[i].revision = 0
       /\ InitialActs[i].generatedAt = 0
  /\ \A i, j \in DOMAIN InitialActs :
       InitialActs[i].typical /\ InitialActs[j].typical
         /\ InitialActs[i].package = InitialActs[j].package => i = j
  /\ MaxActs \in Nat /\ MaxQuality \in Nat \ {0} /\ MaxRequests \in Nat

Idle == [phase |-> "idle"]

Init ==
  /\ stage = [p \in Packages |-> "open"]
  /\ method = [p \in Packages |->
       IF \E i \in DOMAIN InitialActs : InitialActs[i].package = p THEN "CORE" ELSE Nothing]
  /\ acts = InitialActs
  /\ counter = 0
  /\ revisions = {}
  /\ quality = [m \in Materials |-> 1]
  /\ party = 1
  /\ snapshots = <<1>>
  /\ dismissed = {}
  /\ attempts = [t \in Attempts |-> Idle]
  /\ requests = 0

In(t, phase) == attempts[t].phase = phase
Cmd(t) == attempts[t].cmd

Live == {i \in DOMAIN acts : ~acts[i].deleted}
ActsOf(p) == {i \in Live : acts[i].package = p}
Generated(i) == acts[i].generatedAt = acts[i].version

-----------------------------------------------------------------------------
\* Requests; whoever edits or generates has seen the version of the act.
NewCommand ==
  UNION {
    {[kind |-> "method", package |-> p, method |-> m] : p \in Packages, m \in Methods},
    {[kind |-> "create", package |-> p, typical |-> b] : p \in Packages, b \in BOOLEAN},
    {[kind |-> kind, package |-> p] : kind \in {"dismiss", "party"}, p \in Packages},
    {[kind |-> "quality", package |-> p, material |-> m] : p \in Packages, m \in Materials},
    UNION {{[kind |-> "edit", act |-> i, content |-> c] : c \in Contents \ {acts[i].content}} :
             i \in Live},
    {[kind |-> "links", act |-> i, materials |-> ms] : i \in Live, ms \in SUBSET Materials},
    {[kind |-> kind, act |-> i] : kind \in {"remove", "generate"}, i \in Live}}

OfAct(cmd) == cmd.kind \in {"edit", "links", "remove", "generate"}
PackageOf(cmd) == IF OfAct(cmd) THEN acts[cmd.act].package ELSE cmd.package
IsContent(cmd) == cmd.kind \in {"create", "dismiss", "edit", "links", "remove", "generate"}

\* The package row, and the party record or its unique key.
Rows(cmd) ==
  {<<"package", PackageOf(cmd)>>} \cup IF cmd.kind = "party" THEN {<<"party", 0>>} ELSE {}
RowsAreFree(t) ==
  \A u \in Attempts \ {t} : attempts[u].phase \in {"locked", "numbered"} =>
    Rows(Cmd(t)) \cap Rows(Cmd(u)) = {}

\* resolveAosrReadiness, with the parties filled and the template at hand.
Ready(i) ==
  /\ acts[i].content # Nothing /\ acts[i].scheme /\ party > 0
  /\ \A m \in acts[i].materials : quality[m] > 0

\* forwardGateViolation, for a package with scope and a file-backed scheme.
ForwardGate(p) ==
  /\ method[p] # Nothing
  /\ method[p] = "CORE" => ActsOf(p) # {} /\ \A i \in ActsOf(p) : acts[i].number > 0 /\ Generated(i)

MayChoose(cmd) ==
  /\ stage[cmd.package] # "custody"
  /\ method[cmd.package] # cmd.method
  /\ cmd.method = "EXTERNAL" => ActsOf(cmd.package) = {}

\* remove() decides on the row as it was before the package was locked.
Allowed(t) ==
  LET cmd == Cmd(t) IN
    /\ IsContent(cmd) => stage[PackageOf(cmd)] = "open"
    /\ cmd.kind \in {"create", "dismiss", "generate"} => method[PackageOf(cmd)] = "CORE"
    /\ cmd.kind \in {"edit", "links", "generate"} =>
         ~acts[cmd.act].deleted /\ acts[cmd.act].version = attempts[t].seen
    /\ CASE cmd.kind = "method" -> MayChoose(cmd)
         [] cmd.kind = "create" ->
              cmd.typical => \A i \in ActsOf(cmd.package) : ~acts[i].typical
         [] cmd.kind = "remove" -> attempts[t].read.number = 0
         [] cmd.kind = "generate" -> Ready(cmd.act)
         [] cmd.kind = "party" -> party = attempts[t].seen
         [] cmd.kind = "quality" -> quality[cmd.material] >= 0
         [] OTHER -> TRUE

-----------------------------------------------------------------------------
Begin(t) ==
  /\ In(t, "idle") /\ requests < MaxRequests
  /\ \E cmd \in NewCommand :
       attempts' = [attempts EXCEPT ![t] =
         [phase |-> "begun", cmd |-> cmd,
          seen |-> IF OfAct(cmd) THEN acts[cmd.act].version ELSE IF cmd.kind = "party" THEN party ELSE 0]]
  /\ requests' = requests + 1
  /\ UNCHANGED <<stage, method, kept, shared, dismissed>>

Moves(t, attempt) ==
  /\ attempts' = [attempts EXCEPT ![t] = attempt]
  /\ UNCHANGED <<stage, method, kept, shared, dismissed, requests>>

\* aosrOf() without a lock.
Read(t) ==
  /\ In(t, "begun") /\ OfAct(Cmd(t)) /\ ~acts[Cmd(t).act].deleted
  /\ Moves(t, [phase |-> "read", cmd |-> Cmd(t), seen |-> attempts[t].seen,
               read |-> acts[Cmd(t).act]])

\* The lock, the gate, and for a generation what the DOCX is rendered from.
Lock(t) ==
  /\ In(t, "read") \/ (In(t, "begun") /\ ~OfAct(Cmd(t)))
  /\ RowsAreFree(t) /\ Allowed(t)
  /\ Moves(t, [phase |-> "locked", cmd |-> Cmd(t),
               evidence |-> IF Cmd(t).kind = "generate" THEN [m \in acts[Cmd(t).act].materials |-> quality[m]]
                            ELSE <<>>])

CounterIsFree(t) ==
  \A u \in Attempts \ {t} : In(u, "numbered") => attempts[u].number <= counter

\* INSERT .. ON CONFLICT DO UPDATE holds the counter's row until the end; a
\* regeneration keeps its number and leaves the counter alone.
TakeNumber(t) ==
  /\ In(t, "locked") /\ Cmd(t).kind = "generate"
  /\ LET number == acts[Cmd(t).act].number IN
       /\ number = 0 => CounterIsFree(t)
       /\ Moves(t, [phase |-> "numbered", cmd |-> Cmd(t), evidence |-> attempts[t].evidence,
                    number |-> IF number = 0 THEN counter + 1 ELSE number])

\* A failed guard, render, upload or constraint, a lost connection: nothing is
\* left, the number included.
Refuse(t) == ~In(t, "idle") /\ Moves(t, Idle)

Committing(t, kind) ==
  /\ In(t, IF kind = "generate" THEN "numbered" ELSE "locked") /\ Cmd(t).kind = kind
  /\ attempts' = [attempts EXCEPT ![t] = Idle]
  /\ UNCHANGED <<stage, requests>>

SetMethod(t) ==
  /\ Committing(t, "method")
  /\ method' = [method EXCEPT ![Cmd(t).package] = Cmd(t).method]
  /\ UNCHANGED <<kept, shared, dismissed>>

CreateAct(t) ==
  /\ Committing(t, "create")
  /\ Len(acts) < MaxActs
  /\ acts' = Append(acts,
       [package |-> Cmd(t).package, deleted |-> FALSE, typical |-> Cmd(t).typical, version |-> 1,
        number |-> 0, revision |-> 0, generatedAt |-> 0, content |-> Nothing,
        materials |-> {}, scheme |-> FALSE])
  /\ UNCHANGED <<method, counter, revisions, shared, dismissed>>

DismissSuggestion(t) ==
  /\ Committing(t, "dismiss")
  /\ dismissed' = dismissed \cup {Cmd(t).package}
  /\ UNCHANGED <<method, kept, shared>>

Versioned(act) == [act EXCEPT !.version = @ + 1]
Changes(t, act) ==
  /\ acts' = [acts EXCEPT ![Cmd(t).act] = act]
  /\ UNCHANGED <<method, shared, dismissed>>

EditAct(t) ==
  /\ Committing(t, "edit")
  /\ Changes(t, Versioned([acts[Cmd(t).act] EXCEPT !.content = Cmd(t).content]))
  /\ UNCHANGED <<counter, revisions>>

\* Replaces the material links, and links the package's scheme.
SetLinks(t) ==
  /\ Committing(t, "links")
  /\ Changes(t, Versioned([acts[Cmd(t).act] EXCEPT !.materials = Cmd(t).materials, !.scheme = TRUE]))
  /\ UNCHANGED <<counter, revisions>>

\* The foreign key of aosr_revisions; without it a stale read would decide.
\* Mutated form: the deletion cascades.
CascadesTo(i) == TRUE
NothingRefersTo(i) == \A r \in revisions : r.act # i

RemoveAct(t) ==
  /\ Committing(t, "remove")
  /\ NothingRefersTo(Cmd(t).act)
  /\ Changes(t, [acts[Cmd(t).act] EXCEPT !.deleted = TRUE, !.materials = {}, !.scheme = FALSE])
  /\ UNCHANGED <<counter, revisions>>

\* A technical revision under the act's number; the counter moves only when
\* the number was new.
GenerateAct(t) ==
  /\ Committing(t, "generate")
  /\ LET i == Cmd(t).act
         act == acts[i]
         number == attempts[t].number IN
       /\ \A j \in Live \ {i} : acts[j].number # number \* aosr_documents_number_unique
       /\ Changes(t, [act EXCEPT !.number = number, !.revision = @ + 1,
                                 !.generatedAt = act.version + 1, !.version = @ + 1])
       /\ counter' = IF act.number = 0 THEN number ELSE counter
       /\ revisions' = revisions \cup
            {[act |-> i, revision |-> act.revision + 1, number |-> number,
              content |-> act.content, evidence |-> attempts[t].evidence]}

SaveParty(t) ==
  /\ Committing(t, "party")
  /\ party' = party + 1
  /\ snapshots' = Append(snapshots, party + 1)
  /\ UNCHANGED <<method, kept, quality, dismissed>>

\* addQualityDocument; createMaterial brings its documents with it.
AddQualityDocument(t) ==
  /\ Committing(t, "quality")
  /\ quality[Cmd(t).material] < MaxQuality
  /\ quality' = [quality EXCEPT ![Cmd(t).material] = @ + 1]
  /\ UNCHANGED <<method, kept, party, snapshots, dismissed>>

-----------------------------------------------------------------------------
\* The package moves under its row's lock: presented through the gate,
\* returned or taken back, handed to SDO on other grounds.
MovePackage(p, from, to) ==
  /\ stage[p] = from
  /\ \A t \in Attempts : attempts[t].phase \in {"locked", "numbered"} => PackageOf(Cmd(t)) # p
  /\ stage' = [stage EXCEPT ![p] = to]
  /\ UNCHANGED <<method, kept, shared, dismissed, attempts, requests>>

Present(p) == ForwardGate(p) /\ MovePackage(p, "open", "presented")
Correct(p) == MovePackage(p, "presented", "open")
HandOff(p) == MovePackage(p, "presented", "custody")
ReturnToPto(p) == MovePackage(p, "custody", "open")

Next ==
  \/ \E t \in Attempts :
       \/ Begin(t) \/ Read(t) \/ Lock(t) \/ TakeNumber(t) \/ Refuse(t)
       \/ SetMethod(t) \/ CreateAct(t) \/ DismissSuggestion(t)
       \/ EditAct(t) \/ SetLinks(t) \/ RemoveAct(t) \/ GenerateAct(t)
       \/ SaveParty(t) \/ AddQualityDocument(t)
  \/ \E p \in Packages : Present(p) \/ Correct(p) \/ HandOff(p) \/ ReturnToPto(p)

Spec == Init /\ [][Next]_vars

-----------------------------------------------------------------------------
TypeOK ==
  /\ stage \in [Packages -> Stages]
  /\ method \in [Packages -> Methods \cup {Nothing}]
  /\ \A i \in DOMAIN acts : acts[i] \in Act
  /\ counter \in Nat /\ party \in Nat /\ dismissed \subseteq Packages
  /\ quality \in [Materials -> 0..MaxQuality]

\* The official numbers of an object are 1, 2, .. without a gap and each is
\* held by one act, whatever generation was refused after it took a number
\* and whatever removal decided on an act read before the lock.
NumbersAreConsecutive ==
  LET numbered == {i \in Live : acts[i].number > 0} IN
    /\ {acts[i].number : i \in numbered} = 1..counter
    /\ \A i, j \in numbered : acts[i].number = acts[j].number => i = j

\* Every generation left one revision, all of an act under its number, and no
\* revision outlives its act.
RevisionsAreOfTheirAct ==
  /\ \A i \in DOMAIN acts :
       {r.revision : r \in {s \in revisions : s.act = i}} = 1..acts[i].revision
  /\ \A r \in revisions : r.act \in Live /\ r.number = acts[r.act].number
  /\ \A r, s \in revisions : r.act = s.act /\ r.revision = s.revision => r = s

\* The DOCX of an act that counts as generated was rendered from the row and
\* the links as they are; of quality documents, which are of the object and
\* version no act, it may lack later ones and never shows one that is gone.
GeneratedIsRendered ==
  \A i \in Live : acts[i].number > 0 /\ Generated(i) =>
    \E r \in revisions :
      /\ r.act = i /\ r.revision = acts[i].revision /\ r.content = acts[i].content
      /\ DOMAIN r.evidence = acts[i].materials
      /\ \A m \in acts[i].materials : r.evidence[m] \in 1..quality[m]

\* A package prepared outside Core has no act in it, though the choice and a
\* creation are handled at once; a typical suggestion is accepted once.
ExternalKeepsNothing ==
  \A p \in Packages :
    /\ method[p] # "CORE" => ActsOf(p) = {}
    /\ \A i, j \in ActsOf(p) : acts[i].typical /\ acts[j].typical => i = j

\* The method is no content: a package before the customer may be declared to
\* be prepared in Core, and loses the gate it came through.  In no other way
\* is it lost, and as the package then has no act the choice can be taken back
\* until SDO holds it.
GateIsLostByChoiceOnly ==
  \A p \in Packages : stage[p] # "open" /\ ~ForwardGate(p) => method[p] = "CORE" /\ ActsOf(p) = {}

\* Each version of the parties has its snapshot, in order, whichever package
\* it was saved through.
PartyHistoryIsWhole == snapshots = [v \in 1..party |-> v]

\* The numbers of an object's acts have no gap and no twin, a revision keeps
\* its act and its number, a DOCX that counts as current shows the row as it
\* is, a package prepared outside Core has no act, a presented one loses its
\* gate only by a choice of method, and the parties keep their history
\* (aosr-service.ts:127-206, 310-384, infra/020).
ActsAreSound ==
  /\ TypeOK /\ NumbersAreConsecutive /\ RevisionsAreOfTheirAct /\ GeneratedIsRendered
  /\ ExternalKeepsNothing /\ GateIsLostByChoiceOnly /\ PartyHistoryIsWhole
=============================================================================
