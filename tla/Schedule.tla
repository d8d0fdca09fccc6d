------------------------------ MODULE Schedule ------------------------------
(***************************************************************************)
(* The production schedule of one object (schedule-service.ts, infra/025): *)
(* numbered revisions, of which one may be the draft being prepared and    *)
(* one the approved baseline, and the reasons recorded for delays against  *)
(* the baseline.  Commands share the coordination lock of the object with  *)
(* createExecutionUnit, the approval holds it alone, and all but the       *)
(* creation of a unit lock the object's row.  The approver's page reads    *)
(* the revisions and their entries one after the other.                    *)
(***************************************************************************)
EXTENDS Integers, Sequences

CONSTANTS
  Attempts,      \* server processes handling a request
  Works,         \* works of the object
  Units,         \* execution units that may be created
  WorkOf,        \* [Units -> Works]
  Plans,         \* planned dates and order of an entry, opaque
  NoScope,       \* no predecessor
  MaxRevisions,  \* bound: revisions ever drafted
  MaxReasons,    \* bound: delay reasons ever recorded
  MaxRequests    \* bound: commands clients send altogether

Scopes == Works \cup Units
\* What the constants satisfy.
ScheduleAssumption ==
  /\ WorkOf \in [Units -> Works]
  /\ NoScope \notin Scopes
  /\ Works \cap Units = {}
  /\ Plans # {}
  /\ MaxRevisions \in Nat
  /\ MaxReasons \in Nat
  /\ MaxRequests \in Nat

VARIABLES
  revisions,  \* revisions by number
  units,      \* units created so far
  reasons,    \* Seq(Reason), in the order they were recorded
  attempts,   \* [Attempts -> attempt]
  requests    \* commands sent so far

vars == <<revisions, units, reasons, attempts, requests>>

\* An entry plans a scope: a unit, or a work with no units.  Its version is 1
\* at first, so that 0 says that the scope is not planned.
Entry == [plan : Plans, pred : Scopes \cup {NoScope}, version : Nat \ {0}]
Absent == [version |-> 0]
Entries == [Scopes -> Entry \cup {Absent}]
NoEntries == [s \in Scopes |-> Absent]
PlannedScopes(entries) == {s \in Scopes : entries[s] # Absent}
\* based: number of the baseline the draft was cloned from, 0 for the first.
Statuses == {"DRAFT", "APPROVED", "SUPERSEDED", "DISCARDED"}
Revision == [status : Statuses, based : 0..MaxRevisions, version : Nat, entries : Entries]
Reason == [scope : Scopes, revision : 1..MaxRevisions, status : {"OPEN", "RESOLVED"}]

Kinds == {"create", "add", "edit", "remove", "discard", "approve", "reason", "resolve", "unit"}
\* revision: the draft a client saw.  version: of that draft or entry.  seen:
\* the entries the approver's page shows.
Command ==
  [kind : Kinds, scope : Scopes \cup {NoScope}, plan : Plans, pred : Scopes \cup {NoScope},
   id : Nat, version : Nat, seen : Entries]
Idle == [phase |-> "idle"]
Attempt == [phase : {"reading", "begun", "coordinated", "checked"}, cmd : Command] \cup {Idle}

In(t, phases) == attempts[t].phase \in phases
Cmd(t) == attempts[t].cmd
Goto(t, phase) ==
  /\ attempts' = [attempts EXCEPT ![t].phase = phase]
  /\ UNCHANGED <<revisions, units, reasons, requests>>

Numbers == DOMAIN revisions
Is(n, status) == revisions[n].status = status
With(status) == {n \in Numbers : Is(n, status)}
Current == IF With("APPROVED") = {} THEN 0 ELSE CHOOSE n \in With("APPROVED") : TRUE
HasDraft == With("DRAFT") # {}
Draft == CHOOSE n \in With("DRAFT") : TRUE
ScopesOf(n) == PlannedScopes(revisions[n].entries)
EntriesOf(n) == IF n = 0 THEN NoEntries ELSE revisions[n].entries

Init ==
  /\ revisions = <<>>
  /\ units = {}
  /\ reasons = <<>>
  /\ attempts = [t \in Attempts |-> Idle]
  /\ requests = 0

-----------------------------------------------------------------------------
Exclusive(cmd) == cmd.kind = "approve"
LockModeIsFree(t) ==
  \A u \in Attempts \ {t} : In(u, {"coordinated", "checked"}) =>
    ~Exclusive(Cmd(t)) /\ ~Exclusive(Cmd(u))

LocksObject(cmd) == cmd.kind # "unit"
ObjectIsFree(t) ==
  LocksObject(Cmd(t)) =>
    \A u \in Attempts \ {t} : ~(In(u, {"checked"}) /\ LocksObject(Cmd(u)))

-----------------------------------------------------------------------------
\* hasPredecessorCycle walks every chain.  Each entry follows at most one
\* other, so a chain closes on itself where some entries only follow each other.
Cyclic(entries) ==
  \E S \in (SUBSET PlannedScopes(entries)) \ {{}} : \A s \in S : entries[s].pred \in S

WholeWorks(n) == ScopesOf(n) \cap Works
WithUnits == {WorkOf[u] : u \in units}
Changed(n) ==
  LET was == EntriesOf(Current)
      is == revisions[n].entries
  IN  ~(/\ PlannedScopes(was) = PlannedScopes(is)
        /\ \A s \in PlannedScopes(is) : was[s].plan = is[s].plan /\ was[s].pred = is[s].pred)

\* What the draft becomes: a new entry has version 1, an edited one the next.
Put(entries, cmd, version) ==
  [entries EXCEPT ![cmd.scope] = [plan |-> cmd.plan, pred |-> cmd.pred, version |-> version]]

CanAdd(cmd) ==
  LET s == cmd.scope
  IN  /\ HasDraft
      /\ s \notin ScopesOf(Draft)
      /\ cmd.pred \in ScopesOf(Draft) \cup {NoScope}
      /\ IF s \in Units THEN s \in units /\ WorkOf[s] \notin ScopesOf(Draft)
         ELSE s \notin WithUnits

\* draftEntry: the entry is of a revision that is still a draft.
CanTouch(cmd) ==
  /\ Is(cmd.id, "DRAFT")
  /\ cmd.scope \in ScopesOf(cmd.id)
  /\ revisions[cmd.id].entries[cmd.scope].version = cmd.version
CanEdit(cmd) ==
  /\ CanTouch(cmd)
  /\ cmd.pred \in (ScopesOf(cmd.id) \cup {NoScope}) \ {cmd.scope}
  /\ ~Cyclic(Put(revisions[cmd.id].entries, cmd, cmd.version))
CanRemove(cmd) ==
  /\ CanTouch(cmd)
  /\ \A s \in ScopesOf(cmd.id) : revisions[cmd.id].entries[s].pred # cmd.scope

SeenDraft(cmd) == HasDraft /\ revisions[Draft].version = cmd.version
CanApprove(cmd) ==
  /\ SeenDraft(cmd)
  /\ ScopesOf(Draft) # {}
  /\ WholeWorks(Draft) \cap WithUnits = {}
  /\ Current # 0 => Changed(Draft)

Allowed(cmd) ==
  /\ cmd.kind = "create" => ~HasDraft
  /\ cmd.kind = "add" => CanAdd(cmd)
  /\ cmd.kind = "edit" => CanEdit(cmd)
  /\ cmd.kind = "remove" => CanRemove(cmd)
  /\ cmd.kind = "discard" => SeenDraft(cmd)
  /\ cmd.kind = "approve" => CanApprove(cmd)
  /\ cmd.kind = "reason" => Current # 0 /\ cmd.scope \in ScopesOf(Current)
  /\ cmd.kind = "resolve" => reasons[cmd.id].status = "OPEN"
  /\ cmd.kind = "unit" => cmd.scope \notin units

-----------------------------------------------------------------------------
NewCommand(kind, scope, plan, pred, id, v) ==
  [kind |-> kind, scope |-> scope, plan |-> plan, pred |-> pred, id |-> id, version |-> v,
   seen |-> NoEntries]
AnyPlan == CHOOSE p \in Plans : TRUE
Simple(kind, scope, id, v) == NewCommand(kind, scope, AnyPlan, NoScope, id, v)
Rows ==
  {Simple("create", NoScope, 0, 0)}
    \cup {Simple("unit", u, 0, 0) : u \in Units \ units}
    \cup {Simple("resolve", NoScope, r, 0) : r \in DOMAIN reasons}
Reasons == {Simple("reason", s, 0, 0) : s \in ScopesOf(Current)}
Decisions ==
  {Simple(kind, NoScope, Draft, revisions[Draft].version) : kind \in {"discard", "approve"}}
Preds == ScopesOf(Draft) \cup {NoScope}
VersionOf(s) == revisions[Draft].entries[s].version
Additions ==
  {NewCommand("add", s, p, pred, Draft, revisions[Draft].version) :
     s \in Works \cup units, p \in Plans, pred \in Preds}
Edits ==
  {NewCommand("edit", s, p, pred, Draft, VersionOf(s)) :
     s \in ScopesOf(Draft), p \in Plans, pred \in Preds}
Removals == {Simple("remove", s, Draft, VersionOf(s)) : s \in ScopesOf(Draft)}
Commands ==
  Rows \cup (IF Current = 0 THEN {} ELSE Reasons)
       \cup (IF HasDraft THEN Decisions \cup Additions \cup Edits \cup Removals ELSE {})

Request(t, cmd) ==
  /\ In(t, {"idle"})
  /\ requests < MaxRequests
  /\ attempts' = [attempts EXCEPT ![t] =
       [phase |-> IF cmd.kind = "approve" THEN "reading" ELSE "begun", cmd |-> cmd]]
  /\ requests' = requests + 1
  /\ UNCHANGED <<revisions, units, reasons>>

\* objectSchedule read the revisions, with their versions, and now the entries.
ReadEntries(t) ==
  /\ In(t, {"reading"})
  /\ attempts' = [attempts EXCEPT ![t] =
       [phase |-> "begun", cmd |-> [Cmd(t) EXCEPT !.seen = revisions[Cmd(t).id].entries]]]
  /\ UNCHANGED <<revisions, units, reasons, requests>>

Coordinate(t) ==
  /\ In(t, {"begun"})
  /\ LockModeIsFree(t)
  /\ Goto(t, "coordinated")

LockAndCheck(t) ==
  /\ In(t, {"coordinated"})
  /\ ObjectIsFree(t)
  /\ Allowed(Cmd(t))
  /\ Goto(t, "checked")

Refuse(t) ==
  /\ ~In(t, {"idle"})
  /\ attempts' = [attempts EXCEPT ![t] = Idle]
  /\ UNCHANGED <<revisions, units, reasons, requests>>

Committing(t, kind) ==
  /\ In(t, {"checked"})
  /\ Cmd(t).kind = kind
  /\ attempts' = [attempts EXCEPT ![t] = Idle]
  /\ requests' = requests

Cloned(entries) ==
  [s \in Scopes |-> IF entries[s] = Absent THEN Absent ELSE [entries[s] EXCEPT !.version = 1]]
CreateDraft(t) ==
  /\ Committing(t, "create")
  /\ Len(revisions) < MaxRevisions
  /\ revisions' = Append(revisions,
       [status |-> "DRAFT", based |-> Current, version |-> 1,
        entries |-> Cloned(EntriesOf(Current))])
  /\ UNCHANGED <<units, reasons>>

\* Every change of a revision moves its version, a change of its entries too
\* (touchDraft).
\* Mutated form: the version is left as it was.
MovedUntouched(n, status, entries) ==
  [revisions[n] EXCEPT !.status = status, !.entries = entries]
Moved(n, status, entries) ==
  [revisions[n] EXCEPT !.status = status, !.entries = entries,
                       !.version = revisions[n].version + 1]
Touch(n, entries) ==
  revisions' = [revisions EXCEPT ![n] = Moved(n, revisions[n].status, entries)]

AddEntry(t) ==
  /\ Committing(t, "add")
  /\ Touch(Draft, Put(revisions[Draft].entries, Cmd(t), 1))
  /\ UNCHANGED <<units, reasons>>
EditEntry(t) ==
  /\ Committing(t, "edit")
  /\ LET n == Cmd(t).id
     IN  Touch(n, Put(revisions[n].entries, Cmd(t), Cmd(t).version + 1))
  /\ UNCHANGED <<units, reasons>>
RemoveEntry(t) ==
  /\ Committing(t, "remove")
  /\ LET n == Cmd(t).id
     IN  Touch(n, [revisions[n].entries EXCEPT ![Cmd(t).scope] = Absent])
  /\ UNCHANGED <<units, reasons>>

Marked(n, status) == Moved(n, status, revisions[n].entries)
DiscardDraft(t) ==
  /\ Committing(t, "discard")
  /\ revisions' = [revisions EXCEPT ![Draft] = Marked(Draft, "DISCARDED")]
  /\ UNCHANGED <<units, reasons>>

Approved ==
  [n \in Numbers |->
     CASE n = Current -> Marked(n, "SUPERSEDED")
       [] n = Draft -> Marked(n, "APPROVED")
       [] OTHER -> revisions[n]]
ApproveDraft(t) ==
  /\ Committing(t, "approve")
  /\ revisions' = Approved
  /\ UNCHANGED <<units, reasons>>

\* Whether the scope is late is decided by ScheduleAssessment.
RecordReason(t) ==
  /\ Committing(t, "reason")
  /\ Len(reasons) < MaxReasons
  /\ reasons' = Append(reasons, [scope |-> Cmd(t).scope, revision |-> Current, status |-> "OPEN"])
  /\ UNCHANGED <<revisions, units>>
ResolveReason(t) ==
  /\ Committing(t, "resolve")
  /\ reasons' = [reasons EXCEPT ![Cmd(t).id].status = "RESOLVED"]
  /\ UNCHANGED <<revisions, units>>
CreateExecutionUnit(t) ==
  /\ Committing(t, "unit")
  /\ units' = units \cup {Cmd(t).scope}
  /\ UNCHANGED <<revisions, reasons>>

Next ==
  \E t \in Attempts :
    \/ \E cmd \in Commands : Request(t, cmd)
    \/ ReadEntries(t)
    \/ Coordinate(t)
    \/ LockAndCheck(t)
    \/ Refuse(t)
    \/ CreateDraft(t)
    \/ AddEntry(t)
    \/ EditEntry(t)
    \/ RemoveEntry(t)
    \/ DiscardDraft(t)
    \/ ApproveDraft(t)
    \/ RecordReason(t)
    \/ ResolveReason(t)
    \/ CreateExecutionUnit(t)

Spec == Init /\ [][Next]_vars

-----------------------------------------------------------------------------
\* Every variable keeps its shape.
TypeOK ==
  /\ revisions \in Seq(Revision)
  /\ units \subseteq Units
  /\ reasons \in Seq(Reason)
  /\ attempts \in [Attempts -> Attempt]
  /\ requests \in 0..MaxRequests

\* The draft is a correction of the baseline in force, whatever was approved
\* or discarded since it was opened, and there is one of each at most
\* (schedule-service.ts createDraft, approveDraft).
DraftCorrectsTheBaseline ==
  /\ \A m, n \in With("DRAFT") : m = n
  /\ \A m, n \in With("APPROVED") : m = n
  /\ \A n \in With("DRAFT") : revisions[n].based = Current

\* What is approved was seen, if it is the draft that was looked at: its
\* entries are those of the approver's page, although the page read them after
\* the version it sends back (objectSchedule, approveDraft).
SameDraftAsSeen ==
  \A t \in Attempts : ApproveDraft(t) /\ Draft = Cmd(t).id
     => revisions[Draft].entries = Cmd(t).seen

\* A revision that is no draft never changes its entries, and only a baseline
\* changes its status, once (schedule_revisions_guard says the same).
HistoryIsFrozen ==
  \A n \in Numbers : Is(n, "DRAFT")
     \/ /\ revisions'[n].entries = revisions[n].entries
        /\ \/ revisions'[n].status = revisions[n].status
           \/ Is(n, "APPROVED") /\ revisions'[n].status = "SUPERSEDED"

\* No revision plans a work both as a whole and through its units, and no
\* chain of predecessors leaves its revision or closes on itself.
RevisionsAreConsistent ==
  \A n \in Numbers :
    /\ \A u \in ScopesOf(n) \cap Units : WorkOf[u] \notin ScopesOf(n)
    /\ \A s \in ScopesOf(n) : revisions[n].entries[s].pred \in ScopesOf(n) \cup {NoScope}
    /\ ~Cyclic(revisions[n].entries)

\* A work is approved as a whole only while it has no units, although a unit
\* may be created by another process at any time (schedule-service.ts:438).
WholeWorksHaveNoUnits ==
  \A n \in Numbers : Is(n, "DRAFT") /\ revisions'[n].status = "APPROVED"
     => WholeWorks(n) \cap WithUnits = {}

\* A delay reason is about a scope that the baseline it names plans, also
\* when that baseline has been replaced since (schedule_delay_reasons_guard).
ReasonsExplainABaseline ==
  \A r \in DOMAIN reasons :
    /\ reasons[r].revision \in With("APPROVED") \cup With("SUPERSEDED")
    /\ reasons[r].scope \in ScopesOf(reasons[r].revision)
=============================================================================
