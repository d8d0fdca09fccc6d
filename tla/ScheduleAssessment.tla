------------------------- MODULE ScheduleAssessment -------------------------
(***************************************************************************)
(* Plan versus fact of the entries of one approved baseline, as days pass  *)
(* and facts are reported, corrected or become unknown                     *)
(* (packages/domain/schedule.ts).  All arithmetic is on whole days and     *)
(* quantities; percentages are kept as fractions.                          *)
(***************************************************************************)
EXTENDS Integers, FiniteSetsExt

CONSTANTS
  Entries,   \* entries of the baseline
  WorkOf,    \* [Entries -> works]
  Starts,    \* planned start of an entry, a day number
  Lengths,   \* days from planned start to planned finish
  Planned,   \* planned quantity of every entry
  MaxFact,   \* bound: the largest quantity reported, which may exceed the plan
  MaxDay     \* bound: the last day looked at

\* What the constants satisfy.
AssessmentAssumption ==
  /\ Starts \cup Lengths \subseteq Nat
  /\ Planned \in Nat \ {0}
  /\ MaxFact \in Nat
  /\ MaxDay \in Nat

VARIABLES
  plan,   \* [Entries -> [start, finish]]
  fact,   \* [Entries -> Fact]
  today   \* day number

vars == <<plan, fact, today>>

\* Nothing was reported, a quantity was, or the resolver cannot state it.
Fact == [state : {"NOT_REPORTED", "REPORTED", "UNKNOWN"}, quantity : 0..MaxFact]

-----------------------------------------------------------------------------
Unknown(e) == fact[e].state = "UNKNOWN"
Done(e) == IF fact[e].state = "REPORTED" THEN fact[e].quantity ELSE 0

Phase(e, day) ==
  CASE day < plan[e].start -> "NOT_DUE"
    [] day >= plan[e].finish -> "DUE_COMPLETE"
    [] OTHER -> "UNDERWAY"

Duration(e) == plan[e].finish - plan[e].start
\* plannedProgressOn, as a fraction of the duration, of 1 for a zero length: 0
\* before the start and all of it from the finish date on.
Whole(e) == Max({Duration(e), 1})
PlannedShare(e, day) ==
  CASE Phase(e, day) = "NOT_DUE" -> 0
    [] Phase(e, day) = "DUE_COMPLETE" -> Whole(e)
    [] OTHER -> day - plan[e].start

\* lag in days = (today - start) - duration * fact / planned, times planned.
ScaledLag(e) == (today - plan[e].start) * Planned - Duration(e) * Done(e)
\* Mutated form: the lag is rounded up.
LagRoundedUp(e) ==
  IF ScaledLag(e) >= 1 THEN (ScaledLag(e) + Planned - 1) \div Planned ELSE 0
DelayDays(e) == IF ScaledLag(e) >= Planned THEN ScaledLag(e) \div Planned ELSE 0

DelayKind(e) ==
  IF today >= plan[e].finish THEN "FINISH" ELSE IF Done(e) = 0 THEN "START" ELSE "PROGRESS"

\* deriveScheduleEntryStatus of a fact that is known.
StatusKnown(e) ==
  LET delay == DelayDays(e)
  IN  IF Done(e) >= Planned THEN [state |-> "COMPLETED", days |-> 0, kind |-> "NONE"]
      ELSE IF delay >= 1 THEN [state |-> "DELAYED", days |-> delay, kind |-> DelayKind(e)]
      ELSE [state |-> IF Done(e) > 0 THEN "IN_PROGRESS" ELSE "NOT_STARTED",
            days |-> 0, kind |-> "NONE"]
Status(e) ==
  IF Unknown(e) THEN [state |-> "UNASSESSED", days |-> 0, kind |-> "NONE"] ELSE StatusKnown(e)

States(S) == {Status(e).state : e \in S}
\* aggregateScheduleAssessment over the entries of a work.
Aggregate(S) ==
  CASE "DELAYED" \in States(S) -> "DELAYED"
    [] "DELAYED" \notin States(S) /\ "UNASSESSED" \in States(S) -> "UNASSESSED"
    [] States(S) = {"COMPLETED"} -> "COMPLETED"
    [] States(S) = {"NOT_STARTED"} -> "NOT_STARTED"
    [] OTHER -> "IN_PROGRESS"

Count(state) == Cardinality({e \in Entries : Status(e).state = state})
MaxDelay == Max({Status(e).days : e \in Entries} \cup {0})
\* resolveObjectScheduleConclusion over all entries of the baseline.
Conclusion ==
  CASE Entries = {} -> "NO_BASELINE"
    [] Count("DELAYED") > 0 -> "DELAYED"
    [] Count("DELAYED") = 0 /\ Count("UNASSESSED") > 0 -> "UNDETERMINED"
    [] OTHER -> "ON_TRACK"

\* delayReasonViolation admits a reason.
MayExplain(e) == Status(e).state = "DELAYED"

-----------------------------------------------------------------------------
Init ==
  /\ plan \in [Entries -> {[start |-> s, finish |-> s + l] : s \in Starts, l \in Lengths}]
  /\ fact = [e \in Entries |-> [state |-> "NOT_REPORTED", quantity |-> 0]]
  /\ today = 0

DayPasses ==
  /\ today < MaxDay
  /\ today' = today + 1
  /\ UNCHANGED <<plan, fact>>

\* A report or a correction of the quantity, which may lower it.
Report(e, q) ==
  /\ fact' = [fact EXCEPT ![e] = [state |-> "REPORTED", quantity |-> q]]
  /\ UNCHANGED <<plan, today>>

\* Two confirmations that cannot be ordered.
Tie(e) ==
  /\ fact[e].state = "REPORTED"
  /\ fact' = [fact EXCEPT ![e] = [state |-> "UNKNOWN", quantity |-> 0]]
  /\ UNCHANGED <<plan, today>>

Next ==
  \/ DayPasses
  \/ \E e \in Entries : Tie(e) \/ \E q \in 0..MaxFact : Report(e, q)

Spec == Init /\ [][Next]_vars

-----------------------------------------------------------------------------
\* Every variable keeps its shape, and so does every conclusion.
TypeOK ==
  /\ plan \in [Entries -> [start : Nat, finish : Nat]]
  /\ fact \in [Entries -> Fact]
  /\ today \in 0..MaxDay
  /\ \A e \in Entries : Status(e).days \in 0..MaxDay

\* Days ago the plan, begun by then, had already reached what is done today.
ReachedDaysAgo(e) ==
  {d \in 0..today : /\ today - d >= plan[e].start
                    /\ PlannedShare(e, today - d) * Planned >= Whole(e) * Done(e)}

\* The delay of an unfinished entry is the distance to the last day on which
\* the linear plan asked for no more than is done: business rule 3, with the
\* plan clamped to the finish date, computed by the code without a division.
DelayIsTheDistanceToThePlan ==
  \A e \in Entries : ~Unknown(e) /\ Done(e) < Planned =>
    Status(e).days = Max(ReachedDaysAgo(e) \cup {0})

\* From the day after its finish date an entry is delayed unless it is complete
\* or its fact is unknown: no rounding leaves it in progress.
OverdueIsNeverOnTrack ==
  \A e \in Entries : today > plan[e].finish =>
    Status(e).state \in {"DELAYED", "COMPLETED", "UNASSESSED"}

\* While nothing is reported a delay grows by exactly one day every day.
DelayGrowsDaily ==
  \A e \in Entries : DayPasses /\ Status(e).days > 0 => Status(e)'.days = Status(e).days + 1

\* The object is on track only if every entry is proved to be, it is delayed
\* exactly when one of its works is, and the entries are counted once each.
ConclusionCoversEveryEntry ==
  LET works == {WorkOf[e] : e \in Entries}
      of(w) == {e \in Entries : WorkOf[e] = w}
  IN  /\ Conclusion = "ON_TRACK" =>
           \A e \in Entries : ~Unknown(e) /\ (today > plan[e].finish => Done(e) >= Planned)
      /\ (Conclusion = "DELAYED") = (\E w \in works : Aggregate(of(w)) = "DELAYED")
      /\ (Conclusion = "DELAYED") = (MaxDelay > 0)
      /\ Conclusion = "UNDETERMINED" => \E w \in works : Aggregate(of(w)) = "UNASSESSED"
      /\ Count("DELAYED") + Count("COMPLETED") + Count("IN_PROGRESS") + Count("NOT_STARTED")
           + Count("UNASSESSED") = Cardinality(Entries)

\* More work reported never makes an entry later, and what may be explained by
\* a reason is a delay that more work could remove.
ReportingNeverDelays ==
  \A e \in Entries :
     ~Unknown(e) /\ ~Unknown(e)' /\ UNCHANGED today /\ Done(e)' >= Done(e)
       => /\ Status(e)'.days <= Status(e).days
          /\ MayExplain(e)' => MayExplain(e)
=============================================================================
