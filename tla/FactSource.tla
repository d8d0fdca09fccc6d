----------------------------- MODULE FactSource -----------------------------
(***************************************************************************)
(* The two sources of a work's actual quantity (service.ts, infra/026) and *)
(* the one resolver that reads them (gpr2/fact-resolver.ts), now and as it *)
(* was known at an earlier instant.  Progress of the whole work, execution *)
(* units, portions and portion facts are written by concurrent             *)
(* transactions; a row is dated by the start of its transaction.           *)
(***************************************************************************)
EXTENDS Integers, Sequences, FiniteSetsExt, Totals

CONSTANTS
  Attempts,       \* server processes handling a request
  Quantities,     \* quantities clients report
  InitialModes,   \* fact_source_mode of the work before migration 026 or R19
  InitialActuals, \* legacy quantities imported without any progress row
  Target,         \* planned quantity whose completion is dated
  MaxPortions,    \* bound: portions of the work
  MaxRequests     \* bound: commands clients send altogether

Modes == {"UNCLASSIFIED", "LEGACY_WORK", "PORTION"}

\* What the constants satisfy.
FactAssumption ==
  /\ Quantities \subseteq Nat
  /\ InitialModes \subseteq Modes \ {"PORTION"}
  /\ InitialActuals \subseteq Nat
  /\ Target \in Nat \ {0}
  /\ MaxPortions \in Nat
  /\ MaxRequests \in Nat

VARIABLES
  mode,         \* works.fact_source_mode
  switchedAt,   \* created_at of its history row, 0 when there is none
  actual,       \* works.actual_quantity
  progress,     \* work_progress, in the order of commits
  units,        \* created_at of the execution units
  portions,     \* portions with their RP facts, in the order of commits
  attempts,     \* [Attempts -> Attempt]
  requests,     \* commands sent so far
  now           \* instants: a transaction takes at least one

vars == <<mode, switchedAt, actual, progress, units, portions, attempts, requests, now>>
evidence == <<mode, switchedAt, actual, progress, units, portions>>

Record == [quantity : Nat, at : Nat]
Portion == [at : Nat, facts : Seq(Record)]
Command == [kind : {"progress", "unit", "portion", "fact"}, portion : Nat, quantity : Nat, seen : Nat]
Idle == [phase |-> "idle"]
Attempt == [phase : {"begun", "checked"}, cmd : Command, at : Nat] \cup {Idle}

In(t, phase) == attempts[t].phase = phase
Cmd(t) == attempts[t].cmd
Facts(p) == portions[p].facts
HasFacts == \E p \in DOMAIN portions : Facts(p) # <<>>

Init ==
  /\ mode \in InitialModes
  /\ switchedAt = 0
  /\ actual \in InitialActuals
  /\ progress = <<>>
  /\ units = {}
  /\ portions = <<>>
  /\ attempts = [t \in Attempts |-> Idle]
  /\ requests = 0
  /\ now = 1

-----------------------------------------------------------------------------
\* The resolver.  Every operator takes the instant up to which rows are seen;
\* CURRENT sees them all and reads the legacy figure from the work's row.
CURRENT == -1
Seen(records, at) == {r \in Range(records) : at = CURRENT \/ r.at <= at}
Latest(seen) == {r \in seen : \A q \in seen : q.at <= r.at}

NoQuantity == -1
\* The rows of the latest group must agree; a sequence number orders new rows
\* that tie, which two facts of one portion never do.
Agreed(seen) ==
  IF \A r, q \in Latest(seen) : r.quantity = q.quantity
  THEN (CHOOSE r \in Latest(seen) : TRUE).quantity
  ELSE NoQuantity

\* [state, quantity] of the legacy figure, and whether there is one at all.
LegacyAt(at) ==
  LET seen == Seen(progress, at)
  IN  IF at = CURRENT
      THEN [state |-> "KNOWN", quantity |-> actual]
      ELSE IF seen = {}
      THEN IF progress = <<>> /\ actual > 0
           THEN [state |-> "HISTORY_UNAVAILABLE", quantity |-> NoQuantity]
           ELSE [state |-> "KNOWN", quantity |-> 0]
      ELSE IF Agreed(seen) = NoQuantity
      THEN [state |-> "UNKNOWN_TIE", quantity |-> NoQuantity]
      ELSE [state |-> "KNOWN", quantity |-> Agreed(seen)]
LegacyEvidence(at) == Seen(progress, at) # {} \/ (progress = <<>> /\ actual > 0)

Reported(at) ==
  {p \in DOMAIN portions :
     (at = CURRENT \/ portions[p].at <= at) /\ Seen(Facts(p), at) # {}}
PortionSum(at) ==
  SumOver([p \in Reported(at) |-> Agreed(Seen(Facts(p), at))], Reported(at))
PortionTie(at) == \E p \in Reported(at) : Agreed(Seen(Facts(p), at)) = NoQuantity

ModeAt(at) ==
  IF mode = "UNCLASSIFIED" THEN IF Reported(at) = {} THEN "LEGACY_WORK" ELSE "PORTION"
  ELSE IF at = CURRENT \/ switchedAt = 0 \/ switchedAt <= at THEN mode
  ELSE "LEGACY_WORK"

\* Whether a classified legacy work holds portion facts, or an unclassified
\* one facts of both kinds.
Overlap(at) ==
  IF ModeAt(at) = "LEGACY_WORK" THEN mode # "UNCLASSIFIED" /\ Reported(at) # {}
  ELSE mode = "UNCLASSIFIED" /\ LegacyEvidence(at)

Fact(state, quantity) == [state |-> state, quantity |-> quantity]
ResolveWorkFact(at) ==
  CASE ModeAt(at) = "LEGACY_WORK" /\ LegacyAt(at).state # "KNOWN" ->
         Fact(LegacyAt(at).state, NoQuantity)
    [] ModeAt(at) = "LEGACY_WORK" /\ LegacyAt(at).state = "KNOWN" ->
         Fact(IF Overlap(at) THEN "OVERLAP_UNRECONCILED" ELSE "KNOWN", LegacyAt(at).quantity)
    [] ModeAt(at) = "PORTION" /\ PortionTie(at) -> Fact("UNKNOWN_TIE", NoQuantity)
    [] ModeAt(at) = "PORTION" /\ Reported(at) = {} -> Fact("NONE_REPORTED", 0)
    [] OTHER -> Fact(IF Overlap(at) THEN "OVERLAP_UNRECONCILED" ELSE "KNOWN", PortionSum(at))

\* Instants at which anything the resolver reads was recorded.
Instants ==
  {r.at : r \in Range(progress)} \cup (IF switchedAt = 0 THEN {} ELSE {switchedAt})
    \cup UNION {{r.at : r \in Range(Facts(p))} : p \in DOMAIN portions}

\* resolveCompletionObservedAt walks back from the newest instant and stops at
\* the first one below the target, or at one it cannot resolve.
Stops(i) == ResolveWorkFact(i).quantity < Target

RunAfter(last) == {i \in Instants : i > last}

CompletionObservedAt ==
  LET stops == {i \in Instants : Stops(i)}
      last == IF stops = {} THEN 0 ELSE Max(stops)
  IN  IF ResolveWorkFact(CURRENT).quantity = NoQuantity THEN "UNKNOWN"
      ELSE IF ResolveWorkFact(CURRENT).quantity < Target THEN "NOT_COMPLETED"
      ELSE IF stops # {} /\ ResolveWorkFact(last).quantity = NoQuantity THEN "UNKNOWN"
      ELSE IF RunAfter(last) = {} THEN "UNKNOWN"
      ELSE "OBSERVED"
CompletionStart ==
  LET stops == {i \in Instants : Stops(i)}
  IN  Min(RunAfter(IF stops = {} THEN 0 ELSE Max(stops)))

-----------------------------------------------------------------------------
\* The rows of the works table: FOR UPDATE by progress, FOR KEY SHARE by the
\* foreign key of a new unit, a plain UPDATE by the first portion fact.
HoldsWork(t) == In(t, "checked") /\ Cmd(t).kind = "progress"
SharesWork(t) == In(t, "checked") /\ Cmd(t).kind = "unit"

\* Mutated form: progress reads the work without locking it.
WorkIsReadable(t) == TRUE
WorkIsFree(t) ==
  \A u \in Attempts \ {t} :
    /\ ~HoldsWork(u)
    /\ Cmd(t).kind = "progress" => ~SharesWork(u)

PortionIsFree(t) ==
  \A u \in Attempts \ {t} :
    ~(In(u, "checked") /\ Cmd(u).kind = "fact" /\ Cmd(u).portion = Cmd(t).portion)

CanLock(t) ==
  CASE Cmd(t).kind \in {"progress", "unit"} -> WorkIsFree(t)
    [] Cmd(t).kind = "fact" -> PortionIsFree(t)
    [] OTHER -> TRUE

LegacyFact == progress # <<>> \/ actual > 0

\* evaluatePortionFactModeTransition: a classified work with a legacy fact
\* takes no portion fact, an unclassified one keeps its old behaviour.
ModeTransition ==
  CASE mode = "PORTION" -> "ALREADY_PORTION"
    [] mode = "UNCLASSIFIED" -> "UNCLASSIFIED_PRE_R02_BEHAVIOUR"
    [] mode = "LEGACY_WORK" /\ LegacyFact -> "LEGACY_FACT_PRESENT"
    [] OTHER -> "PERSIST_PORTION"

Allowed(t) ==
  CASE Cmd(t).kind = "progress" ->
         Cmd(t).seen = Len(progress) /\ mode # "PORTION" /\ units = {}
    [] Cmd(t).kind = "fact" ->
         Cmd(t).seen = Len(Facts(Cmd(t).portion)) /\ ModeTransition # "LEGACY_FACT_PRESENT"
    [] OTHER -> TRUE

NewCommand(kind, portion, quantity, seen) ==
  [kind |-> kind, portion |-> portion, quantity |-> quantity, seen |-> seen]
Commands ==
  {NewCommand("progress", 0, q, Len(progress)) : q \in Quantities}
    \cup {NewCommand("unit", 0, 0, 0)}
    \cup (IF units = {} THEN {} ELSE {NewCommand("portion", 0, 0, 0)})
    \cup {NewCommand("fact", p, q, Len(Facts(p))) : p \in DOMAIN portions, q \in Quantities}

Request(t, cmd) ==
  /\ In(t, "idle")
  /\ requests < MaxRequests
  /\ attempts' = [attempts EXCEPT ![t] = [phase |-> "begun", cmd |-> cmd, at |-> now]]
  /\ requests' = requests + 1
  /\ UNCHANGED <<evidence, now>>

LockAndCheck(t) ==
  /\ In(t, "begun")
  /\ CanLock(t)
  /\ Allowed(t)
  /\ attempts' = [attempts EXCEPT ![t].phase = "checked"]
  /\ UNCHANGED <<evidence, requests, now>>

Refuse(t) ==
  /\ In(t, "begun")
  /\ CanLock(t)
  /\ ~Allowed(t)
  /\ attempts' = [attempts EXCEPT ![t] = Idle]
  /\ UNCHANGED <<evidence, requests, now>>

\* Commit takes the clock on: a client that saw it sends its next command later.
Committing(t, kind) ==
  /\ In(t, "checked")
  /\ Cmd(t).kind = kind
  /\ attempts' = [attempts EXCEPT ![t] = Idle]
  /\ now' = now + 1
  /\ requests' = requests
At(t) == attempts[t].at
Reporting(t) == [quantity |-> Cmd(t).quantity, at |-> At(t)]

Progress(t) ==
  /\ Committing(t, "progress")
  /\ actual' = Cmd(t).quantity
  /\ progress' = Append(progress, Reporting(t))
  /\ UNCHANGED <<mode, switchedAt, units, portions>>

CreateUnit(t) ==
  /\ Committing(t, "unit")
  /\ units' = units \cup {At(t)}
  /\ UNCHANGED <<mode, switchedAt, actual, progress, portions>>

CreatePortion(t) ==
  /\ Committing(t, "portion")
  /\ Len(portions) < MaxPortions
  /\ portions' = Append(portions, [at |-> At(t), facts |-> <<>>])
  /\ UNCHANGED <<mode, switchedAt, actual, progress, units>>

WithFact(t) ==
  LET p == Cmd(t).portion
  IN  [portions EXCEPT ![p] =
         [at |-> portions[p].at, facts |-> Append(Facts(p), Reporting(t))]]

PortionFact(t) ==
  /\ Committing(t, "fact")
  /\ mode # "LEGACY_WORK"
  /\ portions' = WithFact(t)
  /\ UNCHANGED <<mode, switchedAt, actual, progress, units>>

\* The first portion fact of a classified work: its UPDATE waits for a lock on
\* the work, and the trigger looks at the legacy fact once more.
FirstPortionFact(t) ==
  /\ Committing(t, "fact")
  /\ mode = "LEGACY_WORK"
  /\ WorkIsFree(t)
  /\ ~LegacyFact
  /\ mode' = "PORTION"
  /\ switchedAt' = At(t)
  /\ portions' = WithFact(t)
  /\ UNCHANGED <<actual, progress, units>>

\* Aborted: by the trigger, by a lost connection, by the end of the process.
Abort(t) ==
  /\ ~In(t, "idle")
  /\ attempts' = [attempts EXCEPT ![t] = Idle]
  /\ UNCHANGED <<evidence, requests, now>>

Next ==
  \E t \in Attempts :
    \/ \E cmd \in Commands : Request(t, cmd)
    \/ LockAndCheck(t)
    \/ Refuse(t)
    \/ Progress(t)
    \/ CreateUnit(t)
    \/ CreatePortion(t)
    \/ PortionFact(t)
    \/ FirstPortionFact(t)
    \/ Abort(t)

Spec == Init /\ [][Next]_vars

-----------------------------------------------------------------------------
\* No open transaction can still add a row dated at or before the instant.
Settled(at) == at < now /\ \A t \in Attempts : In(t, "idle") \/ attempts[t].at > at

\* Every variable keeps its shape.
TypeOK ==
  /\ mode \in Modes
  /\ switchedAt \in Nat
  /\ actual \in Nat
  /\ progress \in Seq(Record)
  /\ units \subseteq Nat
  /\ portions \in Seq(Portion)
  /\ attempts \in [Attempts -> Attempt]
  /\ requests \in 0..MaxRequests
  /\ now \in Nat

\* A classified work never holds facts of both kinds, whichever of progress,
\* unit and portion fact comes first (service.ts:107-114, 325-333; infra/026).
SourcesDoNotMix ==
  mode # "UNCLASSIFIED" =>
    /\ ~(LegacyFact /\ HasFacts)
    /\ HasFacts => mode = "PORTION"
    /\ mode = "PORTION" <=> switchedAt # 0

\* A unit without facts takes no figure away: the work's quantity falls to
\* zero only when somebody reports so (fact-resolver.ts, A05).
NoFigureIsLost ==
  ~HasFacts => ResolveWorkFact(CURRENT) = Fact("KNOWN", actual)

\* What the current reading says is what is known at this instant, though one
\* reads the work's row and the other its history (resolveWorkFact).
CurrentIsKnownNow ==
  ResolveWorkFact(now).state # "HISTORY_UNAVAILABLE"
    => ResolveWorkFact(now) = ResolveWorkFact(CURRENT)

\* The completion observed is the earliest instant since which the quantity
\* known has never been below the target (resolveCompletionObservedAt).
CompletionStartsTheRun ==
  CompletionObservedAt = "OBSERVED" =>
    /\ CompletionStart \in Instants
    /\ \A at \in CompletionStart..now : ResolveWorkFact(at).quantity >= Target
    /\ \/ CompletionStart = Min(Instants)
       \/ ResolveWorkFact(CompletionStart - 1).quantity \in 0..(Target - 1)

\* What was known at a settled instant never changes afterwards
\* (fact-resolver.ts:16-18, KNOWN-AT).  An imported figure without history is
\* the exception: its first progress row gives it one, and a past of zero.
ThePastIsStable ==
  \A at \in 1..now :
     Settled(at) /\ ResolveWorkFact(at).state # "HISTORY_UNAVAILABLE"
       => ResolveWorkFact(at)' = ResolveWorkFact(at)
=============================================================================
