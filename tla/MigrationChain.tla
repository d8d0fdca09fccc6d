--------------------------- MODULE MigrationChain ---------------------------
(***************************************************************************)
(* What a chain of migrations may run (scripts/migration-runner.ts).  A    *)
(* function body is hidden from the scan of the file that defines it, so   *)
(* the scanner carries along the chain which names can reach a body that   *)
(* changes data, and judges every additive file by it.  Beside it the      *)
(* database executes the accepted statements.                              *)
(* A statement is abstracted to the names it mentions; the lexical rules   *)
(* that find them are not modelled.                                        *)
(***************************************************************************)
EXTENDS Naturals

CONSTANTS
  Functions,     \* names of functions
  Tables,        \* names of tables and views
  Kinds,         \* kinds of statement the files hold
  MaxStatements, \* bound: statements of one file
  MaxFiles       \* bound: files of the chain

Names == Functions \cup Tables
AllKinds ==
  {"function", "table", "view", "trigger", "event", "operator", "call", "insert", "read",
   "operate", "grant"}

\* What the constants satisfy.
ChainAssumption ==
  /\ Functions \cap Tables = {}
  /\ Kinds \subseteq AllKinds
  /\ MaxStatements \in Nat \ {0}
  /\ MaxFiles \in Nat

VARIABLES
  chain,   \* the scanner's knowledge of the files read, a MigrationChain
  work,    \* its copy while a file is walked
  live,    \* the database after the files applied
  trial,   \* after the statements of the file under way
  file,    \* the file under way and what it ran, or NoFile
  files,   \* files accepted so far
  hidden,  \* a statement of an accepted additive file ran a hidden body that
           \* changes data by what it names; or by what nobody has to name (an
           \* event trigger, an operator), and that is still so at its end
  upserted \* one that was not a read fired a trigger that upserts by what it names

vars == <<chain, work, live, trial, file, files, hidden, upserted>>

\* flavour of a body: plain, armed (it changes data or builds SQL), upsert (of a
\* trigger function: INSERT ... ON CONFLICT DO UPDATE and nothing else).
Flavours == {"plain", "armed", "upsert"}
Chain ==
  [mentions : [Names -> SUBSET Names], armed : SUBSET Functions,
   upsertTriggerFunctions : SUBSET Functions, eventFunctions : SUBSET Functions,
   implicitMentions : SUBSET Functions]
\* uses: what evaluating a function or a relation calls.  fires: triggers of a
\* relation.
Database ==
  [uses : [Names -> SUBSET Names], fires : [Names -> SUBSET Functions],
   body : [Functions -> Flavours], events : SUBSET Functions, operators : SUBSET Functions]

Statement(kind) ==
  CASE kind = "function" ->
         [kind : {kind}, name : Functions, names : SUBSET Names, flavour : Flavours]
    [] kind \in {"table", "view"} -> [kind : {kind}, name : Tables, names : SUBSET Functions]
    [] kind = "trigger" ->
         [kind : {kind}, name : Tables, names : {{f} : f \in Functions}]
    [] kind \in {"event", "operator", "call"} -> [kind : {kind}, names : {{f} : f \in Functions}]
    [] kind \in {"insert", "read"} -> [kind : {kind}, names : {{t} : t \in Tables}]
    [] kind = "grant" -> [kind : {kind}, names : {{n} : n \in Names}]
    [] kind = "operate" -> [kind : {kind}, names : {{}}]

NoFile == [class |-> "none"]

emptyChain ==
  [mentions |-> [n \in Names |-> {}], armed |-> {}, upsertTriggerFunctions |-> {},
   eventFunctions |-> {}, implicitMentions |-> {}]

Init ==
  /\ chain = emptyChain /\ work = emptyChain
  /\ live = [uses |-> [n \in Names |-> {}], fires |-> [n \in Names |-> {}],
             body |-> [f \in Functions |-> "plain"], events |-> {}, operators |-> {}]
  /\ trial = live
  /\ file = NoFile
  /\ files = 0
  /\ hidden = FALSE /\ upserted = FALSE

-----------------------------------------------------------------------------
\* The scanner.

\* taintedFrom: the least set that has the seeds and whatever mentions a name
\* of the set in its definition.
Tainting(c, seeds, set) ==
  /\ seeds \subseteq set
  /\ \A n \in Names : c.mentions[n] \cap set # {} => n \in set
\* Mutated form: only definitions that mention a seed themselves.
taintedDirectly(c, seeds) == seeds \cup {n \in Names : c.mentions[n] \cap seeds # {}}
taintedFrom(c, seeds) ==
  {n \in Names : \A set \in SUBSET Names : Tainting(c, seeds, set) => n \in set}

taintedNames(c) == taintedFrom(c, c.armed)

\* absorbStatements: CREATE OR REPLACE of a function replaces what is known of
\* it, anything else adds to the relation it is about.
absorbFunction(c, s) ==
  [c EXCEPT
     !.mentions[s.name] = s.names \ {s.name},
     !.armed = IF s.flavour = "armed" THEN @ \cup {s.name} ELSE @ \ {s.name},
     !.upsertTriggerFunctions =
        IF s.flavour = "upsert" THEN @ \cup {s.name} ELSE @ \ {s.name}]

absorb(c, s) ==
  CASE s.kind = "function" -> absorbFunction(c, s)
    [] s.kind \in {"table", "view", "trigger"} -> [c EXCEPT !.mentions[s.name] = @ \cup s.names]
    [] s.kind = "event" -> [c EXCEPT !.eventFunctions = @ \cup s.names]
    [] s.kind = "operator" -> [c EXCEPT !.implicitMentions = @ \cup s.names]
    [] OTHER -> c

\* The names chainViolations looks for in a statement: none in GRANT, the new
\* body is not read, CREATE TRIGGER may name its function and its table.
Mentioned(s) ==
  CASE s.kind \in {"grant", "function", "trigger"} -> {}
    [] s.kind \in {"table", "view"} -> s.names \cup {s.name}
    [] OTHER -> s.names

\* firingFindings: an INSERT into a relation, or a call of a function, that
\* reaches a trigger function that upserts.
Fires(c, s) ==
  /\ s.kind \in {"insert", "call", "table", "view", "operator"}
  /\ s.names \cap taintedFrom(c, c.upsertTriggerFunctions) # {}

\* definitionOnlyViolations: beside an armed function a file holds only
\* definitions, its tables first and without calls.
DefinitionOnly(s) ==
  \/ s.kind \in {"function", "trigger", "grant"}
  \/ s.kind = "table" /\ s.names = {}
Arms(s) == s.kind = "function" /\ s.flavour = "armed"
BesideArmed(s) ==
  /\ file.armed => DefinitionOnly(s) /\ s.kind # "table"
  /\ Arms(s) => file.plain

StatementAccepted(s) ==
  /\ Mentioned(s) \cap taintedNames(work) = {}
  /\ ~Fires(work, s)
  /\ BesideArmed(s)

\* After the walk: what nothing has to name must not reach an armed body.
FileAccepted(c) == (c.eventFunctions \cup c.implicitMentions) \cap taintedNames(c) = {}

-----------------------------------------------------------------------------
\* The database.

Redefined(d, s) ==
  CASE s.kind = "function" -> [d EXCEPT !.uses[s.name] = s.names, !.body[s.name] = s.flavour]
    [] s.kind \in {"table", "view"} -> [d EXCEPT !.uses[s.name] = @ \cup s.names]
    [] s.kind = "trigger" -> [d EXCEPT !.fires[s.name] = @ \cup s.names]
    [] s.kind = "event" -> [d EXCEPT !.events = @ \cup s.names]
    [] s.kind = "operator" -> [d EXCEPT !.operators = @ \cup s.names]
    [] OTHER -> d

IsDefinition(s) == s.kind \in {"function", "table", "view", "trigger", "operator", "grant"}

\* What a statement evaluates by the names it holds.
Evaluated(d, s) ==
  CASE s.kind \in {"call", "table", "view"} -> s.names
    [] s.kind = "read" -> UNION {d.uses[t] : t \in s.names}
    [] s.kind = "insert" -> UNION {d.uses[t] \cup d.fires[t] : t \in s.names}
    [] OTHER -> {}

\* What it evaluates without naming it: a definition fires the event triggers.
Implied(d, s) ==
  CASE IsDefinition(s) -> d.events
    [] s.kind = "operate" -> d.operators
    [] OTHER -> {}

\* Whatever the roots call or fire, directly or through others.  A body that
\* names a relation may write to it.
Calling(d, roots, set) ==
  /\ roots \subseteq set
  /\ \A n \in Names : n \in set => d.uses[n] \cup d.fires[n] \subseteq set
Executed(d, roots) ==
  {n \in Names : \A set \in SUBSET Names : Calling(d, roots, set) => n \in set}

Bodies(d, roots, flavour) == {f \in Executed(d, roots) \cap Functions : d.body[f] = flavour}

\* What nobody has to name can run an armed body.
Bound(d) == Bodies(d, d.events \cup d.operators, "armed") # {}

-----------------------------------------------------------------------------
Open(class) ==
  /\ file = NoFile /\ files < MaxFiles
  /\ file' = [class |-> class, statements |-> 0, plain |-> TRUE, armed |-> FALSE,
              hidden |-> FALSE, implied |-> FALSE, upserted |-> FALSE]
  /\ UNCHANGED <<chain, work, live, trial, files, hidden, upserted>>

\* Legacy and contract files are absorbed and not scanned.
Ran(roots, flavour) == file.class = "additive" /\ Bodies(trial', roots, flavour) # {}
Walk(s) ==
  /\ file # NoFile /\ file.statements < MaxStatements
  /\ file.class = "additive" => StatementAccepted(s)
  /\ work' = absorb(work, s)
  /\ trial' = Redefined(trial, s)
  /\ file' = [file EXCEPT
       !.statements = @ + 1,
       !.plain = @ /\ DefinitionOnly(s),
       !.armed = @ \/ Arms(s),
       !.hidden = @ \/ Ran(Evaluated(trial', s), "armed"),
       !.implied = @ \/ Ran(Implied(trial', s), "armed"),
       !.upserted = @ \/ (s.kind # "read" /\ Ran(Evaluated(trial', s), "upsert"))]
  /\ UNCHANGED <<chain, live, files, hidden, upserted>>

Accept ==
  /\ file # NoFile
  /\ file.class = "additive" => FileAccepted(work)
  /\ chain' = work /\ live' = trial
  /\ hidden' = (hidden \/ file.hidden \/ (file.implied /\ Bound(trial)))
  /\ upserted' = (upserted \/ file.upserted)
  /\ file' = NoFile
  /\ files' = files + 1
  /\ UNCHANGED <<work, trial>>

\* MIGRATION_NOT_ADDITIVE: nothing of the directory is applied.
Refuse ==
  /\ file # NoFile
  /\ work' = chain /\ trial' = live
  /\ file' = NoFile
  /\ UNCHANGED <<chain, live, files, hidden, upserted>>

Next ==
  \/ \E class \in {"additive", "contract"} : Open(class)
  \/ \E kind \in Kinds : \E s \in Statement(kind) : Walk(s)
  \/ Accept
  \/ Refuse

Spec == Init /\ [][Next]_vars

-----------------------------------------------------------------------------
\* The scanner's knowledge is of its type, and a file that is not accepted
\* leaves no trace in it.
TypeOK ==
  /\ chain \in Chain /\ work \in Chain
  /\ live \in Database /\ trial \in Database
  /\ files \in 0..MaxFiles
  /\ file = NoFile => work = chain /\ trial = live

\* No statement of an accepted additive file names what runs a body that an
\* earlier file, or the file itself, hid from the scan, through whatever
\* functions, tables, views and triggers are in between; and what event triggers
\* and operators run unnamed is harmless again where the file ends (558-560,
\* 654-671).  What they ran before that is AcceptedFilesRanNothingHidden.
HiddenBodiesDoNotRun == ~hidden

\* No statement of an accepted additive file fires, by what it names, a trigger
\* that rewrites existing rows by an upsert, unless it is a read: only targets of
\* INSERT, MERGE and COPY and calls are looked for (445-449).
UpsertsDoNotFire == ~upserted

\* What the scanner calls untainted cannot reach an armed body in the database.
UntaintedIsHarmless ==
  \A n \in Names \ taintedNames(chain) : Bodies(live, {n}, "armed") = {}

\* Together: an accepted migration is what its class says (RV-07).
AdditiveIsHarmless ==
  TypeOK /\ HiddenBodiesDoNotRun /\ UpsertsDoNotFire /\ UntaintedIsHarmless

\* What the comments and tests say of it: beside an armed function every other
\* statement of the file must be unable to run it, and a file that fires an
\* event trigger it arms is refused (migration-runner.ts:303, 618-620).
AcceptedFilesRanNothingHidden ==
  [][files' # files => ~file.hidden /\ ~file.implied]_vars
=============================================================================
