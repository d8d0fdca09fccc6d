--------------------------- MODULE FinishTemplates ---------------------------
(***************************************************************************)
(* Technological templates, the finish systems of an object built from     *)
(* them, and the decisions about legacy finishes and Works                 *)
(* (gpr2-r05-catalog.ts, gpr2-r05-legacy.ts, infra/030, 031, 033).         *)
(* A template is drafted and published version by version; a finish system *)
(* is published at once and states of every stage of its source whether it *)
(* inherits, overrides or excludes it; a legacy decision supersedes the    *)
(* current one of its subject.  The object's lock is shared by all these   *)
(* commands and is left out; rows are locked when a command checks.        *)
(***************************************************************************)
EXTENDS Integers, FiniteSets, Sequences, FiniteSetsExt

CONSTANTS
  Attempts,    \* server processes handling a command
  Templates,   \* finish_templates, by code
  FinishTypes, \* object_finish_types of one object
  Subjects,    \* legacy finishes and historical Works of the object
  Keys,        \* occurrence keys
  Contents,    \* position, work type, scope, unit and hold of a stage
  Drafts,      \* stages a client sends with a draft: sets of Stage
  Upserts,     \* contents of a finish system a client sends
  MaxCommands  \* bound: commands clients send altogether

VARIABLES
  rowVersion, \* [Templates -> version of the row], 0 while it does not exist
  versions,   \* finish_template_versions with their stages
  systems,    \* object_finish_system_versions with occurrences and exclusions
  decisions,  \* legacy_finish_mappings and legacy_work_classifications
  attempts,   \* [Attempts -> Attempt]
  commands    \* commands sent so far

vars == <<rowVersion, versions, systems, decisions, attempts, commands>>

None == 0
Stage == [key : Keys, content : Contents]
\* from: the key of the stage of the source it stands for.  reason: one is given.
Input == [key : Keys, content : Contents, from : Keys \cup {None}, reason : BOOLEAN]
Version ==
  [template : Templates, number : Nat, state : {"DRAFT", "PUBLISHED"}, stages : SUBSET Stage,
   at : Nat]
Occurrence ==
  [key : Keys, content : Contents, from : Keys \cup {None}, reason : BOOLEAN,
   kind : {"INHERITED", "OVERRIDDEN", "ADDED_LOCAL"}]
System ==
  [finish : FinishTypes, number : Nat, source : Nat, occurrences : SUBSET Occurrence,
   excluded : SUBSET Keys]
Decision == [subject : Subjects, supersedes : Nat]

Distinct(S) == \A a, b \in S : a.key = b.key => a = b

\* What the constants satisfy.
TemplatesAssumption ==
  /\ None \notin Keys
  /\ \A d \in Drafts : d # {} /\ d \subseteq Stage /\ Distinct(d)
  /\ \A u \in Upserts : u.stages # {} /\ u.stages \subseteq Input /\ Distinct(u.stages)
                        /\ u.excluded \subseteq Keys
  /\ MaxCommands \in Nat

Init ==
  /\ rowVersion = [tpl \in Templates |-> 0]
  /\ versions = <<>> /\ systems = <<>> /\ decisions = <<>>
  /\ attempts = [t \in Attempts |-> [phase |-> "idle"]]
  /\ commands = 0

In(t, phase) == attempts[t].phase = phase
Cmd(t) == attempts[t].cmd

NewCommand ==
  UNION {
    {[kind |-> "draft", template |-> tpl, new |-> rowVersion[tpl] = 0, stages |-> d] :
       tpl \in Templates, d \in Drafts},
    {[kind |-> "publish", version |-> v, seen |-> rowVersion[versions[v].template]] :
       v \in DOMAIN versions},
    {[kind |-> "upsert", finish |-> f, source |-> v, input |-> u] :
       f \in FinishTypes, v \in {None} \cup DOMAIN versions, u \in Upserts},
    {[kind |-> "decide", subject |-> s, supersedes |-> d] :
       s \in Subjects, d \in {None} \cup DOMAIN decisions}}

\* Rows locked FOR UPDATE: the template, the finish type.  A legacy decision locks none.
Locked(cmd) ==
  CASE cmd.kind = "draft" -> {cmd.template}
    [] cmd.kind = "publish" -> {versions[cmd.version].template}
    [] cmd.kind = "upsert" -> {cmd.finish}
    [] OTHER -> {}
RowsAreFree(t) ==
  \A u \in Attempts \ {t} : In(u, "checked") => Locked(Cmd(t)) \cap Locked(Cmd(u)) = {}

-----------------------------------------------------------------------------
VersionsOf(tpl) == {v \in DOMAIN versions : versions[v].template = tpl}
SystemsOf(f) == {v \in DOMAIN systems : systems[v].finish = f}

\* The number of the next version.
NextNumber(of, all) == 1 + Max({0} \cup {all[v].number : v \in of})

MayDraft(cmd) == cmd.new <=> rowVersion[cmd.template] = 0

MayPublish(cmd) ==
  /\ rowVersion[versions[cmd.version].template] = cmd.seen
  /\ versions[cmd.version].state = "DRAFT"

StagesOf(v) == IF v = None THEN {} ELSE versions[v].stages
KeysOf(v) == {s.key : s \in StagesOf(v)}
StageOf(v, k) == CHOOSE s \in StagesOf(v) : s.key = k

\* Provenance is derived from the content, not from what the client says.
KindOf(o, source) ==
  IF o.from = None THEN "ADDED_LOCAL"
  ELSE IF StageOf(source, o.from) = [key |-> o.key, content |-> o.content] THEN "INHERITED"
  ELSE "OVERRIDDEN"

Used(u) == {o.from : o \in u.stages} \ {None}
UsedOnce(u) == \A o, p \in u.stages : o.from = p.from /\ o.from # None => o = p

Covers(u, source) == Used(u) \cup u.excluded = KeysOf(source)

MayUpsert(cmd) ==
  /\ cmd.source # None => versions[cmd.source].state = "PUBLISHED"
  /\ Used(cmd.input) \cap cmd.input.excluded = {}
  /\ Covers(cmd.input, cmd.source)
  /\ UsedOnce(cmd.input) \* finish_stage_occurrences_source_once
  /\ \A o \in cmd.input.stages : KindOf(o, cmd.source) = "OVERRIDDEN" => o.reason

\* gpr2_legacy_mapping_chain_guard, gpr2_legacy_classification_chain_guard.
MayDecide(cmd) == cmd.supersedes # None => decisions[cmd.supersedes].subject = cmd.subject

Allowed(cmd) ==
  CASE cmd.kind = "draft" -> MayDraft(cmd)
    [] cmd.kind = "publish" -> MayPublish(cmd)
    [] cmd.kind = "upsert" -> MayUpsert(cmd)
    [] cmd.kind = "decide" -> MayDecide(cmd)

-----------------------------------------------------------------------------
Send(t, cmd) ==
  /\ In(t, "idle")
  /\ commands < MaxCommands
  /\ attempts' = [attempts EXCEPT ![t] = [phase |-> "begun", cmd |-> cmd]]
  /\ commands' = commands + 1
  /\ UNCHANGED <<rowVersion, versions, systems, decisions>>

LockAndCheck(t) ==
  /\ In(t, "begun")
  /\ RowsAreFree(t)
  /\ Allowed(Cmd(t))
  /\ attempts' = [attempts EXCEPT ![t].phase = "checked"]
  /\ UNCHANGED <<rowVersion, versions, systems, decisions, commands>>

\* Refused by a guard, a unique index or a trigger, or ended by a lost connection.
Refuse(t) ==
  /\ ~In(t, "idle")
  /\ attempts' = [attempts EXCEPT ![t] = [phase |-> "idle"]]
  /\ UNCHANGED <<rowVersion, versions, systems, decisions, commands>>

Committing(t, kind) ==
  /\ In(t, "checked")
  /\ Cmd(t).kind = kind
  /\ attempts' = [attempts EXCEPT ![t] = [phase |-> "idle"]]
  /\ commands' = commands

\* finish_template_versions_one_draft.
NoDraft(tpl) == \A v \in VersionsOf(tpl) : versions[v].state # "DRAFT"

DraftFinishTemplate(t) ==
  /\ Committing(t, "draft")
  /\ LET tpl == Cmd(t).template
     IN  /\ NoDraft(tpl)
         /\ rowVersion' = [rowVersion EXCEPT ![tpl] = IF Cmd(t).new THEN 1 ELSE @]
         /\ versions' = Append(versions,
              [template |-> tpl, number |-> NextNumber(VersionsOf(tpl), versions),
               state |-> "DRAFT", stages |-> Cmd(t).stages, at |-> 0])
  /\ UNCHANGED <<systems, decisions>>

\* at: the row version of the template when it was published.
PublishFinishTemplate(t) ==
  /\ Committing(t, "publish")
  /\ LET v == Cmd(t).version
         tpl == versions[v].template
     IN  /\ versions' = [versions EXCEPT ![v].state = "PUBLISHED", ![v].at = rowVersion[tpl]]
         /\ rowVersion' = [rowVersion EXCEPT ![tpl] = @ + 1]
  /\ UNCHANGED <<systems, decisions>>

UpsertFinishSystem(t) ==
  /\ Committing(t, "upsert")
  /\ LET cmd == Cmd(t)
         occurrence(o) ==
           LET kind == KindOf(o, cmd.source)
           IN  [key |-> o.key, content |-> o.content, from |-> o.from, kind |-> kind,
                reason |-> o.reason /\ kind # "INHERITED"]
     IN  systems' = Append(systems,
           [finish |-> cmd.finish, number |-> NextNumber(SystemsOf(cmd.finish), systems),
            source |-> cmd.source, occurrences |-> {occurrence(o) : o \in cmd.input.stages},
            excluded |-> cmd.input.excluded])
  /\ UNCHANGED <<rowVersion, versions, decisions>>

\* The unique indexes ..._root_uq and ..._superseded_once.
\* Mutated form: without the second, two corrections of one decision both stand.
RootIsFree(cmd) ==
  cmd.supersedes = None => \A d \in DOMAIN decisions : decisions[d].subject # cmd.subject
LinkIsFree(cmd) ==
  /\ RootIsFree(cmd)
  /\ cmd.supersedes # None => \A d \in DOMAIN decisions : decisions[d].supersedes # cmd.supersedes

RecordLegacyDecision(t) ==
  /\ Committing(t, "decide")
  /\ LinkIsFree(Cmd(t))
  /\ decisions' = Append(decisions, [subject |-> Cmd(t).subject, supersedes |-> Cmd(t).supersedes])
  /\ UNCHANGED <<rowVersion, versions, systems>>

Next == \E t \in Attempts :
  \/ \E cmd \in NewCommand : Send(t, cmd)
  \/ LockAndCheck(t) \/ Refuse(t)
  \/ DraftFinishTemplate(t) \/ PublishFinishTemplate(t)
  \/ UpsertFinishSystem(t) \/ RecordLegacyDecision(t)

Spec == Init /\ [][Next]_vars

-----------------------------------------------------------------------------
TypeOK ==
  /\ rowVersion \in [Templates -> 0..MaxCommands]
  /\ \A v \in DOMAIN versions : versions[v] \in Version
  /\ \A s \in DOMAIN systems :
       systems[s] \in System /\ systems[s].source \in {None} \cup DOMAIN versions
  /\ \A d \in DOMAIN decisions :
       decisions[d] \in Decision /\ decisions[d].supersedes < d
  /\ commands \in 0..MaxCommands

\* Versions of a template, and of a finish system, are numbered 1, 2, 3 ... as
\* they came, however drafts and publications interleave, and only the last
\* version of a template may still be a draft ("one draft at a time").
VersionsFollowEachOther ==
  /\ \A tpl \in Templates :
       LET of == VersionsOf(tpl)
       IN  /\ {versions[v].number : v \in of} = 1..Cardinality(of)
           /\ \A v \in of : versions[v].state = "DRAFT" => versions[v].number = Cardinality(of)
  /\ \A f \in FinishTypes :
       {systems[s].number : s \in SystemsOf(f)} = 1..Cardinality(SystemsOf(f))

\* Nothing of a template disappears silently: every stage of the published
\* source of a finish system is there once, used or excluded (infra/031, 033 B02).
ProvenanceIsWhole ==
  \A s \in DOMAIN systems :
    LET sys == systems[s]
    IN  /\ sys.source # None => versions[sys.source].state = "PUBLISHED"
        /\ \A k \in Keys :
             LET users == {o \in sys.occurrences : o.from = k}
             IN  Cardinality(users) + (IF k \in sys.excluded THEN 1 ELSE 0)
                   = IF k \in KeysOf(sys.source) THEN 1 ELSE 0

\* What is called inherited is still an exact copy of the stage of its source,
\* and what departs from the stage says why.
InheritedIsExact ==
  \A s \in DOMAIN systems : \A o \in systems[s].occurrences :
    o.from # None =>
      LET same == StageOf(systems[s].source, o.from) = [key |-> o.key, content |-> o.content]
      IN  /\ o.kind = "INHERITED" <=> same
          /\ ~same => o.reason

\* A published version is final and was published once, though administrators
\* publish, and draft the next one, at the same time.
PublishedIsFinal ==
  /\ \A v \in DOMAIN versions : versions[v].state = "PUBLISHED" => versions'[v] = versions[v]
  /\ \A s \in DOMAIN systems : systems'[s] = systems[s]

\* The decisions about a subject form one line, so the compatibility read
\* (resolveLegacyFinish) always finds one current row, and two corrections of
\* the same decision never both stand.
OneCurrentRecord ==
  \A subject \in Subjects :
    LET of == {d \in DOMAIN decisions : decisions[d].subject = subject}
        current == {d \in of : \A e \in DOMAIN decisions : decisions[e].supersedes # d}
    IN  of # {} => Cardinality(current) = 1
=============================================================================
