------------------------------ MODULE WorkTypes ------------------------------
(***************************************************************************)
(* Work types and their publication (gpr2-r05-catalog.ts, early-work.ts,   *)
(* infra/029, 033, 034): a type is born in one object, may be proposed for *)
(* the corporate catalogue, and an administrator promotes it, aliases it   *)
(* to a corporate type or rejects the proposal.  Works, template stages    *)
(* and stage occurrences name types all the while, and a correction of the *)
(* catalogue may change a unit.  The object's lock is shared by all these  *)
(* commands and is left out; rows are locked when a command checks.        *)
(***************************************************************************)
EXTENDS Integers, Sequences

CONSTANTS
  Attempts,     \* server processes handling a command
  Objects,      \* construction objects
  Corporate,    \* no object: a corporate type, a template
  Units,        \* units of measure
  InitialTypes, \* Seq(Type): the catalogue to start with
  MaxTypes,     \* bound: types altogether
  MaxCommands   \* bound: commands clients send altogether

VARIABLES
  types,    \* work_types
  proposals,\* work_type_publication_requests
  uses,     \* works, stages and occurrences that name a type
  attempts, \* [Attempts -> Attempt]
  commands  \* commands sent so far

vars == <<types, proposals, uses, attempts, commands>>

Ids == 1..MaxTypes
\* owner: the object of an OBJECT type.  alias: 0, or the corporate type it stands for.
Type ==
  [owner : Objects \cup {Corporate}, origin : Objects \cup {Corporate}, unit : Units,
   alias : 0..MaxTypes, version : Nat \ {0}]
\* unit: the metadata proposed, as the type stood.
Proposal ==
  [type : Ids, typeVersion : Nat \ {0}, unit : Units, alias : 0..MaxTypes,
   status : {"PENDING", "PROMOTED", "ALIASED", "REJECTED"}]
\* A work keeps a unit of its own; stages of templates and occurrences measure.
Use == [by : {"work", "stage", "occurrence"}, owner : Objects \cup {Corporate},
        type : Ids, unit : Units]

\* What the constants satisfy.
TypesAssumption ==
  /\ Corporate \notin Objects
  /\ InitialTypes \in Seq(Type) /\ Len(InitialTypes) <= MaxTypes
  /\ \A i \in DOMAIN InitialTypes :
       InitialTypes[i].alias = 0 /\ InitialTypes[i].owner = InitialTypes[i].origin
  /\ MaxTypes \in Nat /\ MaxCommands \in Nat

Init ==
  /\ types = InitialTypes
  /\ proposals = <<>>
  /\ uses = {}
  /\ attempts = [t \in Attempts |-> [phase |-> "idle"]]
  /\ commands = 0

In(t, phase) == attempts[t].phase = phase
Cmd(t) == attempts[t].cmd

-----------------------------------------------------------------------------
\* Commands.  Whoever proposes or corrects a type has seen its version.
NewCommand ==
  UNION {
    {[kind |-> "create", owner |-> o, unit |-> u] : o \in Objects, u \in Units},
    {[kind |-> "propose", owner |-> o, type |-> i, seen |-> types[i].version] :
       o \in Objects, i \in DOMAIN types},
    {[kind |-> "approve", proposal |-> p, alias |-> i] :
       p \in DOMAIN proposals, i \in {0} \cup DOMAIN types},
    {[kind |-> "reject", proposal |-> p] : p \in DOMAIN proposals},
    {[kind |-> "use", use |-> [by |-> by, owner |-> o, type |-> i, unit |-> u]] :
       by \in {"work", "occurrence"}, o \in Objects, i \in DOMAIN types, u \in Units},
    {[kind |-> "use", use |-> [by |-> "stage", owner |-> Corporate, type |-> i, unit |-> u]] :
       i \in DOMAIN types, u \in Units},
    {[kind |-> "correct", type |-> i, unit |-> u] : i \in DOMAIN types, u \in Units}}

\* Types locked: FOR SHARE by a use (gpr2_measured_reference_fence), otherwise FOR UPDATE.
\* Mutated form: a use reads its type without a lock.
TypesLockedToWrite(cmd) ==
  CASE cmd.kind \in {"propose", "correct"} -> {cmd.type}
    [] cmd.kind = "approve" -> {proposals[cmd.proposal].type}
    [] OTHER -> {}
TypesLocked(cmd) ==
  CASE cmd.kind \in {"propose", "correct"} -> {cmd.type}
    [] cmd.kind = "approve" -> {proposals[cmd.proposal].type}
    [] cmd.kind = "use" -> {cmd.use.type}
    [] OTHER -> {}
ProposalsLocked(cmd) == IF cmd.kind \in {"approve", "reject"} THEN {cmd.proposal} ELSE {}

Conflict(c, d) ==
  \/ ProposalsLocked(c) \cap ProposalsLocked(d) # {}
  \/ TypesLocked(c) \cap TypesLocked(d) # {} /\ {c.kind, d.kind} # {"use"}
RowsAreFree(t) == \A u \in Attempts \ {t} : In(u, "checked") => ~Conflict(Cmd(t), Cmd(u))

-----------------------------------------------------------------------------
IsCorporate(i) == types[i].owner = Corporate
Pending(i) == \E p \in DOMAIN proposals : proposals[p].type = i /\ proposals[p].status = "PENDING"
Approved(i) ==
  \E p \in DOMAIN proposals : proposals[p].type = i /\ proposals[p].status \in {"PROMOTED", "ALIASED"}

MayPropose(cmd) ==
  /\ types[cmd.type].owner = cmd.owner
  /\ types[cmd.type].version = cmd.seen
  /\ types[cmd.type].alias = 0

MayApprove(cmd) ==
  LET p == proposals[cmd.proposal]
  IN  /\ p.status = "PENDING"
      /\ ~IsCorporate(p.type)
      /\ types[p.type].version = p.typeVersion
      /\ cmd.alias # 0 => IsCorporate(cmd.alias) /\ types[cmd.alias].unit = types[p.type].unit

\* checkStageWorkTypes, createWork and the triggers gpr2_work_type_use_guard,
\* gpr2_stage_guard.
MayUse(u) ==
  /\ types[u.type].owner \in {Corporate, u.owner}
  /\ u.by # "work" => u.unit = types[u.type].unit

\* gpr2_work_type_unit_fence over work_type_reference_state.
Referenced(i) == \E u \in uses : u.type = i

Allowed(cmd) ==
  CASE cmd.kind = "create" -> Len(types) < MaxTypes
    [] cmd.kind = "propose" -> MayPropose(cmd)
    [] cmd.kind = "approve" -> MayApprove(cmd)
    [] cmd.kind = "reject" -> proposals[cmd.proposal].status = "PENDING"
    [] cmd.kind = "use" -> MayUse(cmd.use)
    [] cmd.kind = "correct" -> types[cmd.type].unit # cmd.unit /\ ~Referenced(cmd.type)

-----------------------------------------------------------------------------
Send(t, cmd) ==
  /\ In(t, "idle")
  /\ commands < MaxCommands
  /\ attempts' = [attempts EXCEPT ![t] = [phase |-> "begun", cmd |-> cmd]]
  /\ commands' = commands + 1
  /\ UNCHANGED <<types, proposals, uses>>

LockAndCheck(t) ==
  /\ In(t, "begun")
  /\ RowsAreFree(t)
  /\ Allowed(Cmd(t))
  /\ attempts' = [attempts EXCEPT ![t].phase = "checked"]
  /\ UNCHANGED <<types, proposals, uses, commands>>

\* Refused by a guard, a unique index or a trigger, or ended by a lost connection.
Refuse(t) ==
  /\ ~In(t, "idle")
  /\ attempts' = [attempts EXCEPT ![t] = [phase |-> "idle"]]
  /\ UNCHANGED <<types, proposals, uses, commands>>

Committing(t, kind) ==
  /\ In(t, "checked")
  /\ Cmd(t).kind = kind
  /\ attempts' = [attempts EXCEPT ![t] = [phase |-> "idle"]]
  /\ commands' = commands

CreateObjectWorkType(t) ==
  /\ Committing(t, "create")
  /\ Len(types) < MaxTypes
  /\ types' = Append(types, [owner |-> Cmd(t).owner, origin |-> Cmd(t).owner,
                             unit |-> Cmd(t).unit, alias |-> 0, version |-> 1])
  /\ UNCHANGED <<proposals, uses>>

\* One pending proposal per type (work_type_publication_requests_one_pending).
RequestPublication(t) ==
  /\ Committing(t, "propose")
  /\ LET i == Cmd(t).type
     IN  /\ ~Pending(i)
         /\ proposals' = Append(proposals, [type |-> i, typeVersion |-> types[i].version,
                                            unit |-> types[i].unit, alias |-> 0,
                                            status |-> "PENDING"])
  /\ UNCHANGED <<types, uses>>

\* PROMOTED keeps the id; ALIASED leaves an object type naming a corporate one.
ApprovePublication(t) ==
  /\ Committing(t, "approve")
  /\ LET a == Cmd(t).alias
         i == proposals[Cmd(t).proposal].type
     IN  /\ ~Approved(i) \* work_type_publication_requests_one_approved
         /\ proposals' = [proposals EXCEPT
              ![Cmd(t).proposal].status = IF a = 0 THEN "PROMOTED" ELSE "ALIASED",
              ![Cmd(t).proposal].alias = a]
         /\ types' = [types EXCEPT ![i].alias = a, ![i].version = @ + 1,
                                   ![i].owner = IF a = 0 THEN Corporate ELSE @]
  /\ UNCHANGED uses

RejectPublication(t) ==
  /\ Committing(t, "reject")
  /\ proposals' = [proposals EXCEPT ![Cmd(t).proposal].status = "REJECTED"]
  /\ UNCHANGED <<types, uses>>

NameType(t) ==
  /\ Committing(t, "use")
  /\ uses' = uses \cup {Cmd(t).use}
  /\ UNCHANGED <<types, proposals>>

\* Maintenance of the dictionary outside the application: PostgreSQL's guards decide.
CorrectUnit(t) ==
  /\ Committing(t, "correct")
  /\ types' = [types EXCEPT ![Cmd(t).type].unit = Cmd(t).unit, ![Cmd(t).type].version = @ + 1]
  /\ UNCHANGED <<proposals, uses>>

Next == \E t \in Attempts :
  \/ \E cmd \in NewCommand : Send(t, cmd)
  \/ LockAndCheck(t) \/ Refuse(t)
  \/ CreateObjectWorkType(t) \/ RequestPublication(t)
  \/ ApprovePublication(t) \/ RejectPublication(t)
  \/ NameType(t) \/ CorrectUnit(t)

Spec == Init /\ [][Next]_vars

-----------------------------------------------------------------------------
TypeOK ==
  /\ types \in Seq(Type) /\ Len(types) <= MaxTypes
  /\ \A p \in DOMAIN proposals : proposals[p] \in Proposal
  /\ uses \subseteq Use
  /\ \A t \in Attempts : In(t, "idle") \/ Cmd(t).kind \in
       {"create", "propose", "approve", "reject", "use", "correct"}
  /\ commands \in 0..MaxCommands

\* Whatever was published since, a type is named only where it may be: by
\* templates if it is corporate, by an object if it is corporate or its own
\* (the work-type-of-another-object refusals of infra/029 and createWork).
TypesStayInTheirObject == \A u \in uses : types[u.type].owner \in {Corporate, u.owner}

\* A stage of a template and an occurrence of a finish system measure in the
\* unit their type has, however a correction of the type interleaves with the
\* first reference to it (infra/034 NEW-04).
StagesMeasureInTheirUnit ==
  \A u \in uses : u.by # "work" => u.unit = types[u.type].unit

\* A type became corporate, or stands for another, exactly by one approved
\* proposal; an alias stays in its object and names a corporate type.
PublishedByOneProposal ==
  \A i \in DOMAIN types :
    LET approvals == {p \in DOMAIN proposals :
                        proposals[p].type = i /\ proposals[p].status \in {"PROMOTED", "ALIASED"}}
        moved == types[i].alias # 0 \/ types[i].owner # types[i].origin
    IN  /\ moved <=> \E p \in approvals : approvals = {p} /\ proposals[p].alias = types[i].alias
        /\ ~moved => approvals = {}
        /\ types[i].alias # 0 => types[i].owner # Corporate /\ IsCorporate(types[i].alias)

\* What an administrator approves is what was proposed: the type has the
\* version and the unit of the proposal when its publication changes it.
ApprovedAsProposed ==
  \A p \in DOMAIN proposals :
     proposals[p].status = "PENDING" /\ proposals'[p].status \in {"PROMOTED", "ALIASED"} =>
       LET i == proposals[p].type
       IN  types[i].version = proposals[p].typeVersion /\ types[i].unit = proposals[p].unit

\* A decided proposal is final, though an approval and a rejection of it, or
\* two approvals, are handled at once.
DecisionsAreFinal ==
  \A p \in DOMAIN proposals :
     proposals[p].status # "PENDING" => proposals'[p] = proposals[p]
=============================================================================
