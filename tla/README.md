# A verification project for construction-core-mvp

The program follows one construction object from its works to the money that
closes them: works are planned, performed and measured, construction control
inspects them, the PTO department prepares executive documentation, the customer
accepts it, the SDO department closes it financially. It is a NestJS backend over
PostgreSQL (`apps/backend/src`), a package of shared domain rules
(`packages/domain`), SQL migrations (`infra`) with the runner that applies them
(`scripts`), files and notifications kept in a Bitrix24 portal, and a React
frontend that holds no authoritative state.

## How the system moves

Every command is one PostgreSQL transaction at READ COMMITTED. A handler

1. takes the object's coordination lock, shared or exclusive
   (`coordination-lock.ts`),
2. locks the rows it decides on with `FOR UPDATE`, in a fixed order (package,
   then closing case, then portion or allocation),
3. checks the optimistic version the request carries (`checkVersion`),
4. runs a chain of `ensure(...)` guards, and
5. writes rows, each versioned row with `version = version + 1`.

Where all the handlers of a component lock the same row before they read, what
interleaves is whole handlers, in any order, with versions read earlier: there a
step of the model is a handler (`DocumentationPackages`, `SdoClosing`). Where a
handler reads before its lock, or two transactions that meet lock different rows,
a step is what another transaction can notice: most modules give a command three
of them, **receive** (what the client or the guard read earlier), **check** (its
locks are granted and everything is read) and **commit** or **refuse**. What a
transaction has written and not committed is in no variable; ROLLBACK, a lock
timeout, a deadlock victim and the death of a process are all the return to idle.

## Inventory

| Component | State it keeps | What must hold | Hard because |
| --- | --- | --- | --- |
| Documentation packages (`service.ts` 367-500, `documentation-*.ts`) | package row (status, archived, version), its portions, documents, versions, status history, acceptance snapshot | no portion in two packages; content frozen in front of the customer; acceptance is of what was shown; the archive hides nothing | some fifteen handlers write the same package in any order |
| AOSR preparation (`aosr-service.ts`) | method, AOSR rows, links, materials, quality documents, parties, numbers, revisions | numbers without gap or twin; a current DOCX shows the row; a gate is lost only by choice | an act is read before the package is locked; a counter is shared by the object |
| SDO closing case (`service.ts` 501-703) | status, lock (custody), total, allocations | custody only over a ready package; CLOSED only balanced; the case survives returns | two axes (status, custody), a second actor, and allocations that do not version the case |
| Command idempotency (`security.ts`, `command-ledger.ts`) | claimed keys with their results | a command takes effect at most once, and a retry gets the first answer | concurrent twins, aborts, lost answers |
| Construction control (`service.ts` 115-160, 309-411, 541-560) | facts, inspections, issues, photos of a portion | an accepted inspection saw the whole portion and is final | facts, inspections and issues are decided under different row locks |
| Sources of a figure (`gpr2/fact-resolver.ts`, `infra/026`) | fact source mode, legacy progress, portion facts | no figure lost or counted twice; the past is stable | two sources, switched by the first fact; rows dated by the start of a transaction |
| Works and dependencies (`service.ts` 98-114, `early-work.ts`) | work status, predecessor graph, inspections of a work | graph acyclic; what a start relied on stays | predecessors are read without a lock |
| Executive packages, legacy closing (`service.ts` 161-188) | executive package, calculation, closings | closings never exceed the accepted value | retries, partial closings, files checked by reference |
| Coordination lock (`coordination-lock.ts`, `db.ts`) | advisory lock and row locks | exclusive writers exclude; bounded waits | row locks taken in different orders |
| Teams, leads, PTO assignment (`team-service.ts`, `org-structure-service.ts`, `pto-work-assignment-service.ts`) | memberships, leads, members, assignments, handovers | one effective assignee, replaced only with a handover | one command ends and starts many rows while accounts close |
| Production schedule (`schedule-service.ts`, `packages/domain/schedule.ts`) | draft, revisions, delay reasons; assessment of a baseline | one approved revision, history immutable; delays computed right | approval while entries change; whole-number arithmetic of dates |
| R05 catalogue, templates, generation (`gpr2-r05-*.ts`) | work types, publication requests, template versions, finish systems, generated works | what is approved is what was proposed; space has one producer | previews confirmed after the world moved; administrators race |
| R06 quantity and caps (`gpr2-r06*.ts`, `infra/036`, `037`) | approved quantity, plans, allocation versions | plans within the quantity above them | writers that share the object's lock |
| Notification outbox (`bitrix-notification-outbox.ts`, `infra/018`) | one row per notification | delivered, or explicitly failed | the call precedes the commit; dead portals |
| File storage (`file-storage/`) | uploads, folder mappings, attachments, the gate | a row never points at a missing file; a file without a row is named | two stores without a common transaction |
| Bitrix24 OAuth (`bitrix.ts`) | the installation's tokens | an expired token is exchanged once | a refresh token is good once, and a COMMIT may be lost |
| Accounts and sessions (`modules/users`, `modules/auth`) | accounts, sessions | an administrator remains; access ends with its sessions | administrators act on each other; authorised before the transaction |
| Migrations (`scripts/migration-runner.ts`, `migrate.ts`) | `schema_migrations`, what a chain of files hides | the ledger tells what ran; no hidden body runs | concurrent deployments of different checkouts |
| Read models, Excel import, risk worker, controllers, frontend, tooling | none that a protocol rests on | - | not modelled, see the end |

`PROJECT.json` lists each with its sources and status, and 40 hazards at the
lines where they bite, every one with the properties that would catch it.

## Modules

| Module | Stands for |
| --- | --- |
| `DocumentationPackages` | the PTO side: packages of one work, their scope, documents and AOSRs, acceptance and archive |
| `SdoClosing` | extends it with the closing case and its allocations; `Spec` is the composition, with all properties |
| `PackageCustody` | the abstract promise: who holds a package, and that only content the customer saw leaves PTO; `SdoClosing` instantiates it with a refinement mapping (`Holder`, `CurrentVersions`, `accepted`) |
| `AosrPreparation` | the acts prepared in Core for the packages of one object: method, edits, links, removal, generation, numbers, revisions, parties and materials |
| `CommandLedger` | the GPR-2 ledger: `runLedgered` under `runGpr2Command`, as attempts that interleave inside their transactions |
| `IdempotentCommands` | the older ledger of `security.ts` and five commands that use it, each with its own order of locks, checks and claim |
| `OnceOnly` | the abstract promise of an Idempotency-Key; both ledgers instantiate it |
| `ConstructionControl` | one portion: RP's facts, inspections of both kinds, issues, photos, decisions |
| `FactSource` | one work: legacy progress, units, portions, portion facts, the mode that decides, the resolver of present and past figures |
| `WorkDependencies` | works of one object: completion of a plan, start, progress, dependencies, inspections of a whole work; under the coordination lock |
| `Schedule` | revisions, entries, approval, delay reasons, creation of units; under the coordination lock |
| `ScheduleAssessment` | pure: plan against fact of a baseline, as days pass |
| `AllocationCaps` | units, portions and whole allocations of one work's approved quantity |
| `WorkTypes` | work types, their uses and their publication to the corporate catalogue |
| `FinishTemplates` | templates and finish systems version by version, legacy decisions |
| `WorkGeneration` | areas, previews and the generation of works from a finish system |
| `TeamAssignments` | organisational teams, object leads and members, redistributions, handovers, the engineer of a work |
| `ExecutiveClosing` | the legacy route from documents to financial closings |
| `UserAccess` | accounts, roles, sessions, launches, installation |
| `PortalInstallation` | the OAuth tokens of the installation |
| `Site` | the composite of a portion's control and a work's figures: `ConstructionControl` and an instance of `FactSource` with variables of its own |
| `Planning` | the composite of works, schedule, generation and catalogue: `WorkDependencies` and instances of `Schedule`, `WorkGeneration` and `WorkTypes` with variables of their own |
| `Totals` | sums of whole amounts as the number of units they are made of |
| `Office` | the composite of the acts, the accounts, the installation's tokens, the files, the older closing route and the teams: `AosrPreparation`, `UserAccess`, `PortalInstallation`, `FileStorage`, `ExecutiveClosing` and `TeamAssignments` as instances with variables of their own |
| `DiskFolders`, `FileStorage` | the folder tree of an object on Disk; an upload, its record and its compensation, and the gate on external writes |
| `NotificationOutbox` | notification rows and their workers |
| `Delivery` | the composite of what a transaction leaves for others: `CommandLedger` and an instance of `NotificationOutbox` with variables of its own |
| `MigrationRunner`, `MigrationChain`, `Migrations` | deployments that migrate at once; what a chain of files may run; the two together |
| `MCIdempotentCommands` | model values and symmetry of one component |
| `MCSdoClosing`, `MCDelivery`, `MCSite`, `MCPlanning`, `MCOffice`, `MCMigrations` | several components, or several instances of one, as *scenes* (below) |
| `SdoClosing_proofs`, `CommandLedger_proofs`, `IdempotentCommands_proofs`, `Site_proofs`, `Planning_proofs`, `Delivery_proofs`, `Migrations_proofs`, `Office_proofs` | the proofs (`Delivery_proofs`: of the outbox; `Site_proofs`: of the two components of `Site`; `Planning_proofs`: of the four of `Planning`; `Office_proofs`: of the six of `Office`) |

A scene is one component, or one choice of its constants, that runs while the others
stand still: the initial state picks the scene, every step stays in it, and what is not
of it keeps the value 0 or its initial state, so one run answers the questions of
components that meet in the code only through rows each module already has in it. An MC
module extends the component whose properties are also theorems, so that the run and
the proof speak of one definition: `Site` in `MCSite`,
`Planning` in `MCPlanning`, `Office` in `MCOffice`, `Migrations` in
`MCMigrations`, `Delivery` in `MCDelivery`. Scenes of that component
are restrictions of its `Next`; the others are instances with constants of their own.
Where components do meet they are composed:
packages with cases (`SdoClosing`), handoffs with packages (`TeamAssignments`),
units with approvals (`Schedule`), the outbox's connection with the gate's
(`FileStorage`).

### State and code: the closing route

| Variable | Table or query |
| --- | --- |
| `pkg[p]` | `documentation_packages`: `status`, `archived_at IS NOT NULL`, `version`; `ABSENT` is no row |
| `scope[p]` | `documentation_package_portions` |
| `docs[p]`, `latest[p][d]` | `documentation_documents`; `coalesce(max(version_number),0)` of each |
| `method[p]` | latest row of `documentation_package_aosr_methods` |
| `aosr[p][x]` | `aosr_documents`, by `aosrDocxState`: not generated, current or outdated |
| `history[p]` | edges in `documentation_package_status_history` |
| `accepted[p]` | the version rows of the latest `documentation_customer_acceptances` snapshot |
| `customer` | portions whose latest CUSTOMER_SC group of facts resolves to ready |
| `sdo[p]` | `sdo_closing_cases`: status, `package_locked` as `locked`, version, total |
| `alloc[p][q]` | `sdo_closing_portion_allocations`: amount, `cancelled_at IS NULL` as `active`, version |
| `shown[p]` | no column: the versions current at the last move to PRESENTED, remembered to say what the customer saw |

One action is one handler. Its guard is the handler's chain of `ensure` calls,
its `v` the version the request carries, its primed variables the INSERTs and
UPDATEs of the transaction. Readiness is computed where the code computes it:
`ForwardGate` at PRESENTED and at a recorded quantity, `ReadyForSdo` at handoff
and again at CLOSED. Abstractions, and why they lose nothing a property is about:

- The caller is authorised. Roles and effective assignments decide who may act,
  not what an act does; `TeamAssignments` and `UserAccess` own them.
- Quantities of acceptance are "more than zero" or zero, the two outcomes the
  readiness rule tells apart.
- A document is a name of one of three kinds, an AOSR's DOCX the document of the
  AOSR's own name. File bytes, titles, numbers and people are left out.
- A CURRENT DOCX was generated over a linked scheme that has a file, so the
  forward gate asks for a scheme of the package and not for its link again.
- `customer` grows by an accepted inspection at any moment, with no guard: the
  inspection route is another component, and any order of it is allowed here.
- An action is the first execution of its command: a replay writes nothing, which
  is the stuttering step. The two ledger modules are about the rest.

`AosrPreparation` looks at the same packages through the other side's rows:
`stage[p]` is only whether content is open, before the customer, or in custody;
`acts`, `counter`, `revisions`, `quality`, `party`, `snapshots` and `dismissed` are
the tables of `infra/020` and `021`; `Read`, `Lock` and the operations are the
unlocked read of an act, `bundle`'s `FOR UPDATE`, and what is decided after it. The
text of an act is one content value. Portions linked to an act are provenance that
nothing reads and are left out.

### State and code: the command ledgers

| `CommandLedger` | Code |
| --- | --- |
| `rights` | `users.role`, `users.is_active` of each actor, reduced to "has the grant" |
| `version[s]` | the row's `version` column, committed |
| `ledger[k]` | a committed row of `gpr2_command_ledger`; the key is the UNIQUE of migration 027 |
| `attempts[t]` | phase and command of a process: `received` (authenticated role read), `admitted` (past the guard), `begun` (BEGIN), `authorized` (user row FOR SHARE), `claimed` (ledger row inserted, uncommitted), `checked` (row FOR UPDATE, version seen), `answering` (committed or replayed) |
| `effects`, `answers` | history: what was committed and what clients were told |

| `IdempotentCommands` | Code |
| --- | --- |
| `rows` | the committed versions of a portion, its package and its case, `package_locked` as `locked`, the package's acceptance as `accepted` |
| `ledger[k]` | a committed row of `idempotent_commands`, by (operation, key); `createdBy`, `payload`, `response` |
| `attempts[t]` | `begun`, `locked` (rows held before the claim), `claimed`, `checked`, `refused`, `answering` |
| `commits` | numbers the commits, so that a response names its effect |

A command's semantic input is one number, the version it carries, because the
fingerprint and the payload are only ever compared for equality; a lock wait is a
disabled step. `Crash` is the death of the process or of its connection at any
phase, after COMMIT too: the effect stays, the answer is lost, and `Request` may
send the command again. In `IdempotentCommands` the access checks before a claim
are taken as passed, `requestPortionInspection` has the shape of `PORTION_FACT` and
is not listed apart, and the creations (`DOC_PACKAGE_CREATE`, `insertIdempotent`)
are not modelled.

### State and code: the site

| Module | Variables | Code |
| --- | --- | --- |
| `ConstructionControl` | `version`; `facts`, `confirmations`; `inspections`, `issues` | `quantity_portions.version`; `portion_quantity_confirmations` by source, in the order of commits and dated by `at`, the start of the transaction (`created_at`); `inspections` (status, decision, photos, version) and `issues` |
| `FactSource` | `mode`, `switchedAt`; `actual`, `progress`; `units`, `portions`; `now` | `works.fact_source_mode` and its history; `works.actual_quantity`, `work_progress`; execution units, portions and their facts; instants |
| `WorkDependencies` | `works`, `inspections`, `dependencies` | `works` (status, resolver's figure, whether contractor and responsible are assigned, version), inspections of a whole work with their critical issue, `work_dependencies` |

Commands of `ConstructionControl` lock the portion (`fact`, `request`) or one
inspection (the others), which is why the two kinds interleave. `Stored` is what
NUMERIC(20,4) makes of a quantity. The coordination lock appears in
`WorkDependencies` as `Shared` and `Exclusive` modes; the row locks of a command
as `WorkIsFree` and `InspectionIsFree`.

### State and code: planning

| Module | Variables | Code |
| --- | --- | --- |
| `Schedule` | `revisions` with `entries`, `units`, `reasons` | `schedule_revisions`, `schedule_revision_entries`, `work_execution_units`, `schedule_delay_reasons`; an attempt of the approver reads the revision, then the entries (`seen`) as his page does |
| `ScheduleAssessment` | `plan`, `fact`, `today` | inputs of `deriveScheduleEntryStatus`, `plannedProgressOn` and the aggregations of `packages/domain/schedule.ts`; a day is a number |
| `AllocationCaps` | `current`, `units`, `portions`, `versions`, `evidence`, `live` | `work_current_quantity`, `work_execution_units`, `quantity_portions`, `work_allocation_versions` and lines; whether a fact, inspection or confirmation exists; session, account and grant of an actor |
| `WorkTypes` | `types`, `proposals`, `uses` | `work_types`, `work_type_publication_requests`; works, stages and occurrences that name a type |
| `FinishTemplates` | `rowVersion`, `versions`, `systems`, `decisions` | `finish_templates`, `finish_template_versions` with stages, `object_finish_system_versions` with occurrences and exclusions, `legacy_*` decisions |
| `WorkGeneration` | `areas`, `versions`, `works`, `bindings`, `scope` | `object_area_scopes`, finish system versions, generated works, `work_scope_bindings`, `work_scope_state.scope_version` |

In `WorkTypes` and `FinishTemplates` the object's lock is shared by all commands
and orders nothing, so it is left out; the row locks and unique indexes of
`infra/030`-`034` are the guards `TypesLocked`, `RootIsFree`, `LinkIsFree` and
their like. Triggers that repeat a handler's check are part of the commit.

### State and code: the office and the portal

| Module | Variables | Code |
| --- | --- | --- |
| `TeamAssignments` | `active`, `org`, `leads`, `members`, `handovers`, `handoffs`, `packages` | `users.is_active`; the temporal tables of `infra/016` and `019`, rows only ended and appended; the responsible of the work's live package |
| `ExecutiveClosing` | `packages`, `accepted`, `materials`, `cases`, `closings` | `executive_packages` with documents, whether the work has an accepted inspection and valid materials, `sdo_cases`, `financial_closings` |
| `UserAccess` | `users`, `sessions` | role and access of accounts, `sessions` |
| `PortalInstallation` | `row`; `issued`, `expired`, `spent`, `lost` | `bitrix_installations`; what the portal knows of token pairs; history of exchanges whose transaction did not commit |
| `DiskFolders` | `folders`, `mapping`, `writers` | folders on Disk (external), `storage_folder_mappings`, uploads with their advisory locks per level |
| `FileStorage` | `requests`, `active`, `waiting`, `disk`, `records`, `named`, `unsure`, `crashed` | `FileStore.transaction`, `Gate`, what Disk holds (external), `attachments`, the storage error log; history |
| `NotificationOutbox` | `status`, `due`, `reachable`, `worker`, `taken`, `lost` | the outbox row and its order by `next_attempt_at`, recipients, the polling worker, what Bitrix took (external) |
| `MigrationRunner` | `files`, `ledger`, `columns`, `ran`, `runners` | `infra/` of the checkout, `schema_migrations` and its shape, history of what ran |
| `MigrationChain` | `chain`, `work`, `file`; `live`, `trial`; `hidden`, `upserted` | the scanner's `MigrationChain`; what the database really does (PostgreSQL, external); history |

In `DiskFolders` the portal is assumed to accept folders of one name, and a call
whose failure is seen has landed. In `MigrationChain` a statement is the names it
mentions; the lexical rules that find them are not modelled.

## What TLC checks

Seven runs pass and five show a violation. Deadlock checking is off where the
system really may stop: clients that have sent all their requests, a package that
is archived. That nobody waits for ever on the way is `RequestsEnd` and `UploadsEnd`.

| Run | States | Scenes, with what bounds them |
| --- | --- | --- |
| `closing` | 239,666 | *case*: 1 package, 2 portions, a certificate in 2 revisions and a scheme in 1, amounts {1,2}, package versions to 7, case versions to 6; *packages*: 2 packages over 1 portion, each with a scheme and an AOSR, package versions to 8 |
| `delivery` | 122,474 | *commands*: 2 actors who use one key, 2 versions, 2 attempts, 3 requests; *race*: 2 workers, 2 rows; *alone*: 1 worker under fairness; *uploads*: 2 uploads, 1 slot, under fairness |
| `claims` | 89,472 | 1 user, 4 operations on the package and its case, 3 versions, 2 attempts, 3 requests |
| `site` | 238,578 | *control*: a portion, 2 processes, both kinds, a quantity that is stored as nothing, 2 inspections, 1 issue, 6 requests; *issues*: one command at a time, one kind of inspection, 7 requests; *figures*: 2 processes, 2 quantities, 2 portions, 5 requests |
| `planning` | 710,809 | *precedence*: 2 works, 5 requests; *acceptance*: a work that is inspected and one that waits for its acceptance, 7 requests; *network*: 3 works, 3 insertions; *race*: a work with a unit, 2 revisions, 5 requests; *chains*: 2 works and a unit, 5 requests; *entry*: every start, length, fact and day to 9 of one entry; *whole*: 3 entries of 2 works; *caps*, *allocations*: 2 units, 2 portions, 4 requests; *types*: 2 objects, 2 types, 4 commands; *templates*: 6 commands; *areas*: 4 areas of measure 0, 1 or 2, 3 commands; *main*, *local*: 3 areas, 2 versions, 5 and 4 commands |
| `office` | 547,286 | *leads*, *members*, *work*: 2 heads, 2 engineers, an object with a lead and a member, 4 requests; *money*: 1 package, value 2, 2 keys, 8 requests; *transfers*: 2 packages of one work, a document each, 8; *evidence*: 2 works of 2 objects, 1 file, 3; *acts*: 2 packages, 3 acts, 3 requests; *accounts*: 2 administrators and an outsider, 3; *tokens*: 2 callers, 2 installers, 3 pairs; *tree*: 2 uploads, 2 levels, 5 folders; *files*: 3 uploads for 1 slot |
| `migrations` | 1,023,317 | *runner*: 2 processes, 3 files, an edit each, 3 changes, 3 starts; *files*: 3 files of one statement of every kind; *batches*: 2 files of two statements; *bindings*: a file of two statements and one of one, with event triggers and operators |
| `claims_retry`, `control_live`, `file_commit`, `launch`, `rewrite` | violation | see "Findings" |

Why the bounds are enough. A package needs five versions from creation to
acceptance and two more for a return from SDO and a second acceptance; seven leave
that loop inside *case*. A case needs handoff, verification, closing and
reopening (4), or handoff, return and second handoff (3): 6 has both orders. Two
portions and amounts {1, 2} make a sum that balances (1+1 against 2), one that does
not, one that a cancellation unbalances, and no allocation at all. Two revisions
of one document tell a stale snapshot from a current one; two packages are enough for a clash of
claims. A clash over a key or a row is between two attempts; a double effect needs
two commits and a lost update a third request. In the grouped runs a hazard is
between two transactions, so there are two processes, and the requests are as many
as the longest known way to break a property takes under a mutant of the code plus
what a legal prefix needs; *issues* takes one command at a time because its hazard is
a long legal sequence, not a race. A cycle of dependencies that no single insertion
closes needs three works. An acceptance that somebody relies on takes six requests:
completion, the dependency, progress, an inspection, its acceptance and the start; the
seventh is the one that would take it back. Two siblings that each fit what their
parent has left, and together do not, are the third and fourth area of a tree whose
parent measures 2. Days to 9 with lengths 0, 1, 3, 5 and a plan of 7
meet every remainder of the division the code avoids. The wall of a bound only
removes steps, never enables one.

Every property has a mutant: a definition of the model changed as a plausible bug
would change the code, under which TLC finds that property violated in the same
run. They are listed in `PROJECT.json`.

| Property | Says |
| --- | --- |
| `NoSharedPortion` | unarchived packages have disjoint scopes, drafts included |
| `FrozenContent` | nothing of a package's content changes while it is presented, accepted or returned |
| `AcceptedIsWhatWasShown` | the accepted snapshot is what PRESENTED showed, and is current |
| `LockedPackageStaysReady` | what SDO holds stays unarchived and ready |
| `ClosedIsBalanced` | a closed case is in custody with a total its allocations add up to |
| `ArchiveHidesNothing` | an archived package was never shown, accepted, handed over or generated |
| `ReturnedCaseAwaitsCorrection` | an unlocked case is not closed and its package is on the correction route |
| `ClosedIsFinal` | a closed case moves only to correction; money, method, package and content stand still meanwhile |
| `FollowsCustody` | the handlers implement `PackageCustody` |
| `NoLostUpdate`, `EffectsAreAuthorized` | each effect consumed the version its client saw, and no version twice; a right revoked after the guard stops the command |
| `VersionsAreUsedOnce` | neither the claim nor the row lock is a substitute for the other |
| `VersionedRetriesAreReplayed` | a retry of a committed versioned command is replayed, however stale its version |
| `KeepsThePromise`, `RequestsEnd` | both ledgers implement `OnceOnly`; whatever waits, each request ends |
| `InspectionsAreSound`, `ThePastStands` | the current fact is the last confirmed, an undecided inspection covers the plan, an acceptance is confirmed once and is final, facts wait for decisions |
| `FiguresAreKept` | a work counts legacy progress or portions, loses neither, the day of completion opens the run of complete days, answers about the past do not change |
| `PrecedenceHolds` | no cycle, no new predecessor of a started work, the acceptance a start relied on stays |
| `RevisionsAreSound` | the draft that was looked at is approved as seen, a baseline keeps its entries, chains of predecessors are consistent, no work with units is planned whole |
| `AssessmentIsSound` | the delay is the distance to the day on which the linear plan asked for no more than is done; delays grow daily and reports never make them worse |
| `AllocationsAreCapped` | plans fit the quantity above them, replacements are informed and precede the first fact; a retry that waited for its twin's commit is replayed, however full the unit is then |
| `TypesAreSound`, `TemplatesAreSound` | a type is promoted by one approved proposal as proposed; no stage of a published template disappears silently, versions follow each other |
| `SpaceHasOneProducer`, `GeneratedAsPreviewed` | a place has one producer of a stage and is measured once; what is generated is what a preview would say now |
| `TeamsAreSound` | replaced leads hand over, a team grows by its lead and active people, a live package has the engineer of its work |
| `ExecutiveIsSound` | transferred packages are approved whole, a work goes to SDO once, closings tell the status and never exceed the value, no file is evidence of two objects |
| `ActsAreSound` | official numbers without gap or twin, revisions of their act, current renderings, no act outside Core, gates lost by a choice of method only |
| `AccessIsSound` | an administrator remains; who switches an account off leaves it no session and no login that has its row; only a login that read the account while it was on gives a session to one that is off |
| `InstallationIsUsable` | one exchange per expiry, a usable row unless an exchange was lost |
| `FoldersConverge`, `FilesAreAccounted` | one mapped tree; a record has its file, a file without a record is named, the pool is never exhausted |
| `LedgerIsTrue`, `DeploymentsAreWhole` | migrations run once, in order, as recorded, contracts by name; who finishes has his whole release |
| `HiddenBodiesDoNotRun` | no statement of an accepted additive file names what runs a hidden body, and what runs unnamed is harmless where the file ends; none but a read fires, by what it names, a trigger that upserts; what the scanner calls untainted reaches no armed body |
| `DeliveryIsExplained`, `HealthyIsSettledAlone`, `UploadsEnd` | repeats need a lost answer or commit; a portal that answers at times is served whatever the others do; who waits for the gate is answered |

`LockedPackageStaysReady` is the least obvious of the closing route. `customer` is
global to the work: a quantity of zero recorded through package A becomes the
latest group of its portion, and could withdraw the readiness of package B that
SDO already holds. It cannot, because the portion must be in A's scope, A must not
be locked, and scopes are disjoint: three mechanisms of three files carry one
property, and its proof follows exactly that line.

### Fairness

The routes assume none: nothing in the code makes a user continue, so no liveness
of a route is claimed. The ledgers' `FairSpec` assumes weak fairness of the server
steps of each attempt: node runs a ready continuation, and PostgreSQL grants a lock
once its holder has ended. It assumes nothing of clients, crashes or changes of
rights; weak fairness is enough because clients send finitely many requests. The
outbox's worker polls for ever, so its claim is weakly fair, and so is the coming
of a due time. A row is held only while one call lasts, and a call ends by answer
or timeout, so the worker's own steps are strongly fair. That the healthy portal
confirms now and then is a premise of `HealthyIsSettledAlone`. In `MCDelivery` each of
these assumptions is made of the step in its scene, and the steps of a worker that
exclude each other share one strong fairness, which assumes less. The three
properties are of the form *again and again nothing waits*. Steps of an upload are
weakly fair because each call in it is bounded by a timeout of the client.

### Findings

- `claims_retry` (violates `RetriesAreReplayed`): `recordCustomerAcceptedQuantity`
  claims its key only after its gate (`aosr-service.ts` 423-427). Recorded,
  committed, answer lost, package handed to SDO, sent again under the same key: the
  gate refuses it, though the ledger holds its response. `security.ts:94` says the
  claim comes first so that a retry is replayed. Nothing is executed twice.
- `control_live` (violates `LiveInspectionIsInFull`): `issueAction`
  (`service.ts:117`) puts a REJECTED inspection back to REINSPECTION when its issue
  is resolved, whatever the fact is by then. Rejected with an open issue, fact
  lowered, issue resolved: an inspection is alive below the plan, which
  `docs/business-rules.md:8` excludes. No race is needed.
- `file_commit` (violates `RecordsAlwaysHaveFiles`): `FileStore.transaction`
  compensates after every error, a COMMIT that was done and whose answer was lost
  included; the record stays and its file is deleted, against `file-store.ts:72`.
- `launch` (violates `ReactivationNeedsALaunch`): a login reads its account while it
  is on (`bitrix.ts:74`) and inserts its session later, without a lock (76). An
  account switched off in between keeps that session: it is dead until the account is
  switched on again, and then gives access, against `admin-users.controller.ts`
  119-120, "a fresh Bitrix launch is needed".
- `rewrite` (violates `AcceptedFilesRanNothingHidden`): what an event trigger, an
  operator or a cast can reach is looked at once, after the last statement of a file
  (`migration-runner.ts` 665-671). A file that arms the function of an event trigger
  and makes it harmless again is accepted, though its own definitions ran the armed
  body, against 303 and the chain that
  `tests/gpr2-r03d-migration-runner.test.ts:890` expects refused.

Further disagreements between code and text, met while modelling and not made runs:

- `recordPortionFact` decides under the portion's lock that every inspection is
  rejected (`service.ts:324`), while `issueAction` revives one under the
  inspection's lock: the race of the second finding, against the comment 291-294.
- `start` and `progress` (`service.ts` 102, 113) read a predecessor's quantity
  without a lock, and a correction may lower it before they commit, against rule 5
  of `docs/business-rules.md`.
- `approveDraft` (`schedule-service.ts:438`) takes the DRAFT of the object whatever
  its id and compares its version, and every draft starts at 1: the successor of a
  discarded draft may be approved unseen, against 24-25. `SameDraftAsSeen` says
  what holds: the draft that was looked at is approved as seen.
- `planAgainstLedger` (`migration-runner.ts` 880-882) asks for the checksum column
  and reads the rows in another statement: a plan may report a row written with its
  checksum in between as unverified, against 798.

What the models say that a reader may not expect:

- A package may be declared CORE while it is presented or accepted
  (`aosr-service.ts:127`). The handoff does not ask the forward gate again, so SDO
  may hold a package declared CORE without an act, and custody then forbids taking
  the choice back. `GateIsLostByChoiceOnly` says that this is the only way.
- A DOCX that counts as current may lag behind later quality documents, parties
  and titles of schemes: they version no act.
- A folder whose mapped parent was deleted by a person, while the leaf has no
  mapping yet, is not healed: `resolve()` throws outside the try of
  `bitrix-disk-provider.ts:72`, though `docs/bitrix-disk-1-storage.md:92` promises
  it. `TreeIsMapped` is stated for what the code does.
- A read may fire an upsert: a SELECT of a view whose function inserts into a table
  with an upserting trigger is admitted, because the scan follows the targets of
  INSERT, MERGE and COPY and calls only (`migration-runner.ts` 445-449).
  `HiddenBodiesDoNotRun` leaves reads out of that part, and only of that.
- An administrator who was authenticated before the transaction is not read again
  under the tenant's lock, and may finish what he began after losing his role.
- A token refresh whose COMMIT is lost leaves a spent refresh token: nothing but a
  new installation repairs the row.
- `requestPortionInspection` and `createDocumentationPackage` lock a portion and a
  package in opposite orders; the victim of the deadlock aborts.
- `createDocumentationVersion` (`service.ts:412`) has no key: a retry adds a version.
- The unit of an aliased work type is protected by no trigger (`infra/034`).

## What is proved

Of the properties in the table above, those of the closing modules, of both
ledgers, of construction control, of works, schedule and generation, of the outbox, of the
migrations, of acts, accounts, files, the installation's tokens, the older closing
route and the teams are also
theorems, for every value of the constants; liveness is not (`RequestsEnd`,
`HealthyIsSettledAlone`). A component's proofs are in the module of its name with
`_proofs`; `Office_proofs` takes the six components of `Office` as its instances.
The proofs assume what the modules state of their constants and nothing else. In
the closing modules and the ledgers these are ASSUMEs: kinds of documents are
disjoint (`DocumentKindsAreDisjoint`), amounts and bounds are natural numbers
(`BoundsAreNaturals`, `AmountsAreNaturals`), versions are natural numbers and the
absent key is no key (`LedgerAssumption`, `CommandsAssumption`). In the modules that
runs take as scenes they are hypotheses of the theorems (`ControlAssumption`,
`PlanningAssumption` in its four parts, `OutboxAssumption`, `MigrationAssumption`, `ScanAssumption`, and in
`OfficeAssumption` those of its six components), and the MC
modules assume them of the components they extend and of their scenes' constants.
TLC evaluates all of these.

The argument for the closing modules is in layers.

1. `SdoClosing_proofs`. `TypeCorrect` is inductive as it stands. `StepHasWriter`
   then says, column by column, which handlers can have changed a column of a
   package in one step (`OnlyWriters`): it is the one place that goes through all
   twenty-four actions for interference between packages. `PackageTakesEdge` and
   `CaseTakesEdge` reduce a step to the five edges of a package and the four of a
   case.
2. `RouteHolds`, the inductive invariant the rest
   stands on: `BeforeCreation` (no content, snapshot or case without a row),
   `ArchivedEarly` (an archived package is in DRAFT or PREPARING) and
   `CaseOnItsRoute` (custody only over an accepted package, CLOSED only in
   custody). None of the properties is inductive without it: a state with a locked
   case over a package in DRAFT satisfies `FrozenContent`'s guard nowhere, so every
   content handler could run.
3. `ScopesAreDisjoint` needs only that an archived package never comes back.
   `AcceptanceIsOfWhatWasShown` is strengthened by `ShownIsCurrent` (while
   PRESENTED, what was shown is current), and uses `FrozenStep`.
4. `CustodyIsOverReadyPackages` uses all of them; `CustomerKept` is its heart: the
   quantity that could withdraw a confirmation is recorded through an open package
   without custody, which by disjointness covers no portion of this one.
5. `ClosedCasesBalance` and `ClosedCasesAreFinal`: money moves only while the case
   is workable (`TotalStep`, `AllocationStep`), so the sum checked at CLOSED stays
   the sum. `AllocationsStayCovered`: no portion leaves a scope (`ScopeGrows`).
6. `ArchiveIsHarmless` is strengthened by `ArchiveEvidence`: what was shown left an
   edge in the status history, what was generated left a DOCX state, and the
   archive gate reads both.
7. `RouteImplementsCustody`: with the route invariant
   every step is, for every package, one of the moves of `PackageCustody`.

For the ledger (`CommandLedger_proofs`) the inductive invariant `IInv` has two
halves. What attempts hold: `RowLocks` (a row seen at a version is its holder's alone
and still at that version), `Claims` (a held claim is the only one of its key and no
committed row is under it) and `UserLocks` (who holds his user row still has the
right). What the history tells: `LedgerIsTruthful`, `EffectsPast` (no effect is ahead
of its row), `AnswersPending` (what is on its way to a client was committed),
`NoLostUpdate` and `AnswersAreTrue`. The second half is not inductive without the
first: `Commit` needs the claim to know that it overwrites no row, and the row lock to
know that the version it bumps is the one checked. `OneEffectPerKey` then follows
from `LedgerIsTruthful` alone (`OneRowOneEffect`): two effects under a key share a
row that names the input and the result. `Implementation` maps `Commit` to `Do`,
`Answer` to `Tell` and everything else to a stutter.

In every other component a command is checked in one step and commits in a later
one, and what can go wrong lies between. The invariants have one form: the locks
keep checked commands of one row **apart**, and what a command was checked against
**still holds** whatever the others commit meanwhile. The second is what the
properties need and is not inductive without the first; where it speaks of rows the
command did not lock, it holds for a reason of its own, named below.

- `IdempotentCommands_proofs`. As for the other ledger, with `RowLocks` and `Claims`
  taken in either order. `RequestsCover` says that the bound on responses covers
  every attempt in flight, so that TypeOK holds of a response yet to be made;
  `History` relates effects, answers and ledger. `RetriesFindTheirRow` needs that a
  versioned operation claims before it checks; `Implementation` maps an unkeyed
  effect to a stutter.
- `Site_proofs`, construction control. A command locks the portion or one inspection, never
  both. So `VerifiedPortion` is weak: an issue may put an inspection back under a
  fact that was checked, but its *decision* stays REJECTED, and that is what the
  fact needs (`DecisionsHold`). `FactsInOrder` says why a fact dated by the start
  of its transaction is still the last: who holds the current version began after
  every fact. `PresentedInFull` and `AcceptedIsConfirmedOnce` follow from what was
  verified; `ThePastStands` is an action property of the same invariant.
- `Site_proofs`, figures. `RowsAreDated`: rows of progress and of a portion's facts are
  in the order of their dates although each is dated by the start of its transaction.
  It is inductive because a command only commits if it saw every row (`ReportsStand`),
  and what it saw was there before it began (`CommandsSawRows`); `WorkLocksApart` keeps
  the others from adding one between check and commit. So the last row speaks
  (`LastRowSpeaks`) and the present is what is known now (`NowIsCurrent`). Between two
  instants at which something was recorded the answer does not change
  (`QuietInterval`), so the walk back over instants that
  `resolveCompletionObservedAt` makes finds the first moment of the run
  (`RunStartsThere`): the greatest instant below the target and the least one after it
  exist because instants are numbers up to `now`. `ThePastStays`: who still works when
  an instant is settled began after it, so the row it adds is not seen there; progress
  is let through only where no portion counts, and the first portion fact switches the
  source only from its own date on. Sums of portions enter as `Totals`, where only
  their being quantities and equal for equal rows matters.
- `Planning_proofs`, works. `start` and `progress` rely on an acceptance of a
  predecessor that they only read: it stays because an accepted inspection has no
  critical issue left (`AcceptedIsClosed`) and no command takes one back. A
  dependency is checked against a closure computed when it began: `PlansAlone` says
  that nobody changes the structure meanwhile. That one more edge closes no cycle is
  `NoCycleCloses`, about the least set of works that holds its own successors
  (`FollowersHoldSuccessors`); the module defines the closure that way.
- `Planning_proofs`, schedule. `DraftersApart`: who changes a revision has the object's
  row, and an approval has the coordination lock to itself; only the creation of a unit
  takes no row, so it may commit between the check of an added entry and its commit.
  `StillHolds` therefore keeps of that check what a new unit cannot undo (`Fits`): that
  the work planned as a whole has no unit in the plan, not that it has none. An approval
  needs the stronger fact, and has it because it is alone (`DraftApproved`).
  `Informed` is the approver's page: while the version it sends back is the draft's, the
  entries it read later are the draft's, since every change of entries moves the version
  (`DraftRewritten`). A chain of predecessors closes on itself if and only if some
  entries of the revision only follow each other; `Cyclic` is written that way, and an
  entry added at the end of a chain closes none because nothing follows it yet
  (`AddedAtTheEnd`).
- `Planning_proofs`, generation. Areas only gain parts at the end and lose them by
  retirement, so a tree keeps its ancestors (`AncestorsAreKept`); the model computes them
  by a recursive function, and `AncestorsAreLeast` shows once that this is the least set
  that holds the parents, the area numbers being the measure. A preview nothing blocks
  proposes works that are whole and on places apart (`PreviewStands`): leaves of a
  selection never contain one another. `CheckStands` is what of a check survives until
  the commit: rows and the object's lock (`Conflict`) keep the others from the parent's
  measure and from the area to retire, and a proposal speaks of areas whose measure never
  changes. Retirement takes no object lock, so a checked confirmation and a checked
  retirement may meet; what the binding's trigger admits then is the guard that keeps
  places alive (`ConfirmGenerationCommits`). `SpaceIsCountedOnce` is not a strengthening
  of the invariant but follows from it (`SpaceIsCounted`): producers of one key lie apart
  and each produces what its area measures, so on an area and its parts there is either
  one on the area or some on parts that together fit. Sums are `Totals`' counts of units
  (`SumOfOneMore`, `SumOfFewer`). The proof needs no bound on areas, versions or works
  beyond those of the model, and of finish systems only that a version has no two stages
  of one key.
- `Planning_proofs`, catalogue. `CheckHolds` keeps less than was checked: the corporate
  type that an alias will name is not locked, so its unit may be corrected before the
  approval commits; that it is corporate cannot be undone, and that is all
  `PublishedByOneProposal` needs. `ProposalsKnow` says a proposal has its type's unit
  while the type has the version proposed, because a correction moves both; an approval
  compares versions only, and this is why it approves the unit too. A use and a
  correction of one type are kept apart by `FOR SHARE`, two uses are not.
- `Delivery_proofs`, the outbox. `Holding`: a row in work is in the queue and one
  worker's. `Told`: a message that was taken is lost to the ledger, settled, or its
  confirmation is in a worker's hand. Without the last disjunct the invariant breaks
  between the portal's answer and the commit.
- `Migrations_proofs`, runner. `OneApplies` is the advisory lock; `Applying` says that
  the plan of who holds it is the one the committed ledger still calls for, that no
  refusal would meet it now, and that what is done of it was done in ascending
  order. `LedgerIsTrue` needs the first to know that a commit adds rows for
  what nobody else ran, `DeploymentsAreWhole` that the plan of who commits is whole. Versions have three digits, as their names are sorted as
  text.
- `Migrations_proofs`, scan. `Mirrors`: what the scanner recorded covers what is in the
  database, statement by statement; `ScanInv` has it of the accepted chain and of the
  file under way. The tainted names are the least set that the code's loop closes, so
  the others are a set that calls and fires nothing outside itself
  (`UntaintedRunsNothing`), and a relation made over them taints none of them
  (`HarmlessDefinition`, stated of any seeds: armed bodies and those that upsert).
  The proof needs no bound on the file: bindings that nothing names are judged by
  `FileAccepted` at its end, and what they ran before it is no part of the theorem.
- `Office_proofs`, accounts. `LocksApart` lists what the lock on the tenant and the
  lock on the account leave to two commands at a time; `StillAllowed` is then
  inductive: an update keeps the administrator it counted on because it holds the
  tenant alone among updates, and nothing else takes one away. A login needs only
  that accounts are never deleted (`LoginsExist`). That no login holds the row
  of an account being switched off is `LocksApart` again; one that has yet to ask for
  it is outside the theorem, which says of it only that it read the account while it
  was on.
- `Office_proofs`, tokens. `OneTransaction` is the row's lock. `Reliable` says what
  one process may rely on: inside its transaction it has the row as it is; outside,
  the row's version tells it if not; a pair in its hand is neither the row's nor
  spent. `PairsDiffer` keeps two installations from writing the same pair, which
  `Reliable` needs when one of them writes.

- `Office_proofs`, files. `GateInv`: who waits for the gate is queued once and who runs
  is counted once, so that a slot handed to the next in the queue is neither lost nor
  given twice. `Placed` ties what Disk has of a file to how far its request has come;
  it has a disjunct for every failure, the answers nobody waits for included.
- `Office_proofs`, acts. `PackagesApart`: one command at a time has a package's row.
  `StillHolds`: what was checked under it holds until the commit, of the rows read
  outside it too, which others may only extend (evidence gains documents and loses
  none). `NumberInHand` and `TakesNext`: a number in the hand of a generation is the
  act's own or the next one, and only one generation has the next; without it numbers
  would have twins, because the counter moves only at a commit. `RemoveAct` decides on
  an act it read before the lock, and removes none that has been generated: an act
  without a revision has no number (`RowHolds`), and the foreign key of revisions
  refuses the others. That a gate is lost by a choice of method only needs that
  commands leave other packages alone (`OtherPackages`).
- `Office_proofs`, older closing route. `StatusTellsTheClosings` is about a sum over the
  rows of a table. `Totals` takes a sum as the number of units its terms are made of, so
  the library's theorems on `Cardinality` give the two laws the proof needs: one row
  more adds its amount (`SumWithOneMore`), and equal rows have equal sums
  (`SameAmountsSameSum`). `RowsApart`: two checked commands have no row in common.
  `CheckedStands`: what a command was checked against holds until it commits, because
  what the others may write is on rows it has, or only grows: an approval is not taken
  back, a closing key once known stays known. That a work goes to SDO once is not
  kept by a lock, since two packages of a work are two rows, but by the unique index
  (`CaseIsNew`) at the insertion.
- `Office_proofs`, teams. The assignments are tables whose rows are only ended and
  appended, so the lemmas come first that say what a command leaves of a table
  (`ReplacedRows`) and, column by column, of an engineer's team, an object's lead, its
  members and its work (`OrgMoves`, `LeadsMove`, `HandoversMove`, `MembersMove`,
  `HandoffsMove`). The other half is the locks. `ScopesApart`: two checked commands
  have no user, object or row in common. `AssignmentStands` lists what of the check
  still holds at the commit: the account is open, the membership the sender has seen is
  still the current one, the work keeps its engineer or has no live package. It does
  not list all that was checked, because not all of it is protected: the account of the
  lead through whom an engineer is eligible may be closed meanwhile, and the creation of
  a package, which locks the work only, may find its engineer in another team when it
  commits. What stands is protected because every command writes within its scope
  (`Within`, `StillStands`). That replaced leads hand over needs one thing of the
  history of the rows, `EndedLeadsAreFollowed`: a lead is ended only by the one who
  comes next, so the last lead of an object is its current one and a new row can
  follow no other. `OneTeam`, `OneLead` and `OncePerObject` hold by the locks alone,
  without the unique indexes of the schema.

Model-checked only: all properties of `ScheduleAssessment`, `AllocationCaps`, `FinishTemplates`
and `DiskFolders`, `GeneratedAsPreviewed`, and the liveness properties `RequestsEnd`,
`HealthyIsSettledAlone` and `UploadsEnd`. Out of the prover's reach in
general are liveness under fairness, ENABLED, induction over data (what a fold or a
recursive function computes) and recursive operators. Sums escape it where they are written
with `Totals`.

## Not modelled

- Read models and registers (`read-service.ts`, `documentation-registry-service.ts`,
  `gpr2-r05-read.ts`, `projection.ts`) write nothing; the predicates they share with
  the writers are modelled there. The Excel import is a one-shot administrative load.
  The risk worker projects dates into colours. Controllers validate and route.
- The frontend decides nothing that the backend does not decide again. It, the
  build and acceptance scripts and their fixtures are more than half of the
  repository's lines, which is why the map covers a small share of them.
- Inside modelled components: the ONAPPINSTALL webhook (off by default), labels and
  human renames of folders, the LOCAL file provider, files of Disk deleted by
  people, creations with idempotency keys, deadlocks as such (a victim is a
  refusal), the HTTP protocol of Bitrix24, the lexical rules of the migration scan,
  the table of permissions.

## Plan

Done: every component modelled and checked; the closing route, both ledgers,
construction control, the sources of figures, works and dependencies, the production
schedule, the outbox, migrations, generation, the catalogue of types, acts, accounts,
tokens, files, the older closing route and the teams proved. What is left to prove is
`AllocationCaps`, whose sums over sets of rows would have to be written with `Totals`
first, and `FinishTemplates`.
