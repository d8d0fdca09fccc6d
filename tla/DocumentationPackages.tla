------------------------ MODULE DocumentationPackages ------------------------
(***************************************************************************)
(* The PTO side of executive documentation: documentation packages of one  *)
(* work, their scope (quantity portions), their documents and document     *)
(* versions, the AOSRs prepared in Core, the customer's acceptance, and    *)
(* the soft archive.                                                       *)
(*                                                                         *)
(* Every handler of apps/backend/src/service.ts and aosr-service.ts is one *)
(* PostgreSQL transaction that locks the package row first, so a handler   *)
(* is one atomic action here.  A handler that calls checkVersion() takes   *)
(* the version v the request carries; the rest of the guard is the chain   *)
(* of ensure() calls.  Who may call (roles, the effective PTO assignment)  *)
(* is not modelled: the caller of every action is authorised.              *)
(***************************************************************************)
EXTENDS Integers, FiniteSets

CONSTANTS
  Packages,     \* identities of documentation packages of the work
  Portions,     \* quantity portions of the work
  Certificates, \* documents of type ACT_CERTIFICATE
  Schemes,      \* documents of type EXECUTIVE_SCHEME
  Aosrs,        \* AOSR records; the DOCX of an AOSR is a document of the same name
  MaxPackageVersion, \* bound on the optimistic version of a package row
  MaxRevision        \* bound on the versions of one document

Documents == Certificates \cup Schemes \cup Aosrs

ASSUME DocumentKindsAreDisjoint ==
  /\ Certificates \cap Schemes = {}
  /\ Certificates \cap Aosrs = {}
  /\ Schemes \cap Aosrs = {}

ASSUME BoundsAreNaturals == MaxPackageVersion \in Nat /\ MaxRevision \in Nat

VARIABLES
  pkg,       \* documentation_packages: status, archived, version
  scope,     \* documentation_package_portions: the portions of a package
  docs,      \* documentation_documents: the documents a package holds
  latest,    \* coalesce(max(version_number), 0) of each document
  method,    \* latest row of documentation_package_aosr_methods
  aosr,      \* aosr_documents, by the state of the generated DOCX
  history,   \* documentation_package_status_history: the edges taken so far
  accepted,  \* version rows in the snapshot of the latest customer acceptance
  shown,     \* what the last move to PRESENTED put before the customer
  customer,  \* portions whose latest CUSTOMER_SC group resolves to ready
  sdo        \* sdo_closing_cases: status, locked, version, total

contentVars == <<scope, docs, latest, aosr>>
ptoVars == <<pkg, scope, docs, latest, method, aosr, history, accepted, shown, customer>>

-----------------------------------------------------------------------------
(* Statuses *)

Absent == "ABSENT"   \* no row

PackageStatuses == {"DRAFT", "PREPARING", "READY_FOR_PRESENTATION", "PRESENTED",
                    "RETURNED", "CORRECTING", "ACCEPTED_BY_CUSTOMER"}

\* Mutated form: PRESENTED counted as editable.
EditableWhilePresented ==
  {"DRAFT", "PREPARING", "READY_FOR_PRESENTATION", "PRESENTED", "CORRECTING"}

ContentEditableStatuses == {"DRAFT", "PREPARING", "READY_FOR_PRESENTATION", "CORRECTING"}

\* Mutated form: a returned package may be presented again as it is.
TransitionsWithoutCorrection ==
  {<<"DRAFT", "PREPARING">>, <<"PREPARING", "READY_FOR_PRESENTATION">>,
   <<"READY_FOR_PRESENTATION", "PRESENTED">>, <<"PRESENTED", "RETURNED">>,
   <<"RETURNED", "CORRECTING">>, <<"RETURNED", "PRESENTED">>, <<"CORRECTING", "PRESENTED">>}

AllowedStatusTransitions ==
  {<<"DRAFT", "PREPARING">>, <<"PREPARING", "READY_FOR_PRESENTATION">>,
   <<"READY_FOR_PRESENTATION", "PRESENTED">>, <<"PRESENTED", "RETURNED">>,
   <<"RETURNED", "CORRECTING">>, <<"CORRECTING", "PRESENTED">>}

\* States of an AOSR's DOCX (aosrDocxState), and ABSENT when there is no AOSR.
DocxStates == {"NOT_GENERATED", "CURRENT", "OUTDATED"}

Methods == {"CORE", "EXTERNAL"}

SdoStatuses == {"ON_RECONCILIATION", "VERIFICATION_PASSED", "ON_CORRECTION", "CLOSED"}

NoAmount == -1       \* total_amount IS NULL
NoPackage == [status |-> Absent, archived |-> FALSE, version |-> 0]
NoCase == [status |-> Absent, locked |-> FALSE, version |-> 0, total |-> NoAmount]

-----------------------------------------------------------------------------
(* What the guards read *)

Exists(p) == pkg[p].status # Absent
NotArchived(p) == ~pkg[p].archived
HasCase(p) == sdo[p].status # Absent
HasScope(p) == scope[p] # {}

\* The version rows that are current: one per document that has any.
CurrentVersions(p) == {<<d, latest[p][d]>> : d \in {x \in docs[p] : latest[p][x] > 0}}

CanMutateContent(p) ==
  /\ pkg[p].status \in ContentEditableStatuses
  /\ ~sdo[p].locked

\* writeContext(): any change, and a change of content.
Open(p) == Exists(p) /\ NotArchived(p)
OpenForContent(p) == Open(p) /\ CanMutateContent(p)

\* Mutated form: a package still in DRAFT claims nothing.
ClaimsOnceSubmitted(S, except) ==
  {q \in S : \E r \in Packages \ except :
     Open(r) /\ pkg[r].status # "DRAFT" /\ q \in scope[r]}

\* Portions of S that another unarchived package of the work claims.
OverlappingClaims(S, except) ==
  {q \in S : \E r \in Packages \ except : Open(r) /\ q \in scope[r]}

\* A scheme is created together with its file, so a scheme of the package is
\* file-backed; a CURRENT DOCX was generated over a linked file-backed scheme.
ForwardGate(p) ==
  /\ HasScope(p)
  /\ method[p] # Absent
  /\ method[p] = "CORE" =>
       /\ \E x \in Aosrs : aosr[p][x] # Absent
       /\ \A x \in Aosrs : aosr[p][x] \in {Absent, "CURRENT"}
  /\ docs[p] \cap Schemes # {}

EverPresented(p) ==
  \E edge \in history[p] : \/ edge[1] \in {"PRESENTED", "ACCEPTED_BY_CUSTOMER"}
                           \/ edge[2] \in {"PRESENTED", "ACCEPTED_BY_CUSTOMER"}

\* Mutated form: the archive asks for an open case only.
ArchivableUntilHandoff(p) == NotArchived(p) /\ ~HasCase(p)

\* packageArchiveBlocker() finds nothing.  Rows of customer-accepted quantity
\* are written only after PRESENTED, so EverPresented stands for them too.
Archivable(p) ==
  /\ NotArchived(p)
  /\ pkg[p].status \in {"DRAFT", "PREPARING"}
  /\ ~HasCase(p)
  /\ accepted[p] = {}
  /\ ~EverPresented(p)
  /\ \A x \in Aosrs : aosr[p][x] \in {Absent, "NOT_GENERATED"}

-----------------------------------------------------------------------------
(* Row updates *)

\* checkVersion(), with the bound that keeps a row's version finite.
CheckVersion(row, v, bound) == row.version = v /\ row.version < bound

\* Every UPDATE of a versioned row sets version = version + 1.
Versioned(row) == [row EXCEPT !.version = @ + 1]

MovePackage(p, status) ==
  /\ pkg' = [pkg EXCEPT ![p] = Versioned([@ EXCEPT !.status = status])]
  /\ history' = [history EXCEPT ![p] = @ \cup {<<pkg[p].status, status>>}]

AddVersion(p, d) ==
  /\ latest[p][d] < MaxRevision
  /\ latest' = [latest EXCEPT ![p][d] = @ + 1]

-----------------------------------------------------------------------------
(* Handlers *)

CreatePackage(p, S) ==
  /\ ~Exists(p)
  /\ S # {}
  /\ OverlappingClaims(S, {}) = {}
  /\ pkg' = [pkg EXCEPT ![p] = [status |-> "DRAFT", archived |-> FALSE, version |-> 1]]
  /\ scope' = [scope EXCEPT ![p] = S]
  /\ UNCHANGED <<docs, latest, method, aosr, history, accepted, shown, customer, sdo>>

\* The responsible may not change, so an accepted edit only versions the row.
EditPackage(p, v) ==
  /\ Open(p)
  /\ CheckVersion(pkg[p], v, MaxPackageVersion)
  /\ pkg' = [pkg EXCEPT ![p] = Versioned(@)]
  /\ UNCHANGED <<contentVars, method, history, accepted, shown, customer, sdo>>

ArchivePackage(p, v) ==
  /\ Exists(p)
  /\ CheckVersion(pkg[p], v, MaxPackageVersion)
  /\ Archivable(p)
  /\ pkg' = [pkg EXCEPT ![p] = Versioned([@ EXCEPT !.archived = TRUE])]
  /\ UNCHANGED <<contentVars, method, history, accepted, shown, customer, sdo>>

LinkPortion(p, q) ==
  /\ OpenForContent(p)
  /\ q \notin scope[p]
  /\ OverlappingClaims({q}, {p}) = {}
  /\ scope' = [scope EXCEPT ![p] = @ \cup {q}]
  /\ UNCHANGED <<pkg, docs, latest, method, aosr, history, accepted, shown, customer, sdo>>

\* Only a certificate is created as a bare document.
CreateDocument(p, d) ==
  /\ OpenForContent(p)
  /\ d \in Certificates \ docs[p]
  /\ docs' = [docs EXCEPT ![p] = @ \cup {d}]
  /\ UNCHANGED <<pkg, scope, latest, method, aosr, history, accepted, shown, customer, sdo>>

\* createDocumentationVersion, and attachSchemeFile for a scheme.
CreateVersion(p, d) ==
  /\ OpenForContent(p)
  /\ d \in docs[p]
  /\ AddVersion(p, d)
  /\ UNCHANGED <<pkg, scope, docs, method, aosr, history, accepted, shown, customer, sdo>>

\* The document and its first file version are one transaction.
CreateScheme(p, s) ==
  /\ OpenForContent(p)
  /\ s \in Schemes \ docs[p]
  /\ docs' = [docs EXCEPT ![p] = @ \cup {s}]
  /\ AddVersion(p, s)
  /\ UNCHANGED <<pkg, scope, method, aosr, history, accepted, shown, customer, sdo>>

\* Not package content: refused only while an SDO case holds the package.
SetMethod(p, m) ==
  /\ Open(p)
  /\ ~sdo[p].locked
  /\ method[p] # m
  /\ m = "EXTERNAL" => \A x \in Aosrs : aosr[p][x] = Absent
  /\ method' = [method EXCEPT ![p] = m]
  /\ UNCHANGED <<pkg, contentVars, history, accepted, shown, customer, sdo>>

CreateAosr(p, x) ==
  /\ OpenForContent(p)
  /\ method[p] = "CORE"
  /\ aosr[p][x] = Absent
  /\ aosr' = [aosr EXCEPT ![p][x] = "NOT_GENERATED"]
  /\ UNCHANGED <<pkg, scope, docs, latest, method, history, accepted, shown, customer, sdo>>

\* Mutated form: an AOSR edit that skips the freeze policy.
EditAosrAnyTime(p, x) ==
  /\ Open(p)
  /\ aosr[p][x] # Absent
  /\ aosr' = [aosr EXCEPT ![p][x] = IF @ = "NOT_GENERATED" THEN @ ELSE "OUTDATED"]
  /\ UNCHANGED <<pkg, scope, docs, latest, method, history, accepted, shown, customer, sdo>>

\* edit and setLinks: the row's version moves past generated_at_version.
EditAosr(p, x) ==
  /\ OpenForContent(p)
  /\ aosr[p][x] # Absent
  /\ aosr' = [aosr EXCEPT ![p][x] = IF @ = "NOT_GENERATED" THEN @ ELSE "OUTDATED"]
  /\ UNCHANGED <<pkg, scope, docs, latest, method, history, accepted, shown, customer, sdo>>

RemoveAosr(p, x) ==
  /\ OpenForContent(p)
  /\ aosr[p][x] = "NOT_GENERATED"
  /\ aosr' = [aosr EXCEPT ![p][x] = Absent]
  /\ UNCHANGED <<pkg, scope, docs, latest, method, history, accepted, shown, customer, sdo>>

\* The first generation creates the AOSR's document, every generation adds a
\* version; it is refused unless a file-backed scheme covers the AOSR.
GenerateAosr(p, x) ==
  /\ OpenForContent(p)
  /\ method[p] = "CORE"
  /\ aosr[p][x] # Absent
  /\ docs[p] \cap Schemes # {}
  /\ aosr' = [aosr EXCEPT ![p][x] = "CURRENT"]
  /\ docs' = [docs EXCEPT ![p] = @ \cup {x}]
  /\ AddVersion(p, x)
  /\ UNCHANGED <<pkg, scope, method, history, accepted, shown, customer, sdo>>

ChangePackageStatus(p, status, v) ==
  /\ Open(p)
  /\ CheckVersion(pkg[p], v, MaxPackageVersion)
  /\ <<pkg[p].status, status>> \in AllowedStatusTransitions
  /\ status \in {"PREPARING", "READY_FOR_PRESENTATION", "PRESENTED"} => HasScope(p)
  /\ status = "PRESENTED" => ForwardGate(p)
  /\ MovePackage(p, status)
  /\ shown' = [shown EXCEPT ![p] = IF status = "PRESENTED" THEN CurrentVersions(p) ELSE @]
  /\ UNCHANGED <<contentVars, method, accepted, customer, sdo>>

\* The snapshot takes the latest version of every document of the package.
RegisterCustomerAcceptance(p, v) ==
  /\ Open(p)
  /\ CheckVersion(pkg[p], v, MaxPackageVersion)
  /\ pkg[p].status = "PRESENTED"
  /\ HasScope(p)
  /\ docs[p] # {}
  /\ \A d \in docs[p] : latest[p][d] > 0
  /\ accepted' = [accepted EXCEPT ![p] = CurrentVersions(p)]
  /\ MovePackage(p, "ACCEPTED_BY_CUSTOMER")
  /\ UNCHANGED <<contentVars, method, shown, customer, sdo>>

\* PTO's own correction route, open until a case row exists.
ReturnToCorrection(p, v) ==
  /\ Open(p)
  /\ CheckVersion(pkg[p], v, MaxPackageVersion)
  /\ pkg[p].status = "ACCEPTED_BY_CUSTOMER"
  /\ ~HasCase(p)
  /\ MovePackage(p, "CORRECTING")
  /\ UNCHANGED <<contentVars, method, accepted, shown, customer, sdo>>

\* Mutated form: a quantity recorded while SDO holds the package.
RecordIgnoringCustody(p, q, positive) ==
  /\ Open(p)
  /\ pkg[p].status \in {"PRESENTED", "ACCEPTED_BY_CUSTOMER"}
  /\ ForwardGate(p)
  /\ q \in scope[p]
  /\ customer' = IF positive THEN customer \cup {q} ELSE customer \ {q}
  /\ UNCHANGED <<pkg, contentVars, method, history, accepted, shown, sdo>>

\* «Зафиксировать объём, принятый заказчиком»: zero is a legal quantity, and
\* the row it appends becomes the portion's latest CUSTOMER_SC group.
RecordAcceptedQuantity(p, q, positive) ==
  /\ Open(p)
  /\ ~sdo[p].locked
  /\ pkg[p].status \in {"PRESENTED", "ACCEPTED_BY_CUSTOMER"}
  /\ ForwardGate(p)
  /\ q \in scope[p]
  /\ customer' = IF positive THEN customer \cup {q} ELSE customer \ {q}
  /\ UNCHANGED <<pkg, contentVars, method, history, accepted, shown, sdo>>

\* An accepted CUSTOMER_SC inspection of a portion confirms more than zero.
AcceptCustomerInspection(q) ==
  /\ customer' = customer \cup {q}
  /\ UNCHANGED <<pkg, contentVars, method, history, accepted, shown, sdo>>

-----------------------------------------------------------------------------
PtoInit ==
  /\ pkg = [p \in Packages |-> NoPackage]
  /\ scope = [p \in Packages |-> {}]
  /\ docs = [p \in Packages |-> {}]
  /\ latest = [p \in Packages |-> [d \in Documents |-> 0]]
  /\ method = [p \in Packages |-> Absent]
  /\ aosr = [p \in Packages |-> [x \in Aosrs |-> Absent]]
  /\ history = [p \in Packages |-> {}]
  /\ accepted = [p \in Packages |-> {}]
  /\ shown = [p \in Packages |-> {}]
  /\ customer = {}
  /\ sdo = [p \in Packages |-> NoCase]


PtoNext ==
  \/ \E p \in Packages :
       \/ \E S \in SUBSET Portions : CreatePackage(p, S)
       \/ \E q \in Portions : LinkPortion(p, q)
       \/ \E q \in Portions, positive \in BOOLEAN : RecordAcceptedQuantity(p, q, positive)
       \/ \E d \in Documents : CreateDocument(p, d) \/ CreateVersion(p, d)
       \/ \E s \in Schemes : CreateScheme(p, s)
       \/ \E m \in Methods : SetMethod(p, m)
       \/ \E x \in Aosrs : CreateAosr(p, x) \/ EditAosr(p, x) \/ RemoveAosr(p, x) \/ GenerateAosr(p, x)
       \/ \E v \in 1..MaxPackageVersion :
            \/ EditPackage(p, v)
            \/ ArchivePackage(p, v)
            \/ \E status \in PackageStatuses : ChangePackageStatus(p, status, v)
            \/ RegisterCustomerAcceptance(p, v)
            \/ ReturnToCorrection(p, v)
  \/ \E q \in Portions : AcceptCustomerInspection(q)
=============================================================================
