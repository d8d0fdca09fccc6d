-------------------------- MODULE SdoClosing_proofs --------------------------
(***************************************************************************)
(* Proofs about SdoClosing for every set of packages, portions, documents  *)
(* and amounts, and for every bound: type correctness, what a step may do  *)
(* to one package (OnlyWriters) and the edge the package and its case take *)
(* (PackageEdge, CaseEdge), then the safety and action properties in       *)
(* layers, each an invariant whose preservation uses the layers before it, *)
(* and that the handlers implement PackageCustody.                         *)
(***************************************************************************)
EXTENDS SdoClosing, TLAPS

-----------------------------------------------------------------------------
(* Type correctness *)

\* What an UPDATE does to the columns of a row.
LEMMA PackageRowUpdates ==
  ASSUME NEW row \in PackageRow
  PROVE  /\ /\ Versioned(row) \in PackageRow
            /\ Versioned(row).status = row.status
            /\ Versioned(row).archived = row.archived
         /\ LET new == Versioned([row EXCEPT !.archived = TRUE])
            IN  new \in PackageRow /\ new.status = row.status /\ new.archived
         /\ \A status \in PackageStatuses :
              LET new == Versioned([row EXCEPT !.status = status])
              IN  new \in PackageRow /\ new.status = status /\ new.archived = row.archived
<1>1. \A r \in PackageRow : /\ Versioned(r) \in PackageRow
                           /\ Versioned(r).status = r.status
                           /\ Versioned(r).archived = r.archived
  BY DEF PackageRow, Versioned
<1>2. LET new == [row EXCEPT !.archived = TRUE]
      IN  new \in PackageRow /\ new.status = row.status /\ new.archived
  BY DEF PackageRow
<1>3. \A status \in PackageStatuses :
        LET new == [row EXCEPT !.status = status]
        IN  new \in PackageRow /\ new.status = status /\ new.archived = row.archived
  BY DEF PackageRow
<1> QED
  BY <1>1, <1>2, <1>3

\* Bumping the version of a case row leaves its other columns alone.
LEMMA CaseVersioned ==
  ASSUME NEW row \in CaseRow
  PROVE  /\ Versioned(row) \in CaseRow
         /\ Versioned(row).status = row.status
         /\ Versioned(row).locked = row.locked
         /\ Versioned(row).total = row.total
BY DEF CaseRow, Versioned

\* The UPDATE of returnSdoCaseToPto: only the lock and the version change.
LEMMA CaseUnlocked ==
  ASSUME NEW row \in CaseRow
  PROVE  LET new == Versioned([row EXCEPT !.locked = FALSE])
         IN  new \in CaseRow /\ new.status = row.status /\ new.locked = FALSE /\ new.total = row.total
<1> DEFINE old == [row EXCEPT !.locked = FALSE]
<1>1. old \in CaseRow /\ old.status = row.status /\ old.locked = FALSE /\ old.total = row.total
  BY DEF CaseRow
<1> HIDE DEF old
<1>2. LET new == Versioned(old)
      IN  new \in CaseRow /\ new.status = row.status /\ new.locked = FALSE /\ new.total = row.total
  BY <1>1, CaseVersioned
<1> QED
  BY <1>2 DEF old

\* The UPDATE of setSdoClosingAmount: only the total and the version change.
LEMMA CaseTotalSet ==
  ASSUME NEW row \in CaseRow, NEW amount \in Amounts
  PROVE  LET new == Versioned([row EXCEPT !.total = amount])
         IN  /\ new \in CaseRow /\ new.status = row.status
             /\ new.locked = row.locked /\ new.total = amount
<1> DEFINE old == [row EXCEPT !.total = amount]
<1>1. old \in CaseRow /\ old.status = row.status /\ old.locked = row.locked /\ old.total = amount
  BY DEF CaseRow
<1> HIDE DEF old
<1>2. LET new == Versioned(old)
      IN  new \in CaseRow /\ new.status = row.status /\ new.locked = row.locked /\ new.total = amount
  BY <1>1, CaseVersioned
<1> QED
  BY <1>2 DEF old

\* The UPDATE of changeSdoClosingStatus: only the status and the version change.
LEMMA CaseStatusSet ==
  ASSUME NEW row \in CaseRow, NEW status \in SdoStatuses
  PROVE  LET new == Versioned([row EXCEPT !.status = status])
         IN  /\ new \in CaseRow /\ new.status = status
             /\ new.locked = row.locked /\ new.total = row.total
<1> DEFINE old == [row EXCEPT !.status = status]
<1>1. old \in CaseRow /\ old.status = status /\ old.locked = row.locked /\ old.total = row.total
  BY DEF CaseRow
<1> HIDE DEF old
<1>2. LET new == Versioned(old)
      IN  new \in CaseRow /\ new.status = status /\ new.locked = row.locked /\ new.total = row.total
  BY <1>1, CaseVersioned
<1> QED
  BY <1>2 DEF old

\* The INSERT or UPDATE of handoff: status and lock are set, the total is kept.
LEMMA CaseHandedOver ==
  ASSUME NEW row \in CaseRow, NEW status \in SdoStatuses \cup {Absent}
  PROVE  LET new == Versioned([row EXCEPT !.status = status, !.locked = TRUE])
         IN  new \in CaseRow /\ new.status = status /\ new.locked = TRUE /\ new.total = row.total
<1> DEFINE old == [row EXCEPT !.status = status, !.locked = TRUE]
<1>1. old \in CaseRow /\ old.status = status /\ old.locked = TRUE /\ old.total = row.total
  BY DEF CaseRow
<1> HIDE DEF old
<1>2. LET new == Versioned(old)
      IN  new \in CaseRow /\ new.status = status /\ new.locked = TRUE /\ new.total = row.total
  BY <1>1, CaseVersioned
<1> QED
  BY <1>2 DEF old

\* Cancelling an allocation keeps its amount; setting one activates it.
LEMMA AllocationRowUpdates ==
  ASSUME NEW row \in AllocationRow
  PROVE  /\ LET new == Versioned([row EXCEPT !.active = FALSE])
            IN  new \in AllocationRow /\ ~new.active /\ new.amount = row.amount
         /\ \A amount \in Amounts :
              LET new == Versioned([row EXCEPT !.amount = amount, !.active = TRUE])
              IN  new \in AllocationRow /\ new.active /\ new.amount = amount
<1>1. \A r \in AllocationRow : /\ Versioned(r) \in AllocationRow
                              /\ Versioned(r).active = r.active
                              /\ Versioned(r).amount = r.amount
  BY DEF AllocationRow, Versioned
<1>2. LET new == [row EXCEPT !.active = FALSE]
      IN  new \in AllocationRow /\ ~new.active /\ new.amount = row.amount
  BY DEF AllocationRow
<1>3. \A amount \in Amounts :
        LET new == [row EXCEPT !.amount = amount, !.active = TRUE]
        IN  new \in AllocationRow /\ new.active /\ new.amount = amount
  BY AmountsAreNaturals DEF AllocationRow
<1> QED
  BY <1>1, <1>2, <1>3

\* The statuses handlers assign are statuses, and none is the absent row.
LEMMA StatusNames ==
  /\ {"DRAFT", "PRESENTED", "ACCEPTED_BY_CUSTOMER", "CORRECTING"} \subseteq PackageStatuses
  /\ "ON_RECONCILIATION" \in SdoStatuses
  /\ Absent \notin PackageStatuses \cup SdoStatuses \cup Methods \cup DocxStates
BY DEF PackageStatuses, SdoStatuses, Methods, DocxStates, Absent

\* Moving a package to a status keeps its row and its status history typed.
LEMMA MoveKeepsTypes ==
  ASSUME TypeOK, NEW p \in Packages, Exists(p), NEW status \in PackageStatuses, MovePackage(p, status)
  PROVE  /\ pkg' \in [Packages -> PackageRow]
         /\ history' \in [Packages -> SUBSET (PackageStatuses \X PackageStatuses)]
<1>1. pkg[p] \in PackageRow /\ pkg[p].status \in PackageStatuses
  BY DEF TypeOK, PackageRow, Exists
<1>2. Versioned([pkg[p] EXCEPT !.status = status]) \in PackageRow
  BY <1>1, PackageRowUpdates
<1>3. pkg' \in [Packages -> PackageRow]
  BY <1>2 DEF TypeOK, MovePackage
<1>4. <<pkg[p].status, status>> \in PackageStatuses \X PackageStatuses
  BY <1>1
<1>5. history' \in [Packages -> SUBSET (PackageStatuses \X PackageStatuses)]
  BY <1>4 DEF TypeOK, MovePackage
<1> QED
  BY <1>3, <1>5

\* A new document version is a natural number.
LEMMA AddVersionKeepsTypes ==
  ASSUME TypeOK, NEW p \in Packages, NEW d \in Documents, AddVersion(p, d)
  PROVE  latest' \in [Packages -> [Documents -> Nat]]
<1>1. latest[p] \in [Documents -> Nat]
  BY DEF TypeOK
<1>2. latest[p][d] + 1 \in Nat
  BY <1>1
<1> QED
  BY <1>2 DEF TypeOK, AddVersion

\* The snapshot registerCustomerAcceptance takes is a set of version rows.
LEMMA CurrentVersionsType ==
  ASSUME TypeOK, NEW p \in Packages
  PROVE  CurrentVersions(p) \in SUBSET (Documents \X Nat)
<1>1. docs[p] \subseteq Documents /\ latest[p] \in [Documents -> Nat]
  BY DEF TypeOK
<1> QED
  BY <1>1 DEF CurrentVersions

\* The empty database is well typed.
LEMMA InitTypeOK == Init => TypeOK
<1> SUFFICES ASSUME Init PROVE TypeOK
  OBVIOUS
<1>1. NoPackage \in PackageRow /\ NoCase \in CaseRow /\ NoAllocation \in AllocationRow
  BY DEF NoPackage, NoCase, NoAllocation, PackageRow, CaseRow, AllocationRow
<1> QED
  BY <1>1 DEF Init, PtoInit, TypeOK

\* Every handler writes well-typed rows.
LEMMA NextTypeOK == TypeOK /\ [Next]_vars => TypeOK'
<1> SUFFICES ASSUME TypeOK, [Next]_vars PROVE TypeOK'
  OBVIOUS
<1> USE DEF ptoVars, contentVars
<1>1. ASSUME NEW p \in Packages, NEW S \in SUBSET Portions,
             CreatePackage(p, S), UNCHANGED alloc
      PROVE  TypeOK'
  <2>1. [status |-> "DRAFT", archived |-> FALSE, version |-> 1] \in PackageRow
    BY StatusNames DEF PackageRow
  <2> QED
    BY <1>1, <2>1 DEF TypeOK, CreatePackage
<1>2. ASSUME NEW p \in Packages, NEW q \in Portions,
             LinkPortion(p, q), UNCHANGED alloc
      PROVE  TypeOK'
  BY <1>2 DEF TypeOK, LinkPortion
<1>3. ASSUME NEW p \in Packages, NEW q \in Portions, NEW b \in BOOLEAN,
             RecordAcceptedQuantity(p, q, b), UNCHANGED alloc
      PROVE  TypeOK'
  BY <1>3 DEF TypeOK, RecordAcceptedQuantity
<1>4. ASSUME NEW p \in Packages, NEW d \in Documents,
             CreateDocument(p, d), UNCHANGED alloc
      PROVE  TypeOK'
  <2>1. d \in Documents
    OBVIOUS
  <2> QED
    BY <1>4, <2>1 DEF TypeOK, CreateDocument
<1>5. ASSUME NEW p \in Packages, NEW d \in Documents,
             CreateVersion(p, d), UNCHANGED alloc
      PROVE  TypeOK'
  <2>1. latest' \in [Packages -> [Documents -> Nat]]
    BY <1>5, AddVersionKeepsTypes DEF CreateVersion
  <2> QED
    BY <1>5, <2>1 DEF TypeOK, CreateVersion
<1>6. ASSUME NEW p \in Packages, NEW s \in Schemes,
             CreateScheme(p, s), UNCHANGED alloc
      PROVE  TypeOK'
  <2>1. s \in Documents /\ latest' \in [Packages -> [Documents -> Nat]]
    BY <1>6, AddVersionKeepsTypes DEF CreateScheme, Documents
  <2> QED
    BY <1>6, <2>1 DEF TypeOK, CreateScheme
<1>7. ASSUME NEW p \in Packages, NEW m \in Methods,
             SetMethod(p, m), UNCHANGED alloc
      PROVE  TypeOK'
  BY <1>7 DEF TypeOK, SetMethod
<1>8. ASSUME NEW p \in Packages, NEW x \in Aosrs,
             CreateAosr(p, x), UNCHANGED alloc
      PROVE  TypeOK'
  BY <1>8 DEF TypeOK, CreateAosr, DocxStates
<1>9. ASSUME NEW p \in Packages, NEW x \in Aosrs,
             EditAosr(p, x), UNCHANGED alloc
      PROVE  TypeOK'
  BY <1>9 DEF TypeOK, EditAosr, DocxStates
<1>10. ASSUME NEW p \in Packages, NEW x \in Aosrs,
             RemoveAosr(p, x), UNCHANGED alloc
      PROVE  TypeOK'
  BY <1>10 DEF TypeOK, RemoveAosr, DocxStates
<1>11. ASSUME NEW p \in Packages, NEW x \in Aosrs,
             GenerateAosr(p, x), UNCHANGED alloc
      PROVE  TypeOK'
  <2>1. x \in Documents /\ latest' \in [Packages -> [Documents -> Nat]]
    BY <1>11, AddVersionKeepsTypes DEF GenerateAosr, Documents
  <2> QED
    BY <1>11, <2>1 DEF TypeOK, GenerateAosr, DocxStates
<1>12. ASSUME NEW p \in Packages, NEW v \in 1..MaxPackageVersion,
             EditPackage(p, v), UNCHANGED alloc
      PROVE  TypeOK'
  <2>1. Versioned(pkg[p]) \in PackageRow
    BY PackageRowUpdates DEF TypeOK
  <2> QED
    BY <1>12, <2>1 DEF TypeOK, EditPackage
<1>13. ASSUME NEW p \in Packages, NEW v \in 1..MaxPackageVersion,
             ArchivePackage(p, v), UNCHANGED alloc
      PROVE  TypeOK'
  <2>1. Versioned([pkg[p] EXCEPT !.archived = TRUE]) \in PackageRow
    BY PackageRowUpdates DEF TypeOK
  <2> QED
    BY <1>13, <2>1 DEF TypeOK, ArchivePackage
<1>14. ASSUME NEW p \in Packages, NEW status \in PackageStatuses, NEW v \in 1..MaxPackageVersion,
             ChangePackageStatus(p, status, v), UNCHANGED alloc
      PROVE  TypeOK'
  <2>1. /\ pkg' \in [Packages -> PackageRow]
        /\ history' \in [Packages -> SUBSET (PackageStatuses \X PackageStatuses)]
        /\ CurrentVersions(p) \in SUBSET (Documents \X Nat)
    BY <1>14, MoveKeepsTypes, CurrentVersionsType DEF ChangePackageStatus, Open
  <2> QED
    BY <1>14, <2>1 DEF TypeOK, ChangePackageStatus
<1>15. ASSUME NEW p \in Packages, NEW v \in 1..MaxPackageVersion,
             RegisterCustomerAcceptance(p, v), UNCHANGED alloc
      PROVE  TypeOK'
  <2>1. /\ pkg' \in [Packages -> PackageRow]
        /\ history' \in [Packages -> SUBSET (PackageStatuses \X PackageStatuses)]
        /\ CurrentVersions(p) \in SUBSET (Documents \X Nat)
    BY <1>15, MoveKeepsTypes, CurrentVersionsType, StatusNames DEF RegisterCustomerAcceptance, Open
  <2> QED
    BY <1>15, <2>1 DEF TypeOK, RegisterCustomerAcceptance
<1>16. ASSUME NEW p \in Packages, NEW v \in 1..MaxPackageVersion,
             ReturnToCorrection(p, v), UNCHANGED alloc
      PROVE  TypeOK'
  <2>1. /\ pkg' \in [Packages -> PackageRow]
        /\ history' \in [Packages -> SUBSET (PackageStatuses \X PackageStatuses)]
    BY <1>16, MoveKeepsTypes, StatusNames DEF ReturnToCorrection, Open
  <2> QED
    BY <1>16, <2>1 DEF TypeOK, ReturnToCorrection
<1>17. ASSUME NEW q \in Portions,
             AcceptCustomerInspection(q), UNCHANGED alloc
      PROVE  TypeOK'
  BY <1>17 DEF TypeOK, AcceptCustomerInspection
<1>18. ASSUME NEW p \in Packages, NEW v \in 1..MaxPackageVersion,
             Handoff(p, v)
      PROVE  TypeOK'
  <2> DEFINE status == IF sdo[p].status # Absent THEN sdo[p].status ELSE "ON_RECONCILIATION"
  <2>1. status \in SdoStatuses \cup {Absent} /\ sdo[p] \in CaseRow
    BY StatusNames DEF TypeOK, CaseRow
  <2>2. Versioned([sdo[p] EXCEPT !.status = status, !.locked = TRUE]) \in CaseRow
    <3> HIDE DEF status
    <3> QED
      BY <2>1, CaseHandedOver
  <2> QED
    BY <1>18, <2>2 DEF TypeOK, Handoff, HasCase
<1>19. ASSUME NEW p \in Packages, NEW v \in 1..MaxCaseVersion,
             ReturnToPto(p, v)
      PROVE  TypeOK'
  <2>1. /\ pkg' \in [Packages -> PackageRow]
        /\ history' \in [Packages -> SUBSET (PackageStatuses \X PackageStatuses)]
        /\ Versioned([sdo[p] EXCEPT !.locked = FALSE]) \in CaseRow
    BY <1>19, MoveKeepsTypes, CaseUnlocked, StatusNames DEF ReturnToPto, Exists, Absent, TypeOK
  <2> QED
    BY <1>19, <2>1 DEF TypeOK, ReturnToPto
<1>20. ASSUME NEW p \in Packages, NEW v \in 1..MaxCaseVersion,
             AssignResponsible(p, v)
      PROVE  TypeOK'
  <2>1. Versioned(sdo[p]) \in CaseRow
    BY CaseVersioned DEF TypeOK
  <2> QED
    BY <1>20, <2>1 DEF TypeOK, AssignResponsible
<1>21. ASSUME NEW p \in Packages, NEW status \in SdoStatuses, NEW v \in 1..MaxCaseVersion, NEW reason \in BOOLEAN,
             ChangeSdoStatus(p, status, v, reason)
      PROVE  TypeOK'
  <2>1. Versioned([sdo[p] EXCEPT !.status = status]) \in CaseRow
    BY CaseStatusSet DEF TypeOK
  <2> QED
    BY <1>21, <2>1 DEF TypeOK, ChangeSdoStatus
<1>22. ASSUME NEW p \in Packages, NEW amount \in Amounts, NEW v \in 1..MaxCaseVersion,
             SetAmount(p, amount, v)
      PROVE  TypeOK'
  <2>1. Versioned([sdo[p] EXCEPT !.total = amount]) \in CaseRow
    BY CaseTotalSet DEF TypeOK
  <2> QED
    BY <1>22, <2>1 DEF TypeOK, SetAmount
<1>23. ASSUME NEW p \in Packages, NEW q \in Portions, NEW amount \in Amounts, NEW v \in 1..MaxAllocationVersion,
             SetAllocation(p, q, amount, v)
      PROVE  TypeOK'
  <2> DEFINE new == Versioned([alloc[p][q] EXCEPT !.amount = amount, !.active = TRUE])
  <2>1. new \in AllocationRow
    <3>1. alloc[p][q] \in AllocationRow
      BY DEF TypeOK
    <3> QED
      BY <3>1, AllocationRowUpdates, Zenon
  <2>2. alloc' = [alloc EXCEPT ![p][q] = new]
    BY <1>23 DEF SetAllocation
  <2>3. alloc' \in [Packages -> [Portions -> AllocationRow]]
    <3> HIDE DEF new
    <3> QED
      BY <2>1, <2>2 DEF TypeOK
  <2>4. UNCHANGED <<ptoVars, sdo>>
    BY <1>23 DEF SetAllocation
  <2> QED
    BY <2>3, <2>4 DEF TypeOK
<1>24. ASSUME NEW p \in Packages, NEW q \in Portions, NEW v \in 1..MaxAllocationVersion,
             CancelAllocation(p, q, v)
      PROVE  TypeOK'
  <2> DEFINE new == Versioned([alloc[p][q] EXCEPT !.active = FALSE])
  <2>1. new \in AllocationRow
    <3>1. alloc[p][q] \in AllocationRow
      BY DEF TypeOK
    <3> QED
      BY <3>1, AllocationRowUpdates, Zenon
  <2>2. alloc' = [alloc EXCEPT ![p][q] = new]
    BY <1>24 DEF CancelAllocation
  <2>3. alloc' \in [Packages -> [Portions -> AllocationRow]]
    <3> HIDE DEF new
    <3> QED
      BY <2>1, <2>2 DEF TypeOK
  <2>4. UNCHANGED <<ptoVars, sdo>>
    BY <1>24 DEF CancelAllocation
  <2> QED
    BY <2>3, <2>4 DEF TypeOK
<1>25. CASE UNCHANGED vars
  BY <1>25 DEF vars, TypeOK
<1> QED
  BY <1>1, <1>2, <1>3, <1>4, <1>5, <1>6, <1>7, <1>8, <1>9, <1>10, <1>11, <1>12, <1>13, <1>14, <1>15, <1>16, <1>17, <1>18, <1>19, <1>20, <1>21, <1>22, <1>23, <1>24, <1>25 DEF Next, PtoNext, SdoNext

\* Every column holds a value of its type, whatever is called and whenever.
THEOREM TypeCorrect == Spec => []TypeOK
<1>1. Init => TypeOK
  BY InitTypeOK
<1>2. TypeOK /\ [Next]_vars => TypeOK'
  BY NextTypeOK
<1> QED
  BY <1>1, <1>2, PTL DEF Spec



-----------------------------------------------------------------------------
(* Rows, column by column *)

\* The columns of a package row after each kind of UPDATE.
LEMMA PackageColumns ==
  ASSUME TypeOK, NEW p \in Packages, NEW r \in Packages
  PROVE  /\ \A status \in PackageStatuses :
              pkg' = [pkg EXCEPT ![r] = Versioned([@ EXCEPT !.status = status])] =>
                /\ pkg'[p].status = IF p = r THEN status ELSE pkg[p].status
                /\ pkg'[p].archived = pkg[p].archived
         /\ pkg' = [pkg EXCEPT ![r] = Versioned(@)] =>
              pkg'[p].status = pkg[p].status /\ pkg'[p].archived = pkg[p].archived
         /\ pkg' = [pkg EXCEPT ![r] = Versioned([@ EXCEPT !.archived = TRUE])] =>
              /\ pkg'[p].status = pkg[p].status
              /\ pkg'[p].archived = IF p = r THEN TRUE ELSE pkg[p].archived
<1>1. pkg[r] \in PackageRow /\ pkg \in [Packages -> PackageRow]
  BY DEF TypeOK
<1>2. ASSUME NEW status \in PackageStatuses,
             pkg' = [pkg EXCEPT ![r] = Versioned([@ EXCEPT !.status = status])]
      PROVE  /\ pkg'[p].status = IF p = r THEN status ELSE pkg[p].status
             /\ pkg'[p].archived = pkg[p].archived
  <2> DEFINE new == Versioned([pkg[r] EXCEPT !.status = status])
  <2>1. new.status = status /\ new.archived = pkg[r].archived
    BY <1>1, PackageRowUpdates, Zenon
  <2>2. pkg'[p] = IF p = r THEN new ELSE pkg[p]
    BY <1>1, <1>2
  <2> HIDE DEF new
  <2> QED
    BY <2>1, <2>2
<1>3. ASSUME pkg' = [pkg EXCEPT ![r] = Versioned(@)]
      PROVE  pkg'[p].status = pkg[p].status /\ pkg'[p].archived = pkg[p].archived
  <2>1. pkg'[p] = IF p = r THEN Versioned(pkg[r]) ELSE pkg[p]
    BY <1>1, <1>3
  <2>2. Versioned(pkg[r]).status = pkg[r].status /\ Versioned(pkg[r]).archived = pkg[r].archived
    BY <1>1, PackageRowUpdates, Zenon
  <2> QED
    BY <2>1, <2>2
<1>4. ASSUME pkg' = [pkg EXCEPT ![r] = Versioned([@ EXCEPT !.archived = TRUE])]
      PROVE  /\ pkg'[p].status = pkg[p].status
             /\ pkg'[p].archived = IF p = r THEN TRUE ELSE pkg[p].archived
  <2> DEFINE new == Versioned([pkg[r] EXCEPT !.archived = TRUE])
  <2>1. new \in PackageRow /\ new.status = pkg[r].status /\ new.archived
    BY <1>1, PackageRowUpdates, Zenon
  <2>2. pkg'[p] = IF p = r THEN new ELSE pkg[p]
    BY <1>1, <1>4
  <2> HIDE DEF new
  <2>3. new.archived = TRUE
    BY <2>1 DEF PackageRow
  <2> QED
    BY <2>1, <2>2, <2>3
<1> QED
  BY <1>2, <1>3, <1>4

\* The columns of a case row after each kind of UPDATE.
LEMMA CaseColumns ==
  ASSUME TypeOK, NEW p \in Packages, NEW r \in Packages
  PROVE  /\ sdo' = [sdo EXCEPT ![r] = Versioned(@)] =>
              /\ sdo'[p].status = sdo[p].status
              /\ sdo'[p].locked = sdo[p].locked
              /\ sdo'[p].total = sdo[p].total
         /\ sdo' = [sdo EXCEPT ![r] = Versioned([@ EXCEPT !.locked = FALSE])] =>
              /\ sdo'[p].status = sdo[p].status
              /\ sdo'[p].locked = IF p = r THEN FALSE ELSE sdo[p].locked
              /\ sdo'[p].total = sdo[p].total
         /\ \A amount \in Amounts :
              sdo' = [sdo EXCEPT ![r] = Versioned([@ EXCEPT !.total = amount])] =>
                /\ sdo'[p].status = sdo[p].status
                /\ sdo'[p].locked = sdo[p].locked
                /\ sdo'[p].total = IF p = r THEN amount ELSE sdo[p].total
         /\ \A status \in SdoStatuses :
              sdo' = [sdo EXCEPT ![r] = Versioned([@ EXCEPT !.status = status])] =>
                /\ sdo'[p].status = IF p = r THEN status ELSE sdo[p].status
                /\ sdo'[p].locked = sdo[p].locked
                /\ sdo'[p].total = sdo[p].total
         /\ \A v : Handoff(r, v) =>
              /\ sdo'[p].status = IF p = r /\ ~HasCase(p) THEN "ON_RECONCILIATION" ELSE sdo[p].status
              /\ sdo'[p].locked = IF p = r THEN TRUE ELSE sdo[p].locked
              /\ sdo'[p].total = sdo[p].total
<1>1. sdo[r] \in CaseRow /\ sdo \in [Packages -> CaseRow]
  BY DEF TypeOK
<1>2. ASSUME sdo' = [sdo EXCEPT ![r] = Versioned(@)]
      PROVE  /\ sdo'[p].status = sdo[p].status
             /\ sdo'[p].locked = sdo[p].locked
             /\ sdo'[p].total = sdo[p].total
  <2>1. sdo'[p] = IF p = r THEN Versioned(sdo[r]) ELSE sdo[p]
    BY <1>1, <1>2
  <2>2. /\ Versioned(sdo[r]).status = sdo[r].status
        /\ Versioned(sdo[r]).locked = sdo[r].locked
        /\ Versioned(sdo[r]).total = sdo[r].total
    BY <1>1, CaseVersioned
  <2> QED
    BY <2>1, <2>2
<1>3. ASSUME sdo' = [sdo EXCEPT ![r] = Versioned([@ EXCEPT !.locked = FALSE])]
      PROVE  /\ sdo'[p].status = sdo[p].status
             /\ sdo'[p].locked = IF p = r THEN FALSE ELSE sdo[p].locked
             /\ sdo'[p].total = sdo[p].total
  <2> DEFINE new == Versioned([sdo[r] EXCEPT !.locked = FALSE])
  <2>1. new \in CaseRow /\ new.status = sdo[r].status /\ new.locked = FALSE /\ new.total = sdo[r].total
    BY <1>1, CaseUnlocked
  <2>2. sdo'[p] = IF p = r THEN new ELSE sdo[p]
    BY <1>1, <1>3
  <2> HIDE DEF new
  <2> QED
    BY <2>1, <2>2
<1>4. ASSUME NEW amount \in Amounts, sdo' = [sdo EXCEPT ![r] = Versioned([@ EXCEPT !.total = amount])]
      PROVE  /\ sdo'[p].status = sdo[p].status
             /\ sdo'[p].locked = sdo[p].locked
             /\ sdo'[p].total = IF p = r THEN amount ELSE sdo[p].total
  <2> DEFINE new == Versioned([sdo[r] EXCEPT !.total = amount])
  <2>1. new.status = sdo[r].status /\ new.locked = sdo[r].locked /\ new.total = amount
    BY <1>1, CaseTotalSet
  <2>2. sdo'[p] = IF p = r THEN new ELSE sdo[p]
    BY <1>1, <1>4
  <2> HIDE DEF new
  <2> QED
    BY <2>1, <2>2
<1>5. ASSUME NEW status \in SdoStatuses, sdo' = [sdo EXCEPT ![r] = Versioned([@ EXCEPT !.status = status])]
      PROVE  /\ sdo'[p].status = IF p = r THEN status ELSE sdo[p].status
             /\ sdo'[p].locked = sdo[p].locked
             /\ sdo'[p].total = sdo[p].total
  <2> DEFINE new == Versioned([sdo[r] EXCEPT !.status = status])
  <2>1. new.status = status /\ new.locked = sdo[r].locked /\ new.total = sdo[r].total
    BY <1>1, CaseStatusSet
  <2>2. sdo'[p] = IF p = r THEN new ELSE sdo[p]
    BY <1>1, <1>5
  <2> HIDE DEF new
  <2> QED
    BY <2>1, <2>2
<1>6. ASSUME NEW v, Handoff(r, v)
      PROVE  /\ sdo'[p].status = IF p = r /\ ~HasCase(p) THEN "ON_RECONCILIATION" ELSE sdo[p].status
             /\ sdo'[p].locked = IF p = r THEN TRUE ELSE sdo[p].locked
             /\ sdo'[p].total = sdo[p].total
  <2> DEFINE status == IF HasCase(r) THEN sdo[r].status ELSE "ON_RECONCILIATION"
             new == Versioned([sdo[r] EXCEPT !.status = status, !.locked = TRUE])
  <2>1. status \in SdoStatuses \cup {Absent}
    BY <1>1, StatusNames DEF CaseRow
  <2>2. sdo'[p] = IF p = r THEN new ELSE sdo[p]
    BY <1>1, <1>6 DEF Handoff
  <2>3. new \in CaseRow /\ new.status = status /\ new.locked = TRUE /\ new.total = sdo[r].total
    <3> HIDE DEF status
    <3> QED
      BY <1>1, <2>1, CaseHandedOver
  <2> HIDE DEF new
  <2> QED
    BY <2>2, <2>3
<1> QED
  BY <1>2, <1>3, <1>4, <1>5, <1>6

-----------------------------------------------------------------------------
(* Which handlers write which columns of a package *)

ScopeWriter(p) == \/ \E S \in SUBSET Portions : CreatePackage(p, S)
                  \/ \E q \in Portions : LinkPortion(p, q)
ContentWriter(p) == \/ \E d \in Documents : CreateDocument(p, d) \/ CreateVersion(p, d)
                    \/ \E s \in Schemes : CreateScheme(p, s)
                    \/ \E x \in Aosrs : GenerateAosr(p, x)
AosrWriter(p) ==
  \E x \in Aosrs : CreateAosr(p, x) \/ EditAosr(p, x) \/ RemoveAosr(p, x) \/ GenerateAosr(p, x)
MethodWriter(p) == \E m \in Methods : SetMethod(p, m)
StatusWriter(p) == \/ \E S \in SUBSET Portions : CreatePackage(p, S)
                   \/ \E status \in PackageStatuses, v \in 1..MaxPackageVersion : ChangePackageStatus(p, status, v)
                   \/ \E v \in 1..MaxPackageVersion : RegisterCustomerAcceptance(p, v) \/ ReturnToCorrection(p, v)
                   \/ \E v \in 1..MaxCaseVersion : ReturnToPto(p, v)
ArchiveWriter(p) == \E v \in 1..MaxPackageVersion : ArchivePackage(p, v)
AcceptanceWriter(p) == \E v \in 1..MaxPackageVersion : RegisterCustomerAcceptance(p, v)
ShownWriter(p) ==
  \E status \in PackageStatuses, v \in 1..MaxPackageVersion : ChangePackageStatus(p, status, v)
CustomerWriter ==
  \/ \E r \in Packages, q \in Portions, b \in BOOLEAN : RecordAcceptedQuantity(r, q, b)
  \/ \E q \in Portions : AcceptCustomerInspection(q)
CaseStatusWriter(p) ==
  \/ \E v \in 1..MaxPackageVersion : Handoff(p, v)
  \/ \E status \in SdoStatuses, v \in 1..MaxCaseVersion, reason \in BOOLEAN : ChangeSdoStatus(p, status, v, reason)
CustodyWriter(p) == \/ \E v \in 1..MaxPackageVersion : Handoff(p, v)
                    \/ \E v \in 1..MaxCaseVersion : ReturnToPto(p, v)
TotalWriter(p) == \E amount \in Amounts, v \in 1..MaxCaseVersion : SetAmount(p, amount, v)
AllocationWriter(p) ==
  \E q \in Portions, v \in 1..MaxAllocationVersion :
    \/ \E amount \in Amounts : SetAllocation(p, q, amount, v)
    \/ CancelAllocation(p, q, v)

OnlyWriters(p) ==
  /\ scope'[p] = scope[p] \/ ScopeWriter(p)
  /\ UNCHANGED <<docs[p], latest[p]>> \/ ContentWriter(p)
  /\ aosr'[p] = aosr[p] \/ AosrWriter(p)
  /\ method'[p] = method[p] \/ MethodWriter(p)
  /\ UNCHANGED <<pkg[p].status, history[p]>> \/ StatusWriter(p)
  /\ pkg'[p].archived = pkg[p].archived \/ ArchiveWriter(p) \/ (~Exists(p) /\ pkg'[p].archived = FALSE)
  /\ accepted'[p] = accepted[p] \/ AcceptanceWriter(p)
  /\ shown'[p] = shown[p] \/ ShownWriter(p)
  /\ customer' = customer \/ CustomerWriter
  /\ sdo'[p].status = sdo[p].status \/ CaseStatusWriter(p)
  /\ sdo'[p].locked = sdo[p].locked \/ CustodyWriter(p)
  /\ sdo'[p].total = sdo[p].total \/ TotalWriter(p)
  /\ alloc'[p] = alloc[p] \/ AllocationWriter(p)

\* A step changes a column of a package only by one of the column's writers.
LEMMA StepHasWriter ==
  ASSUME TypeOK, [Next]_vars, NEW p \in Packages
  PROVE  OnlyWriters(p)
<1> USE DEF ptoVars, contentVars
<1>1. ASSUME NEW r \in Packages, NEW S \in SUBSET Portions,
             CreatePackage(r, S), UNCHANGED alloc
      PROVE  OnlyWriters(p)
  <2>1. UNCHANGED <<docs, latest, method, aosr, history, accepted, shown, customer, sdo, alloc>>
    BY <1>1 DEF CreatePackage, MovePackage, AddVersion
  <2>2. p # r => pkg'[p] = pkg[p] /\ scope'[p] = scope[p]
    BY <1>1 DEF CreatePackage, MovePackage, AddVersion, TypeOK
  <2>3. p = r => ~Exists(p) /\ pkg'[p].archived = FALSE
    BY <1>1 DEF CreatePackage, TypeOK
  <2> QED
    BY <1>1, <2>1, <2>2, <2>3 DEF OnlyWriters, ScopeWriter, StatusWriter
<1>2. ASSUME NEW r \in Packages, NEW q \in Portions,
             LinkPortion(r, q), UNCHANGED alloc
      PROVE  OnlyWriters(p)
  <2>1. UNCHANGED <<pkg, docs, latest, method, aosr, history, accepted, shown, customer, sdo, alloc>>
    BY <1>2 DEF LinkPortion, MovePackage, AddVersion
  <2>2. p # r => scope'[p] = scope[p]
    BY <1>2 DEF LinkPortion, MovePackage, AddVersion, TypeOK
  <2> QED
    BY <1>2, <2>1, <2>2 DEF OnlyWriters, ScopeWriter
<1>3. ASSUME NEW r \in Packages, NEW q \in Portions, NEW b \in BOOLEAN,
             RecordAcceptedQuantity(r, q, b), UNCHANGED alloc
      PROVE  OnlyWriters(p)
  <2>1. UNCHANGED <<pkg, scope, docs, latest, method, aosr, history, accepted, shown, sdo, alloc>>
    BY <1>3 DEF RecordAcceptedQuantity, MovePackage, AddVersion
  <2> QED
    BY <1>3, <2>1 DEF OnlyWriters, CustomerWriter
<1>4. ASSUME NEW r \in Packages, NEW d \in Documents,
             CreateDocument(r, d), UNCHANGED alloc
      PROVE  OnlyWriters(p)
  <2>1. UNCHANGED <<pkg, scope, latest, method, aosr, history, accepted, shown, customer, sdo, alloc>>
    BY <1>4 DEF CreateDocument, MovePackage, AddVersion
  <2>2. p # r => docs'[p] = docs[p]
    BY <1>4 DEF CreateDocument, MovePackage, AddVersion, TypeOK
  <2> QED
    BY <1>4, <2>1, <2>2 DEF OnlyWriters, ContentWriter
<1>5. ASSUME NEW r \in Packages, NEW d \in Documents,
             CreateVersion(r, d), UNCHANGED alloc
      PROVE  OnlyWriters(p)
  <2>1. UNCHANGED <<pkg, scope, docs, method, aosr, history, accepted, shown, customer, sdo, alloc>>
    BY <1>5 DEF CreateVersion, MovePackage, AddVersion
  <2>2. p # r => latest'[p] = latest[p]
    BY <1>5 DEF CreateVersion, MovePackage, AddVersion, TypeOK
  <2> QED
    BY <1>5, <2>1, <2>2 DEF OnlyWriters, ContentWriter
<1>6. ASSUME NEW r \in Packages, NEW s \in Schemes,
             CreateScheme(r, s), UNCHANGED alloc
      PROVE  OnlyWriters(p)
  <2>1. UNCHANGED <<pkg, scope, method, aosr, history, accepted, shown, customer, sdo, alloc>>
    BY <1>6 DEF CreateScheme, MovePackage, AddVersion
  <2>2. p # r => docs'[p] = docs[p] /\ latest'[p] = latest[p]
    BY <1>6 DEF CreateScheme, MovePackage, AddVersion, TypeOK
  <2> QED
    BY <1>6, <2>1, <2>2 DEF OnlyWriters, ContentWriter
<1>7. ASSUME NEW r \in Packages, NEW m \in Methods,
             SetMethod(r, m), UNCHANGED alloc
      PROVE  OnlyWriters(p)
  <2>1. UNCHANGED <<pkg, scope, docs, latest, aosr, history, accepted, shown, customer, sdo, alloc>>
    BY <1>7 DEF SetMethod, MovePackage, AddVersion
  <2>2. p # r => method'[p] = method[p]
    BY <1>7 DEF SetMethod, MovePackage, AddVersion, TypeOK
  <2> QED
    BY <1>7, <2>1, <2>2 DEF OnlyWriters, MethodWriter
<1>8. ASSUME NEW r \in Packages, NEW x \in Aosrs,
             CreateAosr(r, x), UNCHANGED alloc
      PROVE  OnlyWriters(p)
  <2>1. UNCHANGED <<pkg, scope, docs, latest, method, history, accepted, shown, customer, sdo, alloc>>
    BY <1>8 DEF CreateAosr, MovePackage, AddVersion
  <2>2. p # r => aosr'[p] = aosr[p]
    BY <1>8 DEF CreateAosr, MovePackage, AddVersion, TypeOK
  <2> QED
    BY <1>8, <2>1, <2>2 DEF OnlyWriters, AosrWriter
<1>9. ASSUME NEW r \in Packages, NEW x \in Aosrs,
             EditAosr(r, x), UNCHANGED alloc
      PROVE  OnlyWriters(p)
  <2>1. UNCHANGED <<pkg, scope, docs, latest, method, history, accepted, shown, customer, sdo, alloc>>
    BY <1>9 DEF EditAosr, MovePackage, AddVersion
  <2>2. p # r => aosr'[p] = aosr[p]
    BY <1>9 DEF EditAosr, MovePackage, AddVersion, TypeOK
  <2> QED
    BY <1>9, <2>1, <2>2 DEF OnlyWriters, AosrWriter
<1>10. ASSUME NEW r \in Packages, NEW x \in Aosrs,
             RemoveAosr(r, x), UNCHANGED alloc
      PROVE  OnlyWriters(p)
  <2>1. UNCHANGED <<pkg, scope, docs, latest, method, history, accepted, shown, customer, sdo, alloc>>
    BY <1>10 DEF RemoveAosr, MovePackage, AddVersion
  <2>2. p # r => aosr'[p] = aosr[p]
    BY <1>10 DEF RemoveAosr, MovePackage, AddVersion, TypeOK
  <2> QED
    BY <1>10, <2>1, <2>2 DEF OnlyWriters, AosrWriter
<1>11. ASSUME NEW r \in Packages, NEW x \in Aosrs,
             GenerateAosr(r, x), UNCHANGED alloc
      PROVE  OnlyWriters(p)
  <2>1. UNCHANGED <<pkg, scope, method, history, accepted, shown, customer, sdo, alloc>>
    BY <1>11 DEF GenerateAosr, MovePackage, AddVersion
  <2>2. p # r => aosr'[p] = aosr[p] /\ docs'[p] = docs[p] /\ latest'[p] = latest[p]
    BY <1>11 DEF GenerateAosr, MovePackage, AddVersion, TypeOK
  <2> QED
    BY <1>11, <2>1, <2>2 DEF OnlyWriters, AosrWriter, ContentWriter
<1>12. ASSUME NEW r \in Packages, NEW v \in 1..MaxPackageVersion,
             EditPackage(r, v), UNCHANGED alloc
      PROVE  OnlyWriters(p)
  <2>1. UNCHANGED <<scope, docs, latest, method, aosr, history, accepted, shown, customer, sdo, alloc>>
    BY <1>12 DEF EditPackage, MovePackage, AddVersion
  <2>2. p # r => pkg'[p] = pkg[p]
    BY <1>12 DEF EditPackage, MovePackage, AddVersion, TypeOK
  <2>3. pkg'[p].status = pkg[p].status /\ pkg'[p].archived = pkg[p].archived
    BY <1>12, PackageColumns DEF EditPackage, MovePackage
  <2> QED
    BY <1>12, <2>1, <2>2, <2>3 DEF OnlyWriters
<1>13. ASSUME NEW r \in Packages, NEW v \in 1..MaxPackageVersion,
             ArchivePackage(r, v), UNCHANGED alloc
      PROVE  OnlyWriters(p)
  <2>1. UNCHANGED <<scope, docs, latest, method, aosr, history, accepted, shown, customer, sdo, alloc>>
    BY <1>13 DEF ArchivePackage, MovePackage, AddVersion
  <2>2. p # r => pkg'[p] = pkg[p]
    BY <1>13 DEF ArchivePackage, MovePackage, AddVersion, TypeOK
  <2>3. pkg'[p].status = pkg[p].status
    BY <1>13, PackageColumns DEF ArchivePackage, MovePackage
  <2> QED
    BY <1>13, <2>1, <2>2, <2>3 DEF OnlyWriters, ArchiveWriter
<1>14. ASSUME NEW r \in Packages, NEW status \in PackageStatuses, NEW v \in 1..MaxPackageVersion,
             ChangePackageStatus(r, status, v), UNCHANGED alloc
      PROVE  OnlyWriters(p)
  <2>1. UNCHANGED <<scope, docs, latest, method, aosr, accepted, customer, sdo, alloc>>
    BY <1>14 DEF ChangePackageStatus, MovePackage, AddVersion
  <2>2. p # r => pkg'[p] = pkg[p] /\ history'[p] = history[p] /\ shown'[p] = shown[p]
    BY <1>14 DEF ChangePackageStatus, MovePackage, AddVersion, TypeOK
  <2>3. pkg'[p].archived = pkg[p].archived
    BY <1>14, PackageColumns, StatusNames DEF ChangePackageStatus, MovePackage
  <2> QED
    BY <1>14, <2>1, <2>2, <2>3 DEF OnlyWriters, StatusWriter, ShownWriter
<1>15. ASSUME NEW r \in Packages, NEW v \in 1..MaxPackageVersion,
             RegisterCustomerAcceptance(r, v), UNCHANGED alloc
      PROVE  OnlyWriters(p)
  <2>1. UNCHANGED <<scope, docs, latest, method, aosr, shown, customer, sdo, alloc>>
    BY <1>15 DEF RegisterCustomerAcceptance, MovePackage, AddVersion
  <2>2. p # r => pkg'[p] = pkg[p] /\ history'[p] = history[p] /\ accepted'[p] = accepted[p]
    BY <1>15 DEF RegisterCustomerAcceptance, MovePackage, AddVersion, TypeOK
  <2>3. pkg'[p].archived = pkg[p].archived
    BY <1>15, PackageColumns, StatusNames DEF RegisterCustomerAcceptance, MovePackage
  <2> QED
    BY <1>15, <2>1, <2>2, <2>3 DEF OnlyWriters, StatusWriter, AcceptanceWriter
<1>16. ASSUME NEW r \in Packages, NEW v \in 1..MaxPackageVersion,
             ReturnToCorrection(r, v), UNCHANGED alloc
      PROVE  OnlyWriters(p)
  <2>1. UNCHANGED <<scope, docs, latest, method, aosr, accepted, shown, customer, sdo, alloc>>
    BY <1>16 DEF ReturnToCorrection, MovePackage, AddVersion
  <2>2. p # r => pkg'[p] = pkg[p] /\ history'[p] = history[p]
    BY <1>16 DEF ReturnToCorrection, MovePackage, AddVersion, TypeOK
  <2>3. pkg'[p].archived = pkg[p].archived
    BY <1>16, PackageColumns, StatusNames DEF ReturnToCorrection, MovePackage
  <2> QED
    BY <1>16, <2>1, <2>2, <2>3 DEF OnlyWriters, StatusWriter
<1>17. ASSUME NEW q \in Portions,
             AcceptCustomerInspection(q), UNCHANGED alloc
      PROVE  OnlyWriters(p)
  <2>1. UNCHANGED <<pkg, scope, docs, latest, method, aosr, history, accepted, shown, sdo, alloc>>
    BY <1>17 DEF AcceptCustomerInspection, MovePackage, AddVersion
  <2> QED
    BY <1>17, <2>1 DEF OnlyWriters, CustomerWriter
<1>18. ASSUME NEW r \in Packages, NEW v \in 1..MaxPackageVersion,
             Handoff(r, v)
      PROVE  OnlyWriters(p)
  <2>1. UNCHANGED <<pkg, scope, docs, latest, method, aosr, history, accepted, shown, customer, alloc>>
    BY <1>18 DEF Handoff, MovePackage, AddVersion
  <2>2. p # r => sdo'[p] = sdo[p]
    BY <1>18 DEF Handoff, MovePackage, AddVersion, TypeOK
  <2>3. sdo'[p].total = sdo[p].total
    BY <1>18, CaseColumns, StatusNames DEF Handoff, MovePackage
  <2> QED
    BY <1>18, <2>1, <2>2, <2>3 DEF OnlyWriters, CaseStatusWriter, CustodyWriter
<1>19. ASSUME NEW r \in Packages, NEW v \in 1..MaxCaseVersion,
             ReturnToPto(r, v)
      PROVE  OnlyWriters(p)
  <2>1. UNCHANGED <<scope, docs, latest, method, aosr, accepted, shown, customer, alloc>>
    BY <1>19 DEF ReturnToPto, MovePackage, AddVersion
  <2>2. p # r => pkg'[p] = pkg[p] /\ history'[p] = history[p] /\ sdo'[p] = sdo[p]
    BY <1>19 DEF ReturnToPto, MovePackage, AddVersion, TypeOK
  <2>3. pkg'[p].archived = pkg[p].archived
    BY <1>19, PackageColumns, StatusNames DEF ReturnToPto, MovePackage
  <2>4. sdo'[p].status = sdo[p].status /\ sdo'[p].total = sdo[p].total
    BY <1>19, CaseColumns DEF ReturnToPto
  <2> QED
    BY <1>19, <2>1, <2>2, <2>3, <2>4 DEF OnlyWriters, StatusWriter, CustodyWriter
<1>20. ASSUME NEW r \in Packages, NEW v \in 1..MaxCaseVersion,
             AssignResponsible(r, v)
      PROVE  OnlyWriters(p)
  <2>1. UNCHANGED <<pkg, scope, docs, latest, method, aosr, history, accepted, shown, customer, alloc>>
    BY <1>20 DEF AssignResponsible, MovePackage, AddVersion
  <2>2. p # r => sdo'[p] = sdo[p]
    BY <1>20 DEF AssignResponsible, MovePackage, AddVersion, TypeOK
  <2>3. sdo'[p].status = sdo[p].status /\ sdo'[p].locked = sdo[p].locked /\ sdo'[p].total = sdo[p].total
    BY <1>20, CaseColumns DEF AssignResponsible, MovePackage
  <2> QED
    BY <1>20, <2>1, <2>2, <2>3 DEF OnlyWriters
<1>21. ASSUME NEW r \in Packages, NEW status \in SdoStatuses, NEW v \in 1..MaxCaseVersion, NEW reason \in BOOLEAN,
             ChangeSdoStatus(r, status, v, reason)
      PROVE  OnlyWriters(p)
  <2>1. UNCHANGED <<pkg, scope, docs, latest, method, aosr, history, accepted, shown, customer, alloc>>
    BY <1>21 DEF ChangeSdoStatus, MovePackage, AddVersion
  <2>2. p # r => sdo'[p] = sdo[p]
    BY <1>21 DEF ChangeSdoStatus, MovePackage, AddVersion, TypeOK
  <2>3. sdo'[p].locked = sdo[p].locked /\ sdo'[p].total = sdo[p].total
    BY <1>21, CaseColumns DEF ChangeSdoStatus
  <2> QED
    BY <1>21, <2>1, <2>2, <2>3 DEF OnlyWriters, CaseStatusWriter
<1>22. ASSUME NEW r \in Packages, NEW amount \in Amounts, NEW v \in 1..MaxCaseVersion,
             SetAmount(r, amount, v)
      PROVE  OnlyWriters(p)
  <2>1. UNCHANGED <<pkg, scope, docs, latest, method, aosr, history, accepted, shown, customer, alloc>>
    BY <1>22 DEF SetAmount, MovePackage, AddVersion
  <2>2. p # r => sdo'[p] = sdo[p]
    BY <1>22 DEF SetAmount, MovePackage, AddVersion, TypeOK
  <2>3. sdo'[p].locked = sdo[p].locked /\ sdo'[p].status = sdo[p].status
    BY <1>22, CaseColumns DEF SetAmount, MovePackage
  <2> QED
    BY <1>22, <2>1, <2>2, <2>3 DEF OnlyWriters, TotalWriter
<1>23. ASSUME NEW r \in Packages, NEW q \in Portions, NEW amount \in Amounts, NEW v \in 1..MaxAllocationVersion,
             SetAllocation(r, q, amount, v)
      PROVE  OnlyWriters(p)
  <2>1. UNCHANGED <<pkg, scope, docs, latest, method, aosr, history, accepted, shown, customer, sdo>>
    BY <1>23 DEF SetAllocation, MovePackage, AddVersion
  <2>2. p # r => alloc'[p] = alloc[p]
    BY <1>23 DEF SetAllocation, MovePackage, AddVersion, TypeOK
  <2> QED
    BY <1>23, <2>1, <2>2 DEF OnlyWriters, AllocationWriter
<1>24. ASSUME NEW r \in Packages, NEW q \in Portions, NEW v \in 1..MaxAllocationVersion,
             CancelAllocation(r, q, v)
      PROVE  OnlyWriters(p)
  <2>1. UNCHANGED <<pkg, scope, docs, latest, method, aosr, history, accepted, shown, customer, sdo>>
    BY <1>24 DEF CancelAllocation, MovePackage, AddVersion
  <2>2. p # r => alloc'[p] = alloc[p]
    BY <1>24 DEF CancelAllocation, MovePackage, AddVersion, TypeOK
  <2> QED
    BY <1>24, <2>1, <2>2 DEF OnlyWriters, AllocationWriter
<1>25. CASE UNCHANGED vars
  BY <1>25 DEF vars, OnlyWriters
<1>26. CASE PtoNext /\ UNCHANGED alloc
  BY <1>26, <1>1, <1>2, <1>3, <1>4, <1>5, <1>6, <1>7, <1>8, <1>9, <1>10, <1>11, <1>12, <1>13,
     <1>14, <1>15, <1>16, <1>17 DEF PtoNext
<1>27. CASE SdoNext
  BY <1>27, <1>18, <1>19, <1>20, <1>21, <1>22, <1>23, <1>24 DEF SdoNext
<1> QED
  BY <1>25, <1>26, <1>27 DEF Next

-----------------------------------------------------------------------------
(* The edges a package and its case can take *)

\* The columns a move of a package leaves behind.
LEMMA MoveColumns ==
  ASSUME TypeOK, NEW p \in Packages, NEW status \in PackageStatuses, MovePackage(p, status)
  PROVE  pkg'[p].status = status /\ pkg'[p].archived = pkg[p].archived
<1>1. pkg' = [pkg EXCEPT ![p] = Versioned([@ EXCEPT !.status = status])]
  BY DEF MovePackage
<1>2. /\ pkg'[p].status = IF p = p THEN status ELSE pkg[p].status
      /\ pkg'[p].archived = pkg[p].archived
  BY <1>1, PackageColumns, Zenon
<1> QED
  BY <1>2

\* The columns changeSdoClosingStatus leaves behind.
LEMMA StatusColumns ==
  ASSUME TypeOK, NEW p \in Packages, NEW status \in SdoStatuses, NEW v, NEW reason,
         ChangeSdoStatus(p, status, v, reason)
  PROVE  sdo'[p].status = status /\ sdo'[p].locked = sdo[p].locked
<1>1. sdo' = [sdo EXCEPT ![p] = Versioned([@ EXCEPT !.status = status])]
  BY DEF ChangeSdoStatus
<1>2. /\ sdo'[p].status = IF p = p THEN status ELSE sdo[p].status
      /\ sdo'[p].locked = sdo[p].locked
  BY <1>1, CaseColumns, Zenon
<1> QED
  BY <1>2

\* The columns returnSdoCaseToPto leaves behind.
LEMMA ReturnColumns ==
  ASSUME TypeOK, NEW p \in Packages, NEW v, ReturnToPto(p, v)
  PROVE  pkg'[p].status = "CORRECTING" /\ sdo'[p].locked = FALSE /\ sdo'[p].status = sdo[p].status
<1>1. sdo' = [sdo EXCEPT ![p] = Versioned([@ EXCEPT !.locked = FALSE])]
  BY DEF ReturnToPto
<1>2. pkg'[p].status = "CORRECTING"
  BY StatusNames, MoveColumns DEF ReturnToPto
<1>3. sdo'[p].locked = FALSE /\ sdo'[p].status = sdo[p].status
  BY <1>1, CaseColumns
<1> QED
  BY <1>2, <1>3

\* What one step can do to the status of a package: nothing, creation, a move of
\* the status machine, the acceptance, or one of the two ways back to correction.
PackageEdge(p) ==
  \/ UNCHANGED <<pkg[p].status, history[p], shown[p], accepted[p]>>
  \/ /\ ~Exists(p) /\ pkg'[p].status = "DRAFT" /\ ~pkg'[p].archived
     /\ UNCHANGED <<docs, accepted, shown, sdo>>
  \/ /\ Open(p) /\ <<pkg[p].status, pkg'[p].status>> \in AllowedStatusTransitions
     /\ shown'[p] = IF pkg'[p].status = "PRESENTED" THEN CurrentVersions(p) ELSE shown[p]
     /\ UNCHANGED <<contentVars, accepted, sdo>>
  \/ /\ Open(p) /\ pkg[p].status = "PRESENTED" /\ pkg'[p].status = "ACCEPTED_BY_CUSTOMER"
     /\ docs[p] # {} /\ \A d \in docs[p] : latest[p][d] > 0
     /\ accepted'[p] = CurrentVersions(p)
     /\ UNCHANGED <<contentVars, shown, sdo>>
  \/ /\ pkg[p].status = "ACCEPTED_BY_CUSTOMER" /\ pkg'[p].status = "CORRECTING"
     /\ HasCase(p) => sdo[p].status # "CLOSED" /\ sdo'[p].locked = FALSE
     /\ ~HasCase(p) => sdo'[p].locked = sdo[p].locked
     /\ sdo'[p].status = sdo[p].status
     /\ UNCHANGED <<contentVars, accepted, shown>>

\* What one step can do to status and custody of a case: nothing, a handoff, a
\* return to PTO, or a move of the SDO status machine.
CaseEdge(p) ==
  \/ sdo'[p].status = sdo[p].status /\ sdo'[p].locked = sdo[p].locked
  \/ /\ Open(p) /\ ReadyForSdo(p) /\ ~sdo[p].locked /\ sdo'[p].locked
     /\ sdo'[p].status = IF HasCase(p) THEN sdo[p].status ELSE "ON_RECONCILIATION"
     /\ UNCHANGED <<ptoVars, alloc>>
  \/ /\ HasCase(p) /\ sdo[p].status # "CLOSED" /\ ~sdo'[p].locked
     /\ sdo'[p].status = sdo[p].status
     /\ pkg[p].status = "ACCEPTED_BY_CUSTOMER" /\ pkg'[p].status = "CORRECTING"
     /\ UNCHANGED <<contentVars, accepted, shown, customer, alloc>>
  \/ /\ HasCase(p) /\ sdo[p].locked /\ sdo'[p].locked = sdo[p].locked
     /\ <<sdo[p].status, sdo'[p].status>> \in AllowedSdoTransitions
     /\ sdo'[p].status \in SdoStatuses
     /\ sdo'[p].status = "CLOSED" => ReadyForSdo(p) /\ CanClose(p)
     /\ UNCHANGED <<ptoVars, alloc>>

\* Every step moves a package along one of its edges.
LEMMA PackageTakesEdge ==
  ASSUME TypeOK, [Next]_vars, NEW p \in Packages
  PROVE  PackageEdge(p)
<1> USE DEF ptoVars, contentVars
<1>1. CASE ~StatusWriter(p)
  BY <1>1, StepHasWriter DEF PackageEdge, OnlyWriters, StatusWriter, ShownWriter, AcceptanceWriter
<1>2. ASSUME NEW S \in SUBSET Portions, CreatePackage(p, S) PROVE PackageEdge(p)
  <2>1. pkg'[p] = [status |-> "DRAFT", archived |-> FALSE, version |-> 1]
    BY <1>2 DEF CreatePackage, TypeOK
  <2> QED
    BY <1>2, <2>1 DEF CreatePackage, PackageEdge
<1>3. ASSUME NEW status \in PackageStatuses, NEW v, ChangePackageStatus(p, status, v)
      PROVE  PackageEdge(p)
  <2>1. pkg'[p].status = status
    BY <1>3, MoveColumns DEF ChangePackageStatus
  <2>2. shown'[p] = IF status = "PRESENTED" THEN CurrentVersions(p) ELSE shown[p]
    BY <1>3 DEF ChangePackageStatus, TypeOK
  <2> QED
    BY <1>3, <2>1, <2>2 DEF ChangePackageStatus, PackageEdge
<1>4. ASSUME NEW v, RegisterCustomerAcceptance(p, v) PROVE PackageEdge(p)
  <2>1. pkg'[p].status = "ACCEPTED_BY_CUSTOMER"
    BY <1>4, MoveColumns, StatusNames DEF RegisterCustomerAcceptance
  <2>2. accepted'[p] = CurrentVersions(p)
    BY <1>4 DEF RegisterCustomerAcceptance, TypeOK
  <2> QED
    BY <1>4, <2>1, <2>2 DEF RegisterCustomerAcceptance, PackageEdge
<1>5. ASSUME NEW v, ReturnToCorrection(p, v) PROVE PackageEdge(p)
  <2>1. pkg'[p].status = "CORRECTING"
    BY <1>5, MoveColumns, StatusNames DEF ReturnToCorrection
  <2> QED
    BY <1>5, <2>1 DEF ReturnToCorrection, PackageEdge
<1>6. ASSUME NEW v, ReturnToPto(p, v) PROVE PackageEdge(p)
  <2>1. pkg'[p].status = "CORRECTING" /\ sdo'[p].locked = FALSE /\ sdo'[p].status = sdo[p].status
    BY <1>6, ReturnColumns
  <2> QED
    BY <1>6, <2>1 DEF ReturnToPto, PackageEdge
<1>7. CASE StatusWriter(p)
  BY <1>7, <1>2, <1>3, <1>4, <1>5, <1>6 DEF StatusWriter
<1> QED
  BY <1>1, <1>7

\* Every step moves a case along one of its edges.
LEMMA CaseTakesEdge ==
  ASSUME TypeOK, [Next]_vars, NEW p \in Packages
  PROVE  CaseEdge(p)
<1> USE DEF ptoVars, contentVars
<1>1. CASE sdo'[p].status = sdo[p].status /\ sdo'[p].locked = sdo[p].locked
  BY <1>1 DEF CaseEdge
<1>2. ASSUME NEW v, Handoff(p, v) PROVE CaseEdge(p)
  <2>1. /\ sdo'[p].status = IF HasCase(p) THEN sdo[p].status ELSE "ON_RECONCILIATION"
        /\ sdo'[p].locked = TRUE
    BY <1>2, CaseColumns
  <2> QED
    BY <1>2, <2>1 DEF Handoff, CaseEdge
<1>3. ASSUME NEW v, ReturnToPto(p, v) PROVE CaseEdge(p)
  <2>1. pkg'[p].status = "CORRECTING" /\ sdo'[p].locked = FALSE /\ sdo'[p].status = sdo[p].status
    BY <1>3, ReturnColumns
  <2> QED
    BY <1>3, <2>1 DEF ReturnToPto, CaseEdge
<1>4. ASSUME NEW status \in SdoStatuses, NEW v, NEW reason, ChangeSdoStatus(p, status, v, reason)
      PROVE  CaseEdge(p)
  <2>1. sdo'[p].status = status /\ sdo'[p].locked = sdo[p].locked
    BY <1>4, StatusColumns
  <2> QED
    BY <1>4, <2>1 DEF ChangeSdoStatus, CaseEdge
<1>5. CASE CaseStatusWriter(p)
  BY <1>5, <1>2, <1>4 DEF CaseStatusWriter
<1>6. CASE CustodyWriter(p)
  BY <1>6, <1>2, <1>3 DEF CustodyWriter
<1> QED
  BY <1>1, <1>5, <1>6, StepHasWriter DEF OnlyWriters

-----------------------------------------------------------------------------
(* The frozen statuses *)

\* In a status the customer looks at, no step touches a package's content:
\* every writer of content goes through canMutateDocumentationPackageContent.
LEMMA FrozenStep ==
  ASSUME TypeOK, [Next]_vars, NEW p \in Packages,
         pkg[p].status \in {"PRESENTED", "ACCEPTED_BY_CUSTOMER", "RETURNED"}
  PROVE  UNCHANGED <<scope[p], docs[p], latest[p], aosr[p]>>
<1>1. Exists(p) /\ ~OpenForContent(p)
  BY DEF Exists, Absent, OpenForContent, CanMutateContent, ContentEditableStatuses
<1>2. ~ScopeWriter(p)
  BY <1>1 DEF ScopeWriter, CreatePackage, LinkPortion
<1>3. ~ContentWriter(p)
  BY <1>1 DEF ContentWriter, CreateDocument, CreateVersion, CreateScheme, GenerateAosr
<1>4. ~AosrWriter(p)
  BY <1>1 DEF AosrWriter, CreateAosr, EditAosr, RemoveAosr, GenerateAosr
<1> QED
  BY <1>2, <1>3, <1>4, StepHasWriter DEF OnlyWriters

\* Content does not move under the customer (FrozenContent), in every
\* instance: the ten content handlers all ask the freeze policy.
THEOREM ContentIsFrozen == Spec => FrozenContent
<1> DEFINE Frozen(p) ==
      pkg[p].status \in {"PRESENTED", "ACCEPTED_BY_CUSTOMER", "RETURNED"} =>
        /\ scope'[p] = scope[p]
        /\ docs'[p] = docs[p]
        /\ latest'[p] = latest[p]
        /\ aosr'[p] = aosr[p]
<1>1. TypeOK /\ [Next]_vars => [\A p \in Packages : Frozen(p)]_vars
  BY FrozenStep
<1> QED
  BY <1>1, TypeCorrect, PTL DEF Spec, FrozenContent

-----------------------------------------------------------------------------
(* The route of a package and of its case *)

\* A package that was not created has no content, no snapshot and no case.
BeforeCreation ==
  \A p \in Packages :
    ~Exists(p) =>
      /\ pkg[p].archived = FALSE /\ ~HasCase(p)
      /\ scope[p] = {} /\ docs[p] = {} /\ accepted[p] = {} /\ shown[p] = {}

\* An archived package never left the statuses the archive accepts.
ArchivedEarly ==
  \A p \in Packages : pkg[p].archived => pkg[p].status \in {"DRAFT", "PREPARING"}

\* A case exists only on the customer's route, is in custody only behind an
\* acceptance, and is closed only in custody.
CaseOnItsRoute ==
  \A p \in Packages :
    /\ HasCase(p) => pkg[p].status \in {"CORRECTING", "PRESENTED", "RETURNED", "ACCEPTED_BY_CUSTOMER"}
    /\ sdo[p].locked => HasCase(p) /\ pkg[p].status = "ACCEPTED_BY_CUSTOMER"
    /\ sdo[p].status = "CLOSED" => sdo[p].locked

Route == BeforeCreation /\ ArchivedEarly /\ CaseOnItsRoute

LEMMA InitRoute == Init => Route
BY DEF Init, PtoInit, Route, BeforeCreation, ArchivedEarly, CaseOnItsRoute,
       Exists, HasCase, NoPackage, NoCase, Absent

\* Archiving is final, and nothing but ArchivePackage archives.
LEMMA ArchiveStep ==
  ASSUME TypeOK, BeforeCreation, [Next]_vars, NEW p \in Packages
  PROVE  /\ pkg[p].archived => pkg'[p].archived
         /\ pkg'[p].archived /\ ~pkg[p].archived =>
              Archivable(p) /\ Exists(p) /\ UNCHANGED <<pkg[p].status, contentVars, accepted, shown, sdo>>
<1>1. CASE pkg'[p].archived = pkg[p].archived
  BY <1>1
<1>2. ASSUME NEW v, ArchivePackage(p, v)
      PROVE  /\ pkg'[p].archived /\ Archivable(p) /\ Exists(p)
             /\ UNCHANGED <<pkg[p].status, contentVars, accepted, shown, sdo>>
  <2>1. pkg'[p].status = pkg[p].status /\ pkg'[p].archived = TRUE
    BY <1>2, PackageColumns DEF ArchivePackage
  <2> QED
    BY <1>2, <2>1 DEF ArchivePackage, contentVars
<1>3. CASE ~Exists(p) /\ pkg'[p].archived = FALSE
  BY <1>3 DEF BeforeCreation
<1> QED
  BY <1>1, <1>2, <1>3, StepHasWriter DEF OnlyWriters, ArchiveWriter

\* The edges of changeDocumentationPackageStatus, one by one.
LEMMA StatusEdges ==
  ASSUME NEW s, NEW t, <<s, t>> \in AllowedStatusTransitions
  PROVE  /\ s # Absent /\ t # Absent
         /\ t # "ACCEPTED_BY_CUSTOMER" /\ s # "ACCEPTED_BY_CUSTOMER"
         /\ t = "PRESENTED" => s \in {"READY_FOR_PRESENTATION", "CORRECTING"}
         /\ s \in {"CORRECTING", "PRESENTED", "RETURNED"} => t \in {"CORRECTING", "PRESENTED", "RETURNED"}
         /\ t \in {"DRAFT", "PREPARING", "READY_FOR_PRESENTATION"} => s \in {"DRAFT", "PREPARING"}
BY DEF AllowedStatusTransitions, Absent

LEMMA RouteStep == TypeOK /\ Route /\ [Next]_vars => Route'
<1> SUFFICES ASSUME TypeOK, Route, [Next]_vars PROVE Route'
  OBVIOUS
<1> USE DEF Route
<1>1. ASSUME NEW p \in Packages, ~Exists(p)'
      PROVE  /\ pkg'[p].archived = FALSE /\ ~HasCase(p)'
             /\ scope'[p] = {} /\ docs'[p] = {} /\ accepted'[p] = {} /\ shown'[p] = {}
  <2>1. ~Exists(p) /\ shown'[p] = shown[p] /\ accepted'[p] = accepted[p]
    BY <1>1, PackageTakesEdge, StatusEdges DEF PackageEdge, Exists, Absent, Open
  <2>2. ~ScopeWriter(p)
    <3>1. ASSUME NEW S, CreatePackage(p, S) PROVE FALSE
      <4>1. pkg'[p] = [status |-> "DRAFT", archived |-> FALSE, version |-> 1]
        BY <3>1 DEF CreatePackage, TypeOK
      <4> QED
        BY <1>1, <4>1 DEF Exists, Absent
    <3>2. ASSUME NEW q, LinkPortion(p, q) PROVE FALSE
      BY <2>1, <3>2 DEF LinkPortion, OpenForContent, Open
    <3> QED
      BY <3>1, <3>2 DEF ScopeWriter
  <2>3. ~ContentWriter(p)
    BY <2>1 DEF ContentWriter, CreateDocument, CreateVersion, CreateScheme, GenerateAosr, OpenForContent, Open
  <2>4. ~CaseStatusWriter(p)
    <3>1. ~HasCase(p)
      BY <2>1 DEF BeforeCreation
    <3> QED
      BY <2>1, <3>1 DEF CaseStatusWriter, Handoff, ChangeSdoStatus, Open
  <2>5. sdo'[p].status = sdo[p].status /\ scope'[p] = scope[p] /\ docs'[p] = docs[p]
    BY <2>2, <2>3, <2>4, StepHasWriter DEF OnlyWriters
  <2>6. pkg'[p].archived = FALSE
    <3>1. pkg[p].archived = FALSE
      BY <2>1 DEF BeforeCreation
    <3>2. ~ArchiveWriter(p)
      BY <2>1 DEF ArchiveWriter, ArchivePackage
    <3> QED
      BY <3>1, <3>2, StepHasWriter DEF OnlyWriters
  <2> QED
    BY <2>1, <2>5, <2>6 DEF BeforeCreation, HasCase
<1>2. ASSUME NEW p \in Packages, pkg'[p].archived
      PROVE  pkg'[p].status \in {"DRAFT", "PREPARING"}
  <2>1. CASE pkg[p].archived
    BY <2>1, PackageTakesEdge DEF PackageEdge, ArchivedEarly, Open, NotArchived, BeforeCreation
  <2>2. CASE ~pkg[p].archived
    BY <1>2, <2>2, ArchiveStep DEF Archivable
  <2> QED
    BY <2>1, <2>2
<1>3. ASSUME NEW p \in Packages
      PROVE  /\ HasCase(p)' => pkg'[p].status \in {"CORRECTING", "PRESENTED", "RETURNED", "ACCEPTED_BY_CUSTOMER"}
             /\ sdo'[p].locked => HasCase(p)' /\ pkg'[p].status = "ACCEPTED_BY_CUSTOMER"
             /\ sdo'[p].status = "CLOSED" => sdo'[p].locked
  <2> USE DEF BeforeCreation, CaseOnItsRoute, HasCase
  <2>1. CASE sdo'[p].status = sdo[p].status /\ sdo'[p].locked = sdo[p].locked
    <3>1. CASE pkg'[p].status = pkg[p].status
      BY <2>1, <3>1
    <3>2. CASE ~Exists(p)
      BY <2>1, <3>2
    <3>3. CASE <<pkg[p].status, pkg'[p].status>> \in AllowedStatusTransitions /\ sdo' = sdo
      BY <2>1, <3>3, StatusEdges
    <3>4. CASE pkg'[p].status = "ACCEPTED_BY_CUSTOMER"
      BY <2>1, <3>4
    <3>5. CASE /\ pkg[p].status = "ACCEPTED_BY_CUSTOMER" /\ pkg'[p].status = "CORRECTING"
               /\ HasCase(p) => sdo[p].status # "CLOSED" /\ sdo'[p].locked = FALSE
      BY <2>1, <3>5
    <3> QED
      BY <3>1, <3>2, <3>3, <3>4, <3>5, PackageTakesEdge DEF PackageEdge
  <2>2. CASE /\ Open(p) /\ ReadyForSdo(p) /\ ~sdo[p].locked
             /\ sdo'[p].locked
             /\ sdo'[p].status = IF HasCase(p) THEN sdo[p].status ELSE "ON_RECONCILIATION"
             /\ UNCHANGED ptoVars
    <3>1. pkg'[p].status = "ACCEPTED_BY_CUSTOMER"
      BY <2>2 DEF ReadyForSdo, ptoVars
    <3>2. HasCase(p)'
      BY <2>2 DEF Absent
    <3> QED
      BY <2>2, <3>1, <3>2
  <2>3. CASE /\ HasCase(p) /\ sdo[p].status # "CLOSED" /\ ~sdo'[p].locked
             /\ sdo'[p].status = sdo[p].status
             /\ pkg'[p].status = "CORRECTING"
    BY <2>3
  <2>4. CASE /\ HasCase(p) /\ sdo[p].locked /\ sdo'[p].locked = sdo[p].locked
             /\ sdo'[p].status \in SdoStatuses
             /\ UNCHANGED ptoVars
    BY <2>4, StatusNames DEF ptoVars
  <2> QED
    BY <2>1, <2>2, <2>3, <2>4, CaseTakesEdge DEF CaseEdge
<1> QED
  BY <1>1, <1>2, <1>3 DEF BeforeCreation, ArchivedEarly, CaseOnItsRoute

\* Every reachable state is on the route.
THEOREM RouteHolds == Spec => [](TypeOK /\ Route)
<1>1. Spec => []Route
  BY InitRoute, RouteStep, TypeCorrect, PTL DEF Spec
<1> QED
  BY <1>1, TypeCorrect, PTL

\* A case that went back to PTO is found only on the correction route, and a
\* closed one is never out of custody (ReturnedCaseAwaitsCorrection).
THEOREM ReturnedCasesAwaitCorrection == Spec => []ReturnedCaseAwaitsCorrection
<1>1. Route => ReturnedCaseAwaitsCorrection
  BY DEF Route, CaseOnItsRoute, ReturnedCaseAwaitsCorrection
<1> QED
  BY <1>1, RouteHolds, PTL

-----------------------------------------------------------------------------
(* Scopes *)

\* The two writers of a scope claim only portions no open package claims, and
\* touch no other package's scope.
LEMMA ScopeStep ==
  ASSUME TypeOK, NEW p \in Packages, NEW r \in Packages, p # r, Open(r), ScopeWriter(p)
  PROVE  scope'[r] = scope[r] /\ (scope'[p] \ scope[p]) \cap scope[r] = {}
<1>1. ASSUME NEW S \in SUBSET Portions, CreatePackage(p, S)
      PROVE  scope'[r] = scope[r] /\ (scope'[p] \ scope[p]) \cap scope[r] = {}
  <2>1. scope'[r] = scope[r] /\ scope'[p] = S
    BY <1>1 DEF CreatePackage, TypeOK
  <2>2. \A q \in S : q \notin scope[r]
    BY <1>1 DEF CreatePackage, OverlappingClaims
  <2> QED
    BY <2>1, <2>2
<1>2. ASSUME NEW q \in Portions, LinkPortion(p, q)
      PROVE  scope'[r] = scope[r] /\ (scope'[p] \ scope[p]) \cap scope[r] = {}
  <2>1. scope'[r] = scope[r] /\ scope'[p] = scope[p] \cup {q}
    BY <1>2 DEF LinkPortion, TypeOK
  <2>2. q \notin scope[r]
    BY <1>2 DEF LinkPortion, OverlappingClaims
  <2> QED
    BY <2>1, <2>2
<1> QED
  BY <1>1, <1>2 DEF ScopeWriter

\* Scopes only grow, and an absent or archived package's does not.
LEMMA ScopeGrows ==
  ASSUME TypeOK, BeforeCreation, [Next]_vars, NEW p \in Packages
  PROVE  scope[p] \subseteq scope'[p]
<1>1. ASSUME NEW S, CreatePackage(p, S) PROVE scope[p] = {}
  BY <1>1 DEF CreatePackage, BeforeCreation
<1>2. ASSUME NEW q, LinkPortion(p, q) PROVE scope[p] \subseteq scope'[p]
  BY <1>2 DEF LinkPortion, TypeOK
<1> QED
  BY <1>1, <1>2, StepHasWriter DEF OnlyWriters, ScopeWriter

LEMMA ScopeInit == Init => NoSharedPortion
BY DEF Init, PtoInit, NoSharedPortion

LEMMA ScopeInduction ==
  TypeOK /\ Route /\ NoSharedPortion /\ [Next]_vars => NoSharedPortion'
<1> SUFFICES ASSUME TypeOK, Route, NoSharedPortion, [Next]_vars,
                    NEW p \in Packages, NEW r \in Packages, p # r,
                    ~pkg'[p].archived, ~pkg'[r].archived
             PROVE  scope'[p] \cap scope'[r] = {}
  BY DEF NoSharedPortion, NotArchived
<1>1. ~pkg[p].archived /\ ~pkg[r].archived
  BY ArchiveStep DEF Route
<1>2. scope[p] \cap scope[r] = {}
  BY <1>1 DEF NoSharedPortion, NotArchived
<1>3. ASSUME NEW s \in Packages, NEW t \in Packages, s # t, ScopeWriter(s),
             ~pkg[t].archived, scope[s] \cap scope[t] = {}
      PROVE  scope'[s] \cap scope'[t] = {}
  <2>1. CASE Exists(t)
    BY <1>3, <2>1, ScopeStep DEF Open, NotArchived
  <2>2. CASE ~Exists(t)
    <3>1. scope[t] = {}
      BY <2>2 DEF Route, BeforeCreation
    <3>2. scope'[t] = scope[t]
      BY <1>3 DEF ScopeWriter, CreatePackage, LinkPortion, TypeOK
    <3> QED
      BY <3>1, <3>2
  <2> QED
    BY <2>1, <2>2
<1>4. CASE ScopeWriter(p)
  BY <1>1, <1>2, <1>3, <1>4
<1>5. CASE ScopeWriter(r)
  <2>1. scope[r] \cap scope[p] = {}
    BY <1>2
  <2>2. scope'[r] \cap scope'[p] = {}
    BY <1>1, <1>3, <1>5, <2>1
  <2> QED
    BY <2>2
<1>6. CASE ~ScopeWriter(p) /\ ~ScopeWriter(r)
  BY <1>2, <1>6, StepHasWriter DEF OnlyWriters
<1> QED
  BY <1>4, <1>5, <1>6

\* Two packages in work never cover the same portion (NoSharedPortion): every
\* claim is checked against all open packages under one lock.
THEOREM ScopesAreDisjoint == Spec => []NoSharedPortion
BY ScopeInit, ScopeInduction, RouteHolds, PTL DEF Spec

-----------------------------------------------------------------------------
(* The acceptance *)

\* A presented package still is what the customer was shown.
ShownIsCurrent ==
  \A p \in Packages : pkg[p].status = "PRESENTED" => shown[p] = CurrentVersions(p)

Acceptance == ShownIsCurrent /\ AcceptedIsWhatWasShown

\* Documents and versions that do not move keep the set of current versions.
LEMMA CurrentKept ==
  ASSUME NEW p \in Packages, docs'[p] = docs[p], latest'[p] = latest[p]
  PROVE  /\ CurrentVersions(p)' = CurrentVersions(p)
         /\ (docs[p] # {} /\ \A d \in docs[p] : latest[p][d] > 0) =>
            (docs'[p] # {} /\ \A d \in docs'[p] : latest'[p][d] > 0)
BY DEF CurrentVersions

LEMMA AcceptanceInit == Init => Acceptance
BY DEF Init, PtoInit, Acceptance, ShownIsCurrent, AcceptedIsWhatWasShown, NoPackage, Absent

LEMMA AcceptanceInduction ==
  TypeOK /\ Acceptance /\ [Next]_vars => Acceptance'
<1> SUFFICES ASSUME TypeOK, Acceptance, [Next]_vars, NEW p \in Packages
             PROVE  /\ pkg'[p].status = "PRESENTED" => shown'[p] = CurrentVersions(p)'
                    /\ pkg'[p].status = "ACCEPTED_BY_CUSTOMER" =>
                         SnapshotCurrent(p)' /\ accepted'[p] = shown'[p]
  BY DEF Acceptance, ShownIsCurrent, AcceptedIsWhatWasShown
<1> USE DEF Acceptance, ShownIsCurrent, AcceptedIsWhatWasShown
<1>1. CASE UNCHANGED <<pkg[p].status, history[p], shown[p], accepted[p]>>
  <2>1. CASE pkg[p].status \in {"PRESENTED", "ACCEPTED_BY_CUSTOMER"}
    <3>1. docs'[p] = docs[p] /\ latest'[p] = latest[p]
      BY <2>1, FrozenStep
    <3> QED
      BY <1>1, <2>1, <3>1, CurrentKept DEF SnapshotCurrent
  <2> QED
    BY <1>1, <2>1
<1>2. CASE pkg'[p].status = "DRAFT" \/ pkg'[p].status = "CORRECTING"
  BY <1>2
<1>3. CASE /\ <<pkg[p].status, pkg'[p].status>> \in AllowedStatusTransitions
           /\ shown'[p] = IF pkg'[p].status = "PRESENTED" THEN CurrentVersions(p) ELSE shown[p]
           /\ UNCHANGED contentVars
  <2>1. pkg'[p].status # "ACCEPTED_BY_CUSTOMER"
    BY <1>3, StatusEdges
  <2>2. CurrentVersions(p)' = CurrentVersions(p)
    BY <1>3, CurrentKept DEF contentVars
  <2> QED
    BY <1>3, <2>1, <2>2
<1>4. CASE /\ pkg[p].status = "PRESENTED" /\ pkg'[p].status = "ACCEPTED_BY_CUSTOMER"
           /\ docs[p] # {} /\ \A d \in docs[p] : latest[p][d] > 0
           /\ accepted'[p] = CurrentVersions(p)
           /\ UNCHANGED <<contentVars, shown>>
  <2>1. docs'[p] = docs[p] /\ latest'[p] = latest[p] /\ shown'[p] = shown[p]
    BY <1>4 DEF contentVars
  <2> QED
    BY <1>4, <2>1, CurrentKept DEF SnapshotCurrent
<1> QED
  BY <1>1, <1>2, <1>3, <1>4, PackageTakesEdge DEF PackageEdge

\* What the customer accepted is what PRESENTED showed, and is still current
\* (AcceptedIsWhatWasShown).
THEOREM AcceptanceIsOfWhatWasShown == Spec => []AcceptedIsWhatWasShown
<1>1. Acceptance => AcceptedIsWhatWasShown
  BY DEF Acceptance
<1>2. Spec => []Acceptance
  BY AcceptanceInit, AcceptanceInduction, TypeCorrect, PTL DEF Spec
<1> QED
  BY <1>1, <1>2, PTL

-----------------------------------------------------------------------------
(* Readiness behind custody *)

\* Nothing takes the customer's confirmation away from a portion of a package
\* in custody: a quantity is recorded only through an open package that is not
\* in custody itself, and that package covers no portion of this one.
LEMMA CustomerKept ==
  ASSUME TypeOK, Route, NoSharedPortion, [Next]_vars, NEW p \in Packages,
         sdo[p].locked, scope[p] \subseteq customer
  PROVE  scope[p] \subseteq customer'
<1>1. pkg[p].status = "ACCEPTED_BY_CUSTOMER" /\ NotArchived(p)
  BY DEF Route, CaseOnItsRoute, ArchivedEarly, NotArchived
<1>2. ASSUME NEW r \in Packages, NEW q \in Portions, NEW b \in BOOLEAN, RecordAcceptedQuantity(r, q, b)
      PROVE  scope[p] \subseteq customer'
  <2>1. p # r /\ NotArchived(r) /\ q \in scope[r]
    BY <1>2 DEF RecordAcceptedQuantity, Open
  <2>2. q \notin scope[p]
    BY <1>1, <2>1 DEF NoSharedPortion
  <2>3. customer \ {q} \subseteq customer'
    BY <1>2 DEF RecordAcceptedQuantity
  <2> QED
    BY <2>2, <2>3
<1>3. ASSUME NEW q \in Portions, AcceptCustomerInspection(q) PROVE scope[p] \subseteq customer'
  BY <1>3 DEF AcceptCustomerInspection
<1> QED
  BY <1>2, <1>3, StepHasWriter DEF OnlyWriters, CustomerWriter

LEMMA CustodyInit == Init => LockedPackageStaysReady
BY DEF Init, PtoInit, LockedPackageStaysReady, NoCase

\* The layer below LockedPackageStaysReady.
BehindCustody == Route /\ NoSharedPortion /\ Acceptance

LEMMA CustodyInduction ==
  TypeOK /\ BehindCustody /\ BehindCustody' /\ LockedPackageStaysReady /\ [Next]_vars
    => LockedPackageStaysReady'
<1> SUFFICES ASSUME TypeOK, BehindCustody, BehindCustody', LockedPackageStaysReady, [Next]_vars,
                    NEW p \in Packages, sdo'[p].locked
             PROVE  NotArchived(p)' /\ ReadyForSdo(p)'
  BY DEF LockedPackageStaysReady
<1>1. pkg'[p].status = "ACCEPTED_BY_CUSTOMER"
  BY DEF BehindCustody, Route, CaseOnItsRoute
<1>2. NotArchived(p)'
  BY <1>1 DEF BehindCustody, Route, ArchivedEarly, NotArchived
<1>3. SnapshotCurrent(p)'
  BY <1>1 DEF BehindCustody, Acceptance, AcceptedIsWhatWasShown
<1>4. accepted'[p] # {}
  <2>1. PICK d \in docs'[p] : latest'[p][d] > 0
    BY <1>3 DEF SnapshotCurrent
  <2>2. <<d, latest'[p][d]>> \in CurrentVersions(p)'
    BY <2>1 DEF CurrentVersions
  <2> QED
    BY <1>3, <2>2 DEF SnapshotCurrent
<1>5. HasScope(p)' /\ scope'[p] \subseteq customer'
  <2>1. CASE sdo[p].locked
    <3>1. ReadyForSdo(p)
      BY <2>1 DEF LockedPackageStaysReady
    <3>2. scope'[p] = scope[p]
      BY <3>1, FrozenStep DEF ReadyForSdo
    <3>3. scope[p] \subseteq customer'
      BY <2>1, <3>1, CustomerKept DEF ReadyForSdo, BehindCustody
    <3> QED
      BY <3>1, <3>2, <3>3 DEF ReadyForSdo, HasScope
  <2>2. CASE ~sdo[p].locked
    <3>1. ReadyForSdo(p) /\ UNCHANGED ptoVars
      BY <2>2, CaseTakesEdge DEF CaseEdge, TypeOK, CaseRow
    <3> QED
      BY <3>1 DEF ReadyForSdo, HasScope, ptoVars
  <2> QED
    BY <2>1, <2>2
<1> QED
  BY <1>1, <1>2, <1>3, <1>4, <1>5 DEF ReadyForSdo

\* Every reachable state satisfies the layers under custody.
THEOREM CustodyHolds == Spec => [](TypeOK /\ BehindCustody)
<1>1. Spec => []Acceptance
  BY AcceptanceInit, AcceptanceInduction, TypeCorrect, PTL DEF Spec
<1>2. TypeOK /\ Route /\ NoSharedPortion /\ Acceptance => TypeOK /\ BehindCustody
  BY DEF BehindCustody
<1> QED
  BY <1>1, <1>2, RouteHolds, ScopesAreDisjoint, PTL

\* A package SDO holds stays what the customer accepted, with every portion
\* confirmed (LockedPackageStaysReady).
THEOREM CustodyIsOverReadyPackages == Spec => []LockedPackageStaysReady
BY CustodyInit, CustodyInduction, CustodyHolds, PTL DEF Spec

-----------------------------------------------------------------------------
(* Money *)

\* The sum of a case depends on its own allocations and total only.
LEMMA BalanceKept ==
  ASSUME NEW p \in Packages, alloc'[p] = alloc[p], sdo'[p].total = sdo[p].total
  PROVE  CanClose(p)' <=> CanClose(p)
BY DEF CanClose, AllocatedSum, ActivePortions

\* The total moves only by setSdoClosingAmount, which touches neither axis of
\* the case and is refused for a closed one.
LEMMA TotalStep ==
  ASSUME TypeOK, [Next]_vars, NEW p \in Packages
  PROVE  \/ sdo'[p].total = sdo[p].total
         \/ Workable(p) /\ sdo'[p].status = sdo[p].status /\ sdo'[p].locked = sdo[p].locked
<1>1. ASSUME NEW amount \in Amounts, NEW v, SetAmount(p, amount, v)
      PROVE  Workable(p) /\ sdo'[p].status = sdo[p].status /\ sdo'[p].locked = sdo[p].locked
  <2>1. sdo' = [sdo EXCEPT ![p] = Versioned([@ EXCEPT !.total = amount])]
    BY <1>1 DEF SetAmount
  <2>2. sdo'[p].status = sdo[p].status /\ sdo'[p].locked = sdo[p].locked
    BY <2>1, CaseColumns
  <2> QED
    BY <1>1, <2>2 DEF SetAmount
<1> QED
  BY <1>1, StepHasWriter DEF OnlyWriters, TotalWriter

\* Allocations move only while the case is workable, and then nothing else does.
LEMMA AllocationStep ==
  ASSUME TypeOK, [Next]_vars, NEW p \in Packages
  PROVE  alloc'[p] = alloc[p] \/ (Workable(p) /\ UNCHANGED <<ptoVars, sdo>>)
BY StepHasWriter DEF OnlyWriters, AllocationWriter, SetAllocation, CancelAllocation

LEMMA BalanceInit == Init => ClosedIsBalanced
BY DEF Init, PtoInit, ClosedIsBalanced, NoCase, Absent

LEMMA BalanceInduction ==
  TypeOK /\ Route /\ Route' /\ ClosedIsBalanced /\ [Next]_vars => ClosedIsBalanced'
<1> SUFFICES ASSUME TypeOK, Route, Route', ClosedIsBalanced, [Next]_vars,
                    NEW p \in Packages, sdo'[p].status = "CLOSED"
             PROVE  sdo'[p].locked /\ CanClose(p)'
  BY DEF ClosedIsBalanced
<1>1. sdo'[p].locked
  BY DEF Route, CaseOnItsRoute
<1>2. CASE sdo[p].status = "CLOSED"
  <2>1. ~Workable(p)
    BY <1>2 DEF Workable
  <2>2. alloc'[p] = alloc[p] /\ sdo'[p].total = sdo[p].total
    BY <2>1, AllocationStep, TotalStep
  <2>3. CanClose(p)
    BY <1>2 DEF ClosedIsBalanced
  <2> QED
    BY <1>1, <2>2, <2>3, BalanceKept
<1>3. CASE sdo[p].status # "CLOSED"
  <2>1. CanClose(p) /\ UNCHANGED alloc
    BY <1>3, CaseTakesEdge DEF CaseEdge
  <2>2. sdo'[p].total = sdo[p].total
    BY <1>3, TotalStep
  <2> QED
    BY <1>1, <2>1, <2>2, BalanceKept
<1> QED
  BY <1>2, <1>3

\* A closed case is in custody and adds up (ClosedIsBalanced): money moves only
\* in a workable case, so the sum checked at CLOSED stays the sum.
THEOREM ClosedCasesBalance == Spec => []ClosedIsBalanced
BY BalanceInit, BalanceInduction, RouteHolds, PTL DEF Spec

\* The portions with an active allocation after a step were allocated before,
\* or are in the scope of the package.
LEMMA ActiveStep ==
  ASSUME TypeOK, [Next]_vars, NEW p \in Packages
  PROVE  ActivePortions(p)' \subseteq ActivePortions(p) \cup scope[p]
<1>1. CASE alloc'[p] = alloc[p]
  BY <1>1 DEF ActivePortions
<1>2. ASSUME NEW q \in Portions, NEW amount \in Amounts, NEW v, SetAllocation(p, q, amount, v)
      PROVE  ActivePortions(p)' \subseteq ActivePortions(p) \cup scope[p]
  <2>1. q \in scope[p] /\ \A r \in Portions \ {q} : alloc'[p][r] = alloc[p][r]
    BY <1>2 DEF SetAllocation, TypeOK
  <2> QED
    BY <2>1 DEF ActivePortions
<1>3. ASSUME NEW q \in Portions, NEW v, CancelAllocation(p, q, v)
      PROVE  ActivePortions(p)' \subseteq ActivePortions(p) \cup scope[p]
  <2>1. alloc[p][q].active /\ \A r \in Portions \ {q} : alloc'[p][r] = alloc[p][r]
    BY <1>3 DEF CancelAllocation, TypeOK
  <2> QED
    BY <2>1 DEF ActivePortions
<1> QED
  BY <1>1, <1>2, <1>3, StepHasWriter DEF OnlyWriters, AllocationWriter

LEMMA CoverageInit == Init => AllocationsAreCovered
BY DEF Init, PtoInit, AllocationsAreCovered, ActivePortions, NoAllocation

LEMMA CoverageInduction ==
  TypeOK /\ Route /\ AllocationsAreCovered /\ [Next]_vars => AllocationsAreCovered'
<1> SUFFICES ASSUME TypeOK, Route, AllocationsAreCovered, [Next]_vars, NEW p \in Packages
             PROVE  ActivePortions(p)' \subseteq scope'[p]
  BY DEF AllocationsAreCovered
<1>1. ActivePortions(p) \subseteq scope[p]
  BY DEF AllocationsAreCovered
<1>2. scope[p] \subseteq scope'[p]
  BY ScopeGrows DEF Route
<1>3. ActivePortions(p)' \subseteq ActivePortions(p) \cup scope[p]
  BY ActiveStep
<1> QED
  BY <1>1, <1>2, <1>3

\* Money is allocated only to portions of the package (AllocationsAreCovered):
\* the check at allocation suffices because no portion ever leaves a scope.
THEOREM AllocationsStayCovered == Spec => []AllocationsAreCovered
BY CoverageInit, CoverageInduction, RouteHolds, PTL DEF Spec

-----------------------------------------------------------------------------
(* Custody and closure as steps *)

\* A return to PTO or a second handoff leaves status, total and allocations of
\* the case alone (CustodyKeepsTheCase).
THEOREM CustodyMovesNothingElse == Spec => CustodyKeepsTheCase
<1> DEFINE Kept(p) ==
      HasCase(p) /\ sdo'[p].locked # sdo[p].locked =>
        /\ sdo'[p].status = sdo[p].status
        /\ sdo'[p].total = sdo[p].total
        /\ alloc'[p] = alloc[p]
<1>1. ASSUME TypeOK, [Next]_vars, NEW p \in Packages PROVE Kept(p)
  <2> SUFFICES ASSUME HasCase(p), sdo'[p].locked # sdo[p].locked
               PROVE  /\ sdo'[p].status = sdo[p].status
                      /\ sdo'[p].total = sdo[p].total
                      /\ alloc'[p] = alloc[p]
    OBVIOUS
  <2>1. sdo'[p].status = sdo[p].status /\ alloc'[p] = alloc[p]
    BY <1>1, CaseTakesEdge DEF CaseEdge
  <2>2. sdo'[p].total = sdo[p].total
    BY <1>1, TotalStep
  <2> QED
    BY <2>1, <2>2
<1>2. TypeOK /\ [Next]_vars => [\A p \in Packages : Kept(p)]_vars
  BY <1>1
<1> QED
  BY <1>2, TypeCorrect, PTL DEF Spec, CustodyKeepsTheCase

\* While a case is closed nothing of it or of its package moves, and it is left
\* for correction only (ClosedIsFinal).
LEMMA ClosedStep ==
  ASSUME TypeOK, Route, [Next]_vars, NEW p \in Packages, sdo[p].status = "CLOSED"
  PROVE  /\ sdo'[p].status \in {"CLOSED", "ON_CORRECTION"}
         /\ sdo'[p].total = sdo[p].total
         /\ alloc'[p] = alloc[p]
         /\ pkg'[p].status = pkg[p].status
         /\ method'[p] = method[p]
         /\ CurrentVersions(p)' = CurrentVersions(p)
<1>1. sdo[p].locked /\ HasCase(p) /\ pkg[p].status = "ACCEPTED_BY_CUSTOMER"
  BY DEF Route, CaseOnItsRoute
<1>2. sdo'[p].status \in {"CLOSED", "ON_CORRECTION"}
  BY <1>1, CaseTakesEdge DEF CaseEdge, AllowedSdoTransitions
<1>3. sdo'[p].total = sdo[p].total /\ alloc'[p] = alloc[p]
  BY TotalStep, AllocationStep DEF Workable
<1>4. pkg'[p].status = pkg[p].status
  BY <1>1, PackageTakesEdge, StatusEdges DEF PackageEdge, Exists, Absent
<1>5. method'[p] = method[p]
  BY <1>1, StepHasWriter DEF OnlyWriters, MethodWriter, SetMethod
<1>6. CurrentVersions(p)' = CurrentVersions(p)
  BY <1>1, FrozenStep, CurrentKept
<1> QED
  BY <1>2, <1>3, <1>4, <1>5, <1>6

\* A closed case is final but for correction (ClosedIsFinal).
THEOREM ClosedCasesAreFinal == Spec => ClosedIsFinal
<1> DEFINE Final(p) ==
      sdo[p].status = "CLOSED" =>
        /\ sdo'[p].status \in {"CLOSED", "ON_CORRECTION"}
        /\ sdo'[p].total = sdo[p].total
        /\ alloc'[p] = alloc[p]
        /\ pkg'[p].status = pkg[p].status
        /\ method'[p] = method[p]
        /\ CurrentVersions(p)' = CurrentVersions(p)
<1>1. TypeOK /\ Route /\ [Next]_vars => [\A p \in Packages : Final(p)]_vars
  BY ClosedStep
<1> QED
  BY <1>1, RouteHolds, PTL DEF Spec, ClosedIsFinal

-----------------------------------------------------------------------------
(* The archive *)

\* Whatever was shown left an edge into PRESENTED in the status history, and
\* an AOSR document exists only behind a generated DOCX.
ArchiveEvidence ==
  \A p \in Packages :
    /\ shown[p] # {} => EverPresented(p)
    /\ \A x \in docs[p] \cap Aosrs : aosr[p][x] \in {"CURRENT", "OUTDATED"}

LEMMA EvidenceInit == Init => ArchiveEvidence /\ ArchiveHidesNothing
BY DEF Init, PtoInit, ArchiveEvidence, ArchiveHidesNothing, NoPackage

\* Status history is append-only.
LEMMA HistoryGrows ==
  ASSUME TypeOK, [Next]_vars, NEW p \in Packages
  PROVE  history[p] \subseteq history'[p]
<1>1. ASSUME NEW status, MovePackage(p, status) PROVE history[p] \subseteq history'[p]
  BY <1>1 DEF MovePackage, TypeOK
<1>2. ASSUME NEW S, CreatePackage(p, S) PROVE history'[p] = history[p]
  BY <1>2 DEF CreatePackage
<1> QED
  BY <1>1, <1>2, StepHasWriter
     DEF OnlyWriters, StatusWriter, ChangePackageStatus, RegisterCustomerAcceptance,
         ReturnToCorrection, ReturnToPto

LEMMA ShownLeavesEvidence ==
  ASSUME TypeOK, [Next]_vars, NEW p \in Packages, shown[p] # {} => EverPresented(p), shown'[p] # {}
  PROVE  EverPresented(p)'
<1>1. CASE EverPresented(p)
  BY <1>1, HistoryGrows DEF EverPresented
<1>2. CASE ~EverPresented(p)
  <2>1. PICK status \in PackageStatuses, v \in 1..MaxPackageVersion : ChangePackageStatus(p, status, v) /\ shown'[p] # shown[p]
    BY <1>2, StepHasWriter DEF OnlyWriters, ShownWriter
  <2>2. status = "PRESENTED"
    BY <2>1 DEF ChangePackageStatus, TypeOK
  <2>3. <<pkg[p].status, status>> \in history'[p]
    BY <2>1 DEF ChangePackageStatus, MovePackage, TypeOK
  <2> DEFINE edge == <<pkg[p].status, status>>
  <2>4. edge \in history'[p] /\ edge[2] = "PRESENTED"
    BY <2>2, <2>3
  <2> QED
    BY <2>4 DEF EverPresented
<1> QED
  BY <1>1, <1>2

LEMMA AosrDocumentsAreGenerated ==
  ASSUME TypeOK, [Next]_vars, NEW p \in Packages, NEW x \in Aosrs,
         x \in docs[p] => aosr[p][x] \in {"CURRENT", "OUTDATED"}, x \in docs'[p]
  PROVE  aosr'[p][x] \in {"CURRENT", "OUTDATED"}
<1>1. ASSUME NEW y \in Aosrs, GenerateAosr(p, y) PROVE aosr'[p][x] \in {"CURRENT", "OUTDATED"}
  BY <1>1 DEF GenerateAosr, TypeOK
<1>2. ASSUME \A y \in Aosrs : ~GenerateAosr(p, y) PROVE x \in docs[p]
  <2>1. ASSUME NEW d \in Documents, CreateDocument(p, d) PROVE x \in docs[p]
    BY <2>1, DocumentKindsAreDisjoint DEF CreateDocument, TypeOK
  <2>2. ASSUME NEW d \in Documents, CreateVersion(p, d) PROVE x \in docs[p]
    BY <2>2 DEF CreateVersion
  <2>3. ASSUME NEW s \in Schemes, CreateScheme(p, s) PROVE x \in docs[p]
    BY <2>3, DocumentKindsAreDisjoint DEF CreateScheme, TypeOK
  <2> QED
    BY <1>2, <2>1, <2>2, <2>3, StepHasWriter DEF OnlyWriters, ContentWriter
<1>3. ASSUME NEW y \in Aosrs, aosr[p][x] \in {"CURRENT", "OUTDATED"},
             CreateAosr(p, y) \/ EditAosr(p, y) \/ RemoveAosr(p, y)
      PROVE  aosr'[p][x] \in {"CURRENT", "OUTDATED"}
  <2>1. CASE CreateAosr(p, y)
    BY <1>3, <2>1 DEF CreateAosr, TypeOK, Absent
  <2>2. CASE EditAosr(p, y)
    BY <1>3, <2>2 DEF EditAosr, TypeOK
  <2>3. CASE RemoveAosr(p, y)
    BY <1>3, <2>3 DEF RemoveAosr, TypeOK
  <2> QED
    BY <1>3, <2>1, <2>2, <2>3
<1> QED
  BY <1>1, <1>2, <1>3, StepHasWriter DEF OnlyWriters, AosrWriter

\* An archived package has no handler left: its columns and its case stand still.
LEMMA ArchivedIsInert ==
  ASSUME TypeOK, Route, [Next]_vars, NEW p \in Packages, pkg[p].archived, ~HasCase(p)
  PROVE  UNCHANGED <<docs[p], accepted[p], shown[p], sdo[p].status>>
<1>1. ~Open(p) /\ pkg[p].status \in {"DRAFT", "PREPARING"} /\ Exists(p)
  BY DEF Open, NotArchived, Route, ArchivedEarly, Exists, Absent
<1>2. ~ContentWriter(p)
  BY <1>1 DEF ContentWriter, CreateDocument, CreateVersion, CreateScheme, GenerateAosr, OpenForContent
<1>3. accepted'[p] = accepted[p] /\ shown'[p] = shown[p]
  BY <1>1, StepHasWriter DEF OnlyWriters, AcceptanceWriter, RegisterCustomerAcceptance,
     ShownWriter, ChangePackageStatus
<1>4. sdo'[p].status = sdo[p].status
  BY <1>1, CaseTakesEdge DEF CaseEdge
<1> QED
  BY <1>2, <1>3, <1>4, StepHasWriter DEF OnlyWriters

LEMMA ArchiveInduction ==
  TypeOK /\ Route /\ ArchiveEvidence /\ ArchiveHidesNothing /\ [Next]_vars
    => ArchiveEvidence' /\ ArchiveHidesNothing'
<1> SUFFICES ASSUME TypeOK, Route, ArchiveEvidence, ArchiveHidesNothing, [Next]_vars
             PROVE  ArchiveEvidence' /\ ArchiveHidesNothing'
  OBVIOUS
<1>1. ASSUME NEW p \in Packages
      PROVE  /\ shown'[p] # {} => EverPresented(p)'
             /\ \A x \in docs'[p] \cap Aosrs : aosr'[p][x] \in {"CURRENT", "OUTDATED"}
  BY ShownLeavesEvidence, AosrDocumentsAreGenerated DEF ArchiveEvidence
<1>2. ASSUME NEW p \in Packages, pkg'[p].archived
      PROVE  ~HasCase(p)' /\ accepted'[p] = {} /\ shown'[p] = {} /\ docs'[p] \cap Aosrs = {}
  <2>1. CASE pkg[p].archived
    <3>1. ~HasCase(p) /\ accepted[p] = {} /\ shown[p] = {} /\ docs[p] \cap Aosrs = {}
      BY <2>1 DEF ArchiveHidesNothing
    <3> QED
      BY <2>1, <3>1, ArchivedIsInert DEF HasCase
  <2>2. CASE ~pkg[p].archived
    <3>1. Archivable(p) /\ UNCHANGED <<contentVars, accepted, shown, sdo>>
      BY <1>2, <2>2, ArchiveStep DEF Route
    <3>2. ~HasCase(p) /\ accepted[p] = {} /\ shown[p] = {}
      BY <3>1 DEF Archivable, ArchiveEvidence
    <3>3. docs[p] \cap Aosrs = {}
      BY <3>1 DEF Archivable, ArchiveEvidence, Absent
    <3> QED
      BY <3>1, <3>2, <3>3 DEF contentVars, HasCase
  <2> QED
    BY <2>1, <2>2
<1> QED
  BY <1>1, <1>2 DEF ArchiveEvidence, ArchiveHidesNothing

\* The archive holds nothing that was shown, accepted, handed over or
\* generated (ArchiveHidesNothing).
THEOREM ArchiveIsHarmless == Spec => []ArchiveHidesNothing
BY EvidenceInit, ArchiveInduction, RouteHolds, PTL DEF Spec

-----------------------------------------------------------------------------
(* Who holds a package *)

\* On the route, custody and status of the case decide the holder first, and
\* the status of the package where there is no custody.
LEMMA HolderByStatus ==
  ASSUME TypeOK, CaseOnItsRoute, NEW p \in Packages
  PROVE  /\ sdo[p].locked =>
              /\ pkg[p].status = "ACCEPTED_BY_CUSTOMER"
              /\ Holder(p) = IF sdo[p].status = "CLOSED" THEN "CLOSED" ELSE "SDO"
         /\ ~sdo[p].locked =>
              /\ sdo[p].status # "CLOSED"
              /\ pkg[p].status = "PRESENTED" => Holder(p) = "CUSTOMER"
              /\ pkg[p].status = "RETURNED" => Holder(p) = "RETURNED"
              /\ pkg[p].status = "ACCEPTED_BY_CUSTOMER" => Holder(p) = "ACCEPTED"
              /\ pkg[p].status \notin {"PRESENTED", "RETURNED", "ACCEPTED_BY_CUSTOMER"} =>
                   Holder(p) = "PTO"
<1>1. /\ sdo[p].status = "CLOSED" => sdo[p].locked
      /\ sdo[p].locked => pkg[p].status = "ACCEPTED_BY_CUSTOMER"
  BY DEF CaseOnItsRoute
<1> QED
  BY <1>1 DEF Holder

\* What one step does to the holder, the versions and the two snapshots of one
\* package: the disjuncts of Custody!Next.
CustodyMove(p) ==
  \/ /\ Holder(p) = "PTO" /\ Holder(p)' = "PTO"
     /\ shown'[p] = shown[p] /\ accepted'[p] = accepted[p]
  \/ /\ Holder(p) = "PTO" /\ Holder(p)' = "CUSTOMER"
     /\ CurrentVersions(p)' = CurrentVersions(p)
     /\ shown'[p] = CurrentVersions(p) /\ accepted'[p] = accepted[p]
  \/ /\ Holder(p) = "CUSTOMER" /\ Holder(p)' = "ACCEPTED"
     /\ CurrentVersions(p)' = CurrentVersions(p)
     /\ accepted'[p] = CurrentVersions(p) /\ shown'[p] = shown[p]
  \/ /\ \/ Holder(p) = "CUSTOMER" /\ Holder(p)' = "RETURNED"
        \/ Holder(p) = "RETURNED" /\ Holder(p)' = "PTO"
        \/ Holder(p) = "ACCEPTED" /\ Holder(p)' = "PTO"
        \/ Holder(p) = "ACCEPTED" /\ Holder(p)' = "SDO"
        \/ Holder(p) = "SDO" /\ Holder(p)' = "PTO"
        \/ Holder(p) = "SDO" /\ Holder(p)' = "CLOSED"
        \/ Holder(p) = "CLOSED" /\ Holder(p)' = "SDO"
        \/ Holder(p)' = Holder(p)
     /\ CurrentVersions(p)' = CurrentVersions(p)
     /\ shown'[p] = shown[p] /\ accepted'[p] = accepted[p]

\* A step that moves the case alone.
LEMMA CaseMoveIsCustodyMove ==
  ASSUME TypeOK, TypeOK', Route, Route', [Next]_vars, NEW p \in Packages,
         UNCHANGED <<pkg[p].status, history[p], shown[p], accepted[p]>>
  PROVE  CustodyMove(p)
<1> USE HolderByStatus DEF Route
<1>1. pkg'[p].status = pkg[p].status /\ shown'[p] = shown[p] /\ accepted'[p] = accepted[p]
  OBVIOUS
<1>2. CASE sdo'[p].status = sdo[p].status /\ sdo'[p].locked = sdo[p].locked
  <2>1. Holder(p)' = Holder(p)
    BY <1>1, <1>2 DEF Holder
  <2>2. CASE pkg[p].status \in {"PRESENTED", "ACCEPTED_BY_CUSTOMER", "RETURNED"}
    <3>1. CurrentVersions(p)' = CurrentVersions(p)
      BY <2>2, FrozenStep, CurrentKept
    <3> QED
      BY <1>1, <2>1, <3>1 DEF CustodyMove
  <2>3. CASE pkg[p].status \notin {"PRESENTED", "ACCEPTED_BY_CUSTOMER", "RETURNED"}
    <3>1. Holder(p) = "PTO"
      BY <2>3
    <3> QED
      BY <1>1, <2>1, <3>1 DEF CustodyMove
  <2> QED
    BY <2>2, <2>3
<1>3. CASE UNCHANGED ptoVars /\ ~(sdo'[p].status = sdo[p].status /\ sdo'[p].locked = sdo[p].locked)
  <2>1. CurrentVersions(p)' = CurrentVersions(p)
    BY <1>3, CurrentKept DEF ptoVars
  <2>2. CASE ReadyForSdo(p) /\ ~sdo[p].locked /\ sdo'[p].locked
    <3>1. Holder(p) = "ACCEPTED"
      BY <2>2 DEF ReadyForSdo
    <3>2. sdo'[p].status # "CLOSED"
      <4>1. sdo[p].status # "CLOSED"
        BY <2>2
      <4> QED
        BY <1>3, <2>2, <4>1, CaseTakesEdge DEF CaseEdge
    <3>3. Holder(p)' = "SDO"
      BY <2>2, <3>2 DEF Holder
    <3> QED
      BY <1>1, <2>1, <3>1, <3>3 DEF CustodyMove
  <2>3. CASE sdo[p].locked /\ sdo'[p].locked
    <3>1. Holder(p) = IF sdo[p].status = "CLOSED" THEN "CLOSED" ELSE "SDO"
      BY <2>3
    <3>2. Holder(p)' = IF sdo'[p].status = "CLOSED" THEN "CLOSED" ELSE "SDO"
      BY <2>3 DEF Holder
    <3> QED
      BY <1>1, <2>1, <3>1, <3>2 DEF CustodyMove
  <2> QED
    BY <1>1, <1>3, <2>2, <2>3, CaseTakesEdge DEF CaseEdge
<1>4. UNCHANGED ptoVars \/ (sdo'[p].status = sdo[p].status /\ sdo'[p].locked = sdo[p].locked)
  BY <1>1, CaseTakesEdge DEF CaseEdge
<1> QED
  BY <1>2, <1>3, <1>4

\* A step that moves the package.
LEMMA PackageMoveIsCustodyMove ==
  ASSUME TypeOK, TypeOK', Route, Route', [Next]_vars, NEW p \in Packages,
         ~UNCHANGED <<pkg[p].status, history[p], shown[p], accepted[p]>>
  PROVE  CustodyMove(p)
<1> DEFINE HolderOf(status) ==
      CASE status = "PRESENTED" -> "CUSTOMER"
        [] status = "RETURNED" -> "RETURNED"
        [] status = "ACCEPTED_BY_CUSTOMER" -> "ACCEPTED"
        [] OTHER -> "PTO"
<1>1. ~sdo[p].locked => Holder(p) = HolderOf(pkg[p].status)
  BY HolderByStatus DEF Route
<1>2. ~sdo'[p].locked => Holder(p)' = HolderOf(pkg'[p].status)
  BY DEF Route, CaseOnItsRoute, Holder
<1>3. sdo[p].locked => pkg[p].status = "ACCEPTED_BY_CUSTOMER" /\ Holder(p) \in {"SDO", "CLOSED"}
  BY HolderByStatus DEF Route
<1> HIDE DEF HolderOf
<1>4. CASE /\ ~Exists(p) /\ pkg'[p].status = "DRAFT"
           /\ UNCHANGED <<docs, accepted, shown, sdo>>
  <2>1. ~sdo[p].locked /\ ~sdo'[p].locked
    BY <1>3, <1>4 DEF Exists, Absent
  <2>2. Holder(p) = "PTO" /\ Holder(p)' = "PTO"
    BY <1>1, <1>2, <1>4, <2>1 DEF HolderOf, Exists, Absent
  <2> QED
    BY <1>4, <2>2 DEF CustodyMove
<1>5. CASE /\ <<pkg[p].status, pkg'[p].status>> \in AllowedStatusTransitions
           /\ shown'[p] = IF pkg'[p].status = "PRESENTED" THEN CurrentVersions(p) ELSE shown[p]
           /\ UNCHANGED <<contentVars, accepted, sdo>>
  <2>1. ~sdo[p].locked /\ ~sdo'[p].locked
    BY <1>3, <1>5, StatusEdges
  <2>2. CurrentVersions(p)' = CurrentVersions(p)
    BY <1>5, CurrentKept DEF contentVars
  <2>3. accepted'[p] = accepted[p]
    BY <1>5
  <2>4. CASE pkg'[p].status = "PRESENTED"
    <3>1. Holder(p) = "PTO" /\ Holder(p)' = "CUSTOMER"
      BY <1>1, <1>2, <1>5, <2>1, <2>4, StatusEdges DEF HolderOf
    <3> QED
      BY <1>5, <2>2, <2>3, <2>4, <3>1 DEF CustodyMove
  <2>5. CASE pkg'[p].status # "PRESENTED"
    <3>1. \/ Holder(p) = "CUSTOMER" /\ Holder(p)' = "RETURNED"
          \/ Holder(p) = "RETURNED" /\ Holder(p)' = "PTO"
          \/ Holder(p) = "PTO" /\ Holder(p)' = "PTO"
      BY <1>1, <1>2, <1>5, <2>1, <2>5 DEF HolderOf, AllowedStatusTransitions
    <3> QED
      BY <1>5, <2>2, <2>3, <2>5, <3>1 DEF CustodyMove
  <2> QED
    BY <2>4, <2>5
<1>6. CASE /\ pkg[p].status = "PRESENTED" /\ pkg'[p].status = "ACCEPTED_BY_CUSTOMER"
           /\ accepted'[p] = CurrentVersions(p)
           /\ UNCHANGED <<contentVars, shown, sdo>>
  <2>1. ~sdo[p].locked /\ ~sdo'[p].locked
    BY <1>3, <1>6
  <2>2. Holder(p) = "CUSTOMER" /\ Holder(p)' = "ACCEPTED"
    BY <1>1, <1>2, <1>6, <2>1 DEF HolderOf
  <2>3. CurrentVersions(p)' = CurrentVersions(p)
    BY <1>6, CurrentKept DEF contentVars
  <2> QED
    BY <1>6, <2>2, <2>3 DEF CustodyMove
<1>7. CASE /\ pkg[p].status = "ACCEPTED_BY_CUSTOMER" /\ pkg'[p].status = "CORRECTING"
           /\ HasCase(p) => sdo[p].status # "CLOSED" /\ sdo'[p].locked = FALSE
           /\ ~HasCase(p) => sdo'[p].locked = sdo[p].locked
           /\ UNCHANGED <<contentVars, accepted, shown>>
  <2>1. ~sdo'[p].locked
    BY <1>7 DEF Route, CaseOnItsRoute
  <2>2. Holder(p)' = "PTO"
    BY <1>2, <1>7, <2>1 DEF HolderOf
  <2>3. Holder(p) \in {"ACCEPTED", "SDO"}
    <3>1. CASE sdo[p].locked
      BY <1>7, <3>1, HolderByStatus DEF Route, CaseOnItsRoute
    <3>2. CASE ~sdo[p].locked
      BY <1>1, <1>7, <3>2 DEF HolderOf
    <3> QED
      BY <3>1, <3>2
  <2>4. CurrentVersions(p)' = CurrentVersions(p)
    BY <1>7, CurrentKept DEF contentVars
  <2> QED
    BY <1>7, <2>2, <2>3, <2>4 DEF CustodyMove
<1> QED
  BY <1>4, <1>5, <1>6, <1>7, PackageTakesEdge DEF PackageEdge

-----------------------------------------------------------------------------
(* The refinement *)

LEMMA CustodyInitially == Init => Custody!Init
<1> SUFFICES ASSUME Init PROVE Custody!Init
  OBVIOUS
<1>1. ASSUME NEW p \in Packages
      PROVE  Holder(p) = "PTO" /\ CurrentVersions(p) = {} /\ shown[p] = {} /\ accepted[p] = {}
  BY DEF Init, PtoInit, Holder, CurrentVersions, NoCase, NoPackage, Absent
<1>2. shown = [p \in Packages |-> {}] /\ accepted = [p \in Packages |-> {}]
  BY DEF Init, PtoInit
<1> QED
  BY <1>1, <1>2 DEF Custody!Init

\* The moves of one package are those of the abstract module.
LEMMA CustodyStep ==
  ASSUME TypeOK, Route, [Next]_vars
  PROVE  [Custody!Next]_(Custody!vars)
<1>1. TypeOK' /\ Route'
  BY NextTypeOK, RouteStep
<1>2. ASSUME NEW p \in Packages PROVE CustodyMove(p)
  BY <1>1, CaseMoveIsCustodyMove, PackageMoveIsCustodyMove
<1>3. ASSUME NEW p \in Packages
      PROVE  Custody!Prepare(p) \/ Custody!Present(p) \/ Custody!Accept(p) \/ Custody!HandOn(p) \/ Custody!Rest(p)
  BY <1>2 DEF CustodyMove, Custody!Prepare, Custody!Present, Custody!Accept, Custody!HandOn,
     Custody!Rest, Custody!Pass
<1> QED
  BY <1>3 DEF Custody!Next

\* The handlers implement the custody promise (FollowsCustody), whatever the
\* packages, portions and documents.
THEOREM RouteImplementsCustody == Spec => FollowsCustody
<1>1. TypeOK /\ Route /\ [Next]_vars => [Custody!Next]_(Custody!vars)
  BY CustodyStep
<1> QED
  BY <1>1, CustodyInitially, RouteHolds, PTL DEF Spec, FollowsCustody, Custody!Spec
=============================================================================
