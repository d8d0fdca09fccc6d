----------------------------- MODULE SdoClosing -----------------------------
(***************************************************************************)
(* The closing case the SDO department keeps for a documentation package,  *)
(* composed with the package itself: handoff and return of custody, the    *)
(* case's own status, its total amount and the amounts allocated to        *)
(* portions.                                                               *)
(*                                                                         *)
(* Handlers here lock the package row, then the case row, then an          *)
(* allocation row, in one transaction: one handler, one action.            *)
(* Idempotency keys are the subject of another module; an action here is   *)
(* the first execution of its command.                                     *)
(***************************************************************************)
EXTENDS DocumentationPackages, Functions

CONSTANTS
  Amounts,             \* sums of money a request may carry
  MaxCaseVersion,      \* bound on the optimistic version of a case row
  MaxAllocationVersion \* bound on the optimistic version of an allocation row

ASSUME AmountsAreNaturals ==
  Amounts \subseteq Nat /\ MaxCaseVersion \in Nat /\ MaxAllocationVersion \in Nat

VARIABLE alloc        \* sdo_closing_portion_allocations: amount, active, version

vars == <<pkg, scope, docs, latest, method, aosr, history, accepted, shown, customer, sdo, alloc>>

NoAllocation == [amount |-> 0, active |-> FALSE, version |-> 0]

\* Mutated form: a closed case may be reopened straight into reconciliation.
ReopeningTransitions ==
  {<<"ON_RECONCILIATION", "VERIFICATION_PASSED">>, <<"ON_RECONCILIATION", "ON_CORRECTION">>,
   <<"VERIFICATION_PASSED", "CLOSED">>, <<"VERIFICATION_PASSED", "ON_CORRECTION">>,
   <<"ON_CORRECTION", "ON_RECONCILIATION">>, <<"CLOSED", "ON_RECONCILIATION">>}

AllowedSdoTransitions ==
  {<<"ON_RECONCILIATION", "VERIFICATION_PASSED">>, <<"ON_RECONCILIATION", "ON_CORRECTION">>,
   <<"VERIFICATION_PASSED", "CLOSED">>, <<"VERIFICATION_PASSED", "ON_CORRECTION">>,
   <<"ON_CORRECTION", "ON_RECONCILIATION">>, <<"CLOSED", "ON_CORRECTION">>}

-----------------------------------------------------------------------------
(* What the guards read *)

\* Every document has a version, and the accepted snapshot is exactly those.
SnapshotCurrent(p) ==
  /\ docs[p] # {}
  /\ \A d \in docs[p] : latest[p][d] > 0
  /\ accepted[p] = CurrentVersions(p)

\* resolvePackageReadiness: what handoff and CLOSED both ask of the package.
ReadyForSdo(p) ==
  /\ pkg[p].status = "ACCEPTED_BY_CUSTOMER"
  /\ accepted[p] # {}
  /\ SnapshotCurrent(p)
  /\ HasScope(p)
  /\ scope[p] \subseteq customer

ActivePortions(p) == {q \in Portions : alloc[p][q].active}

AllocatedSum(p) == SumFunctionOnSet([q \in Portions |-> alloc[p][q].amount], ActivePortions(p))

CanClose(p) ==
  /\ sdo[p].total # NoAmount
  /\ ActivePortions(p) # {} => AllocatedSum(p) = sdo[p].total

-----------------------------------------------------------------------------
(* Handlers *)

\* The first handoff creates the case; a later one locks the same case again.
Handoff(p, v) ==
  /\ Open(p)
  /\ pkg[p].version = v
  /\ ReadyForSdo(p)
  /\ ~sdo[p].locked
  /\ sdo[p].version < MaxCaseVersion
  /\ sdo' = [sdo EXCEPT ![p] = Versioned([@ EXCEPT !.status = IF HasCase(p) THEN sdo[p].status ELSE "ON_RECONCILIATION",
                                                 !.locked = TRUE])]
  /\ UNCHANGED <<ptoVars, alloc>>

\* Mutated form: a closed case goes back without a reopening.
ReturnEvenClosed(p, v) ==
  /\ HasCase(p)
  /\ CheckVersion(sdo[p], v, MaxCaseVersion)
  /\ sdo[p].locked
  /\ pkg[p].status = "ACCEPTED_BY_CUSTOMER"
  /\ pkg[p].version < MaxPackageVersion
  /\ sdo' = [sdo EXCEPT ![p] = Versioned([@ EXCEPT !.locked = FALSE])]
  /\ MovePackage(p, "CORRECTING")
  /\ UNCHANGED <<contentVars, method, accepted, shown, customer, alloc>>

ReturnToPto(p, v) ==
  /\ HasCase(p)
  /\ CheckVersion(sdo[p], v, MaxCaseVersion)
  /\ sdo[p].status # "CLOSED"
  /\ sdo[p].locked
  /\ pkg[p].status = "ACCEPTED_BY_CUSTOMER"
  /\ pkg[p].version < MaxPackageVersion
  /\ sdo' = [sdo EXCEPT ![p] = Versioned([@ EXCEPT !.locked = FALSE])]
  /\ MovePackage(p, "CORRECTING")
  /\ UNCHANGED <<contentVars, method, accepted, shown, customer, alloc>>

AssignResponsible(p, v) ==
  /\ HasCase(p)
  /\ CheckVersion(sdo[p], v, MaxCaseVersion)
  /\ sdo' = [sdo EXCEPT ![p] = Versioned(@)]
  /\ UNCHANGED <<ptoVars, alloc>>

\* A reason is mandatory when correction undoes a completed step.
ChangeSdoStatus(p, status, v, reasonGiven) ==
  /\ HasCase(p)
  /\ CheckVersion(sdo[p], v, MaxCaseVersion)
  /\ sdo[p].locked
  /\ <<sdo[p].status, status>> \in AllowedSdoTransitions
  /\ status = "ON_CORRECTION" /\ sdo[p].status \in {"VERIFICATION_PASSED", "CLOSED"} => reasonGiven
  /\ status = "CLOSED" => ReadyForSdo(p) /\ CanClose(p)
  /\ sdo' = [sdo EXCEPT ![p] = Versioned([@ EXCEPT !.status = status])]
  /\ UNCHANGED <<ptoVars, alloc>>

\* Mutated form: the status of the case is not asked.
WorkableEvenClosed(p) == HasCase(p) /\ sdo[p].locked

\* Money is touched only while SDO holds the package and the case is open.
Workable(p) == HasCase(p) /\ sdo[p].locked /\ sdo[p].status # "CLOSED"

SetAmount(p, amount, v) ==
  /\ Workable(p)
  /\ CheckVersion(sdo[p], v, MaxCaseVersion)
  /\ sdo' = [sdo EXCEPT ![p] = Versioned([@ EXCEPT !.total = amount])]
  /\ UNCHANGED <<ptoVars, alloc>>

\* CREATE ignores the version; CORRECT and RESTORE check the row's own.
SetAllocation(p, q, amount, v) ==
  /\ Workable(p)
  /\ q \in scope[p]
  /\ amount > 0
  /\ alloc[p][q].version \in {0, v}
  /\ alloc[p][q].version < MaxAllocationVersion
  /\ alloc' = [alloc EXCEPT ![p][q] = Versioned([@ EXCEPT !.amount = amount, !.active = TRUE])]
  /\ UNCHANGED <<ptoVars, sdo>>

CancelAllocation(p, q, v) ==
  /\ Workable(p)
  /\ alloc[p][q].active
  /\ CheckVersion(alloc[p][q], v, MaxAllocationVersion)
  /\ alloc' = [alloc EXCEPT ![p][q] = Versioned([@ EXCEPT !.active = FALSE])]
  /\ UNCHANGED <<ptoVars, sdo>>

-----------------------------------------------------------------------------
Init ==
  /\ PtoInit
  /\ alloc = [p \in Packages |-> [q \in Portions |-> NoAllocation]]

SdoNext ==
  \E p \in Packages :
    \/ \E v \in 1..MaxPackageVersion : Handoff(p, v)
    \/ \E v \in 1..MaxCaseVersion :
         \/ ReturnToPto(p, v)
         \/ AssignResponsible(p, v)
         \/ \E status \in SdoStatuses, reasonGiven \in BOOLEAN : ChangeSdoStatus(p, status, v, reasonGiven)
         \/ \E amount \in Amounts : SetAmount(p, amount, v)
    \/ \E q \in Portions, v \in 1..MaxAllocationVersion :
         \/ \E amount \in Amounts : SetAllocation(p, q, amount, v)
         \/ CancelAllocation(p, q, v)

Next == (PtoNext /\ UNCHANGED alloc) \/ SdoNext

Spec == Init /\ [][Next]_vars

-----------------------------------------------------------------------------
(* Properties *)

PackageRow == [status : PackageStatuses \cup {Absent}, archived : BOOLEAN, version : Nat]
CaseRow == [status : SdoStatuses \cup {Absent}, locked : BOOLEAN, version : Nat,
            total : Amounts \cup {NoAmount}]
AllocationRow == [amount : Nat, active : BOOLEAN, version : Nat]

\* Every column holds a value of its type.
TypeOK ==
  /\ pkg \in [Packages -> PackageRow]
  /\ scope \in [Packages -> SUBSET Portions]
  /\ docs \in [Packages -> SUBSET Documents]
  /\ latest \in [Packages -> [Documents -> Nat]]
  /\ method \in [Packages -> Methods \cup {Absent}]
  /\ aosr \in [Packages -> [Aosrs -> DocxStates \cup {Absent}]]
  /\ history \in [Packages -> SUBSET (PackageStatuses \X PackageStatuses)]
  /\ accepted \in [Packages -> SUBSET (Documents \X Nat)]
  /\ shown \in [Packages -> SUBSET (Documents \X Nat)]
  /\ customer \subseteq Portions
  /\ sdo \in [Packages -> CaseRow]
  /\ alloc \in [Packages -> [Portions -> AllocationRow]]

\* No portion is in two packages that are not archived: the overlap checks of
\* createDocumentationPackage and linkDocumentationPackagePortion leave no gap.
NoSharedPortion ==
  \A p, r \in Packages :
    p # r /\ NotArchived(p) /\ NotArchived(r) => scope[p] \cap scope[r] = {}

\* What SDO holds is what the customer accepted, and it stays ready: no PTO
\* handler, no quantity recorded through any package, and no inspection can
\* take readiness away from a package whose case is locked.
LockedPackageStaysReady ==
  \A p \in Packages : sdo[p].locked => NotArchived(p) /\ ReadyForSdo(p)

\* The accepted snapshot is what PRESENTED showed the customer, still current.
AcceptedIsWhatWasShown ==
  \A p \in Packages :
    pkg[p].status = "ACCEPTED_BY_CUSTOMER" => SnapshotCurrent(p) /\ accepted[p] = shown[p]

\* A closed case is in SDO's custody with a total its allocations add up to.
ClosedIsBalanced ==
  \A p \in Packages : sdo[p].status = "CLOSED" => sdo[p].locked /\ CanClose(p)

\* Money is allocated only to portions the package covers.
AllocationsAreCovered ==
  \A p \in Packages : ActivePortions(p) \subseteq scope[p]

\* Archiving hides nothing the customer or SDO has seen, and no AOSR that
\* consumed an official number.
ArchiveHidesNothing ==
  \A p \in Packages :
    pkg[p].archived =>
      /\ ~HasCase(p)
      /\ accepted[p] = {} /\ shown[p] = {}
      /\ docs[p] \cap Aosrs = {}

\* A case that went back to PTO is found again only behind a new acceptance:
\* while it waits unlocked it is not closed and its package is on the
\* correction route, never back in the statuses that precede presentation.
ReturnedCaseAwaitsCorrection ==
  \A p \in Packages :
    HasCase(p) /\ ~sdo[p].locked =>
      /\ sdo[p].status # "CLOSED"
      /\ pkg[p].status \in {"CORRECTING", "PRESENTED", "RETURNED", "ACCEPTED_BY_CUSTOMER"}

\* While the customer looks at a package, or has accepted or returned it, its
\* portions, documents, versions and AOSRs do not move under the customer.
FrozenContent ==
  [][\A p \in Packages :
       pkg[p].status \in {"PRESENTED", "ACCEPTED_BY_CUSTOMER", "RETURNED"} =>
         /\ scope'[p] = scope[p]
         /\ docs'[p] = docs[p]
         /\ latest'[p] = latest[p]
         /\ aosr'[p] = aosr[p]]_vars

\* Custody is a separate axis: a return or a repeated handoff keeps the same
\* case with its status, its total and its allocations.
CustodyKeepsTheCase ==
  [][\A p \in Packages :
       HasCase(p) /\ sdo'[p].locked # sdo[p].locked =>
         /\ sdo'[p].status = sdo[p].status
         /\ sdo'[p].total = sdo[p].total
         /\ alloc'[p] = alloc[p]]_vars

\* While a case is closed neither its money, nor the package behind it, nor
\* the declared AOSR method changes; it is left for correction only.
ClosedIsFinal ==
  [][\A p \in Packages :
       sdo[p].status = "CLOSED" =>
         /\ sdo'[p].status \in {"CLOSED", "ON_CORRECTION"}
         /\ sdo'[p].total = sdo[p].total
         /\ alloc'[p] = alloc[p]
         /\ pkg'[p].status = pkg[p].status
         /\ method'[p] = method[p]
         /\ CurrentVersions(p)' = CurrentVersions(p)]_vars

-----------------------------------------------------------------------------
(* The route as custody *)

\* Who a package is with.
Holder(p) ==
  CASE sdo[p].status = "CLOSED" -> "CLOSED"
    [] sdo[p].locked /\ sdo[p].status # "CLOSED" -> "SDO"
    [] ~sdo[p].locked /\ sdo[p].status # "CLOSED" ->
         CASE pkg[p].status = "PRESENTED" -> "CUSTOMER"
           [] pkg[p].status = "RETURNED" -> "RETURNED"
           [] pkg[p].status = "ACCEPTED_BY_CUSTOMER" -> "ACCEPTED"
           [] OTHER -> "PTO"

Custody == INSTANCE PackageCustody
  WITH holder <- [p \in Packages |-> Holder(p)],
       content <- [p \in Packages |-> CurrentVersions(p)],
       agreed <- accepted

\* The handlers keep the promise of PackageCustody: a package changes hands only
\* along the route, each time with the versions the customer was shown, and PTO
\* alone changes them.
FollowsCustody == Custody!Spec
=============================================================================
