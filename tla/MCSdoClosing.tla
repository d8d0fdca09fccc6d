---------------------------- MODULE MCSdoClosing ----------------------------
(***************************************************************************)
(* The route of the packages to SDO in two scenes.  "case": one package,   *)
(* deep: a bare certificate and a scheme, the closing case through         *)
(* returns, re-handoffs and reopenings, with two portions to allocate to.  *)
(* "packages": two packages compete for a portion, each with a scheme and  *)
(* an AOSR that is generated in Core, presented, returned, corrected,      *)
(* accepted and archived.                                                  *)
(***************************************************************************)
EXTENDS SdoClosing, TLC

CONSTANTS p1, p2, q1, q2, cert, scheme, act

VARIABLE scene

mcVars == <<scene, vars>>

Used == {p \in Packages : Exists(p)'}
Scoped == UNION {scope'[p] : p \in Packages} \cup customer'

(* What a step may lead to, each a bound of its scene.                     *)
OnePackageDeep ==
  /\ Cardinality(Used) <= 1
  /\ \A p \in Packages :
       /\ pkg'[p].version <= 7
       /\ \A d \in Schemes : latest'[p][d] <= 1
  /\ aosr' = aosr

TwoPackagesOnePortion ==
  /\ Cardinality(Scoped) <= 1
  /\ \A p \in Packages :
       /\ sdo'[p].version <= 2 /\ sdo'[p].total \in {NoAmount, 1}
       /\ docs'[p] \cap Certificates = {}
       /\ \A d \in Documents : latest'[p][d] <= 1
  /\ alloc' = alloc

MCInit == Init /\ scene \in {"case", "packages"}

MCNext ==
  /\ Next
  /\ scene = "case" => OnePackageDeep
  /\ scene = "packages" => TwoPackagesOnePortion
  /\ UNCHANGED scene

MCSpec == MCInit /\ [][MCNext]_mcVars

Symmetry == Permutations({p1, p2}) \cup Permutations({q1, q2})
=============================================================================
