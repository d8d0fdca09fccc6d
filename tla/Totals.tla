------------------------------- MODULE Totals -------------------------------
(***************************************************************************)
(* Sums of whole amounts: SELECT coalesce(sum(amount), 0).  A sum is the   *)
(* number of units that its terms are made of, so that what the library    *)
(* proves of Cardinality holds of sums.                                    *)
(***************************************************************************)
EXTENDS Naturals, FiniteSets

\* The units of the amounts f[x], x in S: each has its term and its number in it.
UnitsOf(f, S) == UNION {{x} \X (1..f[x]) : x \in S}

SumOver(f, S) == Cardinality(UnitsOf(f, S))
=============================================================================
