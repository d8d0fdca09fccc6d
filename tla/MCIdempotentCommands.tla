------------------------ MODULE MCIdempotentCommands ------------------------
(***************************************************************************)
(* Model values for IdempotentCommands.                                    *)
(***************************************************************************)
EXTENDS IdempotentCommands, TLC

CONSTANTS a1, a2, k1, t1, t2, t3

OneActor == {a1}
TwoActors == {a1, a2}
OneKey == {k1}
TwoAttempts == {t1, t2}
ThreeAttempts == {t1, t2, t3}
OneVersion == {0}
TwoVersions == {0, 1}
ThreeVersions == {0, 1, 2}
PackageWrites ==
  {"CUSTOMER_ACCEPTED_QUANTITY", "SDO_HANDOFF", "SDO_RETURN_TO_PTO", "SDO_STATUS_CHANGE"}

AttemptSymmetry == Permutations({t1, t2, t3})
=============================================================================
