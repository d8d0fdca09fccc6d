\* Two concurrent attempts of one user over the package and its case.
CONSTANTS
  a1 = a1  a2 = a2  k1 = k1  t1 = t1  t2 = t2  t3 = t3
  Actors <- OneActor
  Keys <- OneKey
  NoKey = NoKey
  Inputs <- ThreeVersions
  Operations <- PackageWrites
  Attempts <- TwoAttempts
  MaxRequests = 3
SYMMETRY AttemptSymmetry
SPECIFICATION Spec
INVARIANTS
  VersionsAreUsedOnce
PROPERTIES
  VersionedRetriesAreReplayed KeepsThePromise
CHECK_DEADLOCK FALSE
