CONSTANTS
  p1 = p1
  p2 = p2
  q1 = q1
  q2 = q2
  cert = cert
  scheme = scheme
  act = act
  Packages = {p1, p2}
  Portions = {q1, q2}
  Certificates = {cert}
  Schemes = {scheme}
  Aosrs = {act}
  Amounts = {1, 2}
  MaxPackageVersion = 8
  MaxCaseVersion = 6
  MaxAllocationVersion = 2
  MaxRevision = 2
SYMMETRY Symmetry
SPECIFICATION MCSpec
INVARIANTS
  LockedPackageStaysReady AcceptedIsWhatWasShown ClosedIsBalanced
  ReturnedCaseAwaitsCorrection NoSharedPortion ArchiveHidesNothing
PROPERTIES
  ClosedIsFinal FollowsCustody FrozenContent
CHECK_DEADLOCK FALSE
