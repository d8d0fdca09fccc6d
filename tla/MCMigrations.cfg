SPECIFICATION MCSpec
CONSTANTS
  p1 = p1
  p2 = p2
  f1 = f1
  f2 = f2
  r1 = r1
  None = None
  NoChecksum = NoChecksum
  Runners = {p1, p2}
  LastVersion = 3
  LegacyLast = 1
  MaxContent = 1
  MaxCommits = 3
  MaxRuns = 3
  Commands <- DeployCommands
  Functions = {f1, f2}
  Tables = {r1}
  Kinds <- EveryKind
  MaxStatements = 2
  MaxFiles = 3
SYMMETRY Symmetry
INVARIANTS LedgerIsTrue HiddenBodiesDoNotRun
PROPERTY DeploymentsAreWhole
CHECK_DEADLOCK FALSE
