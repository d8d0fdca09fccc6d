SPECIFICATION Spec
CONSTANTS
  Functions = {f1}
  Tables = {}
  Kinds = {"function", "event"}
  MaxStatements = 2
  MaxFiles = 2
PROPERTY AcceptedFilesRanNothingHidden
CHECK_DEADLOCK FALSE
