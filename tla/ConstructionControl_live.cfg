SPECIFICATION Spec
CONSTANTS
  Attempts = {t1}
  Types = {"CUSTOMER_SC"}
  Quantities = {0, 10}
  Planned = 1
  MaxInspections = 2
  MaxIssues = 1
  MaxRequests = 7
CHECK_DEADLOCK FALSE
INVARIANT LiveInspectionIsInFull
