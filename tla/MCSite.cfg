SPECIFICATION SiteSpec
CONSTANTS
  t1 = t1
  t2 = t2
  Attempts = {t1, t2}
  Types = {"INTERNAL_SC", "CUSTOMER_SC"}
  Quantities = {4, 5}
  Planned = 1
  MaxInspections = 2
  MaxIssues = 1
  MaxRequests = 7
  Amounts = {1, 2}
  InitialModes = {"UNCLASSIFIED", "LEGACY_WORK"}
  InitialActuals = {0, 2}
  Target = 2
  MaxPortions = 2
  MaxReports = 5
SYMMETRY Symmetry
INVARIANT InspectionsAreSound
PROPERTIES FiguresAreKept ThePastStands
CHECK_DEADLOCK FALSE
