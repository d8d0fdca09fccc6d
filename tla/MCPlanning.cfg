SPECIFICATION MCSpec
CONSTANTS
  t1 = t1
  t2 = t2
  t3 = t3
  c1 = c1
  c2 = c2
  c3 = c3
  Attempts = {t1, t2}
  Works = {c1, c2, c3}
  EarlyWorks = {c1}
  PortionWorks = {c1, c3}
  Planned = 1
  MaxInspections = 1
  MaxRequests = 7
  w1 = w1
  w2 = w2
  u1 = u1
  NoScope = NoScope
  Scheduled = {w1, w2}
  Units = {u1}
  WorkOf <- UnitOfFirst
  Plans = {1, 2}
  MaxRevisions = 2
  MaxReasons = 1
  MaxDrafting = 5
  e1 = e1
  e2 = e2
  e3 = e3
  a1 = a1
  k1 = k1
  NoQuantity = NoQuantity
  o1 = o1
  o2 = o2
  corporate = corporate
  m2 = m2
  pcs = pcs
  template = template
  f1 = f1
  s1 = s1
  s2 = s2
  putty = putty
  thin = thin
  thick = thick
  plaster = plaster
  paint = paint
  walls = walls
  slopes = slopes
  Operations = {plaster, paint}
  Keys = {walls, slopes}
  NoKey = NoKey
  Systems <- MCSystems
  Measures = {0, 1, 2}
  Stated = {1, 2}
  InitialAreas <- HalfHouse
  MaxQuantity = 3
  MaxAreas = 4
  MaxVersions = 2
  MaxGenerating = 5
  Objects = {o1, o2}
  Corporate = corporate
  Measurements = {m2, pcs}
  InitialTypes <- OneType
  MaxTypes = 2
  MaxCataloguing = 4
SYMMETRY Symmetry
INVARIANTS SpaceHasOneProducer
PROPERTIES PrecedenceHolds RevisionsAreSound AssessmentIsSound AllocationsAreCapped TypesAreSound TemplatesAreSound GeneratedAsPreviewed
CHECK_DEADLOCK FALSE
