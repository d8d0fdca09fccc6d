SPECIFICATION AccountsSpec
CONSTANTS
  t1 = t1
  t2 = t2
  t3 = t3
  o1 = o1
  o2 = o2
  w1 = w1
  w2 = w2
  h1 = h1
  h2 = h2
  e1 = e1
  e2 = e2
  Admin = Admin
  None = None
  p1 = p1
  p2 = p2
  d1 = d1
  k1 = k1
  k2 = k2
  m1 = m1
  c1 = c1
  c2 = c2
  s1 = s1
  s2 = s2
  Same = Same
  Attempts = {t1, t2}
  MaxRequests = 3
  Packages = {p1, p2}
  Materials = {m1}
  Contents = {c1, c2}
  InitialActs <- TwoActs
  MaxActs = 3
  MaxQuality = 2
  People = {h1, h2, e1}
  Installer = h1
  InitialAccounts <- Staffs
  Roles = {"ADMIN", "PTO"}
  Tokens = {s1, s2}
  Callers = {t1, t2}
  Installers = {s1, s2}
  ApplicationTokens = {k1, k2}
  MaxPairs = 3
  Uploads = {t1, t2, t3}
  Limit = 1
  Others = 1
  PoolMax = 3
  ExecutivePackages = {s1, s2, p2}
  WorkOf <- ExecutiveWork
  ObjectOf <- ExecutiveObject
  Files = {d1}
  Keys = {k1, k2}
  MaxDocuments = 2
  MaxValue = 2
  MaxCommands = 8
  Objects = {o1}
  Heads = {h1, h2}
  Engineers = {e1, e2}
  Kinds = {"org", "orgEnd", "lead", "redistribute", "add", "remove", "handoff", "package", "archive", "complete"}
  Redistributions <- MCRedistributions
  InitialOrg <- FirstOrg
  InitialLeads <- FirstLeads
  InitialMembers <- FirstMembers
  MaxAssignments = 4
SYMMETRY Symmetry
PROPERTIES ReactivationNeedsALaunch
CHECK_DEADLOCK FALSE
