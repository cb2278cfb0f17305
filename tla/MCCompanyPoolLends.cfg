SPECIFICATION Spec
CONSTANTS
  acme = acme
  zeta = zeta
  a1 = a1
  a2 = a2
  n1 = n1
  n2 = n2
  z1 = z1
  z2 = z2
  s1 = s1
  s2 = s2
  s3 = s3
  e1 = e1
  e2 = e2
  NoCompany = NoCompany
  NoRequest = NoRequest
  NoEntry = NoEntry
  NoSlot = NoSlot
  Companies = {acme, zeta}
  Requests = {a1, a2, z1, z2}
  Slots = {s1, s2, s3}
  Entries = {e1, e2}
  CompanyOf <- CompanyNames
  Parent <- AuthorityReads
  Reserving = {z1}
  LimitAt <- Lowered
  Revisions = 2
  MaxBackends = 2
  MaxWaiters = 1
  Capacity = 2
  Rounds = 1
  MaxFailures = 1
  Expires = FALSE
  Stops = TRUE
SYMMETRY Alike
INVARIANTS HostBudget LeasesExclusive CompanyCeiling CountsExact WakeDue ClosedTakesAll
PROPERTIES TargetsAdvance
CHECK_DEADLOCK FALSE
