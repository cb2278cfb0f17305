SPECIFICATION FairSpec
CONSTANTS
  acme = acme
  zeta = zeta
  a1 = a1
  a2 = a2
  n1 = n1
  n2 = n2
  z1 = z1
  z2 = z2
  s1 = s1
  s2 = s2
  s3 = s3
  e1 = e1
  e2 = e2
  NoCompany = NoCompany
  NoRequest = NoRequest
  NoEntry = NoEntry
  NoSlot = NoSlot
  Companies = {acme, zeta}
  Requests = {a1, n1, a2, n2, z1}
  Slots = {s1, s2, s3}
  Entries = {e1, e2}
  CompanyOf <- CompanyNames
  Parent <- AuthorityReads
  Reserving = {a1, a2}
  LimitAt <- Fixed
  Revisions = 1
  MaxBackends = 2
  MaxWaiters = 2
  Capacity = 2
  Rounds = 1
  MaxFailures = 1
  Expires = TRUE
  Stops = FALSE
INVARIANTS HostBudget
PROPERTIES WaitersAnswered
CHECK_DEADLOCK FALSE
