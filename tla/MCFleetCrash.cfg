SPECIFICATION Spec
CONSTANTS
  h1 = h1
  h2 = h2
  acme = acme
  zeta = zeta
  t1 = t1
  t2 = t2
  t3 = t3
  page1 = page1
  page2 = page2
  agent1 = agent1
  warm1 = warm1
  d1 = d1
  d2 = d2
  p1 = p1
  r1 = r1
  r2 = r2
  NoCompany = NoCompany
  NoTask = NoTask
  NoRevision = NoRevision
  Hosts = {h1, h2}
  Companies = {acme}
  Tasks = {t1, t2}
  Calls = {page1, page2}
  Docs = {}
  Prewarms = {}
  Revisions = {r1}
  RevisionOf <- AllFirst
  HostOf <- TwoHostsOf
  CompanyOf <- AcmeOf
  CallerOf <- CallerKind
  FirstRevision = r1
  IdleMs = 1
  AgentIdleMs = 1
  MaxCallMs = 1
  Budget = 3
  MinSpares = 1
  Horizon = 0
  MaxEpoch = 2
  MaxAsks = 1
  MaxLosses = 1
  DrainsOverlap = FALSE
SYMMETRY Twins
INVARIANTS TypeOK AdmissionInvariant AdmittedKeepsServer
PROPERTIES KeepsTenancy
CHECK_DEADLOCK FALSE
