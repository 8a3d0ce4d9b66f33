SPECIFICATION PagesSpec
CONSTANTS
  None = None
  h1 = h1
  h2 = h2
  opc = opc
  t1 = t1
  t2 = t2
  p1 = p1
  p2 = p2
  z1 = z1
  z2 = z2
  r1 = r1
  r2 = r2
  k1 = k1
  k2 = k2
  d1 = d1
  d2 = d2
  Targets = {t1, t2}
  Removes <- RemovesOne
  MaxVersion = 1
  MaxTokens = 2
  MaxCalls = 1
  Projects = {p1, p2}
  Nothing = Nothing
  MaxSent = 2
  MaxClears = 3
  MaxFaults = 1
  Plans = {"servers", "empty"}
  Empty = "empty"
  Destructive = {"empty"}
  MaxOffers = 2
  MaxVisits = 2
  Hosts = {h1, h2}
  Logins = {opc}
  DefaultLogin = opc
  VpsTargets = {t1, t2}
  Profiles = {"jenkins", "nginx"}
  Secretive = {"jenkins"}
  ConfiguredHosts = {h1}
  MaxMutations = 1
  Tabs = {"zones", "dns", "settings"}
  Zones = {z1, z2}
  Records = {r1, r2}
  Home <- InFirstZone
  Addresses = {r1}
  RuleIds = {}
  Literal = {d1}
  MaxSending = 1
  MaxElsewhere = 1
INVARIANTS
  AttendedPageIsOfOneHost
  AppliedAsConfirmed
  
  OfferedAndApplied
  
CHECK_DEADLOCK FALSE
