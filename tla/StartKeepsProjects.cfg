SPECIFICATION ServiceSpec
CONSTANTS
  t1 = t1
  t2 = t2
  caller1 = caller1
  caller2 = caller2
  Servers = {"web"}
  Calls = {caller1}
  MaxPreviews = 1
  MaxHosts = 1
  MaxRows = 1
  Runs = {"first"}
  StepCount = 1
  MaxCrashes = 1
  MaxOpens = 1
  MaxQueued = 1
  Credentials = {"key"}
  MaxEdits = 1
  MaxCallFaults = 1
  Identities = {"alpha", "beta"}
  Regions = {"east", "west"}
  Forms <- MCForms
  Editors = {caller1}
  Engines = {caller2}
  MaxWriteFaults = 1
  MaxPasskey = 1
  SourceCredentials = {"key"}
  MaxCopyFaults = 1
  Domains = {"site"}
  Issuers = {caller1}
  Listers = {caller2}
  MaxSerial = 2
  Targets = {t1, t2}
  AppPorts = {"3000", "4000"}
  Callers = {caller1}
  Savers = {caller1}
  MaxFaults = 1
  ProjectOrder <- MCProjectOrder
  TargetOrder <- MCTargetOrder
  PipelineOrder <- MCPipelineOrder
  LegacyCredentials <- MCLegacyCredentials
  MaxStarts = 3
INVARIANT StartKeepsProjects
CHECK_DEADLOCK FALSE
