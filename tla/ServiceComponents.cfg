SPECIFICATION ServiceSpec
CONSTANTS
  t1 = t1
  t2 = t2
  caller1 = caller1
  caller2 = caller2
  Servers = {"web"}
  Calls = {caller1, caller2}
  MaxPreviews = 2
  MaxHosts = 1
  MaxRows = 2
  Runs = {"first", "second"}
  StepCount = 2
  MaxCrashes = 1
  MaxOpens = 2
  MaxQueued = 2
  Credentials = {"key", "token"}
  MaxEdits = 2
  MaxCallFaults = 2
  Identities = {"alpha", "beta"}
  Regions = {"east", "west"}
  Forms <- MCForms
  Editors = {caller1}
  Engines = {caller2}
  MaxWriteFaults = 2
  MaxPasskey = 1
  SourceCredentials = {"key", "token"}
  MaxCopyFaults = 2
  Domains = {"site"}
  Issuers = {caller1}
  Listers = {caller2}
  MaxSerial = 2
  Targets = {t1, t2}
  AppPorts = {"3000", "4000"}
  Callers = {caller1}
  Savers = {caller1}
  MaxFaults = 2
  ProjectOrder <- MCProjectOrder
  TargetOrder <- MCTargetOrder
  PipelineOrder <- MCPipelineOrder
  LegacyCredentials <- MCLegacyCredentials
  MaxStarts = 3
INVARIANTS
  SavedMeansConsistent
  AppliedAsPreviewed
  OneTargetPerServer
  CopyStandsAlone
  UpgradeIsolates
  ConnectedIsOpen
  RecordFollowsRun
  TopologyServes
PROPERTIES
  FailedUpdateIsUndone
  AcceptedIsServed
  RestoreIsAllOrNothing
CHECK_DEADLOCK FALSE
