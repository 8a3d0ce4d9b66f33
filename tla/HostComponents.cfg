SPECIFICATION HostSpec
CONSTANTS
  Networks = {n1, n2}
  Containers = {container}
  Http = 80
  Https = 443
  OtherPorts = {}
  SshPort = 22
  PortPlans <- MCPortPlans
  Natives <- MCNatives
  ProviderRules <- MCProviderRules
  HandSources = {"0.0.0.0/0", "10.0.0.0/8"}
  MaxInterruptions = 1
  Services = {"db"}
  InnerPorts = {80, 443}
  OuterPorts = {80, 443}
  Domains = {domain1}
  SiteUpstreams = {"local", "container"}
  BadUpstreams = {"container"}
  Callers = {"script"}
  MaxBackups = 1
  Operations = {operation1, operation2}
  Profiles = {"docker", "portainer"}
  Listening = {"portainer"}
  Fetched = {"docker", "portainer"}
  OnDocker = {"portainer"}
  Docker = "docker"
  Attempts = 2
  MaxFaults = 1
SYMMETRY HostSymmetry
INVARIANTS
  ApplyCanBeFinished
  ReportedExactly
  
  HostStaysServable
  
  RunsAreExact

  
CHECK_DEADLOCK FALSE
