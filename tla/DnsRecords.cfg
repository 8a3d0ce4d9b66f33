SPECIFICATION DnsSpec
CONSTANTS
  Targets = {t1, t2}
  Records = {r1}
  Callers = {c1, c2}
  MaxDisturbances = 2
PROPERTIES
  RefreshRepairs
  AutomationKeepsForeign
CHECK_DEADLOCK FALSE
