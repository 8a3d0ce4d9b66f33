SPECIFICATION Spec
CONSTANTS
  p1 = p1
  p2 = p2
  r1 = r1
  r2 = r2
  Projects = {p1, p2}
  NoProject = NoProject
  NoRequest = NoRequest
  Requests = {r1}
  Kinds = {"update", "deploy", "terminal", "key"}
  Streams = {stream}
  SweepSlots = {s1, s2}
  SyncSlots = {c1}
  MaxQueue = 1
  MaxGeneration = 3
  Disturbances = {"targetUnresolved"}
SYMMETRY MCSymmetry
INVARIANTS NothingOutlivesSession SingleFlight
PROPERTIES StaleStaysStale DeletedStaysDeleted ImplementsIsolated
CHECK_DEADLOCK FALSE
