SPECIFICATION FairSpec
CONSTANTS
  p1 = p1
  p2 = p2
  r1 = r1
  r2 = r2
  Projects = {p1, p2}
  NoProject = NoProject
  NoRequest = NoRequest
  Requests = {r1}
  Kinds = {"passkey", "synchronize"}
  Streams = {stream}
  SweepSlots = {s1}
  SyncSlots = {c1}
  MaxQueue = 1
  MaxGeneration = 2
  Disturbances = {"lateRegistration", "recoveryFails", "cleanupFails"}
INVARIANTS TypeOK ActiveProjectStored
PROPERTIES DeletesOwnSession TransitionsAnswered RequestsAnswered
CHECK_DEADLOCK FALSE
