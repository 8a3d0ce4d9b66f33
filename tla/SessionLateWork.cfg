SPECIFICATION Spec
CONSTANTS
  p1 = p1
  p2 = p2
  r1 = r1
  r2 = r2
  Projects = {p1, p2}
  NoProject = NoProject
  NoRequest = NoRequest
  Requests = {r1}
  Kinds = {"update"}
  Streams = {stream}
  SweepSlots = {s1}
  SyncSlots = {c1}
  MaxQueue = 1
  MaxGeneration = 3
  Disturbances = {"lateRegistration"}
INVARIANT NoWorkSurvives
CHECK_DEADLOCK FALSE
