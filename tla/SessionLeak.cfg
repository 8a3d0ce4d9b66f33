SPECIFICATION FairSpec
CONSTANTS
  p1 = p1
  p2 = p2
  r1 = r1
  r2 = r2
  Projects = {p1, p2}
  NoProject = NoProject
  NoRequest = NoRequest
  Requests = {r1}
  Kinds = {"deploy"}
  Streams = {stream}
  SweepSlots = {s1}
  SyncSlots = {c1}
  MaxQueue = 1
  MaxGeneration = 2
  Disturbances = {"targetUnresolved"}
PROPERTY TransitionsAnswered
CHECK_DEADLOCK FALSE
