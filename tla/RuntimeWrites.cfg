SPECIFICATION FairSpec
CONSTANTS
  n1 = n1
  c1 = c1
  i1 = i1
  t1 = t1
  u1 = u1
  u2 = u2
  Targets = {t1}
  Networks = {}
  Containers = {c1}
  Items = {i1}
  Callers = {u1, u2}
  Kinds <- WritingKinds
  InitialPlan <- NewPlan
  InitialHost <- BareHost
  MaxVersion = 3
  MaxToken = 0
  MaxDrift = 0
PROPERTIES
  ImplementsRegister
  NoFalseConflict
  CallsAnswered
CHECK_DEADLOCK FALSE
