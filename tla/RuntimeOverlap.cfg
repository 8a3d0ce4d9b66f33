SPECIFICATION Spec
CONSTANTS
  n1 = n1
  c1 = c1
  i1 = i1
  t1 = t1
  u1 = u1
  u2 = u2
  Targets = {t1}
  Networks = {n1}
  Containers = {c1}
  Items = {}
  Callers = {u1, u2}
  Kinds <- OverlappingKinds
  InitialPlan <- ManagedPlan
  InitialHost <- BareHost
  MaxVersion = 2
  MaxToken = 2
  MaxDrift = 0
INVARIANT OneApplyPerTarget
CHECK_DEADLOCK FALSE
