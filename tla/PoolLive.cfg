SPECIFICATION FairSpec
CONSTANTS
  a = a
  b = b
  c = c
  d = d
  u = u
  v = v
  w = w
  None = None
  Session <- TwoSessions
  Owner <- OwnerOfTwo
  User = {u, v, w}
  Client = {}
  Control = {"compact"}
  Ask = {}
  Env = {"stop", "expiry", "shutdown", "exit"}
  MaxActive = 1
  MaxPerUser = 1
  QueueMax = 1
  MaxGen = 1
PROPERTIES
  FinalizationEnds
  StartEnds
  QueuedServed
