SPECIFICATION Spec
CONSTANTS
  a = a
  b = b
  c = c
  d = d
  u = u
  v = v
  w = w
  None = None
  Session <- TwoSessions
  Owner <- OwnerOfTwo
  User = {u, v, w}
  Client = {}
  Control = {}
  Ask = {}
  Env = {}
  MaxActive = 1
  MaxPerUser = 1
  QueueMax = 1
  MaxGen = 1
PROPERTIES
  ActivateJoinsStart
