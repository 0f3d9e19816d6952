SPECIFICATION Spec
CONSTANTS
  a = a
  b = b
  c = c
  d = d
  u = u
  v = v
  w = w
  None = None
  Session <- TwoSessions
  Owner <- OwnerOfTwo
  User = {u, v, w}
  Client = {"tab"}
  Control = {"compact"}
  Ask = {"permission", "mcp_trust"}
  Env = {"stop", "expiry", "shutdown", "exit", "start", "protocol"}
  MaxActive = 1
  MaxPerUser = 1
  QueueMax = 1
  MaxGen = 1
SYMMETRY SymmetryOfTwo
INVARIANTS
  TurnCarriedOnce
  IdleCanExpire
