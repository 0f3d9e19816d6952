SPECIFICATION Spec
CONSTANTS
  a = a
  b = b
  c = c
  d = d
  u = u
  v = v
  w = w
  None = None
  Session <- FourSessions
  Owner <- OwnerOfFour
  User = {u, v, w}
  Client = {}
  Control = {}
  Ask = {}
  Env = {}
  MaxActive = 2
  MaxPerUser = 1
  QueueMax = 2
  MaxGen = 1
SYMMETRY SymmetryOfFour
INVARIANTS
  LimitsRespected
  WorkConserving
  AdmittedIsTheLoop
PROPERTIES
  ImplementsSandboxPool
  FifoAmongEligible
  IdleHandedOver
