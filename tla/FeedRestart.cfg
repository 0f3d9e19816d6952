SPECIFICATION Spec
CONSTANTS
  Turn = {1, 2}
  StoreLimit = 3
  TextLimit = 1
  Client = {"browser"}
  HistoryLimit = 3
  QueueLimit = 3
  WireMax = 1
  MaxEvents = 9
  Followed = {}
  Env = {"disconnect", "restart"}
INVARIANTS
  EventsSurviveRestart
