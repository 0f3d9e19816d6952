SPECIFICATION FairSpec
CONSTANTS
  Turn = {1, 2}
  StoreLimit = 3
  TextLimit = 1
  Client = {"browser"}
  HistoryLimit = 3
  QueueLimit = 3
  WireMax = 1
  MaxEvents = 9
  Followed = {2, 4, 6, 8}
  Env = {"disconnect", "delete", "restart"}
INVARIANTS
  TypeOK
  EventsReachPage
  ConsoleReachesPage
  LiveIsCurrent
  TextKept
PROPERTIES
  StableEventSeen
