SPECIFICATION FairSpec
CONSTANTS
  Kind = {"context_status", "compact"}
  Env = {"repeat", "garbage", "exit"}
  MaxTurn = 2
  MaxAsk = 2
  MaxControl = 2
  MaxWork = 3
  MaxUp = 2
  MaxClock = 3
  Budget = 2
INVARIANTS
  TypeOK
  RequestsAnswerable
  ControlGetsItsReply
  StatusShown
PROPERTIES
  TurnEndsByItsOwnFinish
  StartGivesItsTime
  WaitsEnd
CHECK_DEADLOCK FALSE
