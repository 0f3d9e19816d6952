SPECIFICATION FairSpec
CONSTANTS
  Client = {"tab1", "tab2"}
  MaxGen = 2
INVARIANTS
  TypeOK
  GenerationOwnsServices
  RunningIsWatched
  UsersHoldLeases
  LeasesHaveClients
  DeletedLeavesNothing
PROPERTIES
  AttachedIsServed
CHECK_DEADLOCK FALSE
