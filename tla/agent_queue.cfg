CONSTANTS
  MaxCommands = 4
SPECIFICATION FairSpec
INVARIANT TypeOK
INVARIANT InOrder
INVARIANT NoStall
INVARIANT TimerOfInFlight
INVARIANT ToldOnce
INVARIANT ToldOfItself
PROPERTY QueueSpec
PROPERTY EveryCommandCloses
CHECK_DEADLOCK FALSE
