CONSTANTS
  yard = yard
  field = field
  big = big
  NoFence = NoFence
  Nothing = Nothing
  Fences = {field, big}
  Big = {big}
  Size <- MCSize
  Tries = 2
  Pushers = {"watch"}
  Faults = {"loss", "late", "px4", "api", "loader", "home", "link", "socket"}
  MaxFaults = 1
  MaxSets = 1
SPECIFICATION FairSpec
INVARIANT ReportedIsLoaded
PROPERTY Settles
CHECK_DEADLOCK FALSE
