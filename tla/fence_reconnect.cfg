CONSTANTS
  yard = yard
  field = field
  big = big
  NoFence = NoFence
  Nothing = Nothing
  Fences = {field, big}
  Big = {big}
  Size <- MCSize
  Tries = 2
  Pushers = {"watch"}
  Faults = {"link"}
  MaxFaults = 1
  MaxSets = 1
SPECIFICATION FairSpec
PROPERTY KeptInStep
