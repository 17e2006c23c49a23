SPECIFICATION FairSpec
CONSTANTS
  Begins <- OnGroundOrAir
  Routes <- OneAndHome
  Ops = {"upload", "start"}
  MaxControls = 2
  MaxFaults = 1
  Depth = 1
PROPERTY NeverAbandoned
PROPERTY LeavesDeadMode
