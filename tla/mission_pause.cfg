SPECIFICATION Spec
CONSTANTS
  Begins <- Ground
  Routes <- OneAndHome
  Ops = {"upload", "start", "pause"}
  MaxControls = 3
  MaxFaults = 0
  Depth = 1
INVARIANT PauseHolds
