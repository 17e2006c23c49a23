SPECIFICATION Spec
CONSTANTS
  Begins <- Anywhere
  Routes <- TwoAndHome
  Ops = {"upload", "start", "resume", "pause", "stop", "clear", "goto", "hold", "rtl"}
  MaxControls = 3
  MaxFaults = 0
  Depth = 2
INVARIANT TypeOK
INVARIANT OnePhase
INVARIANT NothingSkipped
INVARIANT HoldIsObeyed
PROPERTY FinishedMeansFlown
