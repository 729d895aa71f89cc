SPECIFICATION FairSpec
CONSTANTS
  Halves = {"codex local", "claude local", "claude remote", "acp"}
  MaxRuns = 2
  MaxInputs = 3
  MaxLines = 0
  ChannelSize = 1
INVARIANTS QuietMeansIdle
PROPERTIES ReportsSpec ExitReported StrayProcessEnds ScannerStops PermissionAnswered StopEndsAcp
CHECK_DEADLOCK FALSE
