SPECIFICATION FairSpec
CONSTANTS
  Halves = {"claude remote"}
  MaxRuns = 1
  MaxInputs = 3
  MaxLines = 0
  ChannelSize = 1
PROPERTIES StopEndsClaude
CHECK_DEADLOCK FALSE
