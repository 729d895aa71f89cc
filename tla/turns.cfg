SPECIFICATION Spec
CONSTANTS
  Halves = {"codex remote", "codex transcript", "claude transcript"}
  MaxRuns = 2
  MaxInputs = 3
  MaxLines = 4
  ChannelSize = 1
INVARIANTS NoOrphanCall BusyWhileTurn RecordedOnce TranscriptComplete ActivityFollows
PROPERTIES NoLostStart
CHECK_DEADLOCK FALSE
VIEW View
