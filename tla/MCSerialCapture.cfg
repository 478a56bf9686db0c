SPECIFICATION MCSpec
CONSTANTS
  Bytes = {"a", "n"}
  Newline = "n"
  Pattern <- UntilLine
  WaitRx = 2
  WaitGens = 2
  MaxMishaps = 2
  MaxBytes = 2
  MaxOutput = 13
  BaseLen = 2
  RecordLen = 2
  LineLen = 1
  NoteLen = 2
  FinishReserve = 4
  DiagnosticBudget = 4
  LogBytes = {"cr", "nl", "lead", "cont"}
  MaxPending = 2
  MaxSegments = 3
  SegLines = 1
  ChunkLens = {1}
  MaxFed = 4
  MaxFaults = 1
  MaxParts = 4
  FirstDay = 10956
  FirstDate <- LastOf1999
  LastDay = 48000
INVARIANTS
  WaitIsHonest 
PROPERTIES
  CaptureProgress
