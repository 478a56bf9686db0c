CONSTANTS
  Segments = 3
  SegLines = 1
  MaxEpochs = 2
  MaxRx = 2
  MaxFaults = 0
  MaxRecords = 2
SPECIFICATION JournalSpec
INVARIANT
  CrashIsAGap
