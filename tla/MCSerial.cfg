SPECIFICATION MCSpec
CONSTANTS
  i1 = i1
  i2 = i2
  t1 = t1
  t2 = t2
  p1 = p1
  Inputs = {i1, i2}
  Txns = {t1, t2}
  Pressers = {p1}
  Nobody = Nobody
  Size <- MCSize
  Paced <- MCPaced
  WriteChunk = 2
  WriteCap = 1
  HighWater = 3
  MaxGen = 2
  Segments = 3
  SegLines = 1
  MaxEpochs = 2
  MaxRx = 2
  MaxFaults = 1
  MaxRecords = 1
INVARIANTS
  AckMeansSent NoReplay ContiguousOnWire PortIsHandedOn JournalIsHonest
