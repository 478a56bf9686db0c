SPECIFICATION MCSpec
CONSTANTS
  i2 = i2
  t1 = t1
  t2 = t2
  Inputs = {i2}
  Txns = {t1, t2}
  Pressers = {}
  Nobody = Nobody
  Size <- MCSize
  Paced <- MCPaced
  WriteChunk = 2
  WriteCap = 1
  HighWater = 3
  MaxGen = 1
  Clients = {c1}
  PortTask = PortTask
  NoHolder = NoHolder
  RingBytes = 3
  BroadcastCap = 2
  Sizes = {2}
  MaxRx = 3
  MaxMarkers = 1
INVARIANTS
  RxIsComplete
PROPERTIES
  SerialProgress
