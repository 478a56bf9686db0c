CHECK_DEADLOCK FALSE
SPECIFICATION MCSpec
CONSTANTS
  StableFrames = 2
  MaxStalls = 2
  MaxErrors = 2
  FrameTimeout = 5
  Grace = 12
  Poll = 4
  Threshold = 16
  MaxModes = 2
  Sources <- MCSources
  c1 = c1
  c2 = c2
  Clients = {c1, c2}
  MaxFrames = 2
  MaxRequests = 1
  Permits = 1
  Requests <- MCRequests
  Shots <- MCShots
  Screens <- MCScreens
  Tile = 2
  Asks <- MCAsks
  MaxShown = 2
  MaxAsks = 2
  Syms <- MCSyms
  Typists = {s1}
  Pointers = {s2}
  Spots = {"p", "q"}
  QueueCap = 3
  MaxMoves = 2
  MaxKeys = 1
  MaxOutages = 1
  Watchers = {w1, w2, w3}
  MaxClients = 1
  Devices <- MCDevices
  Names <- MCNames
  Ladder <- MCLadder
  Benches <- MCBenches
  Buffers = 4
  Keepalive = 1
  DeadAfter = 3
  AnswersWithin = 1
  MaxScenes = 2
  TileW = 3
  TileH = 2
  Colours = {1, 2, 3, 4}
  Full = 3
  PaletteMax = 3
  PackedMax = 2
  Strides = {2, 3, 4, 5, 6}
INVARIANTS
   RequestsAreKept ViewersAreKept SourceIsTrue SentAcrossWhole
PROPERTIES
  VideoProgress
