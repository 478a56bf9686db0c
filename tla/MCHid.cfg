SPECIFICATION MCSpec
CONSTANTS
  Usages = {"a", "b"}
  Modifiers = {"s"}
  Buttons = {"l"}
  KeySlots = 1
  Rates = {1, 2, 3}
  Candidates <- MCCandidates
  Commands <- MCCommands
  ReqCap = 2
  MaxReqs = 2
  MaxEvents = 1
  RigKeys = {"a", "b"}
  RigMods = {"s"}
  RigButtons = {"l"}
  RigSlots = 1
  RigCommands <- MCRigCommands
  RigMaxReqs = 2
  RigMaxEvents = 2
  RigStreams <- MCStreams
  LogicalMax = 32767
  AbsFull = 4096
  MaxRel = 20
  MaxStep = 7
  MaxTotal = 24
CHECK_DEADLOCK FALSE
INVARIANTS
  ChipIsKept RigIsKept InputIsFaithful
PROPERTIES
  HidProgress
