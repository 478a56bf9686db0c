CHECK_DEADLOCK FALSE
SPECIFICATION MCSpec
CONSTANTS
  k1 = k1
  k2 = k2
  n1 = n1
  n2 = n2
  Tops = {k1, k2}
  Parent <- MCParent
  Boards = {"A", "B"}
  Benches <- MCBenches
  LockWait = 2
  ConfirmBy = 2
  MaxU = 15
  AgentLines <- MCAgentLines
  MaxSent = 2
  Limit = 2
  Bytes <- MCBytes
  Exams <- MCExams
  Secs = 2
  Slowest = 8
  Targets = {"A", "B"}
  Ifaces = {"e0", "e1", "e2"}
  PidLimit = 3
  LinkSites <- MCLinkSites
  MaxStarts = 3
  MaxLog = 2
  AmtCases <- MCAmtCases
  Powers <- MCPowers
  Confirm = 4
  Call = 3
  MinCall = 1
  PollEvery = 1
  AmtFaults = 3
INVARIANTS
   DevicesAreDrivenSafely   

  
