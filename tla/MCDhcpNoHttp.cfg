CONSTANTS
  Macs = {m1, m2}
  NoMac = NoMac
  HttpBound = FALSE
  SendMayFail = FALSE
SPECIFICATION DhcpSpec
INVARIANT
  LockedIsAnswered
