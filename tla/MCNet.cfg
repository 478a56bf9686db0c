CHECK_DEADLOCK FALSE
SPECIFICATION MCSpec
CONSTANTS
  Blocks = 6
  BlockMod = 4
  MaxRetries = 2
  Options = TRUE
  Lifetime = 2
  Peers = {p1, p2}
  Tasks = {t1, t2, t3, t4}
  MaxTransfers = 2
  TftpMacs = {m1}
  NoTftpMac = NoMac
  NoTask = NoTask
  Macs = {m1, m2}
  NoMac = NoMac
  HttpBound = TRUE
  SendMayFail = TRUE
  BootPeers = {p1}
  BootTasks = {t1, t2, t3}
  NoBootTask = NoTask
  BootTransfers = 2
  c1 = c1
  c2 = c2
  Clients = {c1, c2}
  MaxConnections = 1
  MaxHead = 2
  Window = 1
  Scripts <- MCScripts
  Tree <- MCTree
  HttpRoot <- MCRoot
  Sizes = {0, 1, 2}
  HttpFaults = 1
  FileChanges = 1
  Hosts <- MCHosts
  StartFaults = 2
  Datagrams <- MCDatagrams
  Writes = {"all", "short", "failed"}
INVARIANTS
  TransferIsFaithful SlotsAndTidsHold  SentIsHonest RawLinkIsSafe
PROPERTIES
  DeliverySpec LockIsKept 
