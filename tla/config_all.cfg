SPECIFICATION Spec
CONSTANTS
  Vifs <- TwoVifs
  Queues <- OneQueue
  KeyIds <- OneKeyId
  Peers = {"p"}
  Addrs <- TwoAddrs
  McstAddrLimit = 2
  NoMode = NoMode
  UsedModes = {"STA_BSS"}
  McLists <- TwoLists
  ConfChanges <- MCConfChanges
  BssChanges <- OneBssChange
  MaxOps = 4
  Backlog = 0
  MaxDeaths = 1
  MaxFailures = 1
INVARIANTS
  GlobalsRestored
  MulticastRestored
CHECK_DEADLOCK FALSE
