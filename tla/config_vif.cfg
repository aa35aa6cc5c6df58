SPECIFICATION Spec
CONSTANTS
  Vifs <- OneVif
  Queues <- OneQueue
  KeyIds <- OneKeyId
  Peers = {"p", "q"}
  Addrs <- NoAddrs
  McstAddrLimit = 2
  NoMode = NoMode
  UsedModes = {"STA_BSS", "AP"}
  McLists <- NoLists
  ConfChanges <- NoConfChanges
  BssChanges <- MCBssChanges
  MaxOps = 4
  Backlog = 0
  MaxDeaths = 1
  MaxFailures = 1
INVARIANTS
  InterfacesRestored
  KeysRestored
  SavedTracksIdeal
CHECK_DEADLOCK FALSE
