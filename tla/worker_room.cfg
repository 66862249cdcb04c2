SPECIFICATION WorkerSpec
CONSTANTS
  TabIds = {t1, t2}
  Remotes = {r1}
  Kinds = {"crdt"}
  NoLease = NoLease
  NoPage = NoPage
  MaxGeneration = 2
  MaxPackets = 2
  MaxPorts = 2
  MaxUpsets = 2
  Outcomes = {"READY"}
  Retried = {r1}
  StoredOps = 1
  MaxOps = 2
SYMMETRY TabSymmetry
INVARIANTS
  PacketsInOrder
  AttachedTabIsLeased
  RoomKeepsTransport
  LogReachesPeers
  ChannelsInOrder
CHECK_DEADLOCK FALSE
