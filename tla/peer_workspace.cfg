SPECIFICATION PeerWorkspaceSpec
CONSTANTS
  Nobody = Nobody
  r1 = r1
  r2 = r2
  Fragments <- SmallFragments
  Packets = 2
  High = 1
  Low = 0
  MaxRefusals = 1
  Rooms <- TwoRooms
  Batches <- ProjectBatches
  Creates <- ProjectCreates
  Uses <- ProjectUses
  Found <- Stores
  Identities = 2
  None = None
  a = a
  b = b
  c = c
  Replicas <- ThreeReplicas
  Profile <- TwoProfiles
  Messages <- SmallMessages
  Trace <- SmallTraces
  MaxLog = 2
  MaxHeld = 1
INVARIANTS
  StoresHoldTheirRoom
  AuthorsKeepTheirName
  NobodyMissesABatch
  TracesWereDone
PROPERTIES
  ChannelsDeliver
  CreatorsFirst
CHECK_DEADLOCK FALSE
