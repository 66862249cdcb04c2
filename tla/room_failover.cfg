SPECIFICATION FairPeersSpec
CONSTANTS
  p1 = p1
  p2 = p2
  p3 = p3
  Peers = {p1, p2, p3}
  Sockets <- OneSocketEach
  Rooms = {r1}
  NoPeer = NoPeer
  NoSocket = NoSocket
  NoRoom = NoRoom
  NoAttachment = NoAttachment
  AllowLinger = FALSE
  MaxTime = 1
  MaxRetries = 1
  RoomForgets = FALSE
  Faults = {"page"}
  MaxFaults = 2
PROPERTIES
  FailoverCompletes
CHECK_DEADLOCK FALSE
