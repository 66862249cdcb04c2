SPECIFICATION PeersSpec
CONSTANTS
  p1 = p1
  p2 = p2
  p3 = p3
  Peers = {p1, p2}
  Sockets <- ThreeSockets
  Rooms = {r1}
  NoPeer = NoPeer
  NoSocket = NoSocket
  NoRoom = NoRoom
  NoAttachment = NoAttachment
  AllowLinger = FALSE
  MaxTime = 1
  MaxRetries = 1
  RoomForgets = FALSE
  Faults = {"socket", "session", "page", "room"}
  MaxFaults = 6
INVARIANTS
  RolesFollowRoom
  OneServerPerEpoch
PROPERTIES
  SignalsStayInTheirEpoch
CHECK_DEADLOCK FALSE
