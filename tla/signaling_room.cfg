SPECIFICATION Spec
CONSTANTS
  p1 = p1
  p2 = p2
  p3 = p3
  Peers = {p1, p2, p3}
  Sockets <- FourSockets
  Rooms = {r1, r2}
  NoPeer = NoPeer
  NoSocket = NoSocket
  NoRoom = NoRoom
  NoAttachment = NoAttachment
  AllowLinger = FALSE
  MaxTime = 3
SYMMETRY RoomSymmetry
INVARIANTS
  SeniorMemberLeads
  AttachmentsFresh
  AnnouncementsCurrent
PROPERTIES
  LeadershipIsFenced
CHECK_DEADLOCK FALSE
