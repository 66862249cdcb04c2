------------------------------ MODULE MCRoomPeers ------------------------------
(* Instances of RoomPeers for TLC. *)
EXTENDS RoomPeers

CONSTANTS p1, p2, p3

(* Two pages, one of which may connect again, and three that connect once. *)
ThreeSockets == {<<p1, 1>>, <<p1, 2>>, <<p2, 1>>}
OneSocketEach == {<<p1, 1>>, <<p2, 1>>, <<p3, 1>>}
=============================================================================
