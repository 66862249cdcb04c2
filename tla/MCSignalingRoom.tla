--------------------------- MODULE MCSignalingRoom ---------------------------
(* Instances of SignalingRoom for TLC. *)
EXTENDS SignalingRoom, TLC

CONSTANTS p1, p2, p3

(* One page that reconnects once, and two that stay or leave. *)
FourSockets == {<<p1, 1>>, <<p1, 2>>, <<p2, 1>>, <<p3, 1>>}

RoomSymmetry == Permutations(Rooms)
=============================================================================
