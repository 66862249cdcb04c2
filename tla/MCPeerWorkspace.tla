--------------------------- MODULE MCPeerWorkspace ---------------------------
(* A small instance for TLC. *)
EXTENDS PeerWorkspace

CONSTANTS r1, r2, a, b, c

(* Binaries in 2, 3 and 1 frames with a text between them. *)
SmallFragments == <<2, 0, 3, 1>>

TwoRooms == {r1, r2}

(* A project, a track, a clip, and a second batch that creates the track.   *)
ProjectBatches ==
  [r \in TwoRooms |-> IF r = r1 THEN {"project", "track", "clip", "again"} ELSE {"project"}]
ProjectCreates == [project |-> {1}, track |-> {2}, clip |-> {3}, again |-> {2}]
ProjectUses == [project |-> {}, track |-> {1}, clip |-> {1, 2}, again |-> {1}]

Stores == {"none", "legacy", "newer", "other", r2}

(* Two replicas of one profile and one of another. *)
ThreeReplicas == {a, b, c}
TwoProfiles == [p \in ThreeReplicas |-> IF p = c THEN 2 ELSE 1]

TraceFrame(id, parent, by) == [id |-> id, parent |-> parent, by |-> by]
TraceOf(frames, produced) == [frames |-> frames, produced |-> produced, contents |-> {"op", "node"}]

(* Two sound traces, and one for each reason to refuse a batch. *)
SmallTraces ==
  [plain |-> None,
   tree |-> TraceOf(<<TraceFrame(2, 1, None), TraceFrame(1, None, None), TraceFrame(3, 1, 2)>>, {<<2, "op">>, <<3, "node">>}),
   twice |-> TraceOf(<<TraceFrame(1, None, None), TraceFrame(1, None, None)>>, {}),
   orphan |-> TraceOf(<<TraceFrame(1, 2, None)>>, {}),
   itself |-> TraceOf(<<TraceFrame(1, 1, None)>>, {}),
   cycle |-> TraceOf(<<TraceFrame(1, None, None), TraceFrame(2, 3, None), TraceFrame(3, 2, None)>>, {}),
   nobody |-> TraceOf(<<TraceFrame(1, None, 2)>>, {}),
   elsewhere |-> TraceOf(<<TraceFrame(1, None, None)>>, {<<2, "op">>}),
   nothing |-> TraceOf(<<TraceFrame(1, None, None)>>, {<<1, "lost">>})]

Message(from, profile, batches) == [from |-> from, profile |-> profile, batches |-> batches]

SmallMessages ==
  {Message(a, 1, <<"plain">>), Message(a, None, <<"tree", "plain">>), Message(b, None, <<"plain">>),
   Message(c, 2, <<"tree">>), Message(b, 2, <<"plain">>)}
  \cup {Message(b, 1, <<x, "tree">>) : x \in DOMAIN SmallTraces \ {"plain", "tree"}}
=============================================================================
