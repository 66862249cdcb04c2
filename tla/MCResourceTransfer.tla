------------------------- MODULE MCResourceTransfer -------------------------
(* Small rooms: a file of two chunks mirrored from its owner over a channel that may break; a
   chunk handed on from its owner to another client; a viewer whose channel breaks; a viewer
   that seeks; and two files of which only one fits into the cache, or one that is deleted. *)
EXTENDS ResourceTransfer, TLC

Scene == [guests |-> {"c1"}, imports |-> <<"v">>, owner |-> "v" :> "c1", size |-> "v" :> 2,
          deletable |-> {}, seekers |-> {}, cap |-> 9, breaks |-> 0]
Mirrored == [Scene EXCEPT !.breaks = 1]
HandedOn == [Scene EXCEPT !.guests = {"c1", "c2"}, !.size = "v" :> 1]
Seeking == [Scene EXCEPT !.owner = "v" :> "s", !.size = "v" :> 2, !.seekers = {"c1"}]
Crowded == [Scene EXCEPT !.imports = <<"v", "w">>, !.owner = "v" :> "s" @@ "w" :> "s",
                         !.size = "v" :> 1 @@ "w" :> 1, !.cap = 1]
Deleted == [Scene EXCEPT !.size = "v" :> 1, !.deletable = {"v"}]
Rejoined == [Scene EXCEPT !.owner = "v" :> "s", !.size = "v" :> 1, !.breaks = 1]
AllScenes == {Rejoined, Mirrored, HandedOn, Seeking, Crowded, Deleted}
=============================================================================
