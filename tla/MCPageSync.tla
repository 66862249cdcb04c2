----------------------------- MODULE MCPageSync -----------------------------
(* One tab that is handed from worker to worker, one that comes back to its own, one that changes its *)
(* session, one whose worker edits, and two tabs of one worker.                                      *)
EXTENDS PageView

SessionIds == {"room", "room:peer:x", "minicut-local"}
Scene(tabs, workers, connections, faults, filled, edits, switches) ==
  [tabs |-> tabs, workers |-> workers, connections |-> connections, faults |-> faults, filled |-> filled,
   edits |-> edits, switches |-> switches, session |-> "room", clips |-> {"clip"}]
TwoClips(s) == [s EXCEPT !.clips = Clips]
OwnSession(s) == [s EXCEPT !.session = "room:peer:x"]

Moving == Scene({"a"}, {"here", "there"}, 2, {"failover", "storage"}, {"clips", "text"}, 0, 0)
Returning == OwnSession(Scene({"a"}, {"here"}, 2, {"failover"}, {"selectedClip", "effects"}, 0, 1))
Switching == Scene({"a"}, {"here"}, 1, {"leave"}, {"selectedClip", "effects"}, 1, 1)
Editing == Scene({"a"}, {"here"}, 1, {}, {}, 3, 0)
Choosing == TwoClips(Scene({"a"}, {"here"}, 1, {}, {"selectedClip", "clips"}, 1, 0))
Together == Scene({"a", "b"}, {"here"}, 2, {"leave", "storage"}, {"clips"}, 0, 0)
AllScenes == {Moving, Returning, Switching, Editing, Choosing, Together}

(* The screen: two dictionaries that number words differently, each without one of the words. *)
ViewDictionaries == [d \in {"one", "two"} |->
  IF d = "one" THEN [w \in {"start", "text", "clips"} |-> CASE w = "start" -> "#1" [] w = "text" -> "#2" [] w = "clips" -> "#3"]
  ELSE [w \in {"start", "selected", "clips"} |-> CASE w = "start" -> "#3" [] w = "selected" -> "#2" [] w = "clips" -> "#1"]]
ViewChanges ==
  ({"r"} \X {"selected"} \X {<<>>, <<"c">>, <<"d">>}) \cup ({"r", "s"} \X {"clips"} \X {<<>>, <<"c", "d">>})
   \cup ({"c", "d"} \X {"text"} \X {<<>>, <<"t">>}) \cup ({"c"} \X {"start"} \X {<<"0">>, <<"1">>}) \cup ({"d", "t"} \X {"start"} \X {<<"0">>})
ViewUpdates ==
  {<<change>> : change \in ViewChanges}
   \cup {<<<<"r", "clips", <<"c", "d">>>>, <<"c", "start", <<"0">>>>, <<"d", "start", <<"0">>>>>>,
         <<<<"c", "text", <<"t">>>>, <<"t", "start", <<"0">>>>>>, <<<<"c", "text", <<>>>>, <<"d", "text", <<"t">>>>>>,
         <<<<"r", "clips", <<>>>>, <<"r", "selected", <<>>>>>>}
=============================================================================
