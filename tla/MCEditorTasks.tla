---------------------------- MODULE MCEditorTasks ----------------------------
(* Repeated exports of one tab, exports in two tabs of one session and of two, a tab that leaves, *)
(* imports that run side by side, imports asked of the session by two tabs, and one during which  *)
(* the project is switched.                                                                      *)
EXTENDS EditorTasks

Scene(session, exports, ranges, batches, ways, switches, faults) ==
  [session |-> session, exports |-> exports, ranges |-> ranges, batches |-> batches, ways |-> ways, switches |-> switches,
   start |-> "p", faults |-> faults]

OneTab == [t \in {"a"} |-> "room"]
TwoTabs == [t \in {"a", "b"} |-> "room"]
TwoSessions == [t \in {"a", "b"} |-> IF t = "a" THEN "room" ELSE "own"]

Repeated == Scene(OneTab, 3, {"project"}, {}, {}, 0, {})
Failing == Scene(OneTab, 2, {"project", "clip"}, {}, {}, 0, {"fail"})
Shared == Scene(TwoTabs, 1, {"project"}, {}, {}, 0, {"fail"})
Apart == Scene(TwoSessions, 1, {"project"}, {}, {}, 0, {})
Leaving == Scene(TwoTabs, 1, {"project"}, {}, {}, 0, {"leave"})
SideBySide == Scene(OneTab, 0, {}, {<<"a", <<"f", "g">>>>, <<"a", <<"h">>>>}, {"direct"}, 0, {})
Asked == Scene(TwoTabs, 0, {}, {<<"a", <<"f">>>>, <<"b", <<"g">>>>}, {"requested"}, 0, {})
BothWays == Scene(OneTab, 0, {}, {<<"a", <<"f">>>>, <<"a", <<"g">>>>}, {"direct", "requested"}, 0, {"slow", "fail"})
Switching == Scene(TwoTabs, 0, {}, {<<"a", <<"f", "g">>>>, <<"b", <<"h">>>>}, {"direct"}, 1, {})
AllScenes == {Repeated, Failing, Shared, Apart, Leaving, SideBySide, Asked, BothWays, Switching}
=============================================================================
