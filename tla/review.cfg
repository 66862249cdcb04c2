SPECIFICATION Spec
CONSTANTS
  Projects = {"p", "q"}
  Clips = {"a", "b"}
  Resources = {"r"}
  Conflicts = {"c", "d"}
  MaxTracks = 6
  MaxTime = 2
  Scenes <- AllScenes
INVARIANT ItemsInStep
INVARIANT OrderOffersApply
PROPERTY ParkClosesGroup
CHECK_DEADLOCK FALSE
