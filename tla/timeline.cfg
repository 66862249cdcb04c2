SPECIFICATION Spec
CONSTANTS
  Tabs = {"a", "b"}
  Files <- AllFiles
  Moments <- SomeMoments
  Deltas <- SomeDeltas
  MinDuration = 4
  MaxDuration = 12
  TextDuration = 6
  Looks = {"plain", "bold"}
  Scenes <- AllScenes
INVARIANT GraphMirrors
PROPERTY SplitKeepsMedia
PROPERTY AppendInStep
CHECK_DEADLOCK FALSE
