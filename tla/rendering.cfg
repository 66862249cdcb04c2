SPECIFICATION FairSpec
CONSTANTS
  Structures <- MCStructures
  Resources <- MCResources
  Length <- MCLength
  FrameStep = 2
  Lookahead = 4
  Refill = 1
  Ticks = {3}
  Cursors = {1, 5}
  MaxCursor = 6
  MaxInbox = 1
  MaxPresses = 2
  MaxEdits = 2
  FrameUnits = 3
  Tolerance = 1
  MaxLate = 1
  Ranges = {"project", "v", "s", "gone"}
INVARIANTS MediaFollowsPlayback CanvasAgreesWithStage FramesAreThePreview SoundWhereItBelongs
PROPERTIES RenderEnds
CHECK_DEADLOCK FALSE
