SPECIFICATION PageViewSpec
CONSTANTS
  Tabs = {"a", "b"}
  Workers = {"here", "there"}
  Clips = {"clip", "other"}
  Texts = {"text"}
  Effects = {"effect"}
  Sessions <- SessionIds
  Room = "room"
  Local = "minicut-local"
  Connections = {1, 2, 3}
  Scenes <- AllScenes
  ViewRoots = {"r", "s"}
  ViewClips = {"c", "d"}
  ViewTexts = {"t"}
  Dictionaries <- ViewDictionaries
  Updates <- ViewUpdates
  MaxMessages = 6
INVARIANT ShapesInForce
INVARIANT Settles
INVARIANT ScreenShowsTheStream
CHECK_DEADLOCK FALSE
