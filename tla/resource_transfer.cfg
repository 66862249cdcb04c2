SPECIFICATION Spec
CONSTANTS
  Server = "s"
  Clients = {"c1", "c2"}
  Nobody = "nobody"
  Scenes <- AllScenes
  HeadChunks = 1
  TailChunks = 1
  MaxErrorRetries = 3
  Ids = 6
  Lingers = FALSE
INVARIANT TransfersNeverStall
PROPERTY BytesAreTheFile
CHECK_DEADLOCK FALSE
