SPECIFICATION Spec
CONSTANTS
  Tabs = {"a", "b"}
  Sessions = {"room", "own"}
  Projects = {"p", "q"}
  Files = {"f", "g", "h"}
  MaxExports = 3
  Scenes <- AllScenes
INVARIANT TableInStep
INVARIANT ExportsEnd
INVARIANT ImportsEnd
CHECK_DEADLOCK FALSE
