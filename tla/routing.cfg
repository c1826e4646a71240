SPECIFICATION Spec
CONSTANTS
  Words = {"one", "two", "v1"}
  Files <- SoundFiles
  Environments <- Exported
  Paths <- MCPaths
INVARIANTS
  RoutedByName
  PathKept
CHECK_DEADLOCK FALSE
