SPECIFICATION ArchiveSpec
CONSTANTS
  File = {"f1", "f2", "f3"}
  Folder = {"A"}
  Unmapped = {}
  Unmade = {}
  Variants = 1
  MaxMishaps = 0
  MaxEdits = 0
  MaxMoves = 0
  Base = {"x"}
  BaseOf <- MCBaseOf
  DefaultOf <- MCDefaultOf
  Linked = {}
  MaxFileSize = 1
  MaxVersion = 1
  MaxFiles = 3
  Limit = 3
  MaxAttempts = 2
  MaxAlternates = 2
  Casts <- MCRivals
  StoreMishaps = 1
  StoreEdits = 1
  Depth = 1
  Sizes = {1}
  Chunk = 1
  ClientAttempts = 1
  MaxFailures = 1
  MaxSessions = 1
  Process = {"sync"}
  Life = 1
  MaxDay = 1
  MaxGrants = 1
  Id = {1, 2, 3, 4, 5, 6}
  Owners <- MCOwners
  Paths <- MCPaths
  Safe <- MCSafe
  Category = {"cat"}
INVARIANT CompleteAtRest
CHECK_DEADLOCK FALSE
