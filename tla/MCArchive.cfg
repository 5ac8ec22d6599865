SPECIFICATION ArchiveSpec
CONSTANTS
  File = {"f1", "f2"}
  Folder = {"A", "B", "X"}
  Unmapped = {"X"}
  Unmade = {"B"}
  Variants = 2
  MaxMishaps = 1
  MaxEdits = 1
  MaxMoves = 1
  Base = {"x"}
  BaseOf <- MCBaseOf
  DefaultOf <- MCDefaultOf
  Linked = {"f2"}
  MaxFileSize = 2
  MaxVersion = 3
  MaxFiles = 1
  Limit = 2
  MaxAttempts = 2
  MaxAlternates = 1
  Casts <- MCCasts
  StoreMishaps = 1
  StoreEdits = 1
  Depth = 2
  Sizes = {0, 1, 3}
  Chunk = 2
  ClientAttempts = 2
  MaxFailures = 2
  MaxSessions = 2
  Process = {"sync", "login"}
  Life = 2
  MaxDay = 3
  MaxGrants = 2
  Id = {1, 2, 3, 4, 5, 6, 7, 8}
  Owners <- MCOwners
  Paths <- MCPaths
  Safe <- MCSafe
  Category = {"cat"}
INVARIANTS
  ArchiveRunTypeOK OneCopyEach CompleteIsThere NoSecondCopy ReportsWhatItMade KeptAliveByUse
PROPERTIES
  Kept NewIsMirrored EverySettles AlarmsClear CallEnds Confined
CHECK_DEADLOCK FALSE
