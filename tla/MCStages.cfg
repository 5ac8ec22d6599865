SPECIFICATION StagesSpec
CONSTANTS
  co = co  p1 = p1  q1 = q1  h1 = h1
  Course = {co}
  Pair = {p1}
  File = {q1, h1}
  CourseOf <- MCCourseOf
  PairOf <- MCPairOf
  RoleOf <- MCRoleOf
  SlotDay <- MCSlotDay
  NoLesson = {}
  TermEnd <- MCTermEnd
  NoDate = NoDate
  MaxTime = 4
  MaxEdits = 1
  MaxDeaths = 1
  Context = {"g1"}
  Group = {"g1"}
  TokenDays = {30, 10, 5}
  DashDays <- MCDashDays
  Drives = {"ok", "graph_auth"}
  Spaces = {"low", "80", "full"}
  Faults = {"gone"}
  Unrecorded = Unrecorded
  Configured = {TRUE}
  CriticalEvery = 1
  WarnEvery = 1
  StaleAfter = 0
  AlertsTime = 1
  AlertsChanges = 2
  Enabled = 1
  Calls = 2
  Pages = {1, 3}
  MaxPages = 2
  MaxAttempts = 2
  Timeout = 8
  Latency = {0}
  RetryAfter = {15}
  MaxWait = 15
  MaxBackoff = 2
  Readings = {0, 700}
  CourseTime = 24
  WorkTime = 45
  DaySlots = {1, 2, 4}
  NightSlots = {3}
  ReportAt = 2
  Courses = {"c1"}
  Groups = {"g1"}
  Codes = {"M", "N"}
  ParentOf <- MCParentOf
  Suggested <- MCSuggested
  Current <- MCCurrent
  Runner = {1, 2}
  Migrations = 2
  FileEdits = 1
  Publisher = {1, 2}
  Tables = 2
  MaxCommits = 2
INVARIANTS
  StagesTypeOK OneNoticeADay OneRungPerLadder ResolvedWasSeenFixed RetiredInSilence
  WholeOrNothing KeepsToItsDeadline FiledAsReviewed AppliedOnce NoFresherThanItSays
PROPERTIES
  EndedStaysEnded ReminderIsDue AnsweredIsClosed GapIsReal
CHECK_DEADLOCK FALSE
