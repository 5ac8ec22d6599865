SPECIFICATION Spec
CONSTANTS
  r1 = r1  r2 = r2  c1 = c1  g1 = g1
  ann = ann  doc = doc  asg = asg  grd = grd  pic = pic
  Run = {r1}
  Context = {c1, g1}
  Group = {g1}
  Resource = {"announcement", "file"}
  Item = {ann, pic}
  ContextOf <- MCContextOf
  ResourceOf <- MCResourceOf
  Name = {"x"}
  Content = {"a", "b"}
  Unknown = "?"
  Absent = Absent
  Starts <- MCUnlinked
  OpensMidRun = TRUE
  MaxEdits = 0
INVARIANT OnlyChangesAreNews
CHECK_DEADLOCK FALSE
