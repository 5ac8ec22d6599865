SPECIFICATION Spec
CONSTANTS
  r1 = r1  r2 = r2  c1 = c1  g1 = g1
  ann = ann  doc = doc  asg = asg  grd = grd  pic = pic
  Run = {r1, r2}
  Context = {c1}
  Group = {}
  Resource = {"announcement", "file"}
  Item = {ann, doc}
  ContextOf <- MCContextOf
  ResourceOf <- MCResourceOf
  Name = {"x", "y"}
  Content = {"a", "b"}
  Unknown = "?"
  Absent = Absent
  Starts <- MCLinked
  OpensMidRun = FALSE
  MaxEdits = 2
INVARIANT SourceSwitchIsSilent
CHECK_DEADLOCK FALSE
SYMMETRY Symmetry
