SPECIFICATION Spec
CONSTANTS
  r1 = r1  r2 = r2  c1 = c1  g1 = g1
  ann = ann  doc = doc  asg = asg  grd = grd  pic = pic
  Run = {r1, r2}
  Context = {c1}
  Group = {}
  Resource = {"file", "grade"}
  Item = {doc, grd}
  ContextOf <- MCContextOf
  ResourceOf <- MCResourceOf
  Name = {"x"}
  Content = {"a", "b"}
  Unknown = "?"
  Absent = Absent
  Starts <- MCUnlinked
  OpensMidRun = FALSE
  MaxEdits = 2
INVARIANTS
  TypeOK
  NewsAlwaysQueued
PROPERTY
  StoredNeverRegresses
CHECK_DEADLOCK FALSE
SYMMETRY Symmetry
