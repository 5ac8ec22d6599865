------------------------------ MODULE MCSyncRun ------------------------------
(* The items of one course, and one file of a group: an announcement, a    *)
(* file, an assignment and a grade.  They are all there from the start,    *)
(* the file visible and in no module, visible and in one by its own name   *)
(* or by another title, or hidden and in one, the grade held back.         *)
EXTENDS SyncRun, TLC

CONSTANTS r1, r2, c1, g1, ann, doc, asg, grd, pic

MCContextOf == [i \in Item |-> IF i = pic THEN g1 ELSE c1]
MCResourceOf == [i \in Item |-> CASE i = ann -> "announcement" [] i = asg -> "assignment"
                             [] i = grd -> "grade"
                             [] OTHER -> "file"]

Start(shown, link, by) ==
  [canvas |-> [i \in Item |-> [
     name |-> IF MCResourceOf[i] = "file" THEN "x" ELSE Unknown,
     content |-> "a", shown |-> i # grd /\ (i # doc \/ shown), rev |-> 0]],
   linked |-> [i \in Item |-> IF i = doc THEN link ELSE "no"],
   title |-> [i \in Item |-> by]]

MCUnlinked == {Start(TRUE, "no", "x")}
MCLinked == {Start(TRUE, "published", "x"), Start(TRUE, "published", "y"), Start(FALSE, "published", "x")}

Symmetry == Permutations(Run)

=============================================================================
