------------------------------- MODULE MCStages -------------------------------
(* Each part of Stages on a small instance of its own. *)
EXTENDS Stages

CONSTANTS co, p1, q1, h1

(* One set of questions, and an answer to part of it; a lesson each day.   *)
MCCourseOf == [p \in Pair |-> co]
MCPairOf == [f \in File |-> p1]
MCRoleOf == [f \in File |-> IF f = q1 THEN "question" ELSE "partial"]
MCSlotDay == [c \in Course |-> {0, 1}]
MCTermEnd == [c \in Course |-> 4]

MCDashDays == {30, Unrecorded}

(* One course, one group of it, and the course's code in its name. *)
MCParentOf(g) == "c1"
MCSuggested(c) == "M"
MCCurrent(c) == TRUE

=============================================================================
