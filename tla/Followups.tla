------------------------------ MODULE Followups ------------------------------
(***************************************************************************)
(* Answer follow-ups (src/src/followups/): a numbered question sheet opens *)
(* a follow-up, its answers close it, the end of term expires it, and on a *)
(* lesson day one reminder names what is overdue.  The stage runs in each  *)
(* sync, one statement at a time and without a transaction; the owner's    *)
(* commands (src/src/cli/followups.ts) take no lock and come between any   *)
(* two of its statements, and the run may die there.                       *)
(*                                                                         *)
(* A day is three instants: before 07:00, the hours from 07:00 to the      *)
(* lesson, and the lesson and after.                                       *)
(***************************************************************************)
EXTENDS Integers, FiniteSets

CONSTANTS
  Course,      \* the enabled courses
  Pair,        \* the pairing keys: course, category and number
  CourseOf,    \* Pair -> Course
  File,        \* the numbered files in Tutorials and Labs
  PairOf,      \* File -> Pair
  RoleOf,      \* File -> "question", "answer" or "partial"
  SlotDay,     \* Course -> the days a weekly slot falls on
  NoLesson,    \* the (course, day) of an exception
  TermEnd,     \* Course -> when Canvas says its term ends
  NoDate,      \* no date
  MaxTime,     \* bound on time
  MaxEdits,    \* bound on the owner's commands
  MaxDeaths    \* bound on the runs that die in the stage

ASSUME FollowupsAssumption ==
  /\ CourseOf \in [Pair -> Course] /\ PairOf \in [File -> Pair]
  /\ RoleOf \in [File -> {"question", "answer", "partial"}]
  /\ SlotDay \in [Course -> SUBSET Nat] /\ NoLesson \subseteq Course \X Nat
  /\ NoDate \notin Int /\ TermEnd \in [Course -> Nat \cup {NoDate}]
  /\ MaxTime \in Nat /\ MaxEdits \in Nat /\ MaxDeaths \in Nat

Time == 0 .. MaxTime
DayOf(t) == t \div 3
Days == {DayOf(t) : t \in Time}

(* When the reminder of a day is due, and when its lesson starts. *)
SendAt(d) == 3 * d + 1
LessonAt(d) == 3 * d + 2

LessonsOn(c, d) == d \in SlotDay[c] /\ <<c, d>> \notin NoLesson

(* Mutant: the lesson of the day itself counts, though it is not yet held. *)
LastLessonOrToday(c, t) == {d \in Days : LessonsOn(c, d) /\ d <= DayOf(t)}

(* lastLessonBefore, as the lesson days before an instant: the last of     *)
(* them is what the code returns.                                          *)
LessonDaysBefore(c, t) == {d \in Days : LessonsOn(c, d) /\ LessonAt(d) < t}

(* Some lesson came after the question was posted and before that morning. *)
Overdue(c, posted, t) == \E d \in LessonDaysBefore(c, t) : LessonAt(d) > posted

-----------------------------------------------------------------------------
State == {"none", "open", "closed", "dismissed", "expired"}
Reason == {"none", "answers", "answered_on_arrival", "dismissed", "term_end"}
Row == [state : State, posted : Time, reason : Reason]
NoRow == [state |-> "none", posted |-> 0, reason |-> "none"]

VARIABLES
  now,
  posted,      \* items: when each file was posted and seen, or NoDate
  row,         \* the followups table
  termEnd,     \* courses.term_end_at
  off,         \* the courses with followups_tracking = 0
  policy,      \* config followup_partial_answers: "close", "keep_open" or "unset"
  baselinedAt, \* config followups_baselined_at
  notices,     \* notifications: the summary, the reminders, and what each names
  stage,       \* where the run is
  plan,        \* what it has decided and not yet written, and (read by no
               \* code) the pairs it looked at
  edits, deaths

fileVars == <<posted, policy, off, edits>>
dbVars == <<row, termEnd, baselinedAt, notices>>
vars == <<now, fileVars, dbVars, stage, plan, deaths>>

NoPlan == [opens |-> {}, arrived |-> {}, closes |-> {}, expires |-> {},
           named |-> {}, silent |-> FALSE, looked |-> {}]
Summary == -1          \* the key of the first run's notice, among the days

Seen == {f \in File : posted[f] # NoDate}
Questions(p) == {f \in Seen : PairOf[f] = p /\ RoleOf[f] = "question"}

(* An answer to part of the set counts only under the ruling "close". *)
Answers(p) ==
  {f \in Seen : PairOf[f] = p /\ (RoleOf[f] = "answer"
                                  \/ (RoleOf[f] = "partial" /\ policy = "close"))}

(* Questions are ordered by when they were first seen. *)
FirstPosted(p) == CHOOSE t \in {posted[f] : f \in Questions(p)} :
                    \A f \in Questions(p) : t <= posted[f]

TermOver(p) == LET end == termEnd[CourseOf[p]] IN end # NoDate /\ now >= end

(* Mutant: UPDATE without AND state = 'open'. *)
UpdatedRegardless(p, state, reason) ==
  [row EXCEPT ![p] = [state |-> state, posted |-> @.posted, reason |-> reason]]

(* Mutant: UPDATE ... AND state = 'none', which no row has. *)
UpdatedNone(p, state, reason) == row

(* UPDATE ... WHERE id = ? AND state = 'open' *)
Updated(p, state, reason) ==
  IF row[p].state = "open"
    THEN [row EXCEPT ![p] = [state |-> state, posted |-> @.posted, reason |-> reason]]
    ELSE row

-----------------------------------------------------------------------------
(* The world: time passes, files are posted and detected, the owner rules, *)
(* dismisses, and switches a course's tracking off and on.                 *)
Tick == /\ now < MaxTime /\ stage = "idle"
        /\ now' = now + 1
        /\ UNCHANGED <<fileVars, dbVars, stage, plan, deaths>>

(* Detection precedes the stage in a run, so no file appears during it. *)
Post(f) == /\ stage = "idle" /\ f \notin Seen
           /\ posted' = [posted EXCEPT ![f] = now]
           /\ UNCHANGED <<now, policy, off, edits, dbVars, stage, plan, deaths>>

Rule == /\ policy = "unset"
        /\ \E p \in {"close", "keep_open"} : policy' = p
        /\ UNCHANGED <<now, posted, off, edits, dbVars, stage, plan, deaths>>

Dismiss(p) ==
  /\ edits < MaxEdits
  /\ row[p].state = "open"
  /\ row' = Updated(p, "dismissed", "dismissed")
  /\ edits' = edits + 1
  /\ UNCHANGED <<now, posted, policy, off, termEnd, baselinedAt, notices, stage, plan, deaths>>

SwitchTracking(c) ==
  /\ edits < MaxEdits
  /\ off' = IF c \in off THEN off \ {c} ELSE off \cup {c}
  /\ edits' = edits + 1
  /\ UNCHANGED <<now, posted, policy, dbVars, stage, plan, deaths>>

-----------------------------------------------------------------------------
(* runFollowups.  Without a ruling it does nothing.  The term ends come    *)
(* from Canvas, course by course in the code; a failure keeps what is      *)
(* stored.                                                                 *)
Begin ==
  /\ stage = "idle" /\ policy # "unset"
  /\ termEnd' \in {termEnd, TermEnd}
  /\ stage' = "plan"
  /\ UNCHANGED <<now, fileVars, row, baselinedAt, notices, plan, deaths>>

Tracked == {p \in Pair : CourseOf[p] \notin off}

(* planFollowups, from the files and rows as they are now. *)
Plan ==
  /\ stage = "plan"
  /\ LET fresh == {p \in Tracked : row[p].state = "none" /\ Questions(p) # {}}
         open == {p \in Tracked : row[p].state = "open"}
     IN plan' = [opens |-> {p \in fresh : Answers(p) = {} /\ ~TermOver(p)},
                 arrived |-> {p \in fresh : Answers(p) # {}},
                 closes |-> {p \in open : Answers(p) # {}},
                 expires |-> {p \in open : Answers(p) = {} /\ TermOver(p)},
                 named |-> {p \in fresh : Answers(p) = {} /\ ~TermOver(p)},
                 silent |-> baselinedAt = NoDate, looked |-> Tracked]
  /\ stage' = "write"
  /\ UNCHANGED <<now, fileVars, dbVars, deaths>>

(* INSERT ... ON CONFLICT DO NOTHING *)
Inserted(p, state, reason) ==
  IF row[p].state = "none"
    THEN [row EXCEPT ![p] = [state |-> state, posted |-> FirstPosted(p), reason |-> reason]]
    ELSE row

CloseReason == IF plan.silent THEN "answered_on_arrival" ELSE "answers"

(* The statements of the plan, one at a time: opens, the pairs answered on *)
(* arrival, closes, expiries.                                              *)
WriteOne ==
  /\ stage = "write"
  /\ \/ \E p \in plan.opens :
          /\ row' = Inserted(p, "open", "none")
          /\ plan' = [plan EXCEPT !.opens = @ \ {p}]
     \/ /\ plan.opens = {}
        /\ \E p \in plan.arrived :
             /\ row' = Inserted(p, "closed", "answered_on_arrival")
             /\ plan' = [plan EXCEPT !.arrived = @ \ {p}]
     \/ /\ plan.opens \cup plan.arrived = {}
        /\ \E p \in plan.closes :
             /\ row' = Updated(p, "closed", CloseReason)
             /\ plan' = [plan EXCEPT !.closes = @ \ {p}]
     \/ /\ plan.opens \cup plan.arrived \cup plan.closes = {}
        /\ \E p \in plan.expires :
             /\ row' = Updated(p, "expired", "term_end")
             /\ plan' = [plan EXCEPT !.expires = @ \ {p}]
  /\ UNCHANGED <<now, fileVars, termEnd, baselinedAt, notices, stage, deaths>>

Written == plan.opens \cup plan.arrived \cup plan.closes \cup plan.expires = {}

(* Mutant: one reminder for each run of the morning. *)
QueuedEachTime(day, names) == notices \cup {[day |-> day, names |-> names]}

(* enqueueNotice: a key is queued once, and keeps its first payload. *)
Queued(day, names) ==
  IF \E n \in notices : n.day = day THEN notices
  ELSE notices \cup {[day |-> day, names |-> names]}

(* The first run: its one summary, and then the date it was live from. *)
Summarise ==
  /\ stage = "write" /\ Written /\ plan.silent
  /\ notices' = Queued(Summary, plan.named)
  /\ stage' = "baselined"
  /\ UNCHANGED <<now, fileVars, row, termEnd, baselinedAt, plan, deaths>>

Baselined ==
  /\ stage = "baselined"
  /\ baselinedAt' = now
  /\ stage' = "idle" /\ plan' = NoPlan
  /\ UNCHANGED <<now, fileVars, row, termEnd, notices, deaths>>

(* planReminder: what is open, of the courses with a lesson today, and was *)
(* posted before a lesson already held.  Not before 07:00, and not on the  *)
(* day the follow-ups went live after it.                                  *)
Reminder ==
  IF now >= SendAt(DayOf(now)) /\ baselinedAt < SendAt(DayOf(now))
    THEN {p \in Tracked : /\ row[p].state = "open"
                          /\ LessonsOn(CourseOf[p], DayOf(now))
                          /\ Overdue(CourseOf[p], row[p].posted, SendAt(DayOf(now)))}
    ELSE {}

(* A later run: the open follow-ups are read, *)
ReadOpen ==
  /\ stage = "write" /\ Written /\ ~plan.silent
  /\ plan' = [plan EXCEPT !.named = Reminder]
  /\ stage' = "remind"
  /\ UNCHANGED <<now, fileVars, dbVars, deaths>>

(* and the reminder is queued, under the day's key. *)
Remind ==
  /\ stage = "remind"
  /\ notices' = IF plan.named = {} THEN notices ELSE Queued(DayOf(now), plan.named)
  /\ stage' = "idle" /\ plan' = NoPlan
  /\ UNCHANGED <<now, fileVars, row, termEnd, baselinedAt, deaths>>

(* The run is killed at any of its steps: what it has written stays. *)
Die ==
  /\ stage # "idle" /\ deaths < MaxDeaths
  /\ deaths' = deaths + 1
  /\ stage' = "idle" /\ plan' = NoPlan
  /\ UNCHANGED <<now, fileVars, dbVars>>

-----------------------------------------------------------------------------
Init ==
  /\ now = 0 /\ edits = 0 /\ deaths = 0
  /\ posted = [f \in File |-> NoDate]
  /\ row = [p \in Pair |-> NoRow]
  /\ termEnd = [c \in Course |-> NoDate]
  /\ off = {} /\ policy = "unset" /\ baselinedAt = NoDate
  /\ notices = {} /\ stage = "idle" /\ plan = NoPlan

World ==
  \/ Tick \/ Rule
  \/ \E f \in File : Post(f)
  \/ \E p \in Pair : Dismiss(p)
  \/ \E c \in Course : SwitchTracking(c)

Stage == Begin \/ Plan \/ WriteOne \/ Summarise \/ Baselined \/ ReadOpen \/ Remind

Next == World \/ Stage \/ Die

(* The schedule keeps starting runs, and one that was started goes on: it  *)
(* is killed at most MaxDeaths times.                                      *)
Fairness == WF_vars(Stage)

Spec == Init /\ [][Next]_vars
FairSpec == Spec /\ Fairness

-----------------------------------------------------------------------------
(* The tables and what a run has planned keep their types.  (stage.ts)     *)
FollowupsTypeOK ==
  /\ now \in Time /\ edits \in 0 .. MaxEdits /\ deaths \in 0 .. MaxDeaths
  /\ posted \in [File -> Time \cup {NoDate}]
  /\ row \in [Pair -> Row]
  /\ termEnd \in [Course -> Nat \cup {NoDate}]
  /\ off \subseteq Course
  /\ policy \in {"unset", "close", "keep_open"}
  /\ baselinedAt \in Time \cup {NoDate}
  /\ notices \subseteq [day : Days \cup {Summary}, names : SUBSET Pair]
  /\ stage \in {"idle", "plan", "write", "baselined", "remind"}
  /\ plan.opens \cup plan.arrived \cup plan.closes \cup plan.expires
       \cup plan.named \cup plan.looked \subseteq Pair
  /\ plan.silent \in BOOLEAN

(* What the owner dismissed, an answer closed or the term ended stays as   *)
(* it is: no run that planned before the dismissal writes over it, and no  *)
(* retry of a killed run opens it again.  (stage.ts:204, 211)              *)
EndedStaysEnded ==
  [][\A p \in Pair : row[p].state \in {"closed", "dismissed", "expired"}
                       => row'[p] = row[p]]_vars

(* A reminder names only what is still unanswered and was posted before a  *)
(* lesson that has been held: nobody is nagged about a sheet whose answers *)
(* are there, or whose lesson is still to come.  (timetable.ts:6)          *)
ReminderIsDue ==
  [][\A n \in notices' \ notices : n.day # Summary =>
       \A p \in n.names :
         /\ row[p].state \in {"open", "dismissed"}
         /\ p \in plan.looked => Answers(p) = {}
         /\ \E d \in Days : /\ LessonsOn(CourseOf[p], d)
                             /\ LessonAt(d) > row[p].posted /\ LessonAt(d) < SendAt(n.day)]_vars

(* One summary ever, and one reminder a day, whatever the number of runs   *)
(* and however many died after queueing it.  (stage.ts:212, 220)           *)
OneNoticeADay == \A n, m \in notices : n.day = m.day => n = m

(* Once the owner has ruled, a sheet whose answers are there does not stay *)
(* open, whatever dies: the plan is made anew from the tables.             *)
(* (plan.ts:10)                                                            *)
AnsweredIsClosed ==
  \A p \in Pair :
    (Questions(p) # {} /\ Answers(p) # {})
      ~> (row[p].state \in {"closed", "dismissed", "expired"}
            \/ policy = "unset" \/ CourseOf[p] \in off)

=============================================================================
