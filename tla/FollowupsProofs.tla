--------------------------- MODULE FollowupsProofs ---------------------------
(***************************************************************************)
(* Proofs about Followups.tla.  What an answer or the owner ended stays    *)
(* ended, no day has two notices, and a reminder names only what is due:   *)
(* for any courses, pairs, files and timetable.                            *)
(*                                                                         *)
(* The last is not inductive.  FollowupsInv says what a run's plan still   *)
(* knows of the tables while the owner's commands change them: the files   *)
(* and the ruling stand still during the stage, and whatever is open with  *)
(* its answers there is among those the plan will close.                   *)
(***************************************************************************)
EXTENDS Followups, TLAPS, WellFoundedInduction

RowShape ==
  /\ DOMAIN row = Pair
  /\ \A p \in Pair :
       row[p] = [state |-> row[p].state, posted |-> row[p].posted, reason |-> row[p].reason]

PlanType ==
  /\ stage \in {"idle", "plan", "write", "baselined", "remind"}
  /\ plan = [opens |-> plan.opens, arrived |-> plan.arrived, closes |-> plan.closes,
             expires |-> plan.expires, named |-> plan.named, silent |-> plan.silent,
             looked |-> plan.looked]
  /\ plan.opens \cup plan.arrived \cup plan.closes \cup plan.expires
       \cup plan.named \cup plan.looked \subseteq Pair

RuledInStage == stage # "idle" => policy # "unset"

OpensUnanswered == stage = "write" => \A p \in plan.opens : Answers(p) = {}

AnsweredIsPlanned ==
  stage = "write" =>
    \A p \in plan.looked : row[p].state = "open" => Answers(p) = {} \/ p \in plan.closes

NamedIsDue ==
  stage = "remind" =>
    \A p \in plan.named :
      /\ row[p].state \in {"open", "dismissed"}
      /\ p \in plan.looked => Answers(p) = {}
      /\ \E d \in Days : /\ LessonsOn(CourseOf[p], d)
                          /\ LessonAt(d) > row[p].posted
                          /\ LessonAt(d) < SendAt(DayOf(now))

FollowupsInv ==
  /\ RowShape /\ PlanType /\ RuledInStage
  /\ OpensUnanswered /\ AnsweredIsPlanned /\ NamedIsDue

-----------------------------------------------------------------------------
(* One notice a day: a key is queued once.  (stage.ts:212, 220)            *)
THEOREM NoticesAreUnique == Spec => []OneNoticeADay
<1>1. Init => OneNoticeADay
  BY DEF Init, OneNoticeADay
<1>2. OneNoticeADay /\ [Next]_vars => OneNoticeADay'
  <2> SUFFICES ASSUME OneNoticeADay, [Next]_vars PROVE OneNoticeADay'
    OBVIOUS
  <2>1. ASSUME NEW day, NEW names, notices' = Queued(day, names)
        PROVE  OneNoticeADay'
    BY <2>1 DEF Queued, OneNoticeADay
  <2>2. CASE Summarise
    BY <2>1, <2>2 DEF Summarise
  <2>3. CASE Remind
    BY <2>1, <2>3 DEF Remind, OneNoticeADay
  <2>4. CASE Begin \/ Plan \/ WriteOne \/ Baselined \/ ReadOpen \/ Die \/ UNCHANGED vars
    BY <2>4 DEF Begin, Plan, WriteOne, Baselined, ReadOpen, Die, dbVars, vars, OneNoticeADay
  <2>5. CASE World
    BY <2>5 DEF World, Tick, Rule, Post, Dismiss, SwitchTracking, dbVars, OneNoticeADay
  <2> QED BY <2>2, <2>3, <2>4, <2>5 DEF Next, Stage
<1> QED BY <1>1, <1>2, PTL DEF Spec

-----------------------------------------------------------------------------
(* Writing a row keeps its shape and touches no other. *)
LEMMA InsertedRows ==
  ASSUME RowShape, NEW p \in Pair, NEW s, NEW reason
  PROVE  LET after == Inserted(p, s, reason) IN
         /\ DOMAIN after = Pair
         /\ \A q \in Pair : after[q] = [state |-> after[q].state, posted |-> after[q].posted,
                                        reason |-> after[q].reason]
         /\ \A q \in Pair : after[q] # row[q] => q = p /\ row[q].state = "none" /\ after[q].state = s
BY DEF Inserted, RowShape

LEMMA UpdatedRows ==
  ASSUME RowShape, NEW p \in Pair, NEW s, NEW reason
  PROVE  LET after == Updated(p, s, reason) IN
         /\ DOMAIN after = Pair
         /\ \A q \in Pair : after[q] = [state |-> after[q].state, posted |-> after[q].posted,
                                        reason |-> after[q].reason]
         /\ \A q \in Pair : after[q] # row[q] => q = p /\ row[q].state = "open" /\ after[q].state = s
         /\ after[p].state = "open" => s = "open"
<1>1. CASE row[p].state = "open"
  BY <1>1 DEF Updated, RowShape
<1>2. CASE row[p].state # "open"
  BY <1>2 DEF Updated, RowShape
<1> QED BY <1>1, <1>2


-----------------------------------------------------------------------------
LEMMA InitFollowupsInv == Init => FollowupsInv
BY DEF Init, FollowupsInv, RowShape, PlanType, RuledInStage, OpensUnanswered,
       AnsweredIsPlanned, NamedIsDue, NoRow, NoPlan

(* The shape of the rows survives every step. *)
LEMMA NextRowShape == RowShape /\ PlanType /\ [Next]_vars => RowShape'
<1> SUFFICES ASSUME RowShape, PlanType, [Next]_vars PROVE RowShape'
  OBVIOUS
<1>1. ASSUME NEW p \in Pair, Dismiss(p) PROVE RowShape'
  BY <1>1, UpdatedRows DEF Dismiss, RowShape
<1>2. CASE WriteOne
  <2>1. ASSUME NEW p \in Pair, NEW s, NEW reason, row' = Inserted(p, s, reason)
        PROVE  RowShape'
    BY <2>1, InsertedRows DEF RowShape
  <2>2. ASSUME NEW p \in Pair, NEW s, NEW reason, row' = Updated(p, s, reason)
        PROVE  RowShape'
    BY <2>2, UpdatedRows DEF RowShape
  <2> QED BY <1>2, <2>1, <2>2 DEF WriteOne, PlanType
<1>3. CASE UNCHANGED row
  BY <1>3 DEF RowShape
<1>4. CASE Tick \/ Rule \/ (\E f \in File : Post(f)) \/ (\E c \in Course : SwitchTracking(c))
  BY <1>3, <1>4 DEF Tick, Rule, Post, SwitchTracking, dbVars
<1>5. CASE Begin \/ Plan \/ Summarise \/ Baselined \/ ReadOpen \/ Remind \/ Die \/ UNCHANGED vars
  BY <1>3, <1>5 DEF Begin, Plan, Summarise, Baselined, ReadOpen, Remind, Die, dbVars, vars
<1> QED BY <1>1, <1>2, <1>4, <1>5 DEF Next, World, Stage

(* So does the plan's: it holds pairs. *)
LEMMA NextPlanType == RowShape /\ PlanType /\ [Next]_vars => PlanType'
<1> SUFFICES ASSUME RowShape, PlanType, [Next]_vars PROVE PlanType'
  OBVIOUS
<1>1. CASE World \/ Begin \/ UNCHANGED vars
  BY <1>1 DEF World, Tick, Rule, Post, Dismiss, SwitchTracking, Begin, vars, PlanType
<1>2. CASE Plan
  BY <1>2 DEF Plan, PlanType, Tracked
<1>3. CASE WriteOne
  BY <1>3 DEF WriteOne, PlanType
<1>4. CASE Summarise
  BY <1>4 DEF Summarise, PlanType
<1>5. CASE Baselined \/ Remind \/ Die
  BY <1>5 DEF Baselined, Remind, Die, PlanType, NoPlan
<1>6. CASE ReadOpen
  <2>1. Reminder \subseteq Pair
    BY DEF Reminder, Tracked
  <2> QED BY <1>6, <2>1 DEF ReadOpen, PlanType
<1> QED BY <1>1, <1>2, <1>3, <1>4, <1>5, <1>6 DEF Next, Stage

(* An insertion writes only where there was no row, an update only what is *)
(* open: so what has ended keeps its row.                                  *)
THEOREM EndedRowsStay == Spec => EndedStaysEnded
<1>1. Init => RowShape /\ PlanType
  BY InitFollowupsInv DEF FollowupsInv
<1>2. RowShape /\ PlanType /\ [Next]_vars
        => [\A p \in Pair : row[p].state \in {"closed", "dismissed", "expired"}
              => row'[p] = row[p]]_vars
  <2> SUFFICES ASSUME RowShape, PlanType, Next, NEW p \in Pair,
                      row[p].state \in {"closed", "dismissed", "expired"}
               PROVE  row'[p] = row[p]
    OBVIOUS
  <2>1. ASSUME NEW q \in Pair, NEW s, NEW reason, row' = Inserted(q, s, reason)
        PROVE  row'[p] = row[p]
    BY <2>1, InsertedRows
  <2>2. ASSUME NEW q \in Pair, NEW s, NEW reason, row' = Updated(q, s, reason)
        PROVE  row'[p] = row[p]
    BY <2>2, UpdatedRows
  <2>3. CASE WriteOne
    BY <2>1, <2>2, <2>3 DEF WriteOne, PlanType
  <2>4. CASE World
    BY <2>2, <2>4 DEF World, Tick, Rule, Post, Dismiss, SwitchTracking, dbVars
  <2>5. CASE Begin \/ Plan \/ Summarise \/ Baselined \/ ReadOpen \/ Remind \/ Die
    BY <2>5 DEF Begin, Plan, Summarise, Baselined, ReadOpen, Remind, Die, dbVars
  <2> QED BY <2>3, <2>4, <2>5 DEF Next, Stage
<1> QED BY <1>1, <1>2, NextRowShape, NextPlanType, PTL DEF Spec, EndedStaysEnded

-----------------------------------------------------------------------------
(* During a stage neither the files nor the ruling change, so what answers *)
(* a pair does not.                                                        *)
LEMMA AnswersStand ==
  ASSUME RuledInStage, [Next]_vars, stage # "idle", NEW p \in Pair
  PROVE  Answers(p)' = Answers(p)
<1>1. posted' = posted /\ policy' = policy
  BY DEF RuledInStage, Next, World, Stage, Tick, Post, Rule, Dismiss, SwitchTracking, Begin,
         Plan, WriteOne, Summarise, Baselined, ReadOpen, Remind, Die, fileVars, vars
<1> QED BY <1>1 DEF Answers, Seen

LEMMA NextRuled == RuledInStage /\ [Next]_vars => RuledInStage'
BY DEF RuledInStage, Next, World, Stage, Tick, Post, Rule, Dismiss, SwitchTracking, Begin,
       Plan, WriteOne, Summarise, Baselined, ReadOpen, Remind, Die, fileVars, vars

(* What the plan opens stays unanswered until it is written. *)
LEMMA NextOpensUnanswered == FollowupsInv /\ [Next]_vars => OpensUnanswered'
<1> SUFFICES ASSUME FollowupsInv, [Next]_vars, (stage = "write")', NEW p \in plan'.opens
             PROVE  Answers(p)' = {}
  BY DEF OpensUnanswered
<1>1. PlanType' /\ p \in Pair
  BY NextPlanType DEF FollowupsInv, PlanType
<1>2. CASE Plan
  BY <1>1, <1>2, AnswersStand DEF Plan, FollowupsInv
<1>3. CASE stage = "write" /\ p \in plan.opens
  BY <1>1, <1>3, AnswersStand DEF FollowupsInv, OpensUnanswered
<1>4. CASE WriteOne
  BY <1>3, <1>4 DEF WriteOne, FollowupsInv, PlanType
<1>5. CASE World \/ Begin \/ Summarise \/ Baselined \/ ReadOpen \/ Remind \/ Die \/ UNCHANGED vars
  BY <1>3, <1>5 DEF World, Tick, Post, Rule, Dismiss, SwitchTracking, Begin, Summarise,
                    Baselined, ReadOpen, Remind, Die, vars
<1> QED BY <1>2, <1>4, <1>5 DEF Next, Stage

(* A row opens only for a pair without answers, and a pair leaves the      *)
(* closes only with its row closed.                                        *)
LEMMA NextAnsweredIsPlanned == FollowupsInv /\ [Next]_vars => AnsweredIsPlanned'
<1> SUFFICES ASSUME FollowupsInv, [Next]_vars, (stage = "write")', NEW p \in plan'.looked,
                    (row[p].state = "open")', Answers(p)' # {}
             PROVE  p \in plan'.closes
  BY DEF AnsweredIsPlanned
<1>1. PlanType' /\ p \in Pair
  BY NextPlanType DEF FollowupsInv, PlanType
<1>2. CASE Plan
  <2>1. Answers(p) # {} /\ row[p].state = "open"
    BY <1>1, <1>2, AnswersStand DEF Plan, dbVars, FollowupsInv
  <2> QED BY <1>1, <1>2, <2>1 DEF Plan, Tracked
<1>3. ASSUME stage = "write", p \in plan.looked, row[p].state = "open" PROVE p \in plan.closes
  BY <1>1, <1>3, AnswersStand DEF FollowupsInv, AnsweredIsPlanned
<1>4. CASE WriteOne
  <2>1. stage = "write" /\ plan'.looked = plan.looked
    BY <1>4 DEF WriteOne, FollowupsInv, PlanType
  <2>2. CASE \E q \in plan.opens : /\ row' = Inserted(q, "open", "none")
                                   /\ plan' = [plan EXCEPT !.opens = @ \ {q}]
    <3> PICK q \in plan.opens : /\ row' = Inserted(q, "open", "none")
                                /\ plan' = [plan EXCEPT !.opens = @ \ {q}]
      BY <2>2
    <3>1. Answers(q) = {} /\ q \in Pair
      BY <2>1 DEF FollowupsInv, OpensUnanswered, PlanType
    <3>2. p # q
      BY <1>1, <2>1, <3>1, AnswersStand DEF FollowupsInv
    <3>3. row'[p] = row[p]
      BY <1>1, <3>1, <3>2, InsertedRows DEF FollowupsInv
    <3> QED BY <1>3, <2>1, <3>3 DEF FollowupsInv, PlanType
  <2>3. CASE \E q \in plan.arrived : /\ row' = Inserted(q, "closed", "answered_on_arrival")
                                     /\ plan' = [plan EXCEPT !.arrived = @ \ {q}]
    <3> PICK q \in plan.arrived : /\ row' = Inserted(q, "closed", "answered_on_arrival")
                                  /\ plan' = [plan EXCEPT !.arrived = @ \ {q}]
      BY <2>3
    <3>1. row[p] = row'[p]
      BY <1>1, InsertedRows DEF FollowupsInv, PlanType
    <3> QED BY <1>3, <2>1, <3>1 DEF FollowupsInv, PlanType
  <2>4. CASE \E q \in plan.closes : /\ row' = Updated(q, "closed", CloseReason)
                                    /\ plan' = [plan EXCEPT !.closes = @ \ {q}]
    <3> PICK q \in plan.closes : /\ row' = Updated(q, "closed", CloseReason)
                                 /\ plan' = [plan EXCEPT !.closes = @ \ {q}]
      BY <2>4
    <3>1. row[p] = row'[p] /\ p # q
      BY <1>1, UpdatedRows DEF FollowupsInv, PlanType
    <3> QED BY <1>3, <2>1, <3>1 DEF FollowupsInv, PlanType
  <2>5. CASE \E q \in plan.expires : /\ row' = Updated(q, "expired", "term_end")
                                     /\ plan' = [plan EXCEPT !.expires = @ \ {q}]
    <3> PICK q \in plan.expires : /\ row' = Updated(q, "expired", "term_end")
                                  /\ plan' = [plan EXCEPT !.expires = @ \ {q}]
      BY <2>5
    <3>1. row[p] = row'[p]
      BY <1>1, UpdatedRows DEF FollowupsInv, PlanType
    <3> QED BY <1>3, <2>1, <3>1 DEF FollowupsInv, PlanType
  <2> QED BY <1>4, <2>2, <2>3, <2>4, <2>5 DEF WriteOne
<1>5. CASE World
  <2>1. ASSUME NEW q \in Pair, Dismiss(q) PROVE p \in plan'.closes
    BY <1>1, <1>3, <2>1, UpdatedRows DEF Dismiss, FollowupsInv
  <2> QED BY <1>3, <1>5, <2>1 DEF World, Tick, Post, Rule, SwitchTracking, dbVars
<1>6. CASE Begin \/ Summarise \/ Baselined \/ ReadOpen \/ Remind \/ Die \/ UNCHANGED vars
  BY <1>3, <1>6 DEF Begin, Summarise, Baselined, ReadOpen, Remind, Die, vars, dbVars
<1> QED BY <1>2, <1>4, <1>5, <1>6 DEF Next, Stage

(* What the reminder names was open when it was read, and can only have    *)
(* been dismissed since.                                                   *)
LEMMA NextNamedIsDue == FollowupsInv /\ [Next]_vars => NamedIsDue'
<1> DEFINE Missed(p, posted_, t) ==
      \E d \in Days : /\ LessonsOn(CourseOf[p], d)
                      /\ LessonAt(d) > posted_ /\ LessonAt(d) < SendAt(DayOf(t))
<1> SUFFICES ASSUME FollowupsInv, [Next]_vars, (stage = "remind")', NEW p \in plan'.named
             PROVE  /\ row'[p].state \in {"open", "dismissed"}
                    /\ p \in plan'.looked => Answers(p)' = {}
                    /\ Missed(p, row'[p].posted, now')
  BY DEF NamedIsDue
<1>1. PlanType' /\ p \in Pair
  BY NextPlanType DEF FollowupsInv, PlanType
<1>2. CASE ReadOpen
  <2>1. /\ plan' = [plan EXCEPT !.named = Reminder] /\ row' = row /\ now' = now
        /\ stage = "write" /\ Written
    BY <1>2 DEF ReadOpen, dbVars
  <2>2. p \in Reminder /\ plan'.looked = plan.looked
    BY <2>1 DEF FollowupsInv, PlanType
  <2>3. row[p].state = "open" /\ Overdue(CourseOf[p], row[p].posted, SendAt(DayOf(now)))
    BY <2>2 DEF Reminder
  <2>4. Missed(p, row[p].posted, now)
    BY <2>3 DEF Overdue, LessonDaysBefore
  <2>5. p \in plan.looked => Answers(p) = {}
    BY <1>1, <2>1, <2>3 DEF Written, FollowupsInv, AnsweredIsPlanned
  <2> QED BY <1>1, <2>1, <2>2, <2>3, <2>4, <2>5, AnswersStand DEF FollowupsInv
<1>3. ASSUME stage = "remind", p \in plan.named
      PROVE  /\ row[p].state \in {"open", "dismissed"}
             /\ p \in plan.looked => Answers(p)' = {}
             /\ Missed(p, row[p].posted, now)
  <2>1. Answers(p)' = Answers(p)
    BY <1>1, <1>3, AnswersStand DEF FollowupsInv
  <2> QED BY <1>3, <2>1 DEF FollowupsInv, NamedIsDue
<1> HIDE DEF Missed
<1>4. CASE \E q \in Pair : Dismiss(q)
  <2> PICK q \in Pair : Dismiss(q)
    BY <1>4
  <2>1. stage = "remind" /\ p \in plan.named /\ plan' = plan /\ now' = now
    BY DEF Dismiss
  <2>2. CASE p = q
    <3>1. row'[p] = [state |-> "dismissed", posted |-> row[p].posted, reason |-> "dismissed"]
      BY <1>1, <2>2 DEF Dismiss, Updated, FollowupsInv, RowShape
    <3> QED BY <1>3, <2>1, <3>1
  <2>3. CASE p # q
    <3>1. row'[p] = row[p]
      BY <1>1, <2>3, UpdatedRows DEF Dismiss, FollowupsInv
    <3> QED BY <1>3, <2>1, <3>1
  <2> QED BY <2>2, <2>3
<1>5. CASE Tick \/ Rule \/ (\E f \in File : Post(f)) \/ (\E c \in Course : SwitchTracking(c))
  BY <1>3, <1>5 DEF Tick, Rule, Post, SwitchTracking, dbVars
<1>6. CASE Begin \/ Plan \/ WriteOne \/ Summarise \/ Baselined \/ Remind \/ Die \/ UNCHANGED vars
  BY <1>3, <1>6 DEF Begin, Plan, WriteOne, Summarise, Baselined, Remind, Die, vars, dbVars
<1> QED BY <1>2, <1>4, <1>5, <1>6 DEF Next, World, Stage

LEMMA NextFollowupsInv == FollowupsInv /\ [Next]_vars => FollowupsInv'
BY NextRowShape, NextPlanType, NextRuled, NextOpensUnanswered, NextAnsweredIsPlanned,
   NextNamedIsDue DEF FollowupsInv

(* A new notice that is not the summary is a reminder, and names only what *)
(* is due.                                                                 *)
THEOREM RemindersAreDue == Spec => ReminderIsDue
<1> DEFINE Due == \A n \in notices' \ notices : n.day # Summary =>
                    \A p \in n.names :
                      /\ row[p].state \in {"open", "dismissed"}
                      /\ p \in plan.looked => Answers(p) = {}
                      /\ \E d \in Days : /\ LessonsOn(CourseOf[p], d)
                                          /\ LessonAt(d) > row[p].posted
                                          /\ LessonAt(d) < SendAt(n.day)
<1>1. FollowupsInv /\ [Next]_vars => [Due]_vars
  <2> SUFFICES ASSUME FollowupsInv, Next PROVE Due
    OBVIOUS
  <2>1. CASE Summarise
    BY <2>1 DEF Summarise, Queued
  <2>2. CASE Remind
    <3>1. \A n \in notices' \ notices : n.day = DayOf(now) /\ n.names = plan.named
      BY <2>2 DEF Remind, Queued
    <3>2. stage = "remind"
      BY <2>2 DEF Remind
    <3> QED BY <3>1, <3>2 DEF FollowupsInv, NamedIsDue
  <2>3. CASE World
    BY <2>3 DEF World, Tick, Rule, Post, Dismiss, SwitchTracking, dbVars
  <2>4. CASE Begin \/ Plan \/ WriteOne \/ Baselined \/ ReadOpen \/ Die
    BY <2>4 DEF Begin, Plan, WriteOne, Baselined, ReadOpen, Die, dbVars
  <2> QED BY <2>1, <2>2, <2>3, <2>4 DEF Next, Stage
<1> QED BY <1>1, InitFollowupsInv, NextFollowupsInv, PTL DEF Spec, ReminderIsDue

-----------------------------------------------------------------------------
(* Types.  When a row says its question was posted is chosen among the     *)
(* questions' times, so that a row is typed because there is a question    *)
(* and a least time.                                                       *)
(* Every set of naturals that is not empty has a least member.             *)
LEMMA LeastNumber ==
  ASSUME NEW S, S \subseteq Nat, S # {}
  PROVE  \E n \in S : \A m \in S : n <= m
<1> DEFINE R == OpToRel(<, Nat)
<1>1. IsWellFoundedOn(R, Nat)
  BY NatLessThanWellFounded
<1>2. \A x, y \in Nat : x < y => <<x, y>> \in R
  BY DEF OpToRel
<1> HIDE DEF R
<1>3. PICK n \in S : \A m \in S : <<m, n>> \notin R
  BY <1>1, WFMin
<1>4. \A m \in S : ~(m < n)
  BY <1>2, <1>3
<1> QED BY <1>4

(* What a run opens has a question on file, of which the first is chosen.  *)
QuestionsPlanned ==
  stage = "write" => \A p \in plan.opens \cup plan.arrived : Questions(p) # {}

TypedInv == FollowupsTypeOK /\ QuestionsPlanned

LEMMA FirstPostedIsTime ==
  ASSUME FollowupsTypeOK, NEW p \in Pair, Questions(p) # {}
  PROVE  FirstPosted(p) \in Time
<1> DEFINE T == {posted[f] : f \in Questions(p)}
<1>1. \A f \in Questions(p) : posted[f] \in Time /\ posted[f] \in T
  BY DEF FollowupsTypeOK, Questions, Seen
<1>2. T \subseteq Time /\ T # {}
  BY <1>1
<1>3. T \subseteq Nat
  BY <1>2 DEF Time
<1>4. \E t \in T : \A u \in T : t <= u
  <2> HIDE DEF T
  <2> QED BY <1>2, <1>3, LeastNumber
<1>5. \E t \in T : \A f \in Questions(p) : t <= posted[f]
  <2> HIDE DEF T
  <2> QED BY <1>1, <1>4
<1>6. FirstPosted(p) \in T
  BY <1>5 DEF FirstPosted
<1> QED BY <1>2, <1>6

LEMMA RowTyped ==
  ASSUME FollowupsTypeOK, NEW p \in Pair, NEW s \in State, NEW reason \in Reason
  PROVE  /\ Updated(p, s, reason) \in [Pair -> Row]
         /\ Questions(p) # {} => Inserted(p, s, reason) \in [Pair -> Row]
<1>1. row \in [Pair -> Row]
  BY DEF FollowupsTypeOK
<1>2. \A t \in Time : [state |-> s, posted |-> t, reason |-> reason] \in Row
  BY DEF Row
<1>3. row[p].posted \in Time
  BY <1>1 DEF Row
<1>4. Updated(p, s, reason) \in [Pair -> Row]
  BY <1>1, <1>2, <1>3 DEF Updated
<1>5. ASSUME Questions(p) # {} PROVE Inserted(p, s, reason) \in [Pair -> Row]
  <2>1. FirstPosted(p) \in Time
    BY <1>5, FirstPostedIsTime
  <2> DEFINE t == FirstPosted(p)
  <2>2. t \in Time /\ Inserted(p, s, reason) = IF row[p].state = "none"
          THEN [row EXCEPT ![p] = [state |-> s, posted |-> t, reason |-> reason]] ELSE row
    BY <2>1 DEF Inserted
  <2> HIDE DEF t
  <2> QED BY <1>1, <1>2, <2>2
<1> QED BY <1>4, <1>5

LEMMA QueuedTyped ==
  ASSUME FollowupsTypeOK, NEW d \in Days \cup {Summary}, NEW names \in SUBSET Pair
  PROVE  Queued(d, names) \subseteq [day : Days \cup {Summary}, names : SUBSET Pair]
BY DEF Queued, FollowupsTypeOK

LEMMA InitTyped == Init => TypedInv
<1> SUFFICES ASSUME Init PROVE TypedInv
  OBVIOUS
<1>1. 0 \in Time /\ 0 \in 0 .. MaxEdits /\ 0 \in 0 .. MaxDeaths
  BY FollowupsAssumption DEF Time
<1>2. NoRow \in Row
  BY <1>1 DEF NoRow, Row, State, Reason
<1> QED BY <1>1, <1>2 DEF Init, TypedInv, FollowupsTypeOK, QuestionsPlanned, NoPlan

LEMMA NextTyped ==
  ASSUME TypedInv, PlanType, [Next]_vars
  PROVE  TypedInv'
<1> USE DEF TypedInv
<1>1. /\ now \in Time /\ edits \in 0 .. MaxEdits /\ deaths \in 0 .. MaxDeaths
      /\ posted \in [File -> Time \cup {NoDate}] /\ row \in [Pair -> Row]
      /\ DayOf(now) \in Days
  BY DEF FollowupsTypeOK, Days
<1>2. ASSUME NEW p \in Pair, Dismiss(p) PROVE TypedInv'
  <2>1. row' \in [Pair -> Row]
    BY <1>2, RowTyped DEF Dismiss, State, Reason
  <2>2. edits' \in 0 .. MaxEdits
    BY <1>1, <1>2, FollowupsAssumption DEF Dismiss
  <2> QED BY <1>2, <2>1, <2>2 DEF Dismiss, FollowupsTypeOK, QuestionsPlanned, Questions, Seen
<1>3. CASE Tick
  <2>1. now' \in Time
    BY <1>1, <1>3, FollowupsAssumption DEF Tick, Time
  <2> QED BY <1>3, <2>1 DEF Tick, fileVars, dbVars, FollowupsTypeOK, QuestionsPlanned
<1>4. ASSUME NEW f \in File, Post(f) PROVE TypedInv'
  <2>1. posted' \in [File -> Time \cup {NoDate}]
    BY <1>1, <1>4 DEF Post
  <2> QED BY <1>4, <2>1 DEF Post, dbVars, FollowupsTypeOK, QuestionsPlanned
<1>5. CASE Rule
  BY <1>5 DEF Rule, dbVars, FollowupsTypeOK, QuestionsPlanned, Questions, Seen
<1>6. ASSUME NEW c \in Course, SwitchTracking(c) PROVE TypedInv'
  <2>1. edits' \in 0 .. MaxEdits
    BY <1>1, <1>6, FollowupsAssumption DEF SwitchTracking
  <2>2. off' \subseteq Course
    BY <1>6 DEF SwitchTracking, FollowupsTypeOK
  <2> QED BY <1>6, <2>1, <2>2 DEF SwitchTracking, dbVars, FollowupsTypeOK, QuestionsPlanned, Questions, Seen
<1>7. CASE Begin
  BY <1>7, FollowupsAssumption DEF Begin, fileVars, FollowupsTypeOK, QuestionsPlanned
<1>8. CASE Plan
  <2>1. stage' = "write" /\ UNCHANGED <<now, fileVars, dbVars, deaths>>
    BY <1>8 DEF Plan
  <2>2. /\ \A p \in plan'.opens \cup plan'.arrived : Questions(p) # {}
        /\ plan'.opens \cup plan'.arrived \cup plan'.closes \cup plan'.expires
             \cup plan'.named \cup plan'.looked \subseteq Pair
        /\ plan'.silent \in BOOLEAN
    BY <1>8 DEF Plan, Tracked
  <2> QED BY <2>1, <2>2 DEF fileVars, dbVars, FollowupsTypeOK, QuestionsPlanned, Questions, Seen
<1>9. CASE WriteOne
  <2>1. /\ stage = "write" /\ UNCHANGED <<now, fileVars, termEnd, baselinedAt, notices, stage, deaths>>
    BY <1>9 DEF WriteOne
  <2>2. \A p \in plan.opens \cup plan.arrived : Questions(p) # {}
    BY <2>1 DEF QuestionsPlanned
  <2>3. CloseReason \in Reason /\ {"open", "closed", "expired"} \subseteq State
        /\ {"none", "answered_on_arrival", "term_end"} \subseteq Reason
    BY DEF CloseReason, Reason, State
  <2>4. row' \in [Pair -> Row]
    <3>1. ASSUME NEW p \in Pair, NEW s \in State, NEW reason \in Reason, row' = Updated(p, s, reason)
          PROVE  row' \in [Pair -> Row]
      BY <3>1, RowTyped
    <3>2. ASSUME NEW p \in plan.opens \cup plan.arrived, NEW s \in State, NEW reason \in Reason,
                 row' = Inserted(p, s, reason)
          PROVE  row' \in [Pair -> Row]
      <4>1. p \in Pair /\ Questions(p) # {}
        BY <2>2 DEF FollowupsTypeOK
      <4> QED BY <3>2, <4>1, RowTyped
    <3>3. plan.closes \subseteq Pair /\ plan.expires \subseteq Pair
      BY DEF FollowupsTypeOK
    <3>4. \/ \E p \in plan.opens \cup plan.arrived, s \in State, reason \in Reason : row' = Inserted(p, s, reason)
          \/ \E p \in Pair, s \in State, reason \in Reason : row' = Updated(p, s, reason)
      BY <1>9, <2>3, <3>3 DEF WriteOne
    <3> QED BY <3>1, <3>2, <3>4
  <2>5. /\ plan'.opens \subseteq plan.opens /\ plan'.arrived \subseteq plan.arrived
        /\ plan'.closes \subseteq plan.closes /\ plan'.expires \subseteq plan.expires
        /\ plan'.named = plan.named /\ plan'.looked = plan.looked /\ plan'.silent = plan.silent
    BY <1>9 DEF WriteOne, PlanType
  <2> QED BY <2>1, <2>2, <2>4, <2>5 DEF fileVars, FollowupsTypeOK, QuestionsPlanned, Questions, Seen
<1>10. CASE Summarise
  <2>1. Summary \in Days \cup {Summary} /\ plan.named \in SUBSET Pair
    BY DEF FollowupsTypeOK
  <2>2. notices' \subseteq [day : Days \cup {Summary}, names : SUBSET Pair]
    BY <1>10, <2>1, QueuedTyped DEF Summarise
  <2> QED BY <1>10, <2>2 DEF Summarise, fileVars, FollowupsTypeOK, QuestionsPlanned
<1>11. CASE Remind
  <2>1. DayOf(now) \in Days \cup {Summary} /\ plan.named \in SUBSET Pair
    BY <1>1 DEF FollowupsTypeOK
  <2>2. notices' \subseteq [day : Days \cup {Summary}, names : SUBSET Pair]
    BY <1>11, <2>1, QueuedTyped DEF Remind, FollowupsTypeOK
  <2> QED BY <1>11, <2>2 DEF Remind, fileVars, FollowupsTypeOK, QuestionsPlanned, NoPlan
<1>12. CASE Baselined
  BY <1>12 DEF Baselined, fileVars, FollowupsTypeOK, QuestionsPlanned, NoPlan
<1>13. CASE ReadOpen
  <2>1. Reminder \subseteq Pair
    BY DEF Reminder, Tracked
  <2>2. /\ plan'.named \subseteq Pair /\ plan'.opens = plan.opens /\ plan'.arrived = plan.arrived
        /\ plan'.closes = plan.closes /\ plan'.expires = plan.expires /\ plan'.looked = plan.looked
        /\ plan'.silent = plan.silent
    BY <1>13, <2>1 DEF ReadOpen, PlanType
  <2> QED BY <1>13, <2>2 DEF ReadOpen, fileVars, dbVars, FollowupsTypeOK, QuestionsPlanned
<1>14. CASE Die
  <2>1. deaths' \in 0 .. MaxDeaths
    BY <1>1, <1>14, FollowupsAssumption DEF Die
  <2> QED BY <1>14, <2>1 DEF Die, fileVars, dbVars, FollowupsTypeOK, QuestionsPlanned, NoPlan
<1>15. CASE UNCHANGED vars
  BY <1>15 DEF vars, fileVars, dbVars, FollowupsTypeOK, QuestionsPlanned, Questions, Seen
<1> QED BY <1>2, <1>3, <1>4, <1>5, <1>6, <1>7, <1>8, <1>9, <1>10, <1>11, <1>12, <1>13, <1>14, <1>15
        DEF Next, World, Stage

(* The tables and what a run has planned keep their types.  (stage.ts)     *)
THEOREM FollowupsAreTyped == Spec => []FollowupsTypeOK
<1>1. Init => TypedInv /\ RowShape /\ PlanType
  BY InitTyped, InitFollowupsInv DEF FollowupsInv
<1>2. TypedInv /\ RowShape /\ PlanType /\ [Next]_vars => TypedInv' /\ RowShape' /\ PlanType'
  BY NextTyped, NextRowShape, NextPlanType
<1>3. TypedInv => FollowupsTypeOK
  BY DEF TypedInv
<1> QED BY <1>1, <1>2, <1>3, PTL DEF Spec

=============================================================================
