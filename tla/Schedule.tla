------------------------------ MODULE Schedule ------------------------------
(***************************************************************************)
(* Which scheduled slot a run stands for, and the report of a gap in the   *)
(* schedule (core/run-context.ts startRun and finishRun, core/cron.ts,     *)
(* sync/schedule.ts, sync/gap-runs.ts, reportScheduleGap of sync/run.ts).  *)
(*                                                                         *)
(* GitHub is the environment: it creates the run of a slot at the slot or  *)
(* not at all, gives it a machine at once, late or never, and cancels or   *)
(* loses it before its sync starts.  A run that starts names its slot from *)
(* the cron expression that fired, so a late one takes a later slot, and   *)
(* one of the night expression that starts by day takes the night's last.  *)
(* Time goes from slot to slot; a run is known by the slot it was made     *)
(* for; runs started by hand have no slot and are left out.                *)
(***************************************************************************)
EXTENDS Naturals, FiniteSets

CONSTANTS DaySlots, NightSlots,  \* SYNC_SCHEDULES: the slots of each expression
          ReportAt               \* MISSED_SLOTS_REPORT_THRESHOLD

Slots == DaySlots \cup NightSlots

ScheduleAssumption ==
  /\ IsFiniteSet(Slots) /\ Slots \subseteq Nat \ {0}
  /\ DaySlots \cap NightSlots = {}
  /\ ReportAt \in Nat \ {0}

VARIABLES clock,    \* the last slot that has come
          github,   \* what GitHub's history says of the run of each slot
          named,    \* the slot a run took when it started: scheduledFor
          rows,     \* the runs table: [of, slot, status]
          active,   \* the run that holds the sync lock, 0 for none
          notices   \* the gap reports queued: [from, to, tally]

vars == <<clock, github, named, rows, active, notices>>

-----------------------------------------------------------------------------
(***************************************************************************)
(* GitHub.                                                                 *)
(***************************************************************************)
NextSlot(s) == /\ s \in Slots /\ s > clock
               /\ \A t \in Slots : t > clock => s <= t

\* A slot comes; a run is created for it, or never.
Tick == \E s \in Slots, fate \in {"waiting", "never"} :
  /\ NextSlot(s)
  /\ clock' = s
  /\ github' = [github EXCEPT ![s] = fate]
  /\ UNCHANGED <<named, rows, active, notices>>

\* A run without a machine is cancelled, or its job fails before the sync.
Lose(s, fate) ==
  /\ github[s] = "waiting"
  /\ github' = [github EXCEPT ![s] = fate]
  /\ UNCHANGED <<clock, named, rows, active, notices>>

-----------------------------------------------------------------------------
(***************************************************************************)
(* startRun: latestSlotAtOrBefore of the expression that fired; the row is *)
(* written before anything else.  A run that finds the lock taken ends at  *)
(* once, its row with it (status ok).                                      *)
(***************************************************************************)
Expression(s) == IF s \in DaySlots THEN DaySlots ELSE NightSlots
Latest(S) == CHOOSE s \in S : \A t \in S : t <= s
SlotAt(s) == Latest({t \in Expression(s) : t <= clock})

Row(s, slot, status) == [of |-> s, slot |-> slot, status |-> status]

StartRun(s) ==
  /\ github[s] = "waiting"
  /\ github' = [github EXCEPT ![s] = "started"]
  /\ named' = [named EXCEPT ![s] = SlotAt(s)]
  /\ rows' = rows \cup {Row(s, SlotAt(s), IF active = 0 THEN "running" ELSE "ok")}
  /\ active' = IF active = 0 THEN s ELSE active
  /\ UNCHANGED <<clock, notices>>

FinishRun(s, status) ==
  /\ rows' = {IF r.of = s THEN [r EXCEPT !.status = status] ELSE r : r \in rows}
  /\ active' = 0

\* The runner dies: nobody closes the row, and the lock expires.
Die ==
  /\ active # 0
  /\ active' = 0
  /\ UNCHANGED <<clock, github, named, rows, notices>>

-----------------------------------------------------------------------------
(***************************************************************************)
(* reportScheduleGap.                                                      *)
(***************************************************************************)
\* Mutant: only a run that was closed counts as the one before the gap.
EarlierClosed(s) ==
  {r.slot : r \in {q \in rows : q.of # s /\ q.slot < named[s] /\ q.status # "running"}}
Earlier(s) == {r.slot : r \in {q \in rows : q.of # s /\ q.slot < named[s]}}

\* slotsBetween
Between(from, to) == {t \in Slots : from < t /\ t < to}

\* explainGap: the runs GitHub made since, without this one and those with a row.
Explain(s, from, missed) ==
  LET silent == {t \in Slots : /\ from < t /\ t <= clock /\ t # s
                               /\ github[t] \in {"waiting", "cancelled", "failed"}
                               /\ \A r \in rows : r.of # t}
      Is(fate) == Cardinality({t \in silent : github[t] = fate})
  IN [cancelled |-> Is("cancelled"), failed |-> Is("failed"), waiting |-> Is("waiting"),
      never |-> IF missed > Cardinality(silent) THEN missed - Cardinality(silent) ELSE 0]

\* `read`: GitHub's history could be read.
Report(read) ==
  /\ active # 0
  /\ LET from == Latest(Earlier(active))
         to == named[active]
         missed == Cardinality(Between(from, to))
     IN IF \/ Earlier(active) = {} \/ missed < ReportAt
           \/ \E n \in notices : n.from = from /\ n.to = to
        THEN UNCHANGED notices
        ELSE notices' = notices \cup
               {[from |-> from, to |-> to,
                 tally |-> IF read THEN {Explain(active, from, missed)} ELSE {}]}
  /\ FinishRun(active, "ok")
  /\ UNCHANGED <<clock, github, named>>

\* The sync throws before the report, and the row is closed as failed.
Throw ==
  /\ active # 0
  /\ FinishRun(active, "failed")
  /\ UNCHANGED <<clock, github, named, notices>>

-----------------------------------------------------------------------------
Init ==
  /\ clock = 0 /\ active = 0 /\ rows = {} /\ notices = {}
  /\ github = [s \in Slots |-> "future"]
  /\ named = [s \in Slots |-> 0]

Next ==
  \/ Tick \/ Die \/ Throw
  \/ \E s \in Slots : StartRun(s) \/ Lose(s, "cancelled") \/ Lose(s, "failed")
  \/ \E read \in BOOLEAN : Report(read)

Spec == Init /\ [][Next]_vars

-----------------------------------------------------------------------------
ScheduleTypeOK ==
  /\ clock \in Slots \cup {0}
  /\ github \in [Slots -> {"future", "waiting", "never", "cancelled", "failed", "started"}]
  /\ named \in [Slots -> Slots \cup {0}]
  /\ rows \subseteq [of : Slots, slot : Slots, status : {"running", "ok", "failed"}]
  /\ active \in Slots \cup {0}
  /\ \A n \in notices : n.from \in Slots /\ n.to \in Slots

(***************************************************************************)
(* A reported gap is one (run.ts:1145-1198): when the report is queued, no *)
(* sync had started for any slot inside it, not even one that died, threw  *)
(* or found the lock taken, and what GitHub is said to have done with      *)
(* those slots accounts for all of them.                                   *)
(***************************************************************************)
GapIsReal ==
  [][\A n \in notices' \ notices :
       /\ \A s \in Slots : named[s] \notin Between(n.from, n.to)
       /\ \A e \in n.tally :
            e.cancelled + e.failed + e.waiting + e.never
              >= Cardinality(Between(n.from, n.to))]_vars
=============================================================================
