-------------------------- MODULE NotificationQueue --------------------------
(***************************************************************************)
(* The notifications table and its flush (src/src/notify/queue.ts), with   *)
(* the Telegram client behind it (src/src/notify/telegram.ts).             *)
(*                                                                         *)
(* The table is a sequence: a row's index is its id.  A row is enqueued by *)
(* whoever has something to say and sent, later, by flush: read what is    *)
(* due, send unit by unit, and record each outcome in a write of its own.  *)
(* Between any two of these steps the process may die.                     *)
(*                                                                         *)
(* Time is counted in half days: even is day, odd is quiet hours.          *)
(* What a message says is its refs, the (item, content hash) pairs it is   *)
(* about; the texts, and how many messages a unit is packed into, are left *)
(* out: a unit whose messages are not all accepted is a unit not accepted. *)
(*                                                                         *)
(* This module is the queue under any work a run may do before it flushes; *)
(* SyncRun.tla has the work.                                               *)
(***************************************************************************)
EXTENDS Integers, Sequences, FiniteSets

CONSTANTS
  Run,            \* the processes that may flush
  Ref,            \* the (item, content hash) pairs
  Batch,          \* the sets of them a message may be about
  Scope,          \* what a summary, a notice or an alert is keyed on
  MAX_ATTEMPTS,   \* queue.ts:25
  MaxTime,        \* bound on the clock, in half days
  MaxNotes,       \* bound on the rows enqueued
  MaxCrashes      \* bound on the runs that die

ASSUME QueueAssumption ==
  /\ Batch \subseteq SUBSET Ref /\ {} \notin Batch
  /\ MAX_ATTEMPTS \in Nat \ {0}
  /\ MaxTime \in Nat /\ MaxNotes \in Nat /\ MaxCrashes \in Nat

VARIABLES
  notes,     \* the notifications table
  clock,     \* the time
  pc,        \* where each run is
  job,       \* what its flush works with: the time the run read, whether there
             \* is a deadline, the units still to send, the one being sent and
             \* the state about to be recorded for it
  (* observations and bounds: no code reads them *)
  told,      \* the rows whose message Telegram has accepted
  crashes

queueVars == <<notes, clock, pc, job, told, crashes>>

-----------------------------------------------------------------------------
(* Time *)

(* isQuietHours *)
Quiet(t) == t % 2 = 1

(* quietHoursReleaseAt: the morning after *)
Morning(t) == t + 1

Tick ==
  /\ clock < MaxTime
  /\ clock' = clock + 1
  /\ UNCHANGED <<notes, pc, job, told, crashes>>

-----------------------------------------------------------------------------
(* Enqueueing *)

(* "summary" stands for "now watching" and for the notices: in the table   *)
(* they differ from content by their key and by having no items.           *)
Kind == {"content", "summary", "ops"}
NoteState == {"queued", "sent", "failed"}

Note == [kind : Kind, refs : SUBSET Ref, scope : SUBSET Scope, urgent : BOOLEAN,
         held : BOOLEAN, release : Nat, state : NoteState, attempts : Nat]

(* releaseAfter: content waits for the morning unless it is urgent. *)
Holds(urgent, t) == ~urgent /\ Quiet(t)

NewNote(kind, refs, scope, urgent, t) ==
  LET held == kind # "ops" /\ Holds(urgent, t)
  IN  [kind |-> kind, refs |-> refs, scope |-> scope, urgent |-> urgent,
       held |-> held, release |-> IF held THEN Morning(t) ELSE 0,
       state |-> "queued", attempts |-> 0]

(* Equal batch_key: the same kind of message about the same things. *)
SameKey(a, b) == a.kind = b.kind /\ a.refs = b.refs /\ a.scope = b.scope

(* INSERT ... ON CONFLICT(batch_key) DO NOTHING *)
Put(note) ==
  IF \E n \in DOMAIN notes : SameKey(notes[n], note)
  THEN UNCHANGED notes
  ELSE notes' = Append(notes, note)

-----------------------------------------------------------------------------
(* Flushing *)

(* A unit is some rows and how often they have been tried. *)
Unit == [ids : SUBSET Nat, attempts : SUBSET Nat]
NoUnit == [ids |-> {}, attempts |-> {}]

Job == [now : Nat, hurried : BOOLEAN, units : SUBSET Unit, unit : Unit,
        verdict : NoteState \cup {"none"}]
NoJob == [now |-> 0, hurried |-> FALSE, units |-> {}, unit |-> NoUnit, verdict |-> "none"]

(* Mutant: what is held is sent like everything else. *)
DueRegardless(ns, t) == {n \in DOMAIN ns : ns[n].state = "queued"}

(* Queued, and held no longer. *)
Due(ns, t) ==
  {n \in DOMAIN ns : ns[n].state = "queued" /\ (~ns[n].held \/ ns[n].release <= t)}

(* Content held through quiet hours is merged into one digest. *)
Mergeable(ns, t) == {n \in Due(ns, t) : ns[n].kind = "content" /\ ns[n].held}

UnitOf(ns, ids) == [ids |-> ids, attempts |-> {ns[n].attempts : n \in ids}]

(* Mutant: a row held on its own is in no unit. *)
UnitsLosingOne(ns, t) ==
  {UnitOf(ns, {n}) : n \in Due(ns, t) \ Mergeable(ns, t)}
    \cup IF Cardinality(Mergeable(ns, t)) > 1 THEN {UnitOf(ns, Mergeable(ns, t))} ELSE {}

(* The rows due, each on its own but for those a digest merges. *)
UnitsOf(ns, t) ==
  IF Cardinality(Mergeable(ns, t)) > 1
  THEN {UnitOf(ns, {n}) : n \in Due(ns, t) \ Mergeable(ns, t)}
         \cup {UnitOf(ns, Mergeable(ns, t))}
  ELSE {UnitOf(ns, {n}) : n \in Due(ns, t)}

(* The digest goes first, then the others by id. *)
Before(u, w) ==
  \/ Cardinality(u.ids) > 1
  \/ Cardinality(w.ids) <= 1 /\ \A m \in u.ids, n \in w.ids : m < n

FlushBegin(r) ==
  /\ pc[r] = "flush"
  /\ pc' = [pc EXCEPT ![r] = "sending"]
  /\ job' = [job EXCEPT ![r].units = UnitsOf(notes, job[r].now)]
  /\ UNCHANGED <<notes, clock, told, crashes>>

(* What send can report.  "unheard" and "garbled": Telegram accepted the   *)
(* message, but its answer never came, or could not be read as one.        *)
Outcome == {"accepted", "unheard", "garbled", "unavailable", "refused"}
Accepted(o) == o \in {"accepted", "unheard", "garbled"}
Retryable(o) == o \in {"unheard", "unavailable"}

(* Mutant: gives up one failure too late. *)
LastTryLate(u) == \E k \in u.attempts : k >= MAX_ATTEMPTS

(* A digest has been tried as often as the most tried of its rows. *)
LastTry(u) == \E k \in u.attempts : k + 1 >= MAX_ATTEMPTS

(* Mutant: a state the table does not know. *)
RecordedRetrying(u, o) ==
  CASE o = "accepted" -> "sent" [] ~Retryable(o) -> "failed" [] OTHER -> "retrying"

(* Mutant: a request that was never answered is taken as delivered. *)
RecordedHopefully(u, o) ==
  CASE o \in {"accepted", "unheard", "unavailable"} -> "sent" [] OTHER -> "failed"

(* The state recorded for a unit; giveUp = not retryable, or the last try. *)
Recorded(u, o) ==
  CASE o = "accepted" -> "sent"
    [] o # "accepted" /\ (~Retryable(o) \/ LastTry(u)) -> "failed"
    [] OTHER -> "queued"

Send(r, o) ==
  /\ pc[r] = "sending"
  /\ \E u \in job[r].units :
       /\ \A w \in job[r].units \ {u} : Before(u, w)
       /\ job' = [job EXCEPT ![r].units = @ \ {u}, ![r].unit = u,
                             ![r].verdict = Recorded(u, o)]
       /\ told' = IF Accepted(o) THEN told \cup u.ids ELSE told
  /\ pc' = [pc EXCEPT ![r] = "marking"]
  /\ UNCHANGED <<notes, clock, crashes>>

(* UPDATE notifications SET state = ?, attempts = attempts + 1 WHERE id IN *)
Marked(ids, state) ==
  [n \in DOMAIN notes |->
     IF n \in ids THEN [notes[n] EXCEPT !.state = state, !.attempts = @ + 1]
     ELSE notes[n]]

(* The outcome reaches the table, for every row of the unit. *)
Mark(r) ==
  /\ pc[r] = "marking"
  /\ notes' = Marked(job[r].unit.ids, job[r].verdict)
  /\ job' = [job EXCEPT ![r].unit = NoUnit, ![r].verdict = "none"]
  /\ pc' = [pc EXCEPT ![r] = "sending"]
  /\ UNCHANGED <<clock, told, crashes>>

(* D-77: past the deadline no message starts; the rest stays queued. *)
DeadlinePasses(r) ==
  /\ pc[r] = "sending"
  /\ job[r].hurried
  /\ job[r].units # {}
  /\ job' = [job EXCEPT ![r].units = {}]
  /\ UNCHANGED <<notes, clock, pc, told, crashes>>

-----------------------------------------------------------------------------
(* The runs around the flush *)

(* Mutant: the run does not ask for the lock. *)
MayStartUnlocked(r) == pc[r] = "idle"

(* The lock was free (SyncLock.tla): no other run is at work. *)
MayStart(r) == \A q \in Run : pc[q] = "idle"

(* getSelf answered; or it did not (hurried is FALSE), and the run will    *)
(* only report it and flush, without a deadline.                           *)
Start(r) ==
  /\ MayStart(r)
  /\ pc' = [pc EXCEPT ![r] = "working"]
  /\ \E hurried \in BOOLEAN :
       job' = [job EXCEPT ![r].now = clock, ![r].hurried = hurried]
  /\ UNCHANGED <<notes, clock, told, crashes>>

(* The work of a run, as far as the queue sees it. *)
Enqueue(r) ==
  /\ pc[r] = "working"
  /\ Len(notes) < MaxNotes
  /\ \/ \E refs \in Batch, urgent \in BOOLEAN :
          job[r].hurried /\ Put(NewNote("content", refs, {}, urgent, job[r].now))
     \/ \E kind \in {"summary", "ops"}, scope \in SUBSET Scope :
          /\ kind = "summary" => job[r].hurried
          /\ Put(NewNote(kind, {}, scope, FALSE, job[r].now))
  /\ UNCHANGED <<clock, pc, job, told, crashes>>

EndWork(r) ==
  /\ pc[r] = "working"
  /\ pc' = [pc EXCEPT ![r] = "flush"]
  /\ UNCHANGED <<notes, clock, job, told, crashes>>

(* Nothing left to send: the run releases the lock. *)
Finish(r) ==
  /\ pc[r] = "sending"
  /\ job[r].units = {}
  /\ pc' = [pc EXCEPT ![r] = "idle"]
  /\ job' = [job EXCEPT ![r] = NoJob]
  /\ UNCHANGED <<notes, clock, told, crashes>>

(* The process dies, or an exception no stage catches ends it. *)
Die(r) ==
  /\ pc[r] # "idle"
  /\ crashes < MaxCrashes
  /\ crashes' = crashes + 1
  /\ pc' = [pc EXCEPT ![r] = "idle"]
  /\ job' = [job EXCEPT ![r] = NoJob]
  /\ UNCHANGED <<notes, clock, told>>

Init ==
  /\ notes = <<>>
  /\ clock = 0
  /\ pc = [r \in Run |-> "idle"]
  /\ job = [r \in Run |-> NoJob]
  /\ told = {}
  /\ crashes = 0

Next ==
  \/ Tick
  \/ \E r \in Run :
       \/ Start(r) \/ Enqueue(r) \/ EndWork(r)
       \/ FlushBegin(r) \/ Mark(r) \/ DeadlinePasses(r) \/ Finish(r)
       \/ \E o \in Outcome : Send(r, o)
       \/ Die(r)

Spec == Init /\ [][Next]_queueVars

(* GitHub starts a run every so often and a run that lives goes on to its  *)
(* end.  Strong fairness for Send: runs do not for ever use up all of      *)
(* their time before the flush, of which finishMs is kept free (D-77).     *)
Fairness ==
  /\ WF_queueVars(Tick)
  /\ WF_queueVars(\E r \in Run : Start(r))
  /\ \A r \in Run :
       /\ WF_queueVars(EndWork(r))
       /\ WF_queueVars(FlushBegin(r) \/ Mark(r) \/ Finish(r))
       /\ SF_queueVars(\E o \in Outcome : Send(r, o))

FairSpec == Spec /\ Fairness

-----------------------------------------------------------------------------
(* Properties *)

(* The types of the table and of what a flush holds. *)
QueueTypeOK ==
  /\ notes \in Seq(Note)
  /\ clock \in 0..MaxTime
  /\ pc \in [Run -> {"idle", "working", "flush", "sending", "marking"}]
  /\ job \in [Run -> Job]
  /\ told \subseteq DOMAIN notes
  /\ crashes \in 0..MaxCrashes

(* flush: a row is marked sent only after Telegram accepted its message,   *)
(* whatever was lost on the way back, and whoever died in between.         *)
SentWasAccepted ==
  \A n \in DOMAIN notes : notes[n].state = "sent" => n \in told

(* flush, giveUp: what is still queued has tries left, also after a digest *)
(* has been charged to each of its rows.                                   *)
AttemptsBounded ==
  \A n \in DOMAIN notes :
    /\ notes[n].attempts <= MAX_ATTEMPTS
    /\ notes[n].state = "queued" => notes[n].attempts < MAX_ATTEMPTS

(* What run r tries to send in this step. *)
Tries(r, n) ==
  pc[r] = "sending" /\ pc'[r] = "marking" /\ n \in job'[r].unit.ids

(* releaseAfter and flush: what is held for the morning is not sent before *)
(* it, in any run, alone or in a digest.                                   *)
HeldUntilMorning ==
  [][\A r \in Run, n \in DOMAIN notes :
       Tries(r, n) /\ notes[n].held => notes[n].release <= clock]_queueVars

(* Every row is some day sent, or given up: no row stays queued for ever.  *)
EventuallySettled ==
  \A n \in 1..MaxNotes :
    (n \in DOMAIN notes) ~> (n \in DOMAIN notes /\ notes[n].state # "queued")

(* The queue is an outbox (Outbox.tla). *)
Promise == INSTANCE Outbox WITH
  status <- [n \in DOMAIN notes |-> notes[n].state],
  accepted <- told

(* At-least-once delivery: every step of the queue is a step of an outbox, *)
(* or none at all.                                                         *)
ImplementsOutbox == Promise!Spec

(* queue.ts:253: content is never sent during quiet hours unless urgent.   *)
ContentSleepsAtNight ==
  [][\A r \in Run, n \in DOMAIN notes :
       Tries(r, n) =>
         notes[n].kind = "ops" \/ notes[n].urgent \/ ~Quiet(job[r].now)]_queueVars

=============================================================================
