------------------------------ MODULE SyncLock ------------------------------
(***************************************************************************)
(* The sync_lock row (src/src/sync/lock.ts) and the part of runSync that   *)
(* takes and drops it (src/src/sync/run.ts, runSync).                      *)
(*                                                                         *)
(* Runs happen on different machines (a GitHub runner, a laptop), each     *)
(* with a clock of its own that is off by at most Skew.  A run reads its   *)
(* clock, and only then does the conditional UPDATE reach the database: it *)
(* is judged with the reading, however old it has become.  The heartbeat   *)
(* is written when the lock is taken and never refreshed, so a run that    *)
(* outlives LockStale can lose the lock while it works.                    *)
(***************************************************************************)
EXTENDS Integers

CONSTANTS
  Run,          \* the runs, one per process that calls runSync
  NoRun,        \* sync_lock.holder IS NULL
  LockStale,    \* LOCK_STALE_MS, in ticks
  JobTimeout,   \* a run is over (or killed) within this many ticks of its start
  Skew,         \* no machine's clock is further than this from the true time
  MaxTime       \* bound on the true time

ASSUME RunAssumption == NoRun \notin Run
ASSUME TimeAssumption ==
  /\ LockStale \in Nat /\ JobTimeout \in Nat /\ Skew \in Nat /\ MaxTime \in Nat
  /\ JobTimeout + 2 * Skew <= LockStale

VARIABLES
  now,        \* true time
  offset,     \* how far each machine's clock is from it
  lock,       \* the row: holder and heartbeat_at (meaningless without a holder)
  pc,         \* where each run is
  born,       \* when its process started
  reading     \* the clock reading its UPDATE carries

vars == <<now, offset, lock, pc, born, reading>>

Clock(r) == now + offset[r]

-----------------------------------------------------------------------------

Init ==
  /\ now = 0
  /\ offset \in [Run -> (-Skew)..Skew]
  /\ lock = [holder |-> NoRun, heartbeat |-> 0]
  /\ pc = [r \in Run |-> "idle"]
  /\ born = [r \in Run |-> 0]
  /\ reading = [r \in Run |-> 0]

(* The process is over, and its memory with it. *)
Gone(r) ==
  /\ pc' = [pc EXCEPT ![r] = "idle"]
  /\ born' = [born EXCEPT ![r] = 0]
  /\ reading' = [reading EXCEPT ![r] = 0]

(* The process starts: schema check, configuration, Healthchecks "start". *)
Start(r) ==
  /\ pc[r] = "idle"
  /\ pc' = [pc EXCEPT ![r] = "booting"]
  /\ born' = [born EXCEPT ![r] = now]
  /\ UNCHANGED <<now, offset, lock, reading>>

(* acquireLock computes its arguments from the machine's clock. *)
ReadClock(r) ==
  /\ pc[r] = "booting"
  /\ pc' = [pc EXCEPT ![r] = "asking"]
  /\ reading' = [reading EXCEPT ![r] = Clock(r)]
  /\ UNCHANGED <<now, offset, lock, born>>

(* Mutant: presumed abandoned as soon as a run may be over, clocks or not. *)
AvailableTooSoon(t) == lock.holder = NoRun \/ lock.heartbeat < t - JobTimeout

(* Mutant: a lock is never presumed abandoned. *)
AvailableNever(t) == lock.holder = NoRun

(* The WHERE clause: free, or presumed abandoned. *)
Available(t) == lock.holder = NoRun \/ lock.heartbeat < t - LockStale

(* Mutant: the finally block also covers a refused run, and clears the row *)
(* whoever holds it.                                                       *)
AcquireUnderFinally(r) ==
  /\ pc[r] = "asking"
  /\ IF Available(reading[r])
     THEN /\ lock' = [holder |-> r, heartbeat |-> reading[r]]
          /\ pc' = [pc EXCEPT ![r] = "inside"]
          /\ UNCHANGED <<born, reading>>
     ELSE /\ Gone(r)
          /\ lock' = [lock EXCEPT !.holder = NoRun]
  /\ UNCHANGED <<now, offset>>

(* The UPDATE changes one row or none; runSync returns 'skipped' on none. *)
Acquire(r) ==
  /\ pc[r] = "asking"
  /\ IF Available(reading[r])
     THEN /\ lock' = [holder |-> r, heartbeat |-> reading[r]]
          /\ pc' = [pc EXCEPT ![r] = "inside"]
          /\ UNCHANGED <<born, reading>>
     ELSE /\ Gone(r)
          /\ UNCHANGED lock
  /\ UNCHANGED <<now, offset>>

(* releaseLock in the finally block: clears the row only if it is ours. *)
Release(r) ==
  /\ pc[r] = "inside"
  /\ Gone(r)
  /\ lock' = IF lock.holder = r THEN [lock EXCEPT !.holder = NoRun] ELSE lock
  /\ UNCHANGED <<now, offset>>

(* The process dies, is killed at JobTimeout, or its release fails (the    *)
(* failure is swallowed): the row stays as it is.                          *)
Die(r) ==
  /\ pc[r] # "idle"
  /\ Gone(r)
  /\ UNCHANGED <<now, offset, lock>>

(* Mutant: nothing ends a run that takes too long. *)
TickUnlimited ==
  /\ now < MaxTime
  /\ now' = now + 1
  /\ UNCHANGED <<offset, lock, pc, born, reading>>

(* Time passes; timeout-minutes (and D-77's earlier budget) leave no run   *)
(* alive JobTimeout after its start.                                       *)
Tick ==
  /\ now < MaxTime
  /\ \A r \in Run : pc[r] # "idle" => now < born[r] + JobTimeout
  /\ now' = now + 1
  /\ UNCHANGED <<offset, lock, pc, born, reading>>

Next ==
  \/ Tick
  \/ \E r \in Run : Start(r) \/ ReadClock(r) \/ Acquire(r) \/ Release(r) \/ Die(r)

Spec == Init /\ [][Next]_vars

-----------------------------------------------------------------------------

Lock == [holder : Run \cup {NoRun}, heartbeat : Int]

(* The variables have their types, and no run is older than its limit. *)
TypeOK ==
  /\ now \in 0..MaxTime
  /\ offset \in [Run -> (-Skew)..Skew]
  /\ lock \in Lock
  /\ pc \in [Run -> {"idle", "booting", "asking", "inside"}]
  /\ born \in [Run -> 0..MaxTime]
  /\ reading \in [Run -> Int]
  /\ \A r \in Run : pc[r] # "idle" => now - born[r] \in 0..JobTimeout

(* Two runs never work on the database at the same time: the lock is       *)
(* presumed abandoned only after its holder is certainly gone, although    *)
(* the heartbeat is never refreshed, the two clocks disagree and the       *)
(* UPDATE is judged with an old reading (lock.ts, acquireLock).            *)
MutualExclusion ==
  \A r, s \in Run : pc[r] = "inside" /\ pc[s] = "inside" => r = s

(* Whoever works holds the row: nobody clears or takes it meanwhile, so    *)
(* the release in runSync's finally block always frees its own lock.       *)
WorkerHoldsLock ==
  \A r \in Run : pc[r] = "inside" => lock.holder = r

(* A run that died without releasing costs the others a bounded wait: a    *)
(* run is turned away only if, in true time, it asked within LockStale     *)
(* (and what two clocks can disagree by) of the lock being taken.          *)
RefusedOnlyWhileFresh ==
  [][\A r \in Run : Acquire(r) /\ pc'[r] = "idle" =>
       LET asked == reading[r] - offset[r]
           taken == lock.heartbeat - offset[lock.holder]
       IN  asked <= taken + LockStale + 2 * Skew]_vars

=============================================================================
