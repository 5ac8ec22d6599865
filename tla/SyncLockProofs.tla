--------------------------- MODULE SyncLockProofs ---------------------------
(***************************************************************************)
(* The lock keeps two runs apart, for any set of runs, any clock skew and  *)
(* any limits with JobTimeout + 2 * Skew <= LockStale.                     *)
(*                                                                         *)
(* MutualExclusion is not inductive: that a second run is refused depends  *)
(* on what the row says of the first, and on how old both readings are.    *)
(* LockInv adds exactly that.                                              *)
(***************************************************************************)
EXTENDS SyncLock, TLAPS

(* A reading that is in use was taken after the process started. *)
ReadingsAreRecent ==
  \A r \in Run : pc[r] \in {"asking", "inside"} =>
    /\ born[r] + offset[r] <= reading[r]
    /\ reading[r] <= now + offset[r]

(* The row describes the run that works. *)
RowDescribesWorker ==
  \A r \in Run : pc[r] = "inside" =>
    /\ lock.holder = r
    /\ lock.heartbeat = reading[r]

LockInv == TypeOK /\ ReadingsAreRecent /\ RowDescribesWorker

-----------------------------------------------------------------------------

(* Initially no run exists, so nothing is claimed of any. *)
LEMMA LockInit == Init => LockInv
BY RunAssumption, TimeAssumption
   DEF Init, LockInv, TypeOK, ReadingsAreRecent, RowDescribesWorker, Lock

(* A run that works keeps every other run out: its heartbeat cannot have   *)
(* become stale for any clock.                                             *)
LEMMA WorkerExcludes ==
  ASSUME LockInv, NEW r \in Run, NEW s \in Run,
         pc[r] = "asking", pc[s] = "inside"
  PROVE  ~Available(reading[r])
<1>1. lock.holder = s /\ s # NoRun /\ lock.heartbeat = reading[s]
  BY RunAssumption DEF LockInv, RowDescribesWorker
<1>2. reading[r] <= now + Skew /\ reading[r] \in Int
  BY TimeAssumption DEF LockInv, TypeOK, ReadingsAreRecent
<1>3. now - JobTimeout - Skew <= reading[s] /\ reading[s] \in Int
  <2>1. now - born[s] <= JobTimeout /\ now \in Int /\ born[s] \in Int
    BY TimeAssumption DEF LockInv, TypeOK
  <2>2. born[s] + offset[s] <= reading[s] /\ -Skew <= offset[s] /\ offset[s] \in Int
    BY TimeAssumption DEF LockInv, TypeOK, ReadingsAreRecent
  <2> QED  BY <2>1, <2>2, TimeAssumption DEF LockInv, TypeOK
<1>4. now \in Int
  BY TimeAssumption DEF LockInv, TypeOK
<1> QED  BY <1>1, <1>2, <1>3, <1>4, TimeAssumption DEF Available

(* Every step keeps the invariant. *)
LEMMA LockNext == LockInv /\ [Next]_vars => LockInv'
<1> SUFFICES ASSUME LockInv, [Next]_vars
             PROVE  LockInv'
  OBVIOUS
<1> USE RunAssumption, TimeAssumption
<1>1. CASE Tick
  BY <1>1 DEF LockInv, TypeOK, ReadingsAreRecent, RowDescribesWorker, Tick, Lock
<1>2. ASSUME NEW r \in Run, Start(r)
      PROVE  LockInv'
  BY <1>2 DEF LockInv, TypeOK, ReadingsAreRecent, RowDescribesWorker, Start, Lock
<1>3. ASSUME NEW r \in Run, ReadClock(r)
      PROVE  LockInv'
  BY <1>3 DEF LockInv, TypeOK, ReadingsAreRecent, RowDescribesWorker, ReadClock,
              Clock, Lock
<1>4. ASSUME NEW r \in Run, Acquire(r)
      PROVE  LockInv'
  <2>1. CASE Available(reading[r])
    <3>1. /\ pc[r] = "asking"
          /\ lock' = [holder |-> r, heartbeat |-> reading[r]]
          /\ pc' = [pc EXCEPT ![r] = "inside"]
          /\ UNCHANGED <<now, offset, born, reading>>
      BY <1>4, <2>1 DEF Acquire
    <3>2. \A s \in Run : pc[s] # "inside"
      BY <2>1, <3>1, WorkerExcludes
    <3>3. TypeOK'
      BY <3>1 DEF LockInv, TypeOK, Lock
    <3>4. ReadingsAreRecent'
      BY <3>1 DEF LockInv, TypeOK, ReadingsAreRecent
    <3>5. RowDescribesWorker'
      BY <3>1, <3>2 DEF LockInv, TypeOK, RowDescribesWorker
    <3> QED  BY <3>3, <3>4, <3>5 DEF LockInv
  <2>2. CASE ~Available(reading[r])
    BY <1>4, <2>2 DEF Acquire, Gone, LockInv, TypeOK, ReadingsAreRecent,
                      RowDescribesWorker
  <2> QED  BY <2>1, <2>2
<1>5. ASSUME NEW r \in Run, Release(r)
      PROVE  LockInv'
  <2>1. \A s \in Run : pc'[s] = "inside" => pc[s] = "inside" /\ s # r
    BY <1>5 DEF Release, Gone, LockInv, TypeOK
  <2>2. \A s \in Run : pc[s] = "inside" => s = r
    BY <1>5 DEF Release, LockInv, RowDescribesWorker
  <2>3. TypeOK'
    BY <1>5 DEF Release, Gone, LockInv, TypeOK, Lock
  <2>4. ReadingsAreRecent'
    BY <1>5 DEF Release, Gone, LockInv, TypeOK, ReadingsAreRecent
  <2> QED  BY <2>1, <2>2, <2>3, <2>4 DEF LockInv, RowDescribesWorker
<1>6. ASSUME NEW r \in Run, Die(r)
      PROVE  LockInv'
  BY <1>6 DEF Die, Gone, LockInv, TypeOK, ReadingsAreRecent, RowDescribesWorker
<1>7. CASE UNCHANGED vars
  BY <1>7 DEF vars, LockInv, TypeOK, ReadingsAreRecent, RowDescribesWorker
<1> QED  BY <1>1, <1>2, <1>3, <1>4, <1>5, <1>6, <1>7 DEF Next

(* The invariant holds in every reachable state. *)
LEMMA LockInvariant == Spec => []LockInv
BY LockInit, LockNext, PTL DEF Spec

-----------------------------------------------------------------------------

(* The variables keep their types, and no run outlives JobTimeout. *)
THEOREM SyncLockTypeOK == Spec => []TypeOK
<1>1. LockInv => TypeOK
  BY DEF LockInv
<1> QED  BY <1>1, LockInvariant, PTL

(* No two runs work on the database at once, whatever the clocks say. *)
THEOREM SyncLockMutualExclusion == Spec => []MutualExclusion
<1>1. LockInv => MutualExclusion
  BY DEF LockInv, RowDescribesWorker, MutualExclusion
<1> QED  BY <1>1, LockInvariant, PTL

(* The run that works is the one the row names: its release frees its own  *)
(* lock, and nobody has taken it from it.                                  *)
THEOREM SyncLockHeldByWorker == Spec => []WorkerHoldsLock
<1>1. LockInv => WorkerHoldsLock
  BY DEF LockInv, RowDescribesWorker, WorkerHoldsLock
<1> QED  BY <1>1, LockInvariant, PTL

(* A run is turned away only while the lock it met was young: a dead       *)
(* holder costs the others LockStale, and what two clocks may differ by.   *)
THEOREM SyncLockRefusedWhileFresh == Spec => RefusedOnlyWhileFresh
<1> DEFINE Fresh(r) ==
      Acquire(r) /\ pc'[r] = "idle" =>
        LET asked == reading[r] - offset[r]
            taken == lock.heartbeat - offset[lock.holder]
        IN  asked <= taken + LockStale + 2 * Skew
<1>1. ASSUME LockInv, NEW r \in Run, Acquire(r), pc'[r] = "idle"
      PROVE  reading[r] - offset[r]
               <= lock.heartbeat - offset[lock.holder] + LockStale + 2 * Skew
  <2>1. ~Available(reading[r])
    BY <1>1 DEF Acquire, LockInv, TypeOK
  <2>2. /\ lock.holder \in Run
        /\ lock.heartbeat \in Int /\ reading[r] \in Int
        /\ reading[r] - LockStale <= lock.heartbeat
    BY <1>1, <2>1, TimeAssumption DEF Available, LockInv, TypeOK, Lock
  <2>3. \A s \in Run : offset[s] \in Int /\ -Skew <= offset[s] /\ offset[s] <= Skew
    BY <1>1, TimeAssumption DEF LockInv, TypeOK
  <2> QED  BY <2>2, <2>3, TimeAssumption
<1>2. LockInv /\ [Next]_vars => [\A r \in Run : Fresh(r)]_vars
  BY <1>1
<1> QED  BY <1>2, LockInvariant, PTL DEF Spec, RefusedOnlyWhileFresh

=============================================================================
