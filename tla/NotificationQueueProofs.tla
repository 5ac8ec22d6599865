----------------------- MODULE NotificationQueueProofs -----------------------
(***************************************************************************)
(* What the queue guarantees for any set of runs, any messages and any     *)
(* number of attempts.                                                     *)
(*                                                                         *)
(* None of the properties is inductive: between reading what is due and    *)
(* recording an outcome a run works with what the table said before.       *)
(* QueueInv says that this is still true: no other run is at work, what is *)
(* to be sent is still queued, with the attempts it had, in one unit only; *)
(* and a verdict of "sent" follows an acceptance.                          *)
(***************************************************************************)
EXTENDS NotificationQueue, SequenceTheorems, TLAPS

(* At most one run is at work. *)
OneAtWork == \A r, s \in Run : pc[r] # "idle" /\ pc[s] # "idle" => r = s

(* The units a run has in hand, the one being sent included. *)
InHand(r) == job[r].units \cup IF pc[r] = "marking" THEN {job[r].unit} ELSE {}

(* What is in hand is still as it was read. *)
UnitsAreCurrent ==
  \A r \in Run : pc[r] \in {"sending", "marking"} =>
    \A u \in InHand(r) :
      /\ u.ids \subseteq DOMAIN notes
      /\ \A n \in u.ids : notes[n].state = "queued" /\ notes[n].attempts \in u.attempts

(* No row is in two units. *)
UnitsAreDisjoint ==
  \A r \in Run : pc[r] \in {"sending", "marking"} =>
    \A u, w \in InHand(r) : u = w \/ u.ids \cap w.ids = {}

(* The unit being sent is no longer among those still to send. *)
UnitIsTaken == \A r \in Run : pc[r] = "marking" => job[r].unit \notin job[r].units

(* What is about to be recorded is true of the unit. *)
VerdictIsTrue ==
  \A r \in Run : pc[r] = "marking" =>
    /\ job[r].verdict \in NoteState
    /\ job[r].verdict = "sent" => job[r].unit.ids \subseteq told
    /\ job[r].verdict = "queued" => ~LastTry(job[r].unit)

QueueInv ==
  /\ QueueTypeOK /\ SentWasAccepted /\ AttemptsBounded
  /\ OneAtWork /\ UnitsAreCurrent /\ UnitsAreDisjoint /\ UnitIsTaken /\ VerdictIsTrue

-----------------------------------------------------------------------------
(* Lemmas about the operators *)

(* The positions of the table are the numbers up to its length. *)
LEMMA TableDomain ==
  ASSUME notes \in Seq(Note)
  PROVE  /\ Len(notes) \in Nat
         /\ DOMAIN notes = 1..Len(notes)
         /\ \A n \in DOMAIN notes : notes[n] \in Note /\ n \in Nat
BY LenProperties, ElementOfSeq

(* What NewNote builds is a row of the table, with all its attempts left. *)
LEMMA NewNoteIsNote ==
  ASSUME NEW kind \in Kind, NEW refs \in SUBSET Ref, NEW scope \in SUBSET Scope,
         NEW urgent \in BOOLEAN, NEW t \in Nat
  PROVE  /\ NewNote(kind, refs, scope, urgent, t) \in Note
         /\ NewNote(kind, refs, scope, urgent, t).state = "queued"
         /\ NewNote(kind, refs, scope, urgent, t).attempts = 0
<1>1. (kind # "ops" /\ Holds(urgent, t)) \in BOOLEAN
  OBVIOUS
<1>2. (IF kind # "ops" /\ Holds(urgent, t) THEN Morning(t) ELSE 0) \in Nat
  BY DEF Morning
<1> QED  BY <1>1, <1>2 DEF NewNote, Note, NoteState

(* Put keeps every row there is, and adds at most the one it is given. *)
LEMMA PutGrows ==
  ASSUME notes \in Seq(Note), NEW note \in Note, Put(note)
  PROVE  /\ notes' \in Seq(Note)
         /\ DOMAIN notes \subseteq DOMAIN notes'
         /\ \A n \in DOMAIN notes : notes'[n] = notes[n]
         /\ \A n \in DOMAIN notes' \ DOMAIN notes : notes'[n] = note
<1>1. CASE \E n \in DOMAIN notes : SameKey(notes[n], note)
  BY <1>1 DEF Put
<1>2. CASE ~ \E n \in DOMAIN notes : SameKey(notes[n], note)
  <2>1. notes' = Append(notes, note)
    BY <1>2 DEF Put
  <2>2. /\ notes' \in Seq(Note) /\ Len(notes) \in Nat
        /\ DOMAIN notes = 1..Len(notes) /\ DOMAIN notes' = 1..(Len(notes) + 1)
        /\ notes'[Len(notes) + 1] = note
        /\ \A n \in 1..Len(notes) : notes'[n] = notes[n]
    BY <2>1, AppendProperties, LenProperties
  <2> QED  BY <2>2
<1> QED  BY <1>1, <1>2

(* Recording an outcome changes the state and the attempts of those rows,  *)
(* and nothing else.                                                       *)
LEMMA MarkedRows ==
  ASSUME notes \in Seq(Note), NEW ids, NEW state \in NoteState
  PROVE  /\ Marked(ids, state) \in Seq(Note)
         /\ DOMAIN Marked(ids, state) = DOMAIN notes
         /\ \A n \in DOMAIN notes :
              IF n \in ids
              THEN /\ Marked(ids, state)[n].state = state
                   /\ Marked(ids, state)[n].attempts = notes[n].attempts + 1
              ELSE Marked(ids, state)[n] = notes[n]
<1>1. /\ Len(notes) \in Nat /\ DOMAIN notes = 1..Len(notes)
      /\ \A n \in DOMAIN notes : notes[n] \in Note
  BY TableDomain
<1>2. \A n \in DOMAIN notes :
        [notes[n] EXCEPT !.state = state, !.attempts = @ + 1] \in Note
  <2> SUFFICES ASSUME NEW row \in Note
               PROVE  [row EXCEPT !.state = state, !.attempts = @ + 1] \in Note
    BY <1>1
  <2>1. row.attempts + 1 \in Nat
    BY DEF Note
  <2> QED  BY <2>1 DEF Note
<1>3. Marked(ids, state) \in [1..Len(notes) -> Note]
  BY <1>1, <1>2 DEF Marked
<1>4. Marked(ids, state) \in Seq(Note)
  BY <1>1, <1>3, SeqDef
<1>5. \A n \in DOMAIN notes : n \in ids =>
        /\ Marked(ids, state)[n].state = state
        /\ Marked(ids, state)[n].attempts = notes[n].attempts + 1
  BY <1>1 DEF Marked, Note
<1> QED  BY <1>1, <1>3, <1>4, <1>5 DEF Marked

(* What flush reads: units of rows that are queued, each row in one unit. *)
LEMMA UnitsRead ==
  ASSUME notes \in Seq(Note), NEW t
  PROVE  /\ UnitsOf(notes, t) \subseteq Unit
         /\ \A u \in UnitsOf(notes, t) :
              /\ u.ids \subseteq DOMAIN notes
              /\ \A n \in u.ids : notes[n].state = "queued" /\ notes[n].attempts \in u.attempts
         /\ \A u, w \in UnitsOf(notes, t) : u = w \/ u.ids \cap w.ids = {}
<1>1. \A n \in DOMAIN notes : n \in Nat /\ notes[n].attempts \in Nat
  BY TableDomain DEF Note
<1>2. /\ Due(notes, t) \subseteq DOMAIN notes
      /\ \A n \in Due(notes, t) : notes[n].state = "queued"
      /\ Mergeable(notes, t) \subseteq Due(notes, t)
  BY DEF Due, Mergeable
<1>3. \A ids \in SUBSET Due(notes, t) :
        /\ UnitOf(notes, ids) \in Unit
        /\ UnitOf(notes, ids).ids = ids
        /\ \A n \in ids : notes[n].attempts \in UnitOf(notes, ids).attempts
  BY <1>1, <1>2 DEF UnitOf, Unit
<1>4. \A u \in UnitsOf(notes, t) : \E ids \in SUBSET Due(notes, t) :
        /\ u = UnitOf(notes, ids)
        /\ (\E n \in Due(notes, t) : ids = {n}) \/ ids = Mergeable(notes, t)
  BY <1>2 DEF UnitsOf
<1>5. /\ UnitsOf(notes, t) \subseteq Unit
      /\ \A u \in UnitsOf(notes, t) :
           /\ u.ids \subseteq DOMAIN notes
           /\ \A n \in u.ids : notes[n].state = "queued" /\ notes[n].attempts \in u.attempts
  BY <1>2, <1>3, <1>4
<1>6. ASSUME NEW u \in UnitsOf(notes, t), NEW w \in UnitsOf(notes, t), NEW n,
             n \in u.ids, n \in w.ids
      PROVE  u = w
  <2>1. CASE Cardinality(Mergeable(notes, t)) > 1
    <3>1. /\ \/ \E m \in Due(notes, t) \ Mergeable(notes, t) : u = UnitOf(notes, {m})
             \/ u = UnitOf(notes, Mergeable(notes, t))
          /\ \/ \E m \in Due(notes, t) \ Mergeable(notes, t) : w = UnitOf(notes, {m})
             \/ w = UnitOf(notes, Mergeable(notes, t))
      BY <2>1, <1>6 DEF UnitsOf
    <3>2. \A m : UnitOf(notes, {m}).ids = {m}
      BY DEF UnitOf
    <3>3. UnitOf(notes, Mergeable(notes, t)).ids = Mergeable(notes, t)
      BY DEF UnitOf
    <3>4. CASE n \in Mergeable(notes, t)
      <4>1. u = UnitOf(notes, Mergeable(notes, t)) /\ w = UnitOf(notes, Mergeable(notes, t))
        BY <3>1, <3>2, <3>4, <1>6
      <4> QED  BY <4>1
    <3>5. CASE n \notin Mergeable(notes, t)
      <4>1. u = UnitOf(notes, {n}) /\ w = UnitOf(notes, {n})
        BY <3>1, <3>2, <3>3, <3>5, <1>6
      <4> QED  BY <4>1
    <3> QED  BY <3>4, <3>5
  <2>2. CASE ~(Cardinality(Mergeable(notes, t)) > 1)
    <3>1. /\ \E m \in Due(notes, t) : u = UnitOf(notes, {m})
          /\ \E m \in Due(notes, t) : w = UnitOf(notes, {m})
      BY <2>2, <1>6 DEF UnitsOf
    <3>2. \A m : UnitOf(notes, {m}).ids = {m}
      BY DEF UnitOf
    <3> QED  BY ZenonT(40), <3>1, <3>2, <1>6
  <2> QED  BY <2>1, <2>2
<1> QED  BY <1>5, <1>6

-----------------------------------------------------------------------------
(* The invariant *)

LEMMA QueueInit == Init => QueueInv
<1> SUFFICES ASSUME Init PROVE QueueInv
  OBVIOUS
<1>1. QueueTypeOK
  BY QueueAssumption, EmptySeq
     DEF Init, QueueTypeOK, Job, NoJob, Unit, NoUnit
<1> QED  BY <1>1 DEF Init, QueueInv, SentWasAccepted, AttemptsBounded, OneAtWork,
                     UnitsAreCurrent, UnitsAreDisjoint, UnitIsTaken, VerdictIsTrue

(* A run that is at work is alone, so what it holds of the table is safe   *)
(* from every step of another run: there is none.                          *)
LEMMA Alone ==
  ASSUME QueueInv, NEW r \in Run, NEW s \in Run, pc[r] # "idle", s # r
  PROVE  pc[s] = "idle"
BY DEF QueueInv, OneAtWork

LEMMA StartKeeps == ASSUME QueueInv, NEW r \in Run, Start(r) PROVE QueueInv'
<1>1. /\ \A s \in Run : pc[s] = "idle"
      /\ pc' = [pc EXCEPT ![r] = "working"]
      /\ \E hurried \in BOOLEAN :
           job' = [job EXCEPT ![r].now = clock, ![r].hurried = hurried]
      /\ UNCHANGED <<notes, clock, told, crashes>>
  BY DEF Start, MayStart
<1>2. QueueTypeOK'
  <2>1. clock \in Nat /\ job \in [Run -> Job]
    BY QueueAssumption DEF QueueInv, QueueTypeOK
  <2>2. PICK hurried \in BOOLEAN :
          job' = [job EXCEPT ![r].now = clock, ![r].hurried = hurried]
    BY <1>1
  <2>3. job' = [job EXCEPT ![r] = [job[r] EXCEPT !.now = clock, !.hurried = hurried]]
    BY <2>1, <2>2 DEF Job
  <2>4. [job[r] EXCEPT !.now = clock, !.hurried = hurried] \in Job
    BY <2>1 DEF Job
  <2>5. job' \in [Run -> Job]
    BY <2>1, <2>3, <2>4
  <2> QED  BY <1>1, <2>5 DEF QueueInv, QueueTypeOK
<1> QED  BY <1>1, <1>2 DEF QueueInv, QueueTypeOK, SentWasAccepted, AttemptsBounded,
           OneAtWork, UnitsAreCurrent, UnitsAreDisjoint, UnitIsTaken, VerdictIsTrue

(* What is enqueued is a new row, with all its attempts left. *)
LEMMA EnqueuePuts ==
  ASSUME QueueInv, NEW r \in Run, Enqueue(r)
  PROVE  \E note \in Note : Put(note) /\ note.state = "queued" /\ note.attempts = 0
<1>0. job[r].now \in Nat
  BY DEF QueueInv, QueueTypeOK, Job
<1>1. CASE \E refs \in Batch, urgent \in BOOLEAN :
             Put(NewNote("content", refs, {}, urgent, job[r].now))
  <2>1. PICK refs \in Batch, urgent \in BOOLEAN :
          Put(NewNote("content", refs, {}, urgent, job[r].now))
    BY <1>1
  <2>2. refs \in SUBSET Ref /\ {} \in SUBSET Scope /\ "content" \in Kind
    BY QueueAssumption DEF Kind
  <2> QED  BY <1>0, <2>1, <2>2, NewNoteIsNote
<1>2. CASE \E kind \in {"summary", "ops"}, scope \in SUBSET Scope :
             Put(NewNote(kind, {}, scope, FALSE, job[r].now))
  <2>1. PICK kind \in {"summary", "ops"}, scope \in SUBSET Scope :
          Put(NewNote(kind, {}, scope, FALSE, job[r].now))
    BY <1>2
  <2>2. kind \in Kind /\ {} \in SUBSET Ref /\ FALSE \in BOOLEAN
    BY DEF Kind
  <2> QED  BY <1>0, <2>1, <2>2, NewNoteIsNote
<1> QED  BY <1>1, <1>2 DEF Enqueue

LEMMA EnqueueKeeps == ASSUME QueueInv, NEW r \in Run, Enqueue(r) PROVE QueueInv'
<1>1. /\ pc[r] = "working"
      /\ UNCHANGED <<clock, pc, job, told, crashes>>
  BY DEF Enqueue
<1>2. PICK note \in Note : Put(note) /\ note.state = "queued" /\ note.attempts = 0
  BY EnqueuePuts
<1>3. /\ notes' \in Seq(Note)
      /\ DOMAIN notes \subseteq DOMAIN notes'
      /\ \A n \in DOMAIN notes : notes'[n] = notes[n]
      /\ \A n \in DOMAIN notes' \ DOMAIN notes :
           notes'[n].state = "queued" /\ notes'[n].attempts = 0
  BY <1>2, PutGrows DEF QueueInv, QueueTypeOK
<1>4. QueueTypeOK'
  BY <1>1, <1>3 DEF QueueInv, QueueTypeOK
<1>5. SentWasAccepted'
  BY <1>1, <1>3 DEF QueueInv, SentWasAccepted
<1>6. AttemptsBounded'
  BY <1>3, QueueAssumption DEF QueueInv, AttemptsBounded
<1>7. UnitsAreCurrent'
  BY <1>1, <1>3 DEF QueueInv, UnitsAreCurrent, InHand
<1> QED  BY <1>1, <1>4, <1>5, <1>6, <1>7
         DEF QueueInv, OneAtWork, UnitsAreDisjoint, InHand, UnitIsTaken, VerdictIsTrue, LastTry

LEMMA EndWorkKeeps == ASSUME QueueInv, NEW r \in Run, EndWork(r) PROVE QueueInv'
BY DEF EndWork, QueueInv, QueueTypeOK, SentWasAccepted, AttemptsBounded, OneAtWork,
       UnitsAreCurrent, UnitsAreDisjoint, InHand, UnitIsTaken, VerdictIsTrue, LastTry

LEMMA FlushBeginKeeps == ASSUME QueueInv, NEW r \in Run, FlushBegin(r) PROVE QueueInv'
<1>1. /\ pc[r] = "flush"
      /\ pc' = [pc EXCEPT ![r] = "sending"]
      /\ job' = [job EXCEPT ![r].units = UnitsOf(notes, job[r].now)]
      /\ UNCHANGED <<notes, clock, told, crashes>>
  BY DEF FlushBegin
<1>2. \A s \in Run \ {r} : pc[s] = "idle" /\ pc'[s] = "idle"
  BY <1>1, Alone DEF QueueInv, QueueTypeOK
<1>3. notes \in Seq(Note) /\ job \in [Run -> Job]
  BY DEF QueueInv, QueueTypeOK
<1>4. QueueTypeOK'
  <2>1. job' \in [Run -> Job]
    BY <1>1, <1>3, UnitsRead DEF Job
  <2> QED  BY <1>1, <2>1 DEF QueueInv, QueueTypeOK
<1>5. pc'[r] = "sending" /\ InHand(r)' = UnitsOf(notes, job[r].now)
  BY <1>1, <1>3 DEF QueueInv, QueueTypeOK, InHand, Job
<1>6. UnitsAreCurrent' /\ UnitsAreDisjoint'
  BY <1>1, <1>2, <1>3, <1>5, UnitsRead DEF UnitsAreCurrent, UnitsAreDisjoint
<1> QED  BY <1>1, <1>2, <1>4, <1>5, <1>6
         DEF QueueInv, SentWasAccepted, AttemptsBounded, OneAtWork, UnitIsTaken, VerdictIsTrue

(* The state recorded is one of the three. *)
LEMMA RecordedIsState ==
  ASSUME NEW u, NEW o \in Outcome
  PROVE  /\ Recorded(u, o) \in NoteState
         /\ Recorded(u, o) = "sent" => Accepted(o)
         /\ Recorded(u, o) = "queued" => ~LastTry(u)
<1>1. CASE o = "accepted"
  BY <1>1 DEF Recorded, NoteState, Accepted
<1>2. CASE o # "accepted" /\ (~Retryable(o) \/ LastTry(u))
  BY <1>2 DEF Recorded, NoteState
<1>3. CASE o # "accepted" /\ ~(~Retryable(o) \/ LastTry(u))
  <2>1. Recorded(u, o) = "queued"
    BY <1>3 DEF Recorded
  <2> QED  BY <1>3, <2>1 DEF NoteState
<1> QED  BY <1>1, <1>2, <1>3

LEMMA SendKeeps ==
  ASSUME QueueInv, NEW r \in Run, NEW o \in Outcome, Send(r, o) PROVE QueueInv'
<1>1. PICK u \in job[r].units :
        /\ job' = [job EXCEPT ![r].units = @ \ {u}, ![r].unit = u,
                              ![r].verdict = Recorded(u, o)]
        /\ told' = IF Accepted(o) THEN told \cup u.ids ELSE told
  BY DEF Send
<1>2. /\ pc[r] = "sending"
      /\ pc' = [pc EXCEPT ![r] = "marking"]
      /\ UNCHANGED <<notes, clock, crashes>>
  BY DEF Send
<1>3. \A s \in Run \ {r} : pc[s] = "idle" /\ pc'[s] = "idle"
  BY <1>2, Alone DEF QueueInv, QueueTypeOK
<1>4. /\ job \in [Run -> Job] /\ u \in Unit
      /\ pc \in [Run -> {"idle", "working", "flush", "sending", "marking"}]
  BY DEF QueueInv, QueueTypeOK, Job
<1>5. /\ job'[r].unit = u
      /\ job'[r].units = job[r].units \ {u}
      /\ job'[r].verdict = Recorded(u, o)
      /\ pc'[r] = "marking"
  BY <1>1, <1>2, <1>4 DEF Job
<1>6. InHand(r)' = InHand(r)
  BY <1>2, <1>5 DEF InHand
<1>7. QueueTypeOK'
  <2>1. job' \in [Run -> Job]
    BY ZenonT(40), <1>1, <1>4, RecordedIsState DEF Job
  <2>2. u.ids \subseteq DOMAIN notes
    BY <1>2 DEF QueueInv, UnitsAreCurrent, InHand
  <2> QED  BY <1>1, <1>2, <2>1, <2>2 DEF QueueInv, QueueTypeOK
<1>8. SentWasAccepted' /\ AttemptsBounded'
  BY <1>1, <1>2 DEF QueueInv, SentWasAccepted, AttemptsBounded
<1>9. UnitsAreCurrent' /\ UnitsAreDisjoint'
  BY <1>2, <1>3, <1>6 DEF QueueInv, UnitsAreCurrent, UnitsAreDisjoint
<1>10. VerdictIsTrue'
  <2>1. Recorded(u, o) = "sent" => u.ids \subseteq told'
    BY <1>1, RecordedIsState
  <2>2. LastTry(u)' <=> LastTry(u)
    BY DEF LastTry
  <2>3. /\ job'[r].verdict \in NoteState
        /\ job'[r].verdict = "sent" => job'[r].unit.ids \subseteq told'
        /\ job'[r].verdict = "queued" => ~LastTry(job'[r].unit)
    BY <1>5, <2>1, <2>2, RecordedIsState
  <2>4. ASSUME NEW s \in Run, pc'[s] = "marking" PROVE s = r
    BY <1>3, <2>4
  <2> QED  BY <2>3, <2>4 DEF VerdictIsTrue, LastTry
<1> QED  BY <1>3, <1>5, <1>7, <1>8, <1>9, <1>10 DEF QueueInv, OneAtWork, UnitIsTaken

LEMMA MarkKeeps == ASSUME QueueInv, NEW r \in Run, Mark(r) PROVE QueueInv'
<1> DEFINE ids == job[r].unit.ids
           state == job[r].verdict
<1>1. /\ pc[r] = "marking"
      /\ notes' = Marked(ids, state)
      /\ job' = [job EXCEPT ![r].unit = NoUnit, ![r].verdict = "none"]
      /\ pc' = [pc EXCEPT ![r] = "sending"]
      /\ UNCHANGED <<clock, told, crashes>>
  BY DEF Mark
<1>2. \A s \in Run \ {r} : pc[s] = "idle" /\ pc'[s] = "idle"
  BY <1>1, Alone DEF QueueInv, QueueTypeOK
<1>3. /\ notes \in Seq(Note) /\ job \in [Run -> Job]
      /\ state \in NoteState
      /\ state = "sent" => ids \subseteq told
      /\ state = "queued" => ~LastTry(job[r].unit)
  BY <1>1 DEF QueueInv, QueueTypeOK, VerdictIsTrue
<1>4. /\ ids \subseteq DOMAIN notes
      /\ \A n \in ids : notes[n].state = "queued" /\ notes[n].attempts \in job[r].unit.attempts
  BY <1>1 DEF QueueInv, UnitsAreCurrent, InHand
<1>5. /\ notes' \in Seq(Note)
      /\ DOMAIN notes' = DOMAIN notes
      /\ \A n \in DOMAIN notes :
           IF n \in ids
           THEN notes'[n].state = state /\ notes'[n].attempts = notes[n].attempts + 1
           ELSE notes'[n] = notes[n]
  <2> HIDE DEF ids, state
  <2> QED  BY <1>1, <1>3, MarkedRows
<1>6. /\ pc'[r] = "sending"
      /\ InHand(r)' = job[r].units
      /\ job'[r].units = job[r].units
  BY <1>1, <1>3 DEF QueueInv, QueueTypeOK, InHand, Job
<1>7. QueueTypeOK'
  <2>1. job' \in [Run -> Job]
    BY ZenonT(40), <1>1, <1>3 DEF Job, Unit, NoUnit
  <2> QED  BY <1>1, <1>5, <2>1 DEF QueueInv, QueueTypeOK
<1>8. SentWasAccepted'
  BY <1>1, <1>3, <1>5 DEF QueueInv, SentWasAccepted
<1>9. AttemptsBounded'
  <2> SUFFICES ASSUME NEW n \in DOMAIN notes
               PROVE  /\ notes'[n].attempts <= MAX_ATTEMPTS
                      /\ notes'[n].state = "queued" => notes'[n].attempts < MAX_ATTEMPTS
    BY <1>5 DEF AttemptsBounded
  <2>1. /\ notes[n].attempts \in Nat /\ MAX_ATTEMPTS \in Nat
        /\ notes[n].attempts <= MAX_ATTEMPTS
        /\ notes[n].state = "queued" => notes[n].attempts < MAX_ATTEMPTS
    BY <1>3, TableDomain, QueueAssumption DEF QueueInv, AttemptsBounded, Note
  <2>2. CASE n \in ids
    BY <1>3, <1>4, <1>5, <2>1, <2>2 DEF LastTry
  <2>3. CASE n \notin ids
    BY <1>5, <2>1, <2>3
  <2> QED  BY <2>2, <2>3
<1>10. UnitsAreCurrent'
  <2>1. ASSUME NEW u \in job[r].units, NEW n \in u.ids
        PROVE  /\ n \in DOMAIN notes' /\ notes'[n].state = "queued"
               /\ notes'[n].attempts \in u.attempts
    <3>1. u \in InHand(r) /\ job[r].unit \in InHand(r) /\ u # job[r].unit
      BY <1>1 DEF QueueInv, UnitIsTaken, InHand
    <3>2. n \notin ids
      BY <1>1, <3>1 DEF QueueInv, UnitsAreDisjoint
    <3> QED  BY <1>1, <1>5, <3>1, <3>2 DEF QueueInv, UnitsAreCurrent
  <2> QED  BY <1>2, <1>6, <2>1 DEF UnitsAreCurrent
<1>11. UnitsAreDisjoint'
  BY <1>1, <1>2, <1>6 DEF QueueInv, UnitsAreDisjoint, InHand
<1> QED  BY <1>2, <1>6, <1>7, <1>8, <1>9, <1>10, <1>11
         DEF QueueInv, OneAtWork, UnitIsTaken, VerdictIsTrue

LEMMA DeadlineKeeps == ASSUME QueueInv, NEW r \in Run, DeadlinePasses(r) PROVE QueueInv'
<1>1. /\ pc[r] = "sending"
      /\ job' = [job EXCEPT ![r].units = {}]
      /\ UNCHANGED <<notes, clock, pc, told, crashes>>
  BY DEF DeadlinePasses
<1>2. \A s \in Run \ {r} : pc[s] = "idle"
  BY <1>1, Alone
<1>3. job'[r].units = {} /\ job' \in [Run -> Job]
  BY <1>1 DEF QueueInv, QueueTypeOK, Job
<1> QED  BY <1>1, <1>2, <1>3
         DEF QueueInv, QueueTypeOK, SentWasAccepted, AttemptsBounded, OneAtWork,
             UnitsAreCurrent, UnitsAreDisjoint, InHand, UnitIsTaken, VerdictIsTrue

(* Whether it ends or dies, what a run held is gone. *)
LEMMA EndKeeps ==
  ASSUME QueueInv, NEW r \in Run, pc[r] # "idle",
         pc' = [pc EXCEPT ![r] = "idle"], job' = [job EXCEPT ![r] = NoJob],
         crashes' \in 0..MaxCrashes, UNCHANGED <<notes, clock, told>>
  PROVE  QueueInv'
<1>1. \A s \in Run : pc'[s] = "idle"
  BY Alone DEF QueueInv, QueueTypeOK
<1>2. job' \in [Run -> Job]
  BY DEF QueueInv, QueueTypeOK, Job, NoJob, Unit, NoUnit
<1> QED  BY <1>1, <1>2
         DEF QueueInv, QueueTypeOK, SentWasAccepted, AttemptsBounded, OneAtWork,
             UnitsAreCurrent, UnitsAreDisjoint, UnitIsTaken, VerdictIsTrue

(* Every step keeps the invariant. *)
LEMMA QueueNext == QueueInv /\ [Next]_queueVars => QueueInv'
<1> SUFFICES ASSUME QueueInv, [Next]_queueVars
             PROVE  QueueInv'
  OBVIOUS
<1>1. CASE Tick
  <2>1. clock' \in 0..MaxTime /\ UNCHANGED <<notes, pc, job, told, crashes>>
    BY <1>1, QueueAssumption DEF Tick, QueueInv, QueueTypeOK
  <2>2. QueueTypeOK'
    BY <2>1 DEF QueueInv, QueueTypeOK
  <2> QED
    BY <2>1, <2>2
       DEF QueueInv, SentWasAccepted, AttemptsBounded, OneAtWork,
           UnitsAreCurrent, UnitsAreDisjoint, InHand, UnitIsTaken, VerdictIsTrue, LastTry
<1>2. ASSUME NEW r \in Run, Start(r) PROVE QueueInv'
  BY <1>2, StartKeeps
<1>3. ASSUME NEW r \in Run, Enqueue(r) PROVE QueueInv'
  BY <1>3, EnqueueKeeps
<1>4. ASSUME NEW r \in Run, EndWork(r) PROVE QueueInv'
  BY <1>4, EndWorkKeeps
<1>5. ASSUME NEW r \in Run, FlushBegin(r) PROVE QueueInv'
  BY <1>5, FlushBeginKeeps
<1>6. ASSUME NEW r \in Run, NEW o \in Outcome, Send(r, o) PROVE QueueInv'
  BY <1>6, SendKeeps
<1>7. ASSUME NEW r \in Run, Mark(r) PROVE QueueInv'
  BY <1>7, MarkKeeps
<1>8. ASSUME NEW r \in Run, DeadlinePasses(r) PROVE QueueInv'
  BY <1>8, DeadlineKeeps
<1>9. ASSUME NEW r \in Run, Finish(r) PROVE QueueInv'
  BY <1>9, EndKeeps DEF Finish, QueueInv, QueueTypeOK
<1>10. ASSUME NEW r \in Run, Die(r) PROVE QueueInv'
  <2>1. /\ pc[r] # "idle" /\ crashes < MaxCrashes /\ crashes' = crashes + 1
        /\ pc' = [pc EXCEPT ![r] = "idle"] /\ job' = [job EXCEPT ![r] = NoJob]
        /\ UNCHANGED <<notes, clock, told>>
    BY <1>10 DEF Die
  <2>2. crashes' \in 0..MaxCrashes
    BY <2>1, QueueAssumption DEF QueueInv, QueueTypeOK
  <2> QED  BY <2>1, <2>2, EndKeeps
<1>11. CASE UNCHANGED queueVars
  BY <1>11
     DEF queueVars, QueueInv, QueueTypeOK, SentWasAccepted, AttemptsBounded, OneAtWork,
         UnitsAreCurrent, UnitsAreDisjoint, InHand, UnitIsTaken, VerdictIsTrue, LastTry
<1> QED  BY <1>1, <1>2, <1>3, <1>4, <1>5, <1>6, <1>7, <1>8, <1>9, <1>10, <1>11 DEF Next

(* The invariant holds in every reachable state. *)
LEMMA QueueInvariant == Spec => []QueueInv
BY QueueInit, QueueNext, PTL DEF Spec

-----------------------------------------------------------------------------
(* The theorems *)

(* The table and what the runs hold keep their types. *)
THEOREM QueueTypes == Spec => []QueueTypeOK
<1>1. QueueInv => QueueTypeOK
  BY DEF QueueInv
<1> QED  BY <1>1, QueueInvariant, PTL

(* No row is marked sent that Telegram did not accept. *)
THEOREM QueueSentWasAccepted == Spec => []SentWasAccepted
<1>1. QueueInv => SentWasAccepted
  BY DEF QueueInv
<1> QED  BY <1>1, QueueInvariant, PTL

(* Nothing is tried more than MAX_ATTEMPTS times, digests included. *)
THEOREM QueueAttemptsBounded == Spec => []AttemptsBounded
<1>1. QueueInv => AttemptsBounded
  BY DEF QueueInv
<1> QED  BY <1>1, QueueInvariant, PTL

-----------------------------------------------------------------------------
(* What is held.  A run compares releases with the time it read at its     *)
(* start, and that time is past when it sends.                             *)

TimesArePast == \A r \in Run : pc[r] # "idle" => job[r].now <= clock

(* What is in hand had been released when the run started. *)
UnitsAreReleased ==
  \A r \in Run : pc[r] \in {"sending", "marking"} =>
    \A u \in InHand(r) : \A n \in u.ids :
      notes[n].held => notes[n].release <= job[r].now

HoldInv == TimesArePast /\ UnitsAreReleased

(* The rows of the units read are due. *)
LEMMA UnitsAreDue ==
  ASSUME NEW ns, NEW t, NEW u \in UnitsOf(ns, t), NEW n \in u.ids
  PROVE  n \in DOMAIN ns /\ (ns[n].held => ns[n].release <= t)
<1>1. Mergeable(ns, t) \subseteq Due(ns, t)
  BY DEF Mergeable
<1>2. n \in Due(ns, t)
  BY <1>1 DEF UnitsOf, UnitOf
<1> QED  BY <1>2 DEF Due

(* Recording an outcome leaves what a row is held for. *)
LEMMA MarkedHolds ==
  ASSUME NEW ids, NEW state, NEW n \in DOMAIN notes, notes[n] \in Note
  PROVE  /\ Marked(ids, state)[n].held = notes[n].held
         /\ Marked(ids, state)[n].release = notes[n].release
BY DEF Marked, Note

LEMMA HoldNext == QueueInv /\ HoldInv /\ [Next]_queueVars => HoldInv'
<1> SUFFICES ASSUME QueueInv, HoldInv, [Next]_queueVars
             PROVE  HoldInv'
  OBVIOUS
<1>0. /\ job \in [Run -> Job] /\ clock \in Nat /\ notes \in Seq(Note)
      /\ pc \in [Run -> {"idle", "working", "flush", "sending", "marking"}]
      /\ \A r \in Run : job[r].now \in Nat
  BY QueueAssumption DEF QueueInv, QueueTypeOK, Job
<1>1. CASE Tick
  BY <1>0, <1>1 DEF Tick, HoldInv, TimesArePast, UnitsAreReleased, InHand
<1>2. ASSUME NEW r \in Run, Start(r) PROVE HoldInv'
  <2>1. /\ \A s \in Run : pc[s] = "idle"
        /\ pc' = [pc EXCEPT ![r] = "working"]
        /\ clock' = clock
    BY <1>2 DEF Start, MayStart
  <2>2. job'[r].now = clock
    BY <1>0, <1>2 DEF Start, Job
  <2>3. \A s \in Run : pc'[s] # "idle" => s = r /\ pc'[s] = "working"
    BY <1>0, <2>1
  <2> QED  BY <1>0, <2>1, <2>2, <2>3 DEF HoldInv, TimesArePast, UnitsAreReleased
<1>3. ASSUME NEW r \in Run, Enqueue(r) PROVE HoldInv'
  <2>1. PICK note \in Note : Put(note)
    BY <1>3, EnqueuePuts
  <2>2. \A n \in DOMAIN notes : notes'[n] = notes[n]
    BY <1>0, <2>1, PutGrows
  <2>3. UNCHANGED <<clock, pc, job>>
    BY <1>3 DEF Enqueue
  <2>4. \A s \in Run : InHand(s)' = InHand(s)
    BY <2>3 DEF InHand
  <2>5. UnitsAreReleased'
    BY <2>2, <2>3, <2>4 DEF QueueInv, UnitsAreCurrent, HoldInv, UnitsAreReleased
  <2> QED  BY <2>3, <2>5 DEF HoldInv, TimesArePast
<1>4. ASSUME NEW r \in Run, EndWork(r) PROVE HoldInv'
  BY <1>0, <1>4 DEF EndWork, HoldInv, TimesArePast, UnitsAreReleased, InHand
<1>5. ASSUME NEW r \in Run, FlushBegin(r) PROVE HoldInv'
  <2>1. /\ pc[r] = "flush"
        /\ pc' = [pc EXCEPT ![r] = "sending"]
        /\ job' = [job EXCEPT ![r].units = UnitsOf(notes, job[r].now)]
        /\ UNCHANGED <<notes, clock>>
    BY <1>5 DEF FlushBegin
  <2>2. /\ \A s \in Run \ {r} : pc'[s] = "idle"
        /\ pc'[r] = "sending"
        /\ job'[r].units = UnitsOf(notes, job[r].now)
        /\ job'[r].now = job[r].now
    BY <1>0, <2>1, Alone DEF Job
  <2>3. InHand(r)' = UnitsOf(notes, job[r].now)
    BY <2>2 DEF InHand
  <2>4. UnitsAreReleased'
    BY <2>1, <2>2, <2>3, UnitsAreDue DEF UnitsAreReleased
  <2>5. TimesArePast'
    BY <2>1, <2>2 DEF HoldInv, TimesArePast
  <2> QED  BY <2>4, <2>5 DEF HoldInv
<1>6. ASSUME NEW r \in Run, NEW o \in Outcome, Send(r, o) PROVE HoldInv'
  <2>1. PICK u \in job[r].units :
          job' = [job EXCEPT ![r].units = @ \ {u}, ![r].unit = u,
                             ![r].verdict = Recorded(u, o)]
    BY <1>6 DEF Send
  <2>2. /\ pc[r] = "sending"
        /\ pc' = [pc EXCEPT ![r] = "marking"]
        /\ UNCHANGED <<notes, clock>>
    BY <1>6 DEF Send
  <2>3. /\ \A s \in Run \ {r} : pc'[s] = "idle"
        /\ pc'[r] = "marking"
        /\ job'[r].unit = u /\ job'[r].units = job[r].units \ {u}
        /\ job'[r].now = job[r].now
    BY <1>0, <2>1, <2>2, Alone DEF Job
  <2>4. InHand(r)' = InHand(r)
    BY <2>2, <2>3 DEF InHand
  <2>5. UnitsAreReleased'
    BY <2>2, <2>3, <2>4 DEF HoldInv, UnitsAreReleased
  <2>6. TimesArePast'
    BY <2>2, <2>3 DEF HoldInv, TimesArePast
  <2> QED  BY <2>5, <2>6 DEF HoldInv
<1>7. ASSUME NEW r \in Run, Mark(r) PROVE HoldInv'
  <2>1. /\ pc[r] = "marking"
        /\ notes' = Marked(job[r].unit.ids, job[r].verdict)
        /\ job' = [job EXCEPT ![r].unit = NoUnit, ![r].verdict = "none"]
        /\ pc' = [pc EXCEPT ![r] = "sending"]
        /\ clock' = clock
    BY <1>7 DEF Mark
  <2>2. /\ \A s \in Run \ {r} : pc'[s] = "idle"
        /\ pc'[r] = "sending"
        /\ job'[r].units = job[r].units /\ job'[r].now = job[r].now
    BY <1>0, <2>1, Alone DEF Job
  <2>3. InHand(r)' \subseteq InHand(r)
    BY <2>2 DEF InHand
  <2>4. \A n \in DOMAIN notes :
          notes'[n].held = notes[n].held /\ notes'[n].release = notes[n].release
    BY <1>0, <2>1, MarkedHolds, TableDomain
  <2>5. \A w \in InHand(r) : w.ids \subseteq DOMAIN notes
    BY <2>1 DEF QueueInv, UnitsAreCurrent
  <2>6. UnitsAreReleased'
    BY <2>1, <2>2, <2>3, <2>4, <2>5 DEF HoldInv, UnitsAreReleased
  <2>7. TimesArePast'
    BY <2>1, <2>2 DEF HoldInv, TimesArePast
  <2> QED  BY <2>6, <2>7 DEF HoldInv
<1>8. ASSUME NEW r \in Run, DeadlinePasses(r) PROVE HoldInv'
  <2>1. /\ pc[r] = "sending"
        /\ job' = [job EXCEPT ![r].units = {}]
        /\ UNCHANGED <<notes, clock, pc>>
    BY <1>8 DEF DeadlinePasses
  <2>2. /\ \A s \in Run \ {r} : pc[s] = "idle"
        /\ job'[r].units = {} /\ job'[r].now = job[r].now
    BY <1>0, <2>1, Alone DEF Job
  <2> QED  BY <2>1, <2>2 DEF HoldInv, TimesArePast, UnitsAreReleased, InHand
<1>9. ASSUME NEW r \in Run, Finish(r) \/ Die(r) PROVE HoldInv'
  <2>1. pc[r] # "idle" /\ pc' = [pc EXCEPT ![r] = "idle"]
    BY <1>9 DEF Finish, Die
  <2>2. \A s \in Run : pc'[s] = "idle"
    BY <1>0, <2>1, Alone
  <2> QED  BY <2>2 DEF HoldInv, TimesArePast, UnitsAreReleased
<1>10. CASE UNCHANGED queueVars
  BY <1>10 DEF queueVars, HoldInv, TimesArePast, UnitsAreReleased, InHand
<1> QED  BY <1>1, <1>2, <1>3, <1>4, <1>5, <1>6, <1>7, <1>8, <1>9, <1>10 DEF Next

(* What is held for the morning is not tried before it. *)
LEMMA TriesTheReleased ==
  ASSUME QueueInv, HoldInv, [Next]_queueVars, NEW r \in Run,
         NEW n \in DOMAIN notes, Tries(r, n), notes[n].held
  PROVE  notes[n].release <= clock
<1>1. pc[r] = "sending" /\ pc'[r] = "marking" /\ n \in job'[r].unit.ids
  BY DEF Tries
<1>2. /\ job \in [Run -> Job] /\ clock \in Nat /\ job[r].now \in Nat
      /\ pc \in [Run -> {"idle", "working", "flush", "sending", "marking"}]
      /\ notes[n].release \in Nat
  BY QueueAssumption, TableDomain DEF QueueInv, QueueTypeOK, Job, Note
<1>3. \E o \in Outcome : Send(r, o)
  <2>1. pc' # pc
    BY <1>1
  <2>2. PICK s \in Run :
          \/ Start(s) \/ EndWork(s) \/ FlushBegin(s) \/ Mark(s) \/ Finish(s) \/ Die(s)
          \/ \E o \in Outcome : Send(s, o)
    BY <2>1 DEF Next, queueVars, Tick, Enqueue, DeadlinePasses
  <2>3. ~Start(s)
    BY <1>1 DEF Start, MayStart
  <2>4. pc[s] # "idle"
    BY <2>2, <2>3 DEF EndWork, FlushBegin, Mark, Finish, Die, Send
  <2>5. s = r
    BY <1>1, <2>4, Alone
  <2>6. ~EndWork(r) /\ ~FlushBegin(r) /\ ~Mark(r)
    BY <1>1 DEF EndWork, FlushBegin, Mark
  <2>7. ~Finish(r) /\ ~Die(r)
    BY <1>1, <1>2 DEF Finish, Die
  <2> QED  BY <2>2, <2>3, <2>5, <2>6, <2>7
<1>4. PICK u \in job[r].units : job'[r].unit = u
  BY <1>2, <1>3 DEF Send, Job
<1>5. notes[n].release <= job[r].now
  BY <1>1, <1>4 DEF HoldInv, UnitsAreReleased, InHand
<1>6. job[r].now <= clock
  BY <1>1 DEF HoldInv, TimesArePast
<1> QED  BY <1>2, <1>5, <1>6

(* Content held through quiet hours is not sent before the morning, in any *)
(* run, alone or in a digest, whatever the run did since it read the time. *)
THEOREM QueueHoldsUntilMorning == Spec => HeldUntilMorning
<1>1. Init => HoldInv
  BY DEF Init, HoldInv, TimesArePast, UnitsAreReleased
<1>2. QueueInv /\ HoldInv /\ [Next]_queueVars =>
        [\A r \in Run, n \in DOMAIN notes :
           Tries(r, n) /\ notes[n].held => notes[n].release <= clock]_queueVars
  BY TriesTheReleased
<1> QED  BY <1>1, <1>2, HoldNext, QueueInvariant, PTL DEF Spec, HeldUntilMorning

-----------------------------------------------------------------------------
(* The refinement: what an outbox sees of the table is the states of its   *)
(* rows.  A Put adds a queued row or none, a Send accepts queued rows or   *)
(* none, a Mark lets the rows of its unit leave or none.                   *)

StatusOf(table) == [n \in DOMAIN table |-> table[n].state]

LEMMA StatusAppended ==
  ASSUME notes \in Seq(Note), NEW note \in Note, note.state = "queued"
  PROVE  StatusOf(Append(notes, note)) = Append(StatusOf(notes), "queued")
<1>1. /\ Len(notes) \in Nat /\ DOMAIN notes = 1..Len(notes)
      /\ \A n \in DOMAIN notes : notes[n] \in Note
  BY TableDomain
<1>2. /\ DOMAIN Append(notes, note) = 1..(Len(notes) + 1)
      /\ Append(notes, note)[Len(notes) + 1] = note
      /\ \A n \in 1..Len(notes) : Append(notes, note)[n] = notes[n]
  BY AppendProperties, LenProperties
<1>3. \A n \in DOMAIN notes : notes[n].state \in NoteState
  BY <1>1 DEF Note
<1>4. StatusOf(notes) \in [1..Len(notes) -> NoteState]
  BY <1>1, <1>3 DEF StatusOf
<1>5. StatusOf(notes) \in Seq(NoteState) /\ "queued" \in NoteState
  BY <1>1, <1>4, SeqDef DEF NoteState
<1>6. Len(StatusOf(notes)) = Len(notes)
  BY <1>1, <1>4, <1>5, LenProperties
<1>7. /\ Append(StatusOf(notes), "queued") \in Seq(NoteState)
      /\ Len(Append(StatusOf(notes), "queued")) = Len(notes) + 1
      /\ Append(StatusOf(notes), "queued")[Len(notes) + 1] = "queued"
      /\ \A n \in 1..Len(notes) : Append(StatusOf(notes), "queued")[n] = StatusOf(notes)[n]
  BY <1>5, <1>6, AppendProperties
<1>8. Append(StatusOf(notes), "queued") \in [1..(Len(notes) + 1) -> NoteState]
  BY <1>7, LenProperties
<1>9. \A n \in 1..(Len(notes) + 1) :
        Append(notes, note)[n].state = Append(StatusOf(notes), "queued")[n]
  <2>1. \A n \in 1..Len(notes) : StatusOf(notes)[n] = notes[n].state
    BY <1>1 DEF StatusOf
  <2>2. \A n \in 1..(Len(notes) + 1) : n = Len(notes) + 1 \/ n \in 1..Len(notes)
    BY <1>1
  <2> QED  BY <1>2, <1>7, <2>1, <2>2
<1> QED  BY <1>2, <1>8, <1>9 DEF StatusOf

(* A row that is put is one more queued row, or the table stays as it is.  *)
LEMMA PutEnqueues ==
  ASSUME notes \in Seq(Note), NEW note \in Note, note.state = "queued", Put(note)
  PROVE  StatusOf(notes') = Append(StatusOf(notes), "queued") \/ notes' = notes
BY StatusAppended DEF Put

LEMMA OutboxStep == QueueInv /\ [Next]_queueVars => [Promise!Next]_(Promise!vars)
<1> SUFFICES ASSUME QueueInv, [Next]_queueVars
             PROVE  \/ Promise!Next
                    \/ StatusOf(notes') = StatusOf(notes) /\ told' = told
  BY DEF Promise!vars, StatusOf
<1>1. CASE UNCHANGED <<notes, told>>
  BY <1>1
<1>2. ASSUME NEW r \in Run, Enqueue(r)
      PROVE  Promise!Enqueue \/ UNCHANGED <<notes, told>>
  <2>1. PICK note \in Note : Put(note) /\ note.state = "queued"
    BY <1>2, EnqueuePuts
  <2>2. told' = told
    BY <1>2 DEF Enqueue
  <2> QED  BY <2>1, <2>2, PutEnqueues DEF QueueInv, QueueTypeOK, Promise!Enqueue, StatusOf
<1>3. ASSUME NEW r \in Run, NEW o \in Outcome, Send(r, o)
      PROVE  Promise!Next \/ UNCHANGED <<notes, told>>
  <2>1. PICK u \in job[r].units :
          told' = IF Accepted(o) THEN told \cup u.ids ELSE told
    BY <1>3 DEF Send
  <2>2. pc[r] = "sending" /\ notes' = notes
    BY <1>3 DEF Send
  <2>3. u.ids \in SUBSET Promise!Queued
    BY <2>2 DEF QueueInv, UnitsAreCurrent, InHand, Promise!Queued
  <2>4. CASE Accepted(o)
    BY <2>1, <2>2, <2>3, <2>4 DEF Promise!Next, Promise!Accept
  <2>5. CASE ~Accepted(o)
    BY <2>1, <2>2, <2>5
  <2> QED  BY <2>4, <2>5
<1>4. ASSUME NEW r \in Run, Mark(r)
      PROVE  Promise!Next \/ (StatusOf(notes') = StatusOf(notes) /\ told' = told)
  <2> DEFINE ids == job[r].unit.ids
             state == job[r].verdict
  <2>1. pc[r] = "marking" /\ notes' = Marked(ids, state) /\ told' = told
    BY <1>4 DEF Mark
  <2>2. /\ state \in NoteState
        /\ state = "sent" => ids \subseteq told
    BY <2>1 DEF QueueInv, VerdictIsTrue
  <2>3. ids \in SUBSET Promise!Queued
    BY <2>1 DEF QueueInv, UnitsAreCurrent, InHand, Promise!Queued
  <2>4. StatusOf(notes') = [n \in DOMAIN notes |-> IF n \in ids THEN state ELSE notes[n].state]
    <3> HIDE DEF ids, state
    <3>1. /\ DOMAIN Marked(ids, state) = DOMAIN notes
          /\ \A n \in DOMAIN notes :
               Marked(ids, state)[n].state = IF n \in ids THEN state ELSE notes[n].state
      BY <2>2, MarkedRows DEF QueueInv, QueueTypeOK
    <3> QED  BY <2>1, <3>1 DEF StatusOf
  <2>5. CASE state = "queued"
    <3>1. \A n \in ids : n \in DOMAIN notes /\ notes[n].state = state
      BY <2>3, <2>5 DEF Promise!Queued
    <3> QED  BY <2>1, <2>4, <3>1 DEF StatusOf
  <2>6. CASE state # "queued"
    <3>1. state \in {"sent", "failed"}
      BY <2>2, <2>6 DEF NoteState
    <3>2. PICK left \in SUBSET Promise!Queued, settled \in {"sent", "failed"} :
            left = ids /\ settled = state
      BY <2>3, <3>1
    <3>3. Promise!Leave(left, settled)
      BY <2>1, <2>2, <2>4, <3>2 DEF Promise!Leave, StatusOf
    <3> QED  BY <3>3 DEF Promise!Next
  <2> QED  BY <2>5, <2>6
<1>5. CASE \E r \in Run : \/ Start(r) \/ EndWork(r) \/ FlushBegin(r)
                          \/ DeadlinePasses(r) \/ Finish(r) \/ Die(r)
  BY <1>5 DEF Start, EndWork, FlushBegin, DeadlinePasses, Finish, Die
<1>6. CASE Tick \/ UNCHANGED queueVars
  BY <1>6 DEF Tick, queueVars
<1>7. UNCHANGED <<notes, told>> => StatusOf(notes') = StatusOf(notes) /\ told' = told
  OBVIOUS
<1> QED  BY <1>2, <1>3, <1>4, <1>5, <1>6, <1>7 DEF Next, Promise!Next

(* The queue keeps the promise of at-least-once delivery: what leaves it   *)
(* as sent was accepted, what has left never comes back, and no row is     *)
(* lost, whatever dies and whatever answers are lost.                      *)
THEOREM QueueImplementsOutbox == Spec => ImplementsOutbox
<1>1. Init => Promise!Init
  BY DEF Init, Promise!Init
<1> QED  BY <1>1, OutboxStep, QueueInvariant, PTL DEF Spec, ImplementsOutbox, Promise!Spec

=============================================================================
