---------------------------- MODULE SyncRunProofs ----------------------------
(***************************************************************************)
(* Proofs about SyncRun.tla: its types, that no decision to notify is lost,*)
(* that no run puts an older version of an item over a newer one, and that *)
(* nothing that was there all along is announced.                          *)
(***************************************************************************)
EXTENDS SyncRun, TLAPS

-----------------------------------------------------------------------------
(* What is listed of an item is a version of it, or nothing. *)
LEMMA ListedType ==
  ASSUME TypeOK, NEW i \in Item, NEW lst
  PROVE  Listed(i, lst) \in Version \cup {Absent}
<1>1. canvas[i] \in Version \cup {Absent}
  BY DEF TypeOK
<1> QED BY <1>1 DEF Listed, Version, TypeOK

LEMMA EmptyMemoryType == EmptyMemory \in Memory
BY DEF EmptyMemory, Memory, Coverage, NotStored, StoredItem

LEMMA LeftType ==
  ASSUME NEW m \in Memory
  PROVE  Left(m) \in Memory
BY EmptyMemoryType DEF Left, Memory, EmptyMemory

(* A put adds a row with its key and state. *)
LEMMA PutType ==
  ASSUME TypeOK, NEW key \in Key, Put(key)
  PROVE  DOMAIN notes' \subseteq Key /\ \A k \in DOMAIN notes' : notes'[k] \in NoteState
BY DEF TypeOK, Put, Taken, NoteState

(* What a run decides is news, and what its commit baselines, in types. *)
LEMMA NewsType ==
  ASSUME NEW m \in Memory, NEW c \in Context
  PROVE  /\ NewsRefs(m, c) \subseteq Ref
         /\ m.fetched \subseteq Resource => NewlyBased(m, c) \subseteq Scope
         /\ \A i \in Decided(m) : i \in Item /\ m.obs[i] \in Version
<1>1. \A i \in Decided(m) : i \in Item /\ m.obs[i] \in Version
  BY DEF Decided, Memory
<1>2. \A i \in Item, v \in Version : RefOf(i, v) \in Ref
  BY DEF RefOf, HashOf, Ref, Hash, Version
<1>3. NewsRefs(m, c) \subseteq Ref
  BY <1>1, <1>2 DEF NewsRefs, ToNotify
<1> QED BY <1>1, <1>3 DEF NewlyBased, Scope

-----------------------------------------------------------------------------
(* The queue only grows: a row changes its state, never its key. *)
LEMMA PutKeeps ==
  ASSUME NEW key, Put(key)
  PROVE  DOMAIN notes \cup {key} \subseteq DOMAIN notes'
  BY DEF Put, Taken

LEMMA FlushKeeps ==
  ASSUME NEW r, Flush(r)
  PROVE  DOMAIN notes' = DOMAIN notes /\ news' = news
  BY DEF Flush

(* What a commit decides is news is in the key it queues under. *)
LEMMA CommitQueues ==
  ASSUME NEW r, NEW c, Commit(r, c)
  PROVE  /\ DOMAIN notes \subseteq DOMAIN notes'
         /\ \A p \in news' \ news : \E k \in DOMAIN notes' : p \in k.refs
<1>1. CASE ToNotify(mem[r], c) = {}
  BY <1>1 DEF Commit, NewsRefs
<1>2. CASE ToNotify(mem[r], c) # {}
  <2>1. Put([refs |-> NewsRefs(mem[r], c), scope |-> {}])
    BY <1>2 DEF Commit
  <2>2. [refs |-> NewsRefs(mem[r], c), scope |-> {}] \in DOMAIN notes'
    BY <2>1, PutKeeps
  <2>3. news' = news \cup NewsRefs(mem[r], c)
    BY DEF Commit
  <2> QED BY <2>1, <2>2, <2>3, PutKeeps
<1> QED BY <1>1, <1>2

(* The other steps touch neither the queue nor what was decided. *)
LEMMA QuietSteps ==
  ASSUME [Next]_vars
  PROVE  \/ UNCHANGED <<notes, news>>
         \/ \E r \in Run : \/ \E c \in Context : Commit(r, c)
                           \/ EnqueueWatching(r) \/ Flush(r)
<1>1. CASE UNCHANGED vars
  BY <1>1 DEF vars, dbVars
<1>2. ASSUME NEW i \in Item, Edit(i) \/ Relink(i)
      PROVE  UNCHANGED <<notes, news>>
  BY <1>2 DEF Edit, Relink, dbVars
<1>3. ASSUME NEW c \in Context, Admit(c)
      PROVE  UNCHANGED <<notes, news>>
  BY <1>3 DEF Admit, dbVars
<1>4. ASSUME NEW r \in Run, Begin(r) \/ BeginBlind(r) \/ Die(r) \/ ReadStored(r)
      PROVE  UNCHANGED <<notes, news>>
  BY <1>4 DEF Begin, BeginBlind, Die, ReadStored, dbVars
<1>5. ASSUME NEW r \in Run, NEW c \in Context, Fetch(r, c) \/ SkipContext(r, c)
      PROVE  UNCHANGED <<notes, news>>
  BY <1>5 DEF Fetch, SkipContext, dbVars
<1> QED BY <1>1, <1>2, <1>3, <1>4, <1>5 DEF Next

(* syncContext's transaction (run.ts): whatever was ever decided to be     *)
(* news is in a row of the notifications table, for any number of runs,    *)
(* contexts and items, whoever dies.                                       *)
THEOREM NewsIsQueued == Spec => []NewsAlwaysQueued
<1>1. Init => NewsAlwaysQueued
  BY DEF Init, NewsAlwaysQueued
<1>2. NewsAlwaysQueued /\ [Next]_vars => NewsAlwaysQueued'
  <2> SUFFICES ASSUME NewsAlwaysQueued, [Next]_vars
               PROVE  NewsAlwaysQueued'
    OBVIOUS
  <2>1. CASE UNCHANGED <<notes, news>>
    BY <2>1 DEF NewsAlwaysQueued
  <2>2. ASSUME NEW r \in Run, NEW c \in Context, Commit(r, c)
        PROVE  NewsAlwaysQueued'
    BY <2>2, CommitQueues DEF NewsAlwaysQueued
  <2>3. ASSUME NEW r \in Run, EnqueueWatching(r)
        PROVE  NewsAlwaysQueued'
    <3>1. news' = news
      BY <2>3 DEF EnqueueWatching
    <3>2. DOMAIN notes \subseteq DOMAIN notes'
      BY <2>3, PutKeeps DEF EnqueueWatching
    <3> QED BY <3>1, <3>2 DEF NewsAlwaysQueued
  <2>4. ASSUME NEW r \in Run, Flush(r)
        PROVE  NewsAlwaysQueued'
    BY <2>4, FlushKeeps DEF NewsAlwaysQueued
  <2> QED BY <2>1, <2>2, <2>3, <2>4, QuietSteps DEF Next
<1> QED BY <1>1, <1>2, PTL DEF Spec

-----------------------------------------------------------------------------
(* Types, for every value of the constants: what the tables and a run hold. *)
LEMMA TypeInit == Init => TypeOK
<1> SUFFICES ASSUME Init PROVE TypeOK
  OBVIOUS
<1>1. /\ canvas \in [Item -> Version \cup {Absent}]
      /\ linked \in [Item -> Linked] /\ title \in [Item -> Name]
  <2>1. PICK s \in Starts : canvas = s.canvas /\ linked = s.linked /\ title = s.title
    BY DEF Init
  <2> QED BY <2>1, StartAssumption
<1>2. mem \in [Run -> Memory]
  BY EmptyMemoryType DEF Init
<1>3. items \in [Item -> StoredItem]
  BY DEF Init, NotStored, StoredItem
<1> QED BY <1>1, <1>2, <1>3, SyncAssumption DEF Init, TypeOK, Coverage

(* Canvas changes only what is Canvas's. *)
LEMMA CanvasType ==
  ASSUME TypeOK, NEW i \in Item, Edit(i) \/ Relink(i)
  PROVE  TypeOK'
<1> USE DEF dbVars, runVars
<1>1. CASE Edit(i)
  <2>1. PICK n \in NamesOf(i), text \in Content, s \in BOOLEAN :
          canvas' = [canvas EXCEPT ![i] =
            [name |-> n, content |-> text, shown |-> s,
             rev |-> IF canvas[i] = Absent THEN 0 ELSE canvas[i].rev + 1]]
    BY <1>1 DEF Edit
  <2>2. canvas' \in [Item -> Version \cup {Absent}]
    BY <2>1 DEF TypeOK, Version, NamesOf
  <2> QED BY <1>1, <2>2, SyncAssumption DEF Edit, TypeOK
<1>2. CASE Relink(i)
  BY <1>2, SyncAssumption DEF Relink, TypeOK
<1> QED BY <1>1, <1>2

(* A run starts with what the tables hold, and dies with nothing. *)
LEMMA StartType ==
  ASSUME TypeOK, NEW r \in Run, Begin(r) \/ BeginBlind(r) \/ Die(r)
  PROVE  TypeOK'
<1> USE DEF canvasVars, dbVars
<1>1. CASE Begin(r)
  <2>1. PICK heard \in SUBSET (Context \ Group) :
          mem' = [mem EXCEPT ![r].marks = baselined, ![r].covSeen = coverage,
                             ![r].heard = heard, ![r].posts = Posts(heard),
                             ![r].todo = Context]
    BY <1>1 DEF Begin
  <2>2. Posts(heard) \in [Item -> Version \cup {Absent}]
    BY DEF Posts, TypeOK
  <2> DEFINE begun == [mem[r] EXCEPT !.marks = baselined, !.covSeen = coverage,
                         !.heard = heard, !.posts = Posts(heard), !.todo = Context]
  <2>3. mem' = [mem EXCEPT ![r] = begun]
    BY <2>1 DEF TypeOK
  <2>4. begun \in Memory
    <3>1. mem[r] \in Memory /\ baselined \in SUBSET (Context \X Resource)
            /\ coverage \in [Context -> Coverage] /\ heard \in SUBSET Context
      BY DEF TypeOK
    <3> QED BY <2>2, <3>1 DEF Memory
  <2>5. mem' \in [Run -> Memory]
    BY <2>3, <2>4 DEF TypeOK
  <2> QED BY <1>1, <2>5 DEF Begin, TypeOK
<1>2. CASE BeginBlind(r)
  BY <1>2 DEF BeginBlind, TypeOK
<1>3. CASE Die(r)
  BY <1>3, EmptyMemoryType DEF Die, TypeOK
<1> QED BY <1>1, <1>2, <1>3

(* Reading a context fills the run's memory with versions. *)
LEMMA ReadType ==
  ASSUME TypeOK, NEW r \in Run, NEW c \in Context,
         Fetch(r, c) \/ SkipContext(r, c)
  PROVE  TypeOK'
<1> USE DEF canvasVars, dbVars
<1>m. mem[r] \in Memory
  BY DEF TypeOK
<1>1. CASE Fetch(r, c)
  <2>1. PICK lst \in Listings(c), others \in SUBSET (Applicable(c) \ {"announcement", "file"}) :
          LET files == IF lst \in {"full", "modules_only"} THEN Applicable(c) \cap {"file"} ELSE {}
              ok == others \cup files
          IN  mem' = [mem EXCEPT
                ![r].todo = @ \ {c},
                ![r].heard = @ \ {c},
                ![r].posts = [i \in Item |-> IF ContextOf[i] = c THEN Absent ELSE @[i]],
                ![r].at = {c},
                ![r].listing = lst,
                ![r].fetched = ok \cup
                   IF Believed(mem[r], c, ok) THEN Applicable(c) \cap {"announcement"} ELSE {},
                ![r].obs = [i \in Item |->
                  IF i \in ItemsOf(c) /\ ResourceOf[i] \in ok THEN Listed(i, lst)
                  ELSE IF i \in PostsOf(mem[r], c) THEN mem[r].posts[i] ELSE Absent]]
    BY <1>1 DEF Fetch
  <2> DEFINE ok == others \cup (IF lst \in {"full", "modules_only"}
                                 THEN Applicable(c) \cap {"file"} ELSE {})
             posted == [i \in Item |-> IF ContextOf[i] = c THEN Absent ELSE mem[r].posts[i]]
             got == ok \cup (IF Believed(mem[r], c, ok)
                             THEN Applicable(c) \cap {"announcement"} ELSE {})
             seen == [i \in Item |->
                  IF i \in ItemsOf(c) /\ ResourceOf[i] \in ok THEN Listed(i, lst)
                  ELSE IF i \in PostsOf(mem[r], c) THEN mem[r].posts[i] ELSE Absent]
  <2>2. mem' = [mem EXCEPT ![r] = [mem[r] EXCEPT !.todo = mem[r].todo \ {c},
                   !.heard = mem[r].heard \ {c}, !.posts = posted, !.at = {c}, !.listing = lst,
                   !.fetched = got, !.obs = seen]]
    BY <2>1, <1>m DEF TypeOK
  <2>3. posted \in [Item -> Version \cup {Absent}]
    BY <1>m DEF Memory
  <2>4. seen \in [Item -> Version \cup {Absent}]
    BY <1>m, ListedType DEF Memory
  <2>5. got \subseteq Resource
    BY SyncAssumption DEF Applicable
  <2>6. lst \in {"full", "modules_only", "none", "error"}
    BY DEF Listings
  <2> HIDE DEF posted, seen, got
  <2>7. mem' \in [Run -> Memory]
    BY ZenonT(40), <1>m, <2>2, <2>3, <2>4, <2>5, <2>6 DEF TypeOK, Memory
  <2> QED BY <1>1, <2>7 DEF Fetch, TypeOK
<1>2. CASE SkipContext(r, c)
  <2> DEFINE left == Left(mem[r])
  <2>1. left \in Memory
    BY <1>m, LeftType
  <2>2. [i \in Item |-> IF ContextOf[i] = c THEN Absent ELSE left.posts[i]]
          \in [Item -> Version \cup {Absent}]
    BY <2>1 DEF Memory
  <2>3. mem' = [mem EXCEPT ![r] = [left EXCEPT !.todo = left.todo \ {c},
          !.heard = left.heard \ {c},
          !.posts = [i \in Item |-> IF ContextOf[i] = c THEN Absent ELSE left.posts[i]]]]
    BY <1>2 DEF SkipContext
  <2> HIDE DEF left
  <2>4. mem' \in [Run -> Memory]
    BY <2>1, <2>2, <2>3 DEF TypeOK, Memory
  <2> QED BY <1>2, <2>4 DEF SkipContext, TypeOK
<1> QED BY <1>1, <1>2

LEMMA ReadStoredType ==
  ASSUME TypeOK, NEW r \in Run, ReadStored(r)
  PROVE  TypeOK'
<1>1. [i \in Item |-> IF ContextOf[i] \in mem[r].at THEN items[i] ELSE NotStored]
        \in [Item -> StoredItem]
  BY DEF TypeOK, NotStored, StoredItem
<1>2. mem[r] \in Memory
  BY DEF TypeOK
<1>3. mem' \in [Run -> Memory]
  BY <1>1, <1>2 DEF ReadStored, TypeOK, Memory
<1> QED BY <1>3 DEF ReadStored, TypeOK, canvasVars, dbVars

(* A commit writes what the run observed, under keys that are keys. *)
LEMMA CommitType ==
  ASSUME TypeOK, NEW r \in Run, NEW c \in Context, Commit(r, c)
  PROVE  TypeOK'
<1> DEFINE m == mem[r]
<1>m. m \in Memory
  BY DEF TypeOK
<1>1. items' \in [Item -> StoredItem]
  <2>1. \A i \in Decided(m) : RowAfter(m, c, i) \in StoredItem
    BY <1>m, NewsType DEF RowAfter, StoredItem, TypeOK
  <2> QED BY <2>1 DEF Commit, TypeOK
<1>2. baselined' \subseteq Context \X Resource
  BY <1>m, NewsType DEF Commit, TypeOK, Memory, Scope
<1>3. coverage' \in [Context -> Coverage]
  <2>1. CoverageAfter(m, c) \in Coverage
    BY <1>m DEF CoverageAfter, TypeOK, Memory, Coverage
  <2> QED BY <2>1 DEF Commit, TypeOK
<1>4. DOMAIN notes' \subseteq Key /\ \A k \in DOMAIN notes' : notes'[k] \in NoteState
  <2>1. [refs |-> NewsRefs(m, c), scope |-> {}] \in Key
    BY <1>m, NewsType DEF Key
  <2> QED BY <2>1, PutType DEF Commit, TypeOK
<1>5. news' \subseteq Ref
  BY <1>m, NewsType DEF Commit, TypeOK
<1>6. mem' \in [Run -> Memory]
  <2> DEFINE left == Left(m)
  <2>1. left \in Memory
    BY <1>m, LeftType
  <2>2. mem' = [mem EXCEPT ![r] = [left EXCEPT !.scope = left.scope \cup NewlyBased(m, c)]]
    BY DEF Commit
  <2>3. NewlyBased(m, c) \subseteq Context \X Resource
    BY <1>m, NewsType DEF Scope, Memory
  <2> HIDE DEF left, m
  <2> QED BY <2>1, <2>2, <2>3 DEF TypeOK, Memory
<1> QED BY <1>1, <1>2, <1>3, <1>4, <1>5, <1>6 DEF Commit, TypeOK, canvasVars

LEMMA QueueType ==
  ASSUME TypeOK, NEW r \in Run, EnqueueWatching(r) \/ Flush(r)
  PROVE  TypeOK'
<1> USE DEF canvasVars
<1>1. CASE EnqueueWatching(r)
  <2>1. [refs |-> {}, scope |-> mem[r].scope] \in Key
    BY DEF TypeOK, Memory, Key, Scope
  <2>2. DOMAIN notes' \subseteq Key /\ \A k \in DOMAIN notes' : notes'[k] \in NoteState
    BY <1>1, <2>1, PutType DEF EnqueueWatching, TypeOK
  <2>3. mem' \in [Run -> Memory]
    BY <1>1, EmptyMemoryType DEF EnqueueWatching, TypeOK
  <2> QED BY <1>1, <2>2, <2>3 DEF EnqueueWatching, TypeOK
<1>2. CASE Flush(r)
  BY <1>2 DEF Flush, TypeOK
<1> QED BY <1>1, <1>2

(* run.ts: the tables and the memory of each run keep their types, for any *)
(* set of runs, contexts and items.                                        *)
THEOREM TypesHold == Spec => []TypeOK
<1>1. TypeOK /\ [Next]_vars => TypeOK'
  <2> SUFFICES ASSUME TypeOK, [Next]_vars PROVE TypeOK'
    OBVIOUS
  <2>1. CASE UNCHANGED vars
    BY <2>1 DEF TypeOK, vars, canvasVars, dbVars, runVars
  <2>2. ASSUME NEW i \in Item, Edit(i) \/ Relink(i) PROVE TypeOK'
    BY <2>2, CanvasType
  <2>3. ASSUME NEW c \in Context, Admit(c) PROVE TypeOK'
    BY <2>3 DEF Admit, TypeOK, canvasVars, dbVars, runVars
  <2>4. ASSUME NEW r \in Run, NEW c \in Context,
               Fetch(r, c) \/ SkipContext(r, c) \/ Commit(r, c)
        PROVE  TypeOK'
    BY <2>4, ReadType, CommitType
  <2>5. ASSUME NEW r \in Run, ReadStored(r) PROVE TypeOK'
    BY <2>5, ReadStoredType
  <2>6. ASSUME NEW r \in Run,
               Begin(r) \/ BeginBlind(r) \/ Die(r) \/ EnqueueWatching(r) \/ Flush(r)
        PROVE  TypeOK'
    BY <2>6, StartType, QueueType
  <2> QED BY <2>1, <2>2, <2>3, <2>4, <2>5, <2>6 DEF Next
<1> QED BY TypeInit, <1>1, PTL DEF Spec

-----------------------------------------------------------------------------
(***************************************************************************)
(* StoredNeverRegresses is a property of steps; what makes it true of a    *)
(* commit is how what the run holds lies between what is stored and what   *)
(* Canvas has.  That stays so because no other run works meanwhile, and    *)
(* because the announcements listed early are dropped with their context.  *)
(***************************************************************************)
NoNewer(u, v) == u # Absent => v # Absent /\ u.rev <= v.rev

OneAtWork == \A r, q \in Run : pc[r] # "idle" /\ pc[q] # "idle" => r = q

StoredIsPast == \A i \in Item : NoNewer(items[i].version, canvas[i])

Between(held) ==
  \A i \in Item : held[i] # Absent => /\ NoNewer(items[i].version, held[i])
                                       /\ NoNewer(held[i], canvas[i])

PostsBetween ==
  \A r \in Run : pc[r] \in {"contexts", "fetched", "read"} => Between(mem[r].posts)

ObsBetween ==
  \A r \in Run : pc[r] \in {"fetched", "read"} =>
    /\ Between(mem[r].obs)
    /\ \A i \in Item : mem[r].obs[i] # Absent => mem[r].posts[i] = Absent

OrderInv == TypeOK /\ OneAtWork /\ StoredIsPast /\ PostsBetween /\ ObsBetween

LEMMA NoNewerTrans ==
  ASSUME NEW u \in Version \cup {Absent}, NEW v \in Version \cup {Absent},
         NEW w \in Version \cup {Absent}, NoNewer(u, v), NoNewer(v, w)
  PROVE  NoNewer(u, w)
<1>1. CASE u = Absent
  BY <1>1 DEF NoNewer
<1>2. CASE u # Absent
  <2>1. u.rev \in Nat /\ v.rev \in Nat /\ w.rev \in Nat
    BY <1>2 DEF NoNewer, Version
  <2> QED BY <1>2, <2>1 DEF NoNewer
<1> QED BY <1>1, <1>2

LEMMA NoNewerSelf ==
  ASSUME NEW u \in Version \cup {Absent}
  PROVE  NoNewer(u, u)
BY DEF NoNewer, Version

LEMMA OrderInit == Init => OrderInv
BY TypeInit
   DEF Init, OrderInv, OneAtWork, StoredIsPast, PostsBetween, ObsBetween, NoNewer, NotStored

(* Canvas moves on: what was between still is. *)
LEMMA EditOrder ==
  ASSUME OrderInv, TypeOK', NEW i \in Item, Edit(i) \/ Relink(i)
  PROVE  OrderInv'
<1>1. \A j \in Item : NoNewer(canvas[j], canvas'[j])
  <2>1. CASE Relink(i)
    BY <2>1, NoNewerSelf DEF Relink, OrderInv, TypeOK
  <2>2. CASE Edit(i)
    <3>1. PICK n \in NamesOf(i), text \in Content, s \in BOOLEAN :
            canvas' = [canvas EXCEPT ![i] =
              [name |-> n, content |-> text, shown |-> s,
               rev |-> IF canvas[i] = Absent THEN 0 ELSE canvas[i].rev + 1]]
      BY <2>2 DEF Edit
    <3>2. canvas[i] # Absent => canvas[i].rev \in Nat
      BY DEF OrderInv, TypeOK, Version
    <3>3. canvas \in [Item -> Version \cup {Absent}]
      BY DEF OrderInv, TypeOK
    <3>4. canvas'[i] # Absent
      <4>1. canvas'[i] \in Version
        BY <3>1, <3>2, <3>3 DEF Version, NamesOf
      <4> QED BY <4>1, StartAssumption
    <3>5. NoNewer(canvas[i], canvas'[i])
      BY <3>1, <3>2, <3>3, <3>4 DEF NoNewer
    <3>6. \A j \in Item \ {i} : canvas'[j] = canvas[j]
      BY <3>1, <3>3
    <3> QED BY <3>3, <3>5, <3>6, NoNewerSelf
  <2> QED BY <2>1, <2>2
<1>2. UNCHANGED <<items, pc, mem>>
  BY DEF Edit, Relink, dbVars, runVars
<1>3. \A j \in Item :
        canvas[j] \in Version \cup {Absent} /\ canvas'[j] \in Version \cup {Absent}
  BY DEF OrderInv, TypeOK
<1>4. ASSUME NEW u \in Version \cup {Absent}, NEW j \in Item, NoNewer(u, canvas[j])
      PROVE  NoNewer(u, canvas'[j])
  BY <1>1, <1>3, <1>4, NoNewerTrans
<1>5. StoredIsPast'
  <2>1. \A j \in Item : items[j].version \in Version \cup {Absent}
    BY DEF OrderInv, TypeOK, StoredItem
  <2> QED BY <1>2, <1>4, <2>1 DEF OrderInv, StoredIsPast
<1>6. \A r \in Run : mem[r].posts \in [Item -> Version \cup {Absent}]
                     /\ mem[r].obs \in [Item -> Version \cup {Absent}]
  BY DEF OrderInv, TypeOK, Memory
<1>7. PostsBetween'
  <2> SUFFICES ASSUME NEW r \in Run, pc'[r] \in {"contexts", "fetched", "read"}
               PROVE  Between(mem[r].posts)'
    BY DEF PostsBetween
  <2>1. Between(mem[r].posts)
    BY <1>2 DEF OrderInv, PostsBetween
  <2> QED BY <1>2, <1>4, <1>6, <2>1 DEF Between
<1>8. ObsBetween'
  <2> SUFFICES ASSUME NEW r \in Run, pc'[r] \in {"fetched", "read"}
               PROVE  Between(mem[r].obs)'
                      /\ \A j \in Item : mem'[r].obs[j] # Absent => mem'[r].posts[j] = Absent
    BY DEF ObsBetween
  <2>1. /\ Between(mem[r].obs)
        /\ \A j \in Item : mem[r].obs[j] # Absent => mem[r].posts[j] = Absent
    BY <1>2 DEF OrderInv, ObsBetween
  <2> QED BY <1>2, <1>4, <1>6, <2>1 DEF Between
<1> QED BY <1>2, <1>5, <1>7, <1>8 DEF OrderInv, OneAtWork

(* A run that starts is the only one, and has listed what Canvas has. *)
LEMMA BeginOrder ==
  ASSUME OrderInv, TypeOK', NEW r \in Run, Begin(r) \/ BeginBlind(r)
  PROVE  OrderInv'
<1>1. \A q \in Run : pc[q] = "idle"
  BY DEF Begin, BeginBlind, MayStart
<1>2. UNCHANGED <<items, canvas>> /\ \A q \in Run \ {r} : pc'[q] = "idle"
  BY <1>1 DEF Begin, BeginBlind, canvasVars, dbVars, OrderInv, TypeOK
<1>3. OneAtWork' /\ StoredIsPast'
  BY <1>2 DEF OneAtWork, StoredIsPast, OrderInv
<1>4. pc'[r] \in {"contexts", "flush"}
  BY DEF Begin, BeginBlind, OrderInv, TypeOK
<1>5. ObsBetween'
  BY <1>2, <1>4 DEF ObsBetween
<1>6. ASSUME pc'[r] = "contexts"
      PROVE  Between(mem[r].posts)'
  <2>1. Begin(r)
    BY <1>6 DEF BeginBlind, OrderInv, TypeOK
  <2>2. \A i \in Item : mem'[r].posts[i] \in {canvas[i], Absent}
    <3>1. PICK heard \in SUBSET (Context \ Group) :
            mem' = [mem EXCEPT ![r].marks = baselined, ![r].covSeen = coverage,
                               ![r].heard = heard, ![r].posts = Posts(heard),
                               ![r].todo = Context]
      BY <2>1 DEF Begin
    <3>2. mem \in [Run -> Memory] /\ mem[r] \in Memory
      BY DEF OrderInv, TypeOK
    <3>3. mem'[r].posts = Posts(heard)
      BY <3>1, <3>2 DEF Memory
    <3> QED BY <3>3 DEF Posts
  <2>3. \A i \in Item : NoNewer(items[i].version, canvas[i]) /\ NoNewer(canvas[i], canvas[i])
    BY NoNewerSelf DEF OrderInv, StoredIsPast, TypeOK
  <2> QED BY <1>2, <2>2, <2>3 DEF Between
<1>7. PostsBetween'
  BY <1>2, <1>4, <1>6 DEF PostsBetween
<1> QED BY <1>3, <1>5, <1>7 DEF OrderInv

(* A run at work leaves the others idle, and no step of it wakes one. *)
LEMMA OthersIdle ==
  ASSUME OrderInv, NEW r \in Run, pc[r] # "idle", NEW s, pc' = [pc EXCEPT ![r] = s]
  PROVE  /\ OneAtWork'
         /\ \A q \in Run \ {r} : pc'[q] = "idle"
         /\ pc'[r] = s
BY DEF OrderInv, OneAtWork, TypeOK

(* What a run drops of its lists leaves the rest between. *)
LEMMA FewerPosts ==
  ASSUME OrderInv, UNCHANGED <<items, canvas>>, NEW r \in Run, Between(mem[r].posts),
         \A i \in Item : mem'[r].posts[i] \in {mem[r].posts[i], Absent}
  PROVE  Between(mem[r].posts)'
BY DEF Between

(* What a fetch leaves in the run's lists. *)
LEMMA FetchedLists ==
  ASSUME TypeOK, NEW r \in Run, NEW c \in Context, Fetch(r, c)
  PROVE  \E lst \in Listings(c) : \A i \in Item :
           /\ mem'[r].posts[i] = IF ContextOf[i] = c THEN Absent ELSE mem[r].posts[i]
           /\ mem'[r].obs[i] \in {Listed(i, lst), mem[r].posts[i], Absent}
           /\ mem'[r].obs[i] # Absent => ContextOf[i] = c
<1>1. PICK lst \in Listings(c), others \in SUBSET (Applicable(c) \ {"announcement", "file"}) :
        LET files == IF lst \in {"full", "modules_only"} THEN Applicable(c) \cap {"file"} ELSE {}
            ok == others \cup files
        IN  mem' = [mem EXCEPT
              ![r].todo = @ \ {c},
              ![r].heard = @ \ {c},
              ![r].posts = [i \in Item |-> IF ContextOf[i] = c THEN Absent ELSE @[i]],
              ![r].at = {c},
              ![r].listing = lst,
              ![r].fetched = ok \cup
                 IF Believed(mem[r], c, ok) THEN Applicable(c) \cap {"announcement"} ELSE {},
              ![r].obs = [i \in Item |->
                IF i \in ItemsOf(c) /\ ResourceOf[i] \in ok THEN Listed(i, lst)
                ELSE IF i \in PostsOf(mem[r], c) THEN mem[r].posts[i] ELSE Absent]]
  BY DEF Fetch
<1> DEFINE ok == others \cup (IF lst \in {"full", "modules_only"}
                               THEN Applicable(c) \cap {"file"} ELSE {})
<1>2. mem \in [Run -> Memory] /\ mem[r] \in Memory
  BY DEF TypeOK
<1>3. /\ mem'[r].posts = [i \in Item |-> IF ContextOf[i] = c THEN Absent ELSE mem[r].posts[i]]
      /\ mem'[r].obs = [i \in Item |->
           IF i \in ItemsOf(c) /\ ResourceOf[i] \in ok THEN Listed(i, lst)
           ELSE IF i \in PostsOf(mem[r], c) THEN mem[r].posts[i] ELSE Absent]
  BY <1>1, <1>2 DEF Memory
<1> HIDE DEF ok
<1>4. \A i \in Item : /\ mem'[r].obs[i] \in {Listed(i, lst), mem[r].posts[i], Absent}
                     /\ mem'[r].obs[i] # Absent => ContextOf[i] = c
  BY <1>3 DEF ItemsOf, PostsOf
<1> QED BY <1>3, <1>4

(* The versions listed lie between, and their announcements are dropped. *)
LEMMA FetchOrder ==
  ASSUME OrderInv, TypeOK', NEW r \in Run, NEW c \in Context, Fetch(r, c)
  PROVE  OrderInv'
<1>1. UNCHANGED <<items, canvas>> /\ pc[r] = "contexts" /\ pc' = [pc EXCEPT ![r] = "fetched"]
  BY DEF Fetch, canvasVars, dbVars
<1>2. /\ OneAtWork' /\ \A q \in Run \ {r} : pc'[q] = "idle"
      /\ pc'[r] = "fetched"
  BY <1>1, OthersIdle
<1>3. PICK lst \in Listings(c) :
        \A i \in Item :
          /\ mem'[r].posts[i] = IF ContextOf[i] = c THEN Absent ELSE mem[r].posts[i]
          /\ mem'[r].obs[i] \in {Listed(i, lst), mem[r].posts[i], Absent}
          /\ mem'[r].obs[i] # Absent => ContextOf[i] = c
  BY FetchedLists DEF OrderInv
<1>4. Between(mem[r].posts)
  BY <1>1 DEF OrderInv, PostsBetween
<1>5. Between(mem[r].posts)'
  BY <1>1, <1>3, <1>4, FewerPosts
<1>6. ASSUME NEW i \in Item, Listed(i, lst) # Absent
      PROVE  NoNewer(items[i].version, Listed(i, lst)) /\ NoNewer(Listed(i, lst), canvas[i])
  <2>1. canvas[i] # Absent /\ canvas[i] \in Version /\ Listed(i, lst) \in Version
    BY <1>6, ListedType DEF Listed, OrderInv, TypeOK
  <2>2. Listed(i, lst).rev = canvas[i].rev
    BY <2>1, <1>6 DEF Listed, Version
  <2>3. NoNewer(items[i].version, canvas[i])
    BY DEF OrderInv, StoredIsPast
  <2> QED BY <1>6, <2>1, <2>2, <2>3 DEF NoNewer, Version
<1>7. Between(mem[r].obs)'
  BY <1>1, <1>3, <1>4, <1>6 DEF Between
<1>8. ObsBetween'
  BY <1>2, <1>3, <1>7 DEF ObsBetween
<1>9. PostsBetween'
  BY <1>2, <1>5 DEF PostsBetween
<1> QED BY <1>1, <1>2, <1>8, <1>9 DEF OrderInv, StoredIsPast

(* Nothing is listed or stored by the other steps that end no context. *)
LEMMA KeepOrder ==
  ASSUME OrderInv, TypeOK', NEW r \in Run,
         \/ Die(r) \/ EnqueueWatching(r) \/ Flush(r) \/ ReadStored(r)
         \/ \E c \in Context : SkipContext(r, c)
  PROVE  OrderInv'
<1>1. UNCHANGED <<items, canvas>> /\ pc[r] # "idle"
  BY DEF Die, EnqueueWatching, Flush, ReadStored, SkipContext, canvasVars, dbVars
<1>2. PICK s \in {"idle", "contexts", "read", "flush"} : pc' = [pc EXCEPT ![r] = s]
  BY DEF Die, EnqueueWatching, Flush, ReadStored, SkipContext
<1>3. OneAtWork' /\ pc'[r] = s /\ \A q \in Run \ {r} : pc'[q] = "idle"
  BY <1>1, <1>2, OthersIdle
<1>4. CASE ReadStored(r)
  <2>1. mem'[r].posts = mem[r].posts /\ mem'[r].obs = mem[r].obs /\ pc[r] = "fetched"
    BY <1>4 DEF ReadStored, OrderInv, TypeOK, Memory
  <2>2. Between(mem[r].posts) /\ Between(mem[r].obs)
        /\ \A i \in Item : mem[r].obs[i] # Absent => mem[r].posts[i] = Absent
    BY <2>1 DEF OrderInv, PostsBetween, ObsBetween
  <2>3. PostsBetween' /\ ObsBetween'
    BY <1>1, <1>3, <2>1, <2>2 DEF PostsBetween, ObsBetween, Between
  <2> QED BY <1>1, <1>3, <2>3 DEF OrderInv, StoredIsPast
<1>5. CASE \E c \in Context : SkipContext(r, c)
  <2>1. PICK c \in Context : SkipContext(r, c)
    BY <1>5
  <2>2. pc'[r] = "contexts" /\ pc[r] \in {"contexts", "fetched", "read"}
    BY <2>1 DEF SkipContext, OrderInv, TypeOK
  <2>3. \A i \in Item : mem'[r].posts[i] \in {mem[r].posts[i], Absent}
    BY ZenonT(40), <2>1 DEF SkipContext, Left, EmptyMemory, OrderInv, TypeOK
  <2>4. Between(mem[r].posts)'
    BY <1>1, <2>2, <2>3, FewerPosts DEF OrderInv, PostsBetween
  <2> QED BY <1>1, <1>3, <2>2, <2>4 DEF OrderInv, StoredIsPast, PostsBetween, ObsBetween
<1>6. CASE Die(r) \/ EnqueueWatching(r) \/ Flush(r)
  <2>1. pc'[r] \in {"idle", "flush"}
    BY <1>6 DEF Die, EnqueueWatching, Flush, OrderInv, TypeOK
  <2> QED BY <1>1, <1>3, <2>1 DEF OrderInv, StoredIsPast, PostsBetween, ObsBetween
<1> QED BY <1>4, <1>5, <1>6

(* A commit brings what is stored up to what was listed, never back. *)
LEMMA CommitStores ==
  ASSUME OrderInv, NEW r \in Run, NEW c \in Context, Commit(r, c), NEW i \in Item
  PROVE  /\ NoNewer(items[i].version, items'[i].version)
         /\ NoNewer(items'[i].version, canvas[i])
         /\ items'[i].version \in {items[i].version, mem[r].obs[i]}
         /\ items'[i].version # items[i].version => mem[r].obs[i] # Absent
<1>1. pc[r] = "read" /\ items' = [j \in Item |-> IF j \in Decided(mem[r])
                                                 THEN RowAfter(mem[r], c, j) ELSE items[j]]
  BY DEF Commit
<1>2. items[i].version \in Version \cup {Absent}
  BY DEF OrderInv, TypeOK, StoredItem
<1>3. NoNewer(items[i].version, canvas[i])
  BY DEF OrderInv, StoredIsPast
<1>4. CASE i \in Decided(mem[r])
  <2>1. items'[i].version = mem[r].obs[i] /\ mem[r].obs[i] # Absent
    BY <1>1, <1>4 DEF RowAfter, Decided
  <2>2. Between(mem[r].obs)
    BY <1>1 DEF OrderInv, ObsBetween
  <2> QED BY <2>1, <2>2 DEF Between
<1>5. CASE i \notin Decided(mem[r])
  BY <1>1, <1>2, <1>3, <1>5, NoNewerSelf
<1> QED BY <1>4, <1>5

LEMMA CommitOrder ==
  ASSUME OrderInv, TypeOK', NEW r \in Run, NEW c \in Context, Commit(r, c)
  PROVE  OrderInv'
<1>1. canvas' = canvas /\ pc[r] = "read" /\ pc' = [pc EXCEPT ![r] = "contexts"]
  BY DEF Commit, canvasVars
<1>2. OneAtWork' /\ pc'[r] = "contexts" /\ \A q \in Run \ {r} : pc'[q] = "idle"
  BY <1>1, OthersIdle
<1>3. mem'[r].posts = mem[r].posts
  BY DEF Commit, Left, EmptyMemory, OrderInv, TypeOK
<1>4. /\ Between(mem[r].posts)
      /\ \A i \in Item : mem[r].obs[i] # Absent => mem[r].posts[i] = Absent
  BY <1>1 DEF OrderInv, PostsBetween, ObsBetween
<1>5. \A i \in Item : mem[r].posts[i] # Absent => items'[i].version = items[i].version
  BY <1>4, CommitStores
<1>6. Between(mem[r].posts)'
  BY <1>1, <1>3, <1>4, <1>5 DEF Between
<1>7. StoredIsPast'
  BY <1>1, CommitStores DEF StoredIsPast
<1>8. PostsBetween' /\ ObsBetween'
  BY <1>2, <1>6 DEF PostsBetween, ObsBetween
<1> QED BY <1>2, <1>7, <1>8 DEF OrderInv

LEMMA OrderNext == OrderInv /\ TypeOK' /\ [Next]_vars => OrderInv'
<1> SUFFICES ASSUME OrderInv, TypeOK', [Next]_vars PROVE OrderInv'
  OBVIOUS
<1>1. CASE UNCHANGED vars
  BY <1>1 DEF OrderInv, OneAtWork, StoredIsPast, PostsBetween, ObsBetween, Between, vars,
              canvasVars, dbVars, runVars
<1>2. ASSUME NEW c \in Context, Admit(c) PROVE OrderInv'
  BY <1>2 DEF Admit, OrderInv, OneAtWork, StoredIsPast, PostsBetween, ObsBetween, Between,
              dbVars, runVars
<1> QED BY <1>1, <1>2, EditOrder, BeginOrder, FetchOrder, KeepOrder, CommitOrder DEF Next

(* Only a commit writes the items. *)
LEMMA ItemsKept ==
  ASSUME [Next]_vars
  PROVE  items' = items \/ \E r \in Run, c \in Context : Commit(r, c)
<1>1. CASE UNCHANGED vars
  BY <1>1 DEF vars, dbVars
<1>2. ASSUME NEW i \in Item, Edit(i) \/ Relink(i) PROVE items' = items
  BY <1>2 DEF Edit, Relink, dbVars
<1>3. ASSUME NEW c \in Context, Admit(c) PROVE items' = items
  BY <1>3 DEF Admit, dbVars
<1>4. ASSUME NEW r \in Run, \/ Begin(r) \/ BeginBlind(r) \/ Die(r) \/ ReadStored(r)
                            \/ EnqueueWatching(r) \/ Flush(r)
      PROVE  items' = items
  BY <1>4 DEF Begin, BeginBlind, Die, ReadStored, EnqueueWatching, Flush, dbVars
<1>5. ASSUME NEW r \in Run, NEW c \in Context, Fetch(r, c) \/ SkipContext(r, c)
      PROVE  items' = items
  BY <1>5 DEF Fetch, SkipContext, dbVars
<1> QED BY <1>1, <1>2, <1>3, <1>4, <1>5 DEF Next

(* syncContext reads, decides and writes in separate steps (run.ts); still *)
(* no run puts an older version of an item over a newer one, for any       *)
(* number of runs, contexts and items and however much instructors edit.   *)
THEOREM StoredOnlyAdvances == Spec => StoredNeverRegresses
<1>1. OrderInv /\ [Next]_vars =>
        [\A i \in Item :
           items[i].version # Absent =>
             /\ items'[i].version # Absent
             /\ items'[i].version.rev >= items[i].version.rev]_vars
  <2> SUFFICES ASSUME OrderInv, [Next]_vars, NEW i \in Item, items[i].version # Absent
               PROVE  /\ items'[i].version # Absent
                      /\ items'[i].version.rev >= items[i].version.rev
    OBVIOUS
  <2>1. items[i].version \in Version
    BY DEF OrderInv, TypeOK, StoredItem
  <2>2. ASSUME NEW r \in Run, NEW c \in Context, Commit(r, c)
        PROVE  /\ items'[i].version # Absent
               /\ items'[i].version.rev >= items[i].version.rev
    <3>1. NoNewer(items[i].version, items'[i].version)
          /\ items'[i].version \in {items[i].version, mem[r].obs[i]}
      BY <2>2, CommitStores
    <3>2. mem[r].obs[i] \in Version \cup {Absent}
      BY DEF OrderInv, TypeOK, Memory
    <3>3. items'[i].version # Absent /\ items[i].version.rev <= items'[i].version.rev
      BY <3>1 DEF NoNewer
    <3>4. items[i].version.rev \in Nat /\ items'[i].version.rev \in Nat
      BY <2>1, <3>1, <3>2, <3>3 DEF Version
    <3> QED BY <3>3, <3>4
  <2>3. CASE items' = items
    BY <2>1, <2>3 DEF Version
  <2>4. items' = items \/ \E r \in Run, c \in Context : Commit(r, c)
    BY ItemsKept
  <2> QED BY <2>2, <2>3, <2>4
<1>2. OrderInv /\ TypeOK' /\ [Next]_vars => OrderInv'
  BY OrderNext
<1> QED BY OrderInit, TypesHold, <1>1, <1>2, PTL DEF Spec, StoredNeverRegresses

-----------------------------------------------------------------------------
(* OnlyChangesAreNews needs to know what the tables hold of what nobody    *)
(* touched.  It is recorded as one of the two ways of listing shows it;    *)
(* a resource that is baselined has every row that the poorer listing      *)
(* shows; and the rows are as Canvas has them where coverage is full.      *)
KnownAtRest ==
  \A i \in Item \ changed :
    canvas[i] # Absent =>
      /\ items[i].version \in {Absent, Listed(i, "full"), Listed(i, "modules_only")}
      /\ <<ContextOf[i], ResourceOf[i]>> \in baselined =>
           /\ ResourceOf[i] = "file" => coverage[ContextOf[i]] # "unknown"
           /\ ResourceOf[i] # "file" \/ linked[i] # "no" => items[i].version # Absent
      /\ ResourceOf[i] = "file" /\ coverage[ContextOf[i]] = "full" =>
           /\ items[i].version # Absent
           /\ HashOf(i, items[i].version) = HashOf(i, canvas[i])

(* What a run holds is still so of the contexts it has not recorded: no    *)
(* other run works, and no course is opened or closed meanwhile.           *)
Current(r) ==
  /\ mem[r].marks \subseteq baselined
  /\ \A c \in mem[r].todo \cup mem[r].at : mem[r].covSeen[c] = coverage[c]
  /\ mem[r].heard \subseteq mem[r].todo /\ mem[r].todo \cap mem[r].at = {}
  /\ \A i \in Item : mem[r].posts[i] # Absent =>
       ResourceOf[i] = "announcement" /\ ContextOf[i] \in mem[r].heard \cap open
  /\ \A i \in Item \ changed :
       ResourceOf[i] = "announcement" /\ ContextOf[i] \in mem[r].heard \cap open =>
         mem[r].posts[i] = canvas[i]

(* What it has listed of the context it is at, and what it read back. *)
Fresh(r) ==
  /\ \A i \in Item : mem[r].obs[i] # Absent =>
       /\ ContextOf[i] \in mem[r].at
       /\ ResourceOf[i] = "file" => mem[r].listing \in {"full", "modules_only"}
  /\ \A i \in Item \ changed :
       /\ mem[r].obs[i] \in {Absent, Listed(i, mem[r].listing)}
       /\ ContextOf[i] \in mem[r].at /\ ResourceOf[i] \in mem[r].fetched =>
            mem[r].obs[i] = Listed(i, mem[r].listing)
  /\ \A i \in Item : ContextOf[i] \in mem[r].at /\ ResourceOf[i] = "file" =>
       ("file" \in mem[r].fetched <=> mem[r].listing \in {"full", "modules_only"})
  /\ pc[r] = "read" =>
       \A i \in Item : ContextOf[i] \in mem[r].at => mem[r].stored[i] = items[i]

BaselineInv ==
  /\ KnownAtRest
  /\ \A r \in Run : /\ pc[r] \in {"contexts", "fetched", "read"} => Current(r)
                    /\ pc[r] \in {"idle", "contexts", "flush"} => mem[r].at = {}
                    /\ pc[r] \in {"fetched", "read"} => Fresh(r)
  /\ OnlyChangesAreNews

(* What the two ways of listing show of an item that is there. *)
LEMMA ListedIs ==
  ASSUME TypeOK, NEW i \in Item
  PROVE  /\ canvas[i] = Absent => \A lst : Listed(i, lst) = Absent
         /\ canvas[i] # Absent /\ ResourceOf[i] # "file" =>
              \A lst : Listed(i, lst) = Listed(i, "full") /\ Listed(i, lst) # Absent
         /\ ResourceOf[i] = "file" => Listed(i, "full") = canvas[i]
         /\ ResourceOf[i] = "file" /\ canvas[i] # Absent /\ linked[i] # "no" =>
              Listed(i, "modules_only") # Absent
         /\ ResourceOf[i] = "file" /\ Listed(i, "modules_only") # Absent =>
              /\ linked[i] # "no" /\ Listed(i, "modules_only").content = Unknown
              /\ Listed(i, "modules_only").name = title[i]
              /\ Listed(i, "modules_only").shown => linked[i] = "published"
<1>1. canvas[i] # Absent => canvas[i] \in Version
  BY DEF TypeOK
<1>2. ASSUME canvas[i] # Absent, ResourceOf[i] # "file"
      PROVE  \A lst : Listed(i, lst) = Listed(i, "full") /\ Listed(i, lst) # Absent
  <2>1. Listed(i, "full") \in {canvas[i], [canvas[i] EXCEPT !.content = Unknown]}
    BY <1>2 DEF Listed
  <2>2. Listed(i, "full") \in Version
    BY <1>1, <1>2, <2>1 DEF Version
  <2>3. \A lst : Listed(i, lst) = Listed(i, "full")
    BY <1>2 DEF Listed
  <2> QED BY <2>2, <2>3, StartAssumption
<1>3. ASSUME ResourceOf[i] = "file", canvas[i] # Absent, linked[i] # "no"
      PROVE  Listed(i, "modules_only") # Absent
  <2>1. Listed(i, "modules_only") \in Version
    BY <1>1, <1>3 DEF Listed, Version, TypeOK
  <2> QED BY <2>1, StartAssumption
<1>4. ResourceOf[i] = "file" => Listed(i, "full") = canvas[i]
  BY DEF Listed
<1>5. ASSUME ResourceOf[i] = "file", Listed(i, "modules_only") # Absent
      PROVE  /\ linked[i] # "no" /\ Listed(i, "modules_only").content = Unknown
             /\ Listed(i, "modules_only").name = title[i]
             /\ Listed(i, "modules_only").shown => linked[i] = "published"
  <2>1. /\ canvas[i] # Absent /\ linked[i] # "no"
        /\ Listed(i, "modules_only") =
             [name |-> title[i], content |-> Unknown,
              shown |-> linked[i] = "published", rev |-> canvas[i].rev]
    BY <1>5 DEF Listed
  <2>2. Listed(i, "modules_only").content = Unknown /\ Listed(i, "modules_only").name = title[i]
    BY <2>1
  <2> DEFINE says ==
         [name |-> title[i], content |-> Unknown,
          shown |-> linked[i] = "published", rev |-> canvas[i].rev]
  <2>3. says.shown = (linked[i] = "published")
    OBVIOUS
  <2> QED BY <2>1, <2>2, <2>3
<1> QED BY <1>2, <1>3, <1>4, <1>5 DEF Listed

(* Steps that write none of what was recorded, of items nobody touches. *)
Untouched ==
  /\ changed \subseteq changed'
  /\ \A i \in Item \ changed' : canvas'[i] = canvas[i] /\ linked'[i] = linked[i] /\ title'[i] = title[i]

LEMMA KeepKnown ==
  ASSUME KnownAtRest, Untouched, UNCHANGED <<items, baselined, coverage>>
  PROVE  KnownAtRest'
BY DEF KnownAtRest, Untouched, Listed, HashOf

LEMMA KeepNews ==
  ASSUME OnlyChangesAreNews, Untouched, news' = news, news \subseteq Ref
  PROVE  OnlyChangesAreNews'
BY DEF OnlyChangesAreNews, Untouched, ModulesDisagree, Ref

LEMMA KeepRun ==
  ASSUME Untouched, UNCHANGED <<items, baselined, coverage, open, pc, mem>>, NEW r
  PROVE  (Current(r) => Current(r)') /\ (Fresh(r) => Fresh(r)')
<1>1. Current(r) => Current(r)'
  BY DEF Current, Untouched
<1>2. Fresh(r) => Fresh(r)'
  BY DEF Fresh, Untouched, Listed
<1> QED BY <1>1, <1>2

(* A fetch, in what it leaves in the run's memory. *)
LEMMA FetchIs ==
  ASSUME TypeOK, NEW r \in Run, NEW c \in Context, Fetch(r, c)
  PROVE  \E lst \in Listings(c), ok \in SUBSET (Applicable(c) \ {"announcement"}) :
           /\ "file" \in ok <=> "file" \in Applicable(c) /\ lst \in {"full", "modules_only"}
           /\ c \notin open => ok = {}
           /\ mem'[r].marks = mem[r].marks /\ mem'[r].covSeen = mem[r].covSeen
           /\ mem'[r].todo = mem[r].todo \ {c} /\ mem'[r].heard = mem[r].heard \ {c}
           /\ mem'[r].at = {c} /\ mem'[r].listing = lst
           /\ mem'[r].posts =
                [i \in Item |-> IF ContextOf[i] = c THEN Absent ELSE mem[r].posts[i]]
           /\ mem'[r].fetched = ok \cup
                IF Believed(mem[r], c, ok) THEN Applicable(c) \cap {"announcement"} ELSE {}
           /\ mem'[r].obs = [i \in Item |->
                IF i \in ItemsOf(c) /\ ResourceOf[i] \in ok THEN Listed(i, lst)
                ELSE IF i \in PostsOf(mem[r], c) THEN mem[r].posts[i] ELSE Absent]
<1>1. PICK lst \in Listings(c), others \in SUBSET (Applicable(c) \ {"announcement", "file"}) :
        LET files == IF lst \in {"full", "modules_only"} THEN Applicable(c) \cap {"file"} ELSE {}
            ok == others \cup files
        IN  /\ c \notin open => lst \in {"none", "error"} /\ others = {}
            /\ mem' = [mem EXCEPT
                 ![r].todo = @ \ {c},
                 ![r].heard = @ \ {c},
                 ![r].posts = [i \in Item |-> IF ContextOf[i] = c THEN Absent ELSE @[i]],
                 ![r].at = {c},
                 ![r].listing = lst,
                 ![r].fetched = ok \cup
                    IF Believed(mem[r], c, ok) THEN Applicable(c) \cap {"announcement"} ELSE {},
                 ![r].obs = [i \in Item |->
                   IF i \in ItemsOf(c) /\ ResourceOf[i] \in ok THEN Listed(i, lst)
                   ELSE IF i \in PostsOf(mem[r], c) THEN mem[r].posts[i] ELSE Absent]]
  BY DEF Fetch
<1> DEFINE ok == others \cup (IF lst \in {"full", "modules_only"}
                               THEN Applicable(c) \cap {"file"} ELSE {})
<1>2. mem \in [Run -> Memory] /\ mem[r] \in Memory
  BY DEF TypeOK
<1>3. /\ ok \in SUBSET (Applicable(c) \ {"announcement"})
      /\ "file" \in ok <=> "file" \in Applicable(c) /\ lst \in {"full", "modules_only"}
  OBVIOUS
<1>4. c \notin open => ok = {}
  BY <1>1
<1>5. mem' = [mem EXCEPT ![r] = [mem[r] EXCEPT
                 !.todo = mem[r].todo \ {c},
                 !.heard = mem[r].heard \ {c},
                 !.posts = [i \in Item |-> IF ContextOf[i] = c THEN Absent ELSE mem[r].posts[i]],
                 !.at = {c},
                 !.listing = lst,
                 !.fetched = ok \cup
                    IF Believed(mem[r], c, ok) THEN Applicable(c) \cap {"announcement"} ELSE {},
                 !.obs = [i \in Item |->
                   IF i \in ItemsOf(c) /\ ResourceOf[i] \in ok THEN Listed(i, lst)
                   ELSE IF i \in PostsOf(mem[r], c) THEN mem[r].posts[i] ELSE Absent]]]
  BY <1>1, <1>2
<1> HIDE DEF ok
<1>6. /\ mem'[r].marks = mem[r].marks /\ mem'[r].covSeen = mem[r].covSeen
      /\ mem'[r].todo = mem[r].todo \ {c} /\ mem'[r].heard = mem[r].heard \ {c}
      /\ mem'[r].at = {c} /\ mem'[r].listing = lst
      /\ mem'[r].posts = [i \in Item |-> IF ContextOf[i] = c THEN Absent ELSE mem[r].posts[i]]
      /\ mem'[r].fetched = ok \cup
           IF Believed(mem[r], c, ok) THEN Applicable(c) \cap {"announcement"} ELSE {}
      /\ mem'[r].obs = [i \in Item |->
           IF i \in ItemsOf(c) /\ ResourceOf[i] \in ok THEN Listed(i, lst)
           ELSE IF i \in PostsOf(mem[r], c) THEN mem[r].posts[i] ELSE Absent]
  BY <1>2, <1>5 DEF Memory
<1> QED BY <1>3, <1>4, <1>6

LEMMA FetchIsFresh ==
  ASSUME TypeOK, NEW r \in Run, NEW c \in Context, Fetch(r, c), Current(r)
  PROVE  Current(r)' /\ Fresh(r)'
<1>1. c \in mem[r].todo /\ pc'[r] = "fetched"
      /\ UNCHANGED <<canvas, linked, title, open, changed, items, baselined, coverage>>
  BY DEF Fetch, canvasVars, dbVars, TypeOK
<1>2. PICK lst \in Listings(c), ok \in SUBSET (Applicable(c) \ {"announcement"}) :
           /\ "file" \in ok <=> "file" \in Applicable(c) /\ lst \in {"full", "modules_only"}
           /\ c \notin open => ok = {}
           /\ mem'[r].marks = mem[r].marks /\ mem'[r].covSeen = mem[r].covSeen
           /\ mem'[r].todo = mem[r].todo \ {c} /\ mem'[r].heard = mem[r].heard \ {c}
           /\ mem'[r].at = {c} /\ mem'[r].listing = lst
           /\ mem'[r].posts =
                [i \in Item |-> IF ContextOf[i] = c THEN Absent ELSE mem[r].posts[i]]
           /\ mem'[r].fetched = ok \cup
                IF Believed(mem[r], c, ok) THEN Applicable(c) \cap {"announcement"} ELSE {}
           /\ mem'[r].obs = [i \in Item |->
                IF i \in ItemsOf(c) /\ ResourceOf[i] \in ok THEN Listed(i, lst)
                ELSE IF i \in PostsOf(mem[r], c) THEN mem[r].posts[i] ELSE Absent]
  BY FetchIs
<1>3. \A i \in Item : i \in PostsOf(mem[r], c) =>
        /\ ResourceOf[i] = "announcement" /\ c \in mem[r].heard \cap open
        /\ i \notin changed => mem[r].posts[i] = canvas[i]
  BY DEF Current, PostsOf, ItemsOf
<1>4. Current(r)'
  BY <1>1, <1>2 DEF Current
<1>5. \A i \in Item : ResourceOf[i] = "announcement" => \A l : Listed(i, l) = canvas[i]
  BY DEF Listed
<1>6. ASSUME NEW i \in Item, mem'[r].obs[i] # Absent
      PROVE  /\ ContextOf[i] = c
             /\ ResourceOf[i] = "file" => lst \in {"full", "modules_only"}
  BY <1>2, <1>3, <1>6 DEF ItemsOf, PostsOf
<1>7. ASSUME NEW i \in Item \ changed
      PROVE  mem'[r].obs[i] \in {Absent, Listed(i, lst)}
  BY <1>2, <1>3, <1>5
<1>8. ASSUME NEW i \in Item \ changed, ContextOf[i] = c, ResourceOf[i] \in mem'[r].fetched
      PROVE  mem'[r].obs[i] = Listed(i, lst)
  <2>1. CASE ResourceOf[i] \in ok
    BY <1>2, <1>8, <2>1 DEF ItemsOf
  <2>2. CASE ResourceOf[i] \notin ok
    <3>1. ResourceOf[i] = "announcement" /\ Believed(mem[r], c, ok)
      BY <1>2, <1>8, <2>2
    <3>2. c \in mem[r].heard /\ c \in open
      BY <1>2, <1>3, <3>1 DEF Believed, PostsOf, ItemsOf
    <3>3. mem[r].posts[i] = canvas[i]
      BY <1>8, <3>1, <3>2 DEF Current
    <3> QED BY <1>2, <1>5, <1>8, <2>2, <3>1, <3>3 DEF PostsOf, ItemsOf
  <2> QED BY <2>1, <2>2
<1>9. ASSUME NEW i \in Item, ContextOf[i] = c, ResourceOf[i] = "file"
      PROVE  "file" \in mem'[r].fetched <=> lst \in {"full", "modules_only"}
  <2>1. "file" \in Applicable(c)
    BY <1>9, SyncAssumption DEF Applicable
  <2> QED BY <1>2, <2>1
<1>10. Fresh(r)' <=>
         /\ \A i \in Item : mem'[r].obs[i] # Absent =>
              /\ ContextOf[i] \in mem'[r].at
              /\ ResourceOf[i] = "file" => mem'[r].listing \in {"full", "modules_only"}
         /\ \A i \in Item \ changed :
              /\ mem'[r].obs[i] \in {Absent, Listed(i, mem'[r].listing)}
              /\ ContextOf[i] \in mem'[r].at /\ ResourceOf[i] \in mem'[r].fetched =>
                   mem'[r].obs[i] = Listed(i, mem'[r].listing)
         /\ \A i \in Item : ContextOf[i] \in mem'[r].at /\ ResourceOf[i] = "file" =>
              ("file" \in mem'[r].fetched <=> mem'[r].listing \in {"full", "modules_only"})
  BY <1>1 DEF Fresh, Listed
<1> QED BY <1>2, <1>4, <1>6, <1>7, <1>8, <1>9, <1>10

(* The other steps before a commit. *)
LEMMA BeginIsCurrent ==
  ASSUME TypeOK, NEW r \in Run, Begin(r), mem[r].at = {}
  PROVE  Current(r)' /\ mem'[r].at = {}
<1>1. PICK heard \in SUBSET (Context \ Group) :
        mem' = [mem EXCEPT ![r].marks = baselined, ![r].covSeen = coverage,
                           ![r].heard = heard, ![r].posts = Posts(heard),
                           ![r].todo = Context]
  BY DEF Begin
<1>2. mem \in [Run -> Memory] /\ mem[r] \in Memory
  BY DEF TypeOK
<1>3. /\ mem'[r].marks = baselined /\ mem'[r].covSeen = coverage /\ mem'[r].heard = heard
      /\ mem'[r].posts = Posts(heard) /\ mem'[r].todo = Context /\ mem'[r].at = {}
  BY <1>1, <1>2 DEF Memory
<1>4. UNCHANGED <<canvas, open, changed, baselined, coverage>>
  BY DEF Begin, canvasVars, dbVars
<1>5. ASSUME NEW i \in Item
      PROVE  Posts(heard)[i] = IF ResourceOf[i] = "announcement"
                                  /\ ContextOf[i] \in heard \cap open
                               THEN canvas[i] ELSE Absent
  BY DEF Posts
<1> HIDE DEF Posts
<1> QED BY <1>3, <1>4, <1>5 DEF Current

LEMMA ReadIsFresh ==
  ASSUME TypeOK, NEW r \in Run, ReadStored(r), Current(r), Fresh(r)
  PROVE  Current(r)' /\ Fresh(r)'
<1>1. UNCHANGED <<canvas, linked, title, open, changed, items, baselined, coverage>>
  BY DEF ReadStored, canvasVars, dbVars
<1>2. mem'[r] = [mem[r] EXCEPT !.stored =
        [i \in Item |-> IF ContextOf[i] \in mem[r].at THEN items[i] ELSE NotStored]]
  BY DEF ReadStored, TypeOK
<1>3. mem[r] \in Memory
  BY DEF TypeOK
<1>4. /\ mem'[r].marks = mem[r].marks /\ mem'[r].covSeen = mem[r].covSeen
      /\ mem'[r].todo = mem[r].todo /\ mem'[r].heard = mem[r].heard
      /\ mem'[r].at = mem[r].at /\ mem'[r].listing = mem[r].listing
      /\ mem'[r].posts = mem[r].posts /\ mem'[r].fetched = mem[r].fetched
      /\ mem'[r].obs = mem[r].obs
      /\ \A i \in Item : ContextOf[i] \in mem[r].at => mem'[r].stored[i] = items[i]
  BY <1>2, <1>3 DEF Memory
<1>5. Current(r)'
  BY <1>1, <1>4 DEF Current
<1>6. Fresh(r)'
  BY <1>1, <1>4 DEF Fresh, Listed
<1> QED BY <1>5, <1>6

LEMMA SkipIsCurrent ==
  ASSUME TypeOK, NEW r \in Run, NEW c \in Context, SkipContext(r, c), Current(r)
  PROVE  Current(r)' /\ mem'[r].at = {}
<1>1. UNCHANGED <<canvas, linked, title, open, changed, items, baselined, coverage>>
  BY DEF SkipContext, canvasVars, dbVars
<1>2. /\ mem'[r].marks = mem[r].marks /\ mem'[r].covSeen = mem[r].covSeen
      /\ mem'[r].todo = mem[r].todo \ {c} /\ mem'[r].heard = mem[r].heard \ {c}
      /\ mem'[r].at = {}
      /\ mem'[r].posts = [i \in Item |-> IF ContextOf[i] = c THEN Absent ELSE mem[r].posts[i]]
  BY DEF SkipContext, Left, EmptyMemory, TypeOK
<1>3. \A i \in Item : mem'[r].posts[i] = IF ContextOf[i] = c THEN Absent ELSE mem[r].posts[i]
  BY <1>2
<1>4. Current(r)'
  <2> SUFFICES /\ mem[r].marks \subseteq baselined
               /\ \A d \in mem'[r].todo \cup mem'[r].at : mem'[r].covSeen[d] = coverage[d]
               /\ mem'[r].heard \subseteq mem'[r].todo
               /\ \A i \in Item : mem'[r].posts[i] # Absent =>
                    ResourceOf[i] = "announcement" /\ ContextOf[i] \in mem'[r].heard \cap open
               /\ \A i \in Item \ changed :
                    ResourceOf[i] = "announcement" /\ ContextOf[i] \in mem'[r].heard \cap open =>
                      mem'[r].posts[i] = canvas[i]
    BY <1>1, <1>2 DEF Current
  <2> QED BY <1>2, <1>3 DEF Current
<1> QED BY <1>2, <1>4

-----------------------------------------------------------------------------
(* What a commit finds to be news was touched, or Modules shows it         *)
(* otherwise than Files.                                                   *)
LEMMA CommitTells ==
  ASSUME TypeOK, KnownAtRest, NEW r \in Run, NEW c \in Context, Current(r), Fresh(r),
         pc[r] = "read", mem[r].at = {c}, NEW i \in ToNotify(mem[r], c), i \notin changed
  PROVE  ModulesDisagree(i)
<1> DEFINE m == mem[r]
<1>1. i \in Item /\ m.obs[i] # Absent /\ m.obs[i].shown /\ ~Baseline(m, c, ResourceOf[i])
  BY DEF ToNotify, IsNews, Decided
<1>2. ContextOf[i] = c /\ m.stored[i] = items[i] /\ m.obs[i] = Listed(i, m.listing)
  BY <1>1 DEF Fresh
<1>3. canvas[i] # Absent
  BY <1>1, <1>2, ListedIs
<1>4. /\ items[i].version # Absent => HashOf(i, items[i].version) # HashOf(i, m.obs[i])
      /\ items[i].version # Absent => Change(i, items[i].version, m.obs[i])
  BY <1>2 DEF ToNotify, IsNews, Decided
<1>5. <<c, ResourceOf[i]>> \in baselined /\ m.covSeen[c] = coverage[c]
  BY <1>1 DEF Baseline, Current
<1>6. ~(ResourceOf[i] = "file" /\ Upgraded(m, c))
  BY <1>1 DEF Baseline
<1> HIDE DEF m
<1>7. /\ items[i].version \in {Absent, Listed(i, "full"), Listed(i, "modules_only")}
      /\ ResourceOf[i] = "file" => coverage[c] # "unknown"
      /\ ResourceOf[i] # "file" \/ linked[i] # "no" => items[i].version # Absent
      /\ ResourceOf[i] = "file" /\ coverage[c] = "full" =>
           items[i].version # Absent /\ HashOf(i, items[i].version) = HashOf(i, canvas[i])
  BY <1>1, <1>2, <1>3, <1>5 DEF KnownAtRest
<1>8. ResourceOf[i] = "file"
  BY <1>1, <1>2, <1>3, <1>4, <1>7, ListedIs
<1>9. m.listing \in {"full", "modules_only"}
  BY <1>1, <1>8 DEF Fresh, m
<1>10. m.listing = "modules_only"
  <2> SUFFICES ASSUME m.listing = "full" PROVE FALSE
    BY <1>9
  <2>1. coverage[c] \in Coverage
    BY DEF TypeOK
  <2>2. coverage[c] = "full"
    BY <1>5, <1>6, <1>7, <1>8, <2>1 DEF Upgraded, Coverage
  <2>3. m.obs[i] = canvas[i]
    BY <1>1, <1>2, <1>8, ListedIs
  <2> QED BY <1>4, <1>7, <1>8, <2>2, <2>3
<1>11. /\ linked[i] # "no" /\ m.obs[i].content = Unknown /\ m.obs[i].name = title[i]
       /\ linked[i] = "published"
  BY <1>1, <1>2, <1>8, <1>10, ListedIs
<1>12. items[i].version = canvas[i]
  BY <1>1, <1>2, <1>4, <1>7, <1>8, <1>10, <1>11, ListedIs
<1>13. ~canvas[i].shown \/ title[i] # canvas[i].name
  BY <1>3, <1>4, <1>8, <1>11, <1>12 DEF Change, Differ
<1> QED BY <1>3, <1>11, <1>13 DEF ModulesDisagree

LEMMA CommitKnows ==
  ASSUME TypeOK, KnownAtRest, NEW r \in Run, NEW c \in Context, Current(r), Fresh(r),
         Commit(r, c)
  PROVE  KnownAtRest'
<1> DEFINE m == mem[r]
<1>1. /\ pc[r] = "read" /\ m.at = {c} /\ m \in Memory
      /\ UNCHANGED <<canvas, linked, title, changed>>
      /\ baselined' = baselined \cup NewlyBased(m, c)
      /\ coverage' = [coverage EXCEPT ![c] = CoverageAfter(m, c)]
      /\ items' = [j \in Item |-> IF j \in Decided(m) THEN RowAfter(m, c, j) ELSE items[j]]
  BY DEF Commit, canvasVars, TypeOK
<1>2. \A d \in Context : \A t : <<d, t>> \in baselined' =>
        <<d, t>> \in baselined \/ (d = c /\ t \in m.fetched)
  BY <1>1 DEF NewlyBased
<1>3. \A d \in Context : coverage'[d] = IF d = c THEN CoverageAfter(m, c) ELSE coverage[d]
  BY <1>1 DEF TypeOK
<1>l. \A i, lst : Listed(i, lst)' = Listed(i, lst)
  BY <1>1 DEF Listed
<1>4. SUFFICES ASSUME NEW i \in Item \ changed, canvas[i] # Absent
      PROVE  /\ items'[i].version \in {Absent, Listed(i, "full"), Listed(i, "modules_only")}
             /\ <<ContextOf[i], ResourceOf[i]>> \in baselined' =>
                  /\ ResourceOf[i] = "file" => coverage'[ContextOf[i]] # "unknown"
                  /\ ResourceOf[i] # "file" \/ linked[i] # "no" => items'[i].version # Absent
             /\ ResourceOf[i] = "file" /\ coverage'[ContextOf[i]] = "full" =>
                  /\ items'[i].version # Absent
                  /\ HashOf(i, items'[i].version) = HashOf(i, canvas[i])
  BY <1>1, <1>l DEF KnownAtRest, HashOf
<1>5. ContextOf[i] \in Context
  BY SyncAssumption
<1>6. /\ items[i].version \in {Absent, Listed(i, "full"), Listed(i, "modules_only")}
      /\ <<ContextOf[i], ResourceOf[i]>> \in baselined =>
           /\ ResourceOf[i] = "file" => coverage[ContextOf[i]] # "unknown"
           /\ ResourceOf[i] # "file" \/ linked[i] # "no" => items[i].version # Absent
      /\ ResourceOf[i] = "file" /\ coverage[ContextOf[i]] = "full" =>
           /\ items[i].version # Absent
           /\ HashOf(i, items[i].version) = HashOf(i, canvas[i])
  BY <1>4 DEF KnownAtRest
<1>7. CASE ContextOf[i] # c
  <2>1. m.obs[i] = Absent
    BY <1>1, <1>7 DEF Fresh
  <2>2. items'[i] = items[i]
    BY <1>1, <2>1 DEF Decided
  <2> QED BY <1>2, <1>3, <1>5, <1>6, <1>7, <2>2
<1>8. CASE ContextOf[i] = c
  <2>1. /\ m.stored[i] = items[i]
        /\ m.obs[i] \in {Absent, Listed(i, m.listing)}
        /\ ResourceOf[i] \in m.fetched => m.obs[i] = Listed(i, m.listing)
        /\ ResourceOf[i] = "file" =>
             ("file" \in m.fetched <=> m.listing \in {"full", "modules_only"})
        /\ ResourceOf[i] = "file" /\ m.obs[i] # Absent =>
             m.listing \in {"full", "modules_only"}
    BY <1>1, <1>8 DEF Fresh
  <2>2. \/ items'[i].version = m.obs[i] /\ m.obs[i] # Absent
        \/ /\ items'[i].version = items[i].version
           /\ m.obs[i] # Absent => items[i].version # Absent
                                   /\ HashOf(i, items[i].version) = HashOf(i, m.obs[i])
    BY <1>1, <2>1 DEF Decided, RowAfter
  <2>3. m.listing \in {"full", "modules_only", "none", "error"}
    BY <1>1 DEF Memory
  <2>4. coverage'[c] = IF m.listing = "error" THEN coverage[c] ELSE m.listing
    BY <1>3 DEF CoverageAfter
  <2>5. <<c, ResourceOf[i]>> \in baselined' =>
          <<c, ResourceOf[i]>> \in baselined \/ ResourceOf[i] \in m.fetched
    BY <1>2
  <2> HIDE DEF m
  <2>6. items'[i].version \in {Absent, Listed(i, "full"), Listed(i, "modules_only")}
    BY <1>4, <1>6, <2>1, <2>2, <2>3, ListedIs
  <2>7. ASSUME <<c, ResourceOf[i]>> \in baselined', ResourceOf[i] = "file"
        PROVE  coverage'[c] # "unknown"
    BY <1>6, <1>8, <2>1, <2>3, <2>4, <2>5, <2>7
  <2>8. ASSUME <<c, ResourceOf[i]>> \in baselined', ResourceOf[i] # "file" \/ linked[i] # "no"
        PROVE  items'[i].version # Absent
    <3>1. CASE <<c, ResourceOf[i]>> \in baselined
      BY <1>6, <1>8, <2>2, <2>8, <3>1
    <3>2. CASE ResourceOf[i] \in m.fetched
      <4>1. Listed(i, m.listing) # Absent
        BY <1>4, <2>1, <2>8, <3>2, ListedIs
      <4> QED BY <2>1, <2>2, <3>2, <4>1
    <3> QED BY <2>5, <2>8, <3>1, <3>2
  <2>9. ASSUME ResourceOf[i] = "file", coverage'[c] = "full"
        PROVE  /\ items'[i].version # Absent
               /\ HashOf(i, items'[i].version) = HashOf(i, canvas[i])
    <3>1. CASE m.listing = "full"
      <4>1. m.obs[i] = canvas[i]
        BY <1>4, <2>1, <2>9, <3>1, ListedIs
      <4> QED BY <1>4, <2>2, <4>1
    <3>2. CASE m.listing = "error"
      <4>1. m.obs[i] = Absent
        BY <2>1, <2>9, <3>2
      <4> QED BY <1>6, <1>8, <2>2, <2>4, <2>9, <3>2, <4>1
    <3> QED BY <2>3, <2>4, <2>9, <3>1, <3>2
  <2> QED BY <1>8, <2>6, <2>7, <2>8, <2>9
<1> QED BY <1>7, <1>8

LEMMA CommitIsCurrent ==
  ASSUME TypeOK, NEW r \in Run, NEW c \in Context, Commit(r, c), Current(r)
  PROVE  Current(r)' /\ mem'[r].at = {}
<1>1. /\ UNCHANGED <<canvas, open, changed>> /\ mem[r].at = {c}
      /\ baselined \subseteq baselined'
      /\ coverage' = [coverage EXCEPT ![c] = CoverageAfter(mem[r], c)]
  BY DEF Commit, canvasVars
<1>2. \A d \in Context \ {c} : coverage'[d] = coverage[d]
  BY <1>1 DEF TypeOK
<1>3. /\ mem'[r].marks = mem[r].marks /\ mem'[r].covSeen = mem[r].covSeen
      /\ mem'[r].todo = mem[r].todo /\ mem'[r].heard = mem[r].heard
      /\ mem'[r].posts = mem[r].posts /\ mem'[r].at = {}
  BY DEF Commit, Left, EmptyMemory, TypeOK
<1>4. mem[r].todo \subseteq Context \ {c}
  BY <1>1 DEF Current, TypeOK, Memory
<1> QED BY <1>1, <1>2, <1>3, <1>4 DEF Current

LEMMA BaselineInit == Init => BaselineInv
<1> SUFFICES ASSUME Init PROVE BaselineInv
  OBVIOUS
<1>1. KnownAtRest
  <2>1. baselined = {} /\ \A i \in Item : items[i].version = Absent
    BY DEF Init, NotStored
  <2>2. \A i \in Item : coverage[ContextOf[i]] # "full"
    BY SyncAssumption DEF Init
  <2> QED BY <2>1, <2>2 DEF KnownAtRest
<1>2. OnlyChangesAreNews
  BY DEF Init, OnlyChangesAreNews
<1> QED BY <1>1, <1>2 DEF Init, BaselineInv, EmptyMemory

(* What the steps of a run and of Canvas leave alone. *)
LEMMA BaselineNext ==
  ASSUME ~OpensMidRun, OrderInv, BaselineInv, [Next]_vars
  PROVE  BaselineInv'
<1> USE DEF BaselineInv, OrderInv
<1>1. ASSUME Untouched, UNCHANGED <<items, baselined, coverage, news, open, pc, mem>>
      PROVE  BaselineInv'
  <2>1. KnownAtRest' /\ OnlyChangesAreNews'
    BY <1>1, KeepKnown, KeepNews DEF TypeOK
  <2> QED BY <1>1, <2>1, KeepRun
<1>2. CASE UNCHANGED vars
  BY <1>1, <1>2 DEF vars, canvasVars, dbVars, runVars, Untouched
<1>3. ASSUME NEW i \in Item, Edit(i) \/ Relink(i) PROVE BaselineInv'
  <2>1. Untouched
    BY <1>3 DEF Edit, Relink, Untouched, TypeOK
  <2> QED BY <1>1, <1>3, <2>1 DEF Edit, Relink, dbVars, runVars
<1>4. ASSUME NEW c \in Context, Admit(c) PROVE BaselineInv'
  <2>1. Untouched /\ UNCHANGED <<items, baselined, coverage, news, pc, mem>>
    BY <1>4 DEF Admit, Untouched, dbVars, runVars
  <2>2. \A r \in Run : pc[r] = "idle"
    BY <1>4 DEF Admit
  <2> QED BY <2>1, <2>2, KeepKnown, KeepNews DEF TypeOK
<1>5. ASSUME NEW r \in Run, NEW s, pc'[r] = s,
             \A q \in Run \ {r} : pc'[q] = "idle" /\ mem'[q].at = {},
             s \in {"idle", "contexts", "flush"} => mem'[r].at = {},
             s \in {"contexts", "fetched", "read"} => Current(r)',
             s \in {"fetched", "read"} => Fresh(r)'
      PROVE  \A q \in Run : /\ pc'[q] \in {"contexts", "fetched", "read"} => Current(q)'
                            /\ pc'[q] \in {"idle", "contexts", "flush"} => mem'[q].at = {}
                            /\ pc'[q] \in {"fetched", "read"} => Fresh(q)'
  <2> TAKE q \in Run
  <2>1. CASE q = r
    BY <1>5, <2>1
  <2>2. CASE q # r
    BY <1>5, <2>2
  <2> QED BY <2>1, <2>2
<1>6. ASSUME NEW r \in Run, Begin(r) \/ BeginBlind(r) \/ Die(r) \/ ReadStored(r)
                            \/ EnqueueWatching(r) \/ Flush(r)
                            \/ \E c \in Context : Fetch(r, c) \/ SkipContext(r, c)
      PROVE  BaselineInv'
  <2>1. Untouched /\ UNCHANGED <<items, baselined, coverage, news>>
    BY <1>6 DEF Begin, BeginBlind, Die, ReadStored, EnqueueWatching, Flush, Fetch, SkipContext,
                canvasVars, dbVars, Untouched
  <2>2. KnownAtRest' /\ OnlyChangesAreNews'
    BY <2>1, KeepKnown, KeepNews DEF TypeOK
  <2>3. \A q \in Run \ {r} : pc'[q] = "idle" /\ mem'[q].at = {}
    <3>1. \A q \in Run \ {r} : pc[q] = "idle"
      BY <1>6 DEF OneAtWork, Begin, BeginBlind, MayStart, Die, ReadStored, EnqueueWatching, Flush,
                  Fetch, SkipContext
    <3>2. \A q \in Run \ {r} : pc'[q] = pc[q] /\ mem'[q] = mem[q]
      <4>1. /\ pc \in [Run -> {"idle", "contexts", "fetched", "read", "flush"}]
            /\ mem \in [Run -> Memory]
        BY DEF TypeOK
      <4>2. CASE Begin(r) \/ BeginBlind(r) \/ Die(r) \/ ReadStored(r)
        BY <4>1, <4>2 DEF Begin, BeginBlind, Die, ReadStored
      <4>3. CASE EnqueueWatching(r) \/ Flush(r)
        BY <4>1, <4>3 DEF EnqueueWatching, Flush
      <4>4. ASSUME NEW c \in Context, Fetch(r, c)
            PROVE \A q \in Run \ {r} : pc'[q] = pc[q] /\ mem'[q] = mem[q]
        BY <4>1, <4>4 DEF Fetch
      <4>5. ASSUME NEW c \in Context, SkipContext(r, c)
            PROVE \A q \in Run \ {r} : pc'[q] = pc[q] /\ mem'[q] = mem[q]
        BY <4>1, <4>5 DEF SkipContext
      <4> QED BY <1>6, <4>2, <4>3, <4>4, <4>5
    <3> QED BY <3>1, <3>2
  <2>4. CASE Begin(r)
    <3>1. pc[r] = "idle" /\ pc'[r] = "contexts"
      BY <2>4 DEF Begin, MayStart, TypeOK
    <3> QED BY <1>5, <2>2, <2>3, <2>4, <3>1, BeginIsCurrent
  <2>5. CASE BeginBlind(r) \/ Die(r) \/ EnqueueWatching(r) \/ Flush(r)
    <3>1. pc'[r] \in {"idle", "flush"}
      BY <2>5 DEF BeginBlind, Die, EnqueueWatching, Flush, TypeOK
    <3>2. mem'[r].at = {}
      BY <2>5 DEF BeginBlind, MayStart, Die, EnqueueWatching, Flush, EmptyMemory, TypeOK
    <3> QED BY <1>5, <2>2, <2>3, <3>1, <3>2
  <2>6. CASE ReadStored(r)
    <3>1. pc[r] = "fetched" /\ pc'[r] = "read"
      BY <2>6 DEF ReadStored, TypeOK
    <3> QED BY <1>5, <2>2, <2>3, <2>6, <3>1, ReadIsFresh
  <2>7. ASSUME NEW c \in Context, Fetch(r, c) PROVE BaselineInv'
    <3>1. pc[r] = "contexts" /\ pc'[r] = "fetched"
      BY <2>7 DEF Fetch, TypeOK
    <3> QED BY <1>5, <2>2, <2>3, <2>7, <3>1, FetchIsFresh
  <2>8. ASSUME NEW c \in Context, SkipContext(r, c) PROVE BaselineInv'
    <3>1. pc[r] \in {"contexts", "fetched", "read"} /\ pc'[r] = "contexts"
      BY <2>8 DEF SkipContext, TypeOK
    <3> QED BY <1>5, <2>2, <2>3, <2>8, <3>1, SkipIsCurrent
  <2> QED BY <1>6, <2>4, <2>5, <2>6, <2>7, <2>8
<1>7. ASSUME NEW r \in Run, NEW c \in Context, Commit(r, c) PROVE BaselineInv'
  <2>1. /\ pc[r] = "read" /\ mem[r].at = {c} /\ pc'[r] = "contexts"
        /\ UNCHANGED <<canvas, linked, title, changed>>
        /\ news' = news \cup NewsRefs(mem[r], c)
    BY <1>7 DEF Commit, canvasVars, TypeOK
  <2>2. Current(r) /\ Fresh(r)
    BY <2>1
  <2>3. KnownAtRest'
    BY <1>7, <2>2, CommitKnows
  <2>4. OnlyChangesAreNews'
    <3> SUFFICES ASSUME NEW p \in news' PROVE p.item \in changed \/ ModulesDisagree(p.item)
      BY <2>1 DEF OnlyChangesAreNews, ModulesDisagree
    <3>1. CASE p \in news
      BY <3>1 DEF OnlyChangesAreNews
    <3>2. CASE p \notin news
      <4>1. PICK i \in ToNotify(mem[r], c) : p = RefOf(i, mem[r].obs[i])
        BY <2>1, <3>2 DEF NewsRefs
      <4>2. p.item = i
        BY <4>1 DEF RefOf
      <4> QED BY <2>1, <2>2, <4>1, <4>2, CommitTells
    <3> QED BY <3>1, <3>2
  <2>5. \A q \in Run \ {r} : pc'[q] = "idle" /\ mem'[q].at = {}
    BY <1>7, <2>1 DEF OneAtWork, Commit, TypeOK
  <2> QED BY <1>5, <1>7, <2>1, <2>2, <2>3, <2>4, <2>5, CommitIsCurrent
<1> QED BY <1>2, <1>3, <1>4, <1>6, <1>7 DEF Next

(* Baselines (D-38, D-41, D-47; classify.ts): of what was there all along  *)
(* nothing is announced, whatever failed, for any number of runs, courses, *)
(* groups and items, as long as no course is opened or closed to the token *)
(* while a run is at work; but for files that a module shows though they   *)
(* are hidden, or links under another name than their own.                 *)
THEOREM OldIsNoNews == ~OpensMidRun => (Spec => []OnlyChangesAreNews)
<1> SUFFICES ASSUME ~OpensMidRun PROVE Spec => []OnlyChangesAreNews
  OBVIOUS
<1>1. OrderInv /\ TypeOK' /\ [Next]_vars => OrderInv'
  BY OrderNext
<1>2. OrderInv /\ BaselineInv /\ [Next]_vars => BaselineInv'
  BY BaselineNext
<1>3. BaselineInv => OnlyChangesAreNews
  BY DEF BaselineInv
<1> QED BY OrderInit, BaselineInit, TypesHold, <1>1, <1>2, <1>3, PTL DEF Spec

=============================================================================
