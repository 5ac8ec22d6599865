---------------------------- MODULE StorageProofs ----------------------------
(***************************************************************************)
(* Proofs about the archive's neighbours: the mirror, the Graph guard, the *)
(* tokens and the OneDrive client.  Each has its inductive invariant over  *)
(* its own variables (MirrorInv and OneCopyInv, GuardInv, TokensInv,       *)
(* ClientInv).  The mirror's theorems are of its own specification, the    *)
(* others of ArchiveSpec.                                                  *)
(***************************************************************************)
EXTENDS Storage, SequenceTheorems, FiniteSetTheorems, WellFoundedInduction, TLAPS

(* A set of numbers has a least one. *)
LEMMA LeastNumber ==
  ASSUME NEW S, S \subseteq Nat, S # {}
  PROVE  \E n \in S : \A m \in S : n <= m
<1> DEFINE R == OpToRel(<, Nat)
<1>1. IsWellFoundedOn(R, Nat)
  BY NatLessThanWellFounded
<1>2. \A x, y \in Nat : x < y => <<x, y>> \in R
  BY DEF OpToRel
<1> HIDE DEF R
<1>3. PICK n \in S : \A m \in S : <<m, n>> \notin R
  BY <1>1, WFMin
<1>4. \A m \in S : ~(m < n)
  BY <1>2, <1>3
<1> QED BY <1>4

-----------------------------------------------------------------------------
(* The mirror.  MirrorInv: no two items have one name, and what a rename   *)
(* saw of its source and destination before it began.                      *)
OneItemEach ==
  /\ \A i \in dest : i = [at |-> i.at, of |-> i.of, by |-> i.by]
  /\ \A i, j \in dest : i.at = j.at => i = j

WhatWasSeen ==
  pc = "rename" => \A i \in job.seen : /\ i.at # job.to
                                       /\ i.at = job.from => i.of = job.file

MirrorInv == OneItemEach /\ WhatWasSeen

(* A place that is empty may be filled. *)
LEMMA FilledOnce ==
  ASSUME OneItemEach, NEW place, NEW of, NEW by, At(place) = {},
         dest' = dest \cup {[at |-> place, of |-> of, by |-> by]}
  PROVE  OneItemEach'
BY DEF OneItemEach, At

(* The steps of a run and of the world that leave the owner's folders. *)
LEMMA DestStays ==
  ASSUME Next, ~Copy, ~Rename, ~Die,
         \A folder \in Folder \ Unmapped :
           ~OwnerClears(folder) /\ \A n \in 1 .. Variants : ~OwnerMakes(folder, n),
         \A i \in dest : ~OwnerTakes(i) /\ ~OwnerWrites(i)
  PROVE  dest' = dest
BY DEF Next, Step, World, Start, NewDone, Record, Moved, Finish, PassOver, Defer, Stumble,
        Stage, Balk, Leave,
       Follow, Baseline, Archived, Synced, Materialize, Clouded, OwnerOpens, owned, vars

LEMMA NextOneItemEach == OneItemEach /\ [Next]_vars => OneItemEach'
<1> SUFFICES ASSUME OneItemEach, [Next]_vars PROVE OneItemEach'
  OBVIOUS
<1>1. CASE dest' = dest
  BY <1>1 DEF OneItemEach
<1>2. CASE Copy
  BY <1>1, <1>2, FilledOnce DEF Copy
<1>3. CASE Die
  BY <1>1, <1>3, FilledOnce DEF Die
<1>4. CASE Rename
  <2>1. CASE At(job.from) = {}
    BY <1>1, <1>4, <2>1 DEF Rename
  <2>2. CASE At(job.from) # {}
    <3> PICK i \in dest : i.at = job.from
      BY <2>2 DEF At
    <3>1. At(job.from) = {i}
      BY DEF At, OneItemEach
    <3>2. [i EXCEPT !.at = job.to] = [at |-> job.to, of |-> i.of, by |-> i.by]
      BY DEF OneItemEach
    <3>3. dest' = {j \in dest : j.at \notin {job.from, job.to}}
                    \cup {[at |-> job.to, of |-> i.of, by |-> i.by]}
      BY <1>4, <2>2, <3>1, <3>2 DEF Rename
    <3> QED BY <3>3 DEF OneItemEach
  <2> QED BY <2>1, <2>2
<1>5. ASSUME NEW folder \in Folder \ Unmapped,
             OwnerClears(folder) \/ \E n \in 1 .. Variants : OwnerMakes(folder, n)
      PROVE  OneItemEach'
  <2>1. CASE OwnerClears(folder)
    BY <2>1 DEF OwnerClears, Touch, OneItemEach
  <2>2. CASE \E n \in 1 .. Variants : OwnerMakes(folder, n)
    BY <2>2, FilledOnce DEF OwnerMakes, Touch
  <2> QED BY <1>5, <2>1, <2>2
<1>6. ASSUME NEW i \in dest, OwnerTakes(i) \/ OwnerWrites(i) PROVE OneItemEach'
  <2>1. CASE OwnerTakes(i)
    BY <2>1 DEF OwnerTakes, OwnerClears, OwnerOpens, owned, Touch, OneItemEach
  <2>2. CASE OwnerWrites(i)
    <3>1. dest' = (dest \ {i}) \cup {[at |-> i.at, of |-> Own, by |-> None]}
      BY <2>2 DEF OwnerWrites, Touch
    <3> QED BY <3>1 DEF OneItemEach
  <2> QED BY <1>6, <2>1, <2>2
<1> QED BY <1>1, <1>2, <1>3, <1>4, <1>5, <1>6, DestStays DEF vars, owned

LEMMA NextWhatWasSeen == MirrorInv /\ [Next]_vars => WhatWasSeen'
<1> SUFFICES ASSUME MirrorInv, [Next]_vars PROVE WhatWasSeen'
  OBVIOUS
<1> USE DEF MirrorInv
<1>1. CASE UNCHANGED <<pc, job>>
  BY <1>1 DEF WhatWasSeen
<1>2. ASSUME NEW f \in File, Follow(f) PROVE WhatWasSeen'
  <2>1. /\ job' = [file |-> f, from |-> saved[f].to, to |-> NewPlace(f), seen |-> dest]
        /\ MayFollow(f)
    BY <1>2 DEF Follow
  <2>2. \A i \in dest : i.at # NewPlace(f)
    BY <2>1 DEF MayFollow, At
  <2>3. \A i \in dest : i.at = saved[f].to => i.of = f
    BY <2>1 DEF MayFollow, Untouched, At, OneItemEach
  <2> QED BY <2>1, <2>2, <2>3 DEF WhatWasSeen
<1>3. CASE pc' # "rename"
  BY <1>3 DEF WhatWasSeen
<1>4. CASE Step
  BY <1>1, <1>2, <1>3, <1>4
     DEF Step, Start, NewDone, Copy, Record, Saved, Rename, Moved, Finish, Idle, PassOver,
         Defer, Stumble, Stage, Balk, Leave
<1>5. CASE World
  BY <1>1, <1>3, <1>5
     DEF World, Die, Idle, Baseline, Archived, Synced, Materialize, Clouded, OwnerMakes,
     OwnerTakes, OwnerClears, OwnerOpens, owned,
         OwnerWrites, Touch, runVars
<1>6. CASE UNCHANGED vars
  BY <1>1, <1>6 DEF vars, runVars
<1> QED BY <1>4, <1>5, <1>6 DEF Next

(* Nothing in the destination is overwritten: mirror.ts:15-16. *)
THEOREM NothingIsLost == Spec => Kept
<1>1. Init => MirrorInv
  BY DEF Init, MirrorInv, OneItemEach, WhatWasSeen
<1>2. MirrorInv /\ [Next]_vars => MirrorInv'
  BY NextOneItemEach, NextWhatWasSeen DEF MirrorInv
<1>3. MirrorInv /\ [Next]_vars
        => [dest' # dest /\ pc' # pc /\ pc \in {"copy", "rename"} =>
              \A i \in job.seen \cap dest :
                i \in dest' \/ (i.at = job.from /\ i.of = job.file)]_vars
  <2> SUFFICES ASSUME MirrorInv, Next, dest' # dest, pc' # pc, pc \in {"copy", "rename"},
                      NEW i \in job.seen \cap dest, i \notin dest'
               PROVE  i.at = job.from /\ i.of = job.file
    OBVIOUS
  <2>1. CASE Rename
    BY <2>1 DEF Rename, MirrorInv, WhatWasSeen
  <2>2. ~Copy /\ ~Die
    BY DEF Copy, Die
  <2>3. /\ \A folder \in Folder \ Unmapped :
             ~OwnerClears(folder) /\ \A n \in 1 .. Variants : ~OwnerMakes(folder, n)
        /\ \A j \in dest : ~OwnerTakes(j) /\ ~OwnerWrites(j)
    BY DEF OwnerMakes, OwnerTakes, OwnerWrites, OwnerClears, Touch, runVars
  <2> QED BY <2>1, <2>2, <2>3, DestStays
<1> QED BY <1>1, <1>2, <1>3, PTL DEF Spec, Kept

-----------------------------------------------------------------------------
(* One copy each.  A file's whole copy is either known to the state that   *)
(* the run saves, or about to be (UntilDeath); or, where a run died before *)
(* it saved it, it is at the first name that nothing else holds, which is  *)
(* where the next run looks (WhereLooked): as long as neither the owner    *)
(* nor the archive moves anything in between.                              *)
WholeCopy(f, i) == i.by = f /\ i.of = f

RunShape ==
  /\ bounds.mishaps \in Nat /\ bounds.edits \in Nat /\ bounds.moves \in Nat
  /\ DOMAIN bounds = {"mishaps", "edits", "moves"}
  /\ DOMAIN archive = File
  /\ saved = NoState => pc = "idle" /\ \A f \in File, i \in dest : ~WholeCopy(f, i)
  /\ saved # NoState => DOMAIN saved = File
  /\ todo \subseteq Listed(rows)
  /\ pc \in {"copy", "record", "rename", "moved"} => job.file \in Listed(rows)
  /\ pc = "copy" => saved[job.file].status = None

UntilDeath ==
  bounds.mishaps = 0 =>
    /\ \A f \in File, i \in dest :
         WholeCopy(f, i) => saved[f].status # None \/ (pc = "record" /\ job.file = f)
    /\ \A f \in File : \A i, j \in dest : WholeCopy(f, i) /\ WholeCopy(f, j) => i = j

(* The first of a file's names that nothing else holds. *)
Held(place, f) == \E k \in At(place) : k.of # f
FirstFree(f, place) ==
  \E n \in 1 .. Variants : /\ place = Place(archive[f], n)
                           /\ \A m \in 1 .. Variants : m < n => Held(Place(archive[f], m), f)

WhereLooked ==
  Undisturbed =>
    /\ \A f \in File : rows[f] # None => rows[f] = archive[f]
    /\ \A f \in File :
         saved # NoState /\ saved[f].status = "copied" =>
           saved[f].path = archive[f] /\ archive[f] # None
    /\ pc \notin {"rename", "moved"}
    /\ \A f \in File, i \in dest :
         WholeCopy(f, i) => archive[f] # None /\ FirstFree(f, i.at)
    /\ pc = "copy" => FirstFree(job.file, job.to)

OneCopyInv == OneItemEach /\ RunShape /\ UntilDeath /\ WhereLooked

Counted ==
  /\ bounds'.mishaps \in Nat /\ bounds'.edits \in Nat /\ bounds'.moves \in Nat
  /\ DOMAIN bounds' = {"mishaps", "edits", "moves"}
  /\ bounds'.mishaps = 0 => bounds.mishaps = 0
  /\ Undisturbed' => Undisturbed

LEMMA SpendCounts ==
  ASSUME RunShape, NEW what \in {"mishaps", "edits", "moves"}, NEW max, Spend(what, max)
  PROVE  /\ Counted
         /\ what = "mishaps" => bounds'.mishaps # 0
         /\ what \in {"edits", "moves"} => ~Undisturbed'
BY DEF RunShape, Spend, Counted, Undisturbed

LEMMA NextCounted == RunShape /\ [Next]_vars => Counted
<1> SUFFICES ASSUME RunShape, [Next]_vars PROVE Counted
  OBVIOUS
<1>1. CASE UNCHANGED bounds
  BY <1>1 DEF RunShape, Counted, Undisturbed
<1>2. ASSUME NEW what \in {"mishaps", "edits", "moves"}, NEW max, Spend(what, max)
      PROVE  Counted
  BY <1>2, SpendCounts
<1>3. CASE Step \/ UNCHANGED vars
  BY <1>1, <1>3 DEF Step, Start, NewDone, Copy, Record, Rename, Moved, Finish, PassOver, Defer,
                    Stumble, Stage, Balk, Leave, Follow, vars
<1>4. CASE World
  BY <1>1, <1>2, <1>4 DEF World, Die, Baseline, Archived, Synced, Materialize, Clouded,
          OwnerMakes,
                          OwnerTakes, OwnerClears, OwnerOpens, owned, OwnerWrites, Touch
<1> QED BY <1>3, <1>4 DEF Next

(* What becomes of the items that are there.                               *)
LEMMA WhereItemsComeFrom ==
  ASSUME OneItemEach, RunShape, [Next]_vars
  PROVE  \/ UNCHANGED dest
         \/ Copy /\ dest' = dest \cup {[at |-> job.to, of |-> job.file, by |-> job.file]}
                 /\ pc' = "record"
         \/ Die /\ dest' = dest \cup {[at |-> job.to, of |-> Part, by |-> job.file]}
                /\ pc = "copy" /\ bounds'.mishaps # 0
         \/ Rename /\ \E i \in dest : dest' = {j \in dest : j.at \notin {job.from, job.to}}
                                                \cup {[at |-> job.to, of |-> i.of, by |-> i.by]}
                                      /\ i.at = job.from
         \/ ~Undisturbed' /\ UNCHANGED <<saved, pc, job>>
              /\ \A i \in dest' : i \in dest \/ (i.of = Own /\ i.by = None)
<1>1. CASE Copy
  BY <1>1 DEF Copy
<1>2. CASE Die
  <2>1. bounds'.mishaps # 0
    BY <1>2, SpendCounts DEF Die
  <2> QED BY <1>2, <2>1 DEF Die
<1>3. CASE Rename
  <2>1. CASE At(job.from) = {}
    BY <1>3, <2>1 DEF Rename
  <2>2. CASE At(job.from) # {}
    <3> PICK i \in dest : i.at = job.from
      BY <2>2 DEF At
    <3>1. At(job.from) = {i}
      BY DEF At, OneItemEach
    <3>2. [i EXCEPT !.at = job.to] = [at |-> job.to, of |-> i.of, by |-> i.by]
      BY DEF OneItemEach
    <3>3. dest' = {j \in dest : j.at \notin {job.from, job.to}}
                    \cup {[at |-> job.to, of |-> i.of, by |-> i.by]}
      BY <1>3, <2>2, <3>1, <3>2 DEF Rename
    <3> QED BY <1>3, <3>3
  <2> QED BY <2>1, <2>2
<1>4. ASSUME NEW items, Touch(items),
             \A i \in items : i \in dest \/ (i.of = Own /\ i.by = None)
      PROVE  ~Undisturbed' /\ UNCHANGED <<saved, pc, job>>
              /\ \A i \in dest' : i \in dest \/ (i.of = Own /\ i.by = None)
  BY <1>4, SpendCounts DEF Touch, runVars
<1>5. ASSUME NEW folder \in Folder \ Unmapped,
             OwnerClears(folder) \/ \E n \in 1 .. Variants : OwnerMakes(folder, n)
      PROVE  ~Undisturbed' /\ UNCHANGED <<saved, pc, job>>
              /\ \A i \in dest' : i \in dest \/ (i.of = Own /\ i.by = None)
  <2>1. CASE OwnerClears(folder)
    BY <1>4, <2>1 DEF OwnerClears
  <2>2. CASE \E n \in 1 .. Variants : OwnerMakes(folder, n)
    BY <1>4, <2>2 DEF OwnerMakes
  <2> QED BY <1>5, <2>1, <2>2
<1>6. ASSUME NEW i \in dest, OwnerTakes(i) \/ OwnerWrites(i)
      PROVE  ~Undisturbed' /\ UNCHANGED <<saved, pc, job>>
              /\ \A j \in dest' : j \in dest \/ (j.of = Own /\ j.by = None)
  BY <1>4, <1>6 DEF OwnerTakes, OwnerWrites
<1> QED BY <1>1, <1>2, <1>3, <1>5, <1>6, DestStays DEF vars, owned

LEMMA NextRunShape == OneItemEach /\ RunShape /\ [Next]_vars => RunShape'
<1> SUFFICES ASSUME OneItemEach, RunShape, [Next]_vars PROVE RunShape'
  OBVIOUS
<1>1. Counted
  BY NextCounted
<1>2. DOMAIN archive' = File
  BY DEF RunShape, Next, Step, World, Start, NewDone, Copy, Record, Rename, Moved, Finish,
         PassOver, Defer, Stumble, Stage, Balk, Leave, Follow, Die, Baseline, Archived, Synced,
         Materialize, Clouded,
         OwnerMakes, OwnerTakes, OwnerClears, OwnerOpens, owned, OwnerWrites, Touch, vars
<1>3. CASE UNCHANGED <<saved, runVars>>
  <2>1. \A f \in File, i \in dest' : WholeCopy(f, i) => saved # NoState
    BY <1>3, WhereItemsComeFrom DEF WholeCopy, Own, None, RunShape, runVars, Copy, Die, Rename
  <2> QED BY <1>1, <1>2, <1>3, <2>1 DEF RunShape, runVars, Counted
<1>4. ASSUME saved # NoState, saved' # NoState, DOMAIN saved' = File,
             todo' \subseteq Listed(rows'), pc' # "copy",
             pc' \in {"record", "rename", "moved"} => job'.file \in Listed(rows')
      PROVE  RunShape'
  BY <1>1, <1>2, <1>4 DEF RunShape, Counted
<1>5. ASSUME NEW f \in todo, Stage(f) PROVE RunShape'
  <2>1. /\ pc' # "copy" => pc' \in {"new", "record"}
        /\ pc' # "new" => job'.file = f
        /\ UNCHANGED <<saved, rows, dest>> /\ todo' \subseteq todo /\ saved # NoState
        /\ pc = "new" /\ saved[f].status = None /\ f \in Listed(rows)
    BY <1>5 DEF Stage, Choosing, Passed, NoJob, RunShape, owned
  <2> QED BY <1>1, <1>2, <2>1 DEF RunShape, Counted, Listed
<1>6. ASSUME NEW f \in File, NEW entry, NEW step \in {"new", "follow"}, Saved(f, entry, step),
             UNCHANGED <<rows, todo>>, pc # "idle"
      PROVE  RunShape'
  <2>1. saved # NoState /\ DOMAIN saved' = File
    BY <1>6 DEF RunShape, Saved
  <2>2. saved' # NoState
    <3>1. DOMAIN saved' # DOMAIN NoState
      BY <2>1 DEF NoState
    <3> QED BY <3>1
  <2> QED BY <1>4, <1>6, <2>1, <2>2 DEF RunShape, Saved, Listed
<1>7. CASE Record \/ Moved
  <2>1. job.file \in File /\ pc # "idle"
    BY <1>7 DEF Record, Moved, RunShape, Listed
  <2> QED BY <1>6, <1>7, <2>1 DEF Record, Moved
<1>8. ASSUME NEW f \in File, PassOver(f) \/ Defer(f) \/ Leave(f) \/ Follow(f)
      PROVE  RunShape'
  <2>1. CASE PassOver(f) \/ Defer(f)
    BY <1>4, <1>8, <2>1 DEF PassOver, Defer, RunShape, Listed
  <2>2. CASE Leave(f)
    BY <1>6, <2>2 DEF Leave
  <2>3. CASE Follow(f)
    BY <1>4, <2>3 DEF Follow, Behind, RunShape, Listed
  <2> QED BY <1>8, <2>1, <2>2, <2>3
<1>9. CASE \/ Start \/ NewDone \/ Copy \/ Rename \/ Finish \/ Die
          \/ \E f \in File : Stumble(f) \/ Balk(f)
  BY <1>4, <1>9 DEF Start, NewDone, Copy, Rename, Finish, Die, Stumble, Balk, Choosing, Idle,
                    RunShape, Listed
<1>10. CASE Baseline
  <2>1. DOMAIN saved' = File /\ UNCHANGED <<dest, runVars>> /\ pc = "idle" /\ saved = NoState
    BY <1>10 DEF Baseline, owned
  <2> QED BY <1>1, <1>2, <2>1 DEF RunShape, Counted, runVars
<1>11. CASE Step
  BY <1>5, <1>7, <1>8, <1>9, <1>11 DEF Step, Stage, Choosing
<1>12. CASE World
  BY <1>3, <1>9, <1>10, <1>12
     DEF World, Archived, Synced, Materialize, Clouded, OwnerMakes, OwnerTakes, OwnerClears,
     OwnerOpens, owned, OwnerWrites, Touch
<1> QED BY <1>3, <1>11, <1>12 DEF Next, vars

(* What is known of a file is not forgotten but by a death. *)
LEMMA KnownStays ==
  ASSUME RunShape, Next, ~Die, NEW f \in File, saved # NoState,
         saved[f].status # None \/ (pc = "record" /\ job.file = f)
  PROVE  saved'[f].status # None \/ (pc' = "record" /\ job'.file = f)
<1>1. CASE UNCHANGED <<saved, pc, job>>
  BY <1>1
<1>2. ASSUME UNCHANGED saved, pc # "record" PROVE saved'[f].status # None
  BY <1>2
<1>3. ASSUME NEW g \in File, NEW folder, NEW place, NEW step, pc = "record" => g = job.file,
             Saved(g, Entry("copied", folder, place), step)
      PROVE  saved'[f].status # None
  <2>1. CASE f = g
    <3>1. saved'[f] = Entry("copied", folder, place)
      BY <1>3, <2>1 DEF Saved, RunShape
    <3> QED BY <3>1 DEF Entry, None
  <2>2. CASE f # g
    BY <1>3, <2>2 DEF Saved, RunShape
  <2> QED BY <2>1, <2>2
<1>4. CASE Record \/ Moved
  <2>1. job.file \in File
    BY <1>4 DEF Record, Moved, RunShape, Listed
  <2> QED BY <1>3, <1>4, <2>1 DEF Record, Moved
<1>5. ASSUME NEW g \in File, Leave(g) PROVE saved'[f].status # None
  BY <1>3, <1>5 DEF Leave
<1>6. CASE Step
  BY <1>1, <1>2, <1>4, <1>5, <1>6
     DEF Step, Start, NewDone, Copy, Rename, Finish, PassOver, Defer, Stumble, Stage, Choosing,
         Balk, Follow
<1>7. CASE World
  BY <1>1, <1>7 DEF World, Baseline, Archived, Synced, Materialize, Clouded, OwnerMakes,
          OwnerTakes, OwnerClears, OwnerOpens, owned,
                    OwnerWrites, Touch, runVars
<1> QED BY <1>6, <1>7 DEF Next

LEMMA NextUntilDeath == OneCopyInv /\ [Next]_vars => UntilDeath'
<1> SUFFICES ASSUME OneCopyInv, [Next]_vars, bounds'.mishaps = 0
             PROVE  /\ \A f \in File, i \in dest' :
                         WholeCopy(f, i) =>
                           saved'[f].status # None \/ (pc' = "record" /\ job'.file = f)
                    /\ \A f \in File : \A i, j \in dest' :
                         WholeCopy(f, i) /\ WholeCopy(f, j) => i = j
  BY DEF UntilDeath
<1> USE DEF OneCopyInv
<1>1. bounds.mishaps = 0
  BY NextCounted DEF Counted
<1>2. ~Die
  BY SpendCounts DEF Die
<1>3. /\ \A f \in File, i \in dest :
           WholeCopy(f, i) => saved[f].status # None \/ (pc = "record" /\ job.file = f)
      /\ \A f \in File : \A i, j \in dest : WholeCopy(f, i) /\ WholeCopy(f, j) => i = j
  BY <1>1 DEF UntilDeath
<1>4. \A f \in File, i \in dest :
        WholeCopy(f, i) => saved'[f].status # None \/ (pc' = "record" /\ job'.file = f)
  <2> SUFFICES ASSUME NEW f \in File, NEW i \in dest, WholeCopy(f, i)
               PROVE  saved'[f].status # None \/ (pc' = "record" /\ job'.file = f)
    OBVIOUS
  <2>1. saved # NoState
    BY DEF RunShape
  <2>2. CASE Next
    BY <1>2, <1>3, <2>1, <2>2, KnownStays
  <2>3. CASE UNCHANGED vars
    BY <1>3, <2>3 DEF vars, runVars
  <2> QED BY <2>2, <2>3
<1>5. CASE UNCHANGED dest
  BY <1>3, <1>4, <1>5
<1>6. CASE Copy /\ dest' = dest \cup {[at |-> job.to, of |-> job.file, by |-> job.file]}
                /\ pc' = "record"
  <2>1. \A i \in dest : ~WholeCopy(job.file, i)
    BY <1>3, <1>6 DEF Copy, RunShape, Listed
  <2>2. job' = job
    BY <1>6 DEF Copy, Idle
  <2> QED BY <1>3, <1>4, <1>6, <2>1, <2>2 DEF WholeCopy
<1>7. ASSUME Rename, NEW i \in dest, i.at = job.from,
             dest' = {j \in dest : j.at \notin {job.from, job.to}}
                       \cup {[at |-> job.to, of |-> i.of, by |-> i.by]}
      PROVE  /\ \A f \in File, j \in dest' :
                  WholeCopy(f, j) =>
                    saved'[f].status # None \/ (pc' = "record" /\ job'.file = f)
             /\ \A f \in File : \A j, k \in dest' :
                  WholeCopy(f, j) /\ WholeCopy(f, k) => j = k
  <2> DEFINE new == [at |-> job.to, of |-> i.of, by |-> i.by]
  <2>1. \A f : WholeCopy(f, new) <=> WholeCopy(f, i)
    BY DEF WholeCopy
  <2>2. \A j \in dest' : j = new \/ (j \in dest /\ j # i)
    BY <1>7
  <2> HIDE DEF new
  <2> QED BY <1>3, <1>4, <2>1, <2>2
<1>8. CASE \A i \in dest' : i \in dest \/ (i.of = Own /\ i.by = None)
  <2>1. \A f \in File, i \in dest' : WholeCopy(f, i) => i \in dest
    BY <1>8 DEF WholeCopy, Own, None
  <2> QED BY <1>3, <1>4, <2>1
<1> QED BY <1>2, <1>5, <1>6, <1>7, <1>8, WhereItemsComeFrom

-----------------------------------------------------------------------------
(* The name a run chooses is the first that nothing else holds. *)
LEMMA ChoiceIsFirst ==
  ASSUME NEW f \in File, Choice(f) # 0
  PROVE  /\ Choice(f) \in 1 .. Variants
         /\ \A m \in 1 .. Variants : m < Choice(f) => Held(Place(rows[f], m), f)
<1> DEFINE S == {n \in 1 .. Variants : Place(rows[f], n) \in cold \/ Fits(f, Place(rows[f], n))}
<1>1. Choice(f) = FirstFit(S) /\ S \subseteq Nat
  BY DEF Choice
<1>2. \A n \in 1 .. Variants : n \notin S => Held(Place(rows[f], n), f)
  BY DEF Held, Fits
<1>3. S \subseteq 1 .. Variants
  OBVIOUS
<1> HIDE DEF S
<1>4. S # {} /\ Choice(f) = Min(S)
  BY <1>1 DEF FirstFit
<1>5. Min(S) \in S /\ \A m \in S : Min(S) <= m
  BY <1>1, <1>4, LeastNumber DEF Min
<1>6. \A m \in 1 .. Variants : m < Min(S) => m \notin S
  <2> DEFINE n == Min(S)
  <2>1. n \in 1 .. Variants /\ \A m \in S : n <= m
    BY <1>3, <1>5
  <2> HIDE DEF n
  <2>2. \A m \in 1 .. Variants : m < n => m \notin S
    BY <2>1, MirrorAssumption DEF MirrorAssumption
  <2> QED BY <2>2 DEF n
<1> QED BY <1>2, <1>3, <1>4, <1>5, <1>6

LEMMA FirstFreeStays ==
  ASSUME NEW f, NEW place, FirstFree(f, place), archive'[f] = archive[f], dest \subseteq dest'
  PROVE  FirstFree(f, place)'
BY DEF FirstFree, Held, At

LEMMA NextWhereLooked == OneCopyInv /\ [Next]_vars => WhereLooked'
<1> SUFFICES ASSUME OneCopyInv, [Next]_vars, Undisturbed' PROVE WhereLooked'
  BY DEF WhereLooked
<1> USE DEF OneCopyInv
<1>1. Undisturbed
  BY NextCounted DEF Counted
<1>2. /\ \A f \in File : rows[f] # None => rows[f] = archive[f]
      /\ \A f \in File :
           saved # NoState /\ saved[f].status = "copied" =>
             saved[f].path = archive[f] /\ archive[f] # None
      /\ pc \notin {"rename", "moved"}
      /\ \A f \in File, i \in dest :
           WholeCopy(f, i) => archive[f] # None /\ FirstFree(f, i.at)
      /\ pc = "copy" => FirstFree(job.file, job.to)
  BY <1>1 DEF WhereLooked
(* Nothing goes, and nothing that was archived moves. *)
<1>3. dest \subseteq dest'
  BY <1>2, WhereItemsComeFrom DEF Rename
<1>4. \A f \in File : archive[f] # None => archive'[f] = archive[f]
  <2>1. ASSUME NEW g \in File, NEW folder, Archived(g, folder)
        PROVE  \A f \in File : archive[f] # None => archive'[f] = archive[f]
    <3>1. archive[g] = None
      BY <2>1, SpendCounts DEF Archived
    <3> QED BY <2>1, <3>1 DEF Archived, RunShape
  <2> QED BY <2>1 DEF Next, Step, World, Start, NewDone, Copy, Record, Rename, Moved, Finish,
               PassOver, Defer, Stumble, Stage, Balk, Leave, Follow, Die, Baseline, Synced,
               Materialize, Clouded,
               OwnerMakes, OwnerTakes, OwnerClears, OwnerOpens, owned, OwnerWrites, Touch, vars
<1>5. pc # "idle" => Behind = {}
  <2> SUFFICES ASSUME pc # "idle", NEW f \in Behind PROVE FALSE
    OBVIOUS
  <2>1. f \in File /\ rows[f] # None /\ saved[f].status = "copied" /\ rows[f] # saved[f].path
    BY DEF Behind, Listed
  <2>2. saved # NoState
    BY DEF RunShape
  <2> QED BY <1>2, <2>1, <2>2
<1>6. ~Rename /\ ~Moved /\ \A f \in File : ~Leave(f) /\ ~Follow(f)
  BY <1>2, <1>5 DEF Rename, Moved, Leave, Follow
<1>7. \A f \in File : rows'[f] # None => rows'[f] = archive'[f]
  <2>1. CASE UNCHANGED rows
    BY <1>2, <1>4, <2>1
  <2>2. CASE rows' = NoRows
    BY <2>2 DEF NoRows
  <2>3. CASE Start
    BY <2>3 DEF Start
  <2>4. CASE ~Start
    BY <2>1, <2>2, <2>4, <1>6
       DEF Next, Step, World, NewDone, Copy, Record, Finish, PassOver, Idle,
           Defer, Stumble, Stage, Balk, Die, Baseline, Archived, Synced, Materialize, Clouded,
           OwnerMakes, OwnerTakes, OwnerClears, OwnerOpens, owned, OwnerWrites, Touch, vars,
           runVars
  <2> QED BY <2>3, <2>4
<1>8. \A f \in File :
        saved' # NoState /\ saved'[f].status = "copied" =>
          saved'[f].path = archive'[f] /\ archive'[f] # None
  <2>1. CASE UNCHANGED saved
    BY <1>2, <1>4, <2>1
  <2>2. CASE Record
    <3> SUFFICES ASSUME NEW f \in File, saved'[f].status = "copied"
                 PROVE  saved'[f].path = archive'[f] /\ archive'[f] # None
      OBVIOUS
    <3>1. /\ saved' = [saved EXCEPT ![job.file] = Entry("copied", rows[job.file], job.to)]
          /\ saved # NoState /\ DOMAIN saved = File /\ UNCHANGED archive
      BY <2>2 DEF Record, Saved, RunShape
    <3>2. CASE f = job.file
      <4>1. rows[f] = archive[f] /\ rows[f] # None
        BY <1>2, <2>2, <3>2 DEF Record, RunShape, Listed
      <4>2. saved'[f].path = rows[f]
        BY <3>1, <3>2 DEF Entry
      <4> QED BY <3>1, <4>1, <4>2
    <3>3. CASE f # job.file
      BY <1>2, <3>1, <3>3
    <3> QED BY <3>2, <3>3
  <2>3. CASE Baseline
    <3>1. \A f \in File : saved'[f].status \in {None, "baselined"}
      BY <2>3 DEF Baseline, Unknown, Entry
    <3> QED BY <3>1 DEF None
  <2> QED BY <1>6, <2>1, <2>2, <2>3
       DEF Next, Step, World, Start, NewDone, Copy, Finish, PassOver,
           Defer, Stumble, Stage, Balk, Die, Archived, Synced, Materialize, Clouded,
           OwnerMakes, OwnerTakes, OwnerClears, OwnerOpens, owned, OwnerWrites, Touch, vars
<1>9. pc' \notin {"rename", "moved"}
  <2>1. CASE UNCHANGED pc
    BY <1>2, <2>1
  <2> QED BY <1>6, <2>1
       DEF Next, Step, World, Start, NewDone, Copy, Record, Saved, Finish, PassOver, Idle,
           Defer, Stumble, Stage, Balk, Die, Baseline, Archived, Synced, Materialize, Clouded,
           OwnerMakes, OwnerTakes, OwnerClears, OwnerOpens, owned, OwnerWrites, Touch, vars,
           runVars
<1>10. \A f \in File, i \in dest' :
         WholeCopy(f, i) => archive'[f] # None /\ FirstFree(f, i.at)'
  <2>1. \A f \in File, i \in dest :
          WholeCopy(f, i) => archive'[f] # None /\ FirstFree(f, i.at)'
    BY <1>2, <1>3, <1>4, FirstFreeStays
  <2>2. ASSUME pc = "copy", UNCHANGED archive, NEW f, f = job.file, NEW place, place = job.to
        PROVE  archive'[f] # None /\ FirstFree(f, place)'
    <3>1. archive[f] # None /\ FirstFree(f, place)
      BY <1>2, <2>2 DEF RunShape, Listed
    <3> QED BY <1>3, <2>2, <3>1, FirstFreeStays
  <2>3. ASSUME Copy \/ Die, pc = "copy", NEW bytes,
               dest' = dest \cup {[at |-> job.to, of |-> bytes, by |-> job.file]}
        PROVE  \A f \in File, i \in dest' :
                 WholeCopy(f, i) => archive'[f] # None /\ FirstFree(f, i.at)'
    <3>1. UNCHANGED archive
      BY <2>3 DEF Copy, Die
    <3> DEFINE new == [at |-> job.to, of |-> bytes, by |-> job.file]
    <3>2. new.at = job.to /\ \A f : WholeCopy(f, new) => f = job.file
      BY DEF WholeCopy
    <3>3. \A i \in dest' : i \in dest \/ i = new
      BY <2>3
    <3> HIDE DEF new
    <3> QED BY <2>1, <2>2, <2>3, <3>1, <3>2, <3>3
  <2>4. CASE UNCHANGED dest
    BY <2>1, <2>4
  <2> QED BY <1>6, <2>3, <2>4, <2>1, WhereItemsComeFrom DEF Copy
<1>11. pc' = "copy" => FirstFree(job.file, job.to)'
  <2>1. CASE UNCHANGED <<pc, job>> /\ pc = "copy"
    <3>1. archive'[job.file] = archive[job.file]
      BY <1>2, <1>4, <2>1 DEF RunShape, Listed
    <3>2. FirstFree(job.file, job.to)
      BY <1>2, <2>1
    <3> DEFINE f == job.file  place == job.to
    <3>3. f' = f /\ place' = place
      BY <2>1
    <3> QED BY <1>3, <2>1, <3>1, <3>2, <3>3 DEF FirstFree, Held, At
  <2>2. ASSUME NEW f \in File, Stage(f), pc' = "copy" PROVE FirstFree(job.file, job.to)'
    <3>1. /\ job'.file = f /\ job'.to = Place(rows[f], Choice(f)) /\ Choice(f) # 0
          /\ f \in Listed(rows) /\ UNCHANGED <<archive, dest>>
      BY <2>2 DEF Stage, Choosing, ChosenPlace, NoJob, RunShape, owned
    <3>2. rows[f] = archive[f]
      BY <1>2, <3>1 DEF Listed
    <3>3. FirstFree(f, Place(archive[f], Choice(f)))
      BY <3>1, <3>2, ChoiceIsFirst DEF FirstFree
    <3> QED BY <3>1, <3>2, <3>3 DEF FirstFree, Held, At
  <2>3. CASE \A f \in File : ~Stage(f)
    BY <1>6, <2>1, <2>3
       DEF Next, Step, World, Start, NewDone, Copy, Record, Saved, Finish, PassOver, Idle,
           Defer, Stumble, Balk, Die, Baseline, Archived, Synced, Materialize, Clouded,
           OwnerMakes, OwnerTakes, OwnerClears, OwnerOpens, owned, OwnerWrites, Touch, vars,
           runVars
  <2> QED BY <2>2, <2>3
<1> QED BY <1>7, <1>8, <1>9, <1>10, <1>11 DEF WhereLooked

LEMMA OneCopyInvIsEnough == MirrorAssumption /\ OneCopyInv => OneCopyEach
<1> SUFFICES ASSUME OneCopyInv, bounds.mishaps = 0 \/ Undisturbed, NEW f \in File
             PROVE  Cardinality({i \in dest : i.by = f /\ i.of = f}) <= 1
  BY DEF OneCopyEach
<1> DEFINE W == {i \in dest : i.by = f /\ i.of = f}
<1>1. \A i, j \in W : i = j
  <2> SUFFICES ASSUME NEW i \in dest, NEW j \in dest, WholeCopy(f, i), WholeCopy(f, j)
               PROVE  i = j
    BY DEF WholeCopy
  <2>1. CASE bounds.mishaps = 0
    BY <2>1 DEF OneCopyInv, UntilDeath
  <2>2. CASE Undisturbed
    <3>1. PICK m \in 1 .. Variants :
            /\ i.at = Place(archive[f], m)
            /\ \A k \in 1 .. Variants : k < m => Held(Place(archive[f], k), f)
      BY <2>2 DEF OneCopyInv, WhereLooked, FirstFree
    <3>2. PICK n \in 1 .. Variants :
            /\ j.at = Place(archive[f], n)
            /\ \A k \in 1 .. Variants : k < n => Held(Place(archive[f], k), f)
      BY <2>2 DEF OneCopyInv, WhereLooked, FirstFree
    <3>3. ~Held(i.at, f) /\ ~Held(j.at, f)
      BY DEF OneCopyInv, OneItemEach, Held, At, WholeCopy
    <3>4. ~(m < n) /\ ~(n < m)
      BY <3>1, <3>2, <3>3
    <3>5. m = n
      BY <3>4, MirrorAssumption DEF MirrorAssumption
    <3> QED BY <3>1, <3>2, <3>5 DEF OneCopyInv, OneItemEach
  <2> QED BY <2>1, <2>2
<1> HIDE DEF W
<1>2. CASE W = {}
  <2>1. Cardinality({}) = 0
    BY FS_EmptySet
  <2> QED BY <1>2, <2>1 DEF W
<1>3. ASSUME NEW i \in W PROVE Cardinality(W) <= 1
  <2>1. W = {i}
    BY <1>1
  <2>2. Cardinality({i}) = 1
    BY FS_Singleton
  <2> QED BY <2>1, <2>2
<1> QED BY <1>2, <1>3 DEF W

LEMMA InitOneCopyInv == Init => OneCopyInv
<1> SUFFICES ASSUME Init PROVE OneCopyInv
  OBVIOUS
<1>1. OneItemEach /\ UntilDeath
  BY DEF Init, OneItemEach, UntilDeath
<1>2. RunShape
  BY DEF Init, RunShape, NoRows, NoState, Listed
<1>3. WhereLooked
  BY DEF Init, WhereLooked, NoRows
<1> QED BY <1>1, <1>2, <1>3 DEF OneCopyInv

LEMMA NextOneCopyInv == OneCopyInv /\ [Next]_vars => OneCopyInv'
<1> SUFFICES ASSUME OneCopyInv, [Next]_vars PROVE OneCopyInv'
  OBVIOUS
<1>1. OneItemEach'
  BY NextOneItemEach DEF OneCopyInv
<1> QED BY <1>1, NextRunShape, NextUntilDeath, NextWhereLooked DEF OneCopyInv

(* A crash never forgets a copy: mirror.ts:218-241. *)
THEOREM OneCopyOfEach == Spec => []OneCopyEach
BY InitOneCopyInv, NextOneCopyInv, OneCopyInvIsEnough, MirrorAssumption, PTL DEF Spec

(* What the items of the owner's folders, the archive and the state are.   *)
(* What cannot be read is there. *)
Unread == \A place \in cold : \E i \in dest : i.at = place

MirrorTypes ==
  /\ archive \in [File -> Folder \cup {None}]
  /\ source \in [File -> {"away", "online", "here"}]
  /\ \A i \in dest : i.of \in File \cup {Own, Part} /\ i.by \in File \cup {None}
  /\ saved = NoState \/ \A f \in File : saved[f].status \in {None, "baselined", "copied"}
  /\ pc \in {"idle", "new", "copy", "record", "follow", "rename", "moved"}
  /\ missing \subseteq Folder /\ Unread

LEMMA NextUnread ==
  ASSUME OneItemEach, Unread, [Next]_vars
  PROVE  Unread'
<1>1. ASSUME UNCHANGED cold, dest \subseteq dest' PROVE Unread'
  BY <1>1 DEF Unread
<1>2. ASSUME NEW items, Touch(items) PROVE Unread'
  BY <1>2 DEF Unread, Touch, At
<1>3. CASE Rename
  <2>1. CASE At(job.from) = {}
    BY <1>1, <1>3, <2>1 DEF Rename
  <2>2. CASE At(job.from) # {}
    <3> SUFFICES ASSUME NEW place \in cold' PROVE \E i \in dest' : i.at = place
      BY DEF Unread
    <3>1. /\ cold' = {IF p = job.from THEN job.to ELSE p : p \in cold \ {job.to}}
          /\ dest' = {i \in dest : i.at \notin {job.from, job.to}}
                       \cup {[i EXCEPT !.at = job.to] : i \in At(job.from)}
      BY <1>3, <2>2 DEF Rename
    <3>2. PICK i \in At(job.from) : TRUE
      BY <2>2
    <3>3. [i EXCEPT !.at = job.to] \in dest' /\ [i EXCEPT !.at = job.to].at = job.to
      BY <3>1, <3>2 DEF OneItemEach, At
    <3>4. CASE place = job.to
      BY <3>3, <3>4
    <3>5. CASE place # job.to
      BY <3>1, <3>5 DEF Unread
    <3> QED BY <3>4, <3>5
  <2> QED BY <2>1, <2>2
<1>4. ASSUME NEW place, Clouded(place) PROVE Unread'
  BY <1>4 DEF Clouded, Unread, At
<1> QED
  BY <1>1, <1>2, <1>3, <1>4
     DEF Next, Step, World, Start, NewDone, Copy, Record, Moved, Finish, PassOver, Defer, Stumble,
         Stage, Balk, Leave, Follow, Die, Baseline, Archived, Synced, Materialize, OwnerMakes,
         OwnerTakes, OwnerWrites, OwnerClears, OwnerOpens, owned, vars

LEMMA NextMirrorTypes ==
  ASSUME OneItemEach, RunShape, MirrorTypes, [Next]_vars
  PROVE  MirrorTypes'
<1>1. archive' \in [File -> Folder \cup {None}] /\ source' \in [File -> {"away", "online",
"here"}]
  BY DEF MirrorTypes, Next, Step, World, Start, NewDone, Copy, Record, Rename, Moved, Finish,
         PassOver, Defer, Stumble, Stage, Balk, Leave, Follow, Die, Baseline, Archived, Synced,
         Materialize, Clouded,
         OwnerMakes, OwnerTakes, OwnerClears, OwnerOpens, owned, OwnerWrites, Touch, vars
<1>2. pc' \in {"idle", "new", "copy", "record", "follow", "rename", "moved"}
  BY DEF MirrorTypes, Next, Step, World, Start, NewDone, Copy, Record, Saved, Rename, Moved,
         Finish, Idle, PassOver, Defer, Stumble, Stage, Balk, Leave, Follow, Die, Baseline,
         Archived, Synced,
         Materialize, Clouded, OwnerMakes, OwnerTakes, OwnerClears, OwnerOpens, owned,
         OwnerWrites, Touch, vars, runVars
<1>3. \A i \in dest' : i.of \in File \cup {Own, Part} /\ i.by \in File \cup {None}
  <2>1. CASE UNCHANGED dest
    BY <2>1 DEF MirrorTypes
  <2>2. ASSUME NEW at, NEW of \in File \cup {Own, Part}, NEW by \in File \cup {None},
               dest' \subseteq dest \cup {[at |-> at, of |-> of, by |-> by]}
        PROVE  \A i \in dest' : i.of \in File \cup {Own, Part} /\ i.by \in File \cup {None}
    BY <2>2 DEF MirrorTypes
  <2>3. CASE Copy \/ Die
    <3>1. CASE dest' # dest
      <4>1. pc = "copy" /\ job.file \in File
        BY <2>3, <3>1 DEF Copy, Die, RunShape, Listed
      <4> QED BY <2>2, <2>3, <4>1 DEF Copy, Die
    <3> QED BY <2>1, <3>1
  <2>4. CASE Rename
    <3>1. dest' = dest \/ dest' = {i \in dest : i.at \notin {job.from, job.to}}
                                    \cup {[i EXCEPT !.at = job.to] : i \in At(job.from)}
      BY <2>4 DEF Rename
    <3>2. \A i \in At(job.from) :
            [i EXCEPT !.at = job.to].of = i.of /\ [i EXCEPT !.at = job.to].by = i.by
      BY DEF OneItemEach, At
    <3> SUFFICES ASSUME NEW k \in dest' PROVE k.of \in File \cup {Own,
    Part} /\ k.by \in File \cup {None}
      OBVIOUS
    <3>3. k \in dest \/ \E i \in At(job.from) : k = [i EXCEPT !.at = job.to]
      BY <3>1
    <3>4. PICK i \in dest : k.of = i.of /\ k.by = i.by
      BY <3>2, <3>3 DEF At
    <3> QED BY <3>4 DEF MirrorTypes
  <2>5. ASSUME NEW folder \in Folder \ Unmapped,
               OwnerClears(folder) \/ \E n \in 1 .. Variants : OwnerMakes(folder, n)
        PROVE  \A i \in dest' : i.of \in File \cup {Own, Part} /\ i.by \in File \cup {None}
    BY <2>2, <2>5 DEF OwnerMakes, OwnerClears, Touch, MirrorTypes
  <2>6. ASSUME NEW i \in dest, OwnerTakes(i) \/ OwnerWrites(i)
        PROVE  \A k \in dest' : k.of \in File \cup {Own, Part} /\ k.by \in File \cup {None}
    BY <2>2, <2>6 DEF OwnerTakes, OwnerWrites, Touch, MirrorTypes
  <2> QED BY <2>1, <2>3, <2>4, <2>5, <2>6, DestStays DEF vars, owned
<1>4. saved' = NoState \/ \A f \in File : saved'[f].status \in {None, "baselined", "copied"}
  <2>1. CASE UNCHANGED saved
    BY <2>1 DEF MirrorTypes
  <2>2. CASE Baseline
    <3>1. \A f \in File : Unknown.status = None /\ Entry("baselined", archive[f],
    <<>>).status = "baselined"
      BY DEF Unknown, Entry
    <3> QED BY <2>2, <3>1 DEF Baseline
  <2>3. ASSUME NEW f \in File, NEW place, NEW step, pc # "idle",
               Saved(f, Entry("copied", rows[f], place), step)
        PROVE  \A g \in File : saved'[g].status \in {None, "baselined", "copied"}
    <3>1. DOMAIN saved = File /\ saved # NoState
      BY <2>3 DEF RunShape
    <3>2. saved' = [saved EXCEPT ![f] = Entry("copied", rows[f], place)]
      BY <2>3 DEF Saved
    <3>3. Entry("copied", rows[f], place).status = "copied"
      BY DEF Entry
    <3> QED BY <3>1, <3>2, <3>3 DEF MirrorTypes
  <2>4. CASE Record \/ Moved
    <3>1. job.file \in File /\ pc # "idle"
      BY <2>4 DEF Record, Moved, RunShape, Listed
    <3> QED BY <2>3, <2>4, <3>1 DEF Record, Moved
  <2>5. ASSUME NEW f \in File, Leave(f)
        PROVE  \A g \in File : saved'[g].status \in {None, "baselined", "copied"}
    BY <2>3, <2>5 DEF Leave
  <2> QED BY <2>1, <2>2, <2>4, <2>5 DEF Next, Step, World, Start, NewDone, Copy, Rename, Finish,
             PassOver, Defer, Stumble, Stage, Balk, Follow, Die, Archived, Synced, Materialize,
             Clouded, OwnerMakes,
             OwnerTakes, OwnerClears, OwnerOpens, owned, OwnerWrites, Touch, vars
<1>5. missing' \subseteq Folder
  BY DEF MirrorTypes, Next, Step, World, Start, NewDone, Copy, Record, Rename, Moved, Finish,
         FolderMade, PassOver, Defer, Stumble, Stage, Balk, Leave, Follow, Die, Baseline,
         Archived,
         Synced, Materialize, Clouded, OwnerMakes, OwnerTakes, OwnerWrites, OwnerClears,
         OwnerOpens, Touch, owned, vars
<1>6. Unread'
  BY NextUnread DEF MirrorTypes
<1> QED BY <1>1, <1>2, <1>3, <1>4, <1>5, <1>6 DEF MirrorTypes

LEMMA MirrorTyped ==
  ASSUME OneItemEach, RunShape, MirrorTypes
  PROVE  MirrorTypeOK
<1>1. ASSUME NEW i \in dest PROVE Cardinality(At(i.at)) = 1
  <2>1. At(i.at) = {i}
    BY DEF At, OneItemEach
  <2> QED BY <2>1, FS_Singleton
<1>2. cold \subseteq {i.at : i \in dest}
  BY DEF MirrorTypes, Unread
<1> QED BY <1>1, <1>2 DEF MirrorTypes, RunShape, MirrorTypeOK

LEMMA InitMirrorTypes == Init => MirrorTypes
BY MirrorAssumption DEF Init, MirrorTypes, NoState, Unread, MirrorAssumption

-----------------------------------------------------------------------------
(* The Graph guard.  Whatever it believes it has seen is so: an id it took  *)
(* for a folder, or for an unsorted file that may be filed, is one and is   *)
(* where it was seen, for nothing but the guard's own calls moves it.       *)
ItemShape ==
  \A i \in DOMAIN guardItems :
    guardItems[i] = [in |-> guardItems[i].in, path |-> guardItems[i].path,
                     folder |-> guardItems[i].folder]

FoldersAreTrue ==
  \A i \in DOMAIN guardFolders :
    /\ i \in DOMAIN guardItems /\ guardFolders[i] \in Paths
    /\ guardItems[i].in /\ guardItems[i].path = guardFolders[i] /\ guardItems[i].folder

MovableAreTrue ==
  \A i \in DOMAIN guardMovable :
    /\ i \in DOMAIN guardItems /\ guardMovable[i] \in Paths
    /\ guardItems[i].in /\ guardItems[i].path = guardMovable[i] /\ ~guardItems[i].folder
    /\ Len(guardMovable[i]) = 4 /\ guardMovable[i][3] = Guard!Unsorted

GuardInv == ItemShape /\ FoldersAreTrue /\ MovableAreTrue

Unmoved(i) ==
  guardItems'[i] # guardItems[i] =>
    LET from == guardItems[i].path  to == guardItems'[i].path IN
    /\ guardItems[i].in /\ guardItems'[i].in /\ ~guardItems[i].folder
    /\ from[3] = Guard!Unsorted /\ to[3] \in Category
    /\ <<to[1], to[2], to[4]>> = <<from[1], from[2], from[4]>>
    /\ Guard!At(to) = {}

StepConfined ==
  /\ DOMAIN guardItems \subseteq DOMAIN guardItems'
  /\ \A i \in DOMAIN guardItems' \ DOMAIN guardItems : guardItems'[i].in
  /\ \A i \in DOMAIN guardItems : Unmoved(i)

-----------------------------------------------------------------------------
LEMMA SeqGrows ==
  ASSUME NEW S, NEW T, NEW s, s \in Seq(S)
  PROVE  s \in Seq(S \cup T) /\ s \in Seq(T \cup S)
OBVIOUS

LEMMA AppendAt ==
  ASSUME NEW S, NEW s \in Seq(S), NEW x \in S
  PROVE  (\A i \in 1 .. Len(s) : Append(s, x)[i] = s[i]) /\ Append(s, x)[Len(s) + 1] = x
<1>1. \A i \in 1 .. Len(s) : Append(s, x)[i] = s[i]
  BY AppendProperties, SMT
<1>2. Append(s, x)[Len(s) + 1] = x
  BY AppendProperties, Zenon
<1> QED BY <1>1, <1>2

(* A category of a module, and a file of the same module's _unsorted. *)
LEMMA SameModule ==
  ASSUME NEW S, NEW folder \in Seq(S), NEW file \in Seq(S), Len(folder) = 3, Len(file) = 4,
         Guard!Parent(folder) = SubSeq(file, 1, 2)
  PROVE  LET to == Append(folder, file[4]) IN
         /\ <<to[1], to[2], to[4]>> = <<file[1], file[2], file[4]>>
         /\ to[3] = folder[3]
<1> DEFINE name == file[4]
<1>1. name \in S
  OBVIOUS
<1> HIDE DEF name
<1> DEFINE to == Append(folder, name)
<1>2. /\ \A i \in 1 .. Len(folder) : to[i] = folder[i]
      /\ to[Len(folder) + 1] = name
  BY <1>1, AppendAt, Zenon
<1> HIDE DEF to
<1>3. SubSeq(folder, 1, 2)[1] = folder[1] /\ SubSeq(folder, 1, 2)[2] = folder[2]
  BY SubSeqProperties
<1>4. SubSeq(file, 1, 2)[1] = file[1] /\ SubSeq(file, 1, 2)[2] = file[2]
  BY SubSeqProperties
<1>5. folder[1] = file[1] /\ folder[2] = file[2]
  BY <1>3, <1>4 DEF Guard!Parent
<1>6. <<to[1], to[2], to[4]>> = <<file[1], file[2], name>> /\ to[3] = folder[3]
  BY <1>2, <1>5
<1> QED BY <1>6 DEF name, to

(* A new item inside disturbs nothing. *)
LEMMA Added ==
  ASSUME GuardInv, NEW id, id \notin DOMAIN guardItems, NEW path, NEW folder,
         guardItems' = Guard!With(guardItems, id, [in |-> TRUE, path |-> path, folder |-> folder])
  PROVE  /\ StepConfined /\ ItemShape'
         /\ id \in DOMAIN guardItems' /\ guardItems'[id] = [in |-> TRUE, path |-> path, folder |-> folder]
         /\ \A i \in DOMAIN guardItems : i \in DOMAIN guardItems' /\ guardItems'[i] = guardItems[i]
BY DEF Guard!With, GuardInv, StepConfined, Unmoved, ItemShape

LEMMA GetKeeps ==
  ASSUME GuardInv, NEW p \in Paths, Guard!Get(p)
  PROVE  GuardInv' /\ StepConfined
<1>1. guardItems' = guardItems
  BY DEF Guard!Get
<1>2. ASSUME NEW i \in Guard!At(p), Guard!Learned(p, i) PROVE FoldersAreTrue' /\ MovableAreTrue'
  <2>1. i \in DOMAIN guardItems /\ guardItems[i].in /\ guardItems[i].path = p
    BY DEF Guard!At
  <2>2. CASE guardItems[i].folder
    BY <1>1, <1>2, <2>1, <2>2 DEF Guard!Learned, Guard!With, GuardInv, FoldersAreTrue, MovableAreTrue
  <2>3. CASE ~guardItems[i].folder
    BY <1>1, <1>2, <2>1, <2>3 DEF Guard!Learned, Guard!With, GuardInv, FoldersAreTrue, MovableAreTrue
  <2> QED BY <2>2, <2>3
<1>3. ASSUME UNCHANGED <<guardFolders, guardMovable>> PROVE FoldersAreTrue' /\ MovableAreTrue'
  <2>1. FoldersAreTrue'
    BY <1>1, <1>3 DEF GuardInv, FoldersAreTrue
  <2>2. MovableAreTrue'
    BY <1>1, <1>3 DEF GuardInv, MovableAreTrue
  <2> QED BY <2>1, <2>2
<1>4. FoldersAreTrue' /\ MovableAreTrue'
  <2>1. (\E i \in Guard!At(p) : Guard!Learned(p, i)) \/ UNCHANGED <<guardFolders, guardMovable>>
    BY DEF Guard!Get
  <2> QED BY <1>2, <1>3, <2>1
<1> QED BY <1>1, <1>4 DEF GuardInv, ItemShape, StepConfined, Unmoved

LEMMA CreateFolderKeeps ==
  ASSUME GuardInv, NEW parent, NEW name, NEW heard, Guard!CreateFolder(parent, name, heard)
  PROVE  GuardInv' /\ StepConfined
<1> DEFINE where == Append(guardItems[parent].path, name)
<1>1. /\ parent \in DOMAIN guardItems /\ guardItems[parent].in = TRUE /\ where \in Paths
      /\ where = Append(guardFolders[parent], name)
  BY DEF Guard!CreateFolder, GuardInv, FoldersAreTrue, ItemShape
<1>2. CASE Guard!NewAt(where) = {}
  BY <1>1, <1>2 DEF Guard!CreateFolder, GuardInv, ItemShape, FoldersAreTrue, MovableAreTrue,
                    StepConfined, Unmoved
<1>3. CASE Guard!NewAt(where) # {}
  <2> DEFINE i == CHOOSE j \in Guard!NewAt(where) : TRUE
  <2>1. i \notin DOMAIN guardItems
    BY <1>3 DEF Guard!NewAt
  <2> HIDE DEF i
  <2>2. /\ guardItems' = Guard!With(guardItems, i, [in |-> guardItems[parent].in, path |-> where, folder |-> TRUE])
        /\ guardFolders' = IF heard THEN Guard!With(guardFolders, i, where) ELSE guardFolders
        /\ guardMovable' = guardMovable
    BY <1>1, <1>3 DEF Guard!CreateFolder, i
  <2> HIDE DEF where
  <2>3. guardItems' = Guard!With(guardItems, i, [in |-> TRUE, path |-> where, folder |-> TRUE])
    <3>1. guardItems[parent].in = TRUE
      BY <1>1
    <3> QED BY <2>2, <3>1
  <2>4. /\ StepConfined /\ ItemShape'
        /\ i \in DOMAIN guardItems' /\ guardItems'[i] = [in |-> TRUE, path |-> where, folder |-> TRUE]
        /\ \A j \in DOMAIN guardItems : j \in DOMAIN guardItems' /\ guardItems'[j] = guardItems[j]
    BY <2>1, <2>3, Added
  <2>5. FoldersAreTrue'
    <3>1. \A j \in DOMAIN guardFolders' :
            \/ j = i /\ guardFolders'[j] = where
            \/ j \in DOMAIN guardFolders /\ guardFolders'[j] = guardFolders[j]
      BY <2>2 DEF Guard!With
    <3>2. guardItems'[i].in /\ guardItems'[i].path = where /\ guardItems'[i].folder /\ where \in Paths
      BY <1>1, <2>4
    <3>3. \A j \in DOMAIN guardFolders :
            /\ j \in DOMAIN guardItems' /\ guardFolders[j] \in Paths
            /\ guardItems'[j].in /\ guardItems'[j].path = guardFolders[j] /\ guardItems'[j].folder
      BY <2>4 DEF GuardInv, FoldersAreTrue
    <3> QED BY <2>4, <3>1, <3>2, <3>3 DEF FoldersAreTrue
  <2>6. MovableAreTrue'
    BY <2>2, <2>4 DEF GuardInv, MovableAreTrue
  <2> QED BY <2>4, <2>5, <2>6 DEF GuardInv
<1> QED BY <1>2, <1>3

LEMMA UploadKeeps ==
  ASSUME GuardInv, NEW p, Guard!Upload(p)
  PROVE  GuardInv' /\ StepConfined
<1>1. UNCHANGED <<guardFolders, guardMovable>>
  BY DEF Guard!Upload
<1>2. CASE UNCHANGED guardItems
  BY <1>1, <1>2 DEF GuardInv, ItemShape, FoldersAreTrue, MovableAreTrue, StepConfined, Unmoved
<1>3. ASSUME NEW i \in Guard!NewAt(p),
             guardItems' = Guard!With(guardItems, i, [in |-> TRUE, path |-> p, folder |-> FALSE])
      PROVE  GuardInv' /\ StepConfined
  <2>1. /\ StepConfined /\ ItemShape'
        /\ \A j \in DOMAIN guardItems : j \in DOMAIN guardItems' /\ guardItems'[j] = guardItems[j]
    BY <1>3, Added DEF Guard!NewAt
  <2>2. FoldersAreTrue'
    BY <1>1, <2>1 DEF GuardInv, FoldersAreTrue
  <2>3. MovableAreTrue'
    BY <1>1, <2>1 DEF GuardInv, MovableAreTrue
  <2> QED BY <2>1, <2>2, <2>3 DEF GuardInv
<1> QED BY <1>2, <1>3 DEF Guard!Upload

(* The file that is moved is forgotten: of everything else the guard has   *)
(* learned nothing changes.                                                *)
LEMMA MoveKeeps ==
  ASSUME Guard!GuardAssumption, GuardInv, NEW i, NEW to, Guard!Move(i, to)
  PROVE  GuardInv' /\ StepConfined
<1>1. /\ i \in DOMAIN guardItems /\ guardItems[i].in /\ ~guardItems[i].folder /\ guardItems[i].path = guardMovable[i]
      /\ guardMovable[i] \in Paths /\ Len(guardMovable[i]) = 4 /\ guardMovable[i][3] = Guard!Unsorted
  BY DEF Guard!Move, Guard!MayMove, GuardInv, MovableAreTrue
<1>2. guardItems[to].path = guardFolders[to] /\ guardFolders[to] \in Paths
  BY DEF Guard!Move, Guard!MayMove, GuardInv, FoldersAreTrue
<1> DEFINE where == Append(guardItems[to].path, guardItems[i].path[Len(guardItems[i].path)])
<1>3. where = Append(guardFolders[to], guardMovable[i][4])
  BY <1>1, <1>2
<1> HIDE DEF where
<1>4. /\ <<where[1], where[2], where[4]>>
           = <<guardMovable[i][1], guardMovable[i][2], guardMovable[i][4]>>
      /\ where[3] \in Category
  <2> DEFINE InFolder == {guardFolders[to][k] : k \in DOMAIN guardFolders[to]}
             InFile == {guardMovable[i][k] : k \in DOMAIN guardMovable[i]}
  <2>1. guardFolders[to] \in Seq(InFolder) /\ guardMovable[i] \in Seq(InFile)
    BY <1>1, <1>2 DEF Guard!GuardAssumption
  <2> HIDE DEF InFolder, InFile
  <2>2. guardFolders[to] \in Seq(InFolder \cup InFile) /\ guardMovable[i] \in Seq(InFolder \cup InFile)
    BY <2>1, SeqGrows
  <2>3. /\ Len(guardFolders[to]) = 3 /\ Guard!Parent(guardFolders[to]) = SubSeq(guardMovable[i], 1, 2)
        /\ guardFolders[to][3] \in Category
    BY DEF Guard!Move, Guard!MayMove
  <2>4. LET name == Append(guardFolders[to], guardMovable[i][4]) IN
        /\ <<name[1], name[2], name[4]>>
             = <<guardMovable[i][1], guardMovable[i][2], guardMovable[i][4]>>
        /\ name[3] = guardFolders[to][3]
    BY <1>1, <2>2, <2>3, SameModule
  <2> QED BY <1>3, <2>3, <2>4
<1>5. UNCHANGED guardFolders /\ guardMovable' = Guard!Without(guardMovable, i)
  BY DEF Guard!Move
<1>6. CASE UNCHANGED guardItems
  <2>1. FoldersAreTrue' /\ ItemShape'
    BY <1>5, <1>6 DEF GuardInv, FoldersAreTrue, ItemShape
  <2>2. MovableAreTrue'
    BY <1>5, <1>6 DEF Guard!Without, GuardInv, MovableAreTrue
  <2> QED BY <1>6, <2>1, <2>2 DEF GuardInv, StepConfined, Unmoved
<1>7. ASSUME Guard!At(where) = {}, guardItems' = [guardItems EXCEPT ![i] = [@ EXCEPT !.path = where]]
      PROVE  GuardInv' /\ StepConfined
  <2>1. /\ DOMAIN guardItems' = DOMAIN guardItems
        /\ \A j \in DOMAIN guardItems : j # i => guardItems'[j] = guardItems[j]
    BY <1>7
  <2>2. guardItems'[i] = [in |-> guardItems[i].in, path |-> where, folder |-> guardItems[i].folder]
    <3>1. guardItems'[i] = [guardItems[i] EXCEPT !.path = where]
      BY <1>1, <1>7
    <3>2. guardItems[i] = [in |-> guardItems[i].in, path |-> guardItems[i].path, folder |-> guardItems[i].folder]
      BY <1>1 DEF GuardInv, ItemShape
    <3> QED BY <3>1, <3>2
  <2>3. guardItems'[i].in = guardItems[i].in /\ guardItems'[i].path = where
    BY <2>2
  <2>4. ItemShape'
    BY <2>1, <2>2 DEF GuardInv, ItemShape
  <2>5. FoldersAreTrue'
    <3>1. i \notin DOMAIN guardFolders
      BY <1>1 DEF GuardInv, FoldersAreTrue
    <3> QED BY <1>5, <2>1, <3>1 DEF GuardInv, FoldersAreTrue
  <2>6. MovableAreTrue'
    BY <1>5, <2>1 DEF Guard!Without, GuardInv, MovableAreTrue
  <2>7. StepConfined
    <3>1. Unmoved(i)
      BY <1>1, <1>4, <1>7, <2>3 DEF Unmoved
    <3> QED BY <2>1, <3>1 DEF StepConfined, Unmoved
  <2> QED BY <2>4, <2>5, <2>6, <2>7 DEF GuardInv
<1> QED BY <1>6, <1>7 DEF Guard!Move, where

LEMMA GuardNextKeeps ==
  ASSUME Guard!GuardAssumption, GuardInv, [Guard!Next]_guardVars
  PROVE  GuardInv' /\ (UNCHANGED guardVars \/ StepConfined)
<1>1. CASE Guard!Next
  BY <1>1, GetKeeps, CreateFolderKeeps, UploadKeeps, MoveKeeps DEF Guard!Next
<1>2. CASE UNCHANGED guardVars
  BY <1>2 DEF guardVars, GuardInv, ItemShape, FoldersAreTrue, MovableAreTrue
<1> QED BY <1>1, <1>2 DEF guardVars


LEMMA ArchiveGuard ==
  [ArchiveNext]_all => [Guard!Next]_guardVars
BY DEF ArchiveNext, all, MirrorStep, StoreStep, ClientStep, TokensStep, GuardStep

(* Nothing outside the root, nor anything inside it but an unsorted file   *)
(* of a module, is ever changed by what the guard lets through:            *)
(* guard.ts:4-42.                                                          *)
THEOREM RootConfines == ArchiveSpec => Confined
<1> USE ArchiveRunAssumption DEF ArchiveRunAssumption
<1>1. ArchiveInit => GuardInv
  BY DEF ArchiveInit, Guard!Init, Guard!Nothing, Guard!GuardAssumption, GuardInv, ItemShape,
         FoldersAreTrue, MovableAreTrue
<1>2. GuardInv /\ [ArchiveNext]_all => GuardInv'
  BY GuardNextKeeps, ArchiveGuard
<1>3. GuardInv /\ [ArchiveNext]_all => [StepConfined]_(Guard!vars)
  BY GuardNextKeeps, ArchiveGuard DEF guardVars, Guard!vars
<1> QED BY <1>1, <1>2, <1>3, PTL DEF ArchiveSpec, Confined, Guard!Confined, StepConfined, Unmoved

(* What is under the root is where the owner had it or where a request may *)
(* be for it.                                                              *)
KnownPaths == Paths \cup {Owners[j].path : j \in DOMAIN Owners}
GuardTypes ==
  /\ DOMAIN guardItems \subseteq Id /\ guardAbsent \subseteq Paths
  /\ \A i \in DOMAIN guardItems : guardItems[i].in => guardItems[i].path \in KnownPaths

LEMMA NextGuardTypes ==
  ASSUME GuardInv, GuardTypes, [Guard!Next]_guardVars
  PROVE  GuardTypes'
<1> USE DEF GuardTypes
<1>1. CASE UNCHANGED guardItems /\ guardAbsent' \subseteq Paths
  BY <1>1 DEF KnownPaths
<1>2. ASSUME NEW where \in Paths, NEW i \in Guard!NewAt(where), NEW folder,
             guardItems' = Guard!With(guardItems, i, [in |-> TRUE, path |-> where, folder |-> folder]),
             guardAbsent' \subseteq Paths
      PROVE  GuardTypes'
  <2>1. i \in Id /\ DOMAIN guardItems' = DOMAIN guardItems \cup {i}
    BY <1>2 DEF Guard!With, Guard!NewAt
  <2>2. \A j \in DOMAIN guardItems' :
          guardItems'[j] = IF j = i THEN [in |-> TRUE, path |-> where, folder |-> folder]
                           ELSE guardItems[j]
    BY <1>2 DEF Guard!With
  <2>3. guardItems'[i].path = where
    BY <2>1, <2>2
  <2> QED BY <1>2, <2>1, <2>2, <2>3 DEF KnownPaths
<1>3. ASSUME NEW p \in Paths, Guard!Get(p) PROVE GuardTypes'
  BY <1>1, <1>3 DEF Guard!Get
<1>4. ASSUME NEW p \in Paths, Guard!Upload(p) PROVE GuardTypes'
  BY <1>1, <1>2, <1>4 DEF Guard!Upload
<1>5. ASSUME NEW parent, NEW name, NEW heard, Guard!CreateFolder(parent, name, heard)
      PROVE  GuardTypes'
  <2> DEFINE where == Append(guardItems[parent].path, name)
  <2>1. /\ parent \in DOMAIN guardItems /\ guardItems[parent].in = TRUE /\ where \in Paths
        /\ guardAbsent' \subseteq guardAbsent
    BY <1>5 DEF Guard!CreateFolder, GuardInv, FoldersAreTrue, ItemShape
  <2>2. CASE Guard!NewAt(where) = {}
    BY <1>1, <1>5, <2>1, <2>2 DEF Guard!CreateFolder
  <2>3. CASE Guard!NewAt(where) # {}
    <3> DEFINE i == CHOOSE j \in Guard!NewAt(where) : TRUE
    <3>1. i \in Guard!NewAt(where)
      BY <2>3
    <3>2. guardItems' = Guard!With(guardItems, i, [in |-> guardItems[parent].in, path |-> where, folder |-> TRUE])
      BY <1>5, <2>3 DEF Guard!CreateFolder
    <3> HIDE DEF i, where
    <3>3. guardItems' = Guard!With(guardItems, i, [in |-> TRUE, path |-> where, folder |-> TRUE])
      <4>1. guardItems[parent].in = TRUE
        BY <2>1
      <4> QED BY <3>2, <4>1
    <3> QED BY <1>2, <2>1, <3>1, <3>3
  <2> QED BY <2>2, <2>3
<1>6. ASSUME NEW i, NEW to, Guard!Move(i, to) PROVE GuardTypes'
  <2>1. /\ i \in DOMAIN guardItems /\ guardItems[i].path = guardMovable[i]
        /\ Len(guardMovable[i]) = 4 /\ guardItems[to].path = guardFolders[to]
    BY <1>6 DEF Guard!Move, Guard!MayMove, GuardInv, MovableAreTrue, FoldersAreTrue
  <2> DEFINE where == Append(guardItems[to].path, guardItems[i].path[Len(guardItems[i].path)])
  <2>2. where \in Paths /\ guardAbsent' \subseteq Paths
    BY <1>6, <2>1 DEF Guard!Move, Guard!MayMove
  <2>3. \/ UNCHANGED guardItems
        \/ guardItems' = [guardItems EXCEPT ![i] = [@ EXCEPT !.path = where]]
    BY <1>6 DEF Guard!Move
  <2> HIDE DEF where
  <2>4. ASSUME guardItems' = [guardItems EXCEPT ![i] = [@ EXCEPT !.path = where]]
        PROVE  GuardTypes'
    <3>1. guardItems'[i] = [guardItems[i] EXCEPT !.path = where]
      BY <2>1, <2>4
    <3>2. guardItems'[i].path = where
      <4>1. guardItems[i] = [in |-> guardItems[i].in, path |-> guardItems[i].path, folder |-> guardItems[i].folder]
        BY <2>1 DEF GuardInv, ItemShape
      <4> QED BY <3>1, <4>1
    <3>3. /\ DOMAIN guardItems' = DOMAIN guardItems
          /\ \A j \in DOMAIN guardItems : j # i => guardItems'[j] = guardItems[j]
      BY <2>4
    <3> QED BY <2>2, <3>2, <3>3 DEF KnownPaths
  <2> QED BY <1>1, <2>2, <2>3, <2>4
<1>7. CASE UNCHANGED guardVars
  BY <1>1, <1>7 DEF guardVars
<1> QED BY <1>3, <1>4, <1>5, <1>6, <1>7 DEF Guard!Next

LEMMA GuardTyped ==
  ASSUME GuardInv, GuardTypes
  PROVE  Guard!GuardTypeOK
BY DEF GuardInv, FoldersAreTrue, MovableAreTrue, GuardTypes, KnownPaths, Guard!GuardTypeOK

LEMMA InitGuardTypes ==
  ASSUME Guard!GuardAssumption, Guard!Init
  PROVE  GuardTypes
BY DEF Guard!GuardAssumption, Guard!Init, GuardTypes, KnownPaths

-----------------------------------------------------------------------------
(* The Graph tokens.                                                       *)
(* What is about to be stored was issued today, and while a process has an *)
(* access token, so was what is stored.                                    *)
HeldToday ==
  \A p \in Process :
    /\ tokensPc[p] \in {"save", "save_login"} => tokensPending[p].day = tokensToday
    /\ tokensPc[p] = "use" => tokensStored.day = tokensToday

DaysArePast == tokensToday \in Nat /\ tokensUsed.day \in Nat /\ tokensUsed.day <= tokensToday

Functions == DOMAIN tokensPc = Process /\ DOMAIN tokensPending = Process

TokensInv == Functions /\ DaysArePast /\ HeldToday /\ Tokens!KeptAliveByUse

LEMMA InitTokensInv == Tokens!Init => TokensInv
BY DEF Tokens!Init, Tokens!Fresh, TokensInv, Functions, DaysArePast, HeldToday, Tokens!KeptAliveByUse

LEMMA NextTokensInv == TokensInv /\ [Tokens!Next]_tokensVars => TokensInv'
<1> SUFFICES ASSUME TokensInv, [Tokens!Next]_tokensVars PROVE TokensInv'
  OBVIOUS
<1> USE DEF TokensInv, Functions, DaysArePast, HeldToday, Tokens!KeptAliveByUse
<1>1. CASE Tokens!Withdraw \/ UNCHANGED tokensVars
  BY <1>1 DEF Tokens!Withdraw, tokensVars
<1>2. CASE Tokens!Tick
  BY <1>2 DEF Tokens!Tick
<1>3. ASSUME NEW p \in Process, Tokens!Start(p) \/ Tokens!End(p) \/ Tokens!Refused(p) PROVE TokensInv'
  BY <1>3 DEF Tokens!Start, Tokens!End, Tokens!Refused, Tokens!Goto, Tokens!worldVars
<1>4. ASSUME NEW p \in Process, Tokens!Login(p) PROVE TokensInv'
  BY <1>4 DEF Tokens!Login, Tokens!Goto
<1>5. ASSUME NEW p \in Process, Tokens!Redeem(p) PROVE TokensInv'
  BY <1>5 DEF Tokens!Redeem, Tokens!Goto, Tokens!Fresh, Tokens!worldVars
<1>6. ASSUME NEW p \in Process, Tokens!Save(p) PROVE TokensInv'
  BY <1>6 DEF Tokens!Save, Tokens!Goto, Tokens!worldVars
<1>7. ASSUME NEW p \in Process, Tokens!Use(p) PROVE TokensInv'
  BY <1>7 DEF Tokens!Use, Tokens!Fresh, Tokens!worldVars
<1> QED BY <1>1, <1>2, <1>3, <1>4, <1>5, <1>6, <1>7 DEF Tokens!Next

LEMMA ArchiveTokens ==
  [ArchiveNext]_all => [Tokens!Next]_tokensVars
BY DEF ArchiveNext, all, MirrorStep, StoreStep, ClientStep, TokensStep, GuardStep

(* "Persist first": auth.ts:122-127. *)
THEOREM TokensStayAlive == ArchiveSpec => []KeptAliveByUse
<1>1. TokensInv => KeptAliveByUse
  BY DEF TokensInv, KeptAliveByUse
<1>2. ArchiveInit => TokensInv
  BY InitTokensInv DEF ArchiveInit
<1>3. TokensInv /\ [ArchiveNext]_all => TokensInv'
  BY ArchiveTokens, NextTokensInv
<1> QED BY <1>1, <1>2, <1>3, PTL DEF ArchiveSpec

LEMMA NextTokensTyped ==
  ASSUME Tokens!TokensAssumption, Tokens!TokensTypeOK, [Tokens!Next]_tokensVars
  PROVE  Tokens!TokensTypeOK'
<1> USE DEF Tokens!TokensAssumption
<1>1. tokensStanding' \in BOOLEAN
  BY Zenon DEF Tokens!TokensTypeOK, Tokens!Next, Tokens!Withdraw, Tokens!Tick, Tokens!Start,
       Tokens!Login, Tokens!Redeem, Tokens!Save, Tokens!Use, Tokens!Refused, Tokens!End,
       Tokens!worldVars, tokensVars
<1>2. tokensRenewed' \in [Process -> BOOLEAN]
  BY Zenon DEF Tokens!TokensTypeOK, Tokens!Next, Tokens!Withdraw, Tokens!Tick, Tokens!Start,
       Tokens!Login, Tokens!Redeem, Tokens!Save, Tokens!Use, Tokens!Refused, Tokens!End, tokensVars
<1> DEFINE Typed ==
      /\ tokensToday \in 0 .. MaxDay /\ tokensGrant \in 1 .. MaxGrants
      /\ tokensStored \in Tokens!Token /\ tokensUsed \in Tokens!Token
      /\ tokensPc \in [Process -> {"idle", "get", "save_login", "save", "use"}]
      /\ tokensConfig \in [Process -> Tokens!Token] /\ tokensPending \in [Process -> Tokens!Token]
<1>3. Typed
  BY DEF Tokens!TokensTypeOK
<1>4. Tokens!Fresh \in Tokens!Token
  BY <1>3 DEF Tokens!Fresh, Tokens!Token
<1>5. ASSUME Tokens!Withdraw PROVE Typed'
  BY <1>3, <1>5 DEF Tokens!Withdraw, Tokens!Token
<1>6. ASSUME Tokens!Tick PROVE Typed'
  BY <1>3, <1>6 DEF Tokens!Tick, Tokens!Token
<1>7. ASSUME NEW p \in Process, Tokens!Start(p) \/ Tokens!End(p) \/ Tokens!Refused(p) PROVE Typed'
  BY <1>3, <1>7 DEF Tokens!Start, Tokens!End, Tokens!Refused, Tokens!Goto, Tokens!worldVars
<1>8. ASSUME NEW p \in Process, Tokens!Login(p) PROVE Typed'
  <2>1. tokensGrant' \in 1 .. MaxGrants
    BY <1>3, <1>8 DEF Tokens!Login
  <2>2. [grant |-> tokensGrant', day |-> tokensToday] \in Tokens!Token
    BY <1>3, <2>1 DEF Tokens!Token
  <2> QED BY <1>3, <1>8, <2>1, <2>2 DEF Tokens!Login, Tokens!Goto
<1>9. ASSUME NEW p \in Process, Tokens!Redeem(p) PROVE Typed'
  BY <1>3, <1>4, <1>9 DEF Tokens!Redeem, Tokens!Goto, Tokens!worldVars
<1>10. ASSUME NEW p \in Process, Tokens!Save(p) PROVE Typed'
  BY <1>3, <1>10 DEF Tokens!Save, Tokens!Goto, Tokens!worldVars
<1>11. ASSUME NEW p \in Process, Tokens!Use(p) PROVE Typed'
  BY <1>3, <1>4, <1>11 DEF Tokens!Use, Tokens!worldVars, Tokens!Token
<1>12. ASSUME UNCHANGED tokensVars PROVE Typed'
  BY <1>3, <1>12 DEF tokensVars, Tokens!Token
<1>13. Typed'
  BY <1>5, <1>6, <1>7, <1>8, <1>9, <1>10, <1>11, <1>12 DEF Tokens!Next
<1> QED BY <1>1, <1>2, <1>13 DEF Tokens!TokensTypeOK

LEMMA InitTokensTyped ==
  ASSUME Tokens!TokensAssumption, Tokens!Init
  PROVE  Tokens!TokensTypeOK
<1>1. Tokens!Fresh \in Tokens!Token
  BY DEF Tokens!Fresh, Tokens!Token, Tokens!TokensAssumption, Tokens!Init
<1>2. tokensRenewed \in [Process -> BOOLEAN]
  BY Zenon DEF Tokens!Init
<1> QED BY <1>1, <1>2 DEF Tokens!TokensTypeOK, Tokens!TokensAssumption, Tokens!Init

-----------------------------------------------------------------------------
(* The OneDrive client.  The attempts of a request, and the failures in a  *)
(* row, pass their bounds by one at most.                                  *)
WithinBounds ==
  /\ ~clientRefreshed => clientAttempt <= ClientAttempts
  /\ clientPc \notin Client!Ended => clientFailures <= MaxFailures

(* All of the type invariant but for the flag. *)
Numbers ==
  /\ clientFolders \in [1 .. Depth -> {"none", "folder", "file"}]
  /\ clientItems \in [mine : Nat, theirs : 0 .. 1]
  /\ clientSession \in {"none", "open", "gone"}
  /\ clientPc \in Client!Ended \cup {"find", "make", "reread", "create", "send", "resume"}
  /\ clientDepth \in Nat /\ clientAttempt \in 1 .. ClientAttempts + 1
  /\ clientSessions \in 1 .. MaxSessions /\ clientFailures \in 0 .. MaxFailures + 1
  /\ clientSize \in Sizes /\ clientGot \in 0 .. clientSize /\ clientOffset \in 0 .. clientSize

(* What is at a depth stays, so what was found there may be read again.    *)
Reaching ==
  /\ clientDepth \in 1 .. Depth
  /\ clientPc = "reread" => clientFolders[clientDepth] # "none"

ClientInv == Numbers /\ WithinBounds /\ Reaching /\ Client!ReportsWhatItMade

LEMMA InitClientInv ==
  ASSUME Client!DriveClientAssumption, Client!Init
  PROVE  ClientInv /\ clientRefreshed \in BOOLEAN
<1> USE DEF Client!DriveClientAssumption, Client!Init
<1>1. clientRefreshed \in BOOLEAN
  BY Zenon
<1>2. Numbers
  <2>1. clientSize \in Nat
    OBVIOUS
  <2> QED BY <2>1 DEF Numbers, Client!Ended
<1>3. WithinBounds /\ Reaching
  BY DEF WithinBounds, Reaching, Client!Ended
<1>4. Client!ReportsWhatItMade
  BY DEF Client!ReportsWhatItMade
<1> QED BY <1>1, <1>2, <1>3, <1>4 DEF ClientInv

(* Of a request: it is answered, or tried again, or thrown. *)
LEMMA NextRequestOK ==
  ASSUME Client!DriveClientAssumption, ClientInv, NEW step, Client!NextRequest(step)
  PROVE  /\ clientAttempt' \in 1 .. ClientAttempts + 1
         /\ clientAttempt' <= ClientAttempts
BY DEF Client!DriveClientAssumption, Client!NextRequest

LEMMA UnansweredOK ==
  ASSUME Client!DriveClientAssumption, ClientInv, Client!Asking, Client!Unanswered
  PROVE  /\ clientAttempt' \in 1 .. ClientAttempts + 1
         /\ ~clientRefreshed' => clientAttempt' <= ClientAttempts
         /\ clientPc' = clientPc \/ clientPc' = "failed"
         /\ UNCHANGED <<clientDepth, clientSessions, clientOffset, clientFailures, clientSize>>
<1> USE DEF ClientInv, Numbers, WithinBounds, Client!DriveClientAssumption,
            Client!Throw, Client!requestVars, Client!uploadVars
<1>1. UNCHANGED <<clientDepth, clientSessions, clientOffset, clientFailures, clientSize>>
  BY DEF Client!Unanswered
<1>2. CASE /\ ~clientRefreshed /\ clientRefreshed' = TRUE /\ clientAttempt' = clientAttempt + 1
           /\ UNCHANGED clientPc
  BY <1>1, <1>2
<1>3. CASE /\ clientAttempt < ClientAttempts /\ clientAttempt' = clientAttempt + 1
           /\ UNCHANGED <<clientPc, clientRefreshed>>
  BY <1>1, <1>3
<1>4. CASE clientPc' = "failed" /\ UNCHANGED <<clientAttempt, clientRefreshed>>
  BY <1>1, <1>4
<1> QED BY <1>2, <1>3, <1>4 DEF Client!Unanswered

LEMMA NotDoneKeeps ==
  ASSUME Client!DriveClientAssumption, ClientInv, Client!NotDone \/ Client!DoneUnanswered
  PROVE  ClientInv'
<1>1. /\ Client!Asking /\ Client!Unanswered
      /\ UNCHANGED <<clientItems, clientSession, clientGot>>
      /\ \/ UNCHANGED clientFolders
         \/ /\ clientFolders[clientDepth] = "none" /\ clientPc = "make"
            /\ clientFolders' = [clientFolders EXCEPT ![clientDepth] = "folder"]
  BY DEF Client!NotDone, Client!DoneUnanswered, Client!Asking, Client!Requesting, Client!serviceVars
<1>2. clientPc \notin Client!Ended
  BY <1>1 DEF Client!Asking, Client!Requesting, Client!Ended
<1>3. /\ clientAttempt' \in 1 .. ClientAttempts + 1
      /\ ~clientRefreshed' => clientAttempt' <= ClientAttempts
      /\ clientPc' = clientPc \/ clientPc' = "failed"
      /\ UNCHANGED <<clientDepth, clientSessions, clientOffset, clientFailures, clientSize>>
  BY <1>1, UnansweredOK
<1>4. Numbers'
  BY <1>1, <1>3 DEF ClientInv, Numbers, Client!Ended
<1>5. WithinBounds' /\ Reaching'
  BY <1>1, <1>2, <1>3 DEF ClientInv, Numbers, WithinBounds, Reaching, Client!Ended
<1>6. Client!ReportsWhatItMade'
  BY <1>1, <1>2, <1>3 DEF ClientInv, Client!ReportsWhatItMade, Client!Ended
<1> QED BY <1>4, <1>5, <1>6 DEF ClientInv

LEMMA FoldersKeep ==
  ASSUME Client!DriveClientAssumption, ClientInv, Client!Find \/ Client!Make \/ Client!Reread
  PROVE  ClientInv'
<1> USE DEF ClientInv, Client!DriveClientAssumption, Client!serviceVars, Client!uploadVars
<1>1. /\ UNCHANGED <<clientItems, clientSession, clientGot, clientSessions, clientOffset,
                     clientFailures, clientSize>>
      /\ clientPc \in {"find", "make", "reread"} /\ clientPc \notin Client!Ended
      /\ \/ UNCHANGED clientFolders
         \/ /\ clientFolders[clientDepth] = "none"
            /\ clientFolders' = [clientFolders EXCEPT ![clientDepth] = "folder"]
  BY DEF Client!Find, Client!Make, Client!Reread, Client!Requesting, Client!Ended
<1>2. \/ Client!Reached
      \/ Client!NotAFolder /\ clientFolders[clientDepth] = "file" /\ UNCHANGED clientFolders
      \/ Client!NextRequest("make") /\ UNCHANGED clientDepth
      \/ /\ Client!NextRequest("reread") /\ UNCHANGED <<clientFolders, clientDepth>>
         /\ clientFolders[clientDepth] # "none"
  <2>1. clientFolders[clientDepth] \in {"none", "folder", "file"}
    BY DEF Numbers, Reaching
  <2> QED BY <2>1 DEF Client!Find, Client!Make, Client!Reread, Client!Requesting, Reaching
<1>3. clientFolders' \in [1 .. Depth -> {"none", "folder", "file"}]
  BY <1>1 DEF Numbers, Reaching
<1>4. CASE Client!Reached
  BY <1>1, <1>3, <1>4 DEF Client!Reached, Client!NextRequest, Numbers, WithinBounds,
                          Reaching, Client!ReportsWhatItMade, Client!Ended
<1>5. CASE Client!NotAFolder /\ clientFolders[clientDepth] = "file" /\ UNCHANGED clientFolders
  BY <1>1, <1>3, <1>5 DEF Client!NotAFolder, Client!Throw, Client!requestVars,
                          Numbers, WithinBounds, Reaching, Client!ReportsWhatItMade,
                          Client!Ended
<1>6. CASE Client!NextRequest("make") /\ UNCHANGED clientDepth
  BY <1>1, <1>3, <1>6 DEF Client!NextRequest, Numbers, WithinBounds,
                          Reaching, Client!ReportsWhatItMade, Client!Ended
<1>7. CASE /\ Client!NextRequest("reread") /\ UNCHANGED <<clientFolders, clientDepth>>
           /\ clientFolders[clientDepth] # "none"
  BY <1>1, <1>3, <1>7 DEF Client!NextRequest, Numbers, WithinBounds,
                          Reaching, Client!ReportsWhatItMade, Client!Ended
<1> QED BY <1>2, <1>4, <1>5, <1>6, <1>7

LEMMA CreateKeeps ==
  ASSUME Client!DriveClientAssumption, ClientInv, Client!Create
  PROVE  ClientInv'
<1> USE DEF ClientInv, Client!DriveClientAssumption
<1>1. /\ UNCHANGED <<clientFolders, clientItems, clientDepth, clientSessions, clientSize>>
      /\ clientPc \notin Client!Ended
  BY DEF Client!Create, Client!Requesting, Client!Ended
<1>2. CASE /\ Client!NameTaken /\ Client!Throw("conflict")
           /\ UNCHANGED <<clientSession, clientGot, clientOffset, clientFailures>>
  BY <1>1, <1>2 DEF Client!NameTaken, Client!Throw, Client!requestVars, Numbers, WithinBounds,
                    Reaching, Client!ReportsWhatItMade, Client!Ended
<1>3. CASE /\ clientSession' = "open" /\ clientGot' = 0 /\ clientOffset' = 0
           /\ clientFailures' = 0 /\ Client!NextRequest("send")
  <2>1. clientSize \in Nat
    BY DEF Numbers
  <2> QED BY <1>1, <1>3, <2>1 DEF Client!NextRequest, Numbers, WithinBounds, Reaching,
                    Client!ReportsWhatItMade, Client!Ended
<1> QED BY <1>2, <1>3 DEF Client!Create

(* What the service takes of a fragment: the item is made at its end, and  *)
(* only where nothing has the name.                                        *)
LEMMA TakeOK ==
  ASSUME ClientInv, NEW to \in 0 .. clientSize, Client!Take(to)
  PROVE  /\ clientGot' \in 0 .. clientSize /\ clientSession' \in {"none", "open", "gone"}
         /\ clientItems' \in [mine : Nat, theirs : 0 .. 1] /\ clientItems'.mine <= 1
         /\ Client!NameTaken => Client!NameTaken'
         /\ to = clientSize /\ ~Client!NameTaken => clientItems'.mine = 1
<1> USE DEF ClientInv, Numbers, Client!Take, Client!NameTaken, Client!ReportsWhatItMade
<1>1. CASE to = clientSize /\ ~Client!NameTaken
  <2>1. clientItems.mine = 0
    BY <1>1
  <2>2. clientItems' = [mine |-> 1, theirs |-> clientItems.theirs]
    BY <1>1, <2>1
  <2> QED BY <1>1, <2>2
<1>2. CASE ~(to = clientSize /\ ~Client!NameTaken)
  BY <1>2
<1> QED BY <1>1, <1>2

LEMMA EndOK ==
  ASSUME Client!DriveClientAssumption, ClientInv
  PROVE  Client!End \in 0 .. clientSize /\ Client!End >= clientOffset
<1>1. clientSize \in Nat /\ clientOffset \in 0 .. clientSize /\ Chunk \in Nat \ {0}
  BY DEF ClientInv, Numbers, Client!DriveClientAssumption
<1> QED BY <1>1 DEF Client!End, Client!Least

LEMMA FragmentTakenKeeps ==
  ASSUME Client!DriveClientAssumption, ClientInv, Client!FragmentTaken
  PROVE  ClientInv'
<1>1. /\ clientPc \notin Client!Ended /\ Client!Take(Client!End)
      /\ UNCHANGED <<clientFolders, clientDepth, clientSessions, clientSize>>
      /\ clientPc' # "reread"
      /\ \/ /\ clientOffset' = Client!End /\ clientFailures' = 0
            /\ UNCHANGED <<clientPc, clientAttempt, clientRefreshed>>
         \/ /\ clientPc' = (IF Client!NameTaken THEN "conflict" ELSE "done")
            /\ Client!End >= clientSize
            /\ UNCHANGED <<clientOffset, clientFailures, clientAttempt, clientRefreshed>>
  <2>1. clientSize \in Nat /\ Client!End \in 0 .. clientSize
    BY EndOK DEF ClientInv, Numbers, Client!DriveClientAssumption
  <2> QED BY <2>1 DEF Client!FragmentTaken, Client!Requesting, Client!Ended, Client!Throw,
                      Client!requestVars
<1>2. /\ clientGot' \in 0 .. clientSize /\ clientSession' \in {"none", "open", "gone"}
      /\ clientItems' \in [mine : Nat, theirs : 0 .. 1] /\ clientItems'.mine <= 1
      /\ Client!NameTaken => Client!NameTaken'
      /\ Client!End = clientSize /\ ~Client!NameTaken => clientItems'.mine = 1
  BY <1>1, EndOK, TakeOK
<1>3. Client!End \in 0 .. clientSize /\ clientSize \in Nat
  BY EndOK DEF ClientInv, Numbers, Client!DriveClientAssumption
<1>4. Numbers'
  BY <1>1, <1>2, <1>3 DEF ClientInv, Numbers, Client!DriveClientAssumption, Client!Ended
<1>5. WithinBounds' /\ Reaching'
  BY <1>1 DEF ClientInv, WithinBounds, Reaching, Client!Ended, Client!DriveClientAssumption
<1>6. Client!ReportsWhatItMade'
  <2>1. clientPc' \in {clientPc, "conflict", "done"}
    BY <1>1
  <2>2. CASE clientPc' = clientPc
    BY <1>1, <1>2, <2>2 DEF Client!ReportsWhatItMade, Client!Ended
  <2>3. CASE clientPc' # clientPc
    BY <1>1, <1>2, <1>3, <2>3 DEF Client!ReportsWhatItMade, Client!Ended
  <2> QED BY <2>2, <2>3
<1> QED BY <1>4, <1>5, <1>6 DEF ClientInv

(* The sessions and the failures are counted. *)
LEMMA RestartOK ==
  ASSUME Client!DriveClientAssumption, ClientInv, Client!Restart,
         UNCHANGED <<clientFolders, clientItems, clientSession, clientGot, clientDepth, clientSize>>,
         clientPc \notin Client!Ended
  PROVE  ClientInv'
<1> USE DEF ClientInv, Client!DriveClientAssumption, Client!Restart
<1>1. CASE clientSessions < MaxSessions
  BY <1>1 DEF Client!NextRequest, Numbers, WithinBounds, Reaching,
              Client!ReportsWhatItMade, Client!Ended
<1>2. CASE ~(clientSessions < MaxSessions)
  BY <1>2 DEF Client!Throw, Client!requestVars, Numbers, WithinBounds, Reaching,
              Client!ReportsWhatItMade, Client!Ended
<1> QED BY <1>1, <1>2

LEMMA FailedOK ==
  ASSUME Client!DriveClientAssumption, ClientInv, Client!Failed, clientPc \notin Client!Ended
  PROVE  /\ UNCHANGED <<clientAttempt, clientRefreshed, clientSessions, clientOffset>>
         /\ clientFailures' \in 0 .. MaxFailures + 1
         /\ \/ clientPc' = "failed"
            \/ clientPc' = "resume" /\ clientFailures' <= MaxFailures
<1> USE DEF ClientInv, Client!DriveClientAssumption, Client!Failed, Client!Throw,
            Client!requestVars, Numbers, WithinBounds
<1>1. CASE clientFailures + 1 > MaxFailures
  BY <1>1
<1>2. CASE ~(clientFailures + 1 > MaxFailures)
  BY <1>2
<1> QED BY <1>1, <1>2

LEMMA FragmentLostKeeps ==
  ASSUME Client!DriveClientAssumption, ClientInv, Client!FragmentLost
  PROVE  ClientInv'
<1>1. /\ clientPc \notin Client!Ended /\ Client!Failed
      /\ UNCHANGED <<clientFolders, clientDepth, clientSize>>
  BY DEF Client!FragmentLost, Client!Requesting, Client!Ended
<1>2. /\ UNCHANGED <<clientAttempt, clientRefreshed, clientSessions, clientOffset>>
      /\ clientFailures' \in 0 .. MaxFailures + 1
      /\ \/ clientPc' = "failed"
         \/ clientPc' = "resume" /\ clientFailures' <= MaxFailures
  BY <1>1, FailedOK
<1>3. /\ clientGot' \in 0 .. clientSize /\ clientSession' \in {"none", "open", "gone"}
      /\ clientItems' \in [mine : Nat, theirs : 0 .. 1] /\ clientItems'.mine <= 1
  <2>1. CASE UNCHANGED <<clientItems, clientSession, clientGot>>
    BY <2>1 DEF ClientInv, Numbers, Client!ReportsWhatItMade
  <2>2. ASSUME NEW to \in clientOffset + 1 .. Client!End, Client!Take(to)
        PROVE  /\ clientGot' \in 0 .. clientSize
               /\ clientSession' \in {"none", "open", "gone"}
               /\ clientItems' \in [mine : Nat, theirs : 0 .. 1] /\ clientItems'.mine <= 1
    <3>1. to \in 0 .. clientSize
      <4>1. clientOffset \in Nat /\ Client!End \in 0 .. clientSize /\ clientSize \in Nat
        BY EndOK DEF ClientInv, Numbers, Client!DriveClientAssumption
      <4> QED BY <4>1
    <3> QED BY <2>2, <3>1, TakeOK
  <2> QED BY <2>1, <2>2 DEF Client!FragmentLost
<1>4. Numbers'
  BY <1>1, <1>2, <1>3 DEF ClientInv, Numbers, Client!Ended
<1>5. WithinBounds' /\ Reaching'
  BY <1>1, <1>2 DEF ClientInv, WithinBounds, Reaching, Client!Ended
<1>6. Client!ReportsWhatItMade'
  BY <1>2, <1>3 DEF Client!ReportsWhatItMade
<1> QED BY <1>4, <1>5, <1>6 DEF ClientInv

LEMMA FragmentRefusedKeeps ==
  ASSUME Client!DriveClientAssumption, ClientInv, Client!FragmentRefused
  PROVE  ClientInv'
<1> USE DEF Client!DriveClientAssumption
<1>1. /\ clientPc \notin Client!Ended
      /\ UNCHANGED <<clientFolders, clientItems, clientSession, clientGot, clientDepth, clientSize>>
  BY DEF Client!FragmentRefused, Client!Requesting, Client!Ended, Client!serviceVars
<1>2. CASE Client!Restart
  BY <1>1, <1>2, RestartOK
<1>3. CASE Client!Throw("failed") /\ UNCHANGED <<clientSessions, clientOffset, clientFailures>>
  BY <1>1, <1>3 DEF ClientInv, Client!Throw, Client!requestVars, Numbers, WithinBounds, Reaching,
                    Client!ReportsWhatItMade, Client!Ended
<1>4. CASE /\ Client!NameTaken /\ Client!Throw("conflict")
           /\ UNCHANGED <<clientSessions, clientOffset, clientFailures>>
  BY <1>1, <1>4 DEF ClientInv, Client!Throw, Client!requestVars, Numbers, WithinBounds, Reaching,
                    Client!NameTaken, Client!ReportsWhatItMade, Client!Ended
<1>5. CASE Client!Failed
  <2>1. /\ UNCHANGED <<clientAttempt, clientRefreshed, clientSessions, clientOffset>>
        /\ clientFailures' \in 0 .. MaxFailures + 1
        /\ \/ clientPc' = "failed"
           \/ clientPc' = "resume" /\ clientFailures' <= MaxFailures
    BY <1>1, <1>5, FailedOK
  <2> QED BY <1>1, <2>1 DEF ClientInv, Numbers, WithinBounds, Reaching,
                    Client!ReportsWhatItMade, Client!Ended
<1> QED BY <1>2, <1>3, <1>4, <1>5 DEF Client!FragmentRefused, Client!uploadVars

LEMMA ResumeKeeps ==
  ASSUME Client!DriveClientAssumption, ClientInv, Client!Resume
  PROVE  ClientInv'
<1>1. /\ clientPc \notin Client!Ended
      /\ UNCHANGED <<clientFolders, clientItems, clientSession, clientGot, clientDepth, clientSize>>
  BY DEF Client!Resume, Client!Requesting, Client!Ended, Client!serviceVars
<1>2. CASE Client!Restart
  BY <1>1, <1>2, RestartOK
<1>3. CASE /\ clientOffset' \in {clientGot, 0} /\ clientPc' = "send"
           /\ UNCHANGED <<clientAttempt, clientRefreshed, clientSessions, clientFailures>>
  <2>1. clientSize \in Nat
    BY DEF ClientInv, Numbers, Client!DriveClientAssumption
  <2> QED BY <1>1, <1>3, <2>1 DEF ClientInv, Numbers, WithinBounds, Reaching,
                    Client!ReportsWhatItMade, Client!Ended
<1> QED BY <1>2, <1>3 DEF Client!Resume, Client!requestVars

LEMMA OthersKeep ==
  ASSUME Client!DriveClientAssumption, ClientInv,
         \/ Client!SessionExpires \/ Client!NameGoes
         \/ \E d \in 1 .. Depth : Client!FolderMade(d)
         \/ UNCHANGED clientVars
  PROVE  ClientInv'
<1> USE DEF ClientInv, Client!requestVars, Client!uploadVars, clientVars
<1>1. CASE Client!SessionExpires
  BY <1>1 DEF Client!SessionExpires, Numbers, WithinBounds, Reaching, Client!ReportsWhatItMade,
              Client!NameTaken
<1>2. CASE Client!NameGoes
  <2>1. /\ clientItems' = [mine |-> 0, theirs |-> 1] /\ clientItems.mine = 0
        /\ UNCHANGED <<clientFolders, clientSession, clientGot, clientPc, clientDepth,
                       clientAttempt, clientRefreshed, clientSessions, clientOffset,
                       clientFailures, clientSize>>
    BY <1>2 DEF Client!NameGoes, Numbers
  <2> QED BY <2>1 DEF Numbers, WithinBounds, Reaching, Client!ReportsWhatItMade, Client!NameTaken
<1>3. ASSUME NEW d \in 1 .. Depth, Client!FolderMade(d) PROVE ClientInv'
  <2>1. clientFolders' \in [1 .. Depth -> {"none", "folder", "file"}]
    BY <1>3 DEF Client!FolderMade, Numbers
  <2> QED BY <1>3, <2>1 DEF Client!FolderMade, Numbers, WithinBounds, Reaching,
              Client!ReportsWhatItMade, Client!NameTaken
<1>4. CASE UNCHANGED clientVars
  BY <1>4 DEF Numbers, WithinBounds, Reaching, Client!ReportsWhatItMade, Client!NameTaken
<1> QED BY <1>1, <1>2, <1>3, <1>4

LEMMA NextClientInv ==
  ASSUME Client!DriveClientAssumption, ClientInv, [Client!Next]_clientVars
  PROVE  ClientInv'
BY NotDoneKeeps, FoldersKeep, CreateKeeps, FragmentTakenKeeps, FragmentLostKeeps,
   FragmentRefusedKeeps, ResumeKeeps, OthersKeep DEF Client!Next, Client!Client

LEMMA ArchiveClient ==
  [ArchiveNext]_all => [Client!Next]_clientVars
BY DEF ArchiveNext, all, MirrorStep, StoreStep, ClientStep, TokensStep, GuardStep

(* "done" is said of the one item this call made, and "conflict" of a name *)
(* or a folder that is taken: drive.ts:287-312.                            *)
THEOREM ReportsAreTrue == ArchiveSpec => []ReportsWhatItMade
<1> USE ArchiveRunAssumption DEF ArchiveRunAssumption
<1>1. ArchiveInit => ClientInv
  BY InitClientInv DEF ArchiveInit
<1>2. ClientInv /\ [ArchiveNext]_all => ClientInv'
  BY ArchiveClient, NextClientInv
<1>3. ClientInv => ReportsWhatItMade
  BY DEF ClientInv, ReportsWhatItMade
<1> QED BY <1>1, <1>2, <1>3, PTL DEF ArchiveSpec

(* The client: Numbers are its types, but for one.                         *)
LEMMA NextRefreshed ==
  ASSUME clientRefreshed \in BOOLEAN, [Client!Next]_clientVars
  PROVE  clientRefreshed' \in BOOLEAN
<1>1. Client!Unanswered \/ (\E step : Client!NextRequest(step)) \/ UNCHANGED clientRefreshed
        => clientRefreshed' \in {clientRefreshed, TRUE, FALSE}
  BY Zenon DEF Client!Unanswered, Client!NextRequest, Client!Throw, Client!requestVars
<1>2. Client!Restart \/ Client!Reached \/ Client!Failed \/ Client!NotAFolder
        => (\E step : Client!NextRequest(step)) \/ UNCHANGED clientRefreshed
  BY DEF Client!Restart, Client!Reached, Client!Failed, Client!NotAFolder, Client!Throw,
         Client!requestVars
<1>3. Client!Client => Client!Unanswered \/ (\E step : Client!NextRequest(step)) \/ UNCHANGED clientRefreshed
  BY <1>2 DEF Client!Client, Client!NotDone, Client!DoneUnanswered, Client!Find, Client!Make,
         Client!Reread, Client!Create, Client!FragmentTaken, Client!FragmentLost,
         Client!FragmentRefused, Client!Resume, Client!Throw, Client!requestVars
<1>4. Client!Next \/ UNCHANGED clientVars => Client!Client \/ UNCHANGED clientRefreshed
  BY DEF Client!Next, Client!SessionExpires, Client!NameGoes, Client!FolderMade,
         Client!requestVars, clientVars
<1>5. clientRefreshed' \in {clientRefreshed, TRUE, FALSE}
  BY <1>1, <1>3, <1>4
<1> QED BY <1>5, Zenon

-----------------------------------------------------------------------------
LEMMA ArchiveMirror == [ArchiveNext]_all => [Next]_vars
BY DEF ArchiveNext, all, MirrorStep, StoreStep, ClientStep, TokensStep, GuardStep

(* The types of the archive's neighbours. *)
NeighbourTypes ==
  /\ OneCopyInv /\ MirrorTypes /\ ClientInv /\ clientRefreshed \in BOOLEAN
  /\ Tokens!TokensTypeOK /\ GuardInv /\ GuardTypes

LEMMA NeighboursAreTyped == ArchiveSpec => []NeighbourTypes
<1> USE ArchiveRunAssumption DEF ArchiveRunAssumption
<1>1. ArchiveInit => NeighbourTypes
  <2> SUFFICES ASSUME ArchiveInit PROVE NeighbourTypes
    OBVIOUS
  <2> USE DEF ArchiveInit
  <2>1. OneCopyInv /\ MirrorTypes
    BY InitOneCopyInv, InitMirrorTypes
  <2>2. ClientInv
    BY InitClientInv
  <2>3. clientRefreshed \in BOOLEAN
    BY Zenon DEF Client!Init
  <2>4. Tokens!TokensTypeOK
    BY InitTokensTyped
  <2>5. GuardInv
    BY DEF Guard!Init, Guard!Nothing, Guard!GuardAssumption, GuardInv, ItemShape,
           FoldersAreTrue, MovableAreTrue
  <2>6. GuardTypes
    BY InitGuardTypes
  <2> QED BY <2>1, <2>2, <2>3, <2>4, <2>5, <2>6, Zenon DEF NeighbourTypes
<1>2. NeighbourTypes /\ [ArchiveNext]_all => NeighbourTypes'
  <2> SUFFICES ASSUME NeighbourTypes, [ArchiveNext]_all PROVE NeighbourTypes'
    OBVIOUS
  <2>1. OneCopyInv' /\ MirrorTypes'
    BY ArchiveMirror, NextOneCopyInv, NextMirrorTypes DEF NeighbourTypes, OneCopyInv
  <2>2. ClientInv' /\ clientRefreshed' \in BOOLEAN
    BY ArchiveClient, NextClientInv, NextRefreshed, Zenon DEF NeighbourTypes
  <2>3. Tokens!TokensTypeOK'
    BY ArchiveTokens, NextTokensTyped DEF NeighbourTypes
  <2>4. GuardInv' /\ GuardTypes'
    BY ArchiveGuard, GuardNextKeeps, NextGuardTypes DEF NeighbourTypes
  <2> QED BY <2>1, <2>2, <2>3, <2>4, Zenon DEF NeighbourTypes
<1> QED BY <1>1, <1>2, PTL DEF ArchiveSpec

LEMMA NeighbourTypesMean ==
  ASSUME NeighbourTypes
  PROVE  MirrorTypeOK /\ Client!ClientTypeOK /\ Tokens!TokensTypeOK /\ Guard!GuardTypeOK
<1>1. MirrorTypeOK
  BY MirrorTyped DEF NeighbourTypes, OneCopyInv
<1>2. Client!ClientTypeOK
  BY Zenon DEF NeighbourTypes, ClientInv, Numbers, Client!ClientTypeOK
<1>3. Guard!GuardTypeOK
  BY GuardTyped DEF NeighbourTypes
<1> QED BY <1>1, <1>2, <1>3, Zenon DEF NeighbourTypes

=============================================================================
