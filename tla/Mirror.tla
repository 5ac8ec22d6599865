------------------------------- MODULE Mirror -------------------------------
(***************************************************************************)
(* The local mirror (src/src/mirror/, src/src/cli/mirror.ts): files that   *)
(* are archived after a baseline are copied from OneDrive's synced folder  *)
(* into the owner's own folders, each once, and a copy follows its file    *)
(* when the archive moves it.                                              *)
(*                                                                         *)
(* The owner works in those folders at the same time: between any two      *)
(* steps of a run files may be made, changed, moved and deleted, and the   *)
(* folder of a module with them.  OneDrive, in which the owner's folders   *)
(* are too, brings files down and takes them away, the archive adds and    *)
(* moves, and a run may die anywhere, in the middle of a copy too.  A run  *)
(* that only reports (--dry-run) changes nothing and is no step.           *)
(***************************************************************************)
EXTENDS Integers, FiniteSets, FiniteSetsExt

CONSTANTS
  File,        \* archived files; all of one name, with different bytes
  Folder,      \* archive folders, each of a module of its own
  Unmapped,    \* those of a term or module that mirror.config does not map
  Unmade,      \* those whose module's own folder the owner has not made at first
  Variants,    \* names a copy may take: its own, " (2)", ... : MAX_NAME_VARIANTS + 1
  MaxMishaps,  \* bound on deaths
  MaxEdits,    \* bound on the owner's changes and on what OneDrive takes away
  MaxMoves     \* bound on the archive's re-routes

ASSUME MirrorAssumption ==
  /\ Unmapped \subseteq Folder /\ Unmade \subseteq Folder /\ Variants \in Nat \ {0}
  /\ MaxMishaps \in Nat /\ MaxEdits \in Nat /\ MaxMoves \in Nat

Own == "own"    \* bytes that are no archived file's
Part == "part"  \* the beginning of a file's

VARIABLES
  archive,  \* what the database says is archived: file -> folder, or "none"
  source,   \* the synced folder's copy: "here", "online" (macOS must download
            \* it) or "away" (absent, unreadable or not yet what was archived)
  dest,     \* the owner's folders: items [at, of, by]; `by` a file's id if the
            \* mirror made the item for it and the owner never touched it
  cold,     \* the places whose item cannot be read: it is online only, say
  missing,  \* the folders whose module's own folder is not there
  saved,    \* var/mirror/state.json: file -> entry, or NoState
  pc, rows, todo,  \* the run: its step, the rows it read, those not yet looked at
  job,      \* the file in hand, the place chosen, and what else was there
  bounds    \* [mishaps, edits, moves]

runVars == <<pc, rows, todo, job>>
owned == <<dest, cold, missing>>
vars == <<archive, source, owned, saved, runVars, bounds>>

None == "none"
NoRows == [f \in File |-> None]
NoState == [f \in {} |-> None]
Unknown == [status |-> None, path |-> None, to |-> <<>>]
NoJob == [file |-> None, from |-> <<>>, to |-> <<>>, seen |-> {}]

Place(folder, n) == <<folder, n>>
At(place) == {i \in dest : i.at = place}
Entry(status, folder, place) == [status |-> status, path |-> folder, to |-> place]

Init ==
  /\ archive = [f \in File |-> None]
  /\ source = [f \in File |-> "away"]
  /\ dest = {} /\ cold = {} /\ missing = Unmade
  /\ saved = NoState
  /\ pc = "idle" /\ rows = NoRows /\ todo = {} /\ job = NoJob
  /\ bounds = [mishaps |-> 0, edits |-> 0, moves |-> 0]

Spend(what, max) == bounds[what] < max /\ bounds' = [bounds EXCEPT ![what] = @ + 1]

-----------------------------------------------------------------------------
(* The world.                                                              *)
Archived(f, folder) ==
  /\ \A g \in File : archive[g] # folder    \* no two files of a name in a folder
  /\ archive' = [archive EXCEPT ![f] = folder]
  /\ IF archive[f] = None THEN UNCHANGED bounds ELSE Spend("moves", MaxMoves)
  /\ UNCHANGED <<source, owned, saved, runVars>>

Synced(f, how) ==
  /\ source' = [source EXCEPT ![f] = how] /\ source # source'
  /\ IF how = "here" THEN UNCHANGED bounds ELSE Spend("edits", MaxEdits)
  /\ UNCHANGED <<archive, owned, saved, runVars>>

(* An item of the owner's folders cannot be read any more, or again.       *)
Clouded(place) ==
  /\ At(place) # {}
  /\ cold' = IF place \in cold THEN cold \ {place} ELSE cold \cup {place}
  /\ IF place \in cold THEN UNCHANGED bounds ELSE Spend("edits", MaxEdits)
  /\ UNCHANGED <<archive, source, dest, missing, saved, runVars>>

(* The owner makes a file, or takes one away (to keep it elsewhere, say),  *)
(* or writes into one: then it can be read.                                *)
Touch(items) ==
  /\ dest' = items /\ Spend("edits", MaxEdits)
  /\ cold' = {place \in cold : At(place) \subseteq items}
  /\ UNCHANGED <<archive, source, saved, runVars>>
OwnerMakes(folder, n) ==
  /\ folder \notin missing /\ At(Place(folder, n)) = {}
  /\ Touch(dest \cup {[at |-> Place(folder, n), of |-> Own, by |-> None]})
  /\ UNCHANGED missing
OwnerTakes(i) == Touch(dest \ {i}) /\ UNCHANGED missing
OwnerWrites(i) ==
  Touch((dest \ {i}) \cup {[at |-> i.at, of |-> Own, by |-> None]}) /\ UNCHANGED missing

(* He takes away the folder of a module, or makes it.                      *)
OwnerClears(folder) ==
  /\ folder \notin missing /\ missing' = missing \cup {folder}
  /\ Touch({i \in dest : i.at[1] # folder})
OwnerOpens(folder) ==
  /\ folder \in missing /\ missing' = missing \ {folder}
  /\ UNCHANGED <<archive, source, dest, cold, saved, runVars, bounds>>

-----------------------------------------------------------------------------
(* A run.                                                                  *)
Idle == pc' = "idle" /\ rows' = NoRows /\ todo' = {} /\ job' = NoJob

(* mkdirSync makes the folder with all that lead to it.                    *)
FolderMade(place) == missing' = missing \ {place[1]}

(* The process dies, or what it calls fails: a copy that cannot be read    *)
(* back to be verified ends the run too.                                   *)
Die ==
  /\ pc # "idle" /\ Spend("mishaps", MaxMishaps) /\ Idle
  /\ UNCHANGED <<archive, source, cold, saved>>
  /\ \/ UNCHANGED <<dest, missing>>
     \/ /\ pc = "copy" /\ At(job.to) = {}      \* in the middle of copyFile
        /\ dest' = dest \cup {[at |-> job.to, of |-> Part, by |-> job.file]}
        /\ FolderMade(job.to)

(* --baseline: everything archived is seen, and nothing is copied. *)
Listed(r) == {f \in File : r[f] # None}
Baseline ==
  /\ pc = "idle" /\ saved = NoState
  /\ saved' = [f \in File |-> IF archive[f] = None THEN Unknown
                              ELSE Entry("baselined", archive[f], <<>>)]
  /\ UNCHANGED <<archive, source, owned, runVars, bounds>>

Start ==
  /\ pc = "idle" /\ saved # NoState
  /\ pc' = "new" /\ rows' = archive /\ todo' = Listed(archive)
  /\ UNCHANGED <<archive, source, owned, saved, job, bounds>>

(* The next file: known ones are passed over, those outside the mapping or *)
(* of a module without a folder skipped, and those that cannot be read     *)
(* whole and right are deferred.  (They are looked at by path: any order.) *)
Passed(f) == saved[f].status # None \/ rows[f] \in Unmapped \cup missing
PassOver(f) ==
  /\ pc = "new" /\ f \in todo /\ Passed(f)
  /\ todo' = todo \ {f}
  /\ UNCHANGED <<archive, source, owned, saved, pc, rows, job, bounds>>

Defer(f) ==
  /\ pc = "new" /\ f \in todo /\ ~Passed(f) /\ source[f] # "here"
  /\ todo' = todo \ {f}
  /\ UNCHANGED <<archive, source, owned, saved, pc, rows, job, bounds>>

(* The helper downloads what the system would not. *)
Materialize(f) ==
  /\ pc = "new" /\ f \in todo /\ ~Passed(f) /\ source[f] = "online"
  /\ source' = [source EXCEPT ![f] = "here"]
  /\ UNCHANGED <<archive, owned, saved, runVars, bounds>>

FirstFit(fits) == IF fits = {} THEN 0 ELSE Min(fits)
(* Mutant: only a free name will do. *)
FitsFree(f, place) == At(place) = {}
(* Mutant: only the file's own name will do. *)
FitsOwn(f, place) == place[2] = 1 /\ \A i \in At(place) : i.of = f
(* A name will do that is free, or that holds this very file. *)
Fits(f, place) == \A i \in At(place) : i.of = f

(* The names are tried in turn, up to the first that will do, or that      *)
(* cannot be read to tell; 0 if every name holds something else.           *)
Choice(f) ==
  FirstFit({n \in 1 .. Variants : Place(rows[f], n) \in cold \/ Fits(f, Place(rows[f], n))})

ChosenPlace(f) == Place(rows[f], Choice(f))
Choosing(f) == pc = "new" /\ f \in todo /\ ~Passed(f) /\ source[f] = "here"

(* Nothing catches the read of an item at a name: it ends the run, and     *)
(* the files not looked at yet wait.                                       *)
Stumble(f) ==
  /\ Choosing(f) /\ Choice(f) # 0 /\ ChosenPlace(f) \in cold
  /\ Idle /\ UNCHANGED <<archive, source, owned, saved, bounds>>

Stage(f) ==
  /\ Choosing(f) /\ (Choice(f) # 0 => ChosenPlace(f) \notin cold)
  /\ todo' = todo \ {f}
  /\ CASE Choice(f) = 0 -> UNCHANGED <<pc, job>>
       [] Choice(f) # 0 /\ At(ChosenPlace(f)) = {} ->
            pc' = "copy" /\ job' = [NoJob EXCEPT !.file = f, !.to = ChosenPlace(f), !.seen = dest]
       [] OTHER -> pc' = "record" /\ job' = [NoJob EXCEPT !.file = f, !.to = ChosenPlace(f)]
  /\ UNCHANGED <<archive, source, owned, saved, rows, bounds>>

(* copyFile, which fails rather than overwrite: the run ends there. *)
Copy ==
  /\ pc = "copy"
  /\ IF At(job.to) = {}
     THEN /\ dest' = dest \cup {[at |-> job.to, of |-> job.file, by |-> job.file]}
          /\ pc' = "record" /\ UNCHANGED <<rows, todo, job>>
     ELSE UNCHANGED dest /\ Idle
  /\ FolderMade(job.to)
  /\ UNCHANGED <<archive, source, cold, saved, bounds>>

(* saveState, after every copy, move and copy left: the state in hand and  *)
(* the state in the file are always the same.                              *)
Saved(f, entry, step) ==
  /\ saved' = [saved EXCEPT ![f] = entry]
  /\ pc' = step /\ job' = NoJob

Record ==
  /\ pc = "record"
  /\ Saved(job.file, Entry("copied", rows[job.file], job.to), "new")
  /\ UNCHANGED <<archive, source, owned, rows, todo, bounds>>

-----------------------------------------------------------------------------
(* Following re-routes, of copies that are as the mirror left them.        *)
NewDone ==
  /\ pc = "new" /\ todo = {} /\ pc' = "follow"
  /\ UNCHANGED <<archive, source, owned, saved, rows, todo, job, bounds>>

Behind == {f \in Listed(rows) : saved[f].status = "copied" /\ rows[f] # saved[f].path}
NewPlace(f) == Place(rows[f], 1)
Untouched(f) == \E i \in At(saved[f].to) : i.of = f
(* Mutant: the copy is moved whatever became of it. *)
MayFollowTouched(f) == rows[f] \notin Unmapped /\ At(saved[f].to) # {} /\ At(NewPlace(f)) = {}
MayFollow(f) == rows[f] \notin Unmapped /\ Untouched(f) /\ At(NewPlace(f)) = {}

(* The copy cannot be read to tell: that ends the run as well.             *)
Illegible(f) == rows[f] \notin Unmapped /\ saved[f].to \in cold
Balk(f) ==
  /\ pc = "follow" /\ f \in Behind /\ Illegible(f)
  /\ Idle /\ UNCHANGED <<archive, source, owned, saved, bounds>>

Leave(f) ==
  /\ pc = "follow" /\ f \in Behind /\ ~Illegible(f) /\ ~MayFollow(f)
  /\ Saved(f, Entry("copied", rows[f], saved[f].to), "follow")
  /\ UNCHANGED <<archive, source, owned, rows, todo, bounds>>

Follow(f) ==
  /\ pc = "follow" /\ f \in Behind /\ ~Illegible(f) /\ MayFollow(f)
  /\ pc' = "rename"
  /\ job' = [file |-> f, from |-> saved[f].to, to |-> NewPlace(f), seen |-> dest]
  /\ UNCHANGED <<archive, source, owned, saved, rows, todo, bounds>>

(* renameSync puts whatever is there by now over whatever is there by now; *)
(* with nothing to move it throws.                                         *)
Rename ==
  /\ pc = "rename"
  /\ FolderMade(job.to)
  /\ IF At(job.from) = {} THEN UNCHANGED <<dest, cold>> /\ Idle
     ELSE /\ cold' = {IF place = job.from THEN job.to ELSE place : place \in cold \ {job.to}}
          /\ dest' = {i \in dest : i.at \notin {job.from, job.to}}
                     \cup {[i EXCEPT !.at = job.to] : i \in At(job.from)}
          /\ pc' = "moved" /\ UNCHANGED <<rows, todo, job>>
  /\ UNCHANGED <<archive, source, saved, bounds>>

Moved ==
  /\ pc = "moved"
  /\ Saved(job.file, Entry("copied", rows[job.file], job.to), "follow")
  /\ UNCHANGED <<archive, source, owned, rows, todo, bounds>>

Finish ==
  /\ pc = "follow" /\ Behind = {} /\ Idle
  /\ UNCHANGED <<archive, source, owned, saved, bounds>>

Step == \/ Start \/ NewDone \/ Copy \/ Record \/ Rename \/ Moved \/ Finish
        \/ \E f \in File : PassOver(f) \/ Defer(f) \/ Stumble(f) \/ Stage(f)
                         \/ Balk(f) \/ Leave(f) \/ Follow(f)
World == \/ Die \/ Baseline
         \/ \E f \in File : \/ \E folder \in Folder : Archived(f, folder)
                            \/ \E how \in {"away", "online", "here"} : Synced(f, how)
                            \/ Materialize(f)
         \/ \E folder \in Folder \ Unmapped :
              \/ \E n \in 1 .. Variants : Clouded(Place(folder, n)) \/ OwnerMakes(folder, n)
              \/ OwnerClears(folder) \/ OwnerOpens(folder)
         \/ \E i \in dest : OwnerTakes(i) \/ OwnerWrites(i)

Next == Step \/ World
Spec == Init /\ [][Next]_vars

(* The system's timer starts a run again and again. *)
Fairness == WF_vars(Step)
FairSpec == Spec /\ Fairness

-----------------------------------------------------------------------------
MirrorTypeOK ==
  /\ archive \in [File -> Folder \cup {None}]
  /\ source \in [File -> {"away", "online", "here"}]
  /\ \A i \in dest : i.of \in File \cup {Own, Part} /\ i.by \in File \cup {None}
                     /\ Cardinality(At(i.at)) = 1
  /\ cold \subseteq {i.at : i \in dest} /\ missing \subseteq Folder
  /\ \/ saved = NoState
     \/ \A f \in File : saved[f].status \in {None, "baselined", "copied"}
  /\ pc \in {"idle", "new", "copy", "record", "follow", "rename", "moved"}
  /\ todo \subseteq Listed(rows)

(* What was in the owner's folders when a step chose its place, and is as  *)
(* it was since, is still there after the step, but for the one item the   *)
(* step moves; the owner's own files are never moved.  (A file the owner   *)
(* puts at the new place after the check and before the rename is lost:    *)
(* the check and the rename are two calls.)  mirror.ts:15-16, "Nothing in  *)
(* the destination is ever deleted or overwritten".                        *)
Kept ==
  [][dest' # dest /\ pc' # pc /\ pc \in {"copy", "rename"} =>
       \A i \in job.seen \cap dest : i \in dest' \/ (i.at = job.from /\ i.of = job.file)]_vars

(* A file has one whole copy that the mirror made and the owner did not    *)
(* touch: a copy that a run made and died before recording is found again. *)
(* (After a death, if the archive moves the file first, or the owner       *)
(* clears the name before that of the copy, a second one is made.)         *)
(* mirror.ts:218-241, "a crash never forgets one".                         *)
Undisturbed == bounds.edits = 0 /\ bounds.moves = 0
OneCopyEach ==
  bounds.mishaps = 0 \/ Undisturbed =>
    \A f \in File : Cardinality({i \in dest : i.by = f /\ i.of = f}) <= 1

(* A file archived in a mapped folder of a module that has its folder, and *)
(* brought down to this machine, for good, is one day copied, or all its   *)
(* names are taken, or it was there before the baseline: if in the end no  *)
(* name of an archived file holds an item that cannot be read (such an     *)
(* item ends each run that comes to it).  mirror.ts:156-244.               *)
Mapped(f) == archive[f] \notin Unmapped \cup {None}
NamesTaken(f) == \A n \in 1 .. Variants : \E i \in At(Place(archive[f], n)) : i.of # f
Legible == \A f \in File, n \in 1 .. Variants : Mapped(f) => Place(archive[f], n) \notin cold
NewIsMirrored ==
  \A f \in File :
    <>[](/\ Mapped(f) /\ archive[f] \notin missing /\ source[f] = "here"
         /\ saved # NoState /\ Legible)
      => <>(saved # NoState /\ (saved[f].status # None \/ NamesTaken(f)))

=============================================================================
