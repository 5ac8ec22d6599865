------------------------------- MODULE Archive -------------------------------
(***************************************************************************)
(* The archive (src/src/archive/): detected files are fetched from Canvas  *)
(* and uploaded to OneDrive, each under a name reserved in its row; every  *)
(* run looks again at what OneDrive holds; and the owner may move what was *)
(* not sorted.                                                             *)
(*                                                                         *)
(* The sync archives, under the lock.  The backfill command archives and   *)
(* the re-route command moves, and neither takes the lock: any of their    *)
(* statements may come between two of the sync's.  Each process may die at *)
(* any step, an answer of OneDrive's may be lost after the upload or move  *)
(* was made, Canvas may lock or replace a file, and the owner may take     *)
(* away what was archived and put it back.                                 *)
(*                                                                         *)
(* A file's bytes are its identity and a version; a version's size is its  *)
(* number.  A path is a folder, a base name and the alternates' tags.      *)
(***************************************************************************)
EXTENDS Integers, Sequences, FiniteSets

CONSTANTS
  File,          \* the files detection knows
  Base,          \* their safe base names
  BaseOf,        \* File -> Base
  DefaultOf,     \* File -> the folder the generic rules give: see Folders
  Linked,        \* the files found through Modules: never seen as locked
  MaxFileSize,   \* archive_max_file_bytes: versions above it are too large
  MaxVersion,    \* bound on the versions of a file
  MaxFiles,      \* archive_max_files_per_run
  Limit,         \* the LIMIT of loadCandidates
  MaxAttempts,   \* MAX_ATTEMPTS
  MaxAlternates, \* MAX_ALTERNATES
  Casts,         \* the processes that share a behaviour: a set of sets
  MaxMishaps,    \* bound on failures, lost answers and deaths
  MaxEdits       \* bound on what Canvas and the owner change

Sync == "sync"
Backfill == "backfill"
Reroute == "reroute"
Archiver == {Sync, Backfill}

Unsorted == "_unsorted"
Folders == {Unsorted, "default", "ruled"}

ArchiveAssumption ==
  /\ BaseOf \in [File -> Base] /\ DefaultOf \in [File -> Folders \ {"ruled"}]
  /\ Linked \subseteq File
  /\ MaxFileSize \in Nat /\ MaxVersion \in Nat \ {0} /\ MaxFiles \in Nat /\ Limit \in Nat
  /\ MaxAttempts \in Nat /\ MaxAlternates \in Nat
  /\ Casts \subseteq SUBSET (Archiver \cup {Reroute})
  /\ MaxMishaps \in Nat /\ MaxEdits \in Nat

-----------------------------------------------------------------------------
VARIABLES
  (* the world *)
  canvas,    \* File -> what Canvas has: [open, version]
  drive,     \* the items under the root: [path, id, file, version]
  taken,     \* those the owner has ever taken from their place
  made,      \* how many items were ever created: the next id is fresh
  (* the database *)
  facts,     \* items.meta: what was last detected, by file
  rules,     \* the files a stored rule claims
  row,       \* the files table
  check,     \* archive_checks: the status by file
  (* the processes *)
  cast,      \* who takes part
  pc, mem,   \* the archivers
  batch,     \* the sync's integrity check: rows read and not yet checked
  moves,     \* the re-route command: [moves left, the move landed and not recorded]
  (* bounds *)
  mishaps, edits

worldVars == <<canvas, drive, taken, made>>
dbVars == <<facts, rules, row, check>>
procVars == <<cast, pc, mem, batch, moves>>
bounds == <<mishaps, edits>>
vars == <<worldVars, dbVars, procVars, bounds>>

Unseen == [accessible |-> FALSE, version |-> 0]
NoPath == <<>>
NoRow == [state |-> "none", attempts |-> 0, path |-> NoPath, size |-> 0,
          reroutable |-> FALSE, item |-> 0, version |-> 0]
NoJob == [todo |-> {}, fetched |-> 0, file |-> {}, path |-> NoPath,
          n |-> 0, version |-> 0, item |-> 0]

Path(folder, base, tags) == <<folder, base, tags>>
At(path) == {i \in drive : i.path = path}
Skipped == {"skipped_size", "skipped_type"}
Settled(f) == \/ row[f].state \in Skipped \cup {"complete"}
              \/ row[f].state = "failed" /\ row[f].attempts >= MaxAttempts

Mishap == mishaps < MaxMishaps /\ mishaps' = mishaps + 1 /\ UNCHANGED edits
NoMishap == UNCHANGED bounds
Edit == edits < MaxEdits /\ edits' = edits + 1 /\ UNCHANGED mishaps

-----------------------------------------------------------------------------
(* Canvas and the owner.                                                   *)
CanvasLocks(f) ==
  /\ Edit
  /\ canvas' = [canvas EXCEPT ![f].open = ~@]
  /\ UNCHANGED <<drive, taken, made, dbVars, procVars>>

(* A course that is backfilled is concluded: nothing in it is replaced.    *)
CanvasReplaces(f) ==
  /\ Edit /\ Backfill \notin cast
  /\ \E v \in canvas[f].version + 1 .. MaxVersion : canvas' = [canvas EXCEPT ![f].version = v]
  /\ UNCHANGED <<drive, taken, made, dbVars, procVars>>

TakeAway(i) ==
  /\ Edit
  /\ drive' = drive \ {i} /\ taken' = taken \cup {i}
  /\ UNCHANGED <<canvas, made, dbVars, procVars>>

PutBack(i) ==
  /\ At(i.path) = {} /\ \A j \in drive : j.id # i.id
  /\ drive' = drive \cup {i}
  /\ UNCHANGED <<canvas, taken, made, dbVars, procVars, bounds>>

(* rules add / rules remove: a stored rule comes to claim a file, or not.  *)
(* (Not beside a backfill: of two archivers, one that read the rules       *)
(* before the change and one that read them after it upload the same bytes *)
(* to two folders.)                                                        *)
ChangeRules(f) ==
  /\ Edit /\ Backfill \notin cast
  /\ rules' = IF f \in rules THEN rules \ {f} ELSE rules \cup {f}
  /\ UNCHANGED <<worldVars, facts, row, check, procVars>>

-----------------------------------------------------------------------------
(* An archiver starts.  The sync has just detected every file; a backfill  *)
(* records those not yet known.  A file found through Modules counts as    *)
(* accessible, locked or not.                                              *)
Seen(f) == [accessible |-> canvas[f].open \/ f \in Linked, version |-> canvas[f].version]

Route(f) == IF f \in rules THEN "ruled" ELSE DefaultOf[f]

(* loadCandidates: no row, pending, or failed with attempts left; each as  *)
(* it is when the run starts, whatever another process does to its row.    *)
Wanted == {f \in File : \/ row[f].state \in {"none", "pending"}
                        \/ row[f].state = "failed" /\ row[f].attempts < MaxAttempts}
Candidates == {s \in SUBSET Wanted :
                 Cardinality(s) = IF Cardinality(Wanted) < Limit THEN Cardinality(Wanted)
                                  ELSE Limit}

Loaded(f, seen) ==
  [file |-> f, facts |-> seen, new |-> row[f].state = "none",
   path |-> IF row[f].state = "none" THEN Path(Route(f), BaseOf[f], <<>>) ELSE row[f].path]

Set(p, step, job) == pc' = [pc EXCEPT ![p] = step] /\ mem' = [mem EXCEPT ![p] = job]

(* A run whose first requests to the drive fail does nothing more, and is  *)
(* no step.                                                                *)
Start(p) ==
  /\ p \in cast /\ pc[p] = "idle" /\ (p = Sync => batch = {})
  /\ facts' = [f \in File |-> IF p = Sync \/ facts[f] = Unseen THEN Seen(f) ELSE facts[f]]
  /\ \E s \in Candidates :
       Set(p, "next", [NoJob EXCEPT !.todo = {Loaded(f, facts'[f]) : f \in s}])
  /\ UNCHANGED <<worldVars, rules, row, check, cast, batch, moves>>
  /\ IF p = Sync THEN NoMishap ELSE Edit        \* a backfill is started by hand

(* A hidden or locked file is passed over, without a row. *)
Pass(p) ==
  /\ pc[p] = "next"
  /\ \E c \in mem[p].todo :
       /\ ~c.facts.accessible
       /\ mem' = [mem EXCEPT ![p].todo = @ \ {c}]
  /\ UNCHANGED <<worldVars, dbVars, cast, pc, batch, moves>> /\ NoMishap

(* Mutant: the row is made without a path. *)
ReservedLater(c) ==
  IF row[c.file].state # "none" THEN row[c.file]
  ELSE [NoRow EXCEPT !.state = "pending", !.size = c.facts.version]

(* The route is decided once and the path reserved; INSERT ON CONFLICT DO  *)
(* NOTHING.  What is too large has its terminal row at once.               *)
TooLarge(c) == c.new /\ c.facts.version > MaxFileSize
Reserved(c) ==
  IF row[c.file].state # "none" THEN row[c.file]
  ELSE [NoRow EXCEPT !.state = IF TooLarge(c) THEN "skipped_size" ELSE "pending",
                     !.path = c.path,
                     !.size = c.facts.version,
                     !.reroutable = c.path[1] = Unsorted]

(* A file is taken, with the path it was loaded with or that is reserved   *)
(* now.  Nothing else is done for a skipped one, nor beyond the cap.       *)
Capped(p) == p = Sync /\ mem[p].fetched >= MaxFiles
Take(p) ==
  /\ pc[p] = "next"
  /\ \E c \in mem[p].todo :
       /\ c.facts.accessible
       /\ row' = [row EXCEPT ![c.file] = Reserved(c)]
       /\ IF TooLarge(c)
            THEN Set(p, "next", [mem[p] EXCEPT !.todo = @ \ {c}])
          ELSE IF Capped(p) THEN Set(p, "end", NoJob)
          ELSE Set(p, "count", [mem[p] EXCEPT !.todo = @ \ {c}, !.file = {c.file}, !.path = c.path])
  /\ UNCHANGED <<worldVars, facts, rules, check, cast, batch, moves>> /\ NoMishap

(* The work of a file, f the one in hand. *)
Working(p, step, f) == pc[p] = step /\ mem[p].file = {f}

(* Mutant: the attempt is counted when it has failed. *)
CountNothing(p, f) ==
  /\ Working(p, "count", f)
  /\ Set(p, "download", mem[p])
  /\ UNCHANGED <<worldVars, dbVars, cast, batch, moves>> /\ NoMishap

(* The attempt is counted before any network work. *)
Count(p, f) ==
  /\ Working(p, "count", f)
  /\ row' = [row EXCEPT ![f].attempts = @ + 1, ![f].state = "pending"]
  /\ Set(p, "download", mem[p])
  /\ UNCHANGED <<worldVars, facts, rules, check, cast, batch, moves>> /\ NoMishap

(* recordFailure, and on to the next file; or to the end, when the error   *)
(* says that no other file can do better (stopFor).                        *)
Failing(p, f, stops) ==
  /\ row' = [row EXCEPT ![f].state = "failed"]
  /\ Set(p, IF stops THEN "end" ELSE "next",
         IF stops THEN NoJob ELSE [NoJob EXCEPT !.todo = mem[p].todo, !.fetched = mem[p].fetched])

(* downloadCanvasFile: the file object is fetched again.  Locked or gone   *)
(* is a failure, whatever was detected; larger than the gate is a skip.    *)
Download(p, f) ==
  /\ Working(p, "download", f)
  /\ LET v == canvas[f].version
     IN \/ /\ canvas[f].open /\ v <= MaxFileSize
           /\ Set(p, "upload", [mem[p] EXCEPT !.version = v, !.fetched = @ + 1])
           /\ UNCHANGED row
        \/ /\ canvas[f].open /\ v > MaxFileSize
           /\ row' = [row EXCEPT ![f].state = "skipped_size"]
           /\ Set(p, "next", [NoJob EXCEPT !.todo = mem[p].todo, !.fetched = mem[p].fetched])
        \/ ~canvas[f].open /\ Failing(p, f, FALSE)
  /\ UNCHANGED <<worldVars, facts, rules, check, cast, batch, moves>> /\ NoMishap

-----------------------------------------------------------------------------
(* isThisFile: size and hash are those of the bytes in hand. *)
IsThisFile(i, p, f) == i.file = f /\ i.version = mem[p].version
Adopted(p, i) == Set(p, "record", [mem[p] EXCEPT !.item = i.id])

New(p, f) == [path |-> mem[p].path, id |-> made + 1, file |-> f, version |-> mem[p].version]

(* Mutant: the session replaces what is there. *)
UploadReplacing(p, f) ==
  /\ Working(p, "upload", f)
  /\ drive' = (drive \ At(mem[p].path)) \cup {New(p, f)} /\ made' = made + 1
  /\ Adopted(p, New(p, f))
  /\ UNCHANGED <<canvas, taken, dbVars, cast, batch, moves>> /\ NoMishap

(* The upload session fails on a clash; nothing was there, so it lands,    *)
(* and OneDrive's hash of it is the hash of what was sent.                 *)
Upload(p, f) ==
  /\ Working(p, "upload", f) /\ At(mem[p].path) = {}
  /\ drive' = drive \cup {New(p, f)} /\ made' = made + 1
  /\ Adopted(p, New(p, f))
  /\ UNCHANGED <<canvas, taken, dbVars, cast, batch, moves>> /\ NoMishap

(* It lands, and the answer is lost on every retry. *)
UploadUnheard(p, f) ==
  /\ Working(p, "upload", f) /\ At(mem[p].path) = {} /\ Mishap
  /\ drive' = drive \cup {New(p, f)} /\ made' = made + 1
  /\ Failing(p, f, FALSE)
  /\ UNCHANGED <<canvas, taken, facts, rules, check, cast, batch, moves>>

(* Alternates are made from the name the attempt began with. *)
Alternate(p) ==
  LET n == mem[p].n
      first == IF n = 0 THEN mem[p].path
               ELSE [mem[p].path EXCEPT ![3] = SubSeq(@, 1, Len(@) - 1)]
  IN [first EXCEPT ![3] = Append(@, n + 1)]

(* Mutant: a taken name is never asked whose it is. *)
ConflictBlind(p, f) ==
  /\ Working(p, "upload", f) /\ At(mem[p].path) # {}
  /\ IF mem[p].n = MaxAlternates THEN Failing(p, f, FALSE)
     ELSE /\ row' = [row EXCEPT ![f].path = Alternate(p)]
          /\ Set(p, "upload", [mem[p] EXCEPT !.path = Alternate(p), !.n = @ + 1])
  /\ UNCHANGED <<worldVars, facts, rules, check, cast, batch, moves>> /\ NoMishap

(* The name is taken.  By this very file, which an attempt that died or    *)
(* was not answered has uploaded: it is adopted, whether it is met here or *)
(* looked for first, as it is after an earlier attempt.  By another: the   *)
(* next alternate is reserved before it is tried, until none is left.      *)
Conflict(p, f) ==
  /\ Working(p, "upload", f)
  /\ \E i \in At(mem[p].path) :
       IF IsThisFile(i, p, f) THEN Adopted(p, i) /\ UNCHANGED row
       ELSE IF mem[p].n = MaxAlternates THEN Failing(p, f, FALSE)
       ELSE /\ row' = [row EXCEPT ![f].path = Alternate(p)]
            /\ Set(p, "upload", [mem[p] EXCEPT !.path = Alternate(p), !.n = @ + 1])
  /\ UNCHANGED <<worldVars, facts, rules, check, cast, batch, moves>> /\ NoMishap

(* A request of the download, the folders or the upload fails. *)
WorkFails(p, f) ==
  /\ \E step \in {"download", "upload"} : Working(p, step, f)
  /\ Mishap
  /\ \E stops \in BOOLEAN : Failing(p, f, stops)
  /\ UNCHANGED <<worldVars, facts, rules, check, cast, batch, moves>>

(* What landed has been verified; the row says complete.  size_bytes stays *)
(* as it was reserved.                                                     *)
Record(p, f) ==
  /\ Working(p, "record", f)
  /\ row' = [row EXCEPT ![f] = [@ EXCEPT !.state = "complete", !.path = mem[p].path,
                                         !.item = mem[p].item, !.version = mem[p].version]]
  /\ Set(p, "next", [NoJob EXCEPT !.todo = mem[p].todo, !.fetched = mem[p].fetched])
  /\ UNCHANGED <<worldVars, facts, rules, check, cast, batch, moves>> /\ NoMishap

(* The time is up, or no candidate is left; the sync goes on to the check, *)
(* with the first rows read: those found wrong before come first.          *)
TimeIsUp(p) ==
  /\ pc[p] = "next" /\ mem[p].todo # {} /\ Mishap
  /\ Set(p, "end", NoJob)
  /\ UNCHANGED <<worldVars, dbVars, cast, batch, moves>>

Finish(p) ==
  /\ \/ pc[p] = "next" /\ mem[p].todo = {}
     \/ pc[p] = "end"
  /\ Set(p, "idle", NoJob)
  /\ batch' = IF p = Sync
                THEN {[file |-> f, path |-> row[f].path, item |-> row[f].item, size |-> row[f].size] :
                        f \in {g \in File : row[g].state = "complete"}}
                ELSE batch
  /\ UNCHANGED <<worldVars, dbVars, cast, moves>> /\ NoMishap

-----------------------------------------------------------------------------
(* checkArchiveIntegrity, one file: by the path and the item of the row as *)
(* it was read at the start.                                               *)
Status(b) ==
  LET found == At(b.path)
  IN IF found = {} THEN "missing"
     ELSE IF \A i \in found : i.id # b.item THEN "different_item"
     ELSE IF \A i \in found : i.version # b.size THEN "size_changed"
     ELSE "present"

(* Mutant: a file found wrong is not looked at again. *)
CheckOneOnce(b) ==
  /\ b \in batch
  /\ check' = [check EXCEPT ![b.file] = IF @ \in {"unknown", "present"} THEN Status(b) ELSE @]
  /\ batch' = batch \ {b}
  /\ UNCHANGED <<worldVars, facts, rules, row, cast, pc, mem, moves>> /\ NoMishap

CheckOne(b) ==
  /\ b \in batch
  /\ check' = [check EXCEPT ![b.file] = Status(b)]
  /\ batch' = batch \ {b}
  /\ UNCHANGED <<worldVars, facts, rules, row, cast, pc, mem, moves>> /\ NoMishap

(* The deadline, a failed request or a death ends the check. *)
CheckEnds ==
  /\ batch # {} /\ Mishap
  /\ batch' = {}
  /\ UNCHANGED <<worldVars, dbVars, cast, pc, mem, moves>>

-----------------------------------------------------------------------------
(* reroute --apply: the plan, made anew, is the one that was approved; it  *)
(* holds the complete and still re-routable files a rule now claims.       *)
Planned == {[file |-> f, from |-> row[f].path, to |-> [row[f].path EXCEPT ![1] = "ruled"],
             item |-> row[f].item] :
              f \in {g \in rules : /\ row[g].state = "complete" /\ row[g].reroutable
                                   /\ row[g].path[1] = Unsorted}}
NoMoves == [left |-> {}, landed |-> {}]

Apply ==
  /\ Reroute \in cast /\ moves = NoMoves /\ Planned # {}
  /\ moves' = [NoMoves EXCEPT !.left = Planned]
  /\ UNCHANGED <<worldVars, dbVars, cast, pc, mem, batch>> /\ NoMishap

Landed(m) == moves' = [left |-> moves.left \ {m}, landed |-> {m}]
GaveUp(m) == moves' = [moves EXCEPT !.left = @ \ {m}]
Moved(i, m) == drive' = (drive \ {i}) \cup {[i EXCEPT !.path = m.to]}

(* Moved by an apply that died before recording it. *)
Recover(m) ==
  /\ moves.landed = {} /\ m \in moves.left
  /\ \E i \in At(m.to) : i.id = m.item
  /\ Landed(m)
  /\ UNCHANGED <<worldVars, dbVars, cast, pc, mem, batch>> /\ NoMishap

(* drive.move: something is at the source and nothing at the destination.  *)
(* Only when it has moved is it asked whether it was the archived one.     *)
Move(m) ==
  /\ moves.landed = {} /\ m \in moves.left
  /\ At(m.to) = {}
  /\ \E i \in At(m.from) :
       /\ Moved(i, m)
       /\ \/ NoMishap /\ (IF i.id = m.item THEN Landed(m) ELSE GaveUp(m))
          \/ Mishap /\ GaveUp(m)          \* the answer is lost
  /\ UNCHANGED <<canvas, taken, made, dbVars, cast, pc, mem, batch>>

MoveFails(m) ==
  /\ moves.landed = {} /\ m \in moves.left
  /\ \/ At(m.from) = {} /\ At(m.to) = {}
     \/ \E i \in At(m.to) : i.id # m.item
  /\ GaveUp(m)
  /\ UNCHANGED <<worldVars, dbVars, cast, pc, mem, batch>> /\ NoMishap

(* UPDATE ... WHERE route_reroutable = 1 *)
RecordMove(m) ==
  /\ m \in moves.landed
  /\ row' = IF row[m.file].reroutable
              THEN [row EXCEPT ![m.file].path = m.to, ![m.file].reroutable = FALSE]
              ELSE row
  /\ moves' = [moves EXCEPT !.landed = {}]
  /\ UNCHANGED <<worldVars, facts, rules, check, cast, pc, mem, batch>> /\ NoMishap

-----------------------------------------------------------------------------
Die(p) ==
  /\ Mishap
  /\ \/ p \in Archiver /\ pc[p] # "idle" /\ Set(p, "idle", NoJob) /\ UNCHANGED moves
     \/ p = Reroute /\ moves # NoMoves /\ moves' = NoMoves /\ UNCHANGED <<pc, mem>>
  /\ UNCHANGED <<worldVars, dbVars, cast, batch>>

Init ==
  /\ canvas = [f \in File |-> [open |-> f \notin Linked, version |-> 1]]
  /\ drive = {} /\ taken = {} /\ made = 0
  /\ facts = [f \in File |-> Unseen] /\ rules = {}
  /\ row = [f \in File |-> NoRow] /\ check = [f \in File |-> "unknown"]
  /\ cast \in Casts
  /\ pc = [p \in Archiver |-> "idle"] /\ mem = [p \in Archiver |-> NoJob]
  /\ batch = {} /\ moves = NoMoves
  /\ mishaps = 0 /\ edits = 0

Archive(p) ==
  \/ Pass(p) \/ Take(p) \/ Finish(p)
  \/ \E f \in File : \/ Count(p, f) \/ Download(p, f)
                     \/ Upload(p, f) \/ Conflict(p, f) \/ Record(p, f)

Checking == \E b \in batch : CheckOne(b)
Rerouting == \E m \in moves.left \cup moves.landed :
               Recover(m) \/ Move(m) \/ MoveFails(m) \/ RecordMove(m)

World ==
  \/ \E f \in File : CanvasLocks(f) \/ CanvasReplaces(f) \/ ChangeRules(f)
  \/ \E i \in drive : TakeAway(i)
  \/ \E i \in taken \ drive : PutBack(i)

Next ==
  \/ World
  \/ \E p \in Archiver : Start(p) \/ Archive(p) \/ TimeIsUp(p)
  \/ \E p \in Archiver, f \in File : UploadUnheard(p, f) \/ WorkFails(p, f)
  \/ Checking \/ CheckEnds
  \/ Apply \/ Rerouting
  \/ \E p \in cast : Die(p)

(* The schedule starts a sync again and again, and what was started runs.  *)
Fairness ==
  /\ WF_vars(Start(Sync)) /\ WF_vars(Checking) /\ WF_vars(Rerouting)
  /\ \A p \in Archiver : WF_vars(Archive(p))

Spec == Init /\ [][Next]_vars
FairSpec == Spec /\ Fairness

-----------------------------------------------------------------------------
Item == [path : Folders \X Base \X Seq(1 .. MaxAlternates), id : 1 .. made,
         file : File, version : 1 .. MaxVersion]

(* The rows, the drive and what the processes hold keep their types, and a *)
(* row has its path from the moment it exists.  (archive/stage.ts)         *)
ArchiveTypeOK ==
  /\ canvas \in [File -> [open : BOOLEAN, version : 1 .. MaxVersion]]
  /\ drive \subseteq Item /\ taken \subseteq Item
  /\ \A i, j \in drive : i.path = j.path => i = j
  /\ facts \in [File -> [accessible : BOOLEAN, version : 0 .. MaxVersion]]
  /\ rules \subseteq File
  /\ \A f \in File :
       /\ row[f].state \in {"none", "pending", "failed", "complete"} \cup Skipped
       /\ row[f].state = "none" <=> row[f].path = NoPath
       /\ row[f].item \in 0 .. made /\ row[f].version \in 0 .. MaxVersion
  /\ check \in [File -> {"unknown", "present", "missing", "different_item", "size_changed"}]
  /\ \A p \in Archiver : /\ pc[p] \in {"idle", "next", "count", "download", "upload", "record", "end"}
                         /\ mem[p].n \in 0 .. MaxAlternates /\ {c.file : c \in mem[p].todo} \subseteq File
  /\ {b.file : b \in batch} \subseteq File /\ \A m, n \in moves.landed : m = n
  /\ mishaps \in 0 .. MaxMishaps /\ edits \in 0 .. MaxEdits

Takeable == {i.id : i \in taken}
MovedUnrecorded(f, i) ==
  row[f].reroutable /\ row[f].path[1] = Unsorted /\ i.path = [row[f].path EXCEPT ![1] = "ruled"]

IsThere(f) ==
  \/ row[f].item \in Takeable
  \/ \E i \in drive : /\ i.id = row[f].item /\ i.file = f /\ i.version = row[f].version
                       /\ (i.path = row[f].path \/ MovedUnrecorded(f, i))

(* A sync and a backfill that archive the same files at once do each other *)
(* no harm as long as the owner takes nothing away and at most two files   *)
(* share a name.                                                           *)
InPairs ==
  \A f, g, h \in File :
    BaseOf[f] = BaseOf[g] /\ BaseOf[g] = BaseOf[h] => f = g \/ g = h \/ f = h
Harmless == Archiver \subseteq cast => taken = {} /\ InPairs

(* A row that says complete is for bytes that are on the drive, under the  *)
(* row's item and at its path, whoever died where; unless the owner took   *)
(* them away, or a re-route moved them and has not recorded it: then they  *)
(* are where the next one looks for them.  (stage.ts:19, reroute.ts:11)    *)
CompleteIsThere == Harmless => \A f \in File : row[f].state = "complete" => IsThere(f)

(* "Any crash leaves either a pending/failed row that the next run         *)
(* retries, or a complete row for a file that is really there": of three   *)
(* files of a name this is not so.  The alternate is reserved without a    *)
(* look at the row (stage.ts:300): a backfill that still goes through the  *)
(* names writes one into a row that the sync has completed under another,  *)
(* and dies.  (stage.ts:19)                                                *)
CompleteAtRest ==
  (\A p \in Archiver : pc[p] = "idle") =>
    \A f \in File : row[f].state = "complete" => IsThere(f)

(* The same bytes are uploaded once, whatever dies between the upload and  *)
(* the record of it, whichever answer is lost, and when a backfill works   *)
(* on the very files of a sync.  (The move of a re-route asks only then    *)
(* whose file it moved: where the owner took one away, it may be another's *)
(* that was not recorded yet and is not found again.)                      *)
(* (stage.ts:13, stage.ts:308, reroute.ts:133)                             *)
NoSecondCopy ==
  Harmless /\ (Reroute \in cast => taken = {}) =>
    \A i, j \in drive : /\ i.file = j.file /\ i.version = j.version
                        /\ {i.id, j.id} \cap Takeable = {}
                       => i = j

(* An accessible file is archived, or skipped for good, or given up after  *)
(* its attempts: none is left pending for ever, though runs die on it.     *)
(* (stage.ts:108, 235)                                                     *)
EverySettles ==
  \A f \in File : facts[f].accessible ~> Settled(f) \/ ~facts[f].accessible

(* A wrong status of a file that is in its place with its own bytes.       *)
FalseAlarm(f) ==
  /\ row[f].state = "complete" /\ check[f] \notin {"unknown", "present"}
  /\ \E i \in drive : /\ i.id = row[f].item /\ i.path = row[f].path
                       /\ i.version = row[f].version

(* A check made while a re-route was moving the file, or the owner putting *)
(* it back, is corrected by a later one.  (integrity.ts:5)                 *)
AlarmsClear ==
  \A f \in File : FalseAlarm(f) /\ row[f].size = row[f].version ~> ~FalseAlarm(f)

=============================================================================
