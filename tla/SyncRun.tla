------------------------------- MODULE SyncRun -------------------------------
(***************************************************************************)
(* A polling run (src/src/sync/run.ts): what it reads from Canvas, what it *)
(* decides is news, and the one transaction per context that records both. *)
(* The notification queue is here what it promises (Outbox.tla, which      *)
(* NotificationQueue.tla implements): rows under a unique key, each queued *)
(* until it is sent or given up.  A run is at work only while it holds the *)
(* lock (SyncLock.tla).                                                    *)
(*                                                                         *)
(* Canvas is the environment: instructors publish, edit, hide and link     *)
(* things at any time, a course is opened and closed to the token, and any *)
(* listing may fail in any run.  A version of an item is its content (of a *)
(* file its name and, apart from it, its size and date), whether a student *)
(* may see it, and a revision number that counts its edits: the code never *)
(* sees the number.                                                        *)
(***************************************************************************)
EXTENDS Integers, FiniteSets

CONSTANTS
  Run,           \* the processes that may sync
  Context,       \* the enabled contexts
  Group,         \* those that are groups: files only (RESOURCES_FOR)
  Resource,      \* the resource types in play
  Item,          \* what instructors can post
  ContextOf,     \* Item -> Context
  ResourceOf,    \* Item -> Resource
  Name,          \* what a file can be called, and a module's link to it
  Content,       \* what else an item can say: of a file, its size and date
  Unknown,       \* what a listing does not tell: of a file in Modules, its content
  Absent,        \* no version
  Starts,        \* what Canvas may hold at the start
  OpensMidRun,   \* whether a course may be opened or closed while a run is at work
  MaxEdits       \* bound on the changes instructors make

ResourceType == {"announcement", "assignment", "grade", "comment", "file"}

ASSUME SyncAssumption ==
  /\ Group \subseteq Context
  /\ Resource \subseteq ResourceType
  /\ ContextOf \in [Item -> Context]
  /\ ResourceOf \in [Item -> Resource]
  /\ Unknown \notin Content \cup Name
  /\ OpensMidRun \in BOOLEAN
  /\ MaxEdits \in Nat

(* Only of a file is the name told apart from the content. *)
Version == [name : Name \cup {Unknown}, content : Content \cup {Unknown},
            shown : BOOLEAN, rev : Nat]
NamesOf(i) == IF ResourceOf[i] = "file" THEN Name ELSE {Unknown}
Linked == {"no", "published", "unpublished"}

ASSUME StartAssumption ==
  /\ Absent \notin Version
  /\ \A s \in Starts :
       /\ s.canvas \in [Item -> Version \cup {Absent}]
       /\ s.linked \in [Item -> Linked] /\ s.title \in [Item -> Name]
       /\ \A i \in Item :
            s.canvas[i] = Absent \/ ResourceOf[i] # "file" \/ ContextOf[i] \in Group
              => s.linked[i] = "no"

Hash == [name : Name \cup {Unknown}, content : Content \cup {Unknown}, shown : BOOLEAN]
Ref == [item : Item, hash : Hash]
Scope == Context \X Resource

(* What a row is about: content by item versions, a summary by its scope. *)
Key == [refs : SUBSET Ref, scope : SUBSET Scope]
NoteState == {"queued", "sent", "failed"}

Coverage == {"unknown", "full", "modules_only", "none"}

VARIABLES
  (* Canvas *)
  canvas,      \* the current version of each item
  linked,      \* whether a module links a file, and how
  title,       \* the title of that link: the owner of the module chooses it
  open,        \* the contexts the token can read
  (* the database *)
  items,       \* the items table: the version last recorded, and notified_at
  baselined,   \* the (context, resource) pairs whose watermark has baselined_at
  coverage,    \* contexts.coverage_status
  notes,       \* the notifications table: the state of each key in it
  (* the runs *)
  pc,          \* where each run is
  mem,         \* what it holds in memory
  (* observations and bounds: no code reads them *)
  news,        \* every ref ever decided to be news
  changed,     \* the items an instructor has changed since the start
  edits

canvasVars == <<canvas, linked, title, open, edits, changed>>
dbVars == <<items, baselined, coverage, notes, news>>
runVars == <<pc, mem>>
vars == <<canvasVars, dbVars, runVars>>

NotStored == [version |-> Absent, notified |-> FALSE]
StoredItem == [version : Version \cup {Absent}, notified : BOOLEAN]

(* contentHash: an assignment's hash leaves out whether it is published. *)
HashOf(i, v) ==
  [name |-> v.name, content |-> v.content,
   shown |-> ResourceOf[i] = "assignment" \/ v.shown]
RefOf(i, v) == [item |-> i, hash |-> HashOf(i, v)]

(* What a run holds: the watermarks and coverage it loaded at its start,   *)
(* the announcements it listed then, the contexts still to sync and        *)
(* baselinedScope; and, of the context it is at, which file listing        *)
(* answered (the coverage that proves), the resources fetched 'ok', the    *)
(* versions listed, and the rows read back.                                *)
EmptyMemory ==
  [marks |-> {}, covSeen |-> [c \in Context |-> "unknown"],
   heard |-> {}, posts |-> [i \in Item |-> Absent], todo |-> {}, scope |-> {},
   at |-> {}, listing |-> "error", fetched |-> {}, obs |-> [i \in Item |-> Absent],
   stored |-> [i \in Item |-> NotStored]]

Applicable(c) == IF c \in Group THEN Resource \cap {"file"} ELSE Resource
ItemsOf(c) == {i \in Item : ContextOf[i] = c}

-----------------------------------------------------------------------------
(* Canvas: the environment *)

(* An instructor posts or changes an item, or shows or hides it. *)
Edit(i) ==
  /\ edits < MaxEdits
  /\ edits' = edits + 1
  /\ \E n \in NamesOf(i), c \in Content, s \in BOOLEAN :
       LET rev == IF canvas[i] = Absent THEN 0 ELSE canvas[i].rev + 1
           after == [name |-> n, content |-> c, shown |-> s, rev |-> rev]
       IN  /\ ResourceOf[i] \in {"announcement", "comment"} => s
           /\ canvas[i] # Absent =>
                <<n, c, s>> # <<canvas[i].name, canvas[i].content, canvas[i].shown>>
           /\ canvas' = [canvas EXCEPT ![i] = after]
  /\ changed' = changed \cup {i}
  /\ UNCHANGED <<linked, title, open, dbVars, runVars>>

(* An instructor links a file from a module, publishes or unpublishes the  *)
(* link, or gives it another title.                                        *)
Relink(i) ==
  /\ ResourceOf[i] = "file" /\ canvas[i] # Absent /\ ContextOf[i] \notin Group
  /\ edits < MaxEdits
  /\ edits' = edits + 1
  /\ \E l \in Linked, t \in Name :
       /\ l # linked[i] \/ (l # "no" /\ t # title[i])
       /\ linked' = [linked EXCEPT ![i] = l] /\ title' = [title EXCEPT ![i] = t]
  /\ changed' = changed \cup {i}
  /\ UNCHANGED <<canvas, open, dbVars, runVars>>

(* A course is opened to the token, or closed. *)
Admit(c) ==
  /\ OpensMidRun \/ \A r \in Run : pc[r] = "idle"
  /\ open' = IF c \in open THEN open \ {c} ELSE open \cup {c}
  /\ UNCHANGED <<canvas, linked, title, edits, changed, dbVars, runVars>>

-----------------------------------------------------------------------------
(* Starting and dying *)

(* Mutant: the run does not ask for the lock. *)
MayStartUnlocked(r) == pc[r] = "idle"

(* Another run at work holds the lock (SyncLock.tla). *)
MayStart(r) == \A q \in Run : pc[q] = "idle"

(* What fetchAnnouncements gets: for a course that cannot be read Canvas   *)
(* answers 200 and an empty list.                                          *)
Posts(heard) ==
  [i \in Item |-> IF ResourceOf[i] = "announcement" /\ ContextOf[i] \in heard \cap open
                  THEN canvas[i] ELSE Absent]

(* getSelf answered: contexts and watermarks are loaded, and the           *)
(* announcements of all courses are listed, some of them perhaps in vain.  *)
Begin(r) ==
  /\ MayStart(r)
  /\ pc' = [pc EXCEPT ![r] = "contexts"]
  /\ \E heard \in SUBSET (Context \ Group) :
       mem' = [mem EXCEPT ![r].marks = baselined, ![r].covSeen = coverage,
                          ![r].heard = heard, ![r].posts = Posts(heard),
                          ![r].todo = Context]
  /\ UNCHANGED <<canvasVars, dbVars>>

(* getSelf did not answer: what is queued is flushed, nothing is synced. *)
BeginBlind(r) ==
  /\ MayStart(r)
  /\ pc' = [pc EXCEPT ![r] = "flush"]
  /\ UNCHANGED <<canvasVars, dbVars, mem>>

(* The process dies, or an exception no stage catches ends it. *)
Die(r) ==
  /\ pc[r] # "idle"
  /\ pc' = [pc EXCEPT ![r] = "idle"]
  /\ mem' = [mem EXCEPT ![r] = EmptyMemory]
  /\ UNCHANGED <<canvasVars, dbVars>>

-----------------------------------------------------------------------------
(* One context: fetch, read back, commit *)

(* What a listing shows of an item: Modules shows only the files a module  *)
(* links, by the title of the link, without their size and date, and not   *)
(* whether they are locked; of a grade held back its score is not taken.   *)
Listed(i, lst) ==
  IF canvas[i] = Absent THEN Absent
  ELSE IF ResourceOf[i] = "grade" /\ ~canvas[i].shown THEN [canvas[i] EXCEPT !.content = Unknown]
  ELSE IF ResourceOf[i] # "file" \/ lst = "full" THEN canvas[i]
  ELSE IF linked[i] = "no" THEN Absent
  ELSE [name |-> title[i], content |-> Unknown, shown |-> linked[i] = "published", rev |-> canvas[i].rev]

(* fetchFiles: by whichever path the context allows; "error" leaves the    *)
(* coverage undetermined.  A group has no modules.                         *)
Listings(c) == {"full", "none", "error"} \cup (IF c \in Group THEN {} ELSE {"modules_only"})

(* The announcements of c the run has listed. *)
PostsOf(m, c) == {i \in ItemsOf(c) : m.posts[i] # Absent}

(* Mutant: an empty list of announcements is taken at its word. *)
BelievedAlways(m, c, answered) == c \in m.heard

(* D-38: an announcement list that is empty counts only if another         *)
(* resource of the same course answers: then the course can be read.       *)
Believed(m, c, answered) ==
  c \in m.heard /\ (PostsOf(m, c) # {} \/ answered # {})

(* Everything else of c is listed, outside any transaction; each listing   *)
(* may fail on its own, and all of them do while the course is closed.     *)
Fetch(r, c) ==
  /\ pc[r] = "contexts"
  /\ c \in mem[r].todo
  /\ \E lst \in Listings(c), others \in SUBSET (Applicable(c) \ {"announcement", "file"}) :
       LET files == IF lst \in {"full", "modules_only"} THEN Applicable(c) \cap {"file"} ELSE {}
           ok == others \cup files
       IN  /\ c \notin open => lst \in {"none", "error"} /\ others = {}
           /\ mem' = [mem EXCEPT
                ![r].todo = @ \ {c},
                ![r].heard = @ \ {c},
                ![r].posts = [i \in Item |-> IF ContextOf[i] = c THEN Absent ELSE @[i]],
                ![r].at = {c},
                ![r].listing = lst,
                ![r].fetched = ok \cup
                   IF Believed(mem[r], c, ok) THEN Applicable(c) \cap {"announcement"} ELSE {},
                ![r].obs = [i \in Item |->
                  IF i \in ItemsOf(c) /\ ResourceOf[i] \in ok THEN Listed(i, lst)
                  ELSE IF i \in PostsOf(mem[r], c) THEN mem[r].posts[i] ELSE Absent]]
  /\ pc' = [pc EXCEPT ![r] = "fetched"]
  /\ UNCHANGED <<canvasVars, dbVars>>

(* What is stored is read after the fetch, and outside the transaction. *)
ReadStored(r) ==
  /\ pc[r] = "fetched"
  /\ pc' = [pc EXCEPT ![r] = "read"]
  /\ mem' = [mem EXCEPT ![r].stored =
       [i \in Item |-> IF ContextOf[i] \in mem[r].at THEN items[i] ELSE NotStored]]
  /\ UNCHANGED <<canvasVars, dbVars>>

(* What the run holds once a context is over. *)
Left(m) == [EmptyMemory EXCEPT !.marks = m.marks, !.covSeen = m.covSeen,
                               !.heard = m.heard, !.posts = m.posts,
                               !.todo = m.todo, !.scope = m.scope]

(* The run budget is used up before the context starts, or the context     *)
(* throws: it is counted as failed, and nothing of it is recorded.         *)
SkipContext(r, c) ==
  /\ \/ pc[r] = "contexts" /\ c \in mem[r].todo
     \/ pc[r] \in {"fetched", "read"} /\ mem[r].at = {c}
  /\ pc' = [pc EXCEPT ![r] = "contexts"]
  /\ mem' = [mem EXCEPT ![r] =
       [Left(mem[r]) EXCEPT !.todo = @ \ {c}, !.heard = @ \ {c},
                       !.posts = [i \in Item |-> IF ContextOf[i] = c THEN Absent ELSE @[i]]]]
  /\ UNCHANGED <<canvasVars, dbVars>>

-----------------------------------------------------------------------------
(* classify *)

(* D-47: a fact is compared only if both sides know it. *)
Differ(a, b) == a # Unknown /\ b # Unknown /\ a # b

(* describeChange finds something to say of a revised item.  A file or a   *)
(* grade was not visible before, or one of its facts differs; the other    *)
(* types change their hash with their content only.                        *)
Change(i, before, after) ==
  \/ ResourceOf[i] \notin {"file", "grade"}
  \/ ~before.shown
  \/ Differ(before.name, after.name) \/ Differ(before.content, after.content)

(* Files that become readable through /files were there all along (D-47).  *)
Upgraded(m, c) == m.listing = "full" /\ m.covSeen[c] \in {"modules_only", "none"}

(* The first good fetch of a resource, or the first of files by /files. *)
Baseline(m, c, type) ==
  \/ <<c, type>> \notin m.marks
  \/ type = "file" /\ Upgraded(m, c)

(* What classify does not call unchanged. *)
Decided(m) ==
  {i \in Item : /\ m.obs[i] # Absent
                /\ m.stored[i].version # Absent =>
                     HashOf(i, m.stored[i].version) # HashOf(i, m.obs[i])}

IsNews(m, c, i) ==
  /\ ~Baseline(m, c, ResourceOf[i])
  /\ m.obs[i].shown
  /\ m.stored[i].version # Absent => Change(i, m.stored[i].version, m.obs[i])

ToNotify(m, c) == {i \in Decided(m) : IsNews(m, c, i)}

NewsRefs(m, c) == {RefOf(i, m.obs[i]) : i \in ToNotify(m, c)}

(* The resources this commit baselines. *)
NewlyBased(m, c) == {<<c, type>> : type \in {t \in m.fetched : Baseline(m, c, t)}}

-----------------------------------------------------------------------------
(* Recording *)

(* The row upsertItem leaves, and enqueueContent's stamp on it.  An item   *)
(* is 'new' or 'revised' only inside the transaction, so its state is not  *)
(* modelled.                                                               *)
RowAfter(m, c, i) ==
  [version  |-> m.obs[i],
   notified |-> \/ i \in ToNotify(m, c)
                \/ items[i].notified
                \/ items[i].version = Absent /\ Baseline(m, c, ResourceOf[i])]

(* Mutant: the key queue.ts:33 warns against, by item and not by version. *)
TakenById(key) ==
  \E k \in DOMAIN notes : k.scope = key.scope
                        /\ {p.item : p \in k.refs} = {p.item : p \in key.refs}

(* ON CONFLICT(batch_key) DO NOTHING *)
Taken(key) == key \in DOMAIN notes

Put(key) == notes' = IF Taken(key) THEN notes
                     ELSE [k \in DOMAIN notes \cup {key} |->
                             IF k = key THEN "queued" ELSE notes[k]]

(* Mutant: a listing that failed says the files cannot be read. *)
CoverageOnError(m, c) == m.listing

(* contexts.coverage_status changes on a definitive answer only. *)
CoverageAfter(m, c) == IF m.listing = "error" THEN coverage[c] ELSE m.listing

(* One transaction: items, watermarks, coverage, the notification. *)
Commit(r, c) ==
  LET m == mem[r] IN
  /\ pc[r] = "read"
  /\ m.at = {c}
  /\ items' = [i \in Item |-> IF i \in Decided(m) THEN RowAfter(m, c, i) ELSE items[i]]
  /\ baselined' = baselined \cup NewlyBased(m, c)
  /\ coverage' = [coverage EXCEPT ![c] = CoverageAfter(m, c)]
  /\ IF ToNotify(m, c) = {} THEN UNCHANGED notes
     ELSE Put([refs |-> NewsRefs(m, c), scope |-> {}])
  /\ news' = news \cup NewsRefs(m, c)
  /\ mem' = [mem EXCEPT ![r] = [Left(m) EXCEPT !.scope = @ \cup NewlyBased(m, c)]]
  /\ pc' = [pc EXCEPT ![r] = "contexts"]
  /\ UNCHANGED canvasVars

(* The "now watching" summary, after the last context and on its own. *)
EnqueueWatching(r) ==
  /\ pc[r] = "contexts"
  /\ mem[r].todo = {}
  /\ IF mem[r].scope = {} THEN UNCHANGED notes
     ELSE Put([refs |-> {}, scope |-> mem[r].scope])
  /\ mem' = [mem EXCEPT ![r] = EmptyMemory]
  /\ pc' = [pc EXCEPT ![r] = "flush"]
  /\ UNCHANGED <<canvasVars, items, baselined, coverage, news>>

(* The flush, and the end of the run: some of what is queued is sent, some *)
(* given up, and the rest (held, failed, past the deadline) stays.         *)
Flush(r) ==
  /\ pc[r] = "flush"
  /\ \E after \in [{k \in DOMAIN notes : notes[k] = "queued"} -> NoteState] :
       notes' = [k \in DOMAIN notes |-> IF k \in DOMAIN after THEN after[k] ELSE notes[k]]
  /\ pc' = [pc EXCEPT ![r] = "idle"]
  /\ UNCHANGED <<canvasVars, items, baselined, coverage, news, mem>>

-----------------------------------------------------------------------------

Init ==
  /\ \E s \in Starts : canvas = s.canvas /\ linked = s.linked /\ title = s.title
  /\ open \in SUBSET Context
  /\ edits = 0
  /\ changed = {}
  /\ items = [i \in Item |-> NotStored]
  /\ baselined = {}
  /\ coverage = [c \in Context |-> "unknown"]
  /\ notes = <<>>
  /\ news = {}
  /\ pc = [r \in Run |-> "idle"]
  /\ mem = [r \in Run |-> EmptyMemory]

Next ==
  \/ \E i \in Item : Edit(i) \/ Relink(i)
  \/ \E c \in Context : Admit(c)
  \/ \E r \in Run :
       \/ Begin(r) \/ BeginBlind(r) \/ Die(r)
       \/ \E c \in Context : Fetch(r, c) \/ SkipContext(r, c) \/ Commit(r, c)
       \/ ReadStored(r)
       \/ EnqueueWatching(r) \/ Flush(r)

Spec == Init /\ [][Next]_vars

-----------------------------------------------------------------------------
(* Properties *)

Memory ==
  [marks : SUBSET (Context \X Resource), covSeen : [Context -> Coverage],
   heard : SUBSET Context, posts : [Item -> Version \cup {Absent}],
   todo : SUBSET Context, scope : SUBSET (Context \X Resource), at : SUBSET Context,
   listing : {"full", "modules_only", "none", "error"}, fetched : SUBSET Resource,
   obs : [Item -> Version \cup {Absent}], stored : [Item -> StoredItem]]

(* The types of Canvas, of the database and of what a run holds. *)
TypeOK ==
  /\ canvas \in [Item -> Version \cup {Absent}]
  /\ linked \in [Item -> Linked] /\ title \in [Item -> Name]
  /\ open \subseteq Context
  /\ changed \subseteq Item /\ edits \in 0..MaxEdits
  /\ items \in [Item -> StoredItem]
  /\ baselined \subseteq Context \X Resource
  /\ coverage \in [Context -> Coverage]
  /\ DOMAIN notes \subseteq Key /\ \A k \in DOMAIN notes : notes[k] \in NoteState
  /\ pc \in [Run -> {"idle", "contexts", "fetched", "read", "flush"}]
  /\ mem \in [Run -> Memory]
  /\ news \subseteq Ref

(* syncContext's transaction and enqueueContent: whatever was ever decided *)
(* to be news is in a row of the table, whoever died or failed since; no   *)
(* version is lost to the key of another.                                  *)
NewsAlwaysQueued ==
  \A p \in news : \E k \in DOMAIN notes : p \in k.refs

(* The files of which a module shows otherwise than /files does something  *)
(* both tell: hidden there, or linked under another name than their own.   *)
ModulesDisagree(i) ==
  /\ linked[i] = "published" /\ canvas[i] # Absent
  /\ ~canvas[i].shown \/ title[i] # canvas[i].name

(* Baselines (D-38, D-41, D-47): what was there all along is never         *)
(* announced, whatever failed in the runs before, however the path to the  *)
(* files changed; the exception is what Modules and Files disagree on,     *)
(* where a change of path is not silent (SourceSwitchIsSilent).            *)
OnlyChangesAreNews ==
  \A p \in news : p.item \in changed \/ ModulesDisagree(p.item)

(* syncContext reads, decides and writes in separate steps; still no run   *)
(* puts an older version over a newer one, which the next run would then   *)
(* announce a second time.                                                 *)
StoredNeverRegresses ==
  [][\A i \in Item :
       items[i].version # Absent =>
         /\ items'[i].version # Absent
         /\ items'[i].version.rev >= items[i].version.rev]_vars

(* queue.ts:33-36: no second change of an item is dropped because the      *)
(* first had the same key: the message is new, or still to be sent.        *)
ChangeNeverDropped ==
  [][\A r \in Run, c \in Context :
       Commit(r, c) /\ ToNotify(mem[r], c) # {} =>
         notes'[[refs |-> NewsRefs(mem[r], c), scope |-> {}]] = "queued"]_vars

(* classify.ts, D-47: switching between /files and Modules is silent.      *)
SourceSwitchIsSilent == \A p \in news : p.item \in changed

=============================================================================
