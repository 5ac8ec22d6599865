---------------------------- MODULE ArchiveProofs ----------------------------
(***************************************************************************)
(* Proofs about the archive stage, its re-routing and its check.  The      *)
(* inductive invariant, ArchiveInv, has a part for each cast: what holds   *)
(* of all of them (Common), of one archiver beside a re-routing (SoloInv   *)
(* and, where the owner leaves alone what it may move, LeftAloneInv), and  *)
(* of a sync and a backfill that work on the same files at once (RivalInv, *)
(* which needs NothingNew: a backfill is of what no run looks at anew).    *)
(* Each part is proved of the steps one after the other.  The types follow *)
(* (StoreTypes), which need some of it.  The theorems are of ArchiveSpec.  *)
(***************************************************************************)
EXTENDS StorageProofs

(* Common to all.  An item's name and its id are its own, a process that   *)
(* takes no part is idle, and no one knows of a version Canvas has not.    *)
IsPath(p) == p = <<p[1], p[2], p[3]>>

Records ==
  /\ storeRules \subseteq File /\ DOMAIN storeRow = File
  /\ \A f \in File :
       DOMAIN storeRow[f] =
         {"state", "attempts", "path", "size", "reroutable", "item", "version"}
  /\ DOMAIN storePc = Store!Archiver /\ DOMAIN storeMem = Store!Archiver
  /\ \A p \in Store!Archiver :
       DOMAIN storeMem[p] = {"todo", "fetched", "file", "path", "n", "version", "item"}
  /\ DOMAIN storeMoves = {"left", "landed"}
  /\ \A i \in storeDrive \cup storeTaken : DOMAIN i = {"path", "id", "file", "version"}

Apart ==
  /\ storeMade \in Nat
  /\ \A i \in storeDrive \cup storeTaken : i.id \in Nat /\ i.id <= storeMade
  /\ \A i, j \in storeDrive : i.path = j.path \/ i.id = j.id => i = j

Busy(p) == storePc[p] \in {"count", "download", "upload", "record"}

Players ==
  /\ \A p \in Store!Archiver : storePc[p] # "idle" => p \in storeCast
  /\ \A p \in Store!Archiver : storePc[p] \in {"idle", "end"} => storeMem[p].todo = {}
  /\ Store!Reroute \notin storeCast => storeMoves = Store!NoMoves

Versions ==
  /\ DOMAIN storeCanvas = File
  /\ \A f \in File :
       DOMAIN storeCanvas[f] = {"open", "version"} /\ storeCanvas[f].version \in Nat
  /\ \A p \in Store!Archiver, f \in File :
       Store!Working(p, "upload", f) =>
         storeMem[p].version \in Nat /\ storeMem[p].version <= storeCanvas[f].version

Common == Records /\ Apart /\ Players /\ Versions

(* One archiver, beside a re-routing or not: its rows and its jobs agree.  *)
(* What is still to be done was not done before and is where its row says; *)
(* what was uploaded or adopted is there until it is recorded; and what a  *)
(* re-route is to move is complete, and was reserved before it was sorted. *)
Solo == ~(Store!Archiver \subseteq storeCast)
Alone == \A p, q \in Store!Archiver : storePc[p] # "idle" /\ storePc[q] # "idle" => p = q

RowsSorted ==
  \A f \in File :
    storeRow[f].state # "none" =>
      /\ IsPath(storeRow[f].path)
      /\ storeRow[f].path[1] = Store!Unsorted => storeRow[f].reroutable

JobsFresh ==
  \A p \in Store!Archiver :
    /\ \A c \in storeMem[p].todo :
         /\ c.file \in File /\ storeRow[c.file].state # "complete" /\ IsPath(c.path)
         /\ storeRow[c.file].state # "none" => c.path = storeRow[c.file].path
         /\ Busy(p) => c.file \notin storeMem[p].file
    /\ \A c, d \in storeMem[p].todo : c.file = d.file => c = d
    /\ \A f \in File :
         Busy(p) /\ storeMem[p].file = {f} =>
           /\ storeRow[f].state \notin {"none", "complete"}
           /\ storeMem[p].path = storeRow[f].path

ToRecord ==
  \A p \in Store!Archiver, f \in File :
    Store!Working(p, "record", f) =>
      \/ storeMem[p].item \in Store!Takeable
      \/ \E i \in storeDrive :
           /\ i.id = storeMem[p].item /\ i.file = f /\ i.version = storeMem[p].version
           /\ \/ i.path = storeMem[p].path
              \/ /\ storeMem[p].path[1] = Store!Unsorted
                 /\ i.path = [storeMem[p].path EXCEPT ![1] = "ruled"]

MovesPlanned ==
  /\ \A m \in storeMoves.left \cup storeMoves.landed :
       /\ m.file \in File /\ storeRow[m.file].state = "complete"
       /\ storeRow[m.file].reroutable
       /\ storeRow[m.file].path = m.from /\ storeRow[m.file].item = m.item
       /\ m.from[1] = Store!Unsorted /\ m.to = [m.from EXCEPT ![1] = "ruled"]
       /\ IsPath(m.from)
  /\ \A m, n \in storeMoves.left \cup storeMoves.landed : m.file = n.file => m = n
  /\ storeMoves.left \cap storeMoves.landed = {}
  /\ \A m \in storeMoves.landed :
       m.item \in Store!Takeable \/ \E i \in storeDrive : i.id = m.item /\ i.path = m.to

AllThere == \A f \in File : storeRow[f].state = "complete" => Store!IsThere(f)

SoloInv == RowsSorted /\ JobsFresh /\ ToRecord /\ MovesPlanned /\ AllThere

(* ... and where the owner takes nothing of what a re-route may move: of a *)
(* file's copies the newest is where the next attempt looks.               *)
LeftAlone == Solo /\ (Store!Reroute \in storeCast => storeTaken = {})
Mine(i, f) == i.file = f /\ i.id \notin Store!Takeable

Newest ==
  /\ \A i \in storeDrive :
       i.id \notin Store!Takeable =>
         /\ i.file \in File /\ storeRow[i.file].state # "none"
         /\ i.version \in Nat /\ i.version <= storeCanvas[i.file].version
  /\ \A f \in File, i \in storeDrive :
       Mine(i, f) /\ storeRow[f].state # "complete" =>
         i.path = storeRow[f].path \/ i.version < storeCanvas[f].version
  /\ \A p \in Store!Archiver, f \in File, i \in storeDrive :
       Store!Working(p, "upload", f) /\ Mine(i, f) =>
         /\ i.version <= storeMem[p].version
         /\ i.path = storeMem[p].path \/ i.version < storeMem[p].version

OneEach ==
  \A i, j \in storeDrive :
    /\ i.file = j.file /\ i.version = j.version
    /\ i.id \notin Store!Takeable /\ j.id \notin Store!Takeable
    => i = j

LeftAloneInv == Newest /\ OneEach

(* Two archivers, at most two files of a name, and nothing taken away: a   *)
(* file has one of two names, and the second only where the other file has *)
(* the first.                                                              *)
NothingNew ==
  /\ storeRules = {} /\ storeMoves = Store!NoMoves
  /\ \A f \in File : storeCanvas[f].version = 1

Plain(f) == Store!Path(DefaultOf[f], BaseOf[f], <<>>)
Tagged(f) == Store!Path(DefaultOf[f], BaseOf[f], <<1>>)
OnName(items, f, path) ==
  path = Plain(f) \/ (path = Tagged(f) /\ \E i \in items : i.path = Plain(f) /\ i.file # f)

ItemsOnName ==
  \A i \in storeDrive : /\ i.file \in File /\ i.version = 1
                       /\ OnName(storeDrive, i.file, i.path)

RowsOnName ==
  \A f \in File :
    /\ storeRow[f].state # "none" => OnName(storeDrive, f, storeRow[f].path)
    /\ storeRow[f].state = "complete" =>
         \E i \in storeDrive : /\ i.id = storeRow[f].item /\ i.file = f
                               /\ i.version = storeRow[f].version
                               /\ i.path = storeRow[f].path

JobsOnName ==
  \A p \in Store!Archiver :
    /\ storePc[p] = "next" => storeMem[p].n = 0
    /\ \A c \in storeMem[p].todo : c.file \in File /\ OnName(storeDrive, c.file, c.path)
    /\ \A f \in File :
         Busy(p) /\ storeMem[p].file = {f} =>
           /\ OnName(storeDrive, f, storeMem[p].path) /\ storeRow[f].state # "none"
           /\ storeMem[p].path = Plain(f) => storeMem[p].n = 0
           /\ storePc[p] \in {"upload", "record"} => storeMem[p].version = 1
           /\ storePc[p] = "record" =>
                \E i \in storeDrive :
                  i.id = storeMem[p].item /\ i.file = f /\ i.path = storeMem[p].path

Rivals == Store!Archiver \subseteq storeCast /\ storeTaken = {} /\ Store!InPairs
RivalInv == ItemsOnName /\ RowsOnName /\ JobsOnName

ArchiveInv ==
  /\ Common
  /\ Solo => SoloInv
  /\ LeftAlone => LeftAloneInv
  /\ Store!Backfill \in storeCast => NothingNew
  /\ Rivals => RivalInv

-----------------------------------------------------------------------------
(* How the work of a file goes on.  It is over, the row in a state that is *)
(* not "complete"; or the bytes are in hand; or the next name is tried.    *)
Over(p, f) ==
  /\ \E state \in {"failed", "skipped_size"} :
       storeRow' = [storeRow EXCEPT ![f].state = state]
  /\ \/ Store!Set(p, "end", Store!NoJob)
     \/ Store!Set(p, "next", [Store!NoJob EXCEPT !.todo = storeMem[p].todo,
                                                 !.fetched = storeMem[p].fetched])

Downloaded(p, f) ==
  /\ UNCHANGED storeRow
  /\ Store!Set(p, "upload", [storeMem[p] EXCEPT !.version = storeCanvas[f].version,
                                                !.fetched = @ + 1])

Found(p, f, i) ==
  UNCHANGED storeRow /\ Store!Set(p, "record", [storeMem[p] EXCEPT !.item = i.id])

Renamed(p, f) ==
  /\ storeRow' = [storeRow EXCEPT ![f].path = Store!Alternate(p)]
  /\ Store!Set(p, "upload", [storeMem[p] EXCEPT !.path = Store!Alternate(p), !.n = @ + 1])

dataVars ==
  <<storeCanvas, storeDrive, storeTaken, storeMade, storeRules, storeCast, storeBatch, storeMoves>>

LEMMA DownloadIs ==
  ASSUME NEW p, NEW f, Store!Download(p, f)
  PROVE  /\ Store!Working(p, "download", f) /\ UNCHANGED dataVars
         /\ Over(p, f) \/ Downloaded(p, f)
BY DEF Store!Download, Store!Failing, Over, Downloaded, Store!worldVars, dataVars

LEMMA ConflictIs ==
  ASSUME NEW p, NEW f, Store!Conflict(p, f)
  PROVE  /\ Store!Working(p, "upload", f) /\ UNCHANGED dataVars
         /\ \E i \in Store!At(storeMem[p].path) :
              \/ Store!IsThisFile(i, p, f) /\ Found(p, f, i)
              \/ ~Store!IsThisFile(i, p, f) /\ storeMem[p].n = MaxAlternates /\ Over(p, f)
              \/ ~Store!IsThisFile(i, p, f) /\ storeMem[p].n # MaxAlternates /\ Renamed(p, f)
<1>1. Store!Working(p, "upload", f) /\ UNCHANGED dataVars
  BY DEF Store!Conflict, dataVars, Store!worldVars
<1>2. PICK i \in Store!At(storeMem[p].path) :
         IF Store!IsThisFile(i, p, f) THEN Store!Adopted(p, i) /\ UNCHANGED storeRow
         ELSE IF storeMem[p].n = MaxAlternates THEN Store!Failing(p, f, FALSE)
         ELSE Renamed(p, f)
  BY DEF Store!Conflict, Renamed
<1>3. Store!Failing(p, f, FALSE) => Over(p, f)
  BY DEF Store!Failing, Over
<1> QED BY <1>1, <1>2, <1>3 DEF Store!Adopted, Found

LEMMA UnheardIs ==
  ASSUME NEW p, NEW f, Store!UploadUnheard(p, f)
  PROVE  /\ Store!Working(p, "upload", f) /\ Over(p, f) /\ Store!At(storeMem[p].path) = {}
         /\ storeDrive' = storeDrive \cup {Store!New(p, f)} /\ storeMade' = storeMade + 1
         /\ UNCHANGED <<storeCanvas, storeTaken, storeRules, storeCast, storeBatch,
                        storeMoves>>
BY DEF Store!UploadUnheard, Store!Failing, Over

LEMMA WorkFailsIs ==
  ASSUME NEW p, NEW f, Store!WorkFails(p, f)
  PROVE  /\ Store!Working(p, "download", f) \/ Store!Working(p, "upload", f)
         /\ Over(p, f) /\ UNCHANGED dataVars
<1>1. ASSUME NEW stops \in BOOLEAN, Store!Failing(p, f, stops) PROVE Over(p, f)
  BY <1>1 DEF Store!Failing, Over
<1> QED BY <1>1 DEF Store!WorkFails, dataVars, Store!worldVars

LEMMA OverIs ==
  ASSUME Records, NEW p \in Store!Archiver, NEW f \in File, Over(p, f)
  PROVE  /\ storePc'[p] \in {"next", "end"}
         /\ storePc'[p] = "end" => storeMem'[p].todo = {}
         /\ storeMem'[p].todo \subseteq storeMem[p].todo /\ storeMem'[p].n = 0
         /\ storeMem'[p].version = 0 /\ storeMem'[p].item = 0
         /\ \A q \in Store!Archiver : q # p =>
              storeMem'[q] = storeMem[q] /\ storePc'[q] = storePc[q]
         /\ \A g \in File : g # f => storeRow'[g] = storeRow[g]
         /\ storeRow'[f].state \in {"failed", "skipped_size"}
         /\ storeRow'[f].path = storeRow[f].path
         /\ storeRow'[f].reroutable = storeRow[f].reroutable
<1> USE DEF Records, Store!Set
<1>1. PICK state \in {"failed", "skipped_size"} :
        storeRow' = [storeRow EXCEPT ![f].state = state]
  BY DEF Over
<1>2. \/ /\ storePc' = [storePc EXCEPT ![p] = "end"]
         /\ storeMem' = [storeMem EXCEPT ![p] = Store!NoJob]
      \/ /\ storePc' = [storePc EXCEPT ![p] = "next"]
         /\ storeMem' = [storeMem EXCEPT ![p] = [Store!NoJob EXCEPT !.todo = storeMem[p].todo,
                                                                    !.fetched = storeMem[p].fetched]]
  BY DEF Over
<1>3. /\ \A g \in File : g # f => storeRow'[g] = storeRow[g]
      /\ storeRow'[f].state \in {"failed", "skipped_size"}
      /\ storeRow'[f].path = storeRow[f].path
      /\ storeRow'[f].reroutable = storeRow[f].reroutable
  BY <1>1
<1>4. /\ Store!NoJob.todo = {} /\ Store!NoJob.n = 0
      /\ Store!NoJob.version = 0 /\ Store!NoJob.item = 0
  BY DEF Store!NoJob
<1>5. \A q \in Store!Archiver : q # p =>
        storeMem'[q] = storeMem[q] /\ storePc'[q] = storePc[q]
  BY <1>2
<1>6. CASE /\ storePc' = [storePc EXCEPT ![p] = "end"]
           /\ storeMem' = [storeMem EXCEPT ![p] = Store!NoJob]
  BY <1>3, <1>4, <1>5, <1>6
<1>7. CASE /\ storePc' = [storePc EXCEPT ![p] = "next"]
           /\ storeMem' = [storeMem EXCEPT ![p] = [Store!NoJob EXCEPT !.todo = storeMem[p].todo,
                                                                      !.fetched = storeMem[p].fetched]]
  <2>1. storeMem'[p] = [Store!NoJob EXCEPT !.todo = storeMem[p].todo, !.fetched = storeMem[p].fetched]
    BY <1>7
  <2>2. /\ storeMem'[p].n = 0 /\ storeMem'[p].todo = storeMem[p].todo
        /\ storeMem'[p].version = 0 /\ storeMem'[p].item = 0
    BY <2>1 DEF Store!NoJob
  <2> QED BY <1>3, <1>5, <1>7, <2>2
<1> QED BY <1>2, <1>6, <1>7

LEMMA OtherTags ==
  ASSUME NEW path, IsPath(path), NEW tags
  PROVE  [path EXCEPT ![3] = tags] = <<path[1], path[2], tags>>
<1>1. \A a, b, c : [<<a, b, c>> EXCEPT ![3] = tags] = <<a, b, tags>>
  OBVIOUS
<1> QED BY <1>1 DEF IsPath

LEMMA AlternateIs ==
  ASSUME NEW p, IsPath(storeMem[p].path)
  PROVE  /\ IsPath(Store!Alternate(p)) /\ Store!Alternate(p)[1] = storeMem[p].path[1]
         /\ storeMem[p].n = 0 =>
              Store!Alternate(p) =
                <<storeMem[p].path[1], storeMem[p].path[2], Append(storeMem[p].path[3], 1)>>
<1> DEFINE first == IF storeMem[p].n = 0 THEN storeMem[p].path
                    ELSE [storeMem[p].path EXCEPT ![3] = SubSeq(@, 1, Len(@) - 1)]
<1>1. CASE storeMem[p].n = 0
  <2>1. Store!Alternate(p) = [storeMem[p].path EXCEPT ![3] = Append(storeMem[p].path[3], 1)]
    BY <1>1 DEF Store!Alternate
  <2> QED BY <1>1, <2>1, OtherTags DEF IsPath
<1>2. CASE storeMem[p].n # 0
  <2>1. PICK tags : first = <<storeMem[p].path[1], storeMem[p].path[2], tags>>
    BY <1>2, OtherTags
  <2>2. PICK more : Store!Alternate(p) = [first EXCEPT ![3] = more]
    BY DEF Store!Alternate
  <2>3. IsPath(first) /\ first[1] = storeMem[p].path[1]
    BY <2>1 DEF IsPath
  <2> HIDE DEF first
  <2> QED BY <1>2, <2>2, <2>3, OtherTags DEF IsPath
<1> QED BY <1>1, <1>2

LEMMA ReservedIs ==
  ASSUME NEW c
  PROVE  /\ storeRow[c.file].state # "none" => Store!Reserved(c) = storeRow[c.file]
         /\ storeRow[c.file].state = "none" =>
                   /\ Store!Reserved(c).state \in {"skipped_size", "pending"}
                   /\ ~Store!TooLarge(c) => Store!Reserved(c).state = "pending"
                   /\ Store!Reserved(c).path = c.path
                   /\ (c.path[1] = Store!Unsorted => Store!Reserved(c).reroutable)
BY DEF Store!Reserved, Store!NoRow

(* Of the rows a candidate changes its own, and that from "none" only. *)
LEMMA TakeIs ==
  ASSUME NEW p, Store!Take(p)
  PROVE  /\ storePc[p] = "next"
         /\ UNCHANGED <<storeCanvas, storeDrive, storeTaken, storeMade, storeRules,
                        storeCast, storeBatch, storeMoves>>
         /\ \E c \in storeMem[p].todo :
              /\ storeRow' = [storeRow EXCEPT ![c.file] = Store!Reserved(c)]
              /\ \/ Store!Set(p, "next", [storeMem[p] EXCEPT !.todo = @ \ {c}])
                 \/ Store!Set(p, "end", Store!NoJob)
                 \/ /\ ~Store!TooLarge(c)
                    /\ Store!Set(p, "count", [storeMem[p] EXCEPT !.todo = @ \ {c}, !.file = {c.file},
                                                                 !.path = c.path])
BY DEF Store!Take, Store!worldVars


LEMMA TakeStops ==
  ASSUME Records, NEW p \in Store!Archiver, Store!Take(p)
  PROVE  /\ storePc'[p] \in {"next", "end", "count"}
         /\ \A q \in Store!Archiver : q # p =>
              storeMem'[q] = storeMem[q] /\ storePc'[q] = storePc[q]
<1>1. \E step \in {"next", "end", "count"} : \E task : Store!Set(p, step, task)
  BY TakeIs
<1> QED BY <1>1 DEF Records, Store!Set


-----------------------------------------------------------------------------
LEMMA NextRecords ==
  ASSUME Records, Store!Next
  PROVE  Records'
<1> USE DEF Store!Set, Store!NoJob
<1>1. CASE UNCHANGED <<storeDrive, storeTaken, storeRules, storeRow, storePc, storeMem,
                       storeMoves>>
  BY <1>1 DEF Records
<1>2. ASSUME NEW f \in File, Store!ChangeRules(f) PROVE Records'
  BY <1>2 DEF Records, Store!ChangeRules, Store!worldVars, Store!procVars
<1>3. ASSUME NEW i \in storeDrive, Store!TakeAway(i) PROVE Records'
  BY <1>3 DEF Records, Store!TakeAway, Store!dbVars, Store!procVars
<1>4. ASSUME NEW i \in storeTaken \ storeDrive, Store!PutBack(i) PROVE Records'
  BY <1>4 DEF Records, Store!PutBack, Store!dbVars, Store!procVars
<1>5. ASSUME NEW p \in Store!Archiver,
             Store!Start(p) \/ Store!Pass(p) \/ Store!Finish(p) \/ Store!TimeIsUp(p)
      PROVE  Records'
  BY <1>5 DEF Records, Store!Start, Store!Pass, Store!Finish, Store!TimeIsUp, Store!worldVars,
         Store!dbVars
<1>6. ASSUME NEW p \in Store!Archiver, Store!Take(p) PROVE Records'
  <2>1. PICK c \in storeMem[p].todo :
          /\ storeRow' = [storeRow EXCEPT ![c.file] = Store!Reserved(c)]
          /\ \/ Store!Set(p, "next", [storeMem[p] EXCEPT !.todo = @ \ {c}])
             \/ Store!Set(p, "end", Store!NoJob)
             \/ Store!Set(p, "count", [storeMem[p] EXCEPT !.todo = @ \ {c}, !.file = {c.file},
                                                          !.path = c.path])
    BY <1>6, TakeIs
  <2>2. \A f \in File : DOMAIN storeRow'[f] = DOMAIN Store!NoRow
    BY <2>1 DEF Records, Store!Reserved, Store!NoRow
  <2>3. UNCHANGED <<storeDrive, storeTaken, storeRules, storeMoves>>
    BY <1>6, TakeIs
  <2>4. /\ DOMAIN storePc' = Store!Archiver /\ DOMAIN storeMem' = Store!Archiver
        /\ DOMAIN storeMem'[p] = DOMAIN storeMem[p]
    BY <2>1 DEF Records
  <2>5. \A q \in Store!Archiver : q # p => storeMem'[q] = storeMem[q]
    BY <2>1 DEF Records
  <2> QED BY <2>1, <2>2, <2>3, <2>4, <2>5 DEF Records, Store!NoRow
<1>7. ASSUME NEW p \in Store!Archiver, NEW f \in File, Store!Count(p, f) \/ Store!Record(p, f)
      PROVE Records'
  BY <1>7 DEF Records, Store!Count, Store!Record, Store!worldVars
<1>8. ASSUME NEW p \in Store!Archiver, NEW f \in File, Store!Download(p, f) PROVE Records'
  <2>1. UNCHANGED <<storeDrive, storeTaken, storeRules, storeMoves>>
    BY <1>8, DownloadIs DEF dataVars
  <2>2. CASE Over(p, f)
    BY <2>1, <2>2 DEF Records, Over
  <2>3. CASE Downloaded(p, f)
    BY <2>1, <2>3 DEF Records, Downloaded
  <2> QED BY <1>8, <2>2, <2>3, DownloadIs
<1>9. ASSUME NEW p \in Store!Archiver, NEW f \in File,
             Store!Upload(p, f) \/ Store!UploadUnheard(p, f)
      PROVE  Records'
  BY <1>9 DEF Records, Store!Upload, Store!UploadUnheard, Store!Adopted, Store!Failing,
         Store!New, Store!dbVars
<1>10. ASSUME NEW p \in Store!Archiver, NEW f \in File, Store!Conflict(p, f) PROVE Records'
  <2>1. Store!Working(p, "upload", f) /\ UNCHANGED <<storeDrive, storeTaken, storeRules,
                                                     storeMoves>>
    BY <1>10, ConflictIs DEF dataVars
  <2>2. CASE Renamed(p, f)
    BY <2>1, <2>2 DEF Records, Renamed
  <2>3. CASE Over(p, f)
    BY <2>1, <2>3 DEF Records, Over
  <2>4. ASSUME NEW i, Found(p, f, i) PROVE Records'
    BY <2>1, <2>4 DEF Records, Found
  <2> QED BY <1>10, <2>2, <2>3, <2>4, ConflictIs
<1>11. ASSUME NEW p \in Store!Archiver, NEW f \in File, Store!WorkFails(p, f) PROVE Records'
  BY <1>11 DEF Records, Store!WorkFails, Store!Failing, Store!worldVars
<1>12. CASE Store!Apply
  BY <1>12 DEF Records, Store!Apply, Store!NoMoves, Store!worldVars, Store!dbVars
<1>13. ASSUME NEW m \in storeMoves.left \cup storeMoves.landed,
              Store!Recover(m) \/ Store!MoveFails(m)
       PROVE Records'
  BY <1>13 DEF Records, Store!Recover, Store!MoveFails, Store!Landed, Store!GaveUp,
         Store!worldVars, Store!dbVars
<1>14. ASSUME NEW m \in storeMoves.left \cup storeMoves.landed, Store!Move(m) PROVE Records'
  <2>1. /\ DOMAIN storeMoves' = {"left", "landed"}
        /\ UNCHANGED <<storeTaken, storeRules, storeRow, storePc, storeMem>>
    BY <1>14 DEF Records, Store!Move, Store!Landed, Store!GaveUp, Store!dbVars
  <2>2. PICK i \in storeDrive : Store!Moved(i, m)
    BY <1>14 DEF Store!Move, Store!At
  <2> QED BY <2>1, <2>2 DEF Records, Store!Moved
<1>15. ASSUME NEW m \in storeMoves.left \cup storeMoves.landed, Store!RecordMove(m)
       PROVE Records'
  BY <1>15 DEF Records, Store!RecordMove, Store!worldVars
<1>16. ASSUME NEW p \in storeCast, Store!Die(p) PROVE Records'
  BY <1>16 DEF Records, Store!Die, Store!NoMoves, Store!worldVars, Store!dbVars
<1> QED
  BY <1>1, <1>2, <1>3, <1>4, <1>5, <1>6, <1>7, <1>8, <1>9, <1>10, <1>11, <1>12, <1>13, <1>14,
     <1>15, <1>16
     DEF Store!Next, Store!World, Store!CanvasLocks, Store!CanvasReplaces, Store!Archive,
            Store!Checking, Store!CheckOne, Store!CheckEnds, Store!Rerouting, Store!worldVars,
            Store!dbVars, Store!procVars

LEMMA NextApart ==
  ASSUME Records, Apart, Store!Next
  PROVE  Apart'
<1>1. CASE UNCHANGED <<storeDrive, storeTaken, storeMade>>
  BY <1>1 DEF Apart
<1>2. ASSUME NEW i \in storeDrive, Store!TakeAway(i) PROVE Apart'
  BY <1>2 DEF Apart, Store!TakeAway
<1>3. ASSUME NEW i \in storeTaken \ storeDrive, Store!PutBack(i) PROVE Apart'
  BY <1>3 DEF Apart, Store!PutBack, Store!At
<1>4. ASSUME NEW p \in Store!Archiver, NEW f \in File,
             Store!Upload(p, f) \/ Store!UploadUnheard(p, f)
      PROVE Apart'
  <2>1. /\ Store!At(storeMem[p].path) = {} /\ storeMade' = storeMade + 1
        /\ UNCHANGED storeTaken
        /\ storeDrive' = storeDrive \cup {Store!New(p, f)}
    BY <1>4 DEF Store!Upload, Store!UploadUnheard
  <2>2. Store!New(p, f).id = storeMade + 1 /\ Store!New(p, f).path = storeMem[p].path
    BY DEF Store!New
  <2> QED BY <2>1, <2>2 DEF Apart, Store!At
<1>5. ASSUME NEW m \in storeMoves.left \cup storeMoves.landed, Store!Move(m) PROVE Apart'
  BY <1>5 DEF Records, Apart, Store!Move, Store!Moved, Store!At
<1> QED
  BY ZenonT(40), <1>1, <1>2, <1>3, <1>4, <1>5 DEF Store!Next, Store!World, Store!CanvasLocks,
         Store!CanvasReplaces, Store!ChangeRules, Store!Start, Store!Archive, Store!Pass,
         Store!Take, Store!Finish, Store!Count, Store!Download, Store!Conflict, Store!Record,
         Store!TimeIsUp, Store!WorkFails, Store!Checking, Store!CheckOne, Store!CheckEnds,
         Store!Apply, Store!Rerouting, Store!Recover, Store!MoveFails, Store!RecordMove,
         Store!Die, Store!worldVars

LEMMA NextPlayers ==
  ASSUME Records, Players, Store!Next
  PROVE  Players'
<1> USE DEF Players, Store!Set, Store!NoJob
<1>1. CASE UNCHANGED <<storeCast, storePc, storeMem, storeMoves>>
  BY <1>1
<1>2. ASSUME NEW p \in Store!Archiver,
             \/ Store!Start(p) \/ Store!Pass(p) \/ Store!Finish(p)
             \/ Store!TimeIsUp(p) \/ Store!Take(p)
      PROVE  Players'
  <2>1. CASE Store!Start(p)
    BY <2>1 DEF Records, Store!Start
  <2>2. CASE Store!Take(p)
    BY <2>2 DEF Records, Store!Take
  <2> QED BY <1>2, <2>1, <2>2 DEF Records, Store!Pass, Store!Finish, Store!TimeIsUp
<1>3. ASSUME NEW p \in Store!Archiver, NEW f \in File,
             Store!Count(p, f) \/ Store!Download(p, f) \/ Store!Record(p, f)
      PROVE  Players'
  <2>1. CASE Store!Download(p, f)
    <3>1. storePc[p] = "download" /\ UNCHANGED <<storeCast, storeMoves>>
      BY <2>1, DownloadIs DEF Store!Working, dataVars
    <3>2. CASE Downloaded(p, f)
      BY <3>1, <3>2 DEF Records, Downloaded
    <3> QED BY <2>1, <3>1, <3>2, DownloadIs, OverIs
  <2> QED BY <1>3, <2>1 DEF Records, Store!Count, Store!Record, Store!Working
<1>4. ASSUME NEW p \in Store!Archiver, NEW f \in File, Store!Conflict(p, f) PROVE Players'
  <2>1. storePc[p] = "upload" /\ UNCHANGED <<storeCast, storeMoves>>
    BY <1>4, ConflictIs DEF Store!Working, dataVars
  <2>2. CASE Renamed(p, f)
    BY <2>1, <2>2 DEF Records, Renamed
  <2>3. CASE Over(p, f)
    BY <2>1, <2>3 DEF Records, Over
  <2>4. ASSUME NEW i, Found(p, f, i) PROVE Players'
    BY <2>1, <2>4 DEF Records, Found
  <2> QED BY <1>4, <2>2, <2>3, <2>4, ConflictIs
<1>5. ASSUME NEW p \in Store!Archiver, NEW f \in File,
             Store!Upload(p, f) \/ Store!UploadUnheard(p, f) \/ Store!WorkFails(p, f)
      PROVE  Players'
  BY <1>5 DEF Records, Store!Upload, Store!Adopted, Store!UploadUnheard, Store!WorkFails,
         Store!Failing, Store!Working
<1>6. CASE Store!Apply
  BY <1>6 DEF Store!Apply
<1>7. ASSUME NEW m \in storeMoves.left \cup storeMoves.landed,
             Store!Recover(m) \/ Store!Move(m) \/ Store!MoveFails(m) \/ Store!RecordMove(m)
      PROVE  Players'
  BY <1>7 DEF Store!NoMoves, Store!Recover, Store!Move, Store!MoveFails, Store!RecordMove
<1>8. ASSUME NEW p \in storeCast, Store!Die(p) PROVE Players'
  BY <1>8 DEF Records, Store!Die
<1> QED
  BY <1>1, <1>2, <1>3, <1>4, <1>5, <1>6, <1>7, <1>8 DEF Store!Next, Store!World,
         Store!CanvasLocks, Store!CanvasReplaces, Store!ChangeRules, Store!TakeAway,
         Store!PutBack, Store!Archive, Store!Checking, Store!CheckOne, Store!CheckEnds,
         Store!Rerouting, Store!procVars

LEMMA NextVersions ==
  ASSUME Store!ArchiveAssumption, Records, Versions, Store!Next
  PROVE  Versions'
<1> USE DEF Versions, Store!Working, Store!Set, Store!NoJob
<1>1. CASE UNCHANGED <<storeCanvas, storePc, storeMem>>
  BY <1>1
<1>2. ASSUME NEW f \in File, Store!CanvasLocks(f) \/ Store!CanvasReplaces(f) PROVE Versions'
  BY <1>2 DEF Store!CanvasLocks, Store!CanvasReplaces, Store!ArchiveAssumption, Store!dbVars,
         Store!procVars
<1>3. ASSUME NEW p \in Store!Archiver,
             \/ Store!Start(p) \/ Store!Pass(p) \/ Store!Finish(p)
             \/ Store!TimeIsUp(p) \/ Store!Take(p)
      PROVE  Versions'
  BY ZenonT(40), <1>3 DEF Records, Store!Start, Store!Pass, Store!Finish, Store!TimeIsUp, Store!Take,
         Store!worldVars
<1>4. ASSUME NEW p \in Store!Archiver, NEW f \in File, Store!Count(p, f) \/ Store!Record(p, f)
      PROVE  Versions'
  BY <1>4 DEF Records, Store!Count, Store!Record, Store!worldVars
<1>5. ASSUME NEW p \in Store!Archiver, NEW f \in File, Store!Download(p, f) PROVE Versions'
  <2>1. Store!Working(p, "download", f) /\ UNCHANGED storeCanvas
    BY <1>5, DownloadIs DEF dataVars
  <2>2. CASE Over(p, f)
    BY <2>1, <2>2 DEF Records, Over
  <2>3. CASE Downloaded(p, f)
    BY <2>1, <2>3 DEF Records, Downloaded
  <2> QED BY <1>5, <2>2, <2>3, DownloadIs
<1>6. ASSUME NEW p \in Store!Archiver, NEW f \in File, Store!Conflict(p, f) PROVE Versions'
  <2>1. Store!Working(p, "upload", f) /\ UNCHANGED storeCanvas
    BY <1>6, ConflictIs DEF dataVars
  <2>2. CASE Renamed(p, f)
    BY <2>1, <2>2 DEF Records, Renamed
  <2>3. CASE Over(p, f)
    BY <2>1, <2>3 DEF Records, Over
  <2>4. ASSUME NEW i, Found(p, f, i) PROVE Versions'
    BY <2>1, <2>4 DEF Records, Found
  <2> QED BY <1>6, <2>2, <2>3, <2>4, ConflictIs
<1>7. ASSUME NEW p \in Store!Archiver, NEW f \in File,
             Store!Upload(p, f) \/ Store!UploadUnheard(p, f) \/ Store!WorkFails(p, f)
      PROVE  Versions'
  BY <1>7 DEF Records, Store!Upload, Store!Adopted, Store!UploadUnheard, Store!WorkFails,
         Store!Failing, Store!worldVars
<1>8. ASSUME NEW p \in storeCast, Store!Die(p) PROVE Versions'
  BY <1>8 DEF Records, Store!Die, Store!worldVars
<1> QED
  BY <1>1, <1>2, <1>3, <1>4, <1>5, <1>6, <1>7, <1>8 DEF Store!Next, Store!World,
         Store!ChangeRules, Store!TakeAway, Store!PutBack, Store!Archive, Store!Checking,
         Store!CheckOne, Store!CheckEnds, Store!Apply, Store!Rerouting, Store!Recover,
         Store!Move, Store!MoveFails, Store!RecordMove, Store!worldVars, Store!procVars

-----------------------------------------------------------------------------
LEMMA OneWorks ==
  ASSUME Players, Solo
  PROVE  Alone
BY DEF Players, Solo, Alone, Store!Archiver, Store!Sync, Store!Backfill

LEMMA NextRowsSorted ==
  ASSUME Records, RowsSorted, JobsFresh, MovesPlanned, Store!Next
  PROVE  RowsSorted'
<1>1. CASE UNCHANGED storeRow
  BY <1>1 DEF RowsSorted
<1>2. ASSUME NEW p \in Store!Archiver, Store!Take(p) PROVE RowsSorted'
  <2>1. PICK c \in storeMem[p].todo :
          storeRow' = [storeRow EXCEPT ![c.file] = Store!Reserved(c)]
    BY <1>2, TakeIs
  <2>2. IsPath(c.path) /\ c.file \in File
    BY DEF JobsFresh
  <2>3. /\ storeRow'[c.file] = Store!Reserved(c)
        /\ \A f \in File : f # c.file => storeRow'[f] = storeRow[f]
    BY <2>1, <2>2 DEF Records
  <2>4. CASE storeRow[c.file].state # "none"
    BY <2>3, <2>4, ReservedIs DEF RowsSorted
  <2>5. CASE storeRow[c.file].state = "none"
    BY <2>2, <2>3, <2>5, ReservedIs DEF RowsSorted
  <2> QED BY <2>4, <2>5
<1>3. ASSUME NEW p \in Store!Archiver, NEW f \in File, Store!Count(p, f) PROVE RowsSorted'
  BY <1>3 DEF Records, RowsSorted, JobsFresh, Store!Count, Store!Working, Busy
<1>4. ASSUME NEW p \in Store!Archiver, NEW f \in File, storeRow[f].state # "none", Over(p, f)
      PROVE  RowsSorted'
  BY <1>4, OverIs DEF RowsSorted
<1>5. ASSUME NEW p \in Store!Archiver, NEW f \in File,
             Store!Download(p, f) \/ Store!UploadUnheard(p, f) \/ Store!WorkFails(p, f)
      PROVE  RowsSorted'
  <2>1. storeRow[f].state # "none"
    BY <1>5 DEF JobsFresh, Store!Download, Store!UploadUnheard, Store!WorkFails,
           Store!Working, Busy
  <2> QED BY <1>1, <1>4, <1>5, <2>1, DownloadIs, UnheardIs, WorkFailsIs DEF Downloaded
<1>6. ASSUME NEW p \in Store!Archiver, NEW f \in File, Store!Conflict(p, f) PROVE RowsSorted'
  <2>1. storeRow[f].state # "none" /\ storeMem[p].path = storeRow[f].path
    BY <1>6, ConflictIs DEF JobsFresh, Store!Working, Busy
  <2>2. CASE Renamed(p, f)
    <3>1. IsPath(storeMem[p].path)
      BY <2>1 DEF RowsSorted
    <3> QED BY <2>1, <2>2, <3>1, AlternateIs DEF Records, RowsSorted, Renamed
  <2> QED BY <1>1, <1>4, <1>6, <2>1, <2>2, ConflictIs DEF Found
<1>7. ASSUME NEW p \in Store!Archiver, NEW f \in File, Store!Record(p, f) PROVE RowsSorted'
  BY <1>7 DEF Records, RowsSorted, JobsFresh, Store!Record, Store!Working, Busy
<1>8. ASSUME NEW m \in storeMoves.left \cup storeMoves.landed, Store!RecordMove(m)
      PROVE RowsSorted'
  BY <1>8 DEF Records, RowsSorted, MovesPlanned, Store!RecordMove, Store!Unsorted, IsPath
<1> QED
  BY <1>1, <1>2, <1>3, <1>5, <1>6, <1>7, <1>8 DEF Store!Next, Store!World, Store!CanvasLocks,
         Store!CanvasReplaces, Store!ChangeRules, Store!TakeAway, Store!PutBack, Store!Start,
         Store!Archive, Store!Pass, Store!Finish, Store!Upload, Store!TimeIsUp,
         Store!Checking, Store!CheckOne, Store!CheckEnds, Store!Apply, Store!Rerouting,
         Store!Recover, Store!Move, Store!MoveFails, Store!Die, Store!dbVars

LEMMA NextJobsFresh ==
  ASSUME Records, Players, Alone, RowsSorted, JobsFresh, MovesPlanned, Store!Next
  PROVE  JobsFresh'
<1> USE DEF Records, Players, Alone, RowsSorted, JobsFresh, Busy
<1>1. CASE UNCHANGED <<storeRow, storePc, storeMem>>
  BY <1>1
<1>2. ASSUME NEW p \in Store!Archiver, Store!Start(p) PROVE JobsFresh'
  <2>1. PICK s \in Store!Candidates :
          Store!Set(p, "next", [Store!NoJob EXCEPT
                                      !.todo = {Store!Loaded(f, storeFacts'[f]) : f \in s}])
    BY <1>2 DEF Store!Start
  <2>2. UNCHANGED storeRow /\ s \subseteq Store!Wanted
    BY <1>2 DEF Store!Start, Store!Candidates
  <2>3. storeMem' = [storeMem EXCEPT ![p] =
                       [Store!NoJob EXCEPT !.todo = {Store!Loaded(f, storeFacts'[f]) : f \in s}]]
        /\ storePc' = [storePc EXCEPT ![p] = "next"]
    BY <2>1 DEF Store!Set
  <2>4. ASSUME NEW c \in storeMem'[p].todo
        PROVE  /\ c.file \in s /\ storeRow[c.file].state # "complete" /\ IsPath(c.path)
               /\ storeRow[c.file].state # "none" => c.path = storeRow[c.file].path
    <3>1. PICK f \in s : c = Store!Loaded(f, storeFacts'[f])
      BY <2>3 DEF Store!NoJob
    <3> QED BY <2>2, <3>1 DEF Store!Loaded, Store!Wanted, Store!Path, IsPath
  <2>5. \A c, d \in storeMem'[p].todo : c.file = d.file => c = d
    BY <2>3 DEF Store!NoJob, Store!Loaded
  <2>6. \A q \in Store!Archiver : q # p =>
          storeMem'[q] = storeMem[q] /\ storePc'[q] = storePc[q]
    BY <2>3
  <2> QED BY <2>2, <2>3, <2>4, <2>5, <2>6 DEF Store!Wanted
<1>3. ASSUME NEW p \in Store!Archiver, Store!Pass(p) \/ Store!Finish(p) \/ Store!TimeIsUp(p)
      PROVE JobsFresh'
  BY <1>3 DEF Store!Pass, Store!Finish, Store!TimeIsUp, Store!Set, Store!NoJob, Store!dbVars
<1>4. ASSUME NEW p \in Store!Archiver, Store!Take(p) PROVE JobsFresh'
  <2>1. PICK c \in storeMem[p].todo :
          /\ storeRow' = [storeRow EXCEPT ![c.file] = Store!Reserved(c)]
          /\ \/ Store!Set(p, "next", [storeMem[p] EXCEPT !.todo = @ \ {c}])
             \/ Store!Set(p, "end", Store!NoJob)
             \/ /\ ~Store!TooLarge(c)
                /\ Store!Set(p, "count", [storeMem[p] EXCEPT !.todo = @ \ {c}, !.file = {c.file},
                                                             !.path = c.path])
    BY <1>4, TakeIs
  <2>2. storePc[p] = "next"
    BY <1>4, TakeIs
  <2>3. \A q \in Store!Archiver : q # p => storeMem[q].todo = {} /\ ~Busy(q)
    BY <2>2
  <2>4. \A f \in File : f # c.file => storeRow'[f] = storeRow[f]
    BY <2>1
  <2>5. c.file \in File /\ storeRow[c.file].state # "complete"
    OBVIOUS
  <2>6. storeRow'[c.file] = Store!Reserved(c)
    BY <2>1, <2>5
  <2>7. /\ \A q \in Store!Archiver : q # p =>
             storeMem'[q] = storeMem[q] /\ storePc'[q] = storePc[q]
        /\ \/ storePc'[p] = "next" /\ storeMem'[p] = [storeMem[p] EXCEPT !.todo = @ \ {c}]
           \/ storePc'[p] = "end" /\ storeMem'[p] = Store!NoJob
           \/ /\ ~Store!TooLarge(c) /\ storePc'[p] = "count"
              /\ storeMem'[p] = [storeMem[p] EXCEPT !.todo = @ \ {c}, !.file = {c.file}, !.path = c.path]
    BY <2>1 DEF Store!Set
  <2>8. storeMem'[p].todo \subseteq storeMem[p].todo \ {c}
    <3>1. Store!NoJob.todo = {} /\ DOMAIN storeMem[p] = DOMAIN Store!NoJob
      BY DEF Store!NoJob
    <3>2. storeMem'[p].todo = storeMem[p].todo \ {c} \/ storeMem'[p].todo = {}
      BY <2>7, <3>1
    <3> QED BY <3>2
  <2>9. \A d \in storeMem'[p].todo : d \in storeMem[p].todo /\ d.file # c.file
    BY <2>8
  <2>10. CASE storePc'[p] \in {"next", "end"}
    BY <2>3, <2>4, <2>7, <2>9, <2>10
  <2>11. CASE storePc'[p] = "count"
    <3>1. ~Store!TooLarge(c) /\ storeMem'[p].file = {c.file} /\ storeMem'[p].path = c.path
      BY <2>7, <2>11
    <3>2. /\ storeRow'[c.file].state \notin {"none", "complete"}
          /\ storeRow'[c.file].path = c.path
      BY <2>5, <2>6, <3>1, ReservedIs
    <3> QED BY <2>3, <2>4, <2>7, <2>9, <2>11, <3>1, <3>2
  <2> QED BY <2>7, <2>10, <2>11
<1>5. ASSUME NEW p \in Store!Archiver, NEW f \in File, Store!Count(p, f) PROVE JobsFresh'
  BY <1>5 DEF Store!Count, Store!Working, Store!Set
<1>6. ASSUME NEW p \in Store!Archiver, NEW f \in File, Busy(p), storeMem[p].file = {f},
             Over(p, f)
      PROVE  JobsFresh'
  <2>1. \A q \in Store!Archiver : q # p => storeMem[q].todo = {} /\ ~Busy(q)
    BY <1>6
  <2>2. \A c \in storeMem[p].todo : c.file # f
    BY <1>6
  <2> QED BY <1>6, <2>1, <2>2, OverIs
<1>7. ASSUME NEW p \in Store!Archiver, NEW f \in File, Store!Download(p, f) PROVE JobsFresh'
  <2>1. Busy(p) /\ storeMem[p].file = {f} /\ storePc[p] = "download"
    BY <1>7, DownloadIs DEF Store!Working
  <2>2. CASE Downloaded(p, f)
    BY <2>1, <2>2 DEF Downloaded, Store!Set
  <2> QED BY <1>6, <1>7, <2>1, <2>2, DownloadIs
<1>8. ASSUME NEW p \in Store!Archiver, NEW f \in File,
             Store!UploadUnheard(p, f) \/ Store!WorkFails(p, f)
      PROVE  JobsFresh'
  <2>1. Busy(p) /\ storeMem[p].file = {f} /\ Over(p, f)
    BY <1>8, UnheardIs, WorkFailsIs DEF Store!Working
  <2> QED BY <1>6, <2>1
<1>9. ASSUME NEW p \in Store!Archiver, NEW f \in File, Store!Upload(p, f) PROVE JobsFresh'
  BY <1>9 DEF Store!Upload, Store!Adopted, Store!Working, Store!Set, Store!New, Store!dbVars
<1>10. ASSUME NEW p \in Store!Archiver, NEW f \in File, Store!Conflict(p, f) PROVE JobsFresh'
  <2>1. Busy(p) /\ storeMem[p].file = {f} /\ storePc[p] = "upload"
    BY <1>10, ConflictIs DEF Store!Working
  <2>2. ASSUME NEW i, Found(p, f, i) PROVE JobsFresh'
    BY <2>1, <2>2 DEF Found, Store!Set
  <2>3. CASE Renamed(p, f)
    <3>1. \A q \in Store!Archiver : q # p => storeMem[q].todo = {} /\ ~Busy(q)
      BY <2>1
    <3>2. /\ \A c \in storeMem[p].todo : c.file # f
          /\ storeMem'[p].todo = storeMem[p].todo /\ storeMem'[p].file = storeMem[p].file
          /\ storePc'[p] = "upload"
          /\ storeMem'[p].path = Store!Alternate(p)
      BY <2>1, <2>3 DEF Renamed, Store!Set
    <3>3. /\ \A g \in File : g # f => storeRow'[g] = storeRow[g]
          /\ storeRow'[f].state = storeRow[f].state /\ storeRow'[f].path = Store!Alternate(p)
          /\ \A q \in Store!Archiver : q # p =>
               storeMem'[q] = storeMem[q] /\ storePc'[q] = storePc[q]
      BY <2>3 DEF Renamed, Store!Set
    <3> QED BY <2>1, <3>1, <3>2, <3>3
  <2> QED BY <1>6, <1>10, <2>1, <2>2, <2>3, ConflictIs
<1>11. ASSUME NEW p \in Store!Archiver, NEW f \in File, Store!Record(p, f) PROVE JobsFresh'
  <2>1. /\ Busy(p) /\ storeMem[p].file = {f}
        /\ \A q \in Store!Archiver : q # p => storeMem[q].todo = {} /\ ~Busy(q)
    BY <1>11 DEF Store!Record, Store!Working
  <2>2. \A c \in storeMem[p].todo : c.file # f
    BY <2>1
  <2>3. /\ storePc'[p] = "next" /\ storeMem'[p].todo = storeMem[p].todo
        /\ \A q \in Store!Archiver : q # p =>
             storeMem'[q] = storeMem[q] /\ storePc'[q] = storePc[q]
        /\ \A g \in File : g # f => storeRow'[g] = storeRow[g]
    BY <1>11 DEF Store!Record, Store!Set, Store!NoJob
  <2> QED BY <2>1, <2>2, <2>3
<1>12. ASSUME NEW m \in storeMoves.left \cup storeMoves.landed, Store!RecordMove(m)
       PROVE JobsFresh'
  <2>1. m.file \in File /\ storeRow[m.file].state = "complete" /\ UNCHANGED <<storePc,
                                                                              storeMem>>
    BY <1>12 DEF MovesPlanned, Store!RecordMove
  <2>2. /\ \A f \in File : f # m.file => storeRow'[f] = storeRow[f]
        /\ storeRow'[m.file].state = "complete"
    BY <1>12, <2>1 DEF Store!RecordMove
  <2> QED BY <2>1, <2>2
<1>13. ASSUME NEW p \in storeCast, Store!Die(p) PROVE JobsFresh'
  BY <1>13 DEF Store!Die, Store!Set, Store!NoJob, Store!dbVars
<1> QED
  BY <1>1, <1>2, <1>3, <1>4, <1>5, <1>7, <1>8, <1>9, <1>10, <1>11, <1>12, <1>13
     DEF Store!Next, Store!World, Store!CanvasLocks, Store!CanvasReplaces, Store!ChangeRules,
         Store!TakeAway, Store!PutBack, Store!Archive, Store!Checking, Store!CheckOne,
         Store!CheckEnds, Store!Apply, Store!Rerouting, Store!Recover, Store!Move,
         Store!MoveFails, Store!dbVars, Store!procVars

LEMMA RuledIs ==
  ASSUME NEW path, IsPath(path)
  PROVE  /\ [path EXCEPT ![1] = "ruled"] = <<"ruled", path[2], path[3]>>
         /\ IsPath([path EXCEPT ![1] = "ruled"])
<1>1. \A a, b, c : [<<a, b, c>> EXCEPT ![1] = "ruled"] = <<"ruled", b, c>>
  OBVIOUS
<1> QED BY <1>1 DEF IsPath

(* What a re-route moves was at a source, and is at the destination. *)
LEMMA MoveIs ==
  ASSUME Records, MovesPlanned, NEW m \in storeMoves.left \cup storeMoves.landed,
         Store!Move(m)
  PROVE  /\ m \in storeMoves.left /\ storeMoves.landed = {} /\ Store!At(m.to) = {}
         /\ UNCHANGED <<storeCanvas, storeTaken, storeMade, storeRules, storeRow, storeCast,
                        storePc, storeMem>>
         /\ \E i \in storeDrive :
              /\ i.path = m.from /\ i.path[1] = Store!Unsorted /\ m.to[1] = "ruled"
              /\ m.to = [i.path EXCEPT ![1] = "ruled"]
              /\ storeDrive' = (storeDrive \ {i}) \cup {[i EXCEPT !.path = m.to]}
              /\ \/ i.id = m.item /\ Store!Landed(m)
                 \/ Store!GaveUp(m)
              /\ LET j == [i EXCEPT !.path = m.to] IN
                 j.path = m.to /\ j.id = i.id /\ j.file = i.file /\ j.version = i.version
<1>1. /\ m \in storeMoves.left /\ storeMoves.landed = {} /\ Store!At(m.to) = {}
      /\ UNCHANGED <<storeCanvas, storeTaken, storeMade, storeRules, storeRow, storeCast,
                     storePc, storeMem>>
  BY DEF Store!Move, Store!dbVars
<1>2. PICK i \in Store!At(m.from) :
        /\ Store!Moved(i, m)
        /\ \/ i.id = m.item /\ Store!Landed(m)
           \/ Store!GaveUp(m)
  BY DEF Store!Move
<1>3. /\ i \in storeDrive /\ i.path = m.from /\ m.to = [i.path EXCEPT ![1] = "ruled"]
      /\ m.from[1] = Store!Unsorted /\ IsPath(m.from)
  BY <1>2 DEF Store!At, MovesPlanned
<1>4. DOMAIN i = {"path", "id", "file", "version"}
  BY <1>3 DEF Records
<1>5. LET j == [i EXCEPT !.path = m.to] IN
      j.path = m.to /\ j.id = i.id /\ j.file = i.file /\ j.version = i.version
  BY <1>4
<1>6. m.to[1] = "ruled"
  BY <1>3, RuledIs
<1> QED BY <1>1, <1>2, <1>3, <1>5, <1>6 DEF Store!Moved

LEMMA NextToRecord ==
  ASSUME Records, Apart, RowsSorted, JobsFresh, ToRecord, MovesPlanned, Store!Next
  PROVE  ToRecord'
<1> USE DEF Store!Working
<1>1. CASE /\ UNCHANGED <<storePc, storeMem>> /\ storeDrive \subseteq storeDrive'
           /\ UNCHANGED storeTaken
  BY <1>1 DEF ToRecord, Store!Takeable
<1>2. ASSUME NEW i \in storeDrive, Store!TakeAway(i) PROVE ToRecord'
  BY <1>2 DEF ToRecord, Store!Takeable, Store!TakeAway, Store!procVars
<1>3. ASSUME NEW p \in Store!Archiver, storePc'[p] # "record",
             storeDrive \subseteq storeDrive', UNCHANGED storeTaken,
             \A q \in Store!Archiver : q # p =>
               storeMem'[q] = storeMem[q] /\ storePc'[q] = storePc[q]
      PROVE  ToRecord'
  BY <1>3 DEF ToRecord, Store!Takeable
<1>4. ASSUME NEW p \in Store!Archiver,
             \/ Store!Start(p) \/ Store!Pass(p) \/ Store!Finish(p) \/ Store!TimeIsUp(p)
             \/ Store!Take(p)
             \/ \E f \in File :
                  \/ Store!Count(p, f) \/ Store!Download(p, f) \/ Store!Record(p, f)
                                \/ Store!UploadUnheard(p, f) \/ Store!WorkFails(p, f)
      PROVE  ToRecord'
  <2>1. storeDrive \subseteq storeDrive' /\ UNCHANGED storeTaken
    BY <1>4 DEF Store!Start, Store!Pass, Store!Finish, Store!TimeIsUp, Store!Take,
           Store!Count, Store!Download, Store!Record, Store!UploadUnheard, Store!WorkFails,
           Store!worldVars
  <2>2. CASE \/ Store!Start(p) \/ Store!Pass(p) \/ Store!Finish(p) \/ Store!TimeIsUp(p)
             \/ Store!Take(p)
             \/ \E f \in File : Store!Count(p, f) \/ Store!Record(p, f)
    <3>1. /\ storePc'[p] # "record"
          /\ \A q \in Store!Archiver : q # p =>
               storeMem'[q] = storeMem[q] /\ storePc'[q] = storePc[q]
      BY <2>2 DEF Records, Store!Start, Store!Pass, Store!Finish, Store!TimeIsUp, Store!Take,
             Store!Count, Store!Record, Store!Set
    <3> QED BY <1>3, <2>1, <3>1
  <2>3. ASSUME NEW f \in File, Over(p, f) \/ Downloaded(p, f) PROVE ToRecord'
    <3>1. CASE Downloaded(p, f)
      BY <1>3, <2>1, <3>1 DEF Records, Downloaded, Store!Set
    <3> QED BY <1>3, <2>1, <2>3, <3>1, OverIs
  <2> QED BY <1>4, <2>2, <2>3, DownloadIs, UnheardIs, WorkFailsIs
<1>5. ASSUME NEW p \in Store!Archiver, NEW f \in File, Store!Upload(p, f) PROVE ToRecord'
  <2>1. /\ storeDrive' = storeDrive \cup {Store!New(p, f)} /\ UNCHANGED storeTaken
        /\ storeMem[p].file = {f}
        /\ storeMem' = [storeMem EXCEPT ![p] = [storeMem[p] EXCEPT !.item = Store!New(p, f).id]]
        /\ storePc' = [storePc EXCEPT ![p] = "record"]
    BY <1>5 DEF Store!Upload, Store!Adopted, Store!Set
  <2>2. /\ storeMem'[p].item = Store!New(p, f).id /\ storeMem'[p].path = storeMem[p].path
        /\ storeMem'[p].version = storeMem[p].version /\ storeMem'[p].file = {f}
        /\ \A q \in Store!Archiver : q # p =>
             storeMem'[q] = storeMem[q] /\ storePc'[q] = storePc[q]
    BY <2>1 DEF Records
  <2>3. /\ Store!New(p, f) \in storeDrive' /\ Store!New(p, f).file = f
        /\ Store!New(p, f).version = storeMem[p].version
        /\ Store!New(p, f).path = storeMem[p].path
    BY <2>1 DEF Store!New
  <2> QED BY <2>1, <2>2, <2>3 DEF ToRecord, Store!Takeable
<1>6. ASSUME NEW p \in Store!Archiver, NEW f \in File, Store!Conflict(p, f) PROVE ToRecord'
  <2>1. storeMem[p].file = {f} /\ UNCHANGED <<storeDrive, storeTaken>>
    BY <1>6, ConflictIs DEF dataVars
  <2>2. ASSUME NEW i \in Store!At(storeMem[p].path), Store!IsThisFile(i, p, f), Found(p, f, i)
        PROVE ToRecord'
    <3>1. /\ storeMem'[p].item = i.id /\ storeMem'[p].path = storeMem[p].path
          /\ storeMem'[p].version = storeMem[p].version /\ storeMem'[p].file = {f}
          /\ \A q \in Store!Archiver : q # p =>
               storeMem'[q] = storeMem[q] /\ storePc'[q] = storePc[q]
      BY <2>1, <2>2 DEF Records, Found, Store!Set
    <3>2. /\ i \in storeDrive /\ i.file = f /\ i.version = storeMem[p].version
          /\ i.path = storeMem[p].path
      BY <2>2 DEF Store!At, Store!IsThisFile
    <3> QED BY <2>1, <3>1, <3>2 DEF ToRecord, Store!Takeable
  <2>3. CASE Renamed(p, f)
    BY <1>3, <2>1, <2>3 DEF Records, Renamed, Store!Set
  <2>4. CASE Over(p, f)
    BY <1>3, <2>1, <2>4, OverIs
  <2> QED BY <1>6, <2>2, <2>3, <2>4, ConflictIs
<1>7. ASSUME NEW m \in storeMoves.left \cup storeMoves.landed, Store!Move(m) PROVE ToRecord'
  <2>1. PICK i \in storeDrive :
          /\ i.path[1] = Store!Unsorted /\ m.to = [i.path EXCEPT ![1] = "ruled"]
          /\ storeDrive' = (storeDrive \ {i}) \cup {[i EXCEPT !.path = m.to]}
          /\ LET j == [i EXCEPT !.path = m.to] IN
             j.path = m.to /\ j.id = i.id /\ j.file = i.file /\ j.version = i.version
    BY <1>7, MoveIs
  <2>2. SUFFICES ASSUME NEW p \in Store!Archiver, NEW f \in File,
                        Store!Working(p, "record", f),
                        storeMem[p].item \notin Store!Takeable, NEW k \in storeDrive,
                        k.id = storeMem[p].item, k.file = f, k.version = storeMem[p].version,
                        \/ k.path = storeMem[p].path
                        \/ /\ storeMem[p].path[1] = Store!Unsorted
                           /\ k.path = [storeMem[p].path EXCEPT ![1] = "ruled"]
                 PROVE  \E j \in storeDrive' :
                          /\ j.id = storeMem[p].item /\ j.file = f
                          /\ j.version = storeMem[p].version
                          /\ \/ j.path = storeMem[p].path
                             \/ /\ storeMem[p].path[1] = Store!Unsorted
                                /\ j.path = [storeMem[p].path EXCEPT ![1] = "ruled"]
    BY <1>7, MoveIs DEF ToRecord, Store!Takeable
  <2>3. IsPath(storeMem[p].path)
    BY <2>2 DEF JobsFresh, RowsSorted, Busy
  <2>4. CASE k # i
    BY <2>1, <2>2, <2>4
  <2>5. CASE k = i
    <3>1. k.path = storeMem[p].path
      BY <2>1, <2>2, <2>3, <2>5, RuledIs DEF Store!Unsorted
    <3> QED BY <2>1, <2>2, <2>5, <3>1
  <2> QED BY <2>4, <2>5
<1>8. ASSUME NEW p \in storeCast, Store!Die(p) PROVE ToRecord'
  BY <1>1, <1>3, <1>8 DEF Store!Die, Store!Set, Records, Store!worldVars
<1> QED
  BY <1>1, <1>2, <1>4, <1>5, <1>6, <1>7, <1>8 DEF Store!Next, Store!World, Store!CanvasLocks,
         Store!CanvasReplaces, Store!ChangeRules, Store!PutBack, Store!Archive,
         Store!Checking, Store!CheckOne, Store!CheckEnds, Store!Apply, Store!Rerouting,
         Store!Recover, Store!MoveFails, Store!RecordMove, Store!worldVars, Store!procVars

LEMMA NextMovesPlanned ==
  ASSUME Records, Apart, RowsSorted, JobsFresh, MovesPlanned, Store!Next
  PROVE  MovesPlanned'
<1>1. ASSUME storeDrive \subseteq storeDrive', storeTaken \subseteq storeTaken',
             UNCHANGED storeMoves,
             \A f \in File : storeRow[f].state = "complete" => storeRow'[f] = storeRow[f]
      PROVE  MovesPlanned'
  BY <1>1 DEF MovesPlanned, Store!Takeable
<1>2. CASE UNCHANGED <<storeDrive, storeTaken, storeRow, storeMoves>>
  BY <1>1, <1>2
<1>3. ASSUME NEW i \in storeDrive, Store!TakeAway(i) PROVE MovesPlanned'
  BY <1>3 DEF MovesPlanned, Store!Takeable, Store!TakeAway, Store!dbVars, Store!procVars
<1>4. ASSUME NEW i \in storeTaken \ storeDrive, Store!PutBack(i) PROVE MovesPlanned'
  BY <1>1, <1>4 DEF Store!PutBack, Store!dbVars, Store!procVars
<1>5. ASSUME NEW p \in Store!Archiver, Store!Take(p) PROVE MovesPlanned'
  <2>1. PICK c \in storeMem[p].todo :
          storeRow' = [storeRow EXCEPT ![c.file] = Store!Reserved(c)]
    BY <1>5, TakeIs
  <2>2. c.file \in File /\ storeRow[c.file].state # "complete"
    BY DEF JobsFresh
  <2> QED BY <1>1, <1>5, <2>1, <2>2, TakeIs DEF Records
<1>6. ASSUME NEW p \in Store!Archiver, NEW f \in File,
             \/ Store!Count(p, f) \/ Store!Download(p, f) \/ Store!Upload(p, f)
             \/ Store!Conflict(p, f) \/ Store!Record(p, f)
             \/ Store!UploadUnheard(p, f) \/ Store!WorkFails(p, f)
      PROVE  MovesPlanned'
  <2>1. Busy(p) /\ storeMem[p].file = {f}
    BY <1>6 DEF Store!Count, Store!Download, Store!Upload, Store!Conflict, Store!Record,
           Store!UploadUnheard, Store!WorkFails, Store!Working, Busy
  <2>2. storeRow[f].state # "complete"
    BY <2>1 DEF JobsFresh
  <2>3. storeDrive \subseteq storeDrive' /\ UNCHANGED <<storeTaken, storeMoves>>
    BY <1>6 DEF Store!Count, Store!Download, Store!Upload, Store!Conflict, Store!Record,
           Store!UploadUnheard, Store!WorkFails, Store!worldVars
  <2>4. \A g \in File : g # f => storeRow'[g] = storeRow[g]
    <3>1. CASE Over(p, f)
      BY <3>1, OverIs
    <3>2. CASE UNCHANGED storeRow \/ Renamed(p, f) \/ Store!Count(p, f) \/ Store!Record(p, f)
      BY <3>2 DEF Records, Renamed, Store!Count, Store!Record
    <3> QED
      BY <1>6, <3>1, <3>2, DownloadIs, ConflictIs, UnheardIs, WorkFailsIs DEF Store!Upload,
             Downloaded, Found, Store!dbVars
  <2> QED BY <1>1, <2>2, <2>3, <2>4
<1>7. CASE Store!Apply
  <2>1. storeMoves'.left = Store!Planned /\ storeMoves'.landed = {} /\ UNCHANGED storeRow
    BY <1>7 DEF Store!Apply, Store!NoMoves, Store!dbVars
  <2>2. ASSUME NEW m \in Store!Planned
        PROVE  /\ m.file \in File /\ storeRow[m.file].state = "complete"
               /\ storeRow[m.file].reroutable
               /\ storeRow[m.file].path = m.from /\ storeRow[m.file].item = m.item
               /\ m.from[1] = Store!Unsorted /\ m.to = [m.from EXCEPT ![1] = "ruled"]
               /\ IsPath(m.from)
    BY DEF Store!Planned, RowsSorted, Records
  <2>3. \A m, n \in Store!Planned : m.file = n.file => m = n
    BY DEF Store!Planned
  <2> QED BY <2>1, <2>2, <2>3 DEF MovesPlanned
<1>8. ASSUME NEW m \in storeMoves.left \cup storeMoves.landed, Store!Recover(m)
      PROVE MovesPlanned'
  BY <1>8 DEF MovesPlanned, Store!Recover, Store!Landed, Store!At, Store!Takeable,
         Store!worldVars, Store!dbVars
<1>9. ASSUME NEW m \in storeMoves.left \cup storeMoves.landed, Store!MoveFails(m)
      PROVE MovesPlanned'
  BY <1>9 DEF Records, MovesPlanned, Store!MoveFails, Store!GaveUp, Store!Takeable,
         Store!worldVars, Store!dbVars
<1>10. ASSUME NEW m \in storeMoves.left \cup storeMoves.landed, Store!Move(m)
       PROVE MovesPlanned'
  <2>1. m \in storeMoves.left /\ storeMoves.landed = {} /\ UNCHANGED <<storeTaken, storeRow>>
    BY <1>10, MoveIs
  <2>2. PICK i \in storeDrive :
          /\ storeDrive' = (storeDrive \ {i}) \cup {[i EXCEPT !.path = m.to]}
          /\ \/ i.id = m.item /\ Store!Landed(m)
             \/ Store!GaveUp(m)
          /\ LET j == [i EXCEPT !.path = m.to] IN
             j.path = m.to /\ j.id = i.id /\ j.file = i.file /\ j.version = i.version
    BY <1>10, MoveIs
  <2>3. CASE Store!GaveUp(m)
    BY <2>1, <2>3 DEF Records, MovesPlanned, Store!GaveUp
  <2>4. CASE i.id = m.item /\ Store!Landed(m)
    <3>1. storeMoves'.left = storeMoves.left \ {m} /\ storeMoves'.landed = {m}
      BY <2>4 DEF Store!Landed
    <3>2. \E j \in storeDrive' : j.id = m.item /\ j.path = m.to
      BY <2>2, <2>4
    <3>3. m.item \in Store!Takeable' \/ \E j \in storeDrive' : j.id = m.item /\ j.path = m.to
      BY <3>2
    <3> QED BY <2>1, <3>1, <3>3 DEF MovesPlanned
  <2> QED BY <2>2, <2>3, <2>4
<1>11. ASSUME NEW m \in storeMoves.left \cup storeMoves.landed, Store!RecordMove(m)
       PROVE MovesPlanned'
  <2>1. /\ m \in storeMoves.landed /\ UNCHANGED <<storeDrive, storeTaken>>
        /\ storeMoves'.left = storeMoves.left /\ storeMoves'.landed = {}
        /\ \A f \in File : f # m.file => storeRow'[f] = storeRow[f]
    BY <1>11 DEF Records, Store!RecordMove, Store!worldVars
  <2>2. \A n \in storeMoves'.left : n.file # m.file
    BY <2>1 DEF MovesPlanned
  <2> QED BY <2>1, <2>2 DEF MovesPlanned
<1>12. ASSUME NEW p \in storeCast, Store!Die(p) PROVE MovesPlanned'
  BY <1>2, <1>12 DEF MovesPlanned, Store!Die, Store!NoMoves, Store!worldVars, Store!dbVars
<1> QED
  BY <1>2, <1>3, <1>4, <1>5, <1>6, <1>7, <1>8, <1>9, <1>10, <1>11, <1>12 DEF Store!Next,
         Store!World, Store!CanvasLocks, Store!CanvasReplaces, Store!ChangeRules, Store!Start,
         Store!Archive, Store!Pass, Store!Finish, Store!TimeIsUp, Store!Checking,
         Store!CheckOne, Store!CheckEnds, Store!Rerouting, Store!worldVars, Store!dbVars,
         Store!procVars

LEMMA NextAllThere ==
  ASSUME Records, Apart, RowsSorted, JobsFresh, ToRecord, MovesPlanned, AllThere, Store!Next
  PROVE  AllThere'
<1>1. ASSUME storeDrive \subseteq storeDrive', storeTaken \subseteq storeTaken',
             \A f \in File : storeRow'[f].state = "complete" => storeRow'[f] = storeRow[f]
      PROVE  AllThere'
  BY <1>1 DEF AllThere, Store!IsThere, Store!MovedUnrecorded, Store!Takeable
<1>2. CASE UNCHANGED <<storeDrive, storeTaken, storeRow>>
  BY <1>1, <1>2
<1>3. ASSUME NEW i \in storeDrive, Store!TakeAway(i) PROVE AllThere'
  BY <1>3 DEF AllThere, Store!IsThere, Store!MovedUnrecorded, Store!Takeable, Store!TakeAway,
         Store!dbVars
<1>4. ASSUME NEW i \in storeTaken \ storeDrive, Store!PutBack(i) PROVE AllThere'
  BY <1>1, <1>4 DEF Store!PutBack, Store!dbVars
<1>5. ASSUME NEW p \in Store!Archiver, Store!Take(p) PROVE AllThere'
  <2>1. PICK c \in storeMem[p].todo :
          storeRow' = [storeRow EXCEPT ![c.file] = Store!Reserved(c)]
    BY <1>5, TakeIs
  <2>2. c.file \in File /\ storeRow'[c.file].state # "complete"
    <3>1. c.file \in File /\ storeRow[c.file].state # "complete"
      BY DEF JobsFresh
    <3> QED BY <2>1, <3>1, ReservedIs DEF Records
  <2> QED BY <1>1, <1>5, <2>1, <2>2, TakeIs DEF Records
<1>6. ASSUME NEW p \in Store!Archiver, NEW f \in File,
             \/ Store!Count(p, f) \/ Store!Download(p, f) \/ Store!Upload(p, f)
             \/ Store!Conflict(p, f)
             \/ Store!UploadUnheard(p, f) \/ Store!WorkFails(p, f)
      PROVE  AllThere'
  <2>1. Busy(p) /\ storeMem[p].file = {f}
    BY <1>6 DEF Store!Count, Store!Download, Store!Upload, Store!Conflict,
           Store!UploadUnheard, Store!WorkFails, Store!Working, Busy
  <2>2. storeRow[f].state # "complete"
    BY <2>1 DEF JobsFresh
  <2>3. storeDrive \subseteq storeDrive' /\ UNCHANGED storeTaken
    BY <1>6 DEF Store!Count, Store!Download, Store!Upload, Store!Conflict,
           Store!UploadUnheard, Store!WorkFails, Store!worldVars
  <2>4. storeRow'[f].state # "complete" /\ \A g \in File : g # f => storeRow'[g] = storeRow[g]
    <3>1. CASE Over(p, f)
      BY <3>1, OverIs
    <3>2. CASE UNCHANGED storeRow \/ Renamed(p, f) \/ Store!Count(p, f)
      BY <2>2, <3>2 DEF Records, Renamed, Store!Count
    <3> QED
      BY <1>6, <3>1, <3>2, DownloadIs, ConflictIs, UnheardIs, WorkFailsIs DEF Store!Upload,
             Downloaded, Found, Store!dbVars
  <2> QED BY <1>1, <2>3, <2>4
<1>7. ASSUME NEW p \in Store!Archiver, NEW f \in File, Store!Record(p, f) PROVE AllThere'
  <2>1. /\ Store!Working(p, "record", f) /\ UNCHANGED <<storeDrive, storeTaken>>
        /\ storeRow' =
             [storeRow EXCEPT ![f] = [storeRow[f] EXCEPT !.state = "complete",
                                                         !.path = storeMem[p].path,
                                                         !.item = storeMem[p].item,
                                                         !.version = storeMem[p].version]]
    BY <1>7 DEF Store!Record, Store!worldVars
  <2>2. /\ storeRow'[f].path = storeMem[p].path /\ storeRow'[f].item = storeMem[p].item
        /\ storeRow'[f].version = storeMem[p].version
        /\ storeRow'[f].reroutable = storeRow[f].reroutable
        /\ \A g \in File : g # f => storeRow'[g] = storeRow[g]
    BY <2>1 DEF Records
  <2>3. storeMem[p].path[1] = Store!Unsorted => storeRow[f].reroutable
    BY <2>1 DEF JobsFresh, RowsSorted, Store!Working, Busy
  <2> QED
    BY <2>1, <2>2, <2>3 DEF AllThere, Store!IsThere, Store!MovedUnrecorded, ToRecord,
           Store!Takeable
<1>8. ASSUME NEW m \in storeMoves.left \cup storeMoves.landed, Store!Move(m) PROVE AllThere'
  <2>1. UNCHANGED <<storeTaken, storeRow>>
    BY <1>8, MoveIs
  <2>2. PICK i \in storeDrive :
          /\ i.path[1] = Store!Unsorted /\ m.to = [i.path EXCEPT ![1] = "ruled"]
          /\ storeDrive' = (storeDrive \ {i}) \cup {[i EXCEPT !.path = m.to]}
          /\ LET j == [i EXCEPT !.path = m.to] IN
             j.path = m.to /\ j.id = i.id /\ j.file = i.file /\ j.version = i.version
    BY <1>8, MoveIs
  <2>3. SUFFICES ASSUME NEW f \in File, storeRow[f].state = "complete", NEW k \in storeDrive,
                        k.id = storeRow[f].item, k.file = f, k.version = storeRow[f].version,
                        k.path = storeRow[f].path \/ Store!MovedUnrecorded(f, k)
                 PROVE  Store!IsThere(f)'
    BY <2>1 DEF AllThere, Store!IsThere, Store!Takeable
  <2>4. /\ IsPath(storeRow[f].path)
        /\ (storeRow[f].path[1] = Store!Unsorted => storeRow[f].reroutable)
    BY <2>3 DEF RowsSorted
  <2>5. CASE k # i
    BY <2>1, <2>2, <2>3, <2>5 DEF Store!IsThere, Store!MovedUnrecorded
  <2>6. CASE k = i
    <3>1. k.path = storeRow[f].path
      BY <2>2, <2>3, <2>4, <2>6, RuledIs DEF Store!MovedUnrecorded, Store!Unsorted
    <3>2. PICK j \in storeDrive' :
            j.path = m.to /\ j.id = k.id /\ j.file = k.file /\ j.version = k.version
      BY <2>2, <2>6
    <3>3. /\ storeRow[f].path[1] = Store!Unsorted /\ storeRow[f].reroutable
          /\ j.path = [storeRow[f].path EXCEPT ![1] = "ruled"]
      BY <2>2, <2>4, <2>6, <3>1, <3>2
    <3> QED BY <2>1, <2>3, <3>2, <3>3 DEF Store!IsThere, Store!MovedUnrecorded
  <2> QED BY <2>5, <2>6
<1>9. ASSUME NEW m \in storeMoves.left \cup storeMoves.landed, Store!RecordMove(m)
      PROVE AllThere'
  <2>1. /\ m \in storeMoves.landed /\ UNCHANGED <<storeDrive, storeTaken>>
        /\ m.file \in File /\ storeRow[m.file].state = "complete"
        /\ storeRow[m.file].reroutable
        /\ storeRow[m.file].item = m.item
        /\ m.item \in Store!Takeable \/ \E i \in storeDrive : i.id = m.item /\ i.path = m.to
    BY <1>9 DEF MovesPlanned, Store!RecordMove, Store!worldVars
  <2>2. storeRow' = [storeRow EXCEPT ![m.file].path = m.to, ![m.file].reroutable = FALSE]
    BY <1>9, <2>1 DEF Store!RecordMove
  <2>3. /\ \A g \in File : g # m.file => storeRow'[g] = storeRow[g]
        /\ storeRow'[m.file].path = m.to /\ storeRow'[m.file].item = m.item
        /\ storeRow'[m.file].version = storeRow[m.file].version
    BY <2>1, <2>2 DEF Records
  <2>4. Store!IsThere(m.file)'
    <3>1. CASE m.item \in Store!Takeable
      BY <2>1, <2>3, <3>1 DEF Store!IsThere, Store!Takeable
    <3>2. ASSUME m.item \notin Store!Takeable, NEW i \in storeDrive, i.id = m.item,
                 i.path = m.to
          PROVE  Store!IsThere(m.file)'
      <4>1. PICK k \in storeDrive :
              k.id = m.item /\ k.file = m.file /\ k.version = storeRow[m.file].version
        BY <2>1, <3>2 DEF AllThere, Store!IsThere
      <4>2. k = i
        BY <3>2, <4>1 DEF Apart
      <4> QED BY <2>1, <2>3, <3>2, <4>1, <4>2 DEF Store!IsThere
    <3> QED BY <2>1, <3>1, <3>2
  <2>5. ASSUME NEW g \in File, g # m.file, storeRow[g].state = "complete"
        PROVE Store!IsThere(g)'
    BY <2>1, <2>3, <2>5 DEF AllThere, Store!IsThere, Store!MovedUnrecorded, Store!Takeable
  <2> QED BY <2>3, <2>4, <2>5 DEF AllThere
<1> QED
  BY <1>2, <1>3, <1>4, <1>5, <1>6, <1>7, <1>8, <1>9 DEF Store!Next, Store!World,
         Store!CanvasLocks, Store!CanvasReplaces, Store!ChangeRules, Store!Start,
         Store!Archive, Store!Pass, Store!Finish, Store!TimeIsUp, Store!Checking,
         Store!CheckOne, Store!CheckEnds, Store!Apply, Store!Rerouting, Store!Recover,
         Store!MoveFails, Store!Die, Store!worldVars, Store!dbVars

-----------------------------------------------------------------------------
(* Whose file a re-route moves: the archived one, when none was taken. *)
LEMMA MovesItsOwn ==
  ASSUME Records, Apart, Players, Store!Reroute \in storeCast => storeTaken = {}, RowsSorted,
         MovesPlanned,
         AllThere, NEW m \in storeMoves.left \cup storeMoves.landed, Store!Move(m)
  PROVE  \A i \in storeDrive : i.path = m.from => i.file = m.file
<1>1. m \in storeMoves.left /\ Store!At(m.to) = {}
  BY MoveIs
<1>2. storeTaken = {}
  BY <1>1 DEF Players, Store!NoMoves
<1>3. /\ m.file \in File /\ storeRow[m.file].state = "complete"
      /\ storeRow[m.file].path = m.from
      /\ m.to = [m.from EXCEPT ![1] = "ruled"]
  BY DEF MovesPlanned
<1>4. PICK k \in storeDrive : k.file = m.file /\ (k.path = m.from \/ k.path = m.to)
  BY <1>2, <1>3 DEF AllThere, Store!IsThere, Store!Takeable, Store!MovedUnrecorded
<1>5. k.path = m.from
  BY <1>1, <1>4 DEF Store!At
<1> QED BY <1>4, <1>5 DEF Apart

(* An item added is the bytes in hand, at the name in hand. *)
LEMMA NewIs ==
  ASSUME Apart, NEW p, NEW f
  PROVE  /\ Store!New(p, f).id = storeMade + 1 /\ Store!New(p, f).file = f
         /\ Store!New(p, f).path = storeMem[p].path
         /\ Store!New(p, f).version = storeMem[p].version
         /\ \A i \in storeDrive : i.id # storeMade + 1
BY DEF Store!New, Apart

LEMMA NextNewest ==
  ASSUME Common, Alone, Store!Reroute \in storeCast => storeTaken = {}, SoloInv, Newest,
         Store!ArchiveAssumption, Store!Next
  PROVE  Newest'
<1> USE DEF Common, SoloInv
<1>1. ASSUME \A i \in storeDrive' : i \in storeDrive \/ i \in storeTaken,
             storeTaken \subseteq storeTaken',
             UNCHANGED <<storeCanvas, storeRow>>,
             \A p \in Store!Archiver :
               storePc'[p] = "upload" => storePc[p] = "upload" /\ storeMem'[p] = storeMem[p]
      PROVE  Newest'
  BY <1>1 DEF Newest, Mine, Store!Takeable, Store!Working
<1>2. CASE UNCHANGED <<storeCanvas, storeDrive, storeTaken, storeRow, storePc, storeMem>>
  BY <1>1, <1>2
<1>3. ASSUME NEW f \in File, Store!CanvasLocks(f) \/ Store!CanvasReplaces(f) PROVE Newest'
  <2>1. /\ UNCHANGED <<storeDrive, storeTaken, storeRow, storePc, storeMem>>
        /\ \A g \in File :
             storeCanvas'[g].version \in Nat /\ storeCanvas[g].version <= storeCanvas'[g].version
    BY <1>3 DEF Store!CanvasLocks, Store!CanvasReplaces, Versions, Store!ArchiveAssumption,
           Store!dbVars, Store!procVars
  <2> QED BY <2>1 DEF Newest, Mine, Store!Takeable, Store!Working, Versions
<1>4. ASSUME NEW i \in storeDrive, Store!TakeAway(i) PROVE Newest'
  BY <1>1, <1>4 DEF Store!TakeAway, Store!dbVars, Store!procVars
<1>5. ASSUME NEW i \in storeTaken \ storeDrive, Store!PutBack(i) PROVE Newest'
  BY <1>1, <1>5 DEF Store!PutBack, Store!dbVars, Store!procVars
<1>6. ASSUME NEW p \in Store!Archiver,
             Store!Start(p) \/ Store!Pass(p) \/ Store!Finish(p) \/ Store!TimeIsUp(p)
      PROVE Newest'
  BY <1>1, <1>6 DEF Records, Store!Start, Store!Pass, Store!Finish, Store!TimeIsUp, Store!Set,
         Store!worldVars, Store!dbVars
<1>7. ASSUME NEW p \in Store!Archiver, Store!Take(p) PROVE Newest'
  <2>1. /\ storePc'[p] # "upload" /\ UNCHANGED <<storeCanvas, storeDrive, storeTaken>>
        /\ \A q \in Store!Archiver : q # p =>
             storeMem'[q] = storeMem[q] /\ storePc'[q] = storePc[q]
    BY <1>7, TakeIs, TakeStops
  <2>2. PICK c \in storeMem[p].todo :
          storeRow' = [storeRow EXCEPT ![c.file] = Store!Reserved(c)]
    BY <1>7, TakeIs
  <2>3. /\ c.file \in File /\ storeRow'[c.file] = Store!Reserved(c)
        /\ \A g \in File : g # c.file => storeRow'[g] = storeRow[g]
    BY <2>2 DEF JobsFresh, Records
  <2>4. CASE storeRow[c.file].state # "none"
    <3>1. \A g \in File : storeRow'[g] = storeRow[g]
      BY <2>3, <2>4, ReservedIs
    <3> QED BY <2>1, <3>1 DEF Newest, Mine, Store!Takeable, Store!Working
  <2>5. CASE storeRow[c.file].state = "none"
    <3>1. storeRow'[c.file].state # "none" /\ \A i \in storeDrive : ~Mine(i, c.file)
      BY <2>3, <2>5, ReservedIs DEF Newest, Mine
    <3> QED BY <2>1, <2>3, <3>1 DEF Newest, Mine, Store!Takeable, Store!Working
  <2> QED BY <2>4, <2>5
<1>8. ASSUME NEW p \in Store!Archiver, NEW f \in File, Store!Count(p, f) PROVE Newest'
  <2>1. /\ storePc'[p] # "upload" /\ UNCHANGED <<storeCanvas, storeDrive, storeTaken>>
        /\ \A q \in Store!Archiver : q # p =>
             storeMem'[q] = storeMem[q] /\ storePc'[q] = storePc[q]
    BY <1>8 DEF Store!Count, Store!Set, Records, Store!worldVars
  <2>2. /\ storeRow[f].state # "complete" /\ storeRow'[f].state = "pending"
        /\ storeRow'[f].path = storeRow[f].path
        /\ \A g \in File : g # f => storeRow'[g] = storeRow[g]
    BY <1>8 DEF Store!Count, Records, JobsFresh, Store!Working, Busy
  <2> QED BY <2>1, <2>2 DEF Newest, Mine, Store!Takeable, Store!Working
<1>9. ASSUME NEW p \in Store!Archiver, NEW f \in File, UNCHANGED <<storeCanvas, storeTaken>>,
             Busy(p),
             storeMem[p].file = {f}, Over(p, f),
             \A i \in storeDrive' :
               i \in storeDrive \/ /\ i.file = f /\ i.path = storeRow[f].path
                                                        /\ i.version \in Nat
                                                        /\ i.version <= storeCanvas[f].version
      PROVE  Newest'
  <2>1. storeRow[f].state # "complete"
    BY <1>9 DEF JobsFresh
  <2>2. /\ storeRow'[f].state \notin {"none", "complete"}
        /\ storeRow'[f].path = storeRow[f].path
        /\ \A g \in File : g # f => storeRow'[g] = storeRow[g]
        /\ \A q \in Store!Archiver : storePc'[q] = "upload" =>
             q # p /\ storePc[q] = "upload" /\ storeMem'[q] = storeMem[q]
    BY <1>9, OverIs
  <2>3. \A q \in Store!Archiver : storePc'[q] # "upload"
    BY <1>9, <2>2 DEF Alone, Busy
  <2>4. ASSUME NEW i \in storeDrive', i \notin storeDrive
        PROVE  /\ i.file = f /\ i.path = storeRow'[f].path
               /\ i.version \in Nat /\ i.version <= storeCanvas'[f].version
    BY <1>9, <2>2, <2>4
  <2>5. ASSUME NEW i \in storeDrive, i.id \notin Store!Takeable
        PROVE  /\ i.file \in File /\ storeRow'[i.file].state # "none"
               /\ i.version \in Nat /\ i.version <= storeCanvas'[i.file].version
               /\ storeRow'[i.file].state # "complete" =>
                         i.path = storeRow'[i.file].path \/ i.version < storeCanvas'[i.file].version
    BY <1>9, <2>1, <2>2, <2>5 DEF Newest, Mine
  <2>6. Store!Takeable' = Store!Takeable
    BY <1>9 DEF Store!Takeable
  <2> QED BY <2>2, <2>3, <2>4, <2>5, <2>6 DEF Newest, Mine, Store!Working
<1>10. ASSUME NEW p \in Store!Archiver, NEW f \in File, Store!Download(p, f) PROVE Newest'
  <2>1. /\ Busy(p) /\ storeMem[p].file = {f} /\ storePc[p] = "download"
        /\ UNCHANGED <<storeCanvas, storeDrive, storeTaken>>
    BY <1>10, DownloadIs DEF Store!Working, Busy, dataVars
  <2>2. CASE Downloaded(p, f)
    <3>1. storeRow[f].state # "complete" /\ storeMem[p].path = storeRow[f].path
      BY <2>1 DEF JobsFresh
    <3>2. /\ storeMem'[p].version = storeCanvas[f].version
          /\ storeMem'[p].path = storeMem[p].path
          /\ storeMem'[p].file = {f} /\ UNCHANGED storeRow
          /\ \A q \in Store!Archiver : q # p =>
               storeMem'[q] = storeMem[q] /\ storePc'[q] = storePc[q]
      BY <2>1, <2>2 DEF Downloaded, Store!Set, Records
    <3> QED BY <2>1, <3>1, <3>2 DEF Newest, Mine, Store!Takeable, Store!Working
  <2> QED BY <1>9, <1>10, <2>1, <2>2, DownloadIs
<1>11. ASSUME NEW p \in Store!Archiver, NEW f \in File, Store!WorkFails(p, f) PROVE Newest'
  BY <1>9, <1>11, WorkFailsIs DEF Store!Working, Busy, dataVars
<1>12. ASSUME NEW p \in Store!Archiver, NEW f \in File, Store!Working(p, "upload", f)
       PROVE  /\ Store!New(p, f).file = f /\ Store!New(p, f).path = storeRow[f].path
              /\ Store!New(p, f).version \in Nat
              /\ Store!New(p, f).version <= storeCanvas[f].version
              /\ storeRow[f].state # "none"
  BY <1>12, NewIs DEF JobsFresh, Versions, Store!Working, Busy
<1>13. ASSUME NEW p \in Store!Archiver, NEW f \in File, Store!Upload(p, f) PROVE Newest'
  <2>1. /\ Store!Working(p, "upload", f) /\ UNCHANGED <<storeCanvas, storeTaken, storeRow>>
        /\ storeDrive' = storeDrive \cup {Store!New(p, f)} /\ storePc'[p] = "record"
        /\ \A q \in Store!Archiver : q # p =>
             storeMem'[q] = storeMem[q] /\ storePc'[q] # "upload"
    BY <1>13 DEF Store!Upload, Store!Adopted, Store!Set, Records, Store!Working, Alone,
           Store!dbVars
  <2> QED BY <1>12, <2>1 DEF Newest, Mine, Store!Takeable, Store!Working
<1>14. ASSUME NEW p \in Store!Archiver, NEW f \in File, Store!UploadUnheard(p, f)
       PROVE Newest'
  BY <1>9, <1>12, <1>14, UnheardIs DEF Store!Working, Busy
<1>15. ASSUME NEW p \in Store!Archiver, NEW f \in File, Store!Conflict(p, f) PROVE Newest'
  <2>1. Store!Working(p, "upload", f) /\ UNCHANGED <<storeCanvas, storeDrive, storeTaken>>
    BY <1>15, ConflictIs DEF dataVars
  <2>2. ASSUME NEW i, Found(p, f, i) PROVE Newest'
    BY <1>1, <2>1, <2>2 DEF Found, Store!Set, Records
  <2>3. CASE Over(p, f)
    BY <1>9, <2>1, <2>3 DEF Store!Working, Busy
  <2>4. ASSUME NEW k \in Store!At(storeMem[p].path), ~Store!IsThisFile(k, p, f), Renamed(p, f)
        PROVE Newest'
    <3>1. \A i \in storeDrive : Mine(i, f) => i.version < storeMem[p].version
      BY <2>1, <2>4 DEF Newest, Mine, Store!At, Store!IsThisFile, Apart, Versions
    <3>2. /\ storeMem'[p].version = storeMem[p].version /\ storeMem'[p].file = {f}
          /\ \A q \in Store!Archiver : q # p =>
               storeMem'[q] = storeMem[q] /\ storePc'[q] = storePc[q]
      BY <2>1, <2>4 DEF Renamed, Store!Set, Records, Store!Working
    <3>3. /\ storeRow'[f].state = storeRow[f].state
          /\ \A g \in File : g # f => storeRow'[g] = storeRow[g]
      BY <2>4 DEF Renamed, Records
    <3>4. /\ storeMem[p].version \in Nat /\ storeMem[p].version <= storeCanvas[f].version
          /\ storeCanvas[f].version \in Nat
      BY <2>1 DEF Versions
    <3>5. \A i \in storeDrive : Mine(i, f) =>
            i.version < storeCanvas[f].version /\ i.version \in Nat
      BY <3>1, <3>4 DEF Newest, Mine
    <3>7. \A i \in storeDrive :
            i.id \notin Store!Takeable =>
              /\ i.file \in File /\ storeRow'[i.file].state # "none"
              /\ i.version \in Nat /\ i.version <= storeCanvas[i.file].version
      BY <3>3 DEF Newest
    <3>8. \A g \in File, i \in storeDrive :
            Mine(i, g) /\ storeRow'[g].state # "complete" =>
              i.path = storeRow'[g].path \/ i.version < storeCanvas[g].version
      BY <3>3, <3>5 DEF Newest
    <3>9. \A q \in Store!Archiver, g \in File, i \in storeDrive :
            Store!Working(q, "upload", g)' /\ Mine(i, g) =>
              /\ i.version <= storeMem'[q].version
              /\ i.path = storeMem'[q].path \/ i.version < storeMem'[q].version
      <4>1. \A i \in storeDrive : Mine(i, f) => i.version <= storeMem[p].version
        BY <3>1, <3>4, <3>5
      <4> QED BY <3>1, <3>2, <4>1 DEF Newest, Store!Working
    <3> QED BY <2>1, <3>7, <3>8, <3>9 DEF Newest, Mine, Store!Takeable
  <2> QED BY <1>15, <2>2, <2>3, <2>4, ConflictIs
<1>16. ASSUME NEW p \in Store!Archiver, NEW f \in File, Store!Record(p, f) PROVE Newest'
  <2>1. /\ storeRow'[f].state = "complete"
        /\ \A g \in File : g # f => storeRow'[g] = storeRow[g]
        /\ storePc'[p] = "next" /\ UNCHANGED <<storeCanvas, storeDrive, storeTaken>>
        /\ \A q \in Store!Archiver : q # p =>
             storeMem'[q] = storeMem[q] /\ storePc'[q] = storePc[q]
    BY <1>16 DEF Store!Record, Store!Set, Records, Store!worldVars
  <2> QED BY <2>1 DEF Newest, Mine, Store!Takeable, Store!Working
<1>17. ASSUME NEW m \in storeMoves.left \cup storeMoves.landed, Store!Move(m) PROVE Newest'
  <2>1. UNCHANGED <<storeCanvas, storeTaken, storeRow, storePc, storeMem>>
    BY <1>17, MoveIs
  <2>2. PICK i \in storeDrive :
          /\ i.path = m.from
          /\ storeDrive' = (storeDrive \ {i}) \cup {[i EXCEPT !.path = m.to]}
          /\ LET j == [i EXCEPT !.path = m.to] IN
             j.path = m.to /\ j.id = i.id /\ j.file = i.file /\ j.version = i.version
    BY <1>17, MoveIs
  <2>3. i.file = m.file /\ m.file \in File /\ storeRow[m.file].state = "complete"
    BY <1>17, <2>2, MovesItsOwn DEF MovesPlanned
  <2>4. \A p \in Store!Archiver : ~Store!Working(p, "upload", m.file)
    BY <2>3 DEF JobsFresh, Store!Working, Busy
  <2>5. \A j \in storeDrive' :
          j \in storeDrive \/ (j.file = m.file /\ j.id = i.id /\ j.version = i.version)
    BY <2>2, <2>3
  <2>6. Store!Takeable' = Store!Takeable
    BY <2>1 DEF Store!Takeable
  <2> QED BY <2>1, <2>3, <2>4, <2>5, <2>6 DEF Newest, Mine, Store!Working
<1>18. ASSUME NEW m \in storeMoves.left \cup storeMoves.landed, Store!RecordMove(m)
       PROVE Newest'
  <2>1. /\ UNCHANGED <<storeCanvas, storeDrive, storeTaken, storePc, storeMem>>
        /\ \A g \in File : g # m.file => storeRow'[g] = storeRow[g]
        /\ storeRow'[m.file].state = "complete"
    <3>1. m.file \in File /\ storeRow[m.file].state = "complete"
      BY DEF MovesPlanned
    <3> QED BY <1>18, <3>1 DEF Store!RecordMove, Records, Store!worldVars
  <2> QED BY <2>1 DEF Newest, Mine, Store!Takeable, Store!Working
<1>19. ASSUME NEW p \in storeCast, Store!Die(p) PROVE Newest'
  BY <1>1, <1>19 DEF Store!Die, Store!Set, Records, Store!worldVars, Store!dbVars
<1> QED
  BY <1>2, <1>3, <1>4, <1>5, <1>6, <1>7, <1>8, <1>10, <1>11, <1>13, <1>14, <1>15, <1>16,
     <1>17, <1>18, <1>19
     DEF Store!Next, Store!World, Store!ChangeRules, Store!Archive, Store!Checking,
            Store!CheckOne, Store!CheckEnds, Store!Apply, Store!Rerouting, Store!Recover,
            Store!MoveFails, Store!worldVars, Store!dbVars, Store!procVars

LEMMA NextOneEach ==
  ASSUME Common, Newest, OneEach, MovesPlanned, Store!Next
  PROVE  OneEach'
<1> USE DEF Common
<1>1. ASSUME \A i \in storeDrive' : i \in storeDrive \/ i \in storeTaken,
             storeTaken \subseteq storeTaken'
      PROVE  OneEach'
  BY <1>1 DEF OneEach, Store!Takeable
<1>2. ASSUME NEW p \in Store!Archiver, NEW f \in File,
             Store!Upload(p, f) \/ Store!UploadUnheard(p, f)
      PROVE  OneEach'
  <2>1. /\ Store!Working(p, "upload", f) /\ Store!At(storeMem[p].path) = {}
        /\ UNCHANGED storeTaken
        /\ storeDrive' = storeDrive \cup {Store!New(p, f)}
    BY <1>2, UnheardIs DEF Store!Upload
  <2>2. \A i \in storeDrive : Mine(i, f) => i.version # storeMem[p].version
    BY <2>1 DEF Newest, Mine, Versions, Store!At
  <2> QED BY <2>1, <2>2, NewIs DEF OneEach, Mine, Store!Takeable
<1>3. ASSUME NEW m \in storeMoves.left \cup storeMoves.landed, Store!Move(m) PROVE OneEach'
  <2>1. PICK i \in storeDrive :
          /\ storeDrive' = (storeDrive \ {i}) \cup {[i EXCEPT !.path = m.to]}
          /\ LET j == [i EXCEPT !.path = m.to] IN
             j.path = m.to /\ j.id = i.id /\ j.file = i.file /\ j.version = i.version
    BY <1>3, MoveIs
  <2> DEFINE moved == [i EXCEPT !.path = m.to]
  <2>3. moved.id = i.id /\ moved.file = i.file /\ moved.version = i.version
    BY <2>1
  <2>4. Store!Takeable' = Store!Takeable
    BY <1>3, MoveIs DEF Store!Takeable
  <2>5. storeDrive' = (storeDrive \ {i}) \cup {moved}
    BY <2>1
  <2> HIDE DEF moved
  <2> QED BY <2>3, <2>4, <2>5 DEF OneEach
<1> QED
  BY ZenonT(40), <1>1, <1>2, <1>3 DEF Store!Next, Store!World, Store!CanvasLocks, Store!CanvasReplaces,
         Store!ChangeRules, Store!TakeAway, Store!PutBack, Store!Start, Store!Archive,
         Store!Pass, Store!Take, Store!Finish, Store!Count, Store!Download, Store!Conflict,
         Store!Record, Store!TimeIsUp, Store!WorkFails, Store!Checking, Store!CheckOne,
         Store!CheckEnds, Store!Apply, Store!Rerouting, Store!Recover, Store!MoveFails,
         Store!RecordMove, Store!Die, Store!worldVars

-----------------------------------------------------------------------------
LEMMA NextNothingNew ==
  ASSUME Store!Backfill \in storeCast, NothingNew, Store!Next
  PROVE  NothingNew'
<1> USE DEF NothingNew
<1>1. CASE UNCHANGED <<storeCanvas, storeRules, storeMoves>>
  BY <1>1
<1>2. ASSUME NEW f \in File, Store!CanvasLocks(f) PROVE NothingNew'
  BY <1>2 DEF Store!CanvasLocks, Store!dbVars, Store!procVars
<1>3. CASE Store!Apply
  BY <1>3 DEF Store!Apply, Store!Planned
<1>4. ASSUME NEW p \in storeCast, Store!Die(p) PROVE NothingNew'
  BY <1>4 DEF Store!Die, Store!dbVars, Store!worldVars
<1> QED
  BY ZenonT(40), <1>1, <1>2, <1>3, <1>4 DEF Store!Next, Store!World, Store!CanvasReplaces,
         Store!ChangeRules, Store!TakeAway, Store!PutBack, Store!Start, Store!Archive,
         Store!Pass, Store!Take, Store!Finish, Store!Count, Store!Download, Store!Upload,
         Store!Conflict, Store!Record, Store!TimeIsUp, Store!UploadUnheard, Store!WorkFails,
         Store!Checking, Store!CheckOne, Store!CheckEnds, Store!Rerouting, Store!NoMoves,
         Store!worldVars, Store!dbVars, Store!procVars

LEMMA OnNameStays ==
  ASSUME NEW items, NEW more, items \subseteq more, NEW f, NEW path, OnName(items, f, path)
  PROVE  OnName(more, f, path)
BY DEF OnName

(* Of two files of a name only the first name can be another's. *)
LEMMA OnlyPlainClashes ==
  ASSUME Apart, Store!InPairs, ItemsOnName, NEW f \in File, NEW path,
         OnName(storeDrive, f, path),
         NEW k \in storeDrive, k.path = path, k.file # f
  PROVE  path = Plain(f) /\ Plain(f) # Tagged(f)
<1>1. \A g, h \in File :
        /\ Plain(g) # Tagged(h)
        /\ Plain(g) = Plain(h) => BaseOf[g] = BaseOf[h]
        /\ Tagged(g) = Tagged(h) => BaseOf[g] = BaseOf[h] /\ Plain(g) = Plain(h)
  <2>1. <<>> # <<1>>
    OBVIOUS
  <2> QED BY <2>1 DEF Plain, Tagged, Store!Path
<1>2. SUFFICES ASSUME path = Tagged(f) PROVE FALSE
  BY <1>1 DEF OnName
<1>3. k.file \in File /\ Tagged(f) = Tagged(k.file)
  BY <1>1, <1>2 DEF ItemsOnName, OnName
<1>4. PICK i \in storeDrive : i.path = Plain(f) /\ i.file # f /\ i.file # k.file
  <2>1. PICK i \in storeDrive : i.path = Plain(f) /\ i.file # f
    BY <1>1, <1>2 DEF OnName
  <2>2. PICK j \in storeDrive : j.path = Plain(k.file) /\ j.file # k.file
    BY <1>1, <1>2, <1>3 DEF ItemsOnName, OnName
  <2>3. i = j
    BY <1>1, <1>3, <2>1, <2>2 DEF Apart
  <2> QED BY <2>1, <2>2, <2>3
<1>5. i.file \in File /\ Plain(f) = Plain(i.file)
  BY <1>1, <1>4 DEF ItemsOnName, OnName
<1> QED BY <1>1, <1>3, <1>4, <1>5 DEF Store!InPairs

(* What a rival finds taken, it tries again under the second name. *)
LEMMA RenamedIs ==
  ASSUME Common, Store!InPairs, RivalInv, NEW p \in Store!Archiver, NEW f \in File,
         Store!Working(p, "upload", f), NEW k \in Store!At(storeMem[p].path),
         ~Store!IsThisFile(k, p, f), Renamed(p, f)
  PROVE  /\ storeMem[p].path = Plain(f) /\ k.file # f /\ Plain(f) # Tagged(f)
         /\ Store!Alternate(p) = Tagged(f) /\ OnName(storeDrive, f, Tagged(f))
<1>1. /\ OnName(storeDrive, f, storeMem[p].path) /\ storeMem[p].version = 1
      /\ storeMem[p].path = Plain(f) => storeMem[p].n = 0
  BY DEF RivalInv, JobsOnName, Store!Working, Busy
<1>2. k \in storeDrive /\ k.path = storeMem[p].path /\ k.file # f
  BY <1>1 DEF Store!At, Store!IsThisFile, RivalInv, ItemsOnName
<1>3. storeMem[p].path = Plain(f) /\ Plain(f) # Tagged(f)
  BY <1>1, <1>2, OnlyPlainClashes DEF Common, RivalInv
<1>4. OnName(storeDrive, f, Tagged(f))
  BY <1>2, <1>3 DEF OnName
<1>5. Store!Alternate(p) = Tagged(f)
  <2>1. IsPath(storeMem[p].path)
    BY <1>3 DEF Plain, Store!Path, IsPath
  <2>2. Store!Alternate(p) = <<Plain(f)[1], Plain(f)[2], Append(Plain(f)[3], 1)>>
    BY <1>1, <1>3, <2>1, AlternateIs
  <2>3. Append(<<>>, 1) = <<1>>
    OBVIOUS
  <2> QED BY <2>2, <2>3 DEF Plain, Tagged, Store!Path
<1> QED BY <1>2, <1>3, <1>4, <1>5

(* Beside a backfill nothing leaves the drive, and what comes is in hand. *)
LEMMA DriveGrows ==
  ASSUME NothingNew, storeTaken = {}, storeTaken' = {}, Store!Next
  PROVE  /\ storeDrive \subseteq storeDrive'
         /\ \/ UNCHANGED storeDrive
            \/ \E p \in Store!Archiver, f \in File :
                 /\ Store!Working(p, "upload", f)
                 /\ storeDrive' = storeDrive \cup {Store!New(p, f)}
<1>1. ASSUME NEW i \in storeDrive PROVE ~Store!TakeAway(i)
  BY DEF Store!TakeAway
<1>2. ~Store!Rerouting
  BY DEF Store!Rerouting, NothingNew, Store!NoMoves
<1>3. ASSUME NEW p \in Store!Archiver, NEW f \in File,
             Store!Upload(p, f) \/ Store!UploadUnheard(p, f)
      PROVE  Store!Working(p, "upload", f) /\ storeDrive' = storeDrive \cup {Store!New(p, f)}
  BY <1>3 DEF Store!Upload, Store!UploadUnheard
<1>4. CASE \E p \in Store!Archiver, f \in File : Store!Upload(p, f) \/ Store!UploadUnheard(p, f)
  BY <1>3, <1>4
<1>5. CASE Store!World
  <2>1. Store!World => UNCHANGED storeDrive \/ \E i \in storeTaken \ storeDrive : Store!PutBack(i)
    BY <1>1 DEF Store!World, Store!CanvasLocks, Store!CanvasReplaces, Store!ChangeRules,
                Store!worldVars
  <2> QED BY <1>5, <2>1
<1>6. ASSUME NEW p \in Store!Archiver,
             Store!Start(p) \/ Store!Pass(p) \/ Store!Take(p) \/ Store!Finish(p) \/ Store!TimeIsUp(p)
      PROVE  UNCHANGED storeDrive
  BY <1>6 DEF Store!Start, Store!Pass, Store!Take, Store!Finish, Store!TimeIsUp, Store!worldVars
<1>7. ASSUME NEW p \in Store!Archiver, NEW f \in File,
             \/ Store!Count(p, f) \/ Store!Download(p, f) \/ Store!Conflict(p, f)
             \/ Store!Record(p, f) \/ Store!WorkFails(p, f)
      PROVE  UNCHANGED storeDrive
  BY <1>7 DEF Store!Count, Store!Download, Store!Conflict, Store!Record, Store!WorkFails,
              Store!worldVars
<1>8. CASE Store!Checking \/ Store!CheckEnds \/ Store!Apply \/ \E p \in storeCast : Store!Die(p)
  BY <1>8 DEF Store!Checking, Store!CheckOne, Store!CheckEnds, Store!Apply, Store!Die,
              Store!worldVars
<1> QED BY <1>2, <1>4, <1>5, <1>6, <1>7, <1>8 DEF Store!Next, Store!Archive

LEMMA NextItemsOnName ==
  ASSUME Common, NothingNew, storeTaken = {}, storeTaken' = {}, RivalInv, Store!Next
  PROVE  ItemsOnName'
<1>1. ASSUME NEW i \in storeDrive
      PROVE  i.file \in File /\ i.version = 1 /\ OnName(storeDrive', i.file, i.path)
  BY DriveGrows, OnNameStays DEF RivalInv, ItemsOnName
<1>2. ASSUME NEW p \in Store!Archiver, NEW f \in File, Store!Working(p, "upload", f)
      PROVE  /\ Store!New(p, f).file \in File /\ Store!New(p, f).version = 1
             /\ OnName(storeDrive', Store!New(p, f).file, Store!New(p, f).path)
  <2>1. OnName(storeDrive, f, storeMem[p].path) /\ storeMem[p].version = 1
    BY <1>2 DEF RivalInv, JobsOnName, Store!Working, Busy
  <2> QED BY <2>1, NewIs, DriveGrows, OnNameStays DEF Common
<1> QED BY <1>1, <1>2, DriveGrows DEF ItemsOnName

LEMMA NextRowsOnName ==
  ASSUME Common, Store!InPairs, NothingNew, storeTaken = {}, storeTaken' = {}, RivalInv,
         Store!Next
  PROVE  RowsOnName'
<1> USE DEF Common, RivalInv
<1>1. storeDrive \subseteq storeDrive'
  BY DriveGrows
<1>2. ASSUME \A f \in File :
               \/ storeRow'[f] = storeRow[f]
               \/ /\ storeRow[f].state # "none" /\ storeRow'[f].state # "complete"
                  /\ storeRow'[f].path = storeRow[f].path
      PROVE  RowsOnName'
  <2>1. \A f \in File : storeRow'[f].state # "none" =>
          OnName(storeDrive, f, storeRow'[f].path)
    BY <1>2 DEF RowsOnName
  <2> QED BY <1>1, <1>2, <2>1, OnNameStays DEF RowsOnName
<1>3. CASE UNCHANGED storeRow
  BY <1>2, <1>3
<1>4. ASSUME NEW p \in Store!Archiver, Store!Take(p) PROVE RowsOnName'
  <2>1. PICK c \in storeMem[p].todo :
          storeRow' = [storeRow EXCEPT ![c.file] = Store!Reserved(c)]
    BY <1>4, TakeIs
  <2>2. /\ c.file \in File /\ storeRow'[c.file] = Store!Reserved(c)
        /\ OnName(storeDrive, c.file, c.path)
        /\ \A g \in File : g # c.file => storeRow'[g] = storeRow[g]
    BY <2>1 DEF Records, JobsOnName
  <2>3. CASE storeRow[c.file].state # "none"
    BY <1>2, <2>2, <2>3, ReservedIs
  <2>4. CASE storeRow[c.file].state = "none"
    <3>1. /\ storeRow'[c.file].state # "complete"
          /\ OnName(storeDrive', c.file, storeRow'[c.file].path)
      BY <1>1, <2>2, <2>4, ReservedIs, OnNameStays
    <3> QED BY <1>1, <2>2, <3>1, OnNameStays DEF RowsOnName
  <2> QED BY <2>3, <2>4
<1>5. ASSUME NEW p \in Store!Archiver, NEW f \in File, Store!Count(p, f) PROVE RowsOnName'
  <2>1. /\ storeRow[f].state # "none" /\ storeRow'[f].state = "pending"
        /\ storeRow'[f].path = storeRow[f].path
        /\ \A g \in File : g # f => storeRow'[g] = storeRow[g]
    BY <1>5 DEF Store!Count, Records, JobsOnName, Store!Working, Busy
  <2> QED BY <1>2, <2>1
<1>6. ASSUME NEW p \in Store!Archiver, NEW f \in File, Busy(p), storeMem[p].file = {f},
             Over(p, f)
      PROVE  RowsOnName'
  <2>1. storeRow[f].state # "none"
    BY <1>6 DEF JobsOnName
  <2> QED BY <1>2, <1>6, <2>1, OverIs
<1>7. ASSUME NEW p \in Store!Archiver, NEW f \in File,
             Store!Download(p, f) \/ Store!UploadUnheard(p, f) \/ Store!WorkFails(p, f)
      PROVE  RowsOnName'
  BY <1>3, <1>6, <1>7, DownloadIs, UnheardIs, WorkFailsIs DEF Downloaded, Store!Working, Busy
<1>8. ASSUME NEW p \in Store!Archiver, NEW f \in File, Store!Conflict(p, f) PROVE RowsOnName'
  <2>1. Store!Working(p, "upload", f) /\ Busy(p) /\ storeMem[p].file = {f}
    BY <1>8, ConflictIs DEF Store!Working, Busy
  <2>2. ASSUME NEW k \in Store!At(storeMem[p].path), ~Store!IsThisFile(k, p, f), Renamed(p, f)
        PROVE RowsOnName'
    <3>1. /\ storeMem[p].path = Plain(f) /\ k.file # f /\ Store!Alternate(p) = Tagged(f)
          /\ OnName(storeDrive, f, Tagged(f))
      BY <2>1, <2>2, RenamedIs
    <3>2. /\ \A g \in File : g # f => storeRow'[g] = storeRow[g]
          /\ storeRow'[f].path = Tagged(f) /\ storeRow'[f].state = storeRow[f].state
          /\ storeRow'[f].item = storeRow[f].item
          /\ storeRow'[f].version = storeRow[f].version
      BY <2>2, <3>1 DEF Renamed, Records
    <3>3. ASSUME NEW i \in storeDrive, i.file = f PROVE i.path = Tagged(f)
      <4>1. i.path # Plain(f)
        BY <2>2, <3>1, <3>3 DEF Store!At, Apart
      <4> QED BY <3>3, <4>1 DEF ItemsOnName, OnName
    <3> QED BY <1>1, <3>1, <3>2, <3>3, OnNameStays DEF RowsOnName
  <2> QED BY <1>3, <1>6, <1>8, <2>1, <2>2, ConflictIs DEF Found
<1>9. ASSUME NEW p \in Store!Archiver, NEW f \in File, Store!Record(p, f) PROVE RowsOnName'
  <2>1. /\ Store!Working(p, "record", f) /\ UNCHANGED storeDrive
        /\ storeRow' =
             [storeRow EXCEPT ![f] = [storeRow[f] EXCEPT !.state = "complete",
                                                         !.path = storeMem[p].path,
                                                         !.item = storeMem[p].item,
                                                         !.version = storeMem[p].version]]
    BY <1>9 DEF Store!Record, Store!worldVars
  <2>2. /\ storeRow'[f].path = storeMem[p].path /\ storeRow'[f].item = storeMem[p].item
        /\ storeRow'[f].version = storeMem[p].version
        /\ \A g \in File : g # f => storeRow'[g] = storeRow[g]
    BY <2>1 DEF Records
  <2>3. /\ OnName(storeDrive, f, storeMem[p].path) /\ storeMem[p].version = 1
        /\ \E i \in storeDrive :
             i.id = storeMem[p].item /\ i.file = f /\ i.path = storeMem[p].path
    BY <2>1 DEF JobsOnName, Store!Working, Busy
  <2> QED BY <2>1, <2>2, <2>3 DEF RowsOnName, ItemsOnName
<1> QED
  BY <1>3, <1>4, <1>5, <1>7, <1>8, <1>9 DEF Store!Next, Store!World, Store!CanvasLocks,
         Store!CanvasReplaces, Store!ChangeRules, Store!TakeAway, Store!PutBack, Store!Start,
         Store!Archive, Store!Pass, Store!Finish, Store!Upload, Store!TimeIsUp,
         Store!Checking, Store!CheckOne, Store!CheckEnds, Store!Apply, Store!Rerouting,
         Store!Recover, Store!Move, Store!MoveFails, Store!RecordMove, Store!Die, NothingNew,
         Store!NoMoves, Store!dbVars

(* A row, once made, is not unmade. *)
LEMMA RowsStay ==
  ASSUME Records, NEW f \in File, storeRow[f].state # "none", Store!Next
  PROVE  storeRow'[f].state # "none"
<1>1. CASE UNCHANGED storeRow
  BY <1>1
<1>2. ASSUME NEW p \in Store!Archiver, Store!Take(p) PROVE storeRow'[f].state # "none"
  <2>1. PICK c \in storeMem[p].todo :
          storeRow' = [storeRow EXCEPT ![c.file] = Store!Reserved(c)]
    BY <1>2, TakeIs
  <2>2. CASE f = c.file
    BY <2>1, <2>2, ReservedIs DEF Records
  <2>3. CASE f # c.file
    BY <2>1, <2>3 DEF Records
  <2> QED BY <2>2, <2>3
<1>3. ASSUME NEW p \in Store!Archiver, NEW g \in File,
             Store!Count(p, g) \/ Over(p, g) \/ Renamed(p, g) \/ Store!Record(p, g)
      PROVE  storeRow'[f].state # "none"
  <2>1. CASE Over(p, g)
    BY <2>1, OverIs
  <2>2. CASE Renamed(p, g)
    BY <2>2 DEF Records, Renamed
  <2>3. CASE Store!Count(p, g) \/ Store!Record(p, g)
    <3>1. /\ \A h \in File : h # g => storeRow'[h] = storeRow[h]
          /\ storeRow'[g].state \in {"pending", "complete"}
      <4>1. CASE Store!Count(p, g)
        BY <4>1 DEF Records, Store!Count
      <4>2. CASE Store!Record(p, g)
        BY <4>2 DEF Records, Store!Record
      <4> QED BY <2>3, <4>1, <4>2
    <3> QED BY <3>1
  <2> QED BY <1>3, <2>1, <2>2, <2>3
<1>4. ASSUME NEW m \in storeMoves.left \cup storeMoves.landed, Store!RecordMove(m)
      PROVE storeRow'[f].state # "none"
  BY <1>4 DEF Store!RecordMove, Records
<1>5. ASSUME NEW p \in Store!Archiver, NEW g \in File,
             \/ Store!Download(p, g) \/ Store!Conflict(p, g)
             \/ Store!UploadUnheard(p, g) \/ Store!WorkFails(p, g)
      PROVE  storeRow'[f].state # "none"
  BY <1>1, <1>3, <1>5, DownloadIs, ConflictIs, UnheardIs, WorkFailsIs DEF Downloaded, Found
<1> QED
  BY <1>1, <1>2, <1>3, <1>4, <1>5 DEF Store!Next, Store!World, Store!CanvasLocks,
         Store!CanvasReplaces, Store!ChangeRules, Store!TakeAway, Store!PutBack, Store!Start,
         Store!Archive, Store!Pass, Store!Finish, Store!Upload, Store!TimeIsUp,
         Store!Checking, Store!CheckOne, Store!CheckEnds, Store!Apply, Store!Rerouting,
         Store!Recover, Store!Move, Store!MoveFails, Store!Die, Store!dbVars

LEMMA NextJobsOnName ==
  ASSUME Common, Store!InPairs, NothingNew, storeTaken = {}, storeTaken' = {}, RivalInv,
         Store!Next
  PROVE  JobsOnName'
<1> USE DEF Common, RivalInv
<1> DEFINE JobOnName(q) ==
      /\ storePc[q] = "next" => storeMem[q].n = 0
      /\ \A c \in storeMem[q].todo : c.file \in File /\ OnName(storeDrive, c.file, c.path)
      /\ \A f \in File :
           Busy(q) /\ storeMem[q].file = {f} =>
             /\ OnName(storeDrive, f, storeMem[q].path) /\ storeRow[f].state # "none"
             /\ storeMem[q].path = Plain(f) => storeMem[q].n = 0
             /\ storePc[q] \in {"upload", "record"} => storeMem[q].version = 1
             /\ storePc[q] = "record" =>
                       \E i \in storeDrive :
                         i.id = storeMem[q].item /\ i.file = f /\ i.path = storeMem[q].path
<1>1. /\ storeDrive \subseteq storeDrive'
      /\ \A f \in File : storeRow[f].state # "none" => storeRow'[f].state # "none"
  BY DriveGrows, RowsStay
<1>2. ASSUME NEW q \in Store!Archiver, UNCHANGED <<storeMem[q], storePc[q]>>
      PROVE JobOnName(q)'
  <2>1. ASSUME NEW c \in storeMem[q].todo
        PROVE c.file \in File /\ OnName(storeDrive', c.file, c.path)
    BY <1>1, OnNameStays DEF JobsOnName
  <2>2. ASSUME NEW f \in File, Busy(q), storeMem[q].file = {f}
        PROVE  /\ OnName(storeDrive', f, storeMem[q].path) /\ storeRow'[f].state # "none"
               /\ storeMem[q].path = Plain(f) => storeMem[q].n = 0
               /\ storePc[q] \in {"upload", "record"} => storeMem[q].version = 1
               /\ storePc[q] = "record" =>
                         \E i \in storeDrive' :
                           i.id = storeMem[q].item /\ i.file = f /\ i.path = storeMem[q].path
    BY <1>1, <2>2, OnNameStays DEF JobsOnName
  <2>3. storePc[q] = "next" => storeMem[q].n = 0
    BY DEF JobsOnName
  <2> QED BY <1>2, <2>1, <2>2, <2>3 DEF Busy
<1>3. ASSUME NEW p \in Store!Archiver, JobOnName(p)',
             \A q \in Store!Archiver : q # p =>
               storeMem'[q] = storeMem[q] /\ storePc'[q] = storePc[q]
      PROVE  JobsOnName'
  <2>1. \A q \in Store!Archiver : JobOnName(q)'
    BY <1>2, <1>3
  <2> QED BY <2>1 DEF JobsOnName
<1>4. CASE UNCHANGED <<storePc, storeMem>>
  <2>1. \A q \in Store!Archiver : JobOnName(q)'
    BY <1>2, <1>4
  <2> QED BY <2>1 DEF JobsOnName
<1>5. ASSUME NEW p \in Store!Archiver, storePc'[p] \in {"idle", "next", "end"},
             storeMem'[p].n = 0,
             \A q \in Store!Archiver : q # p =>
               storeMem'[q] = storeMem[q] /\ storePc'[q] = storePc[q],
             \A c \in storeMem'[p].todo : c \in storeMem[p].todo
      PROVE  JobsOnName'
  <2>1. \A c \in storeMem'[p].todo : c.file \in File /\ OnName(storeDrive', c.file, c.path)
    BY <1>1, <1>5, OnNameStays DEF JobsOnName
  <2>2. JobOnName(p)'
    BY <1>5, <2>1 DEF Busy
  <2> QED BY <1>3, <1>5, <2>2
<1>6. ASSUME NEW p \in Store!Archiver, NEW f \in File, storeMem'[p].file = {f},
             storePc'[p] # "next",
             \A q \in Store!Archiver : q # p =>
               storeMem'[q] = storeMem[q] /\ storePc'[q] = storePc[q],
             storeMem'[p].todo \subseteq storeMem[p].todo,
             OnName(storeDrive', f, storeMem'[p].path), storeRow'[f].state # "none",
             storeMem'[p].path = Plain(f) => storeMem'[p].n = 0,
             storePc'[p] \in {"upload", "record"} => storeMem'[p].version = 1,
             storePc'[p] = "record" =>
                    \E i \in storeDrive' :
                      i.id = storeMem'[p].item /\ i.file = f /\ i.path = storeMem'[p].path
      PROVE  JobsOnName'
  <2>1. \A c \in storeMem'[p].todo : c.file \in File /\ OnName(storeDrive', c.file, c.path)
    BY <1>1, <1>6, OnNameStays DEF JobsOnName
  <2>2. ASSUME NEW g \in File, storeMem'[p].file = {g} PROVE g = f
    BY <1>6, <2>2
  <2>3. JobOnName(p)'
    BY <1>6, <2>1, <2>2
  <2> QED BY <1>3, <1>6, <2>3
<1> HIDE DEF JobOnName
<1>7. ASSUME NEW p \in Store!Archiver, Store!Start(p) PROVE JobsOnName'
  <2>1. PICK s \in Store!Candidates :
          Store!Set(p, "next", [Store!NoJob EXCEPT
                                      !.todo = {Store!Loaded(f, storeFacts'[f]) : f \in s}])
    BY <1>7 DEF Store!Start
  <2>2. s \subseteq File
    BY DEF Store!Candidates, Store!Wanted
  <2>3. /\ storePc'[p] = "next"
        /\ storeMem'[p].todo = {Store!Loaded(f, storeFacts'[f]) : f \in s}
        /\ storeMem'[p].n = 0
        /\ \A q \in Store!Archiver : q # p =>
             storeMem'[q] = storeMem[q] /\ storePc'[q] = storePc[q]
    BY <2>1 DEF Store!Set, Records, Store!NoJob
  <2>4. ASSUME NEW c \in storeMem'[p].todo
        PROVE c.file \in File /\ OnName(storeDrive', c.file, c.path)
    <3>1. PICK f \in s : c = Store!Loaded(f, storeFacts'[f])
      BY <2>3
    <3>2. CASE storeRow[f].state = "none"
      BY <2>2, <3>1, <3>2 DEF Store!Loaded, Store!Route, NothingNew, OnName, Plain
    <3>3. CASE storeRow[f].state # "none"
      <4>1. OnName(storeDrive, f, storeRow[f].path)
        BY <2>2, <3>3 DEF RowsOnName
      <4> QED BY <1>1, <2>2, <3>1, <3>3, <4>1, OnNameStays DEF Store!Loaded
    <3> QED BY <3>2, <3>3
  <2>5. JobOnName(p)'
    BY <2>3, <2>4 DEF JobOnName, Busy
  <2> QED BY <1>3, <2>3, <2>5
<1>8. ASSUME NEW p \in Store!Archiver, Store!Pass(p) PROVE JobsOnName'
  <2>1. PICK c \in storeMem[p].todo : storeMem' = [storeMem EXCEPT ![p].todo = @ \ {c}]
    BY <1>8 DEF Store!Pass
  <2>2. /\ storeMem'[p].n = storeMem[p].n /\ storeMem'[p].todo \subseteq storeMem[p].todo
        /\ \A q \in Store!Archiver : q # p => storeMem'[q] = storeMem[q]
    BY <2>1 DEF Records
  <2>3. UNCHANGED storePc /\ storePc[p] = "next" /\ storeMem[p].n = 0
    BY <1>8 DEF Store!Pass, JobsOnName
  <2> QED BY <1>5, <2>2, <2>3
<1>9. ASSUME NEW p \in Store!Archiver, Store!TimeIsUp(p) \/ Store!Finish(p) PROVE JobsOnName'
  <2>1. \E step \in {"idle", "end"} : Store!Set(p, step, Store!NoJob)
    BY <1>9 DEF Store!TimeIsUp, Store!Finish
  <2>2. /\ storePc'[p] \in {"idle", "end"} /\ storeMem'[p] = Store!NoJob
        /\ \A q \in Store!Archiver : q # p =>
             storeMem'[q] = storeMem[q] /\ storePc'[q] = storePc[q]
    BY <2>1 DEF Store!Set, Records
  <2> QED BY <1>5, <2>2 DEF Store!NoJob
<1>10. ASSUME NEW p \in Store!Archiver, Store!Take(p) PROVE JobsOnName'
  <2>1. PICK c \in storeMem[p].todo :
          /\ storeRow' = [storeRow EXCEPT ![c.file] = Store!Reserved(c)]
          /\ \/ Store!Set(p, "next", [storeMem[p] EXCEPT !.todo = @ \ {c}])
             \/ Store!Set(p, "end", Store!NoJob)
             \/ /\ ~Store!TooLarge(c)
                /\ Store!Set(p, "count", [storeMem[p] EXCEPT !.todo = @ \ {c}, !.file = {c.file},
                                                             !.path = c.path])
    BY <1>10, TakeIs
  <2>2. /\ storePc[p] = "next" /\ storeMem[p].n = 0 /\ c.file \in File
        /\ OnName(storeDrive, c.file, c.path)
    BY <1>10, TakeIs DEF JobsOnName
  <2>3. \A q \in Store!Archiver : q # p =>
          storeMem'[q] = storeMem[q] /\ storePc'[q] = storePc[q]
    BY <1>10, TakeStops
  <2>4. CASE Store!Set(p, "next", [storeMem[p] EXCEPT !.todo = @ \ {c}])
    <3>1. /\ storePc'[p] = "next" /\ storeMem'[p].n = 0
          /\ storeMem'[p].todo = storeMem[p].todo \ {c}
      BY <2>2, <2>4 DEF Store!Set, Records
    <3> QED BY <1>5, <2>3, <3>1
  <2>5. CASE Store!Set(p, "end", Store!NoJob)
    <3>1. storePc'[p] = "end" /\ storeMem'[p].n = 0 /\ storeMem'[p].todo = {}
      BY <2>5 DEF Store!Set, Records, Store!NoJob
    <3> QED BY <1>5, <2>3, <3>1
  <2>6. CASE /\ ~Store!TooLarge(c)
             /\ Store!Set(p, "count", [storeMem[p] EXCEPT !.todo = @ \ {c}, !.file = {c.file},
                                                          !.path = c.path])
    <3>1. /\ storePc'[p] = "count" /\ storeMem'[p].n = 0
          /\ storeMem'[p].todo = storeMem[p].todo \ {c}
          /\ storeMem'[p].file = {c.file} /\ storeMem'[p].path = c.path
      BY <2>2, <2>6 DEF Store!Set, Records
    <3>2. storeRow'[c.file].state # "none"
      BY <2>1, <2>2, ReservedIs DEF Records
    <3>3. OnName(storeDrive', c.file, c.path)
      BY <1>1, <2>2, OnNameStays
    <3> QED BY <1>6, <2>2, <2>3, <3>1, <3>2, <3>3
  <2> QED BY <2>1, <2>4, <2>5, <2>6
<1>11. ASSUME NEW p \in Store!Archiver, NEW f \in File, Over(p, f) PROVE JobsOnName'
  BY <1>5, <1>11, OverIs
<1>12. ASSUME NEW p \in Store!Archiver, NEW f \in File, Busy(p), storeMem[p].file = {f}
       PROVE  /\ OnName(storeDrive', f, storeMem[p].path) /\ storeRow'[f].state # "none"
              /\ storeMem[p].path = Plain(f) => storeMem[p].n = 0
              /\ storePc[p] \in {"upload", "record"} => storeMem[p].version = 1
  BY <1>1, <1>12, OnNameStays DEF JobsOnName
<1>13. ASSUME NEW p \in Store!Archiver, NEW f \in File, Store!Count(p, f) PROVE JobsOnName'
  <2>1. /\ Busy(p) /\ storeMem[p].file = {f} /\ storePc'[p] = "download"
        /\ storeMem'[p] = storeMem[p]
        /\ \A q \in Store!Archiver : q # p =>
             storeMem'[q] = storeMem[q] /\ storePc'[q] = storePc[q]
    BY <1>13 DEF Store!Count, Store!Working, Busy, Store!Set, Records
  <2> QED BY <1>6, <1>12, <2>1
<1>14. ASSUME NEW p \in Store!Archiver, NEW f \in File, Store!Download(p, f) PROVE JobsOnName'
  <2>1. Busy(p) /\ storeMem[p].file = {f}
    BY <1>14, DownloadIs DEF Store!Working, Busy
  <2>2. CASE Downloaded(p, f)
    <3>1. /\ storePc'[p] = "upload" /\ storeMem'[p].version = 1
          /\ storeMem'[p].path = storeMem[p].path
          /\ storeMem'[p].n = storeMem[p].n /\ storeMem'[p].todo = storeMem[p].todo
          /\ storeMem'[p].file = {f}
          /\ \A q \in Store!Archiver : q # p =>
               storeMem'[q] = storeMem[q] /\ storePc'[q] = storePc[q]
      BY <2>1, <2>2 DEF Downloaded, Store!Set, Records, NothingNew
    <3> QED BY <1>6, <1>12, <2>1, <3>1
  <2> QED BY <1>11, <1>14, <2>2, DownloadIs
<1>15. ASSUME NEW p \in Store!Archiver, NEW f \in File, Store!Upload(p, f) PROVE JobsOnName'
  <2>1. /\ Busy(p) /\ storeMem[p].file = {f} /\ storePc[p] = "upload"
        /\ Store!New(p, f) \in storeDrive'
        /\ Store!Set(p, "record", [storeMem[p] EXCEPT !.item = Store!New(p, f).id])
    BY <1>15 DEF Store!Upload, Store!Adopted, Store!Working, Busy
  <2>2. /\ storePc'[p] = "record" /\ storeMem'[p].version = storeMem[p].version
        /\ storeMem'[p].path = storeMem[p].path
        /\ storeMem'[p].n = storeMem[p].n /\ storeMem'[p].todo = storeMem[p].todo
        /\ storeMem'[p].file = {f}
        /\ storeMem'[p].item = Store!New(p, f).id
        /\ \A q \in Store!Archiver : q # p =>
             storeMem'[q] = storeMem[q] /\ storePc'[q] = storePc[q]
    BY <2>1 DEF Store!Set, Records
  <2>3. \E i \in storeDrive' :
          i.id = storeMem'[p].item /\ i.file = f /\ i.path = storeMem'[p].path
    BY <2>1, <2>2, NewIs
  <2> QED BY <1>6, <1>12, <2>1, <2>2, <2>3
<1>16. ASSUME NEW p \in Store!Archiver, NEW f \in File, Store!Conflict(p, f) PROVE JobsOnName'
  <2>1. /\ Store!Working(p, "upload", f) /\ Busy(p) /\ storeMem[p].file = {f}
        /\ storePc[p] = "upload"
    BY <1>16, ConflictIs DEF Store!Working, Busy
  <2>2. ASSUME NEW i \in Store!At(storeMem[p].path), Store!IsThisFile(i, p, f), Found(p, f, i)
        PROVE JobsOnName'
    <3>1. /\ storePc'[p] = "record" /\ storeMem'[p].version = storeMem[p].version
          /\ storeMem'[p].path = storeMem[p].path /\ storeMem'[p].n = storeMem[p].n
          /\ storeMem'[p].todo = storeMem[p].todo /\ storeMem'[p].file = {f}
          /\ storeMem'[p].item = i.id
          /\ \A q \in Store!Archiver : q # p =>
               storeMem'[q] = storeMem[q] /\ storePc'[q] = storePc[q]
      BY <2>1, <2>2 DEF Found, Store!Set, Records
    <3>2. i \in storeDrive' /\ i.file = f /\ i.path = storeMem'[p].path
      BY <1>1, <2>2, <3>1 DEF Store!At, Store!IsThisFile
    <3> QED BY <1>6, <1>12, <2>1, <3>1, <3>2
  <2>3. ASSUME NEW k \in Store!At(storeMem[p].path), ~Store!IsThisFile(k, p, f), Renamed(p, f)
        PROVE JobsOnName'
    <3>1. /\ Store!Alternate(p) = Tagged(f) /\ Plain(f) # Tagged(f)
          /\ OnName(storeDrive', f, Tagged(f))
      BY <1>1, <2>1, <2>3, RenamedIs, OnNameStays
    <3>2. /\ storePc'[p] = "upload" /\ storeMem'[p].version = storeMem[p].version
          /\ storeMem'[p].path = Tagged(f) /\ storeMem'[p].todo = storeMem[p].todo
          /\ storeMem'[p].file = {f}
          /\ \A q \in Store!Archiver : q # p =>
               storeMem'[q] = storeMem[q] /\ storePc'[q] = storePc[q]
      BY <2>1, <2>3, <3>1 DEF Renamed, Store!Set, Records
    <3> QED BY <1>6, <1>12, <2>1, <3>1, <3>2
  <2> QED BY <1>11, <1>16, <2>2, <2>3, ConflictIs
<1>17. ASSUME NEW p \in Store!Archiver, NEW f \in File, Store!Record(p, f) PROVE JobsOnName'
  <2>1. /\ storePc'[p] = "next" /\ storeMem'[p].n = 0 /\ storeMem'[p].todo = storeMem[p].todo
        /\ \A q \in Store!Archiver : q # p =>
             storeMem'[q] = storeMem[q] /\ storePc'[q] = storePc[q]
    BY <1>17 DEF Store!Record, Store!Set, Records, Store!NoJob
  <2> QED BY <1>5, <2>1
<1>18. ASSUME NEW p \in storeCast, Store!Die(p) PROVE JobsOnName'
  <2>1. CASE p \in Store!Archiver /\ Store!Set(p, "idle", Store!NoJob)
    <3>1. /\ storePc'[p] = "idle" /\ storeMem'[p] = Store!NoJob
          /\ \A q \in Store!Archiver : q # p =>
               storeMem'[q] = storeMem[q] /\ storePc'[q] = storePc[q]
      BY <2>1 DEF Store!Set, Records
    <3> QED BY <1>5, <2>1, <3>1 DEF Store!NoJob
  <2> QED BY <1>4, <1>18, <2>1 DEF Store!Die
<1>19. ASSUME NEW p \in Store!Archiver, NEW f \in File,
              Store!UploadUnheard(p, f) \/ Store!WorkFails(p, f)
       PROVE  JobsOnName'
  BY <1>11, <1>19, UnheardIs, WorkFailsIs
<1> QED
  BY <1>4, <1>7, <1>8, <1>9, <1>10, <1>13, <1>14, <1>15, <1>16, <1>17, <1>18, <1>19
     DEF Store!Next, Store!World, Store!CanvasLocks, Store!CanvasReplaces, Store!ChangeRules,
         Store!TakeAway, Store!PutBack, Store!Archive, Store!Checking, Store!CheckOne,
         Store!CheckEnds, Store!Apply, Store!Rerouting, Store!Recover, Store!Move,
         Store!MoveFails, Store!RecordMove, Store!procVars

-----------------------------------------------------------------------------
LEMMA InitArchiveInv ==
  ASSUME Store!ArchiveAssumption, Store!Init
  PROVE  ArchiveInv
<1> USE DEF Store!Init, Store!NoRow, Store!NoJob, Store!NoMoves
<1>1. Common
  <2>1. Records /\ Apart
    BY DEF Records, Apart
  <2>2. Players /\ Versions
    BY DEF Players, Versions, Store!Working
  <2> QED BY <2>1, <2>2 DEF Common
<1>2. RowsSorted /\ ToRecord /\ AllThere
  BY DEF RowsSorted, ToRecord, Store!Working, AllThere
<1>3. JobsFresh
  BY DEF JobsFresh, Busy
<1>4. MovesPlanned
  BY DEF MovesPlanned
<1>5. LeftAloneInv
  BY DEF LeftAloneInv, Newest, OneEach, Store!Working
<1>6. NothingNew
  BY DEF NothingNew
<1>7. ItemsOnName /\ RowsOnName
  BY DEF ItemsOnName, RowsOnName
<1>8. JobsOnName
  BY DEF JobsOnName, Busy
<1> QED BY <1>1, <1>2, <1>3, <1>4, <1>5, <1>6, <1>7, <1>8 DEF ArchiveInv, SoloInv, RivalInv

LEMMA NextArchiveInv ==
  ASSUME Store!ArchiveAssumption, ArchiveInv, Store!Next
  PROVE  ArchiveInv'
<1> USE DEF ArchiveInv
<1>1. Common'
  BY NextRecords, NextApart, NextPlayers, NextVersions DEF Common
<1>2. UNCHANGED storeCast /\ storeTaken \subseteq storeTaken'
  BY ZenonT(40) DEF Store!Next, Store!World, Store!CanvasLocks, Store!CanvasReplaces, Store!ChangeRules,
         Store!TakeAway, Store!PutBack, Store!Start, Store!Archive, Store!Pass, Store!Take,
         Store!Finish, Store!Count, Store!Download, Store!Upload, Store!Conflict,
         Store!Record, Store!TimeIsUp, Store!UploadUnheard, Store!WorkFails, Store!Checking,
         Store!CheckOne, Store!CheckEnds, Store!Apply, Store!Rerouting, Store!Recover,
         Store!Move, Store!MoveFails, Store!RecordMove, Store!Die, Store!worldVars,
         Store!procVars
<1>3. ASSUME Solo' PROVE SoloInv'
  <2>1. Solo /\ Alone /\ SoloInv
    BY <1>2, <1>3, OneWorks DEF Solo, Common
  <2> QED
    BY <2>1, NextRowsSorted, NextJobsFresh, NextToRecord, NextMovesPlanned, NextAllThere
       DEF Common, SoloInv
<1>4. ASSUME LeftAlone' PROVE LeftAloneInv'
  <2>1. LeftAlone /\ Alone /\ SoloInv /\ LeftAloneInv
    BY <1>2, <1>4, OneWorks DEF LeftAlone, Solo, Common
  <2> QED BY <2>1, NextNewest, NextOneEach DEF LeftAlone, LeftAloneInv, SoloInv
<1>5. ASSUME (Store!Backfill \in storeCast)' PROVE NothingNew'
  BY <1>2, <1>5, NextNothingNew
<1>6. ASSUME Rivals' PROVE RivalInv'
  <2>1. Rivals /\ storeTaken' = {} /\ NothingNew
    BY <1>2, <1>6 DEF Rivals, Store!Archiver, Store!InPairs
  <2> QED BY <2>1, NextItemsOnName, NextRowsOnName, NextJobsOnName DEF Rivals, RivalInv
<1> QED BY <1>1, <1>3, <1>4, <1>5, <1>6

LEMMA ArchiveInvMeans ==
  ASSUME ArchiveInv
  PROVE  Store!CompleteIsThere /\ Store!NoSecondCopy
<1>1. CASE Solo
  <2>1. Store!CompleteIsThere
    BY <1>1 DEF ArchiveInv, SoloInv, AllThere, Store!CompleteIsThere
  <2>2. Store!NoSecondCopy
    BY <1>1 DEF ArchiveInv, LeftAlone, LeftAloneInv, OneEach, Store!NoSecondCopy
  <2> QED BY <2>1, <2>2
<1>2. CASE ~Solo /\ Store!Harmless
  <2>1. /\ storeTaken = {} /\ Store!InPairs /\ RivalInv /\ Apart
    BY <1>2 DEF ArchiveInv, Common, Store!Harmless, Solo, Rivals
  <2>2. Store!CompleteIsThere
    BY <2>1 DEF RivalInv, RowsOnName, Store!CompleteIsThere, Store!IsThere
  <2>3. ASSUME NEW i \in storeDrive, NEW j \in storeDrive, i.file = j.file,
               i.path = Plain(i.file)
        PROVE  i = j
    BY <2>1, <2>3 DEF RivalInv, ItemsOnName, OnName, Apart
  <2>4. \A i, j \in storeDrive : i.file = j.file => i = j
    <3>1. \A i \in storeDrive : i.path = Plain(i.file) \/ i.path = Tagged(i.file)
      BY <2>1 DEF RivalInv, ItemsOnName, OnName
    <3> QED BY <2>1, <2>3, <3>1 DEF Apart
  <2> QED BY <2>2, <2>4 DEF Store!NoSecondCopy
<1>3. CASE ~Store!Harmless
  BY <1>3 DEF Store!CompleteIsThere, Store!NoSecondCopy
<1> QED BY <1>1, <1>2, <1>3



-----------------------------------------------------------------------------
LEMMA NextArchive ==
  ASSUME Store!ArchiveAssumption, ArchiveInv, [Store!Next]_storeVars
  PROVE  ArchiveInv'
<1>1. CASE Store!Next
  BY <1>1, NextArchiveInv
<1>2. CASE UNCHANGED storeVars
  <2> USE <1>2 DEF storeVars, Store!NoMoves
  <2>1. Common <=> Common'
    BY DEF Common, Records, Apart, Players, Versions, Store!Working
  <2>2. RowsSorted <=> RowsSorted'
    BY DEF RowsSorted
  <2>3. JobsFresh <=> JobsFresh'
    BY DEF JobsFresh, Busy
  <2>4. ToRecord <=> ToRecord'
    BY DEF ToRecord, Store!Working, Store!Takeable
  <2>5. MovesPlanned <=> MovesPlanned'
    BY DEF MovesPlanned, Store!Takeable
  <2>6. AllThere <=> AllThere'
    BY DEF AllThere, Store!IsThere, Store!MovedUnrecorded, Store!Takeable
  <2>7. Newest <=> Newest'
    BY DEF Newest, Mine, Store!Working, Store!Takeable
  <2>8. OneEach <=> OneEach'
    BY DEF OneEach, Store!Takeable
  <2>9. NothingNew <=> NothingNew'
    BY DEF NothingNew
  <2>10. ItemsOnName <=> ItemsOnName'
    BY DEF ItemsOnName, OnName
  <2>11. RowsOnName <=> RowsOnName'
    BY DEF RowsOnName, OnName
  <2>12. JobsOnName <=> JobsOnName'
    BY DEF JobsOnName, OnName, Busy
  <2> QED
    BY <2>1, <2>2, <2>3, <2>4, <2>5, <2>6, <2>7, <2>8, <2>9, <2>10, <2>11, <2>12
       DEF ArchiveInv, Solo, SoloInv, LeftAlone, LeftAloneInv, Rivals, RivalInv
<1> QED BY <1>1, <1>2

LEMMA ArchiveStore == [ArchiveNext]_all => [Store!Next]_storeVars
BY DEF ArchiveNext, all, MirrorStep, StoreStep, ClientStep, TokensStep, GuardStep

(* ArchiveInv holds throughout. *)
LEMMA ArchiveInvHolds == ArchiveSpec => []ArchiveInv
<1> USE ArchiveRunAssumption DEF ArchiveRunAssumption
<1>1. ArchiveInit => ArchiveInv
  BY InitArchiveInv DEF ArchiveInit
<1>2. ArchiveInv /\ [ArchiveNext]_all => ArchiveInv'
  BY ArchiveStore, NextArchive
<1> QED BY <1>1, <1>2, PTL DEF ArchiveSpec

(* A row that says complete is for bytes that are on the drive, whoever    *)
(* died where, with one archiver or with two: stage.ts:19, reroute.ts:11.  *)
THEOREM CompleteRowsHoldGood == ArchiveSpec => []CompleteIsThere
<1>1. ArchiveInv => CompleteIsThere
  BY ArchiveInvMeans DEF CompleteIsThere
<1> QED BY <1>1, ArchiveInvHolds, PTL

(* No version of a file is uploaded twice, whatever dies between an upload *)
(* and the record of it, and whichever answer is lost: stage.ts:13, 308.   *)
THEOREM UploadedOnce == ArchiveSpec => []NoSecondCopy
<1>1. ArchiveInv => NoSecondCopy
  BY ArchiveInvMeans DEF NoSecondCopy
<1> QED BY <1>1, ArchiveInvHolds, PTL

-----------------------------------------------------------------------------
(* The types, of any cast.  A row has a name from the moment it exists,    *)
(* for what is to be done has one, and what is in hand has a row.          *)
Names == Store!Folders \X Base \X Seq(1 .. MaxAlternates)

RowTypes ==
  \A f \in File :
    /\ storeRow[f].state \in {"none", "pending", "failed", "complete"} \cup Store!Skipped
    /\ storeRow[f].state = "none" => storeRow[f].path = Store!NoPath
    /\ storeRow[f].state # "none" => storeRow[f].path \in Names
    /\ storeRow[f].item \in 0 .. storeMade /\ storeRow[f].version \in 0 .. MaxVersion

JobTypes ==
  \A p \in Store!Archiver :
    /\ storePc[p] \in {"idle", "next", "count", "download", "upload", "record", "end"}
    /\ storeMem[p].n \in 0 .. MaxAlternates
    /\ storeMem[p].version \in 0 .. MaxVersion /\ storeMem[p].item \in 0 .. storeMade
    /\ \A c \in storeMem[p].todo : c.file \in File /\ c.path \in Names
    /\ Busy(p) =>
         /\ storeMem[p].path \in Names
         /\ \A f \in storeMem[p].file : f \in File /\ storeRow[f].state # "none"
    /\ storePc[p] = "upload" => storeMem[p].version # 0

MoveTypes ==
  /\ \A m \in storeMoves.left \cup storeMoves.landed :
       m.file \in File /\ m.to \in Names /\ storeRow[m.file].state # "none"
  /\ storeMoves.landed = {} \/ \E m : storeMoves.landed = {m}

ItemTypes == storeDrive \subseteq Store!Item /\ storeTaken \subseteq Store!Item

WorldTypes ==
  /\ storeCanvas \in [File -> [open : BOOLEAN, version : 1 .. MaxVersion]]
  /\ storeFacts \in [File -> [accessible : BOOLEAN, version : 0 .. MaxVersion]]
  /\ storeCheck \in [File -> {"unknown", "present", "missing", "different_item", "size_changed"}]
  /\ \A b \in storeBatch : b.file \in File
  /\ storeMishaps \in 0 .. StoreMishaps /\ storeEdits \in 0 .. StoreEdits

-----------------------------------------------------------------------------
LEMMA NameIs ==
  ASSUME NEW path, path \in Names
  PROVE  /\ IsPath(path) /\ path # Store!NoPath
         /\ path[1] \in Store!Folders /\ path[2] \in Base /\ path[3] \in Seq(1 .. MaxAlternates)
<1>1. PICK a \in Store!Folders, b \in Base, c \in Seq(1 .. MaxAlternates) : path = <<a, b, c>>
  BY DEF Names
<1>2. <<a, b, c>> # <<>>
  <2>1. Len(<<a, b, c>>) = 3 /\ Len(<<>>) = 0
    OBVIOUS
  <2> QED BY <2>1
<1> QED BY <1>1, <1>2 DEF IsPath, Store!NoPath

LEMMA IsName ==
  ASSUME NEW a \in Store!Folders, NEW b \in Base, NEW c \in Seq(1 .. MaxAlternates)
  PROVE  <<a, b, c>> \in Names
BY DEF Names

LEMMA AlternateIsName ==
  ASSUME Store!ArchiveAssumption, NEW p, storeMem[p].path \in Names,
         storeMem[p].n \in 0 .. MaxAlternates, storeMem[p].n # MaxAlternates
  PROVE  Store!Alternate(p) \in Names
<1> DEFINE n == storeMem[p].n
           path == storeMem[p].path
           first == IF n = 0 THEN path ELSE [path EXCEPT ![3] = SubSeq(@, 1, Len(@) - 1)]
<1>1. /\ IsPath(path) /\ path[1] \in Store!Folders /\ path[2] \in Base
      /\ path[3] \in Seq(1 .. MaxAlternates)
  BY NameIs
<1>2. SubSeq(path[3], 1, Len(path[3]) - 1) \in Seq(1 .. MaxAlternates)
  <2> DEFINE s == path[3]
             k == Len(s) - 1
             T == 1 .. MaxAlternates
  <2>1. s \in Seq(T)
    BY <1>1
  <2> HIDE DEF s, T
  <2>2. k \in Int /\ \A i \in 1 .. k : i \in 1 .. Len(s)
    BY <2>1
  <2>3. \A i \in 1 .. k : s[i] \in T
    BY <2>1, <2>2, ElementOfSeq
  <2> HIDE DEF k
  <2>4. SubSeq(s, 1, k) \in Seq(T)
    BY <2>2, <2>3, SubSeqProperties
  <2> QED BY <2>4 DEF s, k, T
<1> HIDE DEF path, n
<1>3. PICK tags \in Seq(1 .. MaxAlternates) : first = <<path[1], path[2], tags>>
  <2>1. CASE n = 0
    BY <1>1, <2>1 DEF IsPath
  <2>2. CASE n # 0
    BY <1>1, <1>2, <2>2, OtherTags
  <2> QED BY <2>1, <2>2
<1>4. Append(tags, n + 1) \in Seq(1 .. MaxAlternates)
  BY AppendProperties DEF n, Store!ArchiveAssumption
<1>5. Store!Alternate(p) = [first EXCEPT ![3] = Append(@, n + 1)]
  BY DEF Store!Alternate, path, n
<1> HIDE DEF first
<1>6. IsPath(first) /\ first[1] = path[1] /\ first[2] = path[2] /\ first[3] = tags
  BY <1>3 DEF IsPath
<1> DEFINE other == Append(tags, n + 1)
<1>7. Store!Alternate(p) = [first EXCEPT ![3] = other] /\ other \in Seq(1 .. MaxAlternates)
  BY <1>4, <1>5, <1>6
<1> HIDE DEF other
<1>8. Store!Alternate(p) = <<path[1], path[2], other>>
  <2>1. [first EXCEPT ![3] = other] = <<first[1], first[2], other>>
    BY <1>6, OtherTags
  <2> QED BY <1>6, <1>7, <2>1
<1>9. <<path[1], path[2], other>> \in Names
  BY <1>1, <1>7, IsName
<1> QED BY <1>8, <1>9

LEMMA RuledIsName ==
  ASSUME NEW path \in Names
  PROVE  [path EXCEPT ![1] = "ruled"] \in Names
<1>1. IsPath(path) /\ path[2] \in Base /\ path[3] \in Seq(1 .. MaxAlternates)
  BY NameIs
<1>2. "ruled" \in Store!Folders
  BY DEF Store!Folders
<1> QED BY <1>1, <1>2, RuledIs, IsName

LEMMA LoadedIs ==
  ASSUME Store!ArchiveAssumption, RowTypes, NEW f \in File, NEW seen
  PROVE  Store!Loaded(f, seen).file = f /\ Store!Loaded(f, seen).path \in Names
<1>1. Store!Path(Store!Route(f), BaseOf[f], <<>>) \in Names
  <2>1. Store!Route(f) \in Store!Folders /\ BaseOf[f] \in Base
    BY DEF Store!Route, Store!Folders, Store!ArchiveAssumption
  <2>2. <<>> \in Seq(1 .. MaxAlternates)
    OBVIOUS
  <2> QED BY <2>1, <2>2, IsName DEF Store!Path
<1> QED BY <1>1 DEF RowTypes, Store!Loaded

LEMMA MadeGrows ==
  ASSUME Apart, Store!Next
  PROVE  storeMade \in Nat /\ storeMade' \in Nat /\ storeMade <= storeMade'
<1>1. CASE UNCHANGED storeMade
  BY <1>1 DEF Apart
<1>2. CASE storeMade' = storeMade + 1
  BY <1>2 DEF Apart
<1> QED
  BY ZenonT(40), <1>1, <1>2 DEF Store!Next, Store!World, Store!CanvasLocks, Store!CanvasReplaces,
         Store!ChangeRules, Store!TakeAway, Store!PutBack, Store!Start, Store!Archive,
         Store!Pass, Store!Take, Store!Finish, Store!Count, Store!Download, Store!Upload,
         Store!Conflict, Store!Record, Store!TimeIsUp, Store!UploadUnheard, Store!WorkFails,
         Store!Checking, Store!CheckOne, Store!CheckEnds, Store!Apply, Store!Rerouting,
         Store!Recover, Store!Move, Store!MoveFails, Store!RecordMove, Store!Die,
         Store!worldVars

LEMMA NextRowTypes ==
  ASSUME Store!ArchiveAssumption, Common, RowTypes, JobTypes, MoveTypes, Store!Next
  PROVE  RowTypes'
<1> USE DEF Common
<1> DEFINE States == {"none", "pending", "failed", "complete"} \cup Store!Skipped
           Typed(r) == /\ r.state \in States
                       /\ r.state = "none" => r.path = Store!NoPath
                       /\ r.state # "none" => r.path \in Names
                       /\ r.item \in 0 .. storeMade' /\ r.version \in 0 .. MaxVersion
<1>1. \A f \in File : Typed(storeRow[f])
  <2>1. 0 .. storeMade \subseteq 0 .. storeMade'
    BY MadeGrows
  <2> QED BY <2>1 DEF RowTypes
<1>2. ASSUME \A f \in File : Typed(storeRow'[f]) PROVE RowTypes'
  BY <1>2 DEF RowTypes
<1>3. CASE UNCHANGED storeRow
  BY <1>1, <1>2, <1>3
<1>4. ASSUME NEW f \in File, NEW state \in States \ {"none"}, storeRow[f].state # "none",
             storeRow'[f].state = state, storeRow'[f].path = storeRow[f].path,
             storeRow'[f].item = storeRow[f].item, storeRow'[f].version = storeRow[f].version,
             \A g \in File : g # f => storeRow'[g] = storeRow[g]
      PROVE  RowTypes'
  BY <1>1, <1>2, <1>4
<1>5. ASSUME NEW f \in File, NEW path \in Names, storeRow[f].state # "none",
             storeRow'[f].state = storeRow[f].state, storeRow'[f].path = path,
             storeRow'[f].item = storeRow[f].item, storeRow'[f].version = storeRow[f].version,
             \A g \in File : g # f => storeRow'[g] = storeRow[g]
      PROVE  RowTypes'
  BY <1>1, <1>2, <1>5
<1>6. ASSUME NEW p \in Store!Archiver, NEW f \in File, Busy(p), storeMem[p].file = {f},
             Over(p, f)
      PROVE  RowTypes'
  <2>1. storeRow[f].state # "none"
    BY <1>6 DEF JobTypes
  <2>2. PICK state \in {"failed", "skipped_size"} :
          storeRow' = [storeRow EXCEPT ![f].state = state]
    BY <1>6 DEF Over
  <2>3. state \in States \ {"none"}
    BY DEF Store!Skipped
  <2> HIDE DEF States, Typed
  <2>4. /\ storeRow'[f].state = state /\ storeRow'[f].path = storeRow[f].path
        /\ storeRow'[f].item = storeRow[f].item /\ storeRow'[f].version = storeRow[f].version
        /\ \A g \in File : g # f => storeRow'[g] = storeRow[g]
    BY <2>2 DEF Records
  <2> QED BY <1>4, <2>1, <2>3, <2>4
<1>7. ASSUME NEW p \in Store!Archiver, NEW f \in File,
             Store!Download(p, f) \/ Store!UploadUnheard(p, f) \/ Store!WorkFails(p, f)
      PROVE  RowTypes'
  <2>1. Busy(p) /\ storeMem[p].file = {f}
    BY <1>7, DownloadIs, UnheardIs, WorkFailsIs DEF Busy, Store!Working
  <2> QED BY <1>3, <1>6, <1>7, <2>1, DownloadIs, UnheardIs, WorkFailsIs DEF Downloaded
<1>8. ASSUME NEW p \in Store!Archiver, NEW f \in File, Store!Conflict(p, f) PROVE RowTypes'
  <2>1. Busy(p) /\ storeMem[p].file = {f}
    BY <1>8, ConflictIs DEF Busy, Store!Working
  <2>2. ASSUME Renamed(p, f), storeMem[p].n # MaxAlternates PROVE RowTypes'
    <3>1. storeRow[f].state # "none" /\ Store!Alternate(p) \in Names
      BY <2>1, <2>2, AlternateIsName DEF JobTypes
    <3>2. /\ storeRow'[f].state = storeRow[f].state /\ storeRow'[f].path = Store!Alternate(p)
          /\ storeRow'[f].item = storeRow[f].item
          /\ storeRow'[f].version = storeRow[f].version
          /\ \A g \in File : g # f => storeRow'[g] = storeRow[g]
      BY <2>2 DEF Records, Renamed
    <3> HIDE DEF Typed, States
    <3> QED BY <1>5, <3>1, <3>2
  <2> QED BY <1>3, <1>6, <1>8, <2>1, <2>2, ConflictIs DEF Found
<1>9. ASSUME NEW p \in Store!Archiver, NEW f \in File, Store!Count(p, f) PROVE RowTypes'
  <2>1. storeRow[f].state # "none"
    BY <1>9 DEF JobTypes, Store!Count, Store!Working, Busy
  <2>2. /\ storeRow'[f].state = "pending" /\ storeRow'[f].path = storeRow[f].path
        /\ storeRow'[f].item = storeRow[f].item
        /\ storeRow'[f].version = storeRow[f].version
        /\ \A g \in File : g # f => storeRow'[g] = storeRow[g]
    BY <1>9 DEF Records, Store!Count
  <2> QED BY <1>4, <2>1, <2>2
<1>10. ASSUME NEW p \in Store!Archiver, NEW f \in File, Store!Record(p, f) PROVE RowTypes'
  <2>1. /\ storeMem[p].path \in Names /\ storeMem[p].item \in 0 .. storeMade
        /\ storeMem[p].version \in 0 .. MaxVersion
    BY <1>10 DEF JobTypes, Store!Record, Store!Working, Busy
  <2>2. /\ storeRow'[f].state = "complete" /\ storeRow'[f].path = storeMem[p].path
        /\ storeRow'[f].item = storeMem[p].item
        /\ storeRow'[f].version = storeMem[p].version
        /\ \A g \in File : g # f => storeRow'[g] = storeRow[g]
    BY <1>10 DEF Records, Store!Record
  <2>3. storeMem[p].item \in 0 .. storeMade'
    BY <2>1, MadeGrows
  <2> QED BY <1>1, <1>2, <2>1, <2>2, <2>3
<1>11. ASSUME NEW p \in Store!Archiver, Store!Take(p) PROVE RowTypes'
  <2>1. PICK c \in storeMem[p].todo :
          storeRow' = [storeRow EXCEPT ![c.file] = Store!Reserved(c)]
    BY <1>11, TakeIs
  <2>2. c.file \in File /\ c.path \in Names
    BY DEF JobTypes
  <2>3. /\ storeRow'[c.file] = Store!Reserved(c)
        /\ \A g \in File : g # c.file => storeRow'[g] = storeRow[g]
    BY <2>1, <2>2 DEF Records
  <2>4. Typed(Store!Reserved(c))
    <3>1. CASE storeRow[c.file].state # "none"
      BY <1>1, <2>2, <3>1, ReservedIs
    <3>2. CASE storeRow[c.file].state = "none"
      <4>1. Store!Reserved(c).item = 0 /\ Store!Reserved(c).version = 0
        BY <3>2 DEF Store!Reserved, Store!NoRow
      <4>2. 0 \in 0 .. storeMade' /\ 0 \in 0 .. MaxVersion
        BY MadeGrows DEF Store!ArchiveAssumption
      <4>3. /\ Store!Reserved(c).state \in States \ {"none"}
            /\ Store!Reserved(c).path = c.path
        BY <3>2, ReservedIs DEF Store!Skipped
      <4> QED BY <2>2, <4>1, <4>2, <4>3
    <3> QED BY <3>1, <3>2
  <2> QED BY <1>1, <1>2, <2>3, <2>4
<1>12. ASSUME NEW m \in storeMoves.left \cup storeMoves.landed, Store!RecordMove(m)
       PROVE RowTypes'
  <2>1. m.file \in File /\ m.to \in Names /\ storeRow[m.file].state # "none"
    BY DEF MoveTypes
  <2>2. CASE ~storeRow[m.file].reroutable
    BY <1>3, <1>12, <2>2 DEF Store!RecordMove
  <2>3. CASE storeRow[m.file].reroutable
    <3>1. storeRow' = [storeRow EXCEPT ![m.file].path = m.to, ![m.file].reroutable = FALSE]
      BY <1>12, <2>3 DEF Store!RecordMove
    <3>2. /\ storeRow'[m.file].state = storeRow[m.file].state
          /\ storeRow'[m.file].path = m.to /\ storeRow'[m.file].item = storeRow[m.file].item
          /\ storeRow'[m.file].version = storeRow[m.file].version
          /\ \A g \in File : g # m.file => storeRow'[g] = storeRow[g]
      BY <2>1, <3>1 DEF Records
    <3> QED BY <1>5, <2>1, <3>2
  <2> QED BY <2>2, <2>3
<1> HIDE DEF Typed, States
<1> QED
  BY <1>3, <1>7, <1>8, <1>9, <1>10, <1>11, <1>12 DEF Store!Next, Store!World,
         Store!CanvasLocks, Store!CanvasReplaces, Store!ChangeRules, Store!TakeAway,
         Store!PutBack, Store!Start, Store!Archive, Store!Pass, Store!Finish, Store!Upload,
         Store!TimeIsUp, Store!Checking, Store!CheckOne, Store!CheckEnds, Store!Apply,
         Store!Rerouting, Store!Recover, Store!Move, Store!MoveFails, Store!Die, Store!dbVars

LEMMA NextJobTypes ==
  ASSUME Store!ArchiveAssumption, Common, RowTypes, JobTypes, ItemTypes, WorldTypes, Store!Next
  PROVE  JobTypes'
<1> USE DEF Common
<1> DEFINE Steps == {"idle", "next", "count", "download", "upload", "record", "end"}
           JobTyped(q) ==
             /\ storePc[q] \in Steps
             /\ storeMem[q].n \in 0 .. MaxAlternates
             /\ storeMem[q].version \in 0 .. MaxVersion /\ storeMem[q].item \in 0 .. storeMade
             /\ \A c \in storeMem[q].todo : c.file \in File /\ c.path \in Names
             /\ Busy(q) =>
                  /\ storeMem[q].path \in Names
                  /\ \A f \in storeMem[q].file : f \in File /\ storeRow[f].state # "none"
             /\ storePc[q] = "upload" => storeMem[q].version # 0
           Same(q) == storeMem'[q] = storeMem[q] /\ storePc'[q] = storePc[q]
           Others(p) == \A q \in Store!Archiver : q # p => Same(q)
<1>1. /\ 0 .. storeMade \subseteq 0 .. storeMade'
      /\ \A f \in File : storeRow[f].state # "none" => storeRow'[f].state # "none"
      /\ 0 \in 0 .. storeMade' /\ 0 \in 0 .. MaxVersion /\ 0 \in 0 .. MaxAlternates
  BY MadeGrows, RowsStay DEF Store!ArchiveAssumption
<1>2. \A q \in Store!Archiver : JobTyped(q)
  BY DEF JobTypes
<1>3. ASSUME NEW q \in Store!Archiver, Same(q) PROVE JobTyped(q)'
  <2>1. JobTyped(q)
    BY <1>2
  <2> QED BY <1>1, <1>3, <2>1 DEF Busy
<1>4. ASSUME NEW p \in Store!Archiver, JobTyped(p)', Others(p) PROVE JobTypes'
  <2>1. \A q \in Store!Archiver : JobTyped(q)'
    BY <1>3, <1>4
  <2> QED BY <2>1 DEF JobTypes
<1>5. CASE UNCHANGED <<storePc, storeMem>>
  <2>1. \A q \in Store!Archiver : JobTyped(q)'
    BY <1>3, <1>5
  <2> QED BY <2>1 DEF JobTypes
<1>6. ASSUME NEW p \in Store!Archiver, storePc'[p] \in {"idle", "next", "end"},
             storeMem'[p].n \in 0 .. MaxAlternates, storeMem'[p].version \in 0 .. MaxVersion,
             storeMem'[p].item \in 0 .. storeMade', Others(p),
             \A c \in storeMem'[p].todo : c.file \in File /\ c.path \in Names
      PROVE  JobTypes'
  <2>1. JobTyped(p)'
    BY <1>6 DEF Busy
  <2> QED BY <1>4, <1>6, <2>1
<1>7. ASSUME NEW p \in Store!Archiver, NEW f \in File, storeMem'[p].file = {f},
             storeRow'[f].state # "none", storeMem'[p].path \in Names,
             storePc'[p] \in {"count", "download", "upload", "record"},
             storePc'[p] = "upload" => storeMem'[p].version # 0,
             storeMem'[p].n \in 0 .. MaxAlternates, storeMem'[p].version \in 0 .. MaxVersion,
             storeMem'[p].item \in 0 .. storeMade', Others(p),
             storeMem'[p].todo \subseteq storeMem[p].todo
      PROVE  JobTypes'
  <2>1. \A c \in storeMem'[p].todo : c.file \in File /\ c.path \in Names
    BY <1>2, <1>7
  <2>2. JobTyped(p)'
    BY <1>7, <2>1
  <2> QED BY <1>4, <1>7, <2>2
<1> HIDE DEF JobTyped
<1>8. ASSUME NEW p \in Store!Archiver, NEW step \in {"idle", "next", "end"},
             Store!Set(p, step, Store!NoJob)
      PROVE  JobTypes'
  <2>1. /\ storePc'[p] = step /\ storeMem'[p] = Store!NoJob /\ Others(p)
    BY <1>8 DEF Records, Store!Set
  <2>2. /\ Store!NoJob.n = 0 /\ Store!NoJob.version = 0 /\ Store!NoJob.item = 0
        /\ Store!NoJob.todo = {}
    BY DEF Store!NoJob
  <2> QED BY <1>1, <1>6, <2>1, <2>2
<1>9. ASSUME NEW p \in Store!Archiver, Store!Start(p) PROVE JobTypes'
  <2>1. PICK s \in Store!Candidates :
          Store!Set(p, "next", [Store!NoJob EXCEPT
                                      !.todo = {Store!Loaded(f, storeFacts'[f]) : f \in s}])
    BY <1>9 DEF Store!Start
  <2>2. s \subseteq File
    BY DEF Store!Candidates, Store!Wanted
  <2>3. /\ storePc'[p] = "next" /\ storeMem'[p].n = 0 /\ storeMem'[p].version = 0
        /\ storeMem'[p].item = 0 /\ Others(p)
        /\ storeMem'[p].todo = {Store!Loaded(f, storeFacts'[f]) : f \in s}
    BY <2>1 DEF Store!Set, Records, Store!NoJob
  <2>4. \A c \in storeMem'[p].todo : c.file \in File /\ c.path \in Names
    BY <2>2, <2>3, LoadedIs
  <2> QED BY <1>1, <1>6, <2>3, <2>4
<1>10. ASSUME NEW p \in Store!Archiver, Store!Pass(p) PROVE JobTypes'
  <2>1. /\ storePc'[p] = "next" /\ storeMem'[p].n = storeMem[p].n
        /\ storeMem'[p].version = storeMem[p].version
        /\ storeMem'[p].item = storeMem[p].item /\ Others(p)
        /\ storeMem'[p].todo \subseteq storeMem[p].todo
    BY <1>10 DEF Store!Pass, Records
  <2>2. JobTyped(p)
    BY <1>2
  <2> QED BY <1>1, <1>6, <2>1, <2>2 DEF JobTyped
<1>11. ASSUME NEW p \in Store!Archiver, Store!Finish(p) \/ Store!TimeIsUp(p) PROVE JobTypes'
  <2>1. Store!Set(p, "idle", Store!NoJob) \/ Store!Set(p, "end", Store!NoJob)
    BY <1>11 DEF Store!Finish, Store!TimeIsUp
  <2> QED BY <1>8, <2>1
<1>12. ASSUME NEW p \in Store!Archiver, Store!Take(p) PROVE JobTypes'
  <2>1. PICK c \in storeMem[p].todo :
          /\ storeRow' = [storeRow EXCEPT ![c.file] = Store!Reserved(c)]
          /\ \/ Store!Set(p, "next", [storeMem[p] EXCEPT !.todo = @ \ {c}])
             \/ Store!Set(p, "end", Store!NoJob)
             \/ /\ ~Store!TooLarge(c)
                /\ Store!Set(p, "count", [storeMem[p] EXCEPT !.todo = @ \ {c}, !.file = {c.file},
                                                             !.path = c.path])
    BY <1>12, TakeIs
  <2>2. JobTyped(p)
    BY <1>2
  <2>3. CASE Store!Set(p, "next", [storeMem[p] EXCEPT !.todo = @ \ {c}])
    <3>1. /\ storePc'[p] = "next" /\ storeMem'[p].n = storeMem[p].n
          /\ storeMem'[p].version = storeMem[p].version
          /\ storeMem'[p].item = storeMem[p].item /\ Others(p)
          /\ storeMem'[p].todo \subseteq storeMem[p].todo
      BY <2>3 DEF Store!Set, Records
    <3> QED BY <1>1, <1>6, <2>2, <3>1 DEF JobTyped
  <2>4. CASE Store!Set(p, "end", Store!NoJob)
    BY <1>8, <2>4
  <2>5. CASE Store!Set(p, "count", [storeMem[p] EXCEPT !.todo = @ \ {c}, !.file = {c.file},
                                                       !.path = c.path])
    <3>1. c.file \in File /\ c.path \in Names
      BY <2>2 DEF JobTyped
    <3>2. /\ storePc'[p] = "count" /\ storeMem'[p].n = storeMem[p].n
          /\ storeMem'[p].version = storeMem[p].version
          /\ storeMem'[p].item = storeMem[p].item /\ Others(p)
          /\ storeMem'[p].file = {c.file} /\ storeMem'[p].path = c.path
          /\ storeMem'[p].todo \subseteq storeMem[p].todo
      BY <2>5 DEF Store!Set, Records
    <3>3. storeRow'[c.file].state # "none"
      BY <2>1, <3>1, ReservedIs DEF Records
    <3> QED BY <1>1, <1>7, <2>2, <3>1, <3>2, <3>3 DEF JobTyped
  <2> QED BY <2>1, <2>3, <2>4, <2>5
<1>13. ASSUME NEW p \in Store!Archiver, NEW f \in File, Over(p, f) PROVE JobTypes'
  <2>1. /\ storePc'[p] \in {"next", "end"} /\ storeMem'[p].n = 0
        /\ storeMem'[p].version = 0 /\ storeMem'[p].item = 0 /\ Others(p)
        /\ storeMem'[p].todo \subseteq storeMem[p].todo
    BY <1>13, OverIs
  <2>2. JobTyped(p)
    BY <1>2
  <2> QED BY <1>1, <1>6, <2>1, <2>2 DEF JobTyped
<1>14. ASSUME NEW p \in Store!Archiver, NEW f \in File, Busy(p), storeMem[p].file = {f},
              storePc'[p] \in {"count", "download", "upload", "record"},
              storeMem'[p].file = storeMem[p].file, storeMem'[p].path \in Names,
              storePc'[p] = "upload" => storeMem'[p].version # 0,
              storeMem'[p].n \in 0 .. MaxAlternates, storeMem'[p].version \in 0 .. MaxVersion,
              storeMem'[p].item \in 0 .. storeMade', Others(p),
              storeMem'[p].todo = storeMem[p].todo
       PROVE  JobTypes'
  <2>1. storeRow'[f].state # "none"
    BY <1>1, <1>2, <1>14 DEF JobTyped
  <2> QED BY <1>7, <1>14, <2>1
<1>15. ASSUME NEW p \in Store!Archiver, NEW f \in File, Store!Count(p, f) PROVE JobTypes'
  <2>1. /\ Busy(p) /\ storeMem[p].file = {f} /\ storePc'[p] = "download"
        /\ storeMem'[p] = storeMem[p] /\ Others(p)
    BY <1>15 DEF Store!Count, Store!Working, Store!Set, Busy, Records
  <2>2. JobTyped(p)
    BY <1>2
  <2> QED BY <1>1, <1>14, <2>1, <2>2 DEF JobTyped
<1>16. ASSUME NEW p \in Store!Archiver, NEW f \in File, Store!Download(p, f) PROVE JobTypes'
  <2>1. Busy(p) /\ storeMem[p].file = {f}
    BY <1>16, DownloadIs DEF Store!Working, Busy
  <2>2. JobTyped(p)
    BY <1>2
  <2>3. CASE Downloaded(p, f)
    <3>1. /\ storePc'[p] = "upload" /\ storeMem'[p].version = storeCanvas[f].version
          /\ storeMem'[p].n = storeMem[p].n /\ storeMem'[p].item = storeMem[p].item
          /\ storeMem'[p].file = storeMem[p].file /\ storeMem'[p].path = storeMem[p].path
          /\ storeMem'[p].todo = storeMem[p].todo /\ Others(p)
      BY <2>3 DEF Downloaded, Store!Set, Records
    <3>2. storeCanvas[f].version \in 1 .. MaxVersion
      BY DEF WorldTypes
    <3>3. storeCanvas[f].version \in 0 .. MaxVersion /\ storeCanvas[f].version # 0
      BY <3>2 DEF Store!ArchiveAssumption
    <3> QED BY <1>1, <1>14, <2>1, <2>2, <3>1, <3>3 DEF JobTyped
  <2> QED BY <1>13, <1>16, <2>3, DownloadIs
<1>17. ASSUME NEW p \in Store!Archiver, NEW f \in File, NEW id \in 0 .. storeMade',
              Store!Working(p, "upload", f),
              Store!Set(p, "record", [storeMem[p] EXCEPT !.item = id])
       PROVE  JobTypes'
  <2>1. Busy(p) /\ storeMem[p].file = {f}
    BY <1>17 DEF Store!Working, Busy
  <2>2. JobTyped(p)
    BY <1>2
  <2>3. /\ storePc'[p] = "record" /\ storeMem'[p].version = storeMem[p].version
        /\ storeMem'[p].n = storeMem[p].n /\ storeMem'[p].item = id
        /\ storeMem'[p].file = storeMem[p].file /\ storeMem'[p].path = storeMem[p].path
        /\ storeMem'[p].todo = storeMem[p].todo /\ Others(p)
    BY <1>17 DEF Store!Set, Records
  <2> QED BY <1>14, <2>1, <2>2, <2>3 DEF JobTyped
<1>18. ASSUME NEW p \in Store!Archiver, NEW f \in File, Store!Upload(p, f) PROVE JobTypes'
  <2>1. Store!New(p, f).id \in 0 .. storeMade'
    BY <1>18 DEF Store!Upload, Store!New, Apart
  <2> QED BY <1>17, <1>18, <2>1 DEF Store!Upload, Store!Adopted
<1>19. ASSUME NEW p \in Store!Archiver, NEW f \in File, Store!Conflict(p, f) PROVE JobTypes'
  <2>1. Store!Working(p, "upload", f) /\ Busy(p) /\ storeMem[p].file = {f}
    BY <1>19, ConflictIs DEF Store!Working, Busy
  <2>2. JobTyped(p)
    BY <1>2
  <2>3. ASSUME NEW i \in Store!At(storeMem[p].path), Found(p, f, i) PROVE JobTypes'
    <3>1. i.id \in 0 .. storeMade
      BY DEF Store!At, ItemTypes, Store!Item
    <3>2. i.id \in 0 .. storeMade'
      BY <1>1, <3>1
    <3> QED BY <1>17, <2>1, <2>3, <3>2 DEF Found
  <2>4. ASSUME Renamed(p, f), storeMem[p].n # MaxAlternates PROVE JobTypes'
    <3>1. /\ storePc'[p] = "upload" /\ storeMem'[p].version = storeMem[p].version
          /\ storeMem'[p].n = storeMem[p].n + 1 /\ storeMem'[p].item = storeMem[p].item
          /\ storeMem'[p].file = storeMem[p].file
          /\ storeMem'[p].path = Store!Alternate(p)
          /\ storeMem'[p].todo = storeMem[p].todo /\ Others(p)
      BY <2>4 DEF Renamed, Store!Set, Records
    <3>2. storeMem[p].path \in Names /\ storeMem[p].n \in 0 .. MaxAlternates
      BY <2>1, <2>2 DEF JobTyped
    <3>3. Store!Alternate(p) \in Names
      BY <2>4, <3>2, AlternateIsName
    <3>4. storeMem'[p].n \in 0 .. MaxAlternates
      BY <2>4, <3>1, <3>2 DEF Store!ArchiveAssumption
    <3>5. /\ storeMem'[p].version \in 0 .. MaxVersion /\ storeMem'[p].version # 0
          /\ storeMem'[p].item \in 0 .. storeMade'
      BY <1>1, <2>1, <2>2, <3>1 DEF JobTyped, Store!Working
    <3> QED BY <1>14, <2>1, <3>1, <3>3, <3>4, <3>5
  <2> QED BY <1>13, <1>19, <2>3, <2>4, ConflictIs
<1>20. ASSUME NEW p \in Store!Archiver, NEW f \in File, Store!Record(p, f) PROVE JobTypes'
  <2>1. /\ storePc'[p] = "next" /\ storeMem'[p].n = 0 /\ storeMem'[p].version = 0
        /\ storeMem'[p].item = 0 /\ storeMem'[p].todo = storeMem[p].todo /\ Others(p)
    BY <1>20 DEF Store!Record, Store!Set, Records, Store!NoJob
  <2>2. JobTyped(p)
    BY <1>2
  <2> QED BY <1>1, <1>6, <2>1, <2>2 DEF JobTyped
<1>21. ASSUME NEW p \in storeCast, Store!Die(p) PROVE JobTypes'
  BY <1>5, <1>8, <1>21 DEF Store!Die
<1>22. ASSUME NEW p \in Store!Archiver, NEW f \in File,
              Store!UploadUnheard(p, f) \/ Store!WorkFails(p, f)
       PROVE  JobTypes'
  BY <1>13, <1>22, UnheardIs, WorkFailsIs
<1> HIDE DEF Same, Others
<1> QED
  BY <1>5, <1>9, <1>10, <1>11, <1>12, <1>15, <1>16, <1>18, <1>19, <1>20, <1>21, <1>22
     DEF Store!Next, Store!World, Store!CanvasLocks, Store!CanvasReplaces, Store!ChangeRules,
         Store!TakeAway, Store!PutBack, Store!Archive, Store!Checking, Store!CheckOne,
         Store!CheckEnds, Store!Apply, Store!Rerouting, Store!Recover, Store!Move,
         Store!MoveFails, Store!RecordMove, Store!procVars

LEMMA NextMoveTypes ==
  ASSUME Common, RowTypes, MoveTypes, Store!Next
  PROVE  MoveTypes'
<1> USE DEF Common
<1> DEFINE Typed(m) == m.file \in File /\ m.to \in Names /\ storeRow'[m.file].state # "none"
<1>1. \A m \in storeMoves.left \cup storeMoves.landed : Typed(m)
  BY RowsStay DEF MoveTypes
<1>2. ASSUME \A m \in storeMoves'.left \cup storeMoves'.landed : Typed(m),
             storeMoves'.landed = {} \/ \E m : storeMoves'.landed = {m}
      PROVE  MoveTypes'
  BY <1>2 DEF MoveTypes
<1>3. CASE UNCHANGED storeMoves
  BY <1>1, <1>2, <1>3 DEF MoveTypes
<1>4. CASE storeMoves' = Store!NoMoves
  BY <1>2, <1>4 DEF Store!NoMoves
<1>5. ASSUME NEW m \in storeMoves.left \cup storeMoves.landed, Store!Landed(m) \/ Store!GaveUp(m)
      PROVE  MoveTypes'
  <2>1. CASE Store!Landed(m)
    <3>1. storeMoves'.left \subseteq storeMoves.left /\ storeMoves'.landed = {m}
      BY <2>1 DEF Store!Landed
    <3> QED BY <1>1, <1>2, <3>1
  <2>2. CASE Store!GaveUp(m)
    <3>1. storeMoves'.left \subseteq storeMoves.left /\ storeMoves'.landed = storeMoves.landed
      BY <2>2 DEF Store!GaveUp, Records
    <3> QED BY <1>1, <1>2, <3>1 DEF MoveTypes
  <2> QED BY <1>5, <2>1, <2>2
<1>6. ASSUME NEW m \in storeMoves.left \cup storeMoves.landed, Store!RecordMove(m)
      PROVE  MoveTypes'
  <2>1. storeMoves'.left = storeMoves.left /\ storeMoves'.landed = {}
    BY <1>6 DEF Store!RecordMove, Records
  <2> QED BY <1>1, <1>2, <2>1
<1>7. CASE Store!Apply
  <2>1. /\ storeMoves'.left = Store!Planned /\ storeMoves'.landed = {}
        /\ UNCHANGED storeRow
    BY <1>7 DEF Store!Apply, Store!NoMoves, Store!dbVars
  <2>2. ASSUME NEW m \in Store!Planned PROVE Typed(m)
    <3>1. PICK f \in storeRules :
            /\ storeRow[f].state = "complete"
            /\ m.file = f /\ m.to = [storeRow[f].path EXCEPT ![1] = "ruled"]
      BY DEF Store!Planned
    <3>2. f \in File /\ storeRow[f].path \in Names
      BY <3>1 DEF Records, RowTypes
    <3> QED BY <2>1, <3>1, <3>2, RuledIsName
  <2> QED BY <1>2, <2>1, <2>2
<1> HIDE DEF Typed
<1> QED
  BY ZenonT(40), <1>3, <1>4, <1>5, <1>6, <1>7 DEF Store!Next, Store!World, Store!CanvasLocks,
         Store!CanvasReplaces, Store!ChangeRules, Store!TakeAway, Store!PutBack, Store!Start,
         Store!Archive, Store!Pass, Store!Take, Store!Finish, Store!Count, Store!Download,
         Store!Upload, Store!Conflict, Store!Record, Store!TimeIsUp, Store!UploadUnheard,
         Store!WorkFails, Store!Checking, Store!CheckOne, Store!CheckEnds, Store!Rerouting,
         Store!Recover, Store!Move, Store!MoveFails, Store!Die, Store!procVars

LEMMA ItemIs ==
  ASSUME NEW path \in Names, NEW id \in 1 .. storeMade', NEW f \in File,
         NEW version \in 1 .. MaxVersion
  PROVE  [path |-> path, id |-> id, file |-> f, version |-> version] \in Store!Item'
BY DEF Store!Item, Names

LEMMA NextItemTypes ==
  ASSUME Store!ArchiveAssumption, Common, JobTypes, MoveTypes, ItemTypes, Store!Next
  PROVE  ItemTypes'
<1> USE DEF Common
<1>1. Store!Item \subseteq Store!Item'
  <2>1. 1 .. storeMade \subseteq 1 .. storeMade'
    BY MadeGrows
  <2> QED BY <2>1 DEF Store!Item
<1>2. storeDrive \subseteq Store!Item' /\ storeTaken \subseteq Store!Item'
  BY <1>1 DEF ItemTypes
<1>3. CASE UNCHANGED <<storeDrive, storeTaken>>
  BY <1>2, <1>3 DEF ItemTypes
<1>4. ASSUME NEW p \in Store!Archiver, NEW f \in File,
             Store!Upload(p, f) \/ Store!UploadUnheard(p, f)
      PROVE  ItemTypes'
  <2>1. /\ Store!Working(p, "upload", f) /\ UNCHANGED storeTaken
        /\ storeDrive' = storeDrive \cup {Store!New(p, f)} /\ storeMade' = storeMade + 1
    BY <1>4 DEF Store!Upload, Store!UploadUnheard
  <2>2. /\ storeMem[p].path \in Names /\ storeMem[p].version \in 1 .. MaxVersion
    BY <2>1 DEF JobTypes, Busy, Store!Working, Store!ArchiveAssumption
  <2>3. storeMade + 1 \in 1 .. storeMade'
    BY <2>1 DEF Apart
  <2>4. Store!New(p, f) \in Store!Item'
    BY <2>2, <2>3, ItemIs DEF Store!New
  <2> QED BY <1>2, <2>1, <2>4 DEF ItemTypes
<1>5. ASSUME NEW m \in storeMoves.left \cup storeMoves.landed, Store!Move(m) PROVE ItemTypes'
  <2>1. PICK i \in storeDrive : storeDrive' = (storeDrive \ {i}) \cup {[i EXCEPT !.path = m.to]}
    BY <1>5 DEF Store!Move, Store!Moved, Store!At
  <2>2. UNCHANGED storeTaken
    BY <1>5 DEF Store!Move
  <2>3. m.to \in Names
    BY DEF MoveTypes
  <2>4. i \in Store!Item'
    BY <1>2
  <2>5. [i EXCEPT !.path = m.to] =
          [path |-> m.to, id |-> i.id, file |-> i.file, version |-> i.version]
    BY <2>4 DEF Store!Item
  <2>6. i.id \in 1 .. storeMade' /\ i.file \in File /\ i.version \in 1 .. MaxVersion
    BY <2>4 DEF Store!Item
  <2>7. [i EXCEPT !.path = m.to] \in Store!Item'
    BY <2>3, <2>5, <2>6, ItemIs
  <2> QED BY <1>2, <2>1, <2>2, <2>7 DEF ItemTypes
<1>6. ASSUME NEW i \in storeDrive, Store!TakeAway(i) PROVE ItemTypes'
  BY <1>2, <1>6 DEF ItemTypes, Store!TakeAway
<1>7. ASSUME NEW i \in storeTaken \ storeDrive, Store!PutBack(i) PROVE ItemTypes'
  BY <1>2, <1>7 DEF ItemTypes, Store!PutBack
<1> QED
  BY ZenonT(40), <1>3, <1>4, <1>5, <1>6, <1>7 DEF Store!Next, Store!World, Store!CanvasLocks,
         Store!CanvasReplaces, Store!ChangeRules, Store!Start,
         Store!Archive, Store!Pass, Store!Take, Store!Finish, Store!Count, Store!Download,
         Store!Conflict, Store!Record, Store!TimeIsUp,
         Store!WorkFails, Store!Checking, Store!CheckOne, Store!CheckEnds, Store!Apply,
         Store!Rerouting, Store!Recover, Store!MoveFails, Store!RecordMove, Store!Die,
         Store!worldVars

LEMMA NextWorldTypes ==
  ASSUME Store!ArchiveAssumption, Common, WorldTypes, Store!Next
  PROVE  WorldTypes'
<1>1. (storeCanvas \in [File -> [open : BOOLEAN, version : 1 .. MaxVersion]])'
  <2>1. CASE UNCHANGED storeCanvas
    BY <2>1 DEF WorldTypes
  <2>2. ASSUME NEW f \in File, Store!CanvasLocks(f)
        PROVE (storeCanvas \in [File -> [open : BOOLEAN, version : 1 .. MaxVersion]])'
    <3>1. PICK b \in BOOLEAN : storeCanvas' = [storeCanvas EXCEPT ![f].open = b]
      BY <2>2, Zenon DEF Store!CanvasLocks
    <3>2. storeCanvas \in [File -> [open : BOOLEAN, version : 1 .. MaxVersion]]
      BY DEF WorldTypes
    <3> HIDE DEF WorldTypes
    <3> QED BY <3>1, <3>2
  <2>3. ASSUME NEW f \in File, Store!CanvasReplaces(f)
        PROVE (storeCanvas \in [File -> [open : BOOLEAN, version : 1 .. MaxVersion]])'
    <3>1. PICK v \in storeCanvas[f].version + 1 .. MaxVersion :
                 storeCanvas' = [storeCanvas EXCEPT ![f].version = v]
      BY <2>3 DEF Store!CanvasReplaces
    <3>2. storeCanvas \in [File -> [open : BOOLEAN, version : 1 .. MaxVersion]]
      BY DEF WorldTypes
    <3>3. v \in 1 .. MaxVersion
      BY <3>2 DEF Store!ArchiveAssumption
    <3> QED BY <3>1, <3>2, <3>3
  <2> QED
    BY ZenonT(40), <2>1, <2>2, <2>3 DEF Store!Next, Store!World, Store!ChangeRules, Store!TakeAway,
         Store!PutBack, Store!Start, Store!Archive, Store!Pass, Store!Take, Store!Finish,
         Store!Count, Store!Download, Store!Upload, Store!Conflict, Store!Record,
         Store!TimeIsUp, Store!UploadUnheard, Store!WorkFails, Store!Checking,
         Store!CheckOne, Store!CheckEnds, Store!Apply, Store!Rerouting, Store!Recover,
         Store!Move, Store!MoveFails, Store!RecordMove, Store!Die, Store!worldVars
<1>2. (storeFacts \in [File -> [accessible : BOOLEAN, version : 0 .. MaxVersion]])'
  <2>1. CASE UNCHANGED storeFacts
    BY <2>1 DEF WorldTypes
  <2>2. ASSUME NEW p \in Store!Archiver, Store!Start(p)
        PROVE (storeFacts \in [File -> [accessible : BOOLEAN, version : 0 .. MaxVersion]])'
    <3>1. /\ storeFacts' = [f \in File |-> storeFacts'[f]]
          /\ \A f \in File : storeFacts'[f] \in {Store!Seen(f), storeFacts[f]}
      BY <2>2 DEF Store!Start
    <3>2. ASSUME NEW f \in File
          PROVE Store!Seen(f) \in [accessible : BOOLEAN, version : 0 .. MaxVersion]
      <4>1. (storeCanvas[f].open \/ f \in Linked) \in BOOLEAN
        OBVIOUS
      <4>2. storeCanvas[f].version \in 0 .. MaxVersion
        <5>1. storeCanvas[f].version \in 1 .. MaxVersion
          BY DEF WorldTypes
        <5> QED BY <5>1 DEF Store!ArchiveAssumption
      <4> QED BY <4>1, <4>2, Zenon DEF Store!Seen
    <3>3. storeFacts \in [File -> [accessible : BOOLEAN, version : 0 .. MaxVersion]]
      BY DEF WorldTypes
    <3> QED BY <3>1, <3>2, <3>3
  <2> QED
    BY ZenonT(40), <2>1, <2>2 DEF Store!Next, Store!World, Store!CanvasLocks, Store!CanvasReplaces,
         Store!ChangeRules, Store!TakeAway,
         Store!PutBack, Store!Archive, Store!Pass, Store!Take, Store!Finish,
         Store!Count, Store!Download, Store!Upload, Store!Conflict, Store!Record,
         Store!TimeIsUp, Store!UploadUnheard, Store!WorkFails, Store!Checking,
         Store!CheckOne, Store!CheckEnds, Store!Apply, Store!Rerouting, Store!Recover,
         Store!Move, Store!MoveFails, Store!RecordMove, Store!Die, Store!dbVars
<1>3. (\A b \in storeBatch : b.file \in File)'
  <2>1. CASE storeBatch' \subseteq storeBatch
    BY <2>1 DEF WorldTypes
  <2>2. ASSUME NEW p \in Store!Archiver, Store!Finish(p)
        PROVE (\A b \in storeBatch : b.file \in File)'
    BY <2>1, <2>2 DEF Store!Finish
  <2> QED
    BY ZenonT(40), <2>1, <2>2 DEF Store!Next, Store!World, Store!CanvasLocks, Store!CanvasReplaces,
         Store!ChangeRules, Store!TakeAway,
         Store!PutBack, Store!Start, Store!Archive, Store!Pass, Store!Take,
         Store!Count, Store!Download, Store!Upload, Store!Conflict, Store!Record,
         Store!TimeIsUp, Store!UploadUnheard, Store!WorkFails, Store!Checking,
         Store!CheckOne, Store!CheckEnds, Store!Apply, Store!Rerouting, Store!Recover,
         Store!Move, Store!MoveFails, Store!RecordMove, Store!Die, Store!procVars
<1>4. (storeCheck \in
        [File -> {"unknown", "present", "missing", "different_item", "size_changed"}])'
  <2>1. CASE UNCHANGED storeCheck
    BY <2>1 DEF WorldTypes
  <2>2. ASSUME NEW b \in storeBatch, Store!CheckOne(b)
        PROVE (storeCheck \in
                [File -> {"unknown", "present", "missing", "different_item", "size_changed"}])'
    <3>1. storeCheck' = [storeCheck EXCEPT ![b.file] = Store!Status(b)]
      BY <2>2 DEF Store!CheckOne
    <3>2. Store!Status(b) \in {"unknown", "present", "missing", "different_item", "size_changed"}
      BY DEF Store!Status
    <3> QED BY <3>1, <3>2 DEF WorldTypes
  <2> QED
    BY ZenonT(40), <2>1, <2>2 DEF Store!Next, Store!World, Store!CanvasLocks, Store!CanvasReplaces,
         Store!ChangeRules, Store!TakeAway,
         Store!PutBack, Store!Start, Store!Archive, Store!Pass, Store!Take, Store!Finish,
         Store!Count, Store!Download, Store!Upload, Store!Conflict, Store!Record,
         Store!TimeIsUp, Store!UploadUnheard, Store!WorkFails, Store!Checking,
         Store!CheckEnds, Store!Apply, Store!Rerouting, Store!Recover,
         Store!Move, Store!MoveFails, Store!RecordMove, Store!Die, Store!dbVars
<1>5. storeMishaps' \in 0 .. StoreMishaps /\ storeEdits' \in 0 .. StoreEdits
  <2>1. Store!NoMishap \/ Store!Mishap \/ Store!Edit
    BY ZenonT(40) DEF Store!Next, Store!World, Store!CanvasLocks, Store!CanvasReplaces,
         Store!ChangeRules, Store!TakeAway,
         Store!PutBack, Store!Start, Store!Archive, Store!Pass, Store!Take, Store!Finish,
         Store!Count, Store!Download, Store!Upload, Store!Conflict, Store!Record,
         Store!TimeIsUp, Store!UploadUnheard, Store!WorkFails, Store!Checking,
         Store!CheckOne, Store!CheckEnds, Store!Apply, Store!Rerouting, Store!Recover,
         Store!Move, Store!MoveFails, Store!RecordMove, Store!Die, Store!NoMishap
  <2>2. CASE Store!NoMishap
    BY <2>2 DEF Store!NoMishap, Store!bounds, WorldTypes
  <2>3. CASE Store!Mishap
    BY <2>3 DEF Store!Mishap, WorldTypes, Store!ArchiveAssumption
  <2>4. CASE Store!Edit
    BY <2>4 DEF Store!Edit, WorldTypes, Store!ArchiveAssumption
  <2> QED BY <2>1, <2>2, <2>3, <2>4
<1> QED BY <1>1, <1>2, <1>3, <1>4, <1>5 DEF WorldTypes

StoreTypes == RowTypes /\ JobTypes /\ MoveTypes /\ ItemTypes /\ WorldTypes

LEMMA InitStoreTypes ==
  ASSUME Store!ArchiveAssumption, Store!Init
  PROVE  StoreTypes
<1> USE DEF Store!ArchiveAssumption, Store!Init
<1>1. RowTypes
  BY DEF RowTypes, Store!NoRow
<1>2. JobTypes
  BY DEF JobTypes, Store!NoJob, Busy
<1>3. MoveTypes /\ ItemTypes
  BY DEF MoveTypes, ItemTypes, Store!NoMoves
<1>4. WorldTypes
  <2>1. \A f \in File : [open |-> f \notin Linked, version |-> 1]
                          \in [open : BOOLEAN, version : 1 .. MaxVersion]
    <3>1. 1 \in 1 .. MaxVersion
      OBVIOUS
    <3>2. \A f \in File : (f \notin Linked) \in BOOLEAN
      OBVIOUS
    <3> QED BY <3>1, <3>2, Zenon
  <2>2. Store!Unseen \in [accessible : BOOLEAN, version : 0 .. MaxVersion]
    <3>1. 0 \in 0 .. MaxVersion
      OBVIOUS
    <3> QED BY <3>1, Zenon DEF Store!Unseen
  <2>3. storeCanvas \in [File -> [open : BOOLEAN, version : 1 .. MaxVersion]]
    BY <2>1, Zenon
  <2>4. storeFacts \in [File -> [accessible : BOOLEAN, version : 0 .. MaxVersion]]
    BY <2>2, Zenon
  <2>5. /\ storeCheck \in
             [File -> {"unknown", "present", "missing", "different_item", "size_changed"}]
        /\ storeBatch = {}
        /\ storeMishaps \in 0 .. StoreMishaps /\ storeEdits \in 0 .. StoreEdits
    OBVIOUS
  <2> QED BY <2>3, <2>4, <2>5 DEF WorldTypes
<1> QED BY <1>1, <1>2, <1>3, <1>4 DEF StoreTypes

LEMMA NextStoreTypes ==
  ASSUME Store!ArchiveAssumption, ArchiveInv, StoreTypes, [Store!Next]_storeVars
  PROVE  StoreTypes'
<1>1. CASE Store!Next
  BY <1>1, NextRowTypes, NextJobTypes, NextMoveTypes, NextItemTypes, NextWorldTypes
     DEF ArchiveInv, StoreTypes
<1>2. CASE UNCHANGED storeVars
  <2> USE <1>2 DEF storeVars
  <2>1. RowTypes <=> RowTypes'
    BY DEF RowTypes
  <2>2. JobTypes <=> JobTypes'
    BY DEF JobTypes, Busy
  <2>3. MoveTypes <=> MoveTypes'
    BY DEF MoveTypes
  <2>4. ItemTypes <=> ItemTypes'
    BY DEF ItemTypes, Store!Item
  <2>5. WorldTypes <=> WorldTypes'
    BY DEF WorldTypes
  <2> QED BY <2>1, <2>2, <2>3, <2>4, <2>5 DEF StoreTypes
<1> QED BY <1>1, <1>2

LEMMA StoreTyped ==
  ASSUME ArchiveInv, StoreTypes
  PROVE  Store!ArchiveTypeOK
<1> USE DEF ArchiveInv, StoreTypes
<1>1. \A f \in File :
        /\ storeRow[f].state \in {"none", "pending", "failed", "complete"} \cup Store!Skipped
        /\ storeRow[f].state = "none" <=> storeRow[f].path = Store!NoPath
        /\ storeRow[f].item \in 0 .. storeMade /\ storeRow[f].version \in 0 .. MaxVersion
  BY NameIs DEF RowTypes
<1>2. \A p \in Store!Archiver :
        /\ storePc[p] \in {"idle", "next", "count", "download", "upload", "record", "end"}
        /\ storeMem[p].n \in 0 .. MaxAlternates
        /\ {c.file : c \in storeMem[p].todo} \subseteq File
  BY DEF JobTypes
<1>3. \A m, n \in storeMoves.landed : m = n
  BY DEF MoveTypes
<1>4. \A i, j \in storeDrive : i.path = j.path => i = j
  BY DEF Common, Apart
<1>5. storeRules \subseteq File
  BY DEF Common, Records
<1>6. storeDrive \subseteq Store!Item /\ storeTaken \subseteq Store!Item
  BY DEF ItemTypes
<1>7. {b.file : b \in storeBatch} \subseteq File
  BY DEF WorldTypes
<1>8. /\ storeCanvas \in [File -> [open : BOOLEAN, version : 1 .. MaxVersion]]
      /\ storeFacts \in [File -> [accessible : BOOLEAN, version : 0 .. MaxVersion]]
      /\ storeCheck \in
           [File -> {"unknown", "present", "missing", "different_item", "size_changed"}]
      /\ storeMishaps \in 0 .. StoreMishaps /\ storeEdits \in 0 .. StoreEdits
  BY Zenon DEF WorldTypes
<1> HIDE DEF ArchiveInv, StoreTypes
<1> QED
  BY <1>1, <1>2, <1>3, <1>4, <1>5, <1>6, <1>7, <1>8, Zenon DEF Store!ArchiveTypeOK

(* Every part of the archive keeps its types: a row has its name from the  *)
(* moment it exists (stage.ts:198), no name of the drive is given twice    *)
(* (stage.ts:305-311), and each neighbour's variables keep theirs.         *)
THEOREM PartsAreTyped == ArchiveSpec => []ArchiveRunTypeOK
<1> USE ArchiveRunAssumption DEF ArchiveRunAssumption
<1>1. ArchiveInit => StoreTypes
  BY InitStoreTypes DEF ArchiveInit
<1>2. ArchiveInv /\ StoreTypes /\ [ArchiveNext]_all => StoreTypes'
  BY ArchiveStore, NextStoreTypes
<1>3. ArchiveInv /\ StoreTypes /\ NeighbourTypes => ArchiveRunTypeOK
  BY StoreTyped, NeighbourTypesMean DEF ArchiveRunTypeOK
<1> QED BY <1>1, <1>2, <1>3, ArchiveInvHolds, NeighboursAreTyped, PTL DEF ArchiveSpec

=============================================================================
