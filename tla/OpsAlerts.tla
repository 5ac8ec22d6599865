------------------------------ MODULE OpsAlerts ------------------------------
(***************************************************************************)
(* The operational alerts of a polling run (src/src/notify/ops.ts and the  *)
(* part of src/src/sync/run.ts that decides what is wrong).  A run works   *)
(* out which conditions hold, and which keys it may judge; the difference  *)
(* from the ops_alerts table is what it raises, reminds of and resolves.   *)
(*                                                                         *)
(* The world goes wrong and is mended at any time; a run may find Canvas   *)
(* or OneDrive unreachable, may leave contexts for the next run, may fail  *)
(* in any stage and may die at any step.  One run is at work at a time:    *)
(* the lock (SyncLock.tla) sees to that, so reading the stored alerts is   *)
(* part of the action that reconciles them.                                *)
(***************************************************************************)
EXTENDS Integers, FiniteSets

CONSTANTS
  Context,       \* the contexts ever watched
  Group,         \* those that are groups
  TokenDays,     \* what the days left of the Canvas token may be
  DashDays,      \* and those of the dashboard's token
  Drives,        \* what may become of the drive
  Spaces,        \* and of the room on it
  Faults,        \* what else may go wrong
  Unrecorded,    \* no expiry date is recorded
  Configured,    \* whether a run's machine has the read model configured: a set
  CriticalEvery, \* REMIND_MS.critical
  WarnEvery,     \* REMIND_MS.warn
  StaleAfter,    \* STALE_AFTER_MS
  MaxTime,       \* bound on time
  MaxChanges     \* bound on what goes wrong or is mended

AlertsAssumption ==
  /\ Group \subseteq Context
  /\ Unrecorded \notin Int
  /\ TokenDays \cup DashDays \subseteq Int \cup {Unrecorded}
  /\ 30 \in TokenDays \cap DashDays
  /\ Configured \subseteq BOOLEAN /\ Configured # {}
  /\ CriticalEvery \in Nat /\ WarnEvery \in Nat /\ StaleAfter \in Nat
  /\ MaxTime \in Nat /\ MaxChanges \in Nat

Time == 0 .. MaxTime
Never == -1          \* no time: an alert that is not active, a cadence of null

-----------------------------------------------------------------------------
(* Keys.  A key is a family and a rung of it, a name and a context, or a   *)
(* name alone.                                                             *)

Rungs == [token_expiry |-> {"unknown", "expired", "14", "7", "3", "1"},
          dashboard_token_expiry |-> {"unknown", "expired", "14", "7", "3", "1"},
          storage |-> {"full", "unreadable", "95", "80"}]
Ladders == DOMAIN Rungs
Ladder(f) == {<<f, r>> : r \in Rungs[f]}
GraphAlert == {"graph_auth", "graph_app", "graph_provisioning", "onedrive_not_personal"}
Single == GraphAlert \cup {"canvas_auth", "telegram_delivery", "graph_unreachable",
  "archive_all_failed", "archive_exhausted", "archive_integrity", "dashboard_publish"}
PerContext == {"coverage", "context_stale"}

Alert(n) == <<n, "only">>
Key == (UNION {Ladder(f) : f \in Ladders}) \cup {Alert(n) : n \in Single}
         \cup (PerContext \X Context)

(* How often an active condition is repeated: each rung once, but expired. *)
Cadence(k) ==
  CASE k[1] \in {"token_expiry", "dashboard_token_expiry"} /\ k[2] # "expired" -> Never
    [] k[1] = "coverage" \/ k \in {<<"storage", "80">>, <<"storage", "unreadable">>} -> Never
    [] k[1] \in {"graph_unreachable", "archive_exhausted", "archive_integrity",
                 "context_stale", "dashboard_publish"} -> WarnEvery
    [] OTHER -> CriticalEvery

(* expiryLadder: the rung, as a set of at most one key. *)
Expiry(f, days) ==
  IF days = Unrecorded THEN {<<f, "unknown">>}
  ELSE IF days > 14 THEN {}
  ELSE {<<f, CASE days <= 0 -> "expired" [] days = 1 -> "1" [] days \in 2 .. 3 -> "3"
                [] days \in 4 .. 7 -> "7" [] OTHER -> "14">>}

-----------------------------------------------------------------------------
DriveState == {"ok"} \cup GraphAlert
Space == {"low", "80", "95", "full", "unreadable"}
Coverage == {"unknown", "full", "modules_only", "none"}
(* Archived files moved away, files given up, every attempt failing, and   *)
(* the read model out of reach.                                            *)
Fault == {"gone", "exhausted", "failing", "unpublished"}
FileMark == {"file", "rest"}       \* files, and a course's other resources

WorldAssumption ==
  Drives \subseteq DriveState /\ Spaces \subseteq Space /\ Faults \subseteq Fault

VARIABLES
  now,
  (* the world *)
  world,       \* what is wrong: [token, dash, canvas, drive,
               \* space, cov] and the set of other faults
  watched,     \* the enabled contexts
  changes,
  (* the database *)
  alerts,      \* ops_alerts: last_sent_at of each unresolved key, or Never
  marks,       \* watermarks.last_ok_at, of files and of the rest
  stored,      \* contexts.coverage_status
  reachedAt,   \* config archive_drive_ok_at, Never before the first run
  lost,        \* created_at of the newest failed notification, or Never
  (* the run at work *)
  pc, mem,
  (* observation *)
  told         \* the messages of the last reconciliation

worldVars == <<world, watched, changes>>
dbVars == <<alerts, marks, stored, reachedAt, lost>>
vars == <<now, worldVars, dbVars, pc, mem, told>>

(* What a run holds: the conditions that hold, the keys it will judge, the *)
(* coverage of the contexts it finished, and whether its machine has the   *)
(* read model configured; and, read by no code, the keys it has really     *)
(* seen not to hold.                                                       *)
EmptyMemory == [holds |-> {}, judged |-> {}, seen |-> {}, cov |-> <<>>, configured |-> FALSE]
NoMessages == [raised |-> {}, reminded |-> {}, resolved |-> {}]

Tick == /\ now < MaxTime
        /\ pc = "idle"
        /\ now' = now + 1
        /\ UNCHANGED <<worldVars, dbVars, pc, mem, told>>

(* Tokens age and are renewed, Canvas and OneDrive refuse and recover,     *)
(* files are moved and put back, a course's Files tab comes and goes.  A   *)
(* run looks at each of these once: a change in the middle of it is the    *)
(* same as one before or after it.                                         *)
WorldChanges ==
  /\ changes < MaxChanges
  /\ pc = "idle"
  /\ changes' = changes + 1
  /\ \/ \E d \in TokenDays : world' = [world EXCEPT !.token = d]
     \/ \E d \in DashDays : world' = [world EXCEPT !.dash = d]
     \/ \E c \in {"up", "rejected"} : world' = [world EXCEPT !.canvas = c]
     \/ \E d \in Drives : world' = [world EXCEPT !.drive = d]
     \/ \E s \in Spaces : world' = [world EXCEPT !.space = s]
     \/ \E f \in Faults : world' = [world EXCEPT !.faults = (@ \cup {f}) \ (@ \cap {f})]
     \/ \E c \in Context, v \in Coverage \ {"unknown"} :
          /\ c \in Group => v # "modules_only"
          /\ world' = [world EXCEPT !.cov[c] = v]
  /\ world' # world
  /\ UNCHANGED <<now, watched, dbVars, pc, mem, told>>

(* The seed file enables or disables a context. *)
Watch(c) ==
  /\ changes < MaxChanges
  /\ pc = "idle"
  /\ changes' = changes + 1
  /\ watched' = IF c \in watched THEN watched \ {c} ELSE watched \cup {c}
  /\ UNCHANGED <<now, world, dbVars, pc, mem, told>>

-----------------------------------------------------------------------------
(* A run.  Judge adds what a stage found: the conditions it raises, the    *)
(* keys it claims to have evaluated, and those it saw not to hold.         *)
Judge(holds, judged, sound) ==
  [mem EXCEPT !.holds = @ \cup holds, !.judged = @ \cup judged,
              !.seen = @ \cup (sound \ holds)]

(* The start of syncBody: the expiry ladders and the failed deliveries.    *)
(* The dashboard's ladder is claimed whether or not it is looked at.       *)
Start(configured) ==
  /\ pc = "idle"
  /\ LET dash == IF world.dash # Unrecorded \/ configured
                   THEN Expiry("dashboard_token_expiry", world.dash) ELSE {}
         failed == IF lost # Never /\ now - lost < StaleAfter
                     THEN {Alert("telegram_delivery")} ELSE {}
         keys == Ladder("token_expiry") \cup Ladder("dashboard_token_expiry")
                   \cup {Alert("telegram_delivery")}
         unlooked == IF world.dash # Unrecorded \/ configured THEN {}
                       ELSE Ladder("dashboard_token_expiry")
         holds == Expiry("token_expiry", world.token) \cup dash \cup failed
     IN mem' = [EmptyMemory EXCEPT !.holds = holds, !.judged = keys,
                                   !.seen = keys \ (holds \cup unlooked),
                                   !.configured = configured]
  /\ pc' = "probe"
  /\ UNCHANGED <<now, worldVars, dbVars, told>>

(* getSelf answers, is refused, or fails: only the first two judge the     *)
(* token, and a failure of either kind goes straight to the alerts.        *)
ProbeAnswered ==
  /\ pc = "probe" /\ world.canvas = "up"
  /\ mem' = Judge({}, {Alert("canvas_auth")}, {Alert("canvas_auth")})
  /\ pc' = "contexts"
  /\ UNCHANGED <<now, worldVars, dbVars, told>>

ProbeRejected ==
  /\ pc = "probe" /\ world.canvas = "rejected"
  /\ mem' = Judge({Alert("canvas_auth")}, {Alert("canvas_auth")}, {})
  /\ pc' = "reconcile"
  /\ UNCHANGED <<now, worldVars, dbVars, told>>

(* Mutant: a failure of any kind is taken for an answer about the token. *)
ProbeFailedJudging ==
  /\ pc = "probe"
  /\ mem' = Judge({}, {Alert("canvas_auth")}, {})
  /\ pc' = "reconcile"
  /\ UNCHANGED <<now, worldVars, dbVars, told>>

ProbeFailed ==
  /\ pc = "probe"
  /\ pc' = "reconcile"
  /\ UNCHANGED <<now, worldVars, dbVars, mem, told>>

(* A context is deferred or throws, or its listings are answered or fail,  *)
(* the files apart from the rest.                                          *)
Reading == {r \in [files : {"left", "answered", "failed"}, rest : BOOLEAN] :
              r.files = "left" => ~r.rest}
ResourcesOf(c) == IF c \in Group THEN {"file"} ELSE FileMark
Answered(r) == r.files = "answered"
Succeeded(c, r) ==
  (IF Answered(r) /\ world.cov[c] # "none" THEN {"file"} ELSE {})
    \cup (IF r.rest /\ c \notin Group THEN {"rest"} ELSE {})

CoverageKeys(cs) == {<<"coverage", c>> : c \in cs}

(* The loop over the contexts: a context's coverage is judged only when a  *)
(* listing answered, and remembered when the context was finished.         *)
Contexts(got) ==
  /\ pc = "contexts"
  /\ LET read == {c \in watched : Answered(got[c])}
         done == {c \in watched : got[c].files # "left"}
         after(c) == IF c \in read THEN world.cov[c] ELSE stored[c]
         holds == CoverageKeys({c \in read : world.cov[c] \in {"modules_only", "none"}})
     IN /\ stored' = [c \in Context |-> IF c \in watched THEN after(c) ELSE stored[c]]
        /\ marks' = [c \in Context |-> [m \in FileMark |->
             IF c \in watched /\ m \in Succeeded(c, got[c]) THEN now ELSE marks[c][m]]]
        /\ mem' = [Judge(holds, CoverageKeys(read), CoverageKeys(read)) EXCEPT
                     !.cov = [c \in done |-> after(c)]]
  /\ pc' = "archive"
  /\ UNCHANGED <<now, worldVars, alerts, reachedAt, lost, told>>

-----------------------------------------------------------------------------
(* The archive stage by its outcome: why it stopped, whether the quota was *)
(* read, whether it tried a file.  Only a stage that read the quota comes  *)
(* to its end, where the files given up are counted.                       *)
Stop == {"none", "unreachable"} \cup GraphAlert \cup {"quota_full"}
Outcome == [stopped : Stop, quota : {"unread"} \cup (Space \ {"full"}),
            tried : {"nothing", "some"}]

(* The drive is asked first; what it refuses stops the stage before a file *)
(* is tried, or in the middle of one.  Full shows only in an upload.       *)
Possible(o) ==
  LET level == IF world.space = "full" THEN "95" ELSE world.space
      early == o.quota = "unread" /\ o.tried = "nothing"
      late == o.quota = level
  IN CASE o.stopped = "none" -> world.drive = "ok" /\ late
       [] o.stopped = "quota_full" -> /\ world.drive = "ok" /\ world.space = "full"
                                      /\ late /\ o.tried # "nothing"
       [] o.stopped = "unreachable" -> early
       [] o.stopped = "onedrive_not_personal" -> world.drive = o.stopped /\ early
       [] OTHER -> world.drive = o.stopped /\ (early \/ (late /\ o.tried # "nothing"))

(* archiveAlerts *)
ArchiveHolds(o) ==
  {Alert(n) : n \in {o.stopped} \cap GraphAlert}
    \cup (IF o.stopped = "quota_full" THEN {<<"storage", "full">>}
          ELSE IF o.quota \in {"80", "95", "unreadable"} THEN {<<"storage", o.quota>>} ELSE {})
    \cup (IF o.tried = "some" /\ "failing" \in world.faults THEN {Alert("archive_all_failed")} ELSE {})
    \cup (IF o.quota # "unread" /\ "exhausted" \in world.faults THEN {Alert("archive_exhausted")} ELSE {})

Blocking == (GraphAlert \ {"onedrive_not_personal"}) \cup {"unreachable"}

(* driveReachability: a drive out of reach for a day. *)
Unreachable(o) ==
  IF o.stopped = "unreachable" /\ reachedAt # Never /\ now - reachedAt > StaleAfter
    THEN {Alert("graph_unreachable")} ELSE {}

(* Mutant: the storage ladder is raised from but never claimed. *)
ArchiveJudgedNoStorage(o) ==
  {Alert(n) : n \in GraphAlert \cup {"graph_unreachable", "archive_exhausted"}}
    \cup (IF o.tried # "nothing" THEN {Alert("archive_all_failed")} ELSE {})

(* What the stage claims: everything about the drive whenever it ran.      *)
ArchiveJudged(o) ==
  {Alert(n) : n \in GraphAlert \cup {"graph_unreachable", "archive_exhausted"}}
    \cup (IF o.tried # "nothing" THEN {Alert("archive_all_failed")} ELSE {})
    \cup (IF o.quota # "unread" \/ o.stopped = "quota_full" THEN Ladder("storage") ELSE {})

(* What it has seen of that: a drive it could not ask says nothing. *)
ArchiveSeen(o) ==
  (IF o.stopped = "unreachable" THEN {}
   ELSE {Alert(n) : n \in GraphAlert \cup {"graph_unreachable"}})
    \cup (IF o.quota = "unread" THEN {} ELSE {Alert("archive_exhausted")})
    \cup (IF o.tried # "nothing" THEN {Alert("archive_all_failed")} ELSE {})
    \cup (IF o.quota # "unread" THEN Ladder("storage") ELSE {})

(* runArchive, its alerts and driveReachability's write; then the check of *)
(* what OneDrive holds, unless the drive is unusable or the check throws.  *)
Archive(o, checked) ==
  /\ pc = "archive"
  /\ Possible(o)
  /\ checked => o.stopped \in {"none", "quota_full"}
  /\ LET gone == IF checked /\ "gone" \in world.faults THEN {Alert("archive_integrity")} ELSE {}
         check == IF checked THEN {Alert("archive_integrity")} ELSE {}
     IN mem' = Judge(ArchiveHolds(o) \cup Unreachable(o) \cup gone,
                     ArchiveJudged(o) \cup check, ArchiveSeen(o) \cup check)
  /\ reachedAt' = IF o.stopped \notin Blocking \/ reachedAt = Never THEN now ELSE reachedAt
  /\ pc' = "conclude"
  /\ UNCHANGED <<now, worldVars, alerts, marks, stored, lost, told>>

-----------------------------------------------------------------------------
(* staleContextAlerts: the stalest resource decides; files are left out    *)
(* when this run found that they cannot be read at all.                    *)
Judgeable(c) ==
  ResourcesOf(c) \ (IF c \in DOMAIN mem.cov /\ mem.cov[c] = "none" THEN {"file"} ELSE {})
Stale(c) == \E m \in Judgeable(c) : now - marks[c][m] > StaleAfter

StaleKeys(cs) == {<<"context_stale", c>> : c \in cs}

(* Staleness, then the read model, published or not. *)
Conclude ==
  /\ pc = "conclude"
  /\ LET publish == IF mem.configured THEN {Alert("dashboard_publish")} ELSE {}
     IN mem' = Judge(StaleKeys({c \in watched : Stale(c)})
                       \cup (IF "unpublished" \in world.faults THEN publish ELSE {}),
                     StaleKeys(Context) \cup publish, StaleKeys(watched) \cup publish)
  /\ pc' = "retire"
  /\ UNCHANGED <<now, worldVars, dbVars, told>>

(* Mutant: alerts are not retired with their context. *)
RetirableNone == {}

(* retireContextAlerts, one UPDATE per alert of a context not watched. *)
Retirable == {k \in PerContext \X (Context \ watched) : alerts[k] # Never}
Retire ==
  /\ pc = "retire"
  /\ IF Retirable = {}
       THEN pc' = "reconcile" /\ UNCHANGED alerts
       ELSE /\ \E k \in Retirable : alerts' = [alerts EXCEPT ![k] = Never]
            /\ UNCHANGED pc
  /\ UNCHANGED <<now, worldVars, marks, stored, reachedAt, lost, mem, told>>

-----------------------------------------------------------------------------
(* reconcileAlerts *)
(* Mutant: the time of the next reminder is stored for that of the last. *)
SentAtNext(k) == IF Cadence(k) = Never THEN 0 ELSE now + Cadence(k)

(* last_sent_at is kept only of what may be repeated. *)
SentAt(k) == IF Cadence(k) = Never THEN 0 ELSE now
Due(k) == Cadence(k) # Never /\ now - alerts[k] >= Cadence(k)
FamilyHolds(k) == k[1] \in Ladders /\ \E h \in mem.holds : h[1] = k[1]

Raised == {k \in mem.holds : alerts[k] = Never}
Reminded == {k \in mem.holds : alerts[k] # Never /\ Due(k)}
Resolved == {k \in mem.judged \ mem.holds : alerts[k] # Never}

(* A rung that goes while its family still holds is a climb: no message. *)
Announced == {k \in Resolved : ~FamilyHolds(k)}

Reconcile ==
  /\ pc = "reconcile"
  /\ alerts' = [k \in Key |-> IF k \in Raised \cup Reminded THEN SentAt(k)
                              ELSE IF k \in Resolved THEN Never ELSE alerts[k]]
  /\ told' = [raised |-> Raised, reminded |-> Reminded, resolved |-> Announced]
  /\ pc' = "flush"
  /\ UNCHANGED <<now, worldVars, marks, stored, reachedAt, lost, mem>>

(* The flush, by the one thing the alerts ask of it: it may give up a row, *)
(* however long ago that was queued.                                       *)
Flush ==
  /\ pc = "flush"
  /\ \/ UNCHANGED <<lost, changes>>
     \/ /\ changes < MaxChanges
        /\ changes' = changes + 1
        /\ \E t \in 0 .. now : t > lost /\ lost' = t
  /\ pc' = "idle"
  /\ mem' = EmptyMemory
  /\ told' = NoMessages
  /\ UNCHANGED <<now, world, watched, alerts, marks, stored, reachedAt>>

(* The run is killed, or a stage throws: follow-ups, staleness, the gap.   *)
Die ==
  /\ pc # "idle"
  /\ pc' = "idle"
  /\ mem' = EmptyMemory
  /\ told' = NoMessages
  /\ UNCHANGED <<now, worldVars, dbVars>>

-----------------------------------------------------------------------------
Sound == [token |-> 30, dash |-> 30, canvas |-> "up", drive |-> "ok", space |-> "low",
          faults |-> {}, cov |-> [c \in Context |-> "full"]]

Init ==
  /\ now = 0
  /\ world = Sound /\ watched = Context /\ changes = 0
  /\ alerts = [k \in Key |-> Never]
  /\ marks = [c \in Context |-> [m \in FileMark |-> 0]]
  /\ stored = [c \in Context |-> "unknown"]
  /\ reachedAt = Never /\ lost = Never
  /\ pc = "idle" /\ mem = EmptyMemory
  /\ told = NoMessages

Run ==
  \/ \E b \in Configured : Start(b)
  \/ ProbeAnswered \/ ProbeRejected \/ ProbeFailed
  \/ \E got \in [watched -> Reading] : Contexts(got)
  \/ \E o \in Outcome, checked \in BOOLEAN : Archive(o, checked)
  \/ Conclude
  \/ Retire \/ Reconcile \/ Flush

Next == Tick \/ WorldChanges \/ (\E c \in Context : Watch(c)) \/ Run \/ Die

Spec == Init /\ [][Next]_vars

-----------------------------------------------------------------------------
(* The tables and what a run holds keep their types.  (ops.ts, run.ts) *)
AlertsTypeOK ==
  /\ now \in Time /\ changes \in 0 .. MaxChanges
  /\ world \in [token : TokenDays, dash : DashDays, canvas : {"up", "rejected"},
                drive : DriveState, space : Space, faults : SUBSET Fault,
                cov : [Context -> Coverage]]
  /\ watched \subseteq Context
  /\ alerts \in [Key -> Time \cup {Never}]
  /\ marks \in [Context -> [FileMark -> Time]]
  /\ stored \in [Context -> Coverage]
  /\ reachedAt \in Time \cup {Never} /\ lost \in Time \cup {Never}
  /\ pc \in {"idle", "probe", "contexts", "archive", "conclude", "retire", "reconcile", "flush"}
  /\ mem.holds \subseteq Key /\ mem.judged \subseteq Key /\ mem.seen \subseteq Key
  /\ DOMAIN mem.cov \subseteq Context

(* At most one rung of a ladder is unresolved, whatever order the rungs    *)
(* are climbed in and however many runs die on the way: the owner is never *)
(* told of two at once, and none stays behind.  (ops.ts:22)                *)
OneRungPerLadder ==
  \A f \in Ladders : \A k, l \in Ladder(f) :
    alerts[k] # Never /\ alerts[l] # Never => k = l

(* The keys the code claims to have evaluated without having asked: the    *)
(* archive's, when the drive did not answer or the stage ended early.      *)
Presumed == {Alert(n) : n \in GraphAlert \cup {"graph_unreachable", "archive_exhausted"}}

FamilyOf(k) == IF k[1] \in Ladders THEN Ladder(k[1]) ELSE {k}

(* "Resolved" is said only of what this run itself saw not to hold, and of *)
(* a ladder only when no rung of it holds: a run that could not assess a   *)
(* condition never declares it fixed.  (ops.ts:16, ops.ts:23)              *)
ResolvedWasSeenFixed ==
  pc = "flush" => \A k \in told.resolved \ Presumed : FamilyOf(k) \subseteq mem.seen

(* An alert about a context that nobody watches goes without a word.       *)
(* (retireContextAlerts)                                                   *)
RetiredInSilence ==
  \A k \in told.resolved : k[1] \in PerContext /\ pc = "flush" => k[2] \in watched

(* A context of which nothing has been read for a day is known to the      *)
(* owner once a run has reconciled the alerts: by its staleness, its       *)
(* coverage, or because the token is refused.  (run.ts:418)                *)
StaleIsReported ==
  pc = "flush" =>
    \A c \in watched :
      (\A m \in ResourcesOf(c) : now - marks[c][m] > StaleAfter)
        => \E k \in {<<"context_stale", c>>, <<"coverage", c>>, Alert("canvas_auth")} :
             alerts[k] # Never

=============================================================================
