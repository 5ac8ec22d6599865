# canvas-monitor in TLA+

canvas-monitor polls a student's Canvas courses, decides what is news, tells
the student over Telegram, copies files to OneDrive, and keeps a local mirror
and a dashboard. It has no long-lived process: a *run* is started every twenty
minutes or so by GitHub Actions (or by hand), does everything once, and ends.
Whatever must outlive a run is in one SQLite database. So the behaviours that
are hard are of four kinds: two runs at once, a run that dies between two
writes, an answer that is lost or only half true, and a decision taken on what
was read minutes before.

This directory models the whole way of what happens on Canvas: the lock, the
polling run and change detection, delivery over Telegram, and the stages around
them: the alerts about the program itself, the archive on OneDrive with its
client, guard and sign-in, the local mirror, the answer follow-ups, the Canvas
client and its time budget, the schedule, the dashboard's copy, and the commands
that set the database up.

## The system

| Component | Source | State | Operations | What makes it correct |
|---|---|---|---|---|
| sync lock | `sync/lock.ts`, `runSync` | the `sync_lock` row | acquire, release | one run at a time, and no run shut out for ever |
| polling run | `sync/run.ts` | contexts, watermarks, items | fetch, read back, commit per context; watching summary | no news is lost; old things are not news; nothing stored goes back |
| change detection | `ingest/*.ts` | none | normalise, classify | only what changed is announced, whatever path shows it |
| notification queue | `notify/queue.ts` | the `notifications` table | four enqueues, flush | at-least-once, bounded attempts, quiet nights |
| Telegram client | `notify/telegram.ts` | none | send | an outcome never claims more than is known |
| operational alerts | `notify/ops.ts` | the `ops_alerts` table | reconcile, retire | the last word on an alert is true; only what was assessed is resolved |
| schedule, gap report | `sync/schedule.ts`, `gap-runs.ts`, `core/cron.ts` | the `runs` table | one report per gap | a gap is reported once |
| run budget | `sync/budget.ts` | a start time | deadlines | a run always gets to its end |
| archive | `archive/*.ts` | the `files` table, OneDrive | select, upload, adopt, record, integrity, reroute | complete means it is really there; no two files share a path |
| Graph access | `graph/*.ts` | refresh token, upload sessions | requests, upload with resume | a token is stored before it is needed |
| Canvas access | `canvas/*.ts` | rate governor | paginated listings with retries | all of a listing, or an error |
| follow-ups | `followups/*.ts` | the `followups` table | open, close, expire, tune | an answer closes what it answers, once |
| mirror | `mirror/*.ts` | local files and a state file | copy, retire, stall watch | no local work is overwritten; a crash forgets no copy |
| read model, dashboard | `readmodel/*.ts`, `dashboard/` | a second database | publish | the last good copy |
| discovery, seeding, other commands | `discover/*.ts`, `cli/*.ts` | contexts, config | run by hand | |

How they interact: `runSync` takes the lock, and `syncBody` calls, in this
order, Canvas for its own identity, one listing of announcements for all
courses, then for each context its listings, the read of what is stored and one
transaction; then the watching summary, the archive, the follow-ups, the
staleness and gap reports, the dashboard publish, the reconciliation of alerts,
and the flush of the queue; then the lock is released. Everything
communicates through the database; there are no callbacks and no threads inside
a run. Two runs share the database only.

`PROJECT.json` lists every component with its files, and under `hazards` what
in this code is hard to test, each at its line.

## The modules

| Module | Models | Abstracts |
|---|---|---|
| `SyncLock` | the lock row, the conditional UPDATE, the `finally` release, machines' clocks, deaths | everything a run does while it works |
| `Outbox` | what the queue promises: at-least-once delivery | time, units, attempts |
| `NotificationQueue` | `queue.ts` and, behind it, `telegram.ts` | texts; what a run does before it flushes is any enqueueing |
| `SyncRun` | the polling run, `classify`, `normalise`, and the transaction per context | the queue, by what `Outbox` says of it |
| `OpsAlerts` | `ops.ts`, and the stages of `run.ts` as far as they decide what is wrong and what may be judged | what the stages do; texts |
| `CanvasHttp` | the Canvas phase of a run against the clock: `http.ts`, `rate-limit.ts`, `classify-error.ts`, `budget.ts` | what a page holds |
| `Schedule` | slots, the `runs` table, the gap report | cron text; runs by hand |
| `Archive` | `stage.ts`, `download.ts`, `integrity.ts`, `reroute.ts`, and a backfill beside the sync | bytes, by file and version; names, by base and tag |
| `DriveClient` | one upload through `drive.ts`: folders, session, fragments, retries | bytes, by units |
| `GraphTokens` | `auth.ts`: the rotation of the refresh token between processes, the login | scopes, HTTP |
| `RootGuard` | `graph/guard.ts` against a drive with the owner's own files | hosts, headers, encodings |
| `Mirror` | `mirror.ts` against OneDrive, the archive and the owner | bytes and paths, by file, folder and variant |
| `Followups` | `stage.ts`, `plan.ts`, `timetable.ts` of `followups/`, and the owner's commands | file names, by pair and role |
| `ReadModel` | `publish.ts`, and the publish step of a run and of the command | what a row holds, by when it was read |
| `Seeding` | `discover`, the review, `seed-groups`, `seed-courses` | coverage probes, reports |
| `Migrations` | `migrate.ts` with several runners | SQL |
| `Stages` | the seven parts of and around a polling run that share no state | |
| `Storage` | the archive and its four neighbours | |
| `MCSyncLock`, `MCNotificationQueue`, `MCSyncRun`, `MCOpsAlerts`, `MCStages`, `MCArchive` | constants for TLC | |
| `SyncLockProofs`, `NotificationQueueProofs`, `SyncRunProofs`, `FollowupsProofs` | invariants, lemmas and theorems of one module each | |
| `AlertsProofs`, `StagesProofs` | of the parts of `Stages` | |
| `StorageProofs`, `ArchiveProofs` | of the parts of `Storage` | |

`SyncRun` uses of the queue that a row stands under a unique key until it is
sent or given up, which is what `NotificationQueue` is shown to implement; both
use of the lock that a run is at work only if no other is, which is what
`SyncLock` shows; so does `OpsAlerts`, whose reading of the table is therefore
part of the action that reconciles. `Archive` uses of an upload that it makes
one item under a free name, or a conflict, or is lost after it was made, which
is what `DriveClient` shows of it.

`Stages` and `Storage` put parts that share no state side by side: which part
moves is chosen at Init (`part`), the others stay where they start. That is one
exploration for several modules, not a product of them; each part's properties
are as if it were checked alone. `Stages` extends `Followups` and `Storage`
extends `Mirror`, and the rest are instances with variables of their own, so
that the properties TLC checks on `MCStages` and `MCArchive` and those the
theorems state of `StagesSpec` and `ArchiveSpec` are the same formulas. What
each part assumes of its constants is assumed there by name
(`StagesAssumption`, `ArchiveRunAssumption`), and TLC evaluates it.

### SyncLock

One action per step of a run as the lock sees it. `ReadClock` is apart from
`Acquire` because `acquireLock` computes its arguments before the UPDATE reaches
the database: the UPDATE is judged with an old reading. `offset` is how far each
machine's clock is off. `Die` is also a release that failed, as `runSync`
swallows that. A tick does not happen while a run is at the end of its
`JobTimeout`: that is `timeout-minutes`, and the assumption
`JobTimeout + 2 * Skew <= LockStale` is what sync.yml says of it ("shorter than
the 15-minute staleness window"), made exact. A manual run has no
`timeout-minutes`; that it ends in time is part of the assumption.

### NotificationQueue

The table is a sequence; an index is a row's id. A run at work is `working`
(before the flush), `flush`, `sending` or `marking`: between the acceptance
and the UPDATE that records it anything may happen. `job` is what the flush has
in memory. The `Outcome`s separate what Telegram did from what the code learns:
"unheard" is accepted but reported as retryable (a timeout, a gateway's 5xx),
"garbled" is accepted but reported as refused (a 200 whose body is not
readable). `told` is an observation: the rows Telegram has accepted. Time goes
in half days, so that a hold, a release and a night are two ticks. Left out: dry
runs and an unconfigured bot, which send nothing; how many messages one unit is
packed into.

### SyncRun

A version of an item is its name (of a file: of the rest a name is part of the
content), its content, whether a student may see it, and a revision number no
code reads. What the code compares is `HashOf`, which is per
type: an assignment's leaves out whether it is published. `Listed` is what each
path shows: Modules shows only linked files, without size and date, with the
link's own idea of visibility (`shown`) and its own title for a name (`title`).
`Change` compares each fact that both sides know, so names even when the path
changes (`describeFileChange`). `Begin` is the start of `syncBody`, with the one
listing of announcements for all courses; `Fetch`, `ReadStored`, `Commit` are
the three parts of `syncContext`, apart because other actors may move in
between; `Commit` is the whole transaction. `Die` may come at any moment. Canvas
is the environment: `Edit`, `Relink` (a module's link appears, goes, changes its
title or its visibility) and `Admit` (a course is opened to the token, or
closed). `ModulesDisagree` is of a file that is linked as published, and that
/files calls hidden or locked, or by another name than the link's title: the one
exception of `OnlyChangesAreNews`, and what `source_switch` is about. A closed course answers 200 and an empty list for
announcements, and nothing for the rest. Listings may fail each on its own.

### OpsAlerts

A run is a sequence of stages: `ProbeAnswered`, `ProbeRejected` or
`ProbeFailed` (the first call of `syncBody`), then contexts, archive, conclude,
retire, reconcile, flush. `mem` is what the run has in memory: the alerts that
hold, the keys it names as evaluated, and, as an observation no code reads, the
keys it has really seen not to hold (`seen`). `Reconcile` is one transaction:
`SentAt` is the table after it and `told` what it enqueues. The world (tokens
with their days left, the drive, its room, the coverage of each context, faults
that have no state of their own) may change before any run. `Presumed` names the
five keys that `run.ts:501` calls evaluated without having asked.

### CanvasHttp

Time is in half seconds from the start of the run. A part of the run is the
probe, the announcements, or a context; `Gate` is what is done before a request
(the deadline, the governor's pause), `Respond` and `NoAnswer` the
classification with its retry or return, `NextCall` and `EndPart` the caller.
`Fits` says whether a wait ends before the deadline. `MaxWait` and `MaxBackoff`
are the caps of `backoffMs` (60 s and 30 s). The validation of the token has no
deadline; that its attempts fit in the work time is `TokenFits`, which the
code's own numbers satisfy by far (5.5 minutes of 6.5) and nothing but them
enforces.

### Schedule

GitHub creates the run of a slot at the slot or never, gives it a machine late
or never, cancels or fails it. `StartRun` names the slot from the cron
expression and the minute it starts at; `Report` is `reportScheduleGap` with the
tally of `explainGap`. Deaths leave a row that says running.

### Archive

`Start`, `Take`, `Count`, `Download`, `Upload`, `Conflict`, `Record` are the
stages of one file in `runArchive`; between any two of them another process may
move, as the database and OneDrive are shared and only the sync holds the lock.
A cast is the set of processes of a behaviour. `UploadUnheard` is an upload that
was made and whose answer was lost; `MoveFails` likewise. `Checking` is the
integrity check, with its batch read first. The owner may take an archived item
away and put it back (`taken`, an observation), where it was and only if
neither its name nor it itself is there. Failures, lost answers and
deaths are counted together (`MaxMishaps`), changes of Canvas and the owner too
(`MaxEdits`). A sync and a backfill on the same files do no harm under a
condition (`Harmless`): nothing archived is taken away meanwhile, and at most
two files share a name (`InPairs`). The second part is there because of three:
see the run `rivals`.

### DriveClient, GraphTokens, RootGuard

`DriveClient` is one call of `ensureFolders` and `upload` against a service that
may lose any answer after acting; other processes make folders and take the
name. `GraphTokens` has two processes that each read the stored token at their
start, redeem it, store what comes back, and use it, and a login; a token is a
consent and a day. Every answer of the service brings a new refresh token (one
without, which `auth.ts:124` lets pass and leaves the stored one, is not
modelled), and no process lives past midnight. `RootGuard` asks for everything, in every order: what is let
through acts on a drive that holds the owner's files too.

### Mirror

`Start` reads the state file and the archive's rows; `PassOver`, `Defer` and
`Stage` decide about one file (`Choice` is the name it gets), `Copy` and
`Record` are the copy and the save, `Leave`, `Follow`, `Rename` and `Moved` the
same for a copy whose file was re-routed. `job.seen` is what the last check
saw in the destination. The owner makes, edits, moves and deletes files, and the
folders of modules, between any two of them; a death in the middle of a copy
leaves half of it. The owner's folders are in OneDrive as the archive is:
`Clouded` makes an item unreadable, and readable again, `cold` has the places of
those that cannot be read. Reads of the source are caught and defer the file
(`Defer`); those of the destination are not: `Stumble` and `Balk` end the run
there (`mirror.ts:220`, `:271`), a failed read after the copy (`:237`) is one of
`Die`'s. `missing` has the folders whose module's folder is not there, whose
files are passed over (`mirror.ts:169`). `NewIsMirrored` promises nothing while
one of these lasts: its premises are a folder that is there (`missing`) and names
that can be read (`Legible`). Without either TLC finds it violated; the first the
code reports as skipped, the second is a finding.

### Followups

`Plan` is `planFollowups` from what was read; `WriteOne` writes one row of it,
as the stage has no transaction; `Summarise` and `Remind` queue the notices by
their keys. The owner's `Rule`, `Dismiss` and `SwitchTracking` come between any
two. A day is three instants: before 07:00, before the lesson, after it.

### ReadModel, Seeding, Migrations

`ReadModel` counts the commits of the main database: a table is known by the
count at which it was read, the copy's date by the count at the start.
`Seeding` has the two seed files, the contexts table, and, as observations, what
the owner decided and what the last load took. `Discover` writes the seed file
if it is not there or `--overwrite` is asked for (`seed.ts:112`), and only the
second withdraws what the owner decided: of a file that a discovery wrote over
without being asked the property would still demand the owner's review. `Migrations` has runners that
read the book once and then apply; `schema.nth` counts how often a migration was
applied.

## What is checked

Properties that hold:

| Run | Property | What could break it |
|---|---|---|
| `lock` | `MutualExclusion`, `WorkerHoldsLock`, `RefusedOnlyWhileFresh` | clocks that disagree, old readings, dead holders |
| `delivery` | `SentWasAccepted`, `AttemptsBounded`, `HeldUntilMorning` | deaths before the mark, digests, a second run |
| | `EventuallySettled` | rows no unit takes, deadlines, retries without end |
| | `ImplementsOutbox` | any step the outbox does not allow |
| `sync` | `NewsAlwaysQueued`, `StoredNeverRegresses` | deaths, key collisions, a second run between read and write |
| `baselines` | `OnlyChangesAreNews` | any order of coverage changes, failures, closed courses, links that are published or renamed |
| `stages` | `OneRungPerLadder`, `ResolvedWasSeenFixed`, `RetiredInSilence` | stages that were skipped or failed, conditions not asked for, contexts unwatched and watched again |
| | `OneNoticeADay`, `EndedStaysEnded`, `ReminderIsDue`, `AnsweredIsClosed` | deaths between two statements of a plan, the owner's commands in between |
| | `WholeOrNothing`, `KeepsToItsDeadline` | failures on a later page; waits that add up |
| | `GapIsReal` | late runs that name a later slot, two runs of one slot, rows of runs that died |
| | `FiledAsReviewed` | any order of discovery, review, merge and load; a discovery that writes over a reviewed file |
| | `AppliedOnce` | two runners between read and write, edited files |
| | `NoFresherThanItSays` | commits between the tables, an older publisher after a newer |
| `archive` | `CompleteIsThere`, `NoSecondCopy` | deaths and lost answers around upload and move, a backfill on the same files |
| | `EverySettles`, `AlarmsClear` | files on which runs die; checks of a file that is just being moved |
| | `ReportsWhatItMade`, `CallEnds` | lost answers, sessions that vanish, a name taken in between |
| | `KeptAliveByUse` | two processes that rotate one token |
| | `Confined` | any sequence of requests the guard lets through |
| | `Kept` | a copy the owner has changed, moved with its file; of what is put in the way between check and write it says nothing |
| | `OneCopyEach`, `NewIsMirrored` | deaths in mid-copy and before the save, names that are taken, re-routes, module folders that come and go |

Each of these runs but `baselines` also checks one type invariant. Every property
has a mutant in
`PROJECT.json` (`FiledAsReviewed` two), a plausible bug of the code under which TLC finds it violated.

Properties the code, its comments or its tests state, and that do not hold
(`findings` in `PROJECT.json` quotes each):

| Run | Shows |
|---|---|
| `mid_run` | announcements are listed before the listings that vouch for them: a course opened in between is baselined with none, and its backlog announced by the next run |
| `source_switch` | a file that is hidden or locked and linked as published, or linked under a title other than its name, is announced when the Files tab goes away |
| `second_change` | a change, its undoing, and the change again: the third has the key of the first and is dropped |
| `night_content` | content queued by day and not sent is sent, with a sound, by a run in the night |
| `rivals` | of three files of one name, a backfill that still tries alternates writes one into a row the sync has completed, and dies: the row is complete and its path is not where the file is |
| `silent_canvas` | while every run's first call fails otherwise than by a 401, staleness is never looked at: the alert its comment relies on is not raised |

More disagreements between the code and what is written beside it were met
while modelling and need no run, as they can be read off the lines quoted: a
timeout after acceptance repeats a message although nothing died; the lock is
the only mutex, whatever `lock.ts:4` says; alerts of OneDrive are
resolved by runs that could not reach it; the mirror's rename can overwrite, its
crash can leave a copy no state names, and it moves files it only adopted; an
item of the owner's folders that OneDrive has online only ends each run of the
mirror that comes to it, without a word; a move is asked again after a 401;
empty files and locked module-linked files burn their attempts; a replaced file
raises a size alarm for ever; `--dry-run` of the migrations applies 0001; a request may start after its deadline; slow courses
starve the same last ones in each run; the gap report claims a full re-read; a
discovery whose group listing failed disables every group when merged. Where a
property had to be weakened for one of these (`OnlyChangesAreNews`,
`ResolvedWasSeenFixed`, `Kept`, `OneCopyEach`, `NewIsMirrored`,
`KeepsToItsDeadline`, `AlarmsClear`), its comment says so.

### Bounds, and why they are enough

- `MCSyncLock`: three runs (one dead, one at work, one asking), staleness 4,
  a run's life 2, skew 1, which makes the assumption tight (2 + 2 * 1 = 4), and
  time up to 8, so that a lock can be taken, abandoned, taken over and abandoned
  again. Runs are symmetric.
- `MCNotificationQueue`: two runs, two rows, two attempts, two half days after
  the first, one death. Two rows are a digest and two refs a key that differs;
  two attempts are the least at which "not the last try" and "the last try" are
  both states; two half days are a day, a night and the morning after. A digest
  of rows with different counts is beyond this instance: there
  `AttemptsBounded` rests on its theorem, which is for every bound. No
  symmetry, because of the liveness property.
- `MCSyncRun.cfg`: two runs, a file and a grade of one course, two edits: a
  change and its successor, of one item or of both. `MCBaselines.cfg`: one run,
  an announcement and a file that is linked by a module from the start, visible
  (by its own name or another title) or hidden, one edit, any number of runs one after the other and any
  choice of listings in each. Runs are unbounded in number, so every order of
  coverage changes is covered.
- `MCStages.cfg` and `MCStages.tla`: for the alerts one group, days left that
  visit two rungs and none, a drive that is well or refuses the sign-in, room
  that is low, at 80 per cent or full, one fault, two changes of the world and
  one day; reminders are due the next day. For Canvas one context with two
  listings of one page, or of three where two are allowed, two attempts, a request that takes no
  time or times out, a course's time shorter than two retries, the work time
  shorter than two courses. For the schedule three day slots around a night
  slot and a threshold of two, so that the longest gap is above it and the
  shortest below. For seeding one course with one group and two codes. Two
  migrations, two runners, one edit. Two tables, two publishers, two commits.
  For the follow-ups one pair with a question sheet and a partial answer, a
  lesson on each day, four instants after the first, one command, one death.
- `MCArchive.cfg` and `MCArchive.tla`: two files of one base name, one of them
  linked from Modules, sizes up to one above the limit, one file per run, two
  attempts, one alternate name, one mishap and one edit; the sync alone, with a
  backfill or with a re-route. (Of two files only one is open at first, so that a
  clash of names beside another archiver takes the one edit; the theorem
  `CompleteRowsHoldGood` is for any number.) A path of two folders and a file of none, one or two
  fragments; two attempts, two failures in a row, two sessions. Two processes
  and a token's life of two days in three. A drive of six items. Two files, two
  mapped folders, one of them of a module without a folder at first, and one that
  is not mapped, two names; what OneDrive takes away counts as an edit. One mishap is enough for each
  death to be met at each step; two in a row are what the attempts bound, which
  `EverySettles` needs and `DriveClient` and `CanvasHttp` allow without bound.
- `MCRivals.cfg`: three files of one name, all in one run, two alternates, a
  sync and a backfill, one death; the other parts as small as they can be. With
  two files there is no such trace: that is the theorem `CompleteRowsHoldGood`.
- `MCSilentCanvas.cfg`: one course, a staleness limit of two steps, three steps.
- `OpensMidRun`: in `baselines` a course is opened and closed only between
  runs, which is the assumption under which `OnlyChangesAreNews` holds; in
  `mid_run` also while a run is at work.
- `CHECK_DEADLOCK FALSE` everywhere but in the delivery's cfgs: time, the edits,
  the slots or the migrations are used up.

### Fairness

`EventuallySettled`: weak fairness of time, of a run starting (the schedule) and
of each step of a run that lives; strong fairness of `Send`: a run may be late
at any flush, but not at every one, of which the 90 seconds reserve of D-77
keeps enough free. Deaths are bounded (`MaxCrashes`): a system whose every run
dies delivers nothing. A stage that throws in every run before the flush would
break this assumption (see the hazard at run.ts:545).

`AnsweredIsClosed`, `NewIsMirrored`, `EverySettles`, `AlarmsClear`: weak fairness
of the schedule starting a run and of a live run's next step, and a bound on
deaths. A backfill and a re-route are started by hand and need never be; once
started they go on. The owner and the world owe nothing. `CallEnds`: weak
fairness of the client alone, as every request is answered or times out
(`AbortSignal.timeout`); nothing bounds what goes wrong.

## What is proved

With TLAPS, for every set of runs, files, contexts and messages and every value
of the limits. TLC has checked each property, and each inductive invariant below
that was not obvious, on the instances above before it was proved.

| Module | Theorems | From |
|---|---|---|
| `SyncLockProofs` | `SyncLockTypeOK`, `SyncLockMutualExclusion`, `SyncLockHeldByWorker`, `SyncLockRefusedWhileFresh` | `RunAssumption`, `TimeAssumption` |
| `NotificationQueueProofs` | `QueueTypes`, `QueueSentWasAccepted`, `QueueAttemptsBounded`, `QueueHoldsUntilMorning`, `QueueImplementsOutbox` | `QueueAssumption` |
| `SyncRunProofs` | `TypesHold`, `NewsIsQueued`, `StoredOnlyAdvances`; `OldIsNoNews` where `~OpensMidRun` | the module's assumptions |
| `FollowupsProofs` | `FollowupsAreTyped`, `NoticesAreUnique`, `EndedRowsStay`, `RemindersAreDue` | the module's assumptions |
| `AlertsProofs` | `OneRungAtATime`, `RetiredWithoutAWord`; `ResolvedWasSeen` where `AlwaysConfigured` | `StagesAssumption` |
| `StagesProofs` | `StagesAreTyped`, `ReviewIsKept`, `MigrationsAppliedOnce`, `ListingsAreWhole`, `RequestsEndInTime`, `GapsAreReal`, `DashboardIsHonest` | `StagesAssumption` |
| `StorageProofs` | `NothingIsLost`, `OneCopyOfEach`, `RootConfines`, `TokensStayAlive`, `ReportsAreTrue` | `MirrorAssumption`, `ArchiveRunAssumption` |
| `ArchiveProofs` | `PartsAreTyped`, `CompleteRowsHoldGood`, `UploadedOnce` | `ArchiveRunAssumption` |

Two theorems have a hypothesis on a constant. `~OpensMidRun` says that no course
is opened to the token while a run is at work; without it the property is false
(run `mid_run`). `AlwaysConfigured` says that every run's machine has the read
model configured; without it the dashboard's ladder is judged unseen (`findings`,
run.ts:501). Both name the situation in which the code does what it says.

None of the properties is inductive. What is added to each, and why:

- The lock. A reading was taken not before the run was born and not after now,
  and a holder that works took the lock with a reading no older than its birth:
  so a reading that finds the lock stale is of a time when its holder, at most
  `JobTimeout` old, is gone. The refusal that is bounded is that of a reading
  against the heartbeat, each as old as its machine's clock says.
- The queue (`QueueInv`, `HoldInv`). What a flush holds in memory is still what
  the table says: one run is at work; the rows of its units are queued, with the
  attempts that were read, and no row is in two; a verdict of "sent" follows an
  acceptance. What is in hand was released at the time the run read, and that
  time is past. The refinement maps the table to the states of its rows: `Put`
  is the outbox's `Enqueue` or a stutter, `Send` is `Accept` or a stutter,
  `Mark` is `Leave` or a stutter.
- The polling run. `OrderInv`: one run is at work and what it fetched or read
  back lies between what is stored and what was posted, so what it commits is
  not older than what it replaces. `BaselineInv`, for `OldIsNoNews`: between
  runs, everything a baseline was taken of is known or hidden by the present
  path; and of a run at work, what it has listed and read back is as fresh as
  its own fetch, so what it will commit leaves that true.
- Follow-ups (`FollowupsInv`, `TypedInv`). What the plan looked at and leaves
  open has no answers, what it names is due: carried from the moment it was made
  to the moment a reminder is queued. The types need that a finite set of times
  has a first: by well-founded induction on the numbers.
- Alerts (`AlertsInv`). Of each ladder a run holds one rung at most and has then
  judged all of it; no stage before this one has spoken for its families; what is
  judged is held, presumed, about a context nobody watches, spoken for by
  another rung, or seen to be well.
- The other parts of `Stages`. `SeedsInv`: the files and the table agree on
  what was decided and loaded. `SchemaInv`: of the migrations the book names, and
  of those a runner has in hand, each was applied as often as it says.
  `HttpInv`: how far past a deadline each mode of a request may be. `SlotsInv`:
  rows are of slots that are past, in the order of their starts. `CopyInv`: a
  publisher reads its tables in order, none before its date.
- The mirror (`MirrorInv`, `OneCopyInv`). A place holds one item, and what a run
  saw at its two places is what its step assumes. A whole copy is known to the
  saved state or about to be; if a run died in between, it stands at the first
  name nothing else holds, which is where the next run looks, as long as
  neither the owner nor the archive moved anything since.
- The guard (`GuardInv`): what it has learned about ids is true of the drive,
  whatever was asked. The tokens (`TokensInv`): a process in possession of a
  fresh token got it today and stores it before it uses it. The client
  (`ClientInv`): what stands at a depth stays, a request's attempts and the
  failures in a row pass their bounds by one at most, and a session's offset and
  what the service got say whether this call made the item.
- The archive (`ArchiveInv`), in parts. `Common`: an item's name and its id are
  its own, and nobody knows a version Canvas has not had. `SoloInv`, of one
  archiver beside a re-route: what is still to be done was not done, and is where
  its row says; what was uploaded or adopted is there, or where a re-route puts
  it, until it is recorded; what a re-route is to move is complete and was
  reserved before it was sorted. `LeftAloneInv`, where the owner takes nothing a
  re-route may move: of the copies of a file the newest is where the next
  attempt looks for it, so the next attempt adopts it. `RivalInv`, of a sync and
  a backfill at once: a file has one of two names, and the second only where the
  other file has the first; so whichever of the two archivers comes second
  meets the file under the name it tries. `NothingNew` says what makes that
  possible: a backfill is of a concluded course.
- The types of the archive's parts (`StoreTypes`, `NeighbourTypes`) rest on the
  invariants before them and on one thing more: what is still to be done has a
  name, an alternate of a name is a name, and what is in hand has a row; so that
  no row is without its path. `ArchiveProofs` extends `StorageProofs` for them.

The proof that a step preserves an invariant is a lemma per action, or per
conjunct where one conjunct is hard; lemmas on the operators come first. The
instances add nothing to the proofs but one lemma for each, that a step of the
whole is a step or a stutter of the part.

Only model-checked: all liveness (`EventuallySettled`, `AnsweredIsClosed`,
`NewIsMirrored`, `EverySettles`, `AlarmsClear`, `CallEnds`), as ENABLED under
fairness is out of the prover's reach. No module has a RECURSIVE operator.

## Not modelled

- Message rendering, redaction, HTML, hashing arithmetic, the fitting and
  comparing of file names, cron expressions as text, the patterns that sort
  files and recognise answers: pure functions on strings, of which the models
  take the result as a constant or a choice.
- The Healthchecks ping: output whose failures are swallowed.
- The dashboard: it reads the copy and keeps nothing.
- The materialize helper: a process of the mirror, of which `Mirror` has what it
  may answer.
- The command line, apart from the commands that change what a component
  keeps; the raw store, the probes and reports of discovery; the mirror's stall
  watch, which sends a message when a file has been deferred for long; the
  owner's lists of answer phrases and lessons, which are constants.
- The composition of the polling run's three views (`SyncRun`, `OpsAlerts`,
  `CanvasHttp`) in one module: they share only the run's order of stages, and
  the product is beyond TLC at any size that shows more than the parts.
- What holds of several units of the database at once outside transactions: the
  dashboard reads the copy's tables one by one and may see two publishes.
- Starvation behind the LIMIT of the archive's candidates, and behind the batch
  of the integrity check: the instances hold all files.
