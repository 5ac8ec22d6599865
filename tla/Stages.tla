-------------------------------- MODULE Stages --------------------------------
(***************************************************************************)
(* The parts of a polling run, and of what prepares it, that share no      *)
(* state with each other: a behaviour of this specification is one of one  *)
(* part, the others staying where they start.  Each part is an instance    *)
(* with variables of its own; where a constant here has the name of one of *)
(* a part's, it is that one.  Follow-ups are extended, so that their       *)
(* theorems and this specification speak of the same definitions.          *)
(***************************************************************************)
EXTENDS Followups

CONSTANTS
  (* OpsAlerts *)
  Context, Group, TokenDays, DashDays, Drives, Spaces, Faults, Unrecorded,
  Configured, CriticalEvery, WarnEvery, StaleAfter, AlertsTime, AlertsChanges,
  (* CanvasHttp *)
  Enabled, Calls, Pages, MaxPages, MaxAttempts, Timeout, Latency, RetryAfter,
  MaxWait, MaxBackoff, Readings, CourseTime, WorkTime,
  (* Schedule *)
  DaySlots, NightSlots, ReportAt,
  (* Seeding *)
  Courses, Groups, ParentOf(_), Codes, Suggested(_), Current(_),
  (* Migrations *)
  Runner, Migrations, FileEdits,
  (* ReadModel *)
  Publisher, Tables, MaxCommits

VARIABLES
  part,   \* the part this behaviour is of
  alertsNow, alertsWorld, alertsWatched, alertsChanges, alertsAlerts,
  alertsMarks, alertsStored, alertsReachedAt, alertsLost, alertsPc, alertsMem,
  alertsTold,
  httpNow, httpPart, httpCall, httpMode, httpDeadline, httpSize, httpPage,
  httpAttempt, httpLast, httpAnswer, httpCeiling, httpRemaining, httpDeferred,
  slotsClock, slotsGithub, slotsNamed, slotsRows, slotsActive, slotsNotices,
  seedsActive, seedsMember, seedsConcluded, seedsSeed, seedsFresh,
  seedsDecided, seedsContexts, seedsLoaded,
  schemaFile, schemaTable, schemaBook, schemaSchema, schemaRunner,
  copyCommits, copyMigrated, copyPublished, copyRows, copyPublisher

Alerts == INSTANCE OpsAlerts WITH
    MaxTime <- AlertsTime, MaxChanges <- AlertsChanges,
    now <- alertsNow, world <- alertsWorld, watched <- alertsWatched,
    changes <- alertsChanges, alerts <- alertsAlerts, marks <- alertsMarks,
    stored <- alertsStored, reachedAt <- alertsReachedAt, lost <- alertsLost,
    pc <- alertsPc, mem <- alertsMem, told <- alertsTold

alertsVars ==
  <<alertsNow, alertsWorld, alertsWatched, alertsChanges, alertsAlerts,
    alertsMarks, alertsStored, alertsReachedAt, alertsLost, alertsPc,
    alertsMem, alertsTold>>

Http == INSTANCE CanvasHttp WITH
    now <- httpNow, part <- httpPart, call <- httpCall, mode <- httpMode,
    deadline <- httpDeadline, size <- httpSize, page <- httpPage,
    attempt <- httpAttempt, last <- httpLast, answer <- httpAnswer,
    ceiling <- httpCeiling, remaining <- httpRemaining,
    deferred <- httpDeferred

httpVars ==
  <<httpNow, httpPart, httpCall, httpMode, httpDeadline, httpSize, httpPage,
    httpAttempt, httpLast, httpAnswer, httpCeiling, httpRemaining, httpDeferred>>

Slots == INSTANCE Schedule WITH
    clock <- slotsClock, github <- slotsGithub, named <- slotsNamed,
    rows <- slotsRows, active <- slotsActive, notices <- slotsNotices

slotsVars ==
  <<slotsClock, slotsGithub, slotsNamed, slotsRows, slotsActive, slotsNotices>>

Seeds == INSTANCE Seeding WITH
    active <- seedsActive, member <- seedsMember, concluded <- seedsConcluded,
    seed <- seedsSeed, fresh <- seedsFresh, decided <- seedsDecided,
    contexts <- seedsContexts, loaded <- seedsLoaded

seedsVars ==
  <<seedsActive, seedsMember, seedsConcluded, seedsSeed, seedsFresh,
    seedsDecided, seedsContexts, seedsLoaded>>

Schema == INSTANCE Migrations WITH
    Last <- Migrations, MaxEdits <- FileEdits, file <- schemaFile,
    table <- schemaTable, book <- schemaBook, schema <- schemaSchema,
    runner <- schemaRunner

schemaVars ==
  <<schemaFile, schemaTable, schemaBook, schemaSchema, schemaRunner>>

Copy == INSTANCE ReadModel WITH
    Last <- Tables, commits <- copyCommits,
    migrated <- copyMigrated, published <- copyPublished, rows <- copyRows,
    publisher <- copyPublisher

copyVars ==
  <<copyCommits, copyMigrated, copyPublished, copyRows, copyPublisher>>

all == <<part, vars, alertsVars, httpVars, slotsVars, seedsVars, schemaVars, copyVars>>

StagesInit ==
  /\ part \in {"followups", "alerts", "http", "slots", "seeds", "schema", "copy"}
  /\ Init /\ Alerts!Init /\ Http!Init /\ Slots!Init /\ Seeds!Init /\ Schema!Init /\ Copy!Init
  /\ part # "seeds" => seedsMember = {}

FollowupsStep ==
  part = "followups" /\ Next
    /\ UNCHANGED <<part, alertsVars, httpVars, slotsVars, seedsVars, schemaVars, copyVars>>
AlertsStep ==
  part = "alerts" /\ Alerts!Next
    /\ UNCHANGED <<part, vars, httpVars, slotsVars, seedsVars, schemaVars, copyVars>>
HttpStep ==
  part = "http" /\ Http!Next
    /\ UNCHANGED <<part, vars, alertsVars, slotsVars, seedsVars, schemaVars, copyVars>>
SlotsStep ==
  part = "slots" /\ Slots!Next
    /\ UNCHANGED <<part, vars, alertsVars, httpVars, seedsVars, schemaVars, copyVars>>
SeedsStep ==
  part = "seeds" /\ Seeds!Next
    /\ UNCHANGED <<part, vars, alertsVars, httpVars, slotsVars, schemaVars, copyVars>>
SchemaStep ==
  part = "schema" /\ Schema!Next
    /\ UNCHANGED <<part, vars, alertsVars, httpVars, slotsVars, seedsVars, copyVars>>
CopyStep ==
  part = "copy" /\ Copy!Next
    /\ UNCHANGED <<part, vars, alertsVars, httpVars, slotsVars, seedsVars, schemaVars>>

StagesNext ==
  FollowupsStep \/ AlertsStep \/ HttpStep \/ SlotsStep \/ SeedsStep \/ SchemaStep \/ CopyStep

(* Only follow-ups, once ruled on, ever enable Stage. *)
StagesSpec == StagesInit /\ [][StagesNext]_all /\ Fairness

-----------------------------------------------------------------------------
(* TLC evaluates here what each part assumes of its constants. *)
ASSUME StagesAssumption ==
  /\ Alerts!AlertsAssumption /\ Alerts!WorldAssumption /\ Http!HttpConstants /\ Http!TokenFits
  /\ Slots!ScheduleAssumption /\ Seeds!SeedingAssumption
  /\ Schema!MigrationsAssumption /\ Copy!ReadModelAssumption

(* Each part's variables keep their types. *)
StagesTypeOK ==
  /\ FollowupsTypeOK /\ Alerts!AlertsTypeOK /\ Http!HttpTypeOK /\ Slots!ScheduleTypeOK
  /\ Seeds!SeedingTypeOK /\ Schema!MigrationsTypeOK /\ Copy!ReadModelTypeOK

(* ops.ts:22: the owner is never told of two rungs of a ladder at once. *)
OneRungPerLadder == Alerts!OneRungPerLadder

(* ops.ts:16, 23: "Resolved" is said only of what the run saw not to hold. *)
ResolvedWasSeenFixed == Alerts!ResolvedWasSeenFixed

(* ops.ts retireContextAlerts: an unwatched context's alert goes silently. *)
RetiredInSilence == Alerts!RetiredInSilence

(* http.ts:117-119: a listing answered "ok" is the whole listing. *)
WholeOrNothing == Http!WholeOrNothing

(* http.ts:88-92: requests end with their part's time and the run's. *)
KeepsToItsDeadline == Http!KeepsToItsDeadline

(* run.ts:1145-1198: in a reported gap no run had started. *)
GapIsReal == Slots!GapIsReal

(* merge-groups.ts 4-16, seed-courses.ts 238-254: one folder a module. *)
FiledAsReviewed == Seeds!FiledAsReviewed

(* migrate.ts 3-7, 13-17: no migration is applied twice, and the table     *)
(* says which contents were.                                               *)
AppliedOnce == Schema!AppliedOnce

(* publish.ts 149-189: the copy holds all that its date claims. *)
NoFresherThanItSays == Copy!NoFresherThanItSays

=============================================================================
