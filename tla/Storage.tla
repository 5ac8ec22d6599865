------------------------------- MODULE Storage -------------------------------
(***************************************************************************)
(* The archive and its neighbours, which share no state with each other:   *)
(* a behaviour of this specification is one of one part, the others        *)
(* staying where they start.  Each part is an instance with variables of   *)
(* its own; where a constant here has the name of one of a part's, it is   *)
(* that one.  The mirror is extended, so that its theorems and this        *)
(* specification speak of the same definitions.                            *)
(***************************************************************************)
EXTENDS Mirror

CONSTANTS
  (* Archive; File is the mirror's *)
  Base, BaseOf, DefaultOf, Linked, MaxFileSize, MaxVersion, MaxFiles, Limit,
  MaxAttempts, MaxAlternates, Casts, StoreMishaps, StoreEdits,
  (* DriveClient *)
  Depth, Sizes, Chunk, ClientAttempts, MaxFailures, MaxSessions,
  (* GraphTokens *)
  Process, Life, MaxDay, MaxGrants,
  (* RootGuard *)
  Id, Owners, Paths, Safe, Category

VARIABLES
  part,   \* the part this behaviour is of
  storeCanvas, storeDrive, storeTaken, storeMade, storeFacts, storeRules,
  storeRow, storeCheck, storeCast, storePc, storeMem, storeBatch, storeMoves,
  storeMishaps, storeEdits,
  clientFolders, clientItems, clientSession, clientGot, clientPc, clientDepth,
  clientAttempt, clientRefreshed, clientSessions, clientOffset, clientFailures,
  clientSize,
  tokensToday, tokensGrant, tokensStanding, tokensStored, tokensUsed, tokensPc,
  tokensConfig, tokensPending, tokensRenewed,
  guardItems, guardFolders, guardMovable, guardAbsent

Store == INSTANCE Archive WITH
    MaxMishaps <- StoreMishaps, MaxEdits <- StoreEdits,
    canvas <- storeCanvas, drive <- storeDrive, taken <- storeTaken,
    made <- storeMade, facts <- storeFacts, rules <- storeRules,
    row <- storeRow, check <- storeCheck, cast <- storeCast, pc <- storePc,
    mem <- storeMem, batch <- storeBatch, moves <- storeMoves,
    mishaps <- storeMishaps, edits <- storeEdits

storeVars ==
  <<storeCanvas, storeDrive, storeTaken, storeMade, storeFacts, storeRules,
    storeRow, storeCheck, storeCast, storePc, storeMem, storeBatch, storeMoves,
    storeMishaps, storeEdits>>

Client == INSTANCE DriveClient WITH
    MaxAttempts <- ClientAttempts, folders <- clientFolders,
    items <- clientItems, session <- clientSession, got <- clientGot,
    pc <- clientPc, depth <- clientDepth, attempt <- clientAttempt,
    refreshed <- clientRefreshed, sessions <- clientSessions,
    offset <- clientOffset, failures <- clientFailures, size <- clientSize

clientVars ==
  <<clientFolders, clientItems, clientSession, clientGot, clientPc,
    clientDepth, clientAttempt, clientRefreshed, clientSessions, clientOffset,
    clientFailures, clientSize>>

Tokens == INSTANCE GraphTokens WITH
    today <- tokensToday, grant <- tokensGrant, standing <- tokensStanding,
    stored <- tokensStored, used <- tokensUsed, pc <- tokensPc,
    config <- tokensConfig, pending <- tokensPending, renewed <- tokensRenewed

tokensVars ==
  <<tokensToday, tokensGrant, tokensStanding, tokensStored, tokensUsed,
    tokensPc, tokensConfig, tokensPending, tokensRenewed>>

Guard == INSTANCE RootGuard WITH
    items <- guardItems, folders <- guardFolders, movable <- guardMovable, absent <- guardAbsent

guardVars ==
  <<guardItems, guardFolders, guardMovable, guardAbsent>>

all == <<part, vars, storeVars, clientVars, tokensVars, guardVars>>

ArchiveInit ==
  /\ part \in {"mirror", "store", "client", "tokens", "guard"}
  /\ Init /\ Store!Init /\ Client!Init /\ Tokens!Init /\ Guard!Init
  /\ part # "store" => storeCast = CHOOSE cast \in Casts : TRUE
  /\ part # "client" => /\ clientSize = CHOOSE n \in Sizes : TRUE
                        /\ clientFolders = [d \in 1 .. Depth |-> "none"]

MirrorStep ==
  part = "mirror" /\ Next /\ UNCHANGED <<part, storeVars, clientVars, tokensVars, guardVars>>
StoreStep ==
  part = "store" /\ Store!Next /\ UNCHANGED <<part, vars, clientVars, tokensVars, guardVars>>
ClientStep ==
  part = "client" /\ Client!Next /\ UNCHANGED <<part, vars, storeVars, tokensVars, guardVars>>
TokensStep ==
  part = "tokens" /\ Tokens!Next /\ UNCHANGED <<part, vars, storeVars, clientVars, guardVars>>
GuardStep ==
  part = "guard" /\ Guard!Next /\ UNCHANGED <<part, vars, storeVars, clientVars, tokensVars>>

ArchiveNext == MirrorStep \/ StoreStep \/ ClientStep \/ TokensStep \/ GuardStep

(* Each part's own fairness; the mirror's step is never enabled elsewhere. *)
InStore(A) == part = "store" /\ A
ArchiveFairness ==
  /\ Fairness
  /\ WF_storeVars(InStore(Store!Start(Store!Sync))) /\ WF_storeVars(InStore(Store!Checking))
  /\ WF_storeVars(InStore(Store!Rerouting))
  /\ \A p \in Store!Archiver : WF_storeVars(InStore(Store!Archive(p)))
  /\ WF_clientVars(part = "client" /\ Client!Client)

ArchiveSpec == ArchiveInit /\ [][ArchiveNext]_all /\ ArchiveFairness

-----------------------------------------------------------------------------
(* TLC evaluates here what each part assumes of its constants. *)
ASSUME ArchiveRunAssumption ==
  /\ Store!ArchiveAssumption /\ Client!DriveClientAssumption
  /\ Tokens!TokensAssumption /\ Guard!GuardAssumption

(* Each part's variables keep their types. *)
ArchiveRunTypeOK ==
  /\ MirrorTypeOK /\ Store!ArchiveTypeOK /\ Client!ClientTypeOK
  /\ Tokens!TokensTypeOK /\ Guard!GuardTypeOK

(* stage.ts:19, reroute.ts:11: "complete" is said of bytes that are there. *)
CompleteIsThere == Store!CompleteIsThere

(* stage.ts:19: what its doc says of every crash. *)
CompleteAtRest == Store!CompleteAtRest

(* stage.ts:13, 308: the same bytes are not uploaded twice. *)
NoSecondCopy == Store!NoSecondCopy

(* stage.ts:108, 235: no accessible file stays pending for ever. *)
EverySettles == Store!EverySettles

(* integrity.ts:5: a false alarm is corrected by a later check. *)
AlarmsClear == Store!AlarmsClear

(* drive.ts:287-312: success is reported only of the one item made. *)
ReportsWhatItMade == Client!ReportsWhatItMade

(* drive.ts:110-150, 296-364: every call comes to an end. *)
CallEnds == part = "client" => Client!CallEnds

(* auth.ts:122-127: the token in use is stored anew on each day of use. *)
KeptAliveByUse == Tokens!KeptAliveByUse

(* guard.ts:4-42: nothing but a filing within a module changes the drive. *)
Confined == Guard!Confined

=============================================================================
