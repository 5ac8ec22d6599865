---------------------------- MODULE GraphTokens ----------------------------
(***************************************************************************)
(* The sign-in to OneDrive (src/src/graph/auth.ts, src/src/cli/            *)
(* graph-drive.ts and graph-login.ts).  Every process reads the refresh    *)
(* token from the config table when it starts, redeems it for an access    *)
(* token when it needs one, and stores the new refresh token that comes    *)
(* along before it uses the access token.  The old token stays good.       *)
(*                                                                         *)
(* Microsoft lets a refresh token die that is not renewed for a while, and *)
(* the owner may withdraw the consent and sign in again, at any time.  Any *)
(* request may fail, any write of the store may fail, and a process may    *)
(* die between two steps.                                                  *)
(***************************************************************************)
EXTENDS Naturals

CONSTANTS
  Process,   \* the syncs and the commands that reach OneDrive
  Life,      \* days for which a refresh token can be redeemed
  MaxDay,    \* bound on the days
  MaxGrants  \* bound on the consents given

TokensAssumption == Life \in Nat /\ MaxDay \in Nat /\ MaxGrants \in Nat \ {0}

VARIABLES
  today,
  grant,    \* Microsoft: the consent that stands, or the last one withdrawn
  standing, \* Microsoft: whether it stands
  stored,   \* config: graph_refresh_token
  used,     \* the last use of the drive: under which consent, on which day
  pc,
  config,   \* the process's copy of the token: Config, with its override
  pending,  \* a refresh token just received and not yet stored
  renewed   \* request: it has invalidated the access token once

vars == <<today, grant, standing, stored, used, pc, config, pending, renewed>>

(* A refresh token: the consent it is of, and the day it was issued. *)
Token == [grant : 1 .. MaxGrants, day : 0 .. MaxDay]
Good(t) == standing /\ t.grant = grant /\ today < t.day + Life
Fresh == [grant |-> grant, day |-> today]

Init ==
  /\ today = 0 /\ grant = 1 /\ standing = TRUE
  /\ stored = Fresh /\ used = Fresh
  /\ pc = [p \in Process |-> "idle"]
  /\ config = [p \in Process |-> stored] /\ pending = config
  /\ renewed = [p \in Process |-> FALSE]

Goto(p, step) == pc' = [pc EXCEPT ![p] = step]
worldVars == <<today, grant, standing>>

(* A process ends or dies, having done what it did. *)
End(p) ==
  /\ pc[p] # "idle" /\ Goto(p, "idle")
  /\ config' = [config EXCEPT ![p] = stored] /\ pending' = [pending EXCEPT ![p] = stored]
  /\ renewed' = [renewed EXCEPT ![p] = FALSE]
  /\ UNCHANGED <<worldVars, stored, used>>

(* Config.load. *)
Start(p) ==
  /\ pc[p] = "idle" /\ Goto(p, "get")
  /\ config' = [config EXCEPT ![p] = stored]
  /\ UNCHANGED <<worldVars, stored, used, pending, renewed>>

(* graph-login: the code is typed in, which gives a consent where none     *)
(* stands.                                                                 *)
Login(p) ==
  /\ pc[p] = "idle" /\ (standing \/ grant < MaxGrants)
  /\ grant' = (IF standing THEN grant ELSE grant + 1) /\ standing' = TRUE
  /\ pending' = [pending EXCEPT ![p] = [grant |-> grant', day |-> today]]
  /\ Goto(p, "save_login")
  /\ UNCHANGED <<today, stored, used, config, renewed>>

(* get: no access token that is still good, so the refresh token is        *)
(* redeemed.  A rejection or a lost answer is thrown: End.                 *)
Redeem(p) ==
  /\ pc[p] = "get" /\ Good(config[p])
  /\ pending' = [pending EXCEPT ![p] = Fresh] /\ Goto(p, "save")
  /\ UNCHANGED <<worldVars, stored, used, config, renewed>>

(* Mutant: the new token is kept for this process only. *)
SaveForNow(p) ==
  /\ pc[p] \in {"save", "save_login"}
  /\ config' = [config EXCEPT ![p] = pending[p]]
  /\ stored' = IF pc[p] = "save_login" THEN pending[p] ELSE stored
  /\ Goto(p, IF pc[p] = "save" THEN "use" ELSE "get")
  /\ UNCHANGED <<worldVars, used, pending, renewed>>
(* saveRefreshToken: the table, then the copy; only then the access token  *)
(* is kept.  A write that fails is thrown: End.                            *)
Save(p) ==
  /\ pc[p] \in {"save", "save_login"}
  /\ stored' = pending[p] /\ config' = [config EXCEPT ![p] = pending[p]]
  /\ Goto(p, IF pc[p] = "save" THEN "use" ELSE "get")
  /\ UNCHANGED <<worldVars, used, pending, renewed>>

(* A request with the access token, which Graph takes as long as the       *)
(* consent it was got under stands.                                        *)
Use(p) ==
  /\ pc[p] = "use" /\ standing /\ config[p].grant = grant
  /\ used' = Fresh /\ renewed' = [renewed EXCEPT ![p] = FALSE]
  /\ UNCHANGED <<worldVars, stored, pc, config, pending>>

(* A 401: once for a request the access token is got anew. *)
Refused(p) ==
  /\ pc[p] = "use" /\ ~renewed[p]
  /\ renewed' = [renewed EXCEPT ![p] = TRUE] /\ Goto(p, "get")
  /\ UNCHANGED <<worldVars, stored, used, config, pending>>

Withdraw ==
  /\ standing /\ grant < MaxGrants /\ standing' = FALSE
  /\ UNCHANGED <<today, grant, stored, used, pc, config, pending, renewed>>

(* No process lives over a day's end: a run has minutes. *)
Tick ==
  /\ today < MaxDay /\ \A p \in Process : pc[p] = "idle"
  /\ today' = today + 1
  /\ UNCHANGED <<grant, standing, stored, used, pc, config, pending, renewed>>

Next ==
  \/ Withdraw \/ Tick
  \/ \E p \in Process : \/ Start(p) \/ Login(p) \/ Redeem(p) \/ Save(p)
                        \/ Use(p) \/ Refused(p) \/ End(p)

Spec == Init /\ [][Next]_vars

-----------------------------------------------------------------------------
TokensTypeOK ==
  /\ today \in 0 .. MaxDay /\ grant \in 1 .. MaxGrants /\ standing \in BOOLEAN
  /\ stored \in Token /\ used \in Token
  /\ pc \in [Process -> {"idle", "get", "save_login", "save", "use"}]
  /\ config \in [Process -> Token] /\ pending \in [Process -> Token]
  /\ renewed \in [Process -> BOOLEAN]

(* The drive is never used without the refresh token having been renewed   *)
(* in the store on that day: whoever dies where, and whichever of two      *)
(* processes stores last, a token in use never dies of age.  (A process    *)
(* that redeemed its token before the owner withdrew the consent and       *)
(* signed in anew may still store it over the new one: then the stored     *)
(* token is of an older consent, and the owner must sign in once more.)    *)
(* auth.ts:122-127, "Persist first".                                       *)
KeptAliveByUse == stored.grant = used.grant => stored.day >= used.day

=============================================================================
