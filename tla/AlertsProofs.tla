---------------------------- MODULE AlertsProofs ----------------------------
(***************************************************************************)
(* Proofs about OpsAlerts.tla as the part "alerts" of Stages.tla: for any  *)
(* contexts, any expiry dates, any cadences and any sequence of runs that  *)
(* die anywhere.                                                           *)
(*                                                                         *)
(* None of the three properties is inductive.  AlertsInv says what a run   *)
(* holds while it works: one rung of a ladder at most, and then the whole  *)
(* ladder judged (MemoryInv); and which families no stage before this one  *)
(* has spoken for, so that what a stage adds meets nothing of its own      *)
(* (StageInv).  That what is resolved was seen to be mended needs that     *)
(* whatever is judged is held, presumed, about a context nobody watches,   *)
(* spoken for by another rung, or seen (JudgedIsSeen); and the machine     *)
(* that runs must have the read model configured (AlwaysConfigured): the   *)
(* dashboard's ladder is judged even where it is not looked at (run.ts:363 *)
(* and 371).                                                               *)
(***************************************************************************)
EXTENDS Stages, TLAPS

(* Keys.                                                                   *)
LaddersAre == {"token_expiry", "dashboard_token_expiry", "storage"}
PerContextIs == {"coverage", "context_stale"}

LEMMA LadderNames == Alerts!Ladders = LaddersAre
BY DEF Alerts!Ladders, Alerts!Rungs, LaddersAre

LEMMA LadderKeys ==
  \A f \in LaddersAre : \A k : k \in Alerts!Ladder(f) <=> \E r \in Alerts!Rungs[f] : k = <<f, r>>
BY DEF Alerts!Ladder

(* A key says by its first part which kind it is of.                       *)
LEMMA KeyParts ==
  ASSUME NEW k
  PROVE  k \in Alerts!Key <=>
           \/ \E f \in LaddersAre : k \in Alerts!Ladder(f)
           \/ \E n \in Alerts!Single : k = Alerts!Alert(n)
           \/ k \in Alerts!PerContext \X Context
<1> DEFINE A == UNION {Alerts!Ladder(f) : f \in Alerts!Ladders}
           B == {Alerts!Alert(n) : n \in Alerts!Single}
<1>1. Alerts!Key = A \cup B \cup (Alerts!PerContext \X Context)
  BY Zenon DEF Alerts!Key
<1>2. k \in A <=> \E f \in Alerts!Ladders : k \in Alerts!Ladder(f)
  BY Zenon
<1>3. k \in B <=> \E n \in Alerts!Single : k = Alerts!Alert(n)
  BY Zenon
<1> HIDE DEF A, B
<1>4. k \in Alerts!Key <=> k \in A \/ k \in B \/ k \in Alerts!PerContext \X Context
  BY <1>1
<1> QED BY <1>2, <1>3, <1>4, LadderNames

LEMMA KeyKinds ==
  /\ \A f \in LaddersAre : \A k \in Alerts!Ladder(f) : k \in Alerts!Key /\ k[1] = f
  /\ \A n \in Alerts!Single : /\ Alerts!Alert(n) \in Alerts!Key /\ Alerts!Alert(n)[1] = n
                              /\ n \notin LaddersAre /\ n \notin PerContextIs
  /\ \A k \in Alerts!PerContext \X Context :
       k \in Alerts!Key /\ k[1] \in PerContextIs /\ k[1] \notin LaddersAre /\ k[2] \in Context
<1>1. ASSUME NEW f \in LaddersAre, NEW k \in Alerts!Ladder(f)
      PROVE  k \in Alerts!Key /\ k[1] = f
  <2>2. k \in Alerts!Key
    BY <1>1, KeyParts
  <2>3. k[1] = f
    BY DEF Alerts!Ladder
  <2> QED BY <2>2, <2>3
<1>2. ASSUME NEW n \in Alerts!Single
      PROVE  /\ Alerts!Alert(n) \in Alerts!Key /\ Alerts!Alert(n)[1] = n
             /\ n \notin LaddersAre /\ n \notin PerContextIs
  <2>1. Alerts!Alert(n) \in Alerts!Key
    BY KeyParts
  <2>2. Alerts!Alert(n)[1] = n
    BY DEF Alerts!Alert
  <2>3. n \notin LaddersAre /\ n \notin PerContextIs
    BY DEF Alerts!Single, Alerts!GraphAlert, LaddersAre, PerContextIs
  <2> QED BY <2>1, <2>2, <2>3
<1>3. ASSUME NEW k \in Alerts!PerContext \X Context
      PROVE  k \in Alerts!Key /\ k[1] \in PerContextIs /\ k[1] \notin LaddersAre /\ k[2] \in Context
  <2>1. k[1] \in Alerts!PerContext /\ k[2] \in Context
    BY <1>3
  <2>2. k[1] \in PerContextIs /\ k[1] \notin LaddersAre
    BY <2>1 DEF Alerts!PerContext, PerContextIs, LaddersAre
  <2>3. k \in Alerts!Key
    BY <1>3, KeyParts
  <2> QED BY <2>1, <2>2, <2>3
<1> QED BY <1>1, <1>2, <1>3

LEMMA KeyShape ==
  ASSUME NEW k \in Alerts!Key
  PROVE  /\ k[1] \in LaddersAre => k \in Alerts!Ladder(k[1])
         /\ k[1] \in PerContextIs => k \in Alerts!PerContext \X Context
<1>1. ASSUME NEW f \in LaddersAre, k \in Alerts!Ladder(f)
      PROVE  k[1] \in LaddersAre /\ k[1] \notin PerContextIs /\ k \in Alerts!Ladder(k[1])
  <2>1. k[1] = f
    BY <1>1, KeyKinds
  <2>2. f \notin PerContextIs
    BY DEF LaddersAre, PerContextIs
  <2> QED BY <1>1, <2>1, <2>2
<1>2. ASSUME NEW n \in Alerts!Single, k = Alerts!Alert(n)
      PROVE  k[1] \notin LaddersAre /\ k[1] \notin PerContextIs
  BY <1>2, KeyKinds
<1>3. CASE k \in Alerts!PerContext \X Context
  BY <1>3, KeyKinds
<1> QED BY <1>1, <1>2, <1>3, KeyParts

LEMMA Families ==
  ASSUME NEW k \in Alerts!Key
  PROVE  /\ k[1] \in LaddersAre => /\ Alerts!FamilyOf(k) = Alerts!Ladder(k[1])
                                   /\ k \in Alerts!FamilyOf(k)
                                   /\ \A l \in Alerts!FamilyOf(k) : l \in Alerts!Key /\ l[1] = k[1]
         /\ k[1] \notin LaddersAre => Alerts!FamilyOf(k) = {k}
BY LadderNames, KeyShape, KeyKinds DEF Alerts!FamilyOf

(* The expiry ladders: a rung, or none.                                    *)
LEMMA ExpiryRung ==
  ASSUME Alerts!AlertsAssumption, NEW f \in {"token_expiry", "dashboard_token_expiry"},
         NEW days \in TokenDays \cup DashDays
  PROVE  /\ Alerts!Expiry(f, days) \subseteq Alerts!Ladder(f)
         /\ \A h, k \in Alerts!Expiry(f, days) : h = k
<1>1. Alerts!Rungs[f] = {"unknown", "expired", "14", "7", "3", "1"}
  BY DEF Alerts!Rungs
<1>2. \A r \in {"unknown", "expired", "14", "7", "3", "1"} : <<f, r>> \in Alerts!Ladder(f)
  BY <1>1 DEF Alerts!Ladder
<1>3. CASE days = Unrecorded
  BY <1>2, <1>3 DEF Alerts!Expiry
<1>4. CASE days # Unrecorded /\ days > 14
  BY <1>4 DEF Alerts!Expiry
<1>5. CASE days # Unrecorded /\ ~(days > 14)
  <2> DEFINE r == CASE days <= 0 -> "expired" [] days = 1 -> "1" [] days \in 2 .. 3 -> "3"
                    [] days \in 4 .. 7 -> "7" [] OTHER -> "14"
  <2>1. r \in {"expired", "14", "7", "3", "1"}
    <3>1. days \in Int
      BY <1>5 DEF Alerts!AlertsAssumption
    <3> QED BY <3>1
  <2>2. Alerts!Expiry(f, days) = {<<f, r>>}
    BY <1>5, Zenon DEF Alerts!Expiry
  <2> HIDE DEF r
  <2> QED BY <1>2, <2>1, <2>2
<1> QED BY <1>3, <1>4, <1>5

-----------------------------------------------------------------------------
(* What a run holds.                                                       *)
IsMemory(m) ==
  DOMAIN m = {"holds", "judged", "seen", "cov", "configured"}

LEMMA JudgeFields ==
  ASSUME NEW H, NEW J, NEW S, IsMemory(alertsMem)
  PROVE  /\ IsMemory(Alerts!Judge(H, J, S))
         /\ Alerts!Judge(H, J, S).holds = alertsMem.holds \cup H
         /\ Alerts!Judge(H, J, S).judged = alertsMem.judged \cup J
         /\ Alerts!Judge(H, J, S).seen = alertsMem.seen \cup (S \ H)
         /\ Alerts!Judge(H, J, S).cov = alertsMem.cov
BY DEF IsMemory, Alerts!Judge

-----------------------------------------------------------------------------
(* One rung of a ladder is held at a time, and what is held of a ladder is *)
(* judged with all of it.                                                  *)
OneHeld(m) ==
  \A h, k \in m.holds : h[1] = k[1] /\ h[1] \in LaddersAre => h = k
HeldIsJudged(m) ==
  \A h \in m.holds : h[1] \in LaddersAre => Alerts!Ladder(h[1]) \subseteq m.judged

(* Whatever is judged not to hold was seen not to, but for what the code   *)
(* presumes; what is not watched is not told of, and a ladder that holds   *)
(* speaks for its rungs.                                                   *)
Covered(k, m) ==
  \/ k[1] \in PerContextIs /\ k[2] \notin alertsWatched
  \/ k[1] \in LaddersAre /\ \E h \in m.holds : h[1] = k[1]
  \/ Alerts!FamilyOf(k) \subseteq m.seen
JudgedIsSeen(m) ==
  \A k \in m.judged : k \notin m.holds /\ k \notin Alerts!Presumed => Covered(k, m)

AlwaysConfigured == FALSE \notin Configured

MemoryInv ==
  /\ IsMemory(alertsMem)
  /\ OneHeld(alertsMem) /\ HeldIsJudged(alertsMem)
  /\ AlwaysConfigured => JudgedIsSeen(alertsMem)

StageInv ==
  /\ alertsPc = "idle" => alertsMem = Alerts!EmptyMemory
  /\ alertsPc \in {"probe", "contexts", "archive"} => \A h \in alertsMem.holds : h[1] # "storage"
  /\ alertsPc \in {"probe", "contexts"} => \A k \in alertsMem.judged : k[1] \notin PerContextIs
  /\ alertsPc = "reconcile" =>
       \A k \in alertsMem.judged :
         k[1] \in PerContextIs /\ k[2] \notin alertsWatched => alertsAlerts[k] = Alerts!Never

ToldInv ==
  /\ Alerts!OneRungPerLadder /\ Alerts!RetiredInSilence
  /\ AlwaysConfigured => Alerts!ResolvedWasSeenFixed

AlertsInv == Alerts!AlertsTypeOK /\ MemoryInv /\ StageInv /\ ToldInv

(* What a judgment must not do to them: its ladders are new to the run,    *)
(* it holds one rung of each, judges all of it, and has looked.            *)
LEMMA JudgeStep ==
  ASSUME NEW m, NEW n, NEW H, NEW J, NEW S,
         n.holds = m.holds \cup H, n.judged = m.judged \cup J, n.seen = m.seen \cup (S \ H),
         OneHeld(m), HeldIsJudged(m),
         \A h, k \in H : h[1] = k[1] /\ h[1] \in LaddersAre => h = k,
         \A h \in H : h[1] \in LaddersAre =>
           Alerts!Ladder(h[1]) \subseteq J /\ \A g \in m.holds : g[1] # h[1]
  PROVE  OneHeld(n) /\ HeldIsJudged(n)
BY DEF OneHeld, HeldIsJudged

-----------------------------------------------------------------------------
LEMMA AlertsNumbers ==
  ASSUME Alerts!AlertsAssumption, Alerts!AlertsTypeOK
  PROVE  /\ AlertsTime \in Nat /\ AlertsChanges \in Nat
         /\ alertsNow \in Int /\ alertsNow >= 0 /\ alertsNow <= AlertsTime
         /\ alertsNow \in Alerts!Time /\ 0 \in Alerts!Time
         /\ \A t \in 0 .. alertsNow : t \in Alerts!Time
         /\ Alerts!Never = -1 /\ \A t \in Alerts!Time : t # Alerts!Never
BY DEF Alerts!AlertsAssumption, Alerts!AlertsTypeOK, Alerts!Time, Alerts!Never

(* Nothing in a memory that is empty. *)
LEMMA Empty ==
  ASSUME alertsMem = Alerts!EmptyMemory
  PROVE  /\ alertsMem.holds = {} /\ alertsMem.judged = {} /\ alertsMem.seen = {}
         /\ DOMAIN alertsMem.cov = {}
         /\ MemoryInv
<1>1. /\ alertsMem.holds = {} /\ alertsMem.judged = {} /\ alertsMem.seen = {}
      /\ alertsMem.cov = <<>> /\ IsMemory(alertsMem)
  BY DEF Alerts!EmptyMemory, IsMemory
<1>2. DOMAIN alertsMem.cov = {}
  BY <1>1
<1> QED BY <1>1, <1>2 DEF MemoryInv, OneHeld, HeldIsJudged, JudgedIsSeen

LEMMA InitAlertsInv ==
  ASSUME Alerts!AlertsAssumption, Alerts!Init
  PROVE  AlertsInv
<1> USE DEF Alerts!Init
<1>1. alertsMem = Alerts!EmptyMemory
  OBVIOUS
<1>2. Alerts!AlertsTypeOK
  <2>1. alertsNow \in Alerts!Time /\ alertsChanges \in 0 .. AlertsChanges
        /\ alertsMarks \in [Context -> [Alerts!FileMark -> Alerts!Time]]
    BY DEF Alerts!AlertsAssumption, Alerts!Time
  <2>2. alertsWorld \in [token : TokenDays, dash : DashDays, canvas : {"up", "rejected"},
                drive : Alerts!DriveState, space : Alerts!Space, faults : SUBSET Alerts!Fault,
                cov : [Context -> Alerts!Coverage]]
    <3>1. 30 \in TokenDays /\ 30 \in DashDays
      BY DEF Alerts!AlertsAssumption
    <3>2. [c \in Context |-> "full"] \in [Context -> Alerts!Coverage]
      BY DEF Alerts!Coverage
    <3>3. "ok" \in Alerts!DriveState /\ "low" \in Alerts!Space
      BY DEF Alerts!DriveState, Alerts!Space
    <3> QED BY <3>1, <3>2, <3>3 DEF Alerts!Sound
  <2>3. /\ alertsAlerts \in [Alerts!Key -> Alerts!Time \cup {Alerts!Never}]
        /\ alertsReachedAt \in Alerts!Time \cup {Alerts!Never}
        /\ alertsLost \in Alerts!Time \cup {Alerts!Never}
    <3> HIDE DEF Alerts!Init
    <3>1. alertsAlerts = [k \in Alerts!Key |-> Alerts!Never]
          /\ alertsReachedAt = Alerts!Never /\ alertsLost = Alerts!Never
      BY DEF Alerts!Init
    <3> QED BY <3>1
  <2>4. alertsStored \in [Context -> Alerts!Coverage] /\ alertsWatched \subseteq Context
    BY DEF Alerts!Coverage
  <2> QED BY <1>1, <2>1, <2>2, <2>3, <2>4, Empty DEF Alerts!AlertsTypeOK
<1>3. MemoryInv
  BY <1>1, Empty
<1>4. StageInv
  BY <1>1 DEF StageInv
<1>5. ToldInv
  <2>1. Alerts!OneRungPerLadder
    <3>1. \A f \in Alerts!Ladders : \A k \in Alerts!Ladder(f) : alertsAlerts[k] = Alerts!Never
      BY LadderNames, KeyKinds
    <3> QED BY <3>1 DEF Alerts!OneRungPerLadder
  <2> QED BY <2>1 DEF ToldInv, Alerts!RetiredInSilence, Alerts!ResolvedWasSeenFixed, Alerts!NoMessages
<1> QED BY <1>2, <1>3, <1>4, <1>5 DEF AlertsInv

-----------------------------------------------------------------------------
(* The steps.                                                              *)
LEMMA TickAlertsInv ==
  ASSUME Alerts!AlertsAssumption, AlertsInv, Alerts!Tick
  PROVE  AlertsInv'
<1> USE DEF Alerts!Tick, Alerts!worldVars, Alerts!dbVars
<1>1. Alerts!AlertsTypeOK'
  <2>1. alertsNow' \in Alerts!Time
    BY AlertsNumbers DEF AlertsInv, Alerts!Time
  <2> QED BY <2>1 DEF AlertsInv, Alerts!AlertsTypeOK
<1>2. MemoryInv' /\ StageInv'
  BY DEF AlertsInv, MemoryInv, StageInv, OneHeld, HeldIsJudged, JudgedIsSeen, Covered, IsMemory
<1>3. ToldInv'
  BY DEF AlertsInv, ToldInv, Alerts!OneRungPerLadder, Alerts!RetiredInSilence, Alerts!ResolvedWasSeenFixed
<1> QED BY <1>1, <1>2, <1>3 DEF AlertsInv

LEMMA WorldChangesAlertsInv ==
  ASSUME Alerts!AlertsAssumption, Alerts!WorldAssumption, AlertsInv, Alerts!WorldChanges
  PROVE  AlertsInv'
<1> USE DEF Alerts!WorldChanges, Alerts!dbVars
<1> DEFINE W == [token : TokenDays, dash : DashDays, canvas : {"up", "rejected"},
                 drive : Alerts!DriveState, space : Alerts!Space, faults : SUBSET Alerts!Fault,
                 cov : [Context -> Alerts!Coverage]]
<1>1. alertsWorld \in W
  BY DEF AlertsInv, Alerts!AlertsTypeOK
<1>2. alertsWorld' \in W
  <2>1. Drives \subseteq Alerts!DriveState /\ Spaces \subseteq Alerts!Space
        /\ Faults \subseteq Alerts!Fault
    BY DEF Alerts!WorldAssumption
  <2>2. ASSUME NEW c \in Context, NEW v \in Alerts!Coverage,
               alertsWorld' = [alertsWorld EXCEPT !.cov[c] = v]
        PROVE  alertsWorld' \in W
    BY <1>1, <2>2
  <2>3. ASSUME NEW f \in Faults,
               alertsWorld' = [alertsWorld EXCEPT !.faults = (@ \cup {f}) \ (@ \cap {f})]
        PROVE  alertsWorld' \in W
    <3> DEFINE F == (alertsWorld.faults \cup {f}) \ (alertsWorld.faults \cap {f})
    <3>1. F \in SUBSET Alerts!Fault
      BY <1>1, <2>1
    <3>2. alertsWorld' = [alertsWorld EXCEPT !.faults = F]
      BY <2>3
    <3> HIDE DEF F
    <3> QED BY <1>1, <3>1, <3>2
  <2>4. ASSUME \/ \E d \in TokenDays : alertsWorld' = [alertsWorld EXCEPT !.token = d]
               \/ \E d \in DashDays : alertsWorld' = [alertsWorld EXCEPT !.dash = d]
               \/ \E c \in {"up", "rejected"} : alertsWorld' = [alertsWorld EXCEPT !.canvas = c]
               \/ \E d \in Drives : alertsWorld' = [alertsWorld EXCEPT !.drive = d]
               \/ \E s \in Spaces : alertsWorld' = [alertsWorld EXCEPT !.space = s]
        PROVE  alertsWorld' \in W
    BY <1>1, <2>1, <2>4
  <2> HIDE DEF W
  <2> QED BY <2>2, <2>3, <2>4
<1>3. Alerts!AlertsTypeOK'
  <2>1. alertsChanges' \in 0 .. AlertsChanges
    BY DEF AlertsInv, Alerts!AlertsTypeOK, Alerts!AlertsAssumption
  <2> QED BY <1>2, <2>1 DEF AlertsInv, Alerts!AlertsTypeOK
<1>4. MemoryInv' /\ StageInv'
  BY DEF AlertsInv, MemoryInv, StageInv, OneHeld, HeldIsJudged, JudgedIsSeen, Covered, IsMemory
<1>5. ToldInv'
  BY DEF AlertsInv, ToldInv, Alerts!OneRungPerLadder, Alerts!RetiredInSilence, Alerts!ResolvedWasSeenFixed
<1> QED BY <1>3, <1>4, <1>5 DEF AlertsInv

LEMMA WatchAlertsInv ==
  ASSUME Alerts!AlertsAssumption, AlertsInv, NEW c \in Context, Alerts!Watch(c)
  PROVE  AlertsInv'
<1> USE DEF Alerts!Watch, Alerts!dbVars
<1>1. Alerts!AlertsTypeOK'
  <2>1. alertsChanges' \in 0 .. AlertsChanges
    BY DEF AlertsInv, Alerts!AlertsTypeOK, Alerts!AlertsAssumption
  <2>2. alertsWatched' \subseteq Context
    BY DEF AlertsInv, Alerts!AlertsTypeOK
  <2> QED BY <2>1, <2>2 DEF AlertsInv, Alerts!AlertsTypeOK
<1>2. alertsMem' = Alerts!EmptyMemory /\ alertsPc' = "idle"
  BY DEF AlertsInv, StageInv
<1>3. MemoryInv' /\ StageInv'
  <2>1. /\ alertsMem'.holds = {} /\ alertsMem'.judged = {} /\ IsMemory(alertsMem')
    BY <1>2 DEF Alerts!EmptyMemory, IsMemory
  <2> QED BY <1>2, <2>1 DEF MemoryInv, StageInv, OneHeld, HeldIsJudged, JudgedIsSeen, Alerts!EmptyMemory
<1>4. ToldInv'
  BY <1>2 DEF AlertsInv, ToldInv, Alerts!OneRungPerLadder, Alerts!RetiredInSilence, Alerts!ResolvedWasSeenFixed
<1> QED BY <1>1, <1>3, <1>4 DEF AlertsInv

(* The flush and a death leave an empty memory.                            *)
LEMMA RestAlertsInv ==
  ASSUME AlertsInv, alertsMem' = Alerts!EmptyMemory, alertsPc' = "idle",
         UNCHANGED <<alertsAlerts, alertsWatched, alertsNow, alertsWorld, alertsMarks, alertsStored,
                     alertsReachedAt>>,
         alertsChanges' \in 0 .. AlertsChanges, alertsLost' \in Alerts!Time \cup {Alerts!Never}
  PROVE  AlertsInv'
<1>1. /\ alertsMem'.holds = {} /\ alertsMem'.judged = {} /\ alertsMem'.seen = {}
      /\ IsMemory(alertsMem') /\ alertsMem'.cov = <<>>
  BY DEF Alerts!EmptyMemory, IsMemory
<1>2. Alerts!AlertsTypeOK'
  <2>1. DOMAIN alertsMem'.cov = {}
    BY <1>1
  <2> QED BY <1>1, <2>1 DEF AlertsInv, Alerts!AlertsTypeOK
<1>3. MemoryInv' /\ StageInv'
  BY <1>1 DEF MemoryInv, StageInv, OneHeld, HeldIsJudged, JudgedIsSeen, Alerts!EmptyMemory
<1>4. ToldInv'
  BY DEF AlertsInv, ToldInv, Alerts!OneRungPerLadder, Alerts!RetiredInSilence, Alerts!ResolvedWasSeenFixed
<1> QED BY <1>2, <1>3, <1>4 DEF AlertsInv

LEMMA FlushAlertsInv ==
  ASSUME Alerts!AlertsAssumption, AlertsInv, Alerts!Flush
  PROVE  AlertsInv'
<1>1. alertsChanges' \in 0 .. AlertsChanges /\ alertsLost' \in Alerts!Time \cup {Alerts!Never}
  <2>1. CASE UNCHANGED <<alertsLost, alertsChanges>>
    BY <2>1 DEF AlertsInv, Alerts!AlertsTypeOK
  <2>2. CASE alertsChanges < AlertsChanges /\ alertsChanges' = alertsChanges + 1
             /\ \E t \in 0 .. alertsNow : alertsLost' = t
    BY <2>2, AlertsNumbers DEF AlertsInv, Alerts!AlertsTypeOK
  <2> QED BY <2>1, <2>2 DEF Alerts!Flush
<1> QED BY <1>1, RestAlertsInv DEF Alerts!Flush

LEMMA DieAlertsInv ==
  ASSUME AlertsInv, Alerts!Die
  PROVE  AlertsInv'
<1>1. alertsChanges' \in 0 .. AlertsChanges /\ alertsLost' \in Alerts!Time \cup {Alerts!Never}
  BY DEF AlertsInv, Alerts!AlertsTypeOK, Alerts!Die, Alerts!worldVars, Alerts!dbVars
<1> QED BY <1>1, RestAlertsInv DEF Alerts!Die, Alerts!worldVars, Alerts!dbVars

(* A step of a run that judges, and only that.                             *)
LEMMA JudgingAlertsInv ==
  ASSUME AlertsInv, MemoryInv', StageInv', alertsPc # "flush", alertsPc' # "flush",
         alertsPc' \in {"idle", "probe", "contexts", "archive", "conclude", "retire", "reconcile", "flush"},
         alertsMem'.holds \subseteq Alerts!Key, alertsMem'.judged \subseteq Alerts!Key,
         alertsMem'.seen \subseteq Alerts!Key, DOMAIN alertsMem'.cov \subseteq Context,
         UNCHANGED <<alertsNow, alertsWorld, alertsWatched, alertsChanges, alertsAlerts, alertsLost>>,
         alertsMarks' \in [Context -> [Alerts!FileMark -> Alerts!Time]],
         alertsStored' \in [Context -> Alerts!Coverage],
         alertsReachedAt' \in Alerts!Time \cup {Alerts!Never}
  PROVE  AlertsInv'
<1>1. Alerts!AlertsTypeOK'
  BY DEF AlertsInv, Alerts!AlertsTypeOK
<1>2. ToldInv'
  BY DEF AlertsInv, ToldInv, Alerts!OneRungPerLadder, Alerts!RetiredInSilence, Alerts!ResolvedWasSeenFixed
<1> QED BY <1>1, <1>2 DEF AlertsInv

-----------------------------------------------------------------------------
(* The memory after a judgment, from what is new in it.                    *)
LEMMA JudgeMemory ==
  ASSUME AlertsInv, NEW H, NEW J, NEW S,
         IsMemory(alertsMem'), UNCHANGED alertsWatched,
         alertsMem'.holds = alertsMem.holds \cup H,
         alertsMem'.judged = alertsMem.judged \cup J,
         alertsMem'.seen = alertsMem.seen \cup (S \ H),
         \A h, k \in H : h[1] = k[1] /\ h[1] \in LaddersAre => h = k,
         \A h \in H : h[1] \in LaddersAre =>
           Alerts!Ladder(h[1]) \subseteq J /\ \A g \in alertsMem.holds : g[1] # h[1],
         AlwaysConfigured =>
           \A k \in J : k \notin H /\ k \notin Alerts!Presumed =>
             \/ k[1] \in PerContextIs /\ k[2] \notin alertsWatched
             \/ k[1] \in LaddersAre /\ \E h \in H : h[1] = k[1]
             \/ Alerts!FamilyOf(k) \subseteq S \ H
  PROVE  MemoryInv'
<1>1. OneHeld(alertsMem') /\ HeldIsJudged(alertsMem')
  <2>1. OneHeld(alertsMem) /\ HeldIsJudged(alertsMem)
    BY DEF AlertsInv, MemoryInv
  <2> DEFINE m == alertsMem
             n == alertsMem'
  <2>2. n.holds = m.holds \cup H /\ n.judged = m.judged \cup J /\ n.seen = m.seen \cup (S \ H)
        /\ OneHeld(m) /\ HeldIsJudged(m)
        /\ \A h \in H : h[1] \in LaddersAre =>
             Alerts!Ladder(h[1]) \subseteq J /\ \A g \in m.holds : g[1] # h[1]
    BY <2>1
  <2> HIDE DEF m, n
  <2>3. OneHeld(n) /\ HeldIsJudged(n)
    BY <2>2, JudgeStep
  <2> QED BY <2>3 DEF n
<1>2. ASSUME AlwaysConfigured PROVE JudgedIsSeen(alertsMem')
  <2>1. JudgedIsSeen(alertsMem)
    BY <1>2 DEF AlertsInv, MemoryInv
  <2> DEFINE m == alertsMem
             n == alertsMem'
  <2>2. n.holds = m.holds \cup H /\ n.judged = m.judged \cup J /\ n.seen = m.seen \cup (S \ H)
        /\ JudgedIsSeen(m)
    BY <2>1
  <2> HIDE DEF m, n
  <2>3. JudgedIsSeen(n)
    BY <2>2, <1>2 DEF JudgedIsSeen, Covered
  <2> QED BY <2>3 DEF n
<1>3. (JudgedIsSeen(alertsMem))' = JudgedIsSeen(alertsMem')
  BY DEF JudgedIsSeen, Covered
<1> QED BY <1>1, <1>2 DEF MemoryInv, OneHeld, HeldIsJudged, JudgedIsSeen, Covered, IsMemory

(* The keys of each stage.                                                 *)
LEMMA AlertKey ==
  ASSUME NEW n \in Alerts!Single
  PROVE  /\ Alerts!Alert(n) \in Alerts!Key /\ Alerts!Alert(n)[1] = n
         /\ n \notin LaddersAre /\ n \notin PerContextIs
         /\ Alerts!FamilyOf(Alerts!Alert(n)) = {Alerts!Alert(n)}
BY KeyKinds, LadderNames DEF Alerts!FamilyOf

LEMMA StartAlertsInv ==
  ASSUME Alerts!AlertsAssumption, AlertsInv, NEW b \in Configured, Alerts!Start(b)
  PROVE  AlertsInv'
<1> DEFINE token == Alerts!Expiry("token_expiry", alertsWorld.token)
           looked == alertsWorld.dash # Unrecorded \/ b
           dash == IF looked THEN Alerts!Expiry("dashboard_token_expiry", alertsWorld.dash) ELSE {}
           t == Alerts!Alert("telegram_delivery")
           failed == IF alertsLost # Alerts!Never /\ alertsNow - alertsLost < StaleAfter THEN {t} ELSE {}
           keys == Alerts!Ladder("token_expiry") \cup Alerts!Ladder("dashboard_token_expiry") \cup {t}
           unlooked == IF looked THEN {} ELSE Alerts!Ladder("dashboard_token_expiry")
           H == token \cup dash \cup failed
           S == keys \ unlooked
<1>1. alertsPc = "idle" /\ alertsPc' = "probe"
      /\ UNCHANGED <<alertsNow, alertsWorld, alertsWatched, alertsChanges, alertsAlerts, alertsMarks,
                     alertsStored, alertsReachedAt, alertsLost>>
  BY DEF Alerts!Start, Alerts!worldVars, Alerts!dbVars
<1>2. alertsMem' = [Alerts!EmptyMemory EXCEPT !.holds = H, !.judged = keys,
                     !.seen = keys \ (H \cup unlooked), !.configured = b]
  BY DEF Alerts!Start
<1>3. /\ alertsMem.holds = {} /\ alertsMem.judged = {} /\ alertsMem.seen = {}
  BY <1>1, Empty DEF AlertsInv, StageInv
<1>4. /\ token \subseteq Alerts!Ladder("token_expiry") /\ \A h, k \in token : h = k
      /\ dash \subseteq Alerts!Ladder("dashboard_token_expiry") /\ \A h, k \in dash : h = k
  <2>1. alertsWorld.token \in TokenDays \cup DashDays /\ alertsWorld.dash \in TokenDays \cup DashDays
    BY DEF AlertsInv, Alerts!AlertsTypeOK
  <2>2. /\ Alerts!Expiry("token_expiry", alertsWorld.token) \subseteq Alerts!Ladder("token_expiry")
        /\ \A h, k \in Alerts!Expiry("token_expiry", alertsWorld.token) : h = k
    BY <2>1, ExpiryRung
  <2>3. LET e == Alerts!Expiry("dashboard_token_expiry", alertsWorld.dash)
        IN  /\ e \subseteq Alerts!Ladder("dashboard_token_expiry")
            /\ \A h, k \in e : h = k
    BY <2>1, ExpiryRung
  <2> QED BY <2>2, <2>3
<1>5. failed \subseteq {t} /\ t \in Alerts!Key /\ t[1] = "telegram_delivery"
      /\ t[1] \notin LaddersAre /\ t[1] \notin PerContextIs /\ Alerts!FamilyOf(t) = {t}
  <2>1. "telegram_delivery" \in Alerts!Single
    BY DEF Alerts!Single
  <2> QED BY <2>1, AlertKey
<1>6. \A f \in LaddersAre : \A k \in Alerts!Ladder(f) : k \in Alerts!Key /\ k[1] = f
  BY KeyKinds
<1>7. /\ IsMemory(alertsMem') /\ alertsMem'.holds = H /\ alertsMem'.judged = keys
      /\ alertsMem'.seen = keys \ (H \cup unlooked) /\ alertsMem'.cov = <<>>
  <2> HIDE DEF H, keys, unlooked
  <2> QED BY <1>2 DEF IsMemory, Alerts!EmptyMemory
<1>8. alertsMem'.seen = S \ H
  <2> HIDE DEF H, keys, unlooked
  <2> QED BY <1>7
<1>9. (b => looked) /\ (AlwaysConfigured => unlooked = {})
  BY DEF AlwaysConfigured, Alerts!AlertsAssumption
<1> HIDE DEF token, looked, dash, t, failed, unlooked
<1>10. H \subseteq keys /\ \A k \in keys : k \in Alerts!Key
  BY <1>4, <1>5, <1>6 DEF LaddersAre
<1>11. \A k \in keys : k[1] \notin PerContextIs /\ k[1] # "storage"
  BY <1>5, <1>6 DEF LaddersAre, PerContextIs
<1>12. \A h, k \in H : h[1] = k[1] /\ h[1] \in LaddersAre => h = k
  BY <1>4, <1>5, <1>6 DEF LaddersAre
<1>13. \A h \in H : h[1] \in LaddersAre => Alerts!Ladder(h[1]) \subseteq keys
  BY <1>4, <1>5, <1>6 DEF LaddersAre
<1>14. ASSUME AlwaysConfigured, NEW k \in keys, k \notin H
       PROVE  \/ k[1] \in LaddersAre /\ \E h \in H : h[1] = k[1]
              \/ Alerts!FamilyOf(k) \subseteq S \ H
  <2>1. S = keys
    BY <1>9, <1>14
  <2>2. CASE k = t
    BY <1>5, <1>14, <2>1, <2>2
  <2>3. ASSUME NEW f \in {"token_expiry", "dashboard_token_expiry"}, k \in Alerts!Ladder(f),
               ~ \E h \in H : h[1] = k[1]
        PROVE  Alerts!FamilyOf(k) \subseteq S \ H
    <3>1. k[1] = f /\ f \in LaddersAre /\ k \in Alerts!Key
      BY <1>6, <2>3 DEF LaddersAre
    <3>2. Alerts!FamilyOf(k) = Alerts!Ladder(f)
      BY <3>1, Families
    <3>3. Alerts!Ladder(f) \subseteq keys
      OBVIOUS
    <3>4. \A l \in Alerts!Ladder(f) : l \notin H
      BY <1>6, <2>3, <3>1
    <3> QED BY <2>1, <3>2, <3>3, <3>4
  <2>4. ASSUME NEW f \in {"token_expiry", "dashboard_token_expiry"}, k \in Alerts!Ladder(f)
        PROVE  k[1] \in LaddersAre
    BY <1>6, <2>4 DEF LaddersAre
  <2> QED BY <2>2, <2>3, <2>4
<1> HIDE DEF H, keys, S
<1>15. MemoryInv'
  BY <1>1, <1>3, <1>7, <1>8, <1>12, <1>13, <1>14, JudgeMemory
<1>16. StageInv'
  BY <1>1, <1>7, <1>10, <1>11 DEF StageInv
<1>17. DOMAIN alertsMem'.cov = {}
  BY <1>7
<1>18. alertsMem'.holds \subseteq Alerts!Key /\ alertsMem'.judged \subseteq Alerts!Key
      /\ alertsMem'.seen \subseteq Alerts!Key
  BY <1>7, <1>10
<1>19. /\ alertsMarks' \in [Context -> [Alerts!FileMark -> Alerts!Time]]
       /\ alertsStored' \in [Context -> Alerts!Coverage]
       /\ alertsReachedAt' \in Alerts!Time \cup {Alerts!Never}
  BY <1>1 DEF AlertsInv, Alerts!AlertsTypeOK
<1> QED BY <1>1, <1>15, <1>16, <1>17, <1>18, <1>19, JudgingAlertsInv

LEMMA ProbeAlertsInv ==
  ASSUME AlertsInv, Alerts!ProbeAnswered \/ Alerts!ProbeRejected \/ Alerts!ProbeFailed
  PROVE  AlertsInv'
<1> DEFINE a == Alerts!Alert("canvas_auth")
<1>1. a \in Alerts!Key /\ a[1] = "canvas_auth" /\ a[1] \notin LaddersAre /\ a[1] \notin PerContextIs
      /\ Alerts!FamilyOf(a) = {a} /\ a[1] # "storage"
  <2>1. "canvas_auth" \in Alerts!Single
    BY DEF Alerts!Single
  <2> QED BY <2>1, AlertKey
<1>2. /\ UNCHANGED <<alertsNow, alertsWorld, alertsWatched, alertsChanges, alertsAlerts, alertsMarks,
                     alertsStored, alertsReachedAt, alertsLost>>
      /\ alertsPc = "probe" /\ alertsPc' \in {"contexts", "reconcile"}
  BY DEF Alerts!ProbeAnswered, Alerts!ProbeRejected, Alerts!ProbeFailed, Alerts!worldVars, Alerts!dbVars
<1>3. PICK H \in SUBSET {a}, J \in SUBSET {a} :
        /\ IsMemory(alertsMem') /\ alertsMem'.cov = alertsMem.cov
        /\ alertsMem'.holds = alertsMem.holds \cup H
        /\ alertsMem'.judged = alertsMem.judged \cup J
        /\ alertsMem'.seen = alertsMem.seen \cup (J \ H)
  <2>1. IsMemory(alertsMem)
    BY DEF AlertsInv, MemoryInv
  <2>2. ASSUME NEW H \in SUBSET {a}, NEW J \in SUBSET {a}, NEW S \in SUBSET {a}, S \ H = J \ H,
               alertsMem' = Alerts!Judge(H, J, S)
        PROVE  /\ IsMemory(alertsMem') /\ alertsMem'.cov = alertsMem.cov
               /\ alertsMem'.holds = alertsMem.holds \cup H
               /\ alertsMem'.judged = alertsMem.judged \cup J
               /\ alertsMem'.seen = alertsMem.seen \cup (J \ H)
    BY <2>1, <2>2, JudgeFields
  <2>3. CASE Alerts!ProbeAnswered \/ Alerts!ProbeRejected
    <3> DEFINE none == {}
               one == {a}
    <3>1. alertsMem' = Alerts!Judge(none, one, one) \/ alertsMem' = Alerts!Judge(one, one, none)
      BY <2>3 DEF Alerts!ProbeAnswered, Alerts!ProbeRejected
    <3>2. none \in SUBSET {a} /\ one \in SUBSET {a} /\ none \ one = one \ one
      OBVIOUS
    <3> DEFINE P(H, J) == /\ IsMemory(alertsMem') /\ alertsMem'.cov = alertsMem.cov
                          /\ alertsMem'.holds = alertsMem.holds \cup H
                          /\ alertsMem'.judged = alertsMem.judged \cup J
                          /\ alertsMem'.seen = alertsMem.seen \cup (J \ H)
    <3> HIDE DEF a, none, one
    <3>3. P(none, one) \/ P(one, one)
      BY <2>2, <3>1, <3>2
    <3> HIDE DEF P
    <3>4. \E H \in SUBSET {a}, J \in SUBSET {a} : P(H, J)
      BY <3>2, <3>3
    <3> QED BY <3>4 DEF P
  <2>4. CASE Alerts!ProbeFailed
    <3>1. alertsMem' = alertsMem
      BY <2>4 DEF Alerts!ProbeFailed
    <3>2. \A X : X = X \cup {} /\ X = X \cup ({} \ {})
      OBVIOUS
    <3> QED BY <2>1, <3>1, <3>2
  <2> QED BY <2>3, <2>4
<1> HIDE DEF a
<1>4. MemoryInv'
  <2>1. \A h \in H : h[1] \notin LaddersAre
    BY <1>1
  <2>2. \A k \in J : k \notin H => Alerts!FamilyOf(k) \subseteq J \ H
    BY <1>1
  <2> QED BY <1>2, <1>3, <2>1, <2>2, JudgeMemory
<1>5. StageInv'
  BY <1>1, <1>2, <1>3 DEF AlertsInv, StageInv
<1>6. /\ alertsMem'.holds \subseteq Alerts!Key /\ alertsMem'.judged \subseteq Alerts!Key
      /\ alertsMem'.seen \subseteq Alerts!Key /\ DOMAIN alertsMem'.cov \subseteq Context
      /\ alertsMarks' \in [Context -> [Alerts!FileMark -> Alerts!Time]]
      /\ alertsStored' \in [Context -> Alerts!Coverage]
      /\ alertsReachedAt' \in Alerts!Time \cup {Alerts!Never}
  BY <1>1, <1>2, <1>3 DEF AlertsInv, Alerts!AlertsTypeOK
<1> QED BY <1>2, <1>4, <1>5, <1>6, JudgingAlertsInv

LEMMA ContextsAlertsInv ==
  ASSUME Alerts!AlertsAssumption, AlertsInv, NEW got \in [alertsWatched -> Alerts!Reading],
         Alerts!Contexts(got)
  PROVE  AlertsInv'
<1> DEFINE read == {c \in alertsWatched : Alerts!Answered(got[c])}
           done == {c \in alertsWatched : got[c].files # "left"}
           after(c) == IF c \in read THEN alertsWorld.cov[c] ELSE alertsStored[c]
           H == Alerts!CoverageKeys({c \in read : alertsWorld.cov[c] \in {"modules_only", "none"}})
           J == Alerts!CoverageKeys(read)
           m == Alerts!Judge(H, J, J)
           cov == [c \in done |-> after(c)]
<1>1. /\ alertsPc = "contexts" /\ alertsPc' = "archive"
      /\ UNCHANGED <<alertsNow, alertsWorld, alertsWatched, alertsChanges, alertsAlerts,
                     alertsReachedAt, alertsLost>>
  BY DEF Alerts!Contexts, Alerts!worldVars
<1>2. alertsMem' = [m EXCEPT !.cov = cov]
  BY DEF Alerts!Contexts
<1>3. /\ alertsStored' = [c \in Context |-> IF c \in alertsWatched THEN after(c) ELSE alertsStored[c]]
      /\ alertsMarks' = [c \in Context |-> [k \in Alerts!FileMark |->
             IF c \in alertsWatched /\ k \in Alerts!Succeeded(c, got[c]) THEN alertsNow
             ELSE alertsMarks[c][k]]]
  BY DEF Alerts!Contexts
<1>4. alertsWatched \subseteq Context /\ read \subseteq Context /\ done \subseteq Context
  BY DEF AlertsInv, Alerts!AlertsTypeOK
<1>5. alertsStored' \in [Context -> Alerts!Coverage]
  <2>1. alertsWorld.cov \in [Context -> Alerts!Coverage] /\ alertsStored \in [Context -> Alerts!Coverage]
    BY DEF AlertsInv, Alerts!AlertsTypeOK
  <2>2. \A c \in Context : after(c) \in Alerts!Coverage
    BY <2>1
  <2> HIDE DEF after
  <2> QED BY <1>3, <2>1, <2>2
<1>6. alertsMarks' \in [Context -> [Alerts!FileMark -> Alerts!Time]]
  <2>1. alertsMarks \in [Context -> [Alerts!FileMark -> Alerts!Time]] /\ alertsNow \in Alerts!Time
    BY DEF AlertsInv, Alerts!AlertsTypeOK
  <2> QED BY <1>3, <2>1
<1>7. /\ IsMemory(alertsMem') /\ alertsMem'.holds = alertsMem.holds \cup H
      /\ alertsMem'.judged = alertsMem.judged \cup J /\ alertsMem'.seen = alertsMem.seen \cup (J \ H)
      /\ alertsMem'.cov = cov
  <2>1. /\ IsMemory(m) /\ m.holds = alertsMem.holds \cup H
        /\ m.judged = alertsMem.judged \cup J /\ m.seen = alertsMem.seen \cup (J \ H)
    <3>1. IsMemory(alertsMem)
      BY DEF AlertsInv, MemoryInv
    <3> HIDE DEF H, J
    <3> QED BY <3>1, JudgeFields
  <2> HIDE DEF m, H, J, cov
  <2> QED BY <1>2, <2>1 DEF IsMemory
<1>8. DOMAIN alertsMem'.cov \subseteq Context
  BY <1>4, <1>7
<1>9. H \subseteq J /\ \A k \in J : /\ k \in Alerts!Key /\ k[1] = "coverage"
                                   /\ k[1] \in PerContextIs /\ k[1] \notin LaddersAre
  <2>1. \A c \in Context : <<"coverage", c>> \in Alerts!PerContext \X Context
    BY DEF Alerts!PerContext
  <2> QED BY <1>4, <2>1, KeyKinds DEF Alerts!CoverageKeys
<1> HIDE DEF H, J, read, done, after, m, cov
<1>10. MemoryInv'
  <2>1. \A h \in H : h[1] \notin LaddersAre
    BY <1>9
  <2>2. \A k \in J : k \notin H => Alerts!FamilyOf(k) \subseteq J \ H
    BY <1>9, Families
  <2> QED BY <1>1, <1>7, <2>1, <2>2, JudgeMemory
<1>11. StageInv'
  BY <1>1, <1>7, <1>9 DEF AlertsInv, StageInv
<1>12. /\ alertsMem'.holds \subseteq Alerts!Key /\ alertsMem'.judged \subseteq Alerts!Key
       /\ alertsMem'.seen \subseteq Alerts!Key
       /\ alertsReachedAt' \in Alerts!Time \cup {Alerts!Never}
  BY <1>1, <1>7, <1>9 DEF AlertsInv, Alerts!AlertsTypeOK
<1> QED BY <1>1, <1>5, <1>6, <1>8, <1>10, <1>11, <1>12, JudgingAlertsInv

(* What the archive stage says: single alerts, and one rung of the storage *)
(* ladder, which it then judges as a whole.                                *)
StorageRung(o) ==
  IF o.stopped = "quota_full" THEN {<<"storage", "full">>}
  ELSE IF o.quota \in {"80", "95", "unreadable"} THEN {<<"storage", o.quota>>} ELSE {}
SingleKeys == {Alerts!Alert(n) : n \in Alerts!Single}

LEMMA StageSays ==
  ASSUME NEW o \in Alerts!Outcome
  PROVE  /\ \A k \in Alerts!ArchiveHolds(o) : k \in SingleKeys \/ k \in StorageRung(o)
         /\ StorageRung(o) \subseteq Alerts!ArchiveHolds(o)
         /\ \A h, k \in StorageRung(o) : h = k
         /\ StorageRung(o) \subseteq Alerts!Ladder("storage")
         /\ StorageRung(o) # {} => Alerts!Ladder("storage") \subseteq Alerts!ArchiveJudged(o)
         /\ \A k \in Alerts!ArchiveJudged(o) : k \in SingleKeys \/ k \in Alerts!Ladder("storage")
         /\ \A k \in Alerts!ArchiveJudged(o) :
              \/ k \in Alerts!Presumed
              \/ k \in Alerts!ArchiveSeen(o) /\ k \in SingleKeys
              \/ k \in Alerts!Ladder("storage")
                   /\ (StorageRung(o) # {} \/ Alerts!Ladder("storage") \subseteq Alerts!ArchiveSeen(o))
<1> DEFINE X1 == {Alerts!Alert(n) : n \in {o.stopped} \cap Alerts!GraphAlert}
           X2 == IF o.tried = "some" /\ "failing" \in alertsWorld.faults
                   THEN {Alerts!Alert("archive_all_failed")} ELSE {}
           X3 == IF o.quota # "unread" /\ "exhausted" \in alertsWorld.faults
                   THEN {Alerts!Alert("archive_exhausted")} ELSE {}
           J1 == {Alerts!Alert(n) : n \in Alerts!GraphAlert \cup {"graph_unreachable", "archive_exhausted"}}
           J2 == IF o.tried # "nothing" THEN {Alerts!Alert("archive_all_failed")} ELSE {}
           J3 == IF o.quota # "unread" \/ o.stopped = "quota_full" THEN Alerts!Ladder("storage") ELSE {}
           S1 == IF o.stopped = "unreachable" THEN {}
                 ELSE {Alerts!Alert(n) : n \in Alerts!GraphAlert \cup {"graph_unreachable"}}
           S2 == IF o.quota = "unread" THEN {} ELSE {Alerts!Alert("archive_exhausted")}
           S4 == IF o.quota # "unread" THEN Alerts!Ladder("storage") ELSE {}
<1>1. Alerts!ArchiveHolds(o) = X1 \cup StorageRung(o) \cup X2 \cup X3
  BY Zenon DEF Alerts!ArchiveHolds, StorageRung
<1>2. Alerts!ArchiveJudged(o) = J1 \cup J2 \cup J3
  BY Zenon DEF Alerts!ArchiveJudged
<1>3. Alerts!ArchiveSeen(o) = S1 \cup S2 \cup J2 \cup S4
  BY Zenon DEF Alerts!ArchiveSeen
<1>4. X1 \subseteq SingleKeys /\ X2 \subseteq SingleKeys /\ X3 \subseteq SingleKeys
      /\ J1 \subseteq SingleKeys /\ J2 \subseteq SingleKeys
  BY DEF SingleKeys, Alerts!Single
<1>5. J1 = Alerts!Presumed
  BY DEF Alerts!Presumed
<1>6. /\ \A h, k \in StorageRung(o) : h = k
      /\ StorageRung(o) \subseteq Alerts!Ladder("storage")
  <2>1. \A r \in {"full", "unreadable", "95", "80"} : <<"storage", r>> \in Alerts!Ladder("storage")
    BY DEF Alerts!Ladder, Alerts!Rungs
  <2> QED BY <2>1 DEF StorageRung
<1>7. StorageRung(o) # {} => J3 = Alerts!Ladder("storage")
  <2>1. o.stopped # "quota_full" /\ o.quota \notin {"80", "95", "unreadable"} => StorageRung(o) = {}
    BY DEF StorageRung
  <2>2. o.stopped = "quota_full" \/ o.quota \in {"80", "95", "unreadable"} => J3 = Alerts!Ladder("storage")
    OBVIOUS
  <2> QED BY <2>1, <2>2
<1>8. \/ J3 = {}
      \/ J3 = Alerts!Ladder("storage") /\ (StorageRung(o) # {} \/ S4 = Alerts!Ladder("storage"))
  <2>1. CASE o.stopped = "quota_full"
    <3>1. StorageRung(o) = {<<"storage", "full">>}
      BY <2>1 DEF StorageRung
    <3> QED BY <2>1, <3>1
  <2>2. CASE o.quota # "unread"
    <3>1. J3 = Alerts!Ladder("storage") /\ S4 = Alerts!Ladder("storage")
      BY <2>2
    <3> HIDE DEF J3, S4
    <3> QED BY <3>1
  <2>3. CASE o.stopped # "quota_full" /\ o.quota = "unread"
    <3>1. J3 = {}
      BY <2>3
    <3> HIDE DEF J3
    <3> QED BY <3>1
  <2> HIDE DEF J3, S4
  <2> QED BY <2>1, <2>2, <2>3
<1> HIDE DEF X1, X2, X3, J1, J2, J3, S1, S2, S4
<1> QED BY <1>1, <1>2, <1>3, <1>4, <1>5, <1>6, <1>7, <1>8

LEMMA SingleKeysAre ==
  ASSUME NEW k \in SingleKeys
  PROVE  /\ k \in Alerts!Key /\ k[1] \notin LaddersAre /\ k[1] \notin PerContextIs
         /\ k[1] # "storage" /\ Alerts!FamilyOf(k) = {k}
<1>1. PICK n \in Alerts!Single : k = Alerts!Alert(n)
  BY DEF SingleKeys
<1>2. n # "storage"
  BY AlertKey DEF LaddersAre
<1> QED BY <1>1, <1>2, AlertKey

LEMMA ArchiveAlertsInv ==
  ASSUME Alerts!AlertsAssumption, AlertsInv, NEW o \in Alerts!Outcome, NEW checked \in BOOLEAN,
         Alerts!Archive(o, checked)
  PROVE  AlertsInv'
<1> DEFINE i == Alerts!Alert("archive_integrity")
           gone == IF checked /\ "gone" \in alertsWorld.faults THEN {i} ELSE {}
           check == IF checked THEN {i} ELSE {}
           H == Alerts!ArchiveHolds(o) \cup Alerts!Unreachable(o) \cup gone
           J == Alerts!ArchiveJudged(o) \cup check
           S == Alerts!ArchiveSeen(o) \cup check
           Storage == Alerts!Ladder("storage")
<1>1. /\ alertsPc = "archive" /\ alertsPc' = "conclude"
      /\ UNCHANGED <<alertsNow, alertsWorld, alertsWatched, alertsChanges, alertsAlerts,
                     alertsMarks, alertsStored, alertsLost>>
      /\ alertsReachedAt' \in {alertsNow, alertsReachedAt}
  BY DEF Alerts!Archive, Alerts!worldVars
<1>2. alertsMem' = Alerts!Judge(H, J, S)
  BY DEF Alerts!Archive
<1>3. gone \subseteq SingleKeys /\ check \subseteq SingleKeys /\ Alerts!Unreachable(o) \subseteq SingleKeys
  BY DEF SingleKeys, Alerts!Single, Alerts!Unreachable
<1>4. \A k \in Storage : k \in Alerts!Key /\ k[1] = "storage" /\ k[1] \in LaddersAre
                           /\ k[1] \notin PerContextIs /\ Alerts!FamilyOf(k) = Storage
  <2>1. "storage" \in LaddersAre /\ "storage" \notin PerContextIs
    BY DEF LaddersAre, PerContextIs
  <2> QED BY <2>1, KeyKinds, Families
<1> HIDE DEF i, gone, check, Storage
<1>5. /\ \A k \in H : k \in SingleKeys \/ k \in StorageRung(o)
      /\ StorageRung(o) \subseteq H
      /\ \A k \in J : k \in SingleKeys \/ k \in Storage
      /\ \A k \in J : \/ k \in Alerts!Presumed
                      \/ k \in S /\ k \in SingleKeys
                      \/ k \in Storage /\ (StorageRung(o) # {} \/ Storage \subseteq S)
      /\ StorageRung(o) \subseteq Storage /\ (StorageRung(o) # {} => Storage \subseteq J)
      /\ \A h, k \in StorageRung(o) : h = k
  BY <1>3, StageSays DEF Storage
<1> HIDE DEF H, J, S
<1>6. /\ IsMemory(alertsMem') /\ alertsMem'.holds = alertsMem.holds \cup H
      /\ alertsMem'.judged = alertsMem.judged \cup J /\ alertsMem'.seen = alertsMem.seen \cup (S \ H)
      /\ alertsMem'.cov = alertsMem.cov
  <2>1. IsMemory(alertsMem)
    BY DEF AlertsInv, MemoryInv
  <2> QED BY <1>2, <2>1, JudgeFields
<1>7. MemoryInv'
  <2>1. \A h, k \in H : h[1] = k[1] /\ h[1] \in LaddersAre => h = k
    BY <1>4, <1>5, SingleKeysAre
  <2>2. ASSUME NEW h \in H, h[1] \in LaddersAre
        PROVE  Alerts!Ladder(h[1]) \subseteq J /\ \A g \in alertsMem.holds : g[1] # h[1]
    <3>1. h \in StorageRung(o) /\ h[1] = "storage"
      BY <1>4, <1>5, <2>2, SingleKeysAre
    <3>2. \A g \in alertsMem.holds : g[1] # "storage"
      BY <1>1 DEF AlertsInv, StageInv
    <3> QED BY <1>5, <3>1, <3>2 DEF Storage
  <2>3. ASSUME NEW k \in J, k \notin H, k \notin Alerts!Presumed
        PROVE  \/ k[1] \in LaddersAre /\ \E h \in H : h[1] = k[1]
               \/ Alerts!FamilyOf(k) \subseteq S \ H
    <3>1. CASE k \in S /\ k \in SingleKeys
      BY <2>3, <3>1, SingleKeysAre
    <3>2. CASE k \in Storage /\ StorageRung(o) # {}
      BY <1>4, <1>5, <3>2
    <3>3. CASE k \in Storage /\ StorageRung(o) = {} /\ Storage \subseteq S
      <4>1. \A l \in Storage : l \notin H
        BY <1>4, <1>5, <3>3, SingleKeysAre
      <4> QED BY <1>4, <3>3, <4>1
    <3> QED BY <1>5, <2>3, <3>1, <3>2, <3>3
  <2> QED BY <1>1, <1>6, <2>1, <2>2, <2>3, JudgeMemory
<1>8. StageInv'
  BY <1>1 DEF StageInv
<1>9. /\ alertsMem'.holds \subseteq Alerts!Key /\ alertsMem'.judged \subseteq Alerts!Key
      /\ alertsMem'.seen \subseteq Alerts!Key /\ DOMAIN alertsMem'.cov \subseteq Context
      /\ alertsMarks' \in [Context -> [Alerts!FileMark -> Alerts!Time]]
      /\ alertsStored' \in [Context -> Alerts!Coverage]
      /\ alertsReachedAt' \in Alerts!Time \cup {Alerts!Never}
  <2>1. H \subseteq Alerts!Key /\ J \subseteq Alerts!Key
    BY <1>4, <1>5, SingleKeysAre
  <2>2. S \subseteq Alerts!Key
    <3>1. Alerts!ArchiveSeen(o) \subseteq SingleKeys \cup Storage
      <4>1. Alerts!GraphAlert \cup {"graph_unreachable", "archive_exhausted", "archive_all_failed"}
              \subseteq Alerts!Single
        BY DEF Alerts!Single
      <4> QED BY <4>1 DEF Alerts!ArchiveSeen, SingleKeys, Storage
    <3> QED BY <1>3, <1>4, <3>1, SingleKeysAre DEF S
  <2> QED BY <1>1, <1>6, <2>1, <2>2 DEF AlertsInv, Alerts!AlertsTypeOK
<1> QED BY <1>1, <1>7, <1>8, <1>9, JudgingAlertsInv

LEMMA ConcludeAlertsInv ==
  ASSUME Alerts!AlertsAssumption, AlertsInv, Alerts!Conclude
  PROVE  AlertsInv'
<1> DEFINE p == Alerts!Alert("dashboard_publish")
           publish == IF alertsMem.configured THEN {p} ELSE {}
           stale == {c \in alertsWatched : Alerts!Stale(c)}
           H == Alerts!StaleKeys(stale) \cup (IF "unpublished" \in alertsWorld.faults THEN publish ELSE {})
           J == Alerts!StaleKeys(Context) \cup publish
           S == Alerts!StaleKeys(alertsWatched) \cup publish
<1>1. /\ alertsPc = "conclude" /\ alertsPc' = "retire"
      /\ UNCHANGED <<alertsNow, alertsWorld, alertsWatched, alertsChanges, alertsAlerts,
                     alertsMarks, alertsStored, alertsReachedAt, alertsLost>>
  BY DEF Alerts!Conclude, Alerts!worldVars, Alerts!dbVars
<1>2. alertsMem' = Alerts!Judge(H, J, S)
  BY DEF Alerts!Conclude
<1>3. publish \subseteq SingleKeys
  BY DEF SingleKeys, Alerts!Single
<1>4. alertsWatched \subseteq Context /\ stale \subseteq alertsWatched
  BY DEF AlertsInv, Alerts!AlertsTypeOK
<1>5. \A k \in Alerts!StaleKeys(Context) :
        /\ k \in Alerts!Key /\ k[1] \in PerContextIs /\ k[1] \notin LaddersAre
        /\ Alerts!FamilyOf(k) = {k}
        /\ k[2] \in alertsWatched => k \in Alerts!StaleKeys(alertsWatched)
  <2>1. \A c \in Context : <<"context_stale", c>> \in Alerts!PerContext \X Context
    BY DEF Alerts!PerContext
  <2>2. \A k \in Alerts!StaleKeys(Context) :
          k \in Alerts!Key /\ k[1] \in PerContextIs /\ k[1] \notin LaddersAre
    BY <2>1, KeyKinds DEF Alerts!StaleKeys
  <2>3. \A k \in Alerts!StaleKeys(Context) : k[2] \in alertsWatched => k \in Alerts!StaleKeys(alertsWatched)
    BY DEF Alerts!StaleKeys
  <2> QED BY <2>2, <2>3, Families
<1>6. /\ \A k \in H : k \in J
      /\ \A k \in J : k \in SingleKeys \/ k \in Alerts!StaleKeys(Context)
      /\ \A k \in J : k \in S \/ (k \in Alerts!StaleKeys(Context) /\ k[2] \notin alertsWatched)
      /\ S \subseteq J
  <2>1. Alerts!StaleKeys(stale) \subseteq Alerts!StaleKeys(Context)
        /\ Alerts!StaleKeys(alertsWatched) \subseteq Alerts!StaleKeys(Context)
    BY <1>4 DEF Alerts!StaleKeys
  <2> HIDE DEF p, publish, stale
  <2> QED BY <1>3, <1>5, <2>1
<1> HIDE DEF p, publish, stale, H, J, S
<1>7. /\ IsMemory(alertsMem') /\ alertsMem'.holds = alertsMem.holds \cup H
      /\ alertsMem'.judged = alertsMem.judged \cup J /\ alertsMem'.seen = alertsMem.seen \cup (S \ H)
      /\ alertsMem'.cov = alertsMem.cov
  <2>1. IsMemory(alertsMem)
    BY DEF AlertsInv, MemoryInv
  <2> QED BY <1>2, <2>1, JudgeFields
<1>8. MemoryInv'
  <2>1. \A k \in J : k[1] \notin LaddersAre /\ Alerts!FamilyOf(k) = {k}
    BY <1>5, <1>6, SingleKeysAre
  <2>2. \A k \in J : k \notin H =>
          \/ k[1] \in PerContextIs /\ k[2] \notin alertsWatched
          \/ Alerts!FamilyOf(k) \subseteq S \ H
    BY <1>5, <1>6, <2>1
  <2>3. \A h \in H : h[1] \notin LaddersAre
    BY <1>6, <2>1
  <2> QED BY <1>1, <1>7, <2>2, <2>3, JudgeMemory
<1>9. StageInv'
  BY <1>1 DEF StageInv
<1>10. /\ alertsMem'.holds \subseteq Alerts!Key /\ alertsMem'.judged \subseteq Alerts!Key
       /\ alertsMem'.seen \subseteq Alerts!Key /\ DOMAIN alertsMem'.cov \subseteq Context
       /\ alertsMarks' \in [Context -> [Alerts!FileMark -> Alerts!Time]]
       /\ alertsStored' \in [Context -> Alerts!Coverage]
       /\ alertsReachedAt' \in Alerts!Time \cup {Alerts!Never}
  <2>1. J \subseteq Alerts!Key
    BY <1>5, <1>6, SingleKeysAre
  <2> QED BY <1>1, <1>6, <1>7, <2>1 DEF AlertsInv, Alerts!AlertsTypeOK
<1> QED BY <1>1, <1>8, <1>9, <1>10, JudgingAlertsInv

LEMMA RetireAlertsInv ==
  ASSUME Alerts!AlertsAssumption, AlertsInv, Alerts!Retire
  PROVE  AlertsInv'
<1>1. /\ alertsPc = "retire" /\ alertsPc' \in {"retire", "reconcile"}
      /\ UNCHANGED <<alertsNow, alertsWorld, alertsWatched, alertsChanges, alertsMarks,
                     alertsStored, alertsReachedAt, alertsLost, alertsMem, alertsTold>>
  BY DEF Alerts!Retire, Alerts!worldVars
<1>2. /\ \A k \in Alerts!Key : alertsAlerts'[k] \in {alertsAlerts[k], Alerts!Never}
      /\ alertsAlerts' \in [Alerts!Key -> Alerts!Time \cup {Alerts!Never}]
  <2>1. alertsAlerts \in [Alerts!Key -> Alerts!Time \cup {Alerts!Never}]
    BY DEF AlertsInv, Alerts!AlertsTypeOK
  <2>2. CASE UNCHANGED alertsAlerts
    BY <2>1, <2>2
  <2>3. CASE \E k \in Alerts!Retirable : alertsAlerts' = [alertsAlerts EXCEPT ![k] = Alerts!Never]
    BY <2>1, <2>3
  <2> QED BY <2>2, <2>3 DEF Alerts!Retire
<1>3. Alerts!AlertsTypeOK'
  <2>1. alertsPc' \in {"idle", "probe", "contexts", "archive", "conclude", "retire", "reconcile", "flush"}
    BY <1>1
  <2>2. alertsAlerts' \in [Alerts!Key -> Alerts!Time \cup {Alerts!Never}]
    BY <1>2
  <2> QED BY <1>1, <2>1, <2>2 DEF AlertsInv, Alerts!AlertsTypeOK
<1>4. MemoryInv'
  BY <1>1 DEF AlertsInv, MemoryInv, OneHeld, HeldIsJudged, JudgedIsSeen, Covered, IsMemory
<1>5. StageInv'
  <2>1. ASSUME alertsPc' = "reconcile", NEW k \in alertsMem.judged, k[1] \in PerContextIs,
               k[2] \notin alertsWatched
        PROVE  alertsAlerts'[k] = Alerts!Never
    <3>1. Alerts!Retirable = {} /\ alertsAlerts' = alertsAlerts
      BY <1>1, <2>1 DEF Alerts!Retire
    <3>2. k \in Alerts!PerContext \X Context
      BY <2>1, KeyShape DEF AlertsInv, Alerts!AlertsTypeOK
    <3>3. k \in Alerts!PerContext \X (Context \ alertsWatched)
      BY <2>1, <3>2
    <3> QED BY <3>1, <3>3 DEF Alerts!Retirable
  <2> QED BY <1>1, <2>1 DEF StageInv
<1>6. ToldInv'
  <2>1. \A f \in Alerts!Ladders : \A k \in Alerts!Ladder(f) : k \in Alerts!Key
    BY LadderNames, KeyKinds
  <2>2. Alerts!OneRungPerLadder'
    BY <1>2, <2>1 DEF AlertsInv, ToldInv, Alerts!OneRungPerLadder
  <2> QED BY <1>1, <2>2 DEF ToldInv, Alerts!RetiredInSilence, Alerts!ResolvedWasSeenFixed
<1> QED BY <1>3, <1>4, <1>5, <1>6 DEF AlertsInv

LEMMA ReconcileAlertsInv ==
  ASSUME Alerts!AlertsAssumption, AlertsInv, Alerts!Reconcile
  PROVE  AlertsInv'
<1>1. /\ alertsPc = "reconcile" /\ alertsPc' = "flush"
      /\ UNCHANGED <<alertsNow, alertsWorld, alertsWatched, alertsChanges, alertsMarks,
                     alertsStored, alertsReachedAt, alertsLost, alertsMem>>
  BY DEF Alerts!Reconcile, Alerts!worldVars
<1>2. /\ alertsAlerts' = [k \in Alerts!Key |->
           IF k \in Alerts!Raised \cup Alerts!Reminded THEN Alerts!SentAt(k)
           ELSE IF k \in Alerts!Resolved THEN Alerts!Never ELSE alertsAlerts[k]]
      /\ alertsTold'.resolved = Alerts!Announced
  BY DEF Alerts!Reconcile
<1>3. \A k : Alerts!SentAt(k) \in Alerts!Time
  BY AlertsNumbers DEF Alerts!SentAt, AlertsInv
<1>4. alertsAlerts \in [Alerts!Key -> Alerts!Time \cup {Alerts!Never}]
  BY DEF AlertsInv, Alerts!AlertsTypeOK
<1>5. Alerts!AlertsTypeOK'
  <2>1. alertsAlerts' \in [Alerts!Key -> Alerts!Time \cup {Alerts!Never}]
    BY <1>2, <1>3, <1>4
  <2> QED BY <1>1, <2>1 DEF AlertsInv, Alerts!AlertsTypeOK
<1>6. MemoryInv' /\ StageInv'
  BY <1>1 DEF AlertsInv, MemoryInv, OneHeld, HeldIsJudged, JudgedIsSeen, Covered, IsMemory, StageInv
<1>7. Alerts!OneRungPerLadder'
  <2>1. \A k \in Alerts!Key : alertsAlerts'[k] # Alerts!Never =>
          k \in alertsMem.holds \/ (k \notin alertsMem.judged /\ alertsAlerts[k] # Alerts!Never)
    BY <1>2 DEF Alerts!Raised, Alerts!Reminded, Alerts!Resolved
  <2>2. SUFFICES ASSUME NEW f \in LaddersAre, NEW k \in Alerts!Ladder(f), NEW l \in Alerts!Ladder(f),
                        alertsAlerts'[k] # Alerts!Never, alertsAlerts'[l] # Alerts!Never
                 PROVE  k = l
    BY LadderNames DEF Alerts!OneRungPerLadder
  <2>3. k \in Alerts!Key /\ k[1] = f /\ l \in Alerts!Key /\ l[1] = f
    BY KeyKinds
  <2>4. OneHeld(alertsMem) /\ HeldIsJudged(alertsMem)
    BY DEF AlertsInv, MemoryInv
  <2>5. k \in alertsMem.holds \/ l \in alertsMem.holds => k \in alertsMem.judged /\ l \in alertsMem.judged
    BY <2>3, <2>4 DEF HeldIsJudged
  <2>6. CASE k \in alertsMem.holds /\ l \in alertsMem.holds
    BY <2>3, <2>4, <2>6 DEF OneHeld
  <2>7. CASE alertsAlerts[k] # Alerts!Never /\ alertsAlerts[l] # Alerts!Never
    BY <2>7, LadderNames DEF AlertsInv, ToldInv, Alerts!OneRungPerLadder
  <2>8. (k \in alertsMem.holds \/ (k \notin alertsMem.judged /\ alertsAlerts[k] # Alerts!Never))
        /\ (l \in alertsMem.holds \/ (l \notin alertsMem.judged /\ alertsAlerts[l] # Alerts!Never))
    BY <2>1, <2>2, <2>3
  <2> QED BY <2>5, <2>6, <2>7, <2>8
<1>8. Alerts!RetiredInSilence'
  <2>1. \A k \in Alerts!Announced : k[1] \in Alerts!PerContext => k[2] \in alertsWatched
    BY <1>1 DEF AlertsInv, StageInv, PerContextIs, Alerts!PerContext, Alerts!Announced, Alerts!Resolved
  <2> QED BY <1>1, <1>2, <2>1 DEF Alerts!RetiredInSilence
<1>9. ASSUME AlwaysConfigured PROVE Alerts!ResolvedWasSeenFixed'
  <2>1. ASSUME NEW k \in Alerts!Announced, k \notin Alerts!Presumed
        PROVE  Alerts!FamilyOf(k) \subseteq alertsMem.seen
    <3>1. k \in alertsMem.judged /\ k \notin alertsMem.holds /\ alertsAlerts[k] # Alerts!Never
          /\ ~(k[1] \in LaddersAre /\ \E h \in alertsMem.holds : h[1] = k[1])
      BY LadderNames DEF Alerts!Announced, Alerts!Resolved, Alerts!FamilyHolds
    <3>2. Covered(k, alertsMem)
      BY <1>9, <2>1, <3>1 DEF AlertsInv, MemoryInv, JudgedIsSeen
    <3>3. ~(k[1] \in PerContextIs /\ k[2] \notin alertsWatched)
      BY <1>1, <3>1 DEF AlertsInv, StageInv
    <3> QED BY <3>1, <3>2, <3>3 DEF Covered
  <2> QED BY <1>1, <1>2, <2>1 DEF Alerts!ResolvedWasSeenFixed, Alerts!Presumed, Alerts!GraphAlert
<1> QED BY <1>5, <1>6, <1>7, <1>8, <1>9 DEF AlertsInv, ToldInv

LEMMA NextAlertsInv ==
  ASSUME Alerts!AlertsAssumption, Alerts!WorldAssumption, AlertsInv, [Alerts!Next]_alertsVars
  PROVE  AlertsInv'
<1>1. CASE UNCHANGED alertsVars
  BY <1>1 DEF alertsVars, AlertsInv, Alerts!AlertsTypeOK, MemoryInv, OneHeld, HeldIsJudged, JudgedIsSeen,
     Covered, IsMemory, StageInv, ToldInv, Alerts!OneRungPerLadder, Alerts!RetiredInSilence,
     Alerts!ResolvedWasSeenFixed
<1>2. CASE Alerts!Tick
  BY <1>2, TickAlertsInv
<1>3. CASE Alerts!WorldChanges
  BY <1>3, WorldChangesAlertsInv
<1>4. ASSUME NEW c \in Context, Alerts!Watch(c) PROVE AlertsInv'
  BY <1>4, WatchAlertsInv
<1>5. CASE Alerts!Die
  BY <1>5, DieAlertsInv
<1>6. CASE Alerts!Run
  <2>1. ASSUME NEW b \in Configured, Alerts!Start(b) PROVE AlertsInv'
    BY <2>1, StartAlertsInv
  <2>2. CASE Alerts!ProbeAnswered \/ Alerts!ProbeRejected \/ Alerts!ProbeFailed
    BY <2>2, ProbeAlertsInv
  <2>3. ASSUME NEW got \in [alertsWatched -> Alerts!Reading], Alerts!Contexts(got) PROVE AlertsInv'
    BY <2>3, ContextsAlertsInv
  <2>4. ASSUME NEW o \in Alerts!Outcome, NEW checked \in BOOLEAN, Alerts!Archive(o, checked)
        PROVE  AlertsInv'
    BY <2>4, ArchiveAlertsInv
  <2>5. CASE Alerts!Conclude
    BY <2>5, ConcludeAlertsInv
  <2>6. CASE Alerts!Retire
    BY <2>6, RetireAlertsInv
  <2>7. CASE Alerts!Reconcile
    BY <2>7, ReconcileAlertsInv
  <2>8. CASE Alerts!Flush
    BY <2>8, FlushAlertsInv
  <2> QED BY <1>6, <2>1, <2>2, <2>3, <2>4, <2>5, <2>6, <2>7, <2>8 DEF Alerts!Run
<1> QED BY <1>1, <1>2, <1>3, <1>4, <1>5, <1>6 DEF Alerts!Next

-----------------------------------------------------------------------------
(* The theorems.                                                           *)
LEMMA StagesAlerts ==
  /\ StagesInit => AlertsInv
  /\ AlertsInv /\ [StagesNext]_all => AlertsInv'
<1>1. StagesInit => AlertsInv
  BY StagesAssumption, InitAlertsInv DEF StagesInit
<1>2. [StagesNext]_all => [Alerts!Next]_alertsVars
  BY DEF StagesNext, all, FollowupsStep, AlertsStep, HttpStep, SlotsStep, SeedsStep, SchemaStep,
         CopyStep
<1> QED BY <1>1, <1>2, StagesAssumption, NextAlertsInv

(* ops.ts:22: the owner is never told of two rungs of a ladder at once.    *)
THEOREM OneRungAtATime == StagesSpec => []OneRungPerLadder
<1>1. AlertsInv => OneRungPerLadder
  BY DEF AlertsInv, ToldInv, OneRungPerLadder
<1> QED BY <1>1, StagesAlerts, PTL DEF StagesSpec

(* ops.ts, retireContextAlerts: no message says that an alert of a context *)
(* nobody watches was resolved.                                            *)
THEOREM RetiredWithoutAWord == StagesSpec => []RetiredInSilence
<1>1. AlertsInv => RetiredInSilence
  BY DEF AlertsInv, ToldInv, RetiredInSilence
<1> QED BY <1>1, StagesAlerts, PTL DEF StagesSpec

(* ops.ts:16, 23: "Resolved" is said only of what this run saw not to      *)
(* hold, on machines that have the read model configured.                  *)
THEOREM ResolvedWasSeen == AlwaysConfigured => (StagesSpec => []ResolvedWasSeenFixed)
<1> SUFFICES ASSUME AlwaysConfigured PROVE StagesSpec => []ResolvedWasSeenFixed
  OBVIOUS
<1>1. AlertsInv => ResolvedWasSeenFixed
  BY DEF AlertsInv, ToldInv, ResolvedWasSeenFixed
<1> QED BY <1>1, StagesAlerts, PTL DEF StagesSpec

=============================================================================
