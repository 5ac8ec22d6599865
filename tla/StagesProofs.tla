---------------------------- MODULE StagesProofs ----------------------------
(***************************************************************************)
(* Proofs about the parts of Stages.tla whose safety rests on their own    *)
(* state alone: discovery and seeding, migrations, Canvas requests, the    *)
(* schedule and the read model.  Each part has its inductive invariant     *)
(* over the part's variables (SeedsInv, SchemaInv, HttpInv, SlotsInv,      *)
(* CopyInv), and each theorem is one of StagesSpec.                        *)
(***************************************************************************)
EXTENDS AlertsProofs, FollowupsProofs, FiniteSetTheorems

(* Discovery and seeding.  FiledAsReviewed is inductive with the types of  *)
(* the files and one fact: what the owner decided is about courses, which  *)
(* no merge of groups touches.                                             *)
SeedFile == [Seeds!Contexts -> Seeds!Entry \cup {Seeds!Absent}]

SeedsInv ==
  /\ seedsActive \subseteq Courses /\ seedsMember \subseteq Groups
  /\ seedsConcluded \subseteq Groups /\ seedsLoaded \subseteq Seeds!Contexts
  /\ {seedsSeed, seedsFresh, seedsDecided, seedsContexts} \subseteq SeedFile
  /\ Seeds!Present(seedsDecided) \subseteq Courses
  /\ Seeds!FiledAsReviewed

LEMMA SeedsTyped == SeedsInv => Seeds!SeedingTypeOK
<1> SUFFICES ASSUME SeedsInv,
                    NEW file \in {seedsSeed, seedsFresh, seedsDecided, seedsContexts},
                    NEW c \in Seeds!Contexts
             PROVE  file[c] = Seeds!Absent \/ file[c] \in Seeds!Entry
  BY DEF SeedsInv, Seeds!SeedingTypeOK
<1>1. file \in SeedFile
  BY DEF SeedsInv
<1>2. file[c] \in Seeds!Entry \cup {Seeds!Absent}
  BY <1>1 DEF SeedFile
<1> QED BY <1>2

LEMMA EmptyFile == Seeds!NoFile \in SeedFile /\ Seeds!Present(Seeds!NoFile) = {}
BY DEF Seeds!NoFile, SeedFile, Seeds!Present

(* An entry that is switched off is an entry.                              *)
LEMMA SwitchedOff ==
  ASSUME NEW e \in Seeds!Entry PROVE [e EXCEPT !.enabled = FALSE] \in Seeds!Entry
BY DEF Seeds!Entry

(* What a discovery writes.                                                *)
LEMMA DiscoveredFile ==
  ASSUME Seeds!SeedingAssumption, seedsActive \subseteq Courses, seedsMember \subseteq Groups,
         NEW listed \in BOOLEAN
  PROVE  Seeds!Discovered(listed) \in SeedFile
<1>1. \A c \in seedsActive : Seeds!Proposed(c) \in Seeds!Entry
  BY DEF Seeds!Proposed, Seeds!Entry, Seeds!SeedingAssumption
<1>2. \A g \in seedsMember : Seeds!ProposeGroup(g) \in Seeds!Entry
  <2> SUFFICES ASSUME NEW g \in seedsMember PROVE Seeds!ProposeGroup(g) \in Seeds!Entry
    OBVIOUS
  <2>1. ParentOf(g) \in Courses /\ Suggested(ParentOf(g)) \in Codes \cup {Seeds!NoCode}
        /\ Current(ParentOf(g)) \in BOOLEAN
    BY DEF Seeds!SeedingAssumption
  <2>2. CASE ParentOf(g) \notin seedsActive
    BY <2>2 DEF Seeds!ProposeGroup, Seeds!Entry
  <2>3. CASE ParentOf(g) \in seedsActive
    <3> DEFINE on == g \notin seedsConcluded /\ Suggested(ParentOf(g)) # Seeds!NoCode
                       /\ Current(ParentOf(g))
    <3>1. on \in BOOLEAN
      BY <2>1
    <3>2. Seeds!ProposeGroup(g) = [code |-> Suggested(ParentOf(g)), enabled |-> on]
      BY <2>3, Zenon DEF Seeds!ProposeGroup
    <3> HIDE DEF on
    <3> QED BY <2>1, <3>1, <3>2 DEF Seeds!Entry
  <2> QED BY <2>2, <2>3
<1> QED BY <1>1, <1>2 DEF Seeds!Discovered, SeedFile

(* The merge of groups: a file again, and every course as it was.          *)
LEMMA MergedFile ==
  ASSUME Seeds!SeedingAssumption, SeedsInv
  PROVE  Seeds!Merged \in SeedFile /\ \A c \in Courses : Seeds!Merged[c] = seedsSeed[c]
<1>1. /\ Courses \cap Groups = {} /\ Seeds!Contexts = Courses \cup Groups
      /\ \A c \in Seeds!Contexts :
           /\ seedsSeed[c] \in Seeds!Entry \cup {Seeds!Absent}
           /\ seedsFresh[c] \in Seeds!Entry \cup {Seeds!Absent}
  BY DEF SeedsInv, SeedFile, Seeds!SeedingAssumption, Seeds!Contexts
<1>2. \A c \in Seeds!Contexts : c \in Seeds!Present(seedsSeed) <=> seedsSeed[c] # Seeds!Absent
  BY DEF Seeds!Present
<1>3. ASSUME NEW g \in Groups, seedsFresh[g] # Seeds!Absent PROVE Seeds!Added(g) \in Seeds!Entry
  <2>1. ParentOf(g) \in Seeds!Contexts /\ g \in Seeds!Contexts
    BY <1>1 DEF Seeds!SeedingAssumption
  <2> QED BY <1>1, <1>2, <1>3, <2>1, SwitchedOff DEF Seeds!Added
<1>4. \A c \in Seeds!Contexts : c \in Seeds!Present(seedsSeed)
        => [seedsSeed[c] EXCEPT !.enabled = FALSE] \in Seeds!Entry
  BY <1>1, <1>2, SwitchedOff
<1>5. Seeds!Merged \in SeedFile
  BY <1>1, <1>3, <1>4 DEF Seeds!Merged, SeedFile
<1> QED BY <1>1, <1>5 DEF Seeds!Merged

LEMMA NextSeedsInv ==
  ASSUME Seeds!SeedingAssumption, SeedsInv, [Seeds!Next]_seedsVars
  PROVE  SeedsInv'
<1>1. /\ Courses \cap Groups = {} /\ Seeds!Contexts = Courses \cup Groups
      /\ seedsSeed \in SeedFile /\ seedsFresh \in SeedFile
      /\ seedsDecided \in SeedFile /\ seedsContexts \in SeedFile
  BY DEF SeedsInv, Seeds!SeedingAssumption, Seeds!Contexts
<1>2. CASE Seeds!Canvas
  BY <1>2 DEF Seeds!Canvas, Seeds!files, SeedsInv, Seeds!FiledAsReviewed
<1>3. ASSUME NEW overwrite \in BOOLEAN, NEW listed \in BOOLEAN, Seeds!Discover(overwrite, listed)
      PROVE  SeedsInv'
  <2>0. overwrite \/ Seeds!Present(seedsDecided) = {}
    <3> SUFFICES ASSUME ~overwrite, NEW c \in Seeds!Present(seedsDecided) PROVE FALSE
      OBVIOUS
    <3>1. seedsSeed = Seeds!NoFile
      BY <1>3 DEF Seeds!Discover
    <3>2. c \in Seeds!Contexts /\ seedsDecided[c] # Seeds!Absent
      BY DEF Seeds!Present
    <3>3. seedsSeed[c] = seedsDecided[c]
      BY DEF SeedsInv, Seeds!FiledAsReviewed
    <3> QED BY <3>1, <3>2, <3>3 DEF Seeds!NoFile
  <2>1. /\ seedsSeed' \in SeedFile /\ seedsDecided' \in SeedFile
        /\ Seeds!Present(seedsDecided') = {}
    BY <1>1, <1>3, <2>0, DiscoveredFile, EmptyFile DEF Seeds!Discover, Seeds!Rewrite, SeedsInv
  <2>2. UNCHANGED <<seedsActive, seedsMember, seedsConcluded, seedsFresh, seedsContexts,
                    seedsLoaded>>
    BY <1>3 DEF Seeds!Discover, Seeds!Rewrite, Seeds!canvas
  <2> QED BY <2>1, <2>2 DEF SeedsInv, Seeds!FiledAsReviewed
<1>4. ASSUME NEW listed \in BOOLEAN, Seeds!DiscoverAside(listed) PROVE SeedsInv'
  <2>1. seedsFresh' \in SeedFile
    BY <1>4, DiscoveredFile DEF Seeds!DiscoverAside, SeedsInv
  <2> QED BY <1>4, <2>1 DEF Seeds!DiscoverAside, Seeds!canvas, SeedsInv, Seeds!FiledAsReviewed
<1>5. ASSUME NEW c \in Seeds!Contexts, NEW entry \in Seeds!Entry, Seeds!Review(c, entry)
      PROVE  SeedsInv'
  <2>1. /\ seedsSeed' = [seedsSeed EXCEPT ![c] = entry]
        /\ seedsDecided' = IF c \in Courses THEN [seedsDecided EXCEPT ![c] = entry]
                           ELSE seedsDecided
        /\ UNCHANGED <<seedsActive, seedsMember, seedsConcluded, seedsFresh, seedsContexts,
                       seedsLoaded>>
    BY <1>5 DEF Seeds!Review, Seeds!canvas
  <2>2. seedsSeed' \in SeedFile /\ seedsDecided' \in SeedFile
    BY <1>1, <2>1 DEF SeedFile
  <2>3. \A d \in Seeds!Contexts : seedsDecided'[d] # Seeds!Absent
          => d \in Courses /\ seedsSeed'[d] = seedsDecided'[d]
    BY <1>1, <2>1 DEF SeedsInv, Seeds!FiledAsReviewed, Seeds!Present, SeedFile
  <2>4. /\ Seeds!Present(seedsDecided') \subseteq Courses
        /\ \A d \in Seeds!Present(seedsDecided') : seedsSeed'[d] = seedsDecided'[d]
    BY <2>3 DEF Seeds!Present
  <2> QED BY <2>1, <2>2, <2>4 DEF SeedsInv, Seeds!FiledAsReviewed
<1>6. CASE Seeds!SeedGroups
  <2>1. /\ seedsSeed' = Seeds!Merged
        /\ UNCHANGED <<seedsActive, seedsMember, seedsConcluded, seedsFresh, seedsDecided,
                       seedsContexts, seedsLoaded>>
    BY <1>6 DEF Seeds!SeedGroups, Seeds!canvas
  <2>2. seedsSeed' \in SeedFile
    BY <2>1, MergedFile
  <2>3. \A c \in Seeds!Present(seedsDecided) : seedsSeed'[c] = seedsDecided[c]
    BY <2>1, MergedFile DEF SeedsInv, Seeds!FiledAsReviewed
  <2> QED BY <2>1, <2>2, <2>3 DEF SeedsInv, Seeds!FiledAsReviewed
<1>7. CASE Seeds!SeedCourses
  <2>1. /\ Seeds!Valid(seedsSeed)
        /\ seedsContexts' = [c \in Seeds!Contexts |-> IF c \in Seeds!Present(seedsSeed)
                                                      THEN seedsSeed[c] ELSE seedsContexts[c]]
        /\ seedsLoaded' = Seeds!Present(seedsSeed)
        /\ UNCHANGED <<seedsActive, seedsMember, seedsConcluded, seedsSeed, seedsFresh,
                       seedsDecided>>
    BY <1>7 DEF Seeds!SeedCourses, Seeds!canvas, Seeds!files
  <2>2. seedsContexts' \in SeedFile
    BY <1>1, <2>1 DEF SeedFile
  <2>3. seedsLoaded' \subseteq Seeds!Contexts
    BY <2>1 DEF Seeds!Present
  <2>4. \A c \in Seeds!Present(seedsContexts') :
          seedsContexts'[c].enabled => seedsContexts'[c].code # Seeds!NoCode
    BY <2>1 DEF Seeds!Valid, Seeds!Present, SeedsInv, Seeds!FiledAsReviewed
  <2>5. \A g \in seedsLoaded' \cap Groups :
          seedsContexts'[g].enabled /\ ParentOf(g) \in seedsLoaded'
            => seedsContexts'[g].code = seedsContexts'[ParentOf(g)].code
    BY <2>1 DEF Seeds!Valid, Seeds!Present
  <2> QED BY <2>1, <2>2, <2>3, <2>4, <2>5 DEF SeedsInv, Seeds!FiledAsReviewed
<1>8. CASE UNCHANGED seedsVars
  BY <1>8 DEF seedsVars, SeedsInv, Seeds!FiledAsReviewed
<1> QED BY <1>2, <1>3, <1>4, <1>5, <1>6, <1>7, <1>8 DEF Seeds!Next

LEMMA InitSeedsInv == ASSUME Seeds!Init PROVE SeedsInv
BY EmptyFile DEF Seeds!Init, SeedsInv, Seeds!FiledAsReviewed

-----------------------------------------------------------------------------
(* The migration runner.  AppliedOnce is inductive together with the types *)
(* and one fact about a runner under way: 0001 has made the table it will  *)
(* write to.                                                               *)
RunnerState ==
  [at : 0 .. Migrations, dryRun : BOOLEAN, files : [Schema!Migration -> 0 .. FileEdits],
   seen : SUBSET [version : 0 .. Migrations, checksum : 0 .. FileEdits]]

SchemaTypes ==
  /\ schemaFile \in [Schema!Migration -> 0 .. FileEdits] /\ schemaTable \in BOOLEAN
  /\ schemaBook \subseteq [version : Schema!Migration, checksum : 0 .. FileEdits]
  /\ schemaSchema \subseteq [version : Schema!Migration, checksum : 0 .. FileEdits, nth : Nat]
  /\ schemaRunner \in [Runner -> RunnerState]

SchemaInv ==
  /\ SchemaTypes /\ Schema!AppliedOnce
  /\ \A p \in Runner : schemaRunner[p].at # 0 => schemaTable

LEMMA SchemaTyped == SchemaInv => Schema!MigrationsTypeOK
BY DEF SchemaInv, SchemaTypes, RunnerState, Schema!MigrationsTypeOK

(* A step that gives one runner a new state, and the table if need be.     *)
LEMMA OneRunner ==
  ASSUME SchemaInv, NEW p \in Runner, NEW r \in RunnerState,
         UNCHANGED <<schemaFile, schemaBook, schemaSchema>>,
         schemaTable' = schemaTable \/ schemaTable' = TRUE, r.at # 0 => schemaTable',
         schemaRunner' = [schemaRunner EXCEPT ![p] = r]
  PROVE  SchemaInv'
<1>1. schemaRunner \in [Runner -> RunnerState]
  BY DEF SchemaInv, SchemaTypes
<1>2. schemaRunner' \in [Runner -> RunnerState]
  BY <1>1
<1>3. schemaTable' \in BOOLEAN /\ (schemaTable => schemaTable')
  BY Zenon DEF SchemaInv, SchemaTypes
<1>4. SchemaTypes'
  BY <1>2, <1>3 DEF SchemaInv, SchemaTypes
<1>5. Schema!AppliedOnce'
  BY <1>3 DEF SchemaInv, Schema!AppliedOnce
<1>6. \A q \in Runner : schemaRunner'[q].at # 0 => schemaTable'
  BY <1>1, <1>3 DEF SchemaInv
<1> QED BY <1>4, <1>5, <1>6 DEF SchemaInv

LEMMA IdleRunner ==
  ASSUME Schema!MigrationsAssumption
  PROVE  Schema!Idle \in RunnerState /\ Schema!Idle.at = 0
<1>1. 0 \in 0 .. Migrations /\ 0 \in 0 .. FileEdits /\ FALSE \in BOOLEAN
  BY DEF Schema!MigrationsAssumption
<1>2. [m \in Schema!Migration |-> 0] \in [Schema!Migration -> 0 .. FileEdits]
  BY <1>1
<1> QED BY <1>1, <1>2 DEF Schema!Idle, RunnerState

(* Moving on to the next migration, or being done after the last.          *)
LEMMA AdvanceRunner ==
  ASSUME Schema!MigrationsAssumption, SchemaInv, NEW p \in Runner, schemaRunner[p].at # 0,
         Schema!Advance(p) \/ Schema!Stop(p)
  PROVE  \E r \in RunnerState : schemaRunner' = [schemaRunner EXCEPT ![p] = r]
<1>1. CASE schemaRunner' = [schemaRunner EXCEPT ![p] = Schema!Idle]
  BY <1>1, IdleRunner
<1>2. CASE schemaRunner[p].at # Migrations
           /\ schemaRunner' = [schemaRunner EXCEPT ![p].at = @ + 1]
  <2> DEFINE r == [schemaRunner[p] EXCEPT !.at = @ + 1]
  <2>1. schemaRunner[p] \in RunnerState /\ Migrations \in Nat
    BY DEF SchemaInv, SchemaTypes, Schema!MigrationsAssumption
  <2>2. schemaRunner[p].at \in 0 .. Migrations
    BY <2>1 DEF RunnerState
  <2>3. schemaRunner[p].at + 1 \in 0 .. Migrations
    BY <1>2, <2>1, <2>2
  <2>4. r \in RunnerState
    BY <2>1, <2>3 DEF RunnerState
  <2> QED BY <1>2, <2>4
<1> QED BY <1>1, <1>2 DEF Schema!Advance, Schema!Stop

LEMMA SchemaCardinality == ASSUME NEW S PROVE Schema!Cardinality(S) = Cardinality(S)
BY SMT DEF Cardinality, Schema!Cardinality

(* A migration that is not in the table has not been applied.              *)
LEMMA FirstApplication ==
  ASSUME SchemaInv, NEW v, v \notin Schema!Versions(schemaBook)
  PROVE  Schema!Applied(v) = 0
<1>1. \A s \in schemaSchema : s.version \in Schema!Versions(schemaBook)
  <2> SUFFICES ASSUME NEW s \in schemaSchema PROVE s.version \in Schema!Versions(schemaBook)
    OBVIOUS
  <2>1. [version |-> s.version, checksum |-> s.checksum] \in schemaBook
    BY DEF SchemaInv, Schema!AppliedOnce
  <2> QED BY <2>1 DEF Schema!Versions
<1>2. {s \in schemaSchema : s.version = v} = {}
  BY <1>1
<1> QED BY <1>2, FS_EmptySet, SchemaCardinality DEF Schema!Applied

LEMMA NextSchemaInv ==
  ASSUME Schema!MigrationsAssumption, SchemaInv, [Schema!Next]_schemaVars
  PROVE  SchemaInv'
<1>1. /\ SchemaTypes /\ Schema!AppliedOnce /\ Migrations \in Nat \ {0} /\ FileEdits \in Nat
      /\ \A p \in Runner : schemaRunner[p] \in RunnerState
  BY DEF SchemaInv, SchemaTypes, Schema!MigrationsAssumption
<1>2. ASSUME NEW m \in Schema!Migration, Schema!Edit(m) PROVE SchemaInv'
  <2>1. schemaFile[m] + 1 \in 0 .. FileEdits
    BY <1>1, <1>2 DEF Schema!Edit, SchemaTypes
  <2>2. schemaFile' \in [Schema!Migration -> 0 .. FileEdits]
    BY <1>1, <1>2, <2>1 DEF Schema!Edit, SchemaTypes
  <2> QED BY <1>1, <1>2, <2>2 DEF Schema!Edit, SchemaInv, SchemaTypes, Schema!AppliedOnce
<1>3. ASSUME NEW p \in Runner, NEW dryRun \in BOOLEAN, Schema!Start(p, dryRun) PROVE SchemaInv'
  <2> DEFINE r == [at |-> 1, dryRun |-> dryRun, files |-> schemaFile,
                   seen |-> {[version |-> 0, checksum |-> 0]}]
  <2>1. 1 \in 0 .. Migrations /\ [version |-> 0, checksum |-> 0]
          \in [version : 0 .. Migrations, checksum : 0 .. FileEdits]
    BY <1>1
  <2>2. r \in RunnerState
    BY <1>1, <2>1 DEF RunnerState, SchemaTypes
  <2> HIDE DEF r
  <2>3. /\ schemaRunner' = [schemaRunner EXCEPT ![p] = r] /\ schemaTable' = TRUE
        /\ UNCHANGED <<schemaFile, schemaBook, schemaSchema>>
    BY <1>3 DEF Schema!Start, r
  <2> QED BY <2>2, <2>3, OneRunner
<1>4. ASSUME NEW p \in Runner, Schema!ReadBook(p) PROVE SchemaInv'
  <2> DEFINE r == [schemaRunner[p] EXCEPT !.seen = schemaBook]
  <2>1. schemaBook \subseteq [version : 0 .. Migrations, checksum : 0 .. FileEdits]
    BY <1>1 DEF SchemaTypes, Schema!Migration
  <2>2. r \in RunnerState /\ r.at = 1
    BY <1>1, <1>4, <2>1 DEF RunnerState, Schema!ReadBook
  <2>3. schemaTable
    BY <1>4 DEF Schema!ReadBook, SchemaInv
  <2>4. schemaRunner' = [schemaRunner EXCEPT ![p] = r]
    BY <1>4 DEF Schema!ReadBook
  <2> HIDE DEF r
  <2> QED BY <1>4, <2>2, <2>3, <2>4, OneRunner DEF Schema!ReadBook
<1>5. ASSUME NEW p \in Runner, Schema!Skip(p) \/ Schema!Refused(p) \/ Schema!Die(p)
      PROVE  SchemaInv'
  <2>1. /\ schemaRunner[p].at # 0 /\ schemaTable
        /\ UNCHANGED <<schemaFile, schemaTable, schemaBook, schemaSchema>>
        /\ Schema!Advance(p) \/ Schema!Stop(p)
    BY <1>5 DEF Schema!Skip, Schema!Refused, Schema!Die, Schema!Ready, SchemaInv
  <2>2. PICK r \in RunnerState : schemaRunner' = [schemaRunner EXCEPT ![p] = r]
    BY <2>1, AdvanceRunner
  <2> QED BY <2>1, <2>2, OneRunner
<1>6. ASSUME NEW p \in Runner, Schema!Apply(p) PROVE SchemaInv'
  <2> DEFINE v == schemaRunner[p].at
             c == schemaRunner[p].files[v]
             record == [version |-> v, checksum |-> c]
             entry == [version |-> v, checksum |-> c, nth |-> 0]
  <2>1. /\ v \in Schema!Migration /\ c \in 0 .. FileEdits /\ schemaTable
    BY <1>1, <1>6 DEF Schema!Apply, Schema!Ready, RunnerState, Schema!Migration, SchemaInv
  <2>2. /\ v \notin Schema!Versions(schemaBook)
        /\ schemaBook' = schemaBook \cup {record} /\ UNCHANGED <<schemaFile, schemaTable>>
        /\ schemaSchema' = IF v = 1 THEN schemaSchema ELSE schemaSchema \cup {entry}
    BY <1>6, FirstApplication DEF Schema!Apply, Schema!Recorded, Schema!Row
  <2>3. PICK r \in RunnerState : schemaRunner' = [schemaRunner EXCEPT ![p] = r]
    BY <1>6, AdvanceRunner DEF Schema!Apply, Schema!Recorded, Schema!Ready
  <2>4. schemaRunner \in [Runner -> RunnerState] /\ schemaRunner' \in [Runner -> RunnerState]
    BY <1>1, <2>3 DEF SchemaTypes
  <2>5. SchemaTypes'
    <3>1. record \in [version : Schema!Migration, checksum : 0 .. FileEdits]
      BY <2>1
    <3>2. entry \in [version : Schema!Migration, checksum : 0 .. FileEdits, nth : Nat]
      BY <2>1
    <3> HIDE DEF record, entry
    <3> QED BY <1>1, <2>2, <2>4, <3>1, <3>2 DEF SchemaTypes
  <2>6. Schema!AppliedOnce'
    <3>1. \A q \in schemaBook : q.version # v
      BY <2>2 DEF Schema!Versions
    <3>2. /\ record.version = v /\ record.checksum = c
          /\ entry.version = v /\ entry.checksum = c /\ entry.nth = 0
          /\ record = [version |-> entry.version, checksum |-> entry.checksum]
      OBVIOUS
    <3> HIDE DEF record, entry, v, c
    <3>3. \A s \in schemaSchema' :
            s.nth = 0 /\ [version |-> s.version, checksum |-> s.checksum] \in schemaBook'
      BY <1>1, <2>2, <3>2 DEF Schema!AppliedOnce
    <3>4. \A q \in schemaBook' : q.version > 1 => \E s \in schemaSchema' : s.version = q.version
      <4> SUFFICES ASSUME NEW q \in schemaBook', q.version > 1
                   PROVE  \E s \in schemaSchema' : s.version = q.version
        OBVIOUS
      <4>1. CASE q = record
        BY <2>1, <2>2, <3>2, <4>1
      <4>2. CASE q \in schemaBook
        BY <1>1, <2>2, <4>2 DEF Schema!AppliedOnce
      <4> QED BY <2>2, <4>1, <4>2
    <3>5. \A q, t \in schemaBook' : q.version = t.version => q = t
      BY <1>1, <2>2, <3>1, <3>2 DEF Schema!AppliedOnce
    <3> QED BY <2>1, <2>2, <3>3, <3>4, <3>5 DEF Schema!AppliedOnce
  <2>7. \A q \in Runner : schemaRunner'[q].at # 0 => schemaTable'
    BY <2>1, <2>2
  <2> QED BY <2>5, <2>6, <2>7 DEF SchemaInv
<1>7. CASE UNCHANGED schemaVars
  BY <1>7 DEF schemaVars, SchemaInv, SchemaTypes, Schema!AppliedOnce
<1> QED BY <1>2, <1>3, <1>4, <1>5, <1>6, <1>7 DEF Schema!Next

LEMMA InitSchemaInv ==
  ASSUME Schema!MigrationsAssumption, Schema!Init
  PROVE  SchemaInv
<1>1. \A p \in Runner : schemaRunner[p] \in RunnerState /\ schemaRunner[p].at = 0
  BY IdleRunner DEF Schema!Init
<1>2. schemaRunner \in [Runner -> RunnerState]
  BY <1>1 DEF Schema!Init
<1>3. schemaFile \in [Schema!Migration -> 0 .. FileEdits]
  BY DEF Schema!Init, Schema!MigrationsAssumption
<1> QED BY <1>1, <1>2, <1>3 DEF Schema!Init, SchemaInv, SchemaTypes, Schema!AppliedOnce

-----------------------------------------------------------------------------
(* Canvas requests.  What the deadlines bound follows from each deadline   *)
(* being within the work time; the token's request has none, so its        *)
(* attempts are counted instead: TokenBudget(n) is the longest that the    *)
(* first n of them and their waits may take, and TokenFits says that all  *)
(* of them fit.                                                            *)
PerAttempt == Http!LongestPause + Timeout + Http!LongestWait
TokenBudget(n) == n * PerAttempt

TokenPaced ==
  httpPart = 0 =>
    /\ httpDeadline = Http!None /\ httpSize = 1
    /\ httpMode \in {"gate", "sent"} => httpNow <= TokenBudget(httpAttempt - 1)
    /\ httpMode = "gate" /\ httpAttempt > 1
         => httpNow + Http!LongestPause <= TokenBudget(httpAttempt - 1)
    /\ httpMode \in {"gate", "sent"} /\ httpAttempt = 1 => httpCeiling = Http!None
    /\ httpNow <= TokenBudget(MaxAttempts - 1) + Timeout

HttpInv ==
  /\ Http!HttpTypeOK /\ Http!WholeOrNothing /\ Http!KeepsToItsDeadline
  /\ httpSize \in Nat \ {0} /\ httpPage <= httpSize
  /\ httpMode \in {"answered", "between", "over"} => httpPage = 1 /\ httpAttempt = 1
  /\ httpMode = "between" => httpPart < Http!LastPart
  /\ httpDeadline # Http!None => httpDeadline <= WorkTime
  /\ httpDeadline = Http!None => httpPart = 0 \/ httpMode \in {"between", "over"}
  /\ TokenPaced

LEMMA HttpMax ==
  ASSUME NEW a \in Int, NEW b \in Int PROVE Http!Max({a, b}) = IF a >= b THEN a ELSE b
BY DEF Http!Max

LEMMA HttpMin ==
  ASSUME NEW a \in Int, NEW b \in Int PROVE Http!Min({a, b}) = IF a <= b THEN a ELSE b
BY DEF Http!Min

LEMMA Ratio ==
  ASSUME NEW x \in Nat, NEW t \in Nat, t > 0, x <= 20 * t
  PROVE  x \div t \in Nat /\ x \div t <= 20
OBVIOUS

LEMMA Product ==
  ASSUME NEW a \in Nat, NEW b \in Nat, NEW k \in Nat
  PROVE  /\ a * k \in Nat /\ (a + 1) * k = a * k + k /\ 0 * k = 0
         /\ a <= b => a * k <= b * k
OBVIOUS

(* The constants, and the waits of a retry. *)
LEMMA HttpNumbers ==
  ASSUME Http!HttpConstants, Http!TokenFits
  PROVE  /\ Enabled \in Nat /\ Http!LastPart = Enabled + 1 /\ Calls \in Nat \ {0}
         /\ MaxAttempts \in Nat \ {0} /\ MaxPages \in Nat \ {0} /\ Timeout \in Nat
         /\ CourseTime \in Nat /\ WorkTime \in Nat /\ Http!LongestWait \in Nat
         /\ Http!LongestPause = 20 /\ Http!None = -1
         /\ PerAttempt = 20 + Timeout + Http!LongestWait
         /\ \A n \in Nat : /\ TokenBudget(n) \in Nat
                           /\ TokenBudget(n + 1) = TokenBudget(n) + PerAttempt
                           /\ n <= MaxAttempts - 1
                                => TokenBudget(n) <= TokenBudget(MaxAttempts - 1)
         /\ TokenBudget(0) = 0
         /\ TokenBudget(MaxAttempts - 1) + Timeout < WorkTime + 20
<1>1. /\ Enabled \in Nat /\ Http!LastPart = Enabled + 1 /\ Calls \in Nat \ {0}
      /\ MaxAttempts \in Nat \ {0} /\ MaxPages \in Nat \ {0} /\ Timeout \in Nat
      /\ CourseTime \in Nat /\ WorkTime \in Nat /\ MaxWait \in Nat /\ MaxBackoff \in Nat
      /\ Http!LongestPause = 20 /\ Http!None = -1
  BY DEF Http!HttpConstants, Http!LastPart, Http!LongestPause, Http!None
<1>2. Http!LongestWait \in Nat
  BY <1>1, HttpMax DEF Http!LongestWait
<1>3. PerAttempt \in Nat /\ PerAttempt = 20 + Timeout + Http!LongestWait
  BY <1>1, <1>2 DEF PerAttempt
<1>4. \A n \in Nat : /\ n * PerAttempt \in Nat
                     /\ (n + 1) * PerAttempt = n * PerAttempt + PerAttempt
                     /\ n <= MaxAttempts - 1 => n * PerAttempt <= (MaxAttempts - 1) * PerAttempt
  BY <1>1, <1>3, Product
<1>5. 0 * PerAttempt = 0
  BY <1>3
<1>6. (MaxAttempts - 1) * PerAttempt + Timeout < WorkTime + 20
  BY <1>1 DEF Http!TokenFits, PerAttempt
<1> QED BY <1>1, <1>2, <1>3, <1>4, <1>5, <1>6 DEF TokenBudget

LEMMA BackoffBound ==
  ASSUME Http!HttpConstants, HttpInv, NEW after \in RetryAfter \cup {Http!None}
  PROVE  Http!Backoff(after) \in Nat /\ Http!Backoff(after) <= Http!LongestWait
<1>1. /\ MaxWait \in Nat /\ MaxBackoff \in 1 .. 64 /\ RetryAfter \subseteq Nat
      /\ httpAttempt \in Nat \ {0} /\ Http!None = -1
  BY DEF Http!HttpConstants, HttpInv, Http!HttpTypeOK, Http!None
<1>2. /\ Http!LongestWait \in Nat
      /\ MaxWait <= Http!LongestWait /\ MaxBackoff <= Http!LongestWait
  BY <1>1, HttpMax DEF Http!LongestWait
<1>3. CASE after # Http!None
  BY <1>1, <1>2, <1>3, HttpMin DEF Http!Backoff
<1>4. CASE after = Http!None /\ httpAttempt <= 6
  <2> DEFINE d == Http!Doubled[httpAttempt]
  <2>1. d \in Nat
    BY <1>1, <1>4 DEF Http!Doubled
  <2>2. Http!Backoff(after) = Http!Min({MaxBackoff, d})
    BY <1>4 DEF Http!Backoff, Http!Doubled
  <2> HIDE DEF d
  <2> QED BY <1>1, <1>2, <2>1, <2>2, HttpMin
<1>5. CASE after = Http!None /\ httpAttempt > 6
  BY <1>1, <1>2, <1>5 DEF Http!Backoff, Http!Doubled
<1> QED BY <1>1, <1>3, <1>4, <1>5

LEMMA PauseBound ==
  ASSUME HttpInv
  PROVE  /\ Http!PauseTime \in Nat /\ Http!PauseTime <= 20
         /\ httpCeiling = Http!None => Http!PauseTime = 0
<1>1. CASE ~Http!ShouldPause
  BY <1>1 DEF Http!PauseTime
<1>2. CASE Http!ShouldPause
  <2> DEFINE t == Http!Threshold
             x == 2 * t + 18 * (t - httpRemaining)
  <2>1. httpCeiling \in Nat /\ httpRemaining \in Nat /\ httpRemaining < t
    BY <1>2 DEF Http!ShouldPause, HttpInv, Http!HttpTypeOK
  <2>2. Http!Max({httpCeiling, 700}) \in Nat /\ Http!Max({httpCeiling, 700}) >= 700
    BY <2>1, HttpMax
  <2>3. t \in Nat /\ t > 0
    BY <2>2 DEF Http!Threshold
  <2> HIDE DEF t
  <2>4. x \in Nat /\ x <= 20 * t
    BY <2>1, <2>3
  <2>5. Http!PauseTime = x \div t
    BY <1>2 DEF Http!PauseTime, t
  <2> HIDE DEF x
  <2> QED BY <1>2, <2>3, <2>4, <2>5, Ratio DEF Http!ShouldPause
<1> QED BY <1>1, <1>2

(* A call returns, at a time its part is allowed. *)
LEMMA HttpReturn ==
  ASSUME Http!HttpConstants, Http!TokenFits, HttpInv, httpMode \in {"gate", "sent"},
         NEW result, result.kind = "ok" => result.pages = httpSize,
         Http!Return(result), httpNow' \in Nat,
         httpDeadline # Http!None => httpNow' < httpDeadline + 20,
         httpPart = 0 => httpNow' <= TokenBudget(MaxAttempts - 1) + Timeout,
         {httpCeiling', httpRemaining'} \subseteq Nat \cup {Http!None},
         UNCHANGED <<httpPart, httpCall, httpDeadline, httpSize, httpDeferred>>
  PROVE  HttpInv'
<1>1. httpAnswer' = result /\ httpMode' = "answered" /\ httpPage' = 1 /\ httpAttempt' = 1
  BY DEF Http!Return
<1>2. Http!HttpTypeOK'
  BY SMTT(20), <1>1, HttpNumbers DEF HttpInv, Http!HttpTypeOK
<1>3. Http!WholeOrNothing'
  BY <1>1 DEF Http!WholeOrNothing
<1>4. Http!KeepsToItsDeadline'
  <2>1. CASE httpDeadline = Http!None
    BY <2>1, HttpNumbers DEF HttpInv, Http!KeepsToItsDeadline
  <2>2. CASE httpDeadline # Http!None
    BY <2>2, HttpNumbers DEF HttpInv, Http!KeepsToItsDeadline, Http!HttpTypeOK
  <2> QED BY <2>1, <2>2
<1>5. TokenPaced'
  BY <1>1 DEF HttpInv, TokenPaced
<1> QED BY <1>1, <1>2, <1>3, <1>4, <1>5 DEF HttpInv

(* A failure is retried, or returned. *)
LEMMA HttpRetry ==
  ASSUME Http!HttpConstants, Http!TokenFits, HttpInv, httpMode = "sent",
         NEW at \in Nat, NEW code, NEW after \in RetryAfter \cup {Http!None},
         Http!Retry(at, code, after),
         httpDeadline # Http!None => at < httpDeadline + 20,
         httpPart = 0 => at <= TokenBudget(httpAttempt - 1) + Timeout,
         {httpCeiling', httpRemaining'} \subseteq Nat \cup {Http!None},
         UNCHANGED <<httpPart, httpCall, httpDeadline, httpSize, httpDeferred>>
  PROVE  HttpInv'
<1>1. httpAttempt \in 1 .. MaxAttempts /\ httpAttempt - 1 \in Nat
      /\ httpAttempt - 1 <= MaxAttempts - 1 /\ MaxAttempts \in Nat
  BY HttpNumbers DEF HttpInv, Http!HttpTypeOK
<1>2. CASE httpAttempt < MaxAttempts /\ Http!Fits(at + Http!Backoff(after))
  <2> DEFINE then == at + Http!Backoff(after)
  <2>1. /\ httpNow' = then /\ httpAttempt' = httpAttempt + 1 /\ httpMode' = "gate"
        /\ UNCHANGED <<httpPage, httpAnswer>>
    BY <1>2 DEF Http!Retry
  <2>2. /\ then \in Nat /\ then <= at + Http!LongestWait
        /\ httpDeadline # Http!None => then < httpDeadline
    BY <1>2, BackoffBound, HttpNumbers DEF Http!Fits
  <2> HIDE DEF then
  <2>3. Http!HttpTypeOK'
    BY <1>1, <1>2, <2>1, <2>2 DEF HttpInv, Http!HttpTypeOK
  <2>4. httpDeadline = Http!None => httpPart = 0
    BY DEF HttpInv
  <2>5. httpPart = 0 => /\ then + 20 <= TokenBudget(httpAttempt)
                        /\ TokenBudget(httpAttempt) <= TokenBudget(MaxAttempts - 1)
                        /\ TokenBudget(httpAttempt) \in Nat
    <3>1. /\ TokenBudget(httpAttempt) = TokenBudget(httpAttempt - 1) + PerAttempt
          /\ TokenBudget(httpAttempt - 1) \in Nat
      <4>1. TokenBudget((httpAttempt - 1) + 1) = TokenBudget(httpAttempt - 1) + PerAttempt
        BY <1>1, HttpNumbers
      <4>2. (httpAttempt - 1) + 1 = httpAttempt
        BY <1>1
      <4> QED BY <1>1, <4>1, <4>2, HttpNumbers
    <3>2. TokenBudget(httpAttempt) <= TokenBudget(MaxAttempts - 1)
          /\ TokenBudget(httpAttempt) \in Nat
      BY <1>1, <1>2, HttpNumbers
    <3> QED BY <2>2, <3>1, <3>2, HttpNumbers
  <2>6. TokenPaced'
    <3>1. httpAttempt' - 1 = httpAttempt /\ httpAttempt' > 1
      BY <1>1, <2>1
    <3>2. TokenBudget(MaxAttempts - 1) \in Nat
      BY <1>1, HttpNumbers
    <3> QED BY <2>1, <2>2, <2>5, <3>1, <3>2, HttpNumbers DEF HttpInv, TokenPaced
  <2>7. Http!KeepsToItsDeadline'
    <3>1. CASE httpDeadline = Http!None
      BY <1>1, <2>1, <2>2, <2>4, <2>5, <3>1, HttpNumbers DEF Http!KeepsToItsDeadline
    <3>2. CASE httpDeadline # Http!None
      BY <2>1, <2>2, <3>2, HttpNumbers DEF HttpInv, Http!KeepsToItsDeadline, Http!HttpTypeOK
    <3> QED BY <3>1, <3>2
  <2>8. Http!WholeOrNothing'
    BY <2>1 DEF Http!WholeOrNothing
  <2> QED BY <2>1, <2>3, <2>6, <2>7, <2>8 DEF HttpInv
<1>3. CASE ~(httpAttempt < MaxAttempts /\ Http!Fits(at + Http!Backoff(after)))
  <2>1. httpNow' = at /\ Http!Return(Http!Error(code))
    BY <1>3 DEF Http!Retry
  <2>2. Http!Error(code).kind # "ok"
    BY DEF Http!Error
  <2>3. httpPart = 0 => at <= TokenBudget(MaxAttempts - 1) + Timeout
    BY <1>1, HttpNumbers
  <2> QED BY <2>1, <2>2, <2>3, HttpReturn
<1> QED BY <1>2, <1>3

LEMMA LimitTyped ==
  ASSUME Http!HttpConstants, Http!TokenFits, HttpInv
  PROVE  /\ Http!Limit \in Nat
         /\ httpDeadline = Http!None => Http!Limit = Timeout
         /\ httpDeadline # Http!None
              => Http!Limit = 0 \/ Http!Limit <= httpDeadline - httpNow
<1>1. CASE httpDeadline = Http!None
  BY <1>1, HttpNumbers DEF Http!Limit
<1>2. CASE httpDeadline # Http!None
  <2> DEFINE d == httpDeadline - httpNow
             m == Http!Min({Timeout, d})
  <2>1. d \in Int /\ Timeout \in Int
    BY <1>2, HttpNumbers DEF HttpInv, Http!HttpTypeOK
  <2>2. Http!Limit = Http!Max({0, m})
    BY <1>2 DEF Http!Limit
  <2> HIDE DEF d
  <2>3. m = IF Timeout <= d THEN Timeout ELSE d
    BY <2>1, HttpMin
  <2>4. m \in Int /\ m <= d
    BY <2>1, <2>3
  <2> HIDE DEF m
  <2>5. Http!Limit = IF 0 >= m THEN 0 ELSE m
    BY <2>2, <2>4, HttpMax
  <2>6. Http!Limit \in Nat /\ (Http!Limit = 0 \/ Http!Limit <= d)
    BY <2>1, <2>4, <2>5
  <2> QED BY <1>2, <2>6 DEF d
<1> QED BY <1>1, <1>2

(* A request in flight ends within what its part is allowed. *)
LEMMA LimitBound ==
  ASSUME Http!HttpConstants, Http!TokenFits, HttpInv, httpMode = "sent",
         NEW time \in 0 .. Http!Limit
  PROVE  /\ httpNow + time \in Nat
         /\ httpDeadline # Http!None => httpNow + time < httpDeadline + 20
         /\ httpPart = 0 => httpNow + time <= TokenBudget(httpAttempt - 1) + Timeout
<1>1. httpNow \in Nat /\ httpDeadline \in Nat \cup {Http!None} /\ httpAttempt - 1 \in Nat
  BY HttpNumbers DEF HttpInv, Http!HttpTypeOK
<1>2. CASE httpDeadline = Http!None
  <2>1. Http!Limit = Timeout
    BY <1>2, LimitTyped
  <2>2. httpPart = 0 => httpNow <= TokenBudget(httpAttempt - 1)
    BY DEF HttpInv, TokenPaced
  <2> QED BY <1>1, <1>2, <2>1, <2>2, HttpNumbers
<1>3. CASE httpDeadline # Http!None
  <2>1. httpDeadline - httpNow \in Int /\ httpNow < httpDeadline + 20 /\ httpPart # 0
    BY <1>1, <1>3, HttpNumbers DEF HttpInv, Http!KeepsToItsDeadline, TokenPaced
  <2> QED BY SMTT(20), <1>1, <1>3, <2>1, LimitTyped, HttpNumbers
<1> QED BY <1>2, <1>3

LEMMA HttpGate ==
  ASSUME Http!HttpConstants, Http!TokenFits, HttpInv, Http!Gate
  PROVE  HttpInv'
<1>1. /\ httpMode = "gate" /\ httpNow \in Nat /\ httpAttempt \in 1 .. MaxAttempts
      /\ UNCHANGED <<httpPart, httpCall, httpDeadline, httpSize, httpCeiling, httpRemaining,
                     httpDeferred>>
      /\ {httpCeiling, httpRemaining} \subseteq Nat \cup {Http!None}
  BY DEF Http!Gate, HttpInv, Http!HttpTypeOK
<1>2. CASE httpDeadline # Http!None /\ httpNow >= httpDeadline
  <2>1. PICK result : Http!Return(result) /\ result.kind = "error"
    BY <1>1, <1>2 DEF Http!Gate, Http!Error
  <2>2. UNCHANGED httpNow
    BY <1>2 DEF Http!Gate
  <2> QED BY <1>1, <1>2, <2>1, <2>2, HttpReturn, HttpNumbers
          DEF HttpInv, Http!KeepsToItsDeadline, TokenPaced
<1>3. CASE ~(httpDeadline # Http!None /\ httpNow >= httpDeadline)
  <2>1. /\ httpNow' = httpNow + Http!PauseTime /\ httpMode' = "sent"
        /\ UNCHANGED <<httpPage, httpAttempt, httpAnswer>>
    BY <1>3 DEF Http!Gate
  <2>2. Http!PauseTime \in Nat /\ Http!PauseTime <= 20
        /\ (httpCeiling = Http!None => Http!PauseTime = 0)
    BY PauseBound
  <2>3. Http!HttpTypeOK'
    BY <1>1, <2>1, <2>2 DEF HttpInv, Http!HttpTypeOK
  <2>4. httpAttempt - 1 \in Nat /\ httpAttempt - 1 <= MaxAttempts - 1
    BY <1>1, HttpNumbers
  <2>5. httpPart = 0 => httpNow' <= TokenBudget(httpAttempt - 1)
    <3> SUFFICES ASSUME httpPart = 0 PROVE httpNow' <= TokenBudget(httpAttempt - 1)
      OBVIOUS
    <3>1. TokenBudget(httpAttempt - 1) \in Nat
      BY <2>4, HttpNumbers
    <3>2. CASE httpAttempt = 1
      <4>1. httpCeiling = Http!None /\ httpNow <= TokenBudget(httpAttempt - 1)
        BY <1>1, <3>2 DEF HttpInv, TokenPaced
      <4> QED BY <1>1, <2>1, <2>2, <4>1
    <3>3. CASE httpAttempt > 1
      <4>1. httpNow + 20 <= TokenBudget(httpAttempt - 1)
        BY <1>1, <3>3, HttpNumbers DEF HttpInv, TokenPaced
      <4> QED BY <1>1, <2>1, <2>2, <3>1, <4>1
    <3> QED BY <1>1, <3>2, <3>3
  <2>6. TokenBudget(httpAttempt - 1) \in Nat /\ TokenBudget(MaxAttempts - 1) \in Nat
        /\ TokenBudget(httpAttempt - 1) <= TokenBudget(MaxAttempts - 1)
    BY <2>4, HttpNumbers
  <2>7. TokenPaced'
    BY <1>1, <2>1, <2>3, <2>5, <2>6, HttpNumbers DEF HttpInv, TokenPaced, Http!HttpTypeOK
  <2>8. Http!KeepsToItsDeadline'
    <3>1. CASE httpDeadline = Http!None
      <4>1. httpPart = 0
        BY <1>1, <3>1 DEF HttpInv
      <4> QED BY <1>1, <2>5, <2>6, <3>1, <4>1, <2>1, <2>2, HttpNumbers
              DEF Http!KeepsToItsDeadline
    <3>2. CASE httpDeadline # Http!None
      BY <1>1, <1>3, <2>1, <2>2, <3>2, HttpNumbers
         DEF HttpInv, Http!KeepsToItsDeadline, Http!HttpTypeOK
    <3> QED BY <3>1, <3>2
  <2>9. Http!WholeOrNothing'
    BY <2>1 DEF Http!WholeOrNothing
  <2> QED BY <1>1, <2>1, <2>3, <2>7, <2>8, <2>9 DEF HttpInv
<1> QED BY <1>2, <1>3

(* What a response carries. *)
LEMMA ResponseFields ==
  ASSUME NEW r \in Http!Response
  PROVE  r.reading \in Readings \cup {Http!None} /\ r.after \in RetryAfter \cup {Http!None}
BY ZenonT(40) DEF Http!Response

LEMMA Successful ==
  ASSUME NEW r, r.status = 200 PROVE Http!RetryCode(r) = "none"
<1>1. ~Http!Limited(r)
  BY DEF Http!Limited
<1> QED BY <1>1 DEF Http!RetryCode

LEMMA HttpRespond ==
  ASSUME Http!HttpConstants, Http!TokenFits, HttpInv,
         NEW r \in Http!Response, NEW time \in Latency, Http!Respond(r, time)
  PROVE  HttpInv'
<1> DEFINE at == httpNow + time
<1>1. /\ httpMode = "sent" /\ time <= Http!Limit /\ time \in Nat
      /\ UNCHANGED <<httpPart, httpCall, httpDeadline, httpSize, httpDeferred>>
  BY DEF Http!Respond, Http!HttpConstants
<1>2. {httpCeiling', httpRemaining'} \subseteq Nat \cup {Http!None}
  <2>1. {httpCeiling, httpRemaining} \subseteq Nat \cup {Http!None}
    BY DEF HttpInv, Http!HttpTypeOK
  <2>2. CASE r.reading = Http!None
    BY <2>1, <2>2 DEF Http!Respond, Http!Observe
  <2>3. CASE r.reading # Http!None
    <3>1. r.reading \in Nat
      BY <2>3, ResponseFields DEF Http!HttpConstants
    <3>2. httpCeiling \in Int
      BY <2>1 DEF Http!None
    <3>3. Http!Max({httpCeiling, r.reading}) \in Nat
      BY <3>1, <3>2, HttpMax
    <3> QED BY <2>3, <3>1, <3>3 DEF Http!Respond, Http!Observe
  <2> QED BY <2>2, <2>3
<1>3. time \in 0 .. Http!Limit
  <2>1. Http!Limit \in Nat
    BY LimitTyped
  <2> QED BY <1>1, <2>1
<1>4. /\ at \in Nat /\ (httpDeadline # Http!None => at < httpDeadline + 20)
      /\ httpPart = 0 => at <= TokenBudget(httpAttempt - 1) + Timeout
  BY <1>1, <1>3, LimitBound
<1> HIDE DEF at
<1>5. httpPart = 0 => at <= TokenBudget(MaxAttempts - 1) + Timeout
  <2>1. httpAttempt - 1 \in Nat /\ httpAttempt - 1 <= MaxAttempts - 1 /\ MaxAttempts - 1 \in Nat
    BY SMTT(20), HttpNumbers DEF HttpInv, Http!HttpTypeOK
  <2> QED BY <1>4, <2>1, HttpNumbers
<1>6. CASE Http!RetryCode(r) # "none"
  <2>1. Http!Retry(at, Http!RetryCode(r), r.after)
    BY <1>6, Successful DEF Http!Respond, at
  <2> QED BY <1>1, <1>2, <1>4, <2>1, ResponseFields, HttpRetry
<1>7. ASSUME NEW result, result.kind = "ok" => result.pages = httpSize, httpNow' = at,
             Http!Return(result)
      PROVE  HttpInv'
  BY <1>1, <1>2, <1>4, <1>5, <1>7, HttpReturn
<1>8. CASE Http!RetryCode(r) = "none" /\ r.status = 200 /\ r.body = "json"
  <2>1. httpNow' = at /\ Http!TurnPage
    BY <1>8 DEF Http!Respond, at
  <2>2. CASE httpPage = httpSize
    <3>1. Http!Return(Http!Ok(httpPage))
      <4>1. ~(httpPage < httpSize)
        BY <2>2 DEF HttpInv, Http!HttpTypeOK
      <4> QED BY <2>1, <2>2, <4>1 DEF Http!TurnPage
    <3>2. Http!Ok(httpPage).pages = httpSize
      BY <2>2 DEF Http!Ok
    <3> QED BY <1>7, <2>1, <3>1, <3>2
  <2>3. CASE httpPage < httpSize /\ httpPage = MaxPages
    <3>1. httpPage # httpSize
      BY <2>3, HttpNumbers DEF HttpInv
    <3>2. Http!Return(Http!Error("unknown"))
      BY <2>1, <2>3, <3>1 DEF Http!TurnPage
    <3>3. Http!Error("unknown").kind # "ok"
      BY DEF Http!Error
    <3> QED BY <1>7, <2>1, <3>2, <3>3
  <2>4. CASE httpPage # httpSize /\ ~(httpPage < httpSize /\ httpPage = MaxPages)
    <3>1. /\ httpPage' = httpPage + 1 /\ httpAttempt' = 1 /\ httpMode' = "gate"
          /\ UNCHANGED httpAnswer
      BY <2>1, <2>4 DEF Http!TurnPage
    <3>2. httpPage \in 1 .. MaxPages /\ httpPage <= httpSize /\ httpSize \in Nat
      BY DEF HttpInv, Http!HttpTypeOK
    <3>3. httpPage' \in 1 .. MaxPages /\ httpPage' <= httpSize /\ httpSize # 1
      <4>1. MaxPages \in Nat
        BY HttpNumbers
      <4> QED BY <2>4, <3>1, <3>2, <4>1
    <3>4. httpPart # 0 /\ httpDeadline # Http!None
      BY <1>1, <3>3 DEF HttpInv, TokenPaced
    <3>5. Http!HttpTypeOK'
      BY <1>1, <1>2, <1>4, <2>1, <3>1, <3>3, HttpNumbers DEF HttpInv, Http!HttpTypeOK
    <3>6. Http!KeepsToItsDeadline'
      BY <1>1, <1>4, <2>1, <3>4, HttpNumbers
         DEF HttpInv, Http!KeepsToItsDeadline, Http!HttpTypeOK
    <3> QED BY <1>1, <3>1, <3>3, <3>4, <3>5, <3>6 DEF HttpInv, Http!WholeOrNothing, TokenPaced
  <2> QED BY <2>2, <2>3, <2>4
<1>9. CASE Http!RetryCode(r) = "none" /\ ~(r.status = 200 /\ r.body = "json")
  <2>1. PICK result : httpNow' = at /\ Http!Return(result) /\ result.kind # "ok"
    <3>1. CASE r.status = 200
      <4>1. httpNow' = at /\ Http!Return(Http!Error("malformed"))
        BY <1>9, <3>1 DEF Http!Respond, at
      <4>2. Http!Error("malformed").kind # "ok"
        BY DEF Http!Error
      <4> QED BY <4>1, <4>2
    <3>2. CASE r.status # 200
      <4>1. httpNow' = at /\ Http!Return(Http!Final(r))
        BY <1>9, <3>2 DEF Http!Respond, at
      <4>2. Http!Final(r).kind # "ok"
        BY DEF Http!Final, Http!Error, Http!Denied
      <4> QED BY <4>1, <4>2
    <3> QED BY <3>1, <3>2
  <2> QED BY <1>7, <2>1
<1> QED BY <1>6, <1>8, <1>9

LEMMA HttpNoAnswer ==
  ASSUME Http!HttpConstants, Http!TokenFits, HttpInv, NEW code, Http!NoAnswer(code)
  PROVE  HttpInv'
<1> DEFINE time == IF code = "timeout" THEN Http!Limit ELSE 0
           at == httpNow + time
<1>1. /\ httpMode = "sent" /\ Http!Retry(at, code, Http!None)
      /\ UNCHANGED <<httpPart, httpCall, httpDeadline, httpSize, httpCeiling, httpRemaining,
                     httpDeferred>>
  BY DEF Http!NoAnswer
<1>2. Http!Limit \in Nat
  BY LimitTyped
<1>3. time \in 0 .. Http!Limit
  BY <1>2
<1> HIDE DEF time
<1>4. /\ at \in Nat /\ (httpDeadline # Http!None => at < httpDeadline + 20)
      /\ httpPart = 0 => at <= TokenBudget(httpAttempt - 1) + Timeout
  BY <1>1, <1>3, LimitBound
<1> HIDE DEF at
<1>5. {httpCeiling', httpRemaining'} \subseteq Nat \cup {Http!None}
  BY <1>1 DEF HttpInv, Http!HttpTypeOK
<1> QED BY <1>1, <1>4, <1>5, HttpRetry

LEMMA HttpStartPart ==
  ASSUME Http!HttpConstants, Http!TokenFits, HttpInv, NEW n \in Pages, Http!StartPart(n)
  PROVE  HttpInv'
<1>1. /\ httpMode = "between" /\ httpPart' = httpPart + 1 /\ httpPage = 1 /\ httpAttempt = 1
      /\ httpPart \in 0 .. Enabled /\ httpPart < Http!LastPart /\ n \in Nat \ {0}
      /\ httpNow \in Nat /\ httpNow < WorkTime + 20
      /\ httpDeadline # Http!None => httpDeadline <= WorkTime /\ httpNow < httpDeadline + 20
      /\ UNCHANGED <<httpNow, httpCeiling, httpRemaining>>
  BY HttpNumbers DEF Http!StartPart, HttpInv, Http!HttpTypeOK, Http!KeepsToItsDeadline,
                     Http!HttpConstants
<1>2. CASE httpPart > 0 /\ httpNow >= WorkTime
  <2>1. /\ httpDeferred' = httpDeferred \cup {httpPart}
        /\ httpMode' = IF httpPart' = Http!LastPart THEN "over" ELSE "between"
        /\ UNCHANGED <<httpCall, httpDeadline, httpSize, httpPage, httpAttempt, httpLast,
                       httpAnswer>>
    BY <1>2 DEF Http!StartPart
  <2>2. Http!HttpTypeOK'
    BY <1>1, <1>2, <2>1, HttpNumbers DEF HttpInv, Http!HttpTypeOK
  <2>3. httpMode' = "between" => httpPart' < Http!LastPart
    BY <1>1, <2>1, HttpNumbers
  <2>4. httpMode' \in {"over", "between"} /\ httpPart' # 0
    BY <1>1, <2>1
  <2> QED BY <1>1, <2>1, <2>2, <2>3, <2>4
          DEF HttpInv, TokenPaced, Http!WholeOrNothing, Http!KeepsToItsDeadline
<1>3. CASE ~(httpPart > 0 /\ httpNow >= WorkTime)
  <2>1. /\ httpDeadline' = Http!DeadlineFor /\ httpCall' = 1 /\ httpSize' = n
        /\ httpMode' = "gate" /\ UNCHANGED <<httpPage, httpAttempt, httpDeferred>>
    BY <1>3 DEF Http!StartPart, Http!Begin
  <2>2. /\ httpDeadline' \in Nat /\ httpDeadline' <= WorkTime /\ httpNow < httpDeadline' + 20
    <3>1. Http!DeadlineFor = IF httpNow + CourseTime <= WorkTime THEN httpNow + CourseTime
                             ELSE WorkTime
      <4> DEFINE d == httpNow + CourseTime
      <4>1. d \in Int /\ WorkTime \in Int
        BY <1>1, HttpNumbers
      <4> HIDE DEF d
      <4>2. Http!Min({d, WorkTime}) = IF d <= WorkTime THEN d ELSE WorkTime
        BY <4>1, HttpMin
      <4> QED BY <4>2 DEF Http!DeadlineFor, d
    <3> QED BY <1>1, <2>1, <3>1, HttpNumbers
  <2>3. Http!HttpTypeOK'
    BY <1>1, <2>1, <2>2, HttpNumbers DEF HttpInv, Http!HttpTypeOK
  <2>4. Http!KeepsToItsDeadline'
    BY <1>1, <2>2, HttpNumbers DEF Http!KeepsToItsDeadline
  <2>5. httpPart' # 0 /\ httpDeadline' # Http!None
    BY <1>1, <2>2, HttpNumbers
  <2> QED BY <1>1, <2>1, <2>2, <2>3, <2>4, <2>5 DEF HttpInv, TokenPaced, Http!WholeOrNothing
<1> QED BY <1>2, <1>3

LEMMA NextHttpInv ==
  ASSUME Http!HttpConstants, Http!TokenFits, HttpInv, [Http!Next]_httpVars
  PROVE  HttpInv'
<1>1. CASE Http!Gate
  BY <1>1, HttpGate
<1>2. ASSUME NEW r \in Http!Response, NEW time \in Latency, Http!Respond(r, time) PROVE HttpInv'
  BY <1>2, HttpRespond
<1>3. ASSUME NEW code, Http!NoAnswer(code) PROVE HttpInv'
  BY <1>3, HttpNoAnswer
<1>4. ASSUME NEW n \in Pages, Http!NextCall(n) PROVE HttpInv'
  <2>1. /\ httpMode = "answered" /\ httpPart > 1 /\ httpCall < Calls /\ httpCall' = httpCall + 1
        /\ httpSize' = n /\ httpMode' = "gate" /\ n \in Nat \ {0}
        /\ UNCHANGED <<httpNow, httpPart, httpDeadline, httpCeiling, httpRemaining, httpDeferred,
                       httpPage, httpAttempt>>
    BY <1>4 DEF Http!NextCall, Http!Begin, Http!HttpConstants
  <2>2. Http!HttpTypeOK'
    BY <2>1, HttpNumbers DEF HttpInv, Http!HttpTypeOK
  <2>3. httpPart # 0 /\ httpPage = 1
    BY <2>1 DEF HttpInv
  <2> QED BY <2>1, <2>2, <2>3
          DEF HttpInv, TokenPaced, Http!WholeOrNothing, Http!KeepsToItsDeadline
<1>5. ASSUME NEW n \in Pages, Http!StartPart(n) PROVE HttpInv'
  BY <1>5, HttpStartPart
<1>6. CASE Http!EndPart
  <2>1. /\ httpMode = "answered" /\ httpDeadline' = Http!None
        /\ httpMode' = IF httpPart = Http!LastPart \/ (httpPart = 0 /\ httpAnswer.kind # "ok")
                       THEN "over" ELSE "between"
        /\ UNCHANGED <<httpNow, httpPart, httpCall, httpSize, httpPage, httpAttempt,
                       httpCeiling, httpRemaining, httpDeferred>>
    BY <1>6 DEF Http!EndPart
  <2>2. httpMode' \in {"over", "between"}
    BY <2>1
  <2>3. Http!HttpTypeOK'
    BY <2>1, <2>2, HttpNumbers DEF HttpInv, Http!HttpTypeOK
  <2>4. httpMode' = "between" => httpPart' < Http!LastPart
    BY <2>1, HttpNumbers DEF HttpInv, Http!HttpTypeOK
  <2>5. Http!KeepsToItsDeadline'
    BY <2>1 DEF HttpInv, Http!KeepsToItsDeadline
  <2> QED BY <2>1, <2>2, <2>3, <2>4, <2>5 DEF HttpInv, TokenPaced, Http!WholeOrNothing
<1>7. CASE UNCHANGED httpVars
  BY <1>7 DEF httpVars, HttpInv, TokenPaced, Http!HttpTypeOK, Http!WholeOrNothing,
              Http!KeepsToItsDeadline
<1> QED BY <1>1, <1>2, <1>3, <1>4, <1>5, <1>6, <1>7 DEF Http!Next

LEMMA InitHttpInv ==
  ASSUME Http!HttpConstants, Http!TokenFits, Http!Init
  PROVE  HttpInv
<1>1. Http!HttpTypeOK
  BY HttpNumbers DEF Http!Init, Http!HttpTypeOK
<1>2. httpNow = 0 /\ httpAttempt = 1 /\ httpAttempt - 1 = 0 /\ httpMode = "gate"
  BY DEF Http!Init
<1>3. TokenBudget(MaxAttempts - 1) \in Nat
  BY HttpNumbers
<1>4. TokenPaced
  BY <1>2, <1>3, HttpNumbers DEF Http!Init, TokenPaced
<1>5. Http!KeepsToItsDeadline
  BY <1>2, <1>3, HttpNumbers DEF Http!Init, Http!KeepsToItsDeadline
<1> QED BY <1>1, <1>2, <1>4, <1>5, HttpNumbers DEF Http!Init, HttpInv, Http!WholeOrNothing

-----------------------------------------------------------------------------
(* The schedule.  A gap is real because the table of runs holds every run  *)
(* that ever started, under the slot it named (RunsAreRows), and because   *)
(* the latest of the earlier slots is taken, not any of them; the tally    *)
(* accounts for the gap because the silent slots are parted by their fate. *)
RunsAreRows ==
  \A s \in Slots!Slots :
    slotsNamed[s] # 0 => \E r \in slotsRows : r.of = s /\ r.slot = slotsNamed[s]

SlotsInv ==
  /\ Slots!ScheduleTypeOK /\ RunsAreRows
  /\ slotsActive # 0 => slotsNamed[slotsActive] # 0
  /\ \A s \in Slots!Slots : slotsGithub[s] # "future" => s <= slotsClock

(* In a bounded set that is not empty, Latest is the greatest.             *)
LEMMA LatestIsGreatest ==
  ASSUME NEW S, S \subseteq Nat, S # {}, NEW b \in Nat, \A s \in S : s <= b
  PROVE  Slots!Latest(S) \in S /\ \A s \in S : s <= Slots!Latest(S)
<1> DEFINE D == {b - s : s \in S}
<1>1. D \subseteq Nat /\ D # {}
  <2>1. \A s \in S : b - s \in Nat
    OBVIOUS
  <2> QED BY <2>1
<1>2. PICK d \in D : \A e \in D : d <= e
  BY <1>1, LeastNumber
<1>3. PICK s \in S : d = b - s
  BY <1>2
<1>4. \A t \in S : b - s <= b - t
  BY <1>2, <1>3
<1>5. \A t \in S : t <= s
  BY <1>4
<1> QED BY <1>5 DEF Slots!Latest

LEMMA SlotNumbers ==
  ASSUME Slots!ScheduleAssumption, SlotsInv
  PROVE  /\ Slots!Slots \subseteq Nat \ {0} /\ slotsClock \in Nat /\ ReportAt \in Nat \ {0}
         /\ slotsNamed \in [Slots!Slots -> Slots!Slots \cup {0}]
         /\ \A s \in Slots!Slots : slotsNamed[s] \in Nat
         /\ \A r \in slotsRows : r.slot \in Slots!Slots
<1>1. /\ Slots!Slots \subseteq Nat \ {0} /\ ReportAt \in Nat \ {0}
      /\ slotsClock \in Slots!Slots \cup {0}
      /\ slotsNamed \in [Slots!Slots -> Slots!Slots \cup {0}]
  BY DEF Slots!ScheduleAssumption, SlotsInv, Slots!ScheduleTypeOK
<1>2. \A s \in Slots!Slots : slotsNamed[s] \in Slots!Slots \cup {0}
  BY <1>1
<1>3. \A r \in slotsRows : r.slot \in Slots!Slots
  BY DEF SlotsInv, Slots!ScheduleTypeOK
<1>4. slotsClock \in Nat
  BY <1>1
<1>5. ASSUME NEW s \in Slots!Slots PROVE slotsNamed[s] \in Nat
  <2>1. Slots!Slots \cup {0} \subseteq Nat
    BY <1>1
  <2> QED BY <1>2, <2>1, Zenon
<1> QED BY <1>1, <1>3, <1>4, <1>5

(* A run takes a slot of its expression, one that has come.                *)
LEMMA SlotTaken ==
  ASSUME Slots!ScheduleAssumption, SlotsInv, NEW s \in Slots!Slots, s <= slotsClock
  PROVE  Slots!SlotAt(s) \in Slots!Slots
<1> DEFINE S == {t \in Slots!Expression(s) : t <= slotsClock}
<1>1. s \in Slots!Expression(s) /\ Slots!Expression(s) \subseteq Slots!Slots
  BY DEF Slots!Expression, Slots!Slots
<1>2. S \subseteq Slots!Slots /\ S \subseteq Nat /\ S # {} /\ slotsClock \in Nat
  BY <1>1, SlotNumbers
<1>3. Slots!Latest(S) \in S
  BY <1>2, LatestIsGreatest
<1> QED BY <1>2, <1>3 DEF Slots!SlotAt

(* No run had started for a slot between the last one and this.            *)
LEMMA NothingBetween ==
  ASSUME Slots!ScheduleAssumption, SlotsInv, slotsActive # 0, Slots!Earlier(slotsActive) # {}
  PROVE  LET from == Slots!Latest(Slots!Earlier(slotsActive)) IN
         /\ from \in Slots!Slots /\ slotsNamed[slotsActive] \in Slots!Slots
         /\ \A s \in Slots!Slots :
              slotsNamed[s] \notin Slots!Between(from, slotsNamed[slotsActive])
<1> DEFINE E == Slots!Earlier(slotsActive)
           from == Slots!Latest(E)
           to == slotsNamed[slotsActive]
<1>1. slotsActive \in Slots!Slots /\ to \in Slots!Slots /\ to \in Nat
  BY SlotNumbers DEF SlotsInv, Slots!ScheduleTypeOK
<1>2. E \subseteq Slots!Slots /\ E \subseteq Nat /\ \A t \in E : t <= to
  BY <1>1, SlotNumbers DEF Slots!Earlier
<1>3. from \in E /\ \A t \in E : t <= from
  BY <1>1, <1>2, LatestIsGreatest
<1>4. ASSUME NEW s \in Slots!Slots, slotsNamed[s] \in Slots!Between(from, to) PROVE FALSE
  <2>1. slotsNamed[s] \in Nat /\ slotsNamed[s] # 0 /\ from < slotsNamed[s] /\ slotsNamed[s] < to
    BY <1>4, SlotNumbers DEF Slots!Between
  <2>2. PICK r \in slotsRows : r.of = s /\ r.slot = slotsNamed[s]
    BY <2>1 DEF SlotsInv, RunsAreRows
  <2>3. s # slotsActive
    BY <1>1, <2>1
  <2>4. slotsNamed[s] \in E
    BY <2>1, <2>2, <2>3 DEF Slots!Earlier
  <2> QED BY <1>1, <1>2, <1>3, <2>1, <2>4
<1> QED BY <1>1, <1>2, <1>3, <1>4

LEMMA SlotsCardinality == ASSUME NEW S PROVE Slots!Cardinality(S) = Cardinality(S)
BY SMT DEF Cardinality, Slots!Cardinality

LEMMA SlotsFinite == ASSUME NEW S PROVE Slots!IsFiniteSet(S) <=> IsFiniteSet(S)
BY SMT DEF IsFiniteSet, Slots!IsFiniteSet

(* Parts of a finite set, by one of three fates.                           *)
LEMMA Parted ==
  ASSUME NEW S, IsFiniteSet(S), NEW f, \A s \in S : f[s] \in {"waiting", "cancelled", "failed"}
  PROVE  LET Is(fate) == Cardinality({s \in S : f[s] = fate}) IN
         /\ Is("cancelled") \in Nat /\ Is("failed") \in Nat /\ Is("waiting") \in Nat
         /\ Cardinality(S) \in Nat
         /\ Cardinality(S) = Is("cancelled") + Is("failed") + Is("waiting")
<1> DEFINE C == {s \in S : f[s] = "cancelled"}
           F == {s \in S : f[s] = "failed"}
           W == {s \in S : f[s] = "waiting"}
<1>1. /\ IsFiniteSet(C) /\ Cardinality(C) \in Nat /\ IsFiniteSet(F) /\ Cardinality(F) \in Nat
      /\ IsFiniteSet(W) /\ Cardinality(W) \in Nat /\ Cardinality(S) \in Nat
  <2>1. C \in SUBSET S /\ F \in SUBSET S /\ W \in SUBSET S
    OBVIOUS
  <2> QED BY <2>1, FS_Subset, FS_CardinalityType
<1>2. S = (C \cup F) \cup W /\ C \cap F = {} /\ (C \cup F) \cap W = {}
  <2>1. \A s : s \in S <=> s \in C \/ s \in F \/ s \in W
    BY Zenon
  <2>2. \A s \in S : ~(s \in C /\ s \in F) /\ ~((s \in C \/ s \in F) /\ s \in W)
    OBVIOUS
  <2>3. C \subseteq S /\ F \subseteq S /\ W \subseteq S
    OBVIOUS
  <2> HIDE DEF C, F, W
  <2> QED BY <2>1, <2>2, <2>3
<1> HIDE DEF C, F, W
<1> DEFINE U == C \cup F
<1>3. IsFiniteSet(U) /\ Cardinality(U) = Cardinality(C) + Cardinality(F) - Cardinality({})
  BY <1>1, <1>2, FS_Union
<1>4. S = U \cup W /\ U \cap W = {}
  BY <1>2
<1> HIDE DEF U
<1>5. Cardinality(S) = Cardinality(U) + Cardinality(W) - Cardinality({})
  BY <1>1, <1>3, <1>4, FS_Union
<1>6. Cardinality(S) = Cardinality(C) + Cardinality(F) + Cardinality(W)
  BY <1>1, <1>3, <1>5, FS_EmptySet
<1> QED BY <1>1, <1>6 DEF C, F, W

(* What GitHub is said to have done accounts for every missed slot.        *)
LEMMA TallyCovers ==
  ASSUME Slots!ScheduleAssumption, SlotsInv, NEW s, NEW from, NEW missed \in Nat
  PROVE  LET e == Slots!Explain(s, from, missed) IN
         e.cancelled + e.failed + e.waiting + e.never >= missed
<1> DEFINE silent == {t \in Slots!Slots :
                        /\ from < t /\ t <= slotsClock /\ t # s
                        /\ slotsGithub[t] \in {"waiting", "cancelled", "failed"}
                        /\ \A r \in slotsRows : r.of # t}
           Is(fate) == Cardinality({t \in silent : slotsGithub[t] = fate})
           n == Cardinality(silent)
<1>1. IsFiniteSet(silent)
  <2>1. IsFiniteSet(Slots!Slots)
    BY SlotsFinite DEF Slots!ScheduleAssumption
  <2>2. silent \in SUBSET Slots!Slots
    OBVIOUS
  <2> QED BY <2>1, <2>2, FS_Subset
<1>2. \A t \in silent : slotsGithub[t] \in {"waiting", "cancelled", "failed"}
  OBVIOUS
<1>3. Slots!Explain(s, from, missed)
        = [cancelled |-> Is("cancelled"), failed |-> Is("failed"), waiting |-> Is("waiting"),
           never |-> IF missed > n THEN missed - n ELSE 0]
  BY SlotsCardinality, Zenon DEF Slots!Explain
<1> HIDE DEF silent
<1>4. /\ Is("cancelled") \in Nat /\ Is("failed") \in Nat /\ Is("waiting") \in Nat /\ n \in Nat
      /\ n = Is("cancelled") + Is("failed") + Is("waiting")
  BY <1>1, <1>2, Parted
<1> HIDE DEF Is, n
<1>5. LET e == Slots!Explain(s, from, missed) IN
      /\ e.cancelled = Is("cancelled") /\ e.failed = Is("failed") /\ e.waiting = Is("waiting")
      /\ e.never = IF missed > n THEN missed - n ELSE 0
  BY <1>3
<1> QED BY <1>4, <1>5

-----------------------------------------------------------------------------
(* Closing a row keeps whose it is and its slot.                           *)
LEMMA ClosedRows ==
  ASSUME SlotsInv, NEW s, NEW status \in {"ok", "failed"}, Slots!FinishRun(s, status),
         UNCHANGED slotsNamed
  PROVE  RunsAreRows' /\ slotsActive' = 0
         /\ slotsRows' \subseteq [of : Slots!Slots, slot : Slots!Slots,
                                  status : {"running", "ok", "failed"}]
<1> DEFINE closed(r) == IF r.of = s THEN [r EXCEPT !.status = status] ELSE r
<1>1. slotsRows' = {closed(r) : r \in slotsRows} /\ slotsActive' = 0
  BY DEF Slots!FinishRun
<1>2. \A r \in slotsRows : r \in [of : Slots!Slots, slot : Slots!Slots,
                                  status : {"running", "ok", "failed"}]
  BY DEF SlotsInv, Slots!ScheduleTypeOK
<1>3. \A r \in slotsRows :
        /\ closed(r) \in [of : Slots!Slots, slot : Slots!Slots,
                          status : {"running", "ok", "failed"}]
        /\ closed(r).of = r.of /\ closed(r).slot = r.slot
  BY <1>2
<1> HIDE DEF closed
<1> QED BY <1>1, <1>3 DEF SlotsInv, RunsAreRows

LEMMA NextSlotsInv ==
  ASSUME Slots!ScheduleAssumption, SlotsInv, [Slots!Next]_slotsVars
  PROVE  SlotsInv'
<1> DEFINE Fates == {"future", "waiting", "never", "cancelled", "failed", "started"}
<1>1. /\ Slots!ScheduleTypeOK /\ RunsAreRows
      /\ Slots!Slots \subseteq Nat \ {0} /\ slotsClock \in Nat
      /\ slotsGithub \in [Slots!Slots -> Fates]
      /\ slotsNamed \in [Slots!Slots -> Slots!Slots \cup {0}]
  BY SlotNumbers DEF SlotsInv, Slots!ScheduleTypeOK
<1>2. CASE Slots!Tick
  <2>1. PICK s \in Slots!Slots, fate \in {"waiting", "never"} :
          /\ s > slotsClock /\ slotsClock' = s /\ slotsGithub' = [slotsGithub EXCEPT ![s] = fate]
          /\ UNCHANGED <<slotsNamed, slotsRows, slotsActive, slotsNotices>>
    BY <1>2 DEF Slots!Tick, Slots!NextSlot
  <2>2. slotsGithub' \in [Slots!Slots -> Fates]
    BY <1>1, <2>1
  <2>3. \A t \in Slots!Slots : slotsGithub'[t] # "future" => t <= slotsClock'
    BY <1>1, <2>1 DEF SlotsInv
  <2> QED BY <1>1, <2>1, <2>2, <2>3 DEF SlotsInv, Slots!ScheduleTypeOK, RunsAreRows
<1>3. CASE Slots!Die
  BY <1>1, <1>3 DEF Slots!Die, SlotsInv, Slots!ScheduleTypeOK, RunsAreRows
<1>4. CASE Slots!Throw
  <2>1. Slots!FinishRun(slotsActive, "failed")
        /\ UNCHANGED <<slotsClock, slotsGithub, slotsNamed, slotsNotices>>
    BY <1>4 DEF Slots!Throw
  <2> QED BY <1>1, <2>1, ClosedRows DEF SlotsInv, Slots!ScheduleTypeOK
<1>5. ASSUME NEW s \in Slots!Slots, Slots!StartRun(s) PROVE SlotsInv'
  <2> DEFINE slot == Slots!SlotAt(s)
             status == IF slotsActive = 0 THEN "running" ELSE "ok"
             record == [of |-> s, slot |-> slot, status |-> status]
  <2>1. /\ slotsGithub[s] = "waiting" /\ slotsGithub' = [slotsGithub EXCEPT ![s] = "started"]
        /\ slotsNamed' = [slotsNamed EXCEPT ![s] = slot] /\ slotsRows' = slotsRows \cup {record}
        /\ slotsActive' = IF slotsActive = 0 THEN s ELSE slotsActive
        /\ UNCHANGED <<slotsClock, slotsNotices>>
    BY <1>5 DEF Slots!StartRun, Slots!Row
  <2>2. slot \in Slots!Slots
    BY <2>1, SlotTaken DEF SlotsInv
  <2> HIDE DEF slot
  <2>3. record \in [of : Slots!Slots, slot : Slots!Slots, status : {"running", "ok", "failed"}]
        /\ record.of = s /\ record.slot = slot
    BY <2>2
  <2> HIDE DEF record
  <2>4. Slots!ScheduleTypeOK'
    BY <1>1, <2>1, <2>2, <2>3 DEF Slots!ScheduleTypeOK
  <2>5. RunsAreRows'
    BY <1>1, <2>1, <2>2, <2>3 DEF RunsAreRows
  <2>6. slotsActive' # 0 => slotsNamed'[slotsActive'] # 0
    BY <1>1, <2>1, <2>2 DEF SlotsInv
  <2>7. \A t \in Slots!Slots : slotsGithub'[t] # "future" => t <= slotsClock'
    BY <1>1, <2>1 DEF SlotsInv
  <2> QED BY <2>4, <2>5, <2>6, <2>7 DEF SlotsInv
<1>6. ASSUME NEW s \in Slots!Slots, NEW fate \in {"cancelled", "failed"}, Slots!Lose(s, fate)
      PROVE  SlotsInv'
  BY <1>1, <1>6 DEF Slots!Lose, SlotsInv, Slots!ScheduleTypeOK, RunsAreRows
<1>7. ASSUME NEW read \in BOOLEAN, Slots!Report(read) PROVE SlotsInv'
  <2>1. slotsActive # 0 /\ Slots!FinishRun(slotsActive, "ok")
        /\ UNCHANGED <<slotsClock, slotsGithub, slotsNamed>>
    BY <1>7 DEF Slots!Report
  <2>2. \A n \in slotsNotices' : n.from \in Slots!Slots /\ n.to \in Slots!Slots
    <3>1. CASE slotsNotices' = slotsNotices
      BY <1>1, <3>1 DEF Slots!ScheduleTypeOK
    <3>2. CASE slotsNotices' # slotsNotices
      <4> DEFINE from == Slots!Latest(Slots!Earlier(slotsActive))
                 to == slotsNamed[slotsActive]
      <4>1. /\ Slots!Earlier(slotsActive) # {}
            /\ \E tally : slotsNotices' = slotsNotices \cup
                            {[from |-> from, to |-> to, tally |-> tally]}
        BY <1>7, <3>2 DEF Slots!Report
      <4>2. from \in Slots!Slots /\ to \in Slots!Slots
        BY <2>1, <4>1, NothingBetween
      <4> HIDE DEF from, to
      <4> QED BY <1>1, <4>1, <4>2 DEF Slots!ScheduleTypeOK
    <3> QED BY <3>1, <3>2
  <2> QED BY <1>1, <2>1, <2>2, ClosedRows DEF SlotsInv, Slots!ScheduleTypeOK
<1>8. CASE UNCHANGED slotsVars
  BY <1>8 DEF slotsVars, SlotsInv, Slots!ScheduleTypeOK, RunsAreRows
<1> QED BY <1>2, <1>3, <1>4, <1>5, <1>6, <1>7, <1>8 DEF Slots!Next

LEMMA InitSlotsInv == ASSUME Slots!Init PROVE SlotsInv
BY DEF Slots!Init, SlotsInv, Slots!ScheduleTypeOK, RunsAreRows

(* What any step may report.                                               *)
LEMMA ReportedGap ==
  ASSUME Slots!ScheduleAssumption, SlotsInv, [Slots!Next]_slotsVars,
         NEW n \in slotsNotices' \ slotsNotices
  PROVE  /\ \A s \in Slots!Slots : slotsNamed[s] \notin Slots!Between(n.from, n.to)
         /\ \A e \in n.tally :
              e.cancelled + e.failed + e.waiting + e.never
                >= Slots!Cardinality(Slots!Between(n.from, n.to))
<1>1. slotsNotices' # slotsNotices
  OBVIOUS
<1>2. PICK read \in BOOLEAN : Slots!Report(read)
  BY <1>1 DEF Slots!Next, Slots!Tick, Slots!Die, Slots!Throw, Slots!StartRun, Slots!Lose, slotsVars
<1> DEFINE from == Slots!Latest(Slots!Earlier(slotsActive))
           to == slotsNamed[slotsActive]
           missed == Slots!Cardinality(Slots!Between(from, to))
           tally == IF read THEN {Slots!Explain(slotsActive, from, missed)} ELSE {}
<1>3. /\ slotsActive # 0 /\ Slots!Earlier(slotsActive) # {}
      /\ slotsNotices' = slotsNotices \cup {[from |-> from, to |-> to, tally |-> tally]}
  BY <1>1, <1>2 DEF Slots!Report
<1>4. n = [from |-> from, to |-> to, tally |-> tally]
  BY <1>3
<1>5. n.from = from /\ n.to = to /\ n.tally = tally
  BY <1>4
<1>6. \A s \in Slots!Slots : slotsNamed[s] \notin Slots!Between(from, to)
  BY <1>3, NothingBetween
<1>7. missed \in Nat
  <2>1. IsFiniteSet(Slots!Slots)
    BY SlotsFinite DEF Slots!ScheduleAssumption
  <2>2. Slots!Between(from, to) \in SUBSET Slots!Slots
    BY DEF Slots!Between
  <2> QED BY <2>1, <2>2, FS_Subset, FS_CardinalityType, SlotsCardinality
<1> HIDE DEF from, to, missed
<1>8. LET e == Slots!Explain(slotsActive, from, missed) IN
      e.cancelled + e.failed + e.waiting + e.never >= missed
  BY <1>7, TallyCovers
<1> QED BY <1>5, <1>6, <1>8 DEF missed

-----------------------------------------------------------------------------
(* The read model.  The invariant says of a half-built model what          *)
(* NoFresherThanItSays says of the published one (BuiltInOrder): a table   *)
(* is read no earlier than the publisher's own time and no earlier than    *)
(* the table before it, and nothing is read that has not been committed.   *)
Building == [next : 0 .. Tables + 1, now : 0 .. MaxCommits, model : [Copy!Table -> 0 .. MaxCommits]]

BuiltInOrder(b) ==
  /\ b.next > 1 => copyMigrated
  /\ b.now <= copyCommits
  /\ \A t \in Copy!Table : b.model[t] <= copyCommits
  /\ \A t \in Copy!Table : t < b.next => b.now <= b.model[t]
  /\ \A t, u \in Copy!Table : t <= u /\ u < b.next => b.model[t] <= b.model[u]

CopyInv ==
  /\ Copy!ReadModelTypeOK /\ Copy!NoFresherThanItSays
  /\ \A p \in Publisher : BuiltInOrder(copyPublisher[p])

(* A publisher that has read nothing. *)
LEMMA StartOrder ==
  ASSUME Copy!ReadModelAssumption, copyCommits \in Nat, NEW next \in {0, 1}, NEW now_ \in 0 .. copyCommits
  PROVE  /\ BuiltInOrder([next |-> next, now |-> now_, model |-> Copy!NoRows])
         /\ copyCommits <= MaxCommits
              => [next |-> next, now |-> now_, model |-> Copy!NoRows] \in Building
<1> DEFINE b == [next |-> next, now |-> now_, model |-> Copy!NoRows]
<1>1. b.next = next /\ b.now = now_ /\ \A t \in Copy!Table : b.model[t] = 0
  BY DEF Copy!NoRows
<1>2. BuiltInOrder(b)
  <2> HIDE DEF b
  <2> QED BY <1>1 DEF BuiltInOrder, Copy!Table
<1>3. Copy!NoRows \in [Copy!Table -> 0 .. 0]
  BY DEF Copy!NoRows
<1> QED BY <1>2, <1>3 DEF Copy!ReadModelAssumption, Building

(* One more SELECT. *)
LEMMA SelectOrder ==
  ASSUME Copy!ReadModelAssumption, copyCommits \in 0 .. MaxCommits, NEW b \in Building, BuiltInOrder(b),
         b.next \in Copy!Table, copyMigrated
  PROVE  LET after == [next |-> b.next + 1, now |-> b.now,
                       model |-> [b.model EXCEPT ![b.next] = copyCommits]] IN
         after \in Building /\ BuiltInOrder(after)
<1> DEFINE read == [b.model EXCEPT ![b.next] = copyCommits]
           after == [next |-> b.next + 1, now |-> b.now, model |-> read]
<1>1. /\ b.next \in 1 .. Tables /\ b.now \in Nat /\ b.model \in [Copy!Table -> 0 .. MaxCommits]
      /\ Tables \in Nat /\ MaxCommits \in Nat /\ copyCommits \in Nat
  BY DEF Building, Copy!Table, Copy!ReadModelAssumption
<1>2. /\ read \in [Copy!Table -> 0 .. MaxCommits] /\ read[b.next] = copyCommits
      /\ \A t \in Copy!Table : t # b.next => read[t] = b.model[t]
  BY <1>1
<1> HIDE DEF read
<1>3. after \in Building
  BY <1>1, <1>2 DEF Building
<1>4. after.next = b.next + 1 /\ after.now = b.now /\ after.model = read
  OBVIOUS
<1>5. \A t \in Copy!Table : t \in Nat /\ b.model[t] \in Nat /\ read[t] \in Nat
  BY <1>1, <1>2 DEF Copy!Table
<1> HIDE DEF after
<1>6. \A t \in Copy!Table : after.model[t] <= copyCommits
  BY <1>1, <1>2, <1>4, <1>5 DEF BuiltInOrder
<1>7. \A t \in Copy!Table : t < after.next => after.now <= after.model[t]
  BY <1>1, <1>2, <1>4, <1>5 DEF BuiltInOrder
<1>8. \A t, u \in Copy!Table : t <= u /\ u < after.next => after.model[t] <= after.model[u]
  BY <1>1, <1>2, <1>4, <1>5 DEF BuiltInOrder
<1>9. BuiltInOrder(after)
  BY <1>4, <1>6, <1>7, <1>8 DEF BuiltInOrder
<1> QED BY <1>3, <1>9 DEF after, read

LEMMA InitCopyInv == Copy!ReadModelAssumption /\ Copy!Init => CopyInv
<1> SUFFICES ASSUME Copy!ReadModelAssumption, Copy!Init PROVE CopyInv
  OBVIOUS
<1>1. \A p \in Publisher : copyPublisher[p] = [next |-> 0, now |-> 0, model |-> Copy!NoRows]
  BY DEF Copy!Init, Copy!Idle
<1>2. copyCommits = 0 /\ MaxCommits \in Nat /\ copyPublished = MaxCommits + 1 /\ copyMigrated = FALSE
  BY DEF Copy!Init, Copy!Never, Copy!ReadModelAssumption
<1>3. \A p \in Publisher : copyPublisher[p] \in Building /\ BuiltInOrder(copyPublisher[p])
  <2>1. /\ BuiltInOrder([next |-> 0, now |-> 0, model |-> Copy!NoRows])
        /\ [next |-> 0, now |-> 0, model |-> Copy!NoRows] \in Building
    BY <1>2, StartOrder
  <2> QED BY <1>1, <2>1
<1>4. copyPublisher \in [Publisher -> Building]
  BY <1>3 DEF Copy!Init
<1>5. copyRows \in [Copy!Table -> 0 .. MaxCommits] /\ \A t \in Copy!Table : copyRows[t] = 0
  BY <1>2 DEF Copy!Init, Copy!NoRows
<1>6. Copy!ReadModelTypeOK
  <2>1. copyCommits \in 0 .. MaxCommits /\ copyPublished \in 0 .. MaxCommits + 1
    BY <1>2, SMT
  <2>2. copyMigrated \in BOOLEAN
    BY <1>2, Zenon
  <2> QED BY <1>4, <1>5, <2>1, <2>2 DEF Copy!ReadModelTypeOK, Building, Copy!Never
<1>7. Copy!NoFresherThanItSays
  BY <1>2, <1>5 DEF Copy!NoFresherThanItSays, Copy!Never
<1> QED BY <1>3, <1>6, <1>7 DEF CopyInv

(* A step of one publisher that changes nothing else. *)
LEMMA OnePublisher ==
  ASSUME CopyInv, UNCHANGED <<copyCommits, copyMigrated, copyPublished, copyRows>>,
         NEW p \in Publisher, NEW b \in Building, BuiltInOrder(b),
         copyPublisher' = [copyPublisher EXCEPT ![p] = b]
  PROVE  CopyInv'
<1>1. copyPublisher \in [Publisher -> Building]
  BY DEF CopyInv, Copy!ReadModelTypeOK, Building
<1>2. copyPublisher' \in [Publisher -> Building]
  BY <1>1
<1>3. Copy!ReadModelTypeOK'
  BY <1>2 DEF CopyInv, Copy!ReadModelTypeOK, Building
<1>4. \A q \in Publisher : BuiltInOrder(copyPublisher'[q])
  BY <1>1 DEF CopyInv
<1>5. \A q \in Publisher : BuiltInOrder(copyPublisher[q])'
  BY <1>4 DEF BuiltInOrder
<1> QED BY <1>3, <1>5 DEF CopyInv, Copy!NoFresherThanItSays

LEMMA NextCopyInv ==
  ASSUME Copy!ReadModelAssumption, CopyInv, [Copy!Next]_copyVars
  PROVE  CopyInv'
<1>1. /\ copyPublisher \in [Publisher -> Building] /\ copyCommits \in 0 .. MaxCommits
      /\ MaxCommits \in Nat /\ Tables \in Nat /\ copyPublished \in 0 .. MaxCommits + 1
      /\ \A p \in Publisher : copyPublisher[p] \in Building /\ BuiltInOrder(copyPublisher[p])
  BY DEF CopyInv, Copy!ReadModelTypeOK, Building, Copy!Never, Copy!ReadModelAssumption
<1>2. CASE Copy!Commit
  <2>1. copyCommits' = copyCommits + 1 /\ copyCommits' \in 0 .. MaxCommits
        /\ UNCHANGED <<copyMigrated, copyPublished, copyRows, copyPublisher>>
    BY <1>1, <1>2 DEF Copy!Commit
  <2>2. ASSUME NEW p \in Publisher PROVE BuiltInOrder(copyPublisher[p])'
    <3>1. copyPublisher[p].now \in Nat /\ \A t \in Copy!Table : copyPublisher[p].model[t] \in Nat
      BY <1>1 DEF Building
    <3> QED BY <1>1, <2>1, <3>1 DEF BuiltInOrder
  <2> QED BY <2>1, <2>2 DEF CopyInv, Copy!ReadModelTypeOK, Copy!NoFresherThanItSays
<1>3. CASE Copy!Migrate
  BY <1>1, <1>3 DEF Copy!Migrate, CopyInv, Copy!ReadModelTypeOK, BuiltInOrder, Copy!NoFresherThanItSays
<1>4. ASSUME NEW p \in Publisher, Copy!Start(p) PROVE CopyInv'
  <2> DEFINE b == [next |-> 1, now |-> copyCommits, model |-> Copy!NoRows]
  <2>1. b \in Building /\ BuiltInOrder(b)
    BY <1>1, StartOrder
  <2>2. copyPublisher' = [copyPublisher EXCEPT ![p] = b]
        /\ UNCHANGED <<copyCommits, copyMigrated, copyPublished, copyRows>>
    BY <1>4 DEF Copy!Start
  <2> HIDE DEF b
  <2> QED BY <2>1, <2>2, OnePublisher
<1>5. ASSUME NEW p \in Publisher, Copy!Refuse(p) \/ Copy!Fail(p) PROVE CopyInv'
  BY <1>1, <1>5, StartOrder, OnePublisher DEF Copy!Refuse, Copy!Fail, Copy!Idle
<1>6. ASSUME NEW p \in Publisher, Copy!Select(p) PROVE CopyInv'
  <2> DEFINE b == copyPublisher[p]
             after == [next |-> b.next + 1, now |-> b.now,
                       model |-> [b.model EXCEPT ![b.next] = copyCommits]]
  <2>1. copyPublisher' = [copyPublisher EXCEPT ![p] = after]
    BY <1>6 DEF Copy!Select
  <2>2. after \in Building /\ BuiltInOrder(after)
    BY <1>1, <1>6, SelectOrder DEF Copy!Select
  <2> QED BY <1>6, <2>1, <2>2, OnePublisher DEF Copy!Select
<1>7. ASSUME NEW p \in Publisher, Copy!Publish(p) PROVE CopyInv'
  <2> DEFINE b == copyPublisher[p]
             idle == [next |-> 0, now |-> 0, model |-> Copy!NoRows]
  <2>1. /\ copyRows' = b.model /\ copyPublished' = b.now /\ UNCHANGED <<copyCommits, copyMigrated>>
        /\ copyPublisher' = [copyPublisher EXCEPT ![p] = idle] /\ b.next = Tables + 1
    BY <1>7 DEF Copy!Publish, Copy!Stamp, Copy!Idle
  <2>2. /\ b.model \in [Copy!Table -> 0 .. MaxCommits] /\ b.now \in 0 .. MaxCommits
        /\ b \in Building /\ BuiltInOrder(b)
    BY <1>1 DEF Building
  <2>3. idle \in Building /\ BuiltInOrder(idle)
    BY <1>1, StartOrder
  <2>4. Copy!ReadModelTypeOK'
    BY <1>1, <2>1, <2>2, <2>3 DEF CopyInv, Copy!ReadModelTypeOK, Copy!Never, Building
  <2>5. \A q \in Publisher : BuiltInOrder(copyPublisher[q])'
    BY <1>1, <2>1, <2>3 DEF BuiltInOrder
  <2>6. Copy!NoFresherThanItSays'
    <3>1. Tables + 1 > 1 => copyMigrated
      BY <2>1, <2>2 DEF BuiltInOrder
    <3>2. \A t \in Copy!Table : t < b.next
      BY <1>1, <2>1 DEF Copy!Table
    <3> HIDE DEF b
    <3> QED BY <1>1, <2>1, <2>2, <3>1, <3>2
            DEF Copy!NoFresherThanItSays, BuiltInOrder, Copy!ReadModelAssumption
  <2> QED BY <2>4, <2>5, <2>6 DEF CopyInv
<1>8. CASE UNCHANGED copyVars
  BY <1>8 DEF copyVars, CopyInv, Copy!ReadModelTypeOK, BuiltInOrder, Copy!NoFresherThanItSays
<1> QED BY <1>2, <1>3, <1>4, <1>5, <1>6, <1>7, <1>8 DEF Copy!Next

-----------------------------------------------------------------------------
(* The parts in the specification of all of them.                          *)
LEMMA StagesSeeds ==
  /\ StagesInit => SeedsInv
  /\ SeedsInv /\ [StagesNext]_all => SeedsInv'
<1>1. StagesInit => SeedsInv
  BY StagesAssumption, InitSeedsInv DEF StagesInit
<1>2. [StagesNext]_all => [Seeds!Next]_seedsVars
  BY DEF StagesNext, all, FollowupsStep, AlertsStep, HttpStep, SlotsStep, SeedsStep, SchemaStep,
         CopyStep
<1> QED BY <1>1, <1>2, StagesAssumption, NextSeedsInv

LEMMA StagesSchema ==
  /\ StagesInit => SchemaInv
  /\ SchemaInv /\ [StagesNext]_all => SchemaInv'
<1>1. StagesInit => SchemaInv
  BY StagesAssumption, InitSchemaInv DEF StagesInit
<1>2. [StagesNext]_all => [Schema!Next]_schemaVars
  BY DEF StagesNext, all, FollowupsStep, AlertsStep, HttpStep, SlotsStep, SeedsStep, SchemaStep,
         CopyStep
<1> QED BY <1>1, <1>2, StagesAssumption, NextSchemaInv

LEMMA StagesHttp ==
  /\ StagesInit => HttpInv
  /\ HttpInv /\ [StagesNext]_all => HttpInv'
<1>1. StagesInit => HttpInv
  BY StagesAssumption, InitHttpInv DEF StagesInit
<1>2. [StagesNext]_all => [Http!Next]_httpVars
  BY DEF StagesNext, all, FollowupsStep, AlertsStep, HttpStep, SlotsStep, SeedsStep, SchemaStep,
         CopyStep
<1> QED BY <1>1, <1>2, StagesAssumption, NextHttpInv

LEMMA StagesSlots ==
  /\ StagesInit => SlotsInv
  /\ SlotsInv /\ [StagesNext]_all => SlotsInv'
<1>1. StagesInit => SlotsInv
  BY StagesAssumption, InitSlotsInv DEF StagesInit
<1>2. [StagesNext]_all => [Slots!Next]_slotsVars
  BY DEF StagesNext, all, FollowupsStep, AlertsStep, HttpStep, SlotsStep, SeedsStep, SchemaStep,
         CopyStep
<1> QED BY <1>1, <1>2, StagesAssumption, NextSlotsInv

LEMMA StagesCopy ==
  /\ StagesInit => CopyInv
  /\ CopyInv /\ [StagesNext]_all => CopyInv'
<1>1. StagesInit => CopyInv
  BY StagesAssumption, InitCopyInv DEF StagesInit
<1>2. [StagesNext]_all => [Copy!Next]_copyVars
  BY DEF StagesNext, all, FollowupsStep, AlertsStep, HttpStep, SlotsStep, SeedsStep, SchemaStep,
         CopyStep
<1> QED BY <1>1, <1>2, StagesAssumption, NextCopyInv

LEMMA StagesFollowups ==
  /\ StagesInit => TypedInv /\ RowShape /\ PlanType
  /\ TypedInv /\ RowShape /\ PlanType /\ [StagesNext]_all => TypedInv' /\ RowShape' /\ PlanType'
<1>1. StagesInit => TypedInv /\ RowShape /\ PlanType
  BY InitTyped, InitFollowupsInv DEF StagesInit, FollowupsInv
<1>2. [StagesNext]_all => [Next]_vars
  BY DEF StagesNext, all, FollowupsStep, AlertsStep, HttpStep, SlotsStep, SeedsStep, SchemaStep,
         CopyStep
<1> QED BY <1>1, <1>2, NextTyped, NextRowShape, NextPlanType

-----------------------------------------------------------------------------
(* The theorems.                                                           *)
(* merge-groups.ts 4-16, seed-courses.ts 238-254: what the owner reviewed  *)
(* is what the files and the database say, one folder a module.            *)
THEOREM ReviewIsKept == StagesSpec => []FiledAsReviewed
<1>1. SeedsInv => FiledAsReviewed
  BY DEF SeedsInv, FiledAsReviewed
<1> QED BY <1>1, StagesSeeds, PTL DEF StagesSpec

(* migrate.ts 3-7, 13-17: no migration is applied twice, and the table     *)
(* says which contents were.                                               *)
THEOREM MigrationsAppliedOnce == StagesSpec => []AppliedOnce
<1>1. SchemaInv => AppliedOnce
  BY DEF SchemaInv, AppliedOnce
<1> QED BY <1>1, StagesSchema, PTL DEF StagesSpec

(* http.ts:117-119: a listing answered "ok" is the whole listing.          *)
THEOREM ListingsAreWhole == StagesSpec => []WholeOrNothing
<1>1. HttpInv => WholeOrNothing
  BY DEF HttpInv, WholeOrNothing
<1> QED BY <1>1, StagesHttp, PTL DEF StagesSpec

(* http.ts:88-92: requests end with their part's time and the run's, and   *)
(* the token's, which has no deadline, by the number of its attempts.      *)
THEOREM RequestsEndInTime == StagesSpec => []KeepsToItsDeadline
<1>1. HttpInv => KeepsToItsDeadline
  BY DEF HttpInv, KeepsToItsDeadline
<1> QED BY <1>1, StagesHttp, PTL DEF StagesSpec

(* run.ts:1145-1198: no run had started in a slot of a reported gap, and   *)
(* the explanation accounts for every slot of it.                          *)
THEOREM GapsAreReal == StagesSpec => GapIsReal
<1> DEFINE Real == \A n \in slotsNotices' \ slotsNotices :
                     /\ \A s \in Slots!Slots : slotsNamed[s] \notin Slots!Between(n.from, n.to)
                     /\ \A e \in n.tally :
                          e.cancelled + e.failed + e.waiting + e.never
                            >= Slots!Cardinality(Slots!Between(n.from, n.to))
<1>1. SlotsInv /\ [StagesNext]_all => [Real]_(Slots!vars)
  <2> SUFFICES ASSUME SlotsInv, [StagesNext]_all PROVE [Real]_(Slots!vars)
    OBVIOUS
  <2>1. [Slots!Next]_slotsVars
    BY DEF StagesNext, all, FollowupsStep, AlertsStep, HttpStep, SlotsStep, SeedsStep, SchemaStep,
           CopyStep
  <2>2. Real
    BY <2>1, StagesAssumption, ReportedGap
  <2> QED BY <2>2
<1> QED BY <1>1, StagesSlots, PTL DEF StagesSpec, GapIsReal, Slots!GapIsReal

(* publish.ts 149-189: whatever had been committed at published_at is in   *)
(* every table of the copy.                                                *)
THEOREM DashboardIsHonest == StagesSpec => []NoFresherThanItSays
<1>1. CopyInv => NoFresherThanItSays
  BY DEF CopyInv, NoFresherThanItSays
<1> QED BY <1>1, StagesCopy, PTL DEF StagesSpec

(* Each part's variables keep their types.                                 *)
THEOREM StagesAreTyped == StagesSpec => []StagesTypeOK
<1> DEFINE AllInv == /\ TypedInv /\ RowShape /\ PlanType
                     /\ AlertsInv /\ SeedsInv /\ SchemaInv /\ HttpInv /\ SlotsInv /\ CopyInv
<1>1. StagesInit => AllInv
  BY StagesFollowups, StagesAlerts, StagesSeeds, StagesSchema, StagesHttp, StagesSlots, StagesCopy
<1>2. AllInv /\ [StagesNext]_all => AllInv'
  BY StagesFollowups, StagesAlerts, StagesSeeds, StagesSchema, StagesHttp, StagesSlots, StagesCopy
<1>3. AllInv => StagesTypeOK
  BY SeedsTyped, SchemaTyped DEF TypedInv, AlertsInv, HttpInv, SlotsInv, CopyInv, StagesTypeOK
<1> QED BY <1>1, <1>2, <1>3, PTL DEF StagesSpec

=============================================================================
