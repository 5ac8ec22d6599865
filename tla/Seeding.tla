------------------------------- MODULE Seeding -------------------------------
(***************************************************************************)
(* From what Canvas lists to what a sync watches: discovery proposes       *)
(* (discover/run.ts, group.ts, module-code.ts, seed.ts), the owner reviews *)
(* courses.seed.json, seed-groups merges a later discovery's groups into   *)
(* it (discover/merge-groups.ts, scripts/seed-groups.ts), and seed-courses *)
(* loads it into the contexts table (cli/seed-courses.ts).                 *)
(*                                                                         *)
(* An entry is its module code (NoCode for none) and whether it is         *)
(* enabled; Absent stands for no entry.  Which course is current, and      *)
(* which code its name suggests, are constants; the empirical questions    *)
(* and the coverage probes are left out.  Dry runs change nothing and are  *)
(* left out.                                                               *)
(***************************************************************************)
EXTENDS Naturals

CONSTANTS Courses, Groups,
          ParentOf(_),     \* the course Canvas states for a group
          Codes,           \* module codes
          Suggested(_),    \* extractModuleCodes: a code, or NoCode
          Current(_)       \* proposeEnabled: the course is of the current term

Contexts == Courses \cup Groups
NoCode == "no code"
Absent == [code |-> "absent", enabled |-> FALSE]
Entry == [code : Codes \cup {NoCode}, enabled : BOOLEAN]
NoFile == [c \in Contexts |-> Absent]
Present(file) == {c \in Contexts : file[c] # Absent}

SeedingAssumption ==
  /\ Courses \cap Groups = {} /\ Codes \cap {NoCode, Absent.code} = {}
  /\ \A g \in Groups : ParentOf(g) \in Courses
  /\ \A c \in Courses : Suggested(c) \in Codes \cup {NoCode} /\ Current(c) \in BOOLEAN

VARIABLES active,    \* the courses Canvas lists
          member,    \* the groups Canvas lists; a group may be concluded
          concluded,
          seed,      \* courses.seed.json, as reviewed so far
          fresh,     \* var/seed-new.json, a later discovery
          decided,   \* what the owner last said of a course, in this seed file
          contexts,  \* the contexts table: entries
          loaded     \* the contexts the last seed-courses loaded

vars == <<active, member, concluded, seed, fresh, decided, contexts, loaded>>
files == <<seed, fresh, decided>>
canvas == <<active, member, concluded>>

-----------------------------------------------------------------------------
(***************************************************************************)
(* Canvas changes: a course ends, a group is joined, left or concluded.    *)
(***************************************************************************)
Canvas ==
  /\ \/ \E c \in active : active' = active \ {c} /\ UNCHANGED <<member, concluded>>
     \/ \E g \in Groups \ member : member' = member \cup {g} /\ UNCHANGED <<active, concluded>>
     \/ \E g \in member : member' = member \ {g} /\ UNCHANGED <<active, concluded>>
     \/ \E g \in Groups \ concluded : concluded' = concluded \cup {g} /\ UNCHANGED <<active, member>>
  /\ UNCHANGED <<files, contexts, loaded>>

-----------------------------------------------------------------------------
(***************************************************************************)
(* discover: the courses Canvas lists, and the groups if they could be     *)
(* listed too (their failure is only a note in the file).                  *)
(***************************************************************************)
Proposed(c) == [code |-> Suggested(c), enabled |-> Current(c)]

ProposeGroup(g) ==
  LET parent == ParentOf(g) IN
  IF parent \notin active THEN [code |-> NoCode, enabled |-> FALSE]
  ELSE [code |-> Suggested(parent),
        enabled |-> g \notin concluded /\ Suggested(parent) # NoCode /\ Current(parent)]

Discovered(groupsListed) ==
  [c \in Contexts |->
     IF c \in active THEN Proposed(c)
     ELSE IF c \in member /\ groupsListed THEN ProposeGroup(c) ELSE Absent]

\* A discovery takes the place of what is there; only where that was asked
\* for does the owner give up what he had decided.
Rewrite(overwrite, groupsListed) ==
  /\ seed' = Discovered(groupsListed)
  /\ decided' = IF overwrite THEN NoFile ELSE decided
  /\ UNCHANGED <<canvas, fresh, contexts, loaded>>

\* Mutant: the file is written whether or not it is there.
DiscoverClobbering(overwrite, groupsListed) == Rewrite(overwrite, groupsListed)

\* npm run discover: never over a file that exists, unless told to.
Discover(overwrite, groupsListed) ==
  /\ overwrite \/ seed = NoFile
  /\ Rewrite(overwrite, groupsListed)

\* npm run discover -- --out var/seed-new.json
DiscoverAside(groupsListed) ==
  /\ fresh' = Discovered(groupsListed)
  /\ UNCHANGED <<canvas, seed, decided, contexts, loaded>>

\* The owner reviews an entry.
Review(c, entry) ==
  /\ c \in Present(seed)
  /\ seed' = [seed EXCEPT ![c] = entry]
  /\ decided' = IF c \in Courses THEN [decided EXCEPT ![c] = entry] ELSE decided
  /\ UNCHANGED <<canvas, fresh, contexts, loaded>>

-----------------------------------------------------------------------------
(***************************************************************************)
(* validate, for every entry of a file.                                    *)
(***************************************************************************)
\* Mutant: a group's code is not compared with its parent's.
ValidAlone(file) ==
  \A c \in Present(file) : file[c].enabled => file[c].code # NoCode
Valid(file) ==
  /\ \A c \in Present(file) : file[c].enabled => file[c].code # NoCode
  /\ \A g \in Present(file) \cap Groups :
       file[g].enabled /\ ParentOf(g) \in Present(file)
         => file[g].code = file[ParentOf(g)].code

(***************************************************************************)
(* mergeGroups: an enabled group the discovery does not list is disabled;  *)
(* a new one is added as its reviewed parent has it, or disabled without.  *)
(***************************************************************************)
Left(g) == seed[g].enabled /\ fresh[g] = Absent

Added(g) ==
  LET parent == ParentOf(g) IN
  IF parent \in Present(seed) THEN seed[parent]
  ELSE [fresh[g] EXCEPT !.enabled = FALSE]

Merged ==
  [c \in Contexts |->
     IF c \in Present(seed) /\ c \in Groups /\ Left(c) THEN [seed[c] EXCEPT !.enabled = FALSE]
     ELSE IF c \in Groups \ Present(seed) /\ fresh[c] # Absent THEN Added(c)
     ELSE seed[c]]

\* npm run seed-groups -- --write
SeedGroups ==
  /\ Present(seed) # {} /\ Present(fresh) # {}
  /\ Merged # seed /\ Valid(Merged)
  /\ seed' = Merged
  /\ UNCHANGED <<canvas, fresh, decided, contexts, loaded>>

\* npm run seed-courses: one transaction; what is not in the file stays.
SeedCourses ==
  /\ Present(seed) # {} /\ Valid(seed)
  /\ contexts' = [c \in Contexts |-> IF c \in Present(seed) THEN seed[c] ELSE contexts[c]]
  /\ loaded' = Present(seed)
  /\ UNCHANGED <<canvas, files>>

-----------------------------------------------------------------------------
Init ==
  /\ active = Courses /\ member \in SUBSET Groups /\ concluded = {}
  /\ seed = NoFile /\ fresh = NoFile /\ decided = NoFile
  /\ contexts = NoFile /\ loaded = {}

Next ==
  \/ Canvas
  \/ \E overwrite, listed \in BOOLEAN : Discover(overwrite, listed)
  \/ \E listed \in BOOLEAN : DiscoverAside(listed)
  \/ \E c \in Contexts, entry \in Entry : Review(c, entry)
  \/ SeedGroups \/ SeedCourses

Spec == Init /\ [][Next]_vars

-----------------------------------------------------------------------------
SeedingTypeOK ==
  /\ active \subseteq Courses /\ member \subseteq Groups /\ concluded \subseteq Groups
  /\ \A file \in {seed, fresh, decided, contexts} :
       \A c \in Contexts : file[c] = Absent \/ file[c] \in Entry
  /\ loaded \subseteq Contexts

(***************************************************************************)
(* A module is filed in one folder, the one the owner chose: no later      *)
(* discovery that was not told to overwrite, and no merge, changes what    *)
(* was said of a course (merge-groups.ts 4-16, seed.ts:104-110), every     *)
(* watched context has a folder name, and a watched group loaded with its  *)
(* parent has the parent's (seed-courses.ts:226-239, D-37).                *)
(***************************************************************************)
FiledAsReviewed ==
  /\ \A c \in Present(decided) : seed[c] = decided[c]
  /\ \A c \in Present(contexts) : contexts[c].enabled => contexts[c].code # NoCode
  /\ \A g \in loaded \cap Groups :
       contexts[g].enabled /\ ParentOf(g) \in loaded
         => contexts[g].code = contexts[ParentOf(g)].code
=============================================================================
