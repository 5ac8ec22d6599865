----------------------------- MODULE RootGuard -----------------------------
(***************************************************************************)
(* The confinement guard in front of every request to OneDrive             *)
(* (src/src/graph/guard.ts).  The drive holds the owner's own files beside *)
(* the app's root folder; the guard lets through only what it can tell, by *)
(* the request and by what Graph has answered, to stay inside the root and *)
(* to replace nothing.                                                     *)
(*                                                                         *)
(* The code in front of the guard is not trusted here: it asks for any     *)
(* request, in any order, with any id or path.  Answers may be lost.  The  *)
(* root exists, and while a process lives the owner moves none of what it  *)
(* has learned.  A segment's case and encoding are not modelled: it is     *)
(* safe or not.                                                            *)
(***************************************************************************)
EXTENDS Naturals, Sequences, FiniteSets

CONSTANTS
  Id,           \* item ids; some are of items that exist at the start
  Owners,       \* items at the start: id -> [in, path, folder], in: under the root
  Paths,        \* the paths under the root a request may hold: <term>, <module>,
                \* a folder, a name
  Safe,         \* names safeSegment leaves as they are
  Category      \* names a move may go to: the categories and the rules' targets

Unsorted == "_unsorted"
GuardAssumption ==
  /\ \A p \in Paths : p \in Seq({p[i] : i \in DOMAIN p}) /\ Len(p) <= 4
  /\ Category \subseteq Safe \ {Unsorted}
  /\ DOMAIN Owners \subseteq Id
  /\ \A i \in DOMAIN Owners :
       Owners[i] = [in |-> Owners[i].in, path |-> Owners[i].path, folder |-> Owners[i].folder]

VARIABLES
  items,      \* the drive: id -> [in, path, folder]
  folders,    \* rootedFolderIds: id -> path
  movable,    \* movableFiles: id -> path
  absent      \* confirmedAbsent: paths

vars == <<items, folders, movable, absent>>

Nothing == [id \in {} |-> <<>>]
Init == items = Owners /\ folders = Nothing /\ movable = Nothing /\ absent = {}

(* A map learns, and forgets. *)
With(map, key, value) == [k \in DOMAIN map \cup {key} |-> IF k = key THEN value ELSE map[k]]
Without(map, key) == [k \in DOMAIN map \ {key} |-> map[k]]

SafePath(p) == \A i \in DOMAIN p : p[i] \in Safe
Parent(p) == SubSeq(p, 1, Len(p) - 1)

At(p) == {i \in DOMAIN items : items[i].in /\ items[i].path = p}
NewAt(p) == {i \in Id \ DOMAIN items : At(p) = {}}
Heard == {TRUE, FALSE}   \* whether an answer arrives

-----------------------------------------------------------------------------
(* GET <root>:/<path>: what is there is learned, and that nothing is.      *)
Learned(p, i) ==
  IF items[i].folder THEN folders' = With(folders, i, p) /\ UNCHANGED movable
  ELSE /\ UNCHANGED folders
       /\ movable' = IF Len(p) = 4 /\ p[3] = Unsorted THEN With(movable, i, p) ELSE movable

Get(p) ==
  /\ SafePath(p)
  /\ \/ \E i \in At(p) : Learned(p, i) /\ UNCHANGED absent
     \/ At(p) = {} /\ absent' = (IF p = <<>> THEN absent ELSE absent \cup {p})
        /\ UNCHANGED <<folders, movable>>
  /\ UNCHANGED items

(* POST items/{id}/children, conflictBehavior = fail: a folder, under a    *)
(* learned one.  Graph makes it below where that folder is now.            *)
CreateFolder(parent, name, heard) ==
  /\ parent \in DOMAIN folders
  /\ Append(folders[parent], name) \in Paths
  /\ absent' = absent \ {Append(folders[parent], name)}
  /\ LET where == Append(items[parent].path, name) IN
     IF NewAt(where) = {} THEN UNCHANGED <<items, folders>>
     ELSE LET i == CHOOSE j \in NewAt(where) : TRUE IN
          /\ items' = With(items, i, [in |-> items[parent].in, path |-> where, folder |-> TRUE])
          /\ folders' = IF heard THEN With(folders, i, Append(folders[parent], name)) ELSE folders
  /\ UNCHANGED movable

(* POST <root>:/<path>:/createUploadSession, conflictBehavior = fail, with *)
(* the item's name that of the path; then the bytes, to that session's URL *)
(* and without the token.                                                  *)
Upload(p) ==
  /\ p # <<>> /\ SafePath(p)
  /\ absent' = absent \ {p}
  /\ IF NewAt(p) = {} THEN UNCHANGED items
     ELSE \E i \in NewAt(p) : items' = With(items, i, [in |-> TRUE, path |-> p, folder |-> FALSE])
  /\ UNCHANGED <<folders, movable>>

(* Mutant: any known folder will do as the destination. *)
MayMoveAnywhere(i, to) ==
  /\ i \in DOMAIN movable /\ to \in DOMAIN folders
  /\ Append(folders[to], movable[i][4]) \in absent
(* checkMove: a file learned in <term>/<module>/_unsorted, to a category   *)
(* of the same module, under a name Graph said is free.                    *)
MayMove(i, to) ==
  /\ i \in DOMAIN movable /\ to \in DOMAIN folders
  /\ Len(folders[to]) = 3 /\ Parent(folders[to]) = SubSeq(movable[i], 1, 2)
  /\ folders[to][3] \in Category
  /\ Append(folders[to], movable[i][4]) \in absent

(* PATCH items/{id} {parentReference: {id}}.  One move for each learning,  *)
(* whatever becomes of it.  Graph refuses a name that is taken.            *)
Move(i, to) ==
  /\ MayMove(i, to)
  /\ movable' = Without(movable, i)
  /\ absent' = absent \ {Append(folders[to], movable[i][4])}
  /\ LET where == Append(items[to].path, items[i].path[Len(items[i].path)]) IN
     \/ UNCHANGED items
     \/ At(where) = {} /\ items' = [items EXCEPT ![i] = [@ EXCEPT !.path = where]]
  /\ UNCHANGED folders

(* PUT, DELETE, any other PATCH, any other id, any other path: refused.    *)
Next ==
  \/ \E p \in Paths : Get(p) \/ Upload(p)
  \/ \E i \in Id : \/ \E name \in Safe, heard \in Heard : CreateFolder(i, name, heard)
                   \/ \E to \in Id : Move(i, to)
Spec == Init /\ [][Next]_vars

-----------------------------------------------------------------------------
GuardTypeOK ==
  /\ DOMAIN items \subseteq Id
  /\ \A i \in DOMAIN items :
       items[i].in => items[i].path \in Paths \cup {Owners[j].path : j \in DOMAIN Owners}
  /\ DOMAIN folders \subseteq Id /\ \A i \in DOMAIN folders : folders[i] \in Paths
  /\ DOMAIN movable \subseteq Id /\ \A i \in DOMAIN movable : movable[i] \in Paths
  /\ absent \subseteq Paths

(* Whatever is asked, in whatever order: what is outside the root stays as *)
(* it is and nothing is added there; nothing inside is removed; and only a *)
(* file in an _unsorted folder moves, to a category of its own module,     *)
(* with its name and onto nothing.  guard.ts:4-42, "a structural           *)
(* guarantee, not a convention".                                           *)
Confined ==
  [][/\ DOMAIN items \subseteq DOMAIN items'
     /\ \A i \in DOMAIN items' \ DOMAIN items : items'[i].in
     /\ \A i \in DOMAIN items :
          items'[i] # items[i] =>
            LET from == items[i].path  to == items'[i].path IN
            /\ items[i].in /\ items'[i].in /\ ~items[i].folder
            /\ from[3] = Unsorted /\ to[3] \in Category
            /\ <<to[1], to[2], to[4]>> = <<from[1], from[2], from[4]>>
            /\ At(to) = {}]_vars

=============================================================================
