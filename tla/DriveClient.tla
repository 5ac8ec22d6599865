---------------------------- MODULE DriveClient ----------------------------
(***************************************************************************)
(* Archiving one file by way of the OneDrive client                        *)
(* (src/src/graph/drive.ts): the folders on its path are found or made,    *)
(* then its bytes go up in fragments through an upload session that must   *)
(* fail on a name clash.                                                   *)
(*                                                                         *)
(* Nothing bounds what may go wrong: any answer may be lost after the      *)
(* service acted, any request may be refused for now, a session may vanish *)
(* at any time, and another process of this program, or the owner, may     *)
(* make the same folder or take the same name between two requests.        *)
(***************************************************************************)
EXTENDS Naturals, FiniteSets

CONSTANTS
  Depth,        \* folders on the file's path
  Sizes,        \* sizes a file may have, in units
  Chunk,        \* chunkBytes: the longest fragment, in units
  MaxAttempts,  \* tries of a request (a move, a PATCH, has one)
  MaxFailures,  \* failures in a row of the fragments: 4
  MaxSessions   \* upload sessions of one call: 2

DriveClientAssumption ==
  /\ Depth \in Nat \ {0} /\ Sizes \subseteq Nat /\ Chunk \in Nat \ {0}
  /\ MaxAttempts \in Nat \ {0} /\ MaxFailures \in Nat /\ MaxSessions \in Nat \ {0}

VARIABLES
  folders,   \* the service: at each depth of the path "none", "folder" or "file"
  items,     \* whose files have the name: copies made by this call, and by others
  session,   \* the upload session: "none", "open" or "gone"
  got,       \* the units the open session holds
  pc,        \* the client's next request, or how the call ended
  depth,     \* ensureFolders: the depth it is at
  attempt,   \* request: this request's attempts so far
  refreshed, \* request: the access token was renewed for it
  sessions,  \* upload: sessions tried
  offset,    \* sendFragments: where the next fragment starts
  failures,  \* sendFragments: failures since the last fragment taken
  size       \* the file's

serviceVars == <<folders, items, session, got>>
requestVars == <<attempt, refreshed>>
uploadVars == <<sessions, offset, failures>>
vars == <<serviceVars, pc, depth, requestVars, uploadVars, size>>

Least(a, b) == IF a < b THEN a ELSE b

Init ==
  /\ folders \in [1 .. Depth -> {"none", "folder", "file"}]
  /\ items = [mine |-> 0, theirs |-> 0] /\ session = "none" /\ got = 0
  /\ pc = "find" /\ depth = 1 /\ attempt = 1 /\ refreshed = FALSE
  /\ sessions = 1 /\ offset = 0 /\ failures = 0 /\ size \in Sizes

-----------------------------------------------------------------------------
(* request: go on to the next request, or have the call end.               *)
NextRequest(step) == pc' = step /\ attempt' = 1 /\ refreshed' = FALSE
Throw(code) == pc' = code /\ UNCHANGED requestVars

(* A refused token is renewed once; what may be only for now is tried      *)
(* again; anything else is thrown.                                         *)
Unanswered ==
  /\ \/ ~refreshed /\ refreshed' = TRUE /\ attempt' = attempt + 1 /\ UNCHANGED pc
     \/ attempt < MaxAttempts /\ attempt' = attempt + 1 /\ UNCHANGED <<pc, refreshed>>
     \/ Throw("failed")
  /\ UNCHANGED <<depth, uploadVars, size>>

Requesting(step) == pc = step
Asking == \E step \in {"find", "make", "reread", "create"} : Requesting(step)

(* A request the service never got, or refused.                            *)
NotDone == Asking /\ Unanswered /\ UNCHANGED serviceVars

(* Its answer was lost after the service did it: the next try meets what   *)
(* this one made.  A session nobody knows of is of no consequence.         *)
DoneUnanswered ==
  /\ Requesting("make") /\ folders[depth] = "none" /\ Unanswered
  /\ folders' = [folders EXCEPT ![depth] = "folder"]
  /\ UNCHANGED <<items, session, got>>

-----------------------------------------------------------------------------
(* ensureFolders.                                                          *)
Reached ==
  IF depth < Depth THEN depth' = depth + 1 /\ NextRequest("find")
  ELSE depth' = depth /\ NextRequest("create")
NotAFolder == Throw("conflict") /\ UNCHANGED depth

Find ==
  /\ Requesting("find")
  /\ CASE folders[depth] = "folder" -> Reached
       [] folders[depth] = "file" -> NotAFolder
       [] OTHER -> NextRequest("make") /\ UNCHANGED depth
  /\ UNCHANGED <<serviceVars, uploadVars, size>>

(* conflictBehavior = fail: what is there is read again. *)
Make ==
  /\ Requesting("make")
  /\ IF folders[depth] = "none"
     THEN folders' = [folders EXCEPT ![depth] = "folder"] /\ Reached
     ELSE folders' = folders /\ NextRequest("reread") /\ UNCHANGED depth
  /\ UNCHANGED <<items, session, got, uploadVars, size>>

Reread ==
  /\ Requesting("reread")
  /\ IF folders[depth] = "folder" THEN Reached ELSE NotAFolder
  /\ UNCHANGED <<serviceVars, uploadVars, size>>

-----------------------------------------------------------------------------
(* upload and sendFragments.                                               *)

(* Mutant: with conflictBehavior = rename every upload finds a free name. *)
NameTakenNever == FALSE
NameTaken == items.mine + items.theirs > 0

Create ==
  /\ Requesting("create")
  /\ \/ NameTaken /\ Throw("conflict") /\ UNCHANGED <<session, got, offset, failures>>
     \/ session' = "open" /\ got' = 0 /\ offset' = 0 /\ failures' = 0 /\ NextRequest("send")
  /\ UNCHANGED <<folders, items, depth, sessions, size>>

(* 'restart': the session is lost, and there is one more. *)
Restart ==
  /\ IF sessions < MaxSessions THEN sessions' = sessions + 1 /\ NextRequest("create")
     ELSE sessions' = sessions /\ Throw("failed")
  /\ UNCHANGED <<offset, failures>>

End == Least(offset + Chunk, size)

(* The service has all up to `to`: with the last unit the item is made,    *)
(* unless its name is taken by then.                                       *)
Take(to) ==
  /\ got' = to
  /\ IF to = size /\ ~NameTaken
     THEN items' = [items EXCEPT !.mine = @ + 1] /\ session' = "gone"
     ELSE UNCHANGED <<items, session>>

FragmentFits == session = "open" /\ offset = got /\ End > offset

(* 202 and 201, and the 409 of a name that was taken meanwhile. *)
FragmentTaken ==
  /\ Requesting("send") /\ FragmentFits /\ Take(End)
  /\ IF End < size THEN offset' = End /\ failures' = 0 /\ UNCHANGED <<pc, requestVars>>
     ELSE Throw(IF NameTaken THEN "conflict" ELSE "done") /\ UNCHANGED <<offset, failures>>
  /\ UNCHANGED <<folders, depth, sessions, size>>

(* Mutant: a failure after a resume is counted from the start again. *)
FailedForgetting ==
  /\ failures' = 1 /\ pc' = "resume"
  /\ UNCHANGED <<requestVars, sessions, offset>>
(* Five failures in a row end the call. *)
Failed ==
  /\ failures' = failures + 1
  /\ IF failures + 1 > MaxFailures THEN Throw("failed") ELSE pc' = "resume" /\ UNCHANGED requestVars
  /\ UNCHANGED <<sessions, offset>>

(* The answer is lost; the service may have part of it, all of it or none. *)
FragmentLost ==
  /\ Requesting("send") /\ Failed
  /\ \/ UNCHANGED <<items, session, got>>
     \/ FragmentFits /\ \E to \in offset + 1 .. End : Take(to)
  /\ UNCHANGED <<folders, depth, size>>

(* 416 at a wrong offset; 404 for a lost session; 400 for an empty range,  *)
(* which is what an empty file sends; 409 for a name taken; 429 and 5xx.   *)
FragmentRefused ==
  /\ Requesting("send")
  /\ \/ session = "gone" /\ Restart
     \/ session = "open" /\ End = offset /\ Throw("failed") /\ UNCHANGED uploadVars
     \/ session = "open" /\ NameTaken /\ Throw("conflict") /\ UNCHANGED uploadVars
     \/ session = "open" /\ Failed
  /\ UNCHANGED <<serviceVars, depth, size>>

(* nextExpected: a lost answer abandons the session, and one that names no *)
(* range (an error's, say) means the start.                                *)
Resume ==
  /\ Requesting("resume")
  /\ \/ Restart
     \/ /\ session = "open" /\ offset' \in {got, 0} /\ pc' = "send"
        /\ UNCHANGED <<requestVars, sessions, failures>>
  /\ UNCHANGED <<serviceVars, depth, size>>

Client == \/ NotDone \/ DoneUnanswered \/ Find \/ Make \/ Reread \/ Create
          \/ FragmentTaken \/ FragmentLost \/ FragmentRefused \/ Resume

-----------------------------------------------------------------------------
(* The others.                                                             *)
SessionExpires ==
  /\ session = "open" /\ session' = "gone"
  /\ UNCHANGED <<folders, items, got, pc, depth, requestVars, uploadVars, size>>
FolderMade(d) ==
  /\ folders[d] = "none" /\ folders' = [folders EXCEPT ![d] = "folder"]
  /\ UNCHANGED <<items, session, got, pc, depth, requestVars, uploadVars, size>>
NameGoes ==
  /\ items.theirs = 0 /\ items.mine = 0 /\ items' = [items EXCEPT !.theirs = 1]
  /\ UNCHANGED <<folders, session, got, pc, depth, requestVars, uploadVars, size>>

Next == Client \/ SessionExpires \/ NameGoes \/ \E d \in 1 .. Depth : FolderMade(d)

(* Every request is answered or times out (AbortSignal.timeout). *)
Fairness == WF_vars(Client)
FairSpec == Init /\ [][Next]_vars /\ Fairness

-----------------------------------------------------------------------------
Ended == {"done", "conflict", "failed"}

ClientTypeOK ==
  /\ folders \in [1 .. Depth -> {"none", "folder", "file"}]
  /\ items \in [mine : Nat, theirs : 0 .. 1] /\ session \in {"none", "open", "gone"}
  /\ pc \in Ended \cup {"find", "make", "reread", "create", "send", "resume"}
  /\ depth \in Nat /\ attempt \in 1 .. MaxAttempts + 1 /\ refreshed \in BOOLEAN
  /\ sessions \in 1 .. MaxSessions /\ failures \in 0 .. MaxFailures + 1
  /\ size \in Sizes /\ got \in 0 .. size /\ offset \in 0 .. size

(* One call makes at most one item, though it may start a second session   *)
(* after the first made it and lost the answer; it reports success only    *)
(* for the item it made; and a conflict means that somebody, possibly this *)
(* very call, has the name, or a file stands where a folder should.        *)
(* drive.ts:287-312.                                                       *)
ReportsWhatItMade ==
  /\ items.mine <= 1
  /\ pc = "done" => items.mine = 1
  /\ pc = "conflict" => NameTaken \/ \E d \in 1 .. Depth : folders[d] = "file"

(* Whatever keeps going wrong, the call comes to an end: attempts,         *)
(* failures in a row and sessions are each counted, and only a fragment    *)
(* that was taken resets a count.  drive.ts:110-150, 296-364.              *)
CallEnds == <>(pc \in Ended)

=============================================================================
