-------------------------------- MODULE Outbox --------------------------------
(***************************************************************************)
(* What the notification queue promises (src/src/notify/queue.ts:4-12):    *)
(* at-least-once delivery.  A row is queued once and for good; while it is *)
(* queued the other side may accept it any number of times; it leaves the  *)
(* queue as sent only once it has been accepted, or as failed, and what    *)
(* has left never comes back.                                              *)
(***************************************************************************)
EXTENDS Naturals, Sequences

VARIABLES
  status,     \* the state of each row, in the order they were queued
  accepted    \* the rows the other side has accepted

vars == <<status, accepted>>

Queued == {n \in DOMAIN status : status[n] = "queued"}

Enqueue == status' = Append(status, "queued") /\ UNCHANGED accepted

Accept(ids) == accepted' = accepted \cup ids /\ UNCHANGED status

Leave(ids, state) ==
  /\ state = "sent" => ids \subseteq accepted
  /\ status' = [n \in DOMAIN status |-> IF n \in ids THEN state ELSE status[n]]
  /\ UNCHANGED accepted

Init == status = <<>> /\ accepted = {}

Next ==
  \/ Enqueue
  \/ \E ids \in SUBSET Queued :
       Accept(ids) \/ \E state \in {"sent", "failed"} : Leave(ids, state)

Spec == Init /\ [][Next]_vars

=============================================================================
