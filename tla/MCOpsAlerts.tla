----------------------------- MODULE MCOpsAlerts -----------------------------
(* One course and one group, each day three of time's steps long. *)
EXTENDS OpsAlerts

CONSTANTS c1, g1

MCTokenDays == {30, 10, 5, 0}
MCDashDays == {30, Unrecorded}

=============================================================================
