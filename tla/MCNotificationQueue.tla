------------------------- MODULE MCNotificationQueue -------------------------
(* Two batches of content, and a summary and an alert without a key of their own. *)
EXTENDS NotificationQueue

CONSTANTS r1, r2, v1, v2

MCBatch == {{v1}, {v2}}

=============================================================================
