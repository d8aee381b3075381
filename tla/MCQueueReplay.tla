--------------------------- MODULE MCQueueReplay ---------------------------
(* The replay beside the queue, on the chains of the small fleet. *)
EXTENDS MCApprovalLoop, QueueReplay
=============================================================================
