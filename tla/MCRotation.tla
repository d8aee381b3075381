----------------------------- MODULE MCRotation -----------------------------
(* A gateway and an operator's command, on one chain. *)
EXTENDS Rotation

CONSTANTS gateway, cli
=============================================================================
