---------------------------- MODULE MCAuditStore ----------------------------
(* A gateway and a CLI command on one chain, and two things to record. *)
EXTENDS AuditStore

CONSTANTS gateway, cli, this, that
=============================================================================
