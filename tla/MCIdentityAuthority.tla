------------------------ MODULE MCIdentityAuthority ------------------------
(* A delegatable role and a worker role; one scope is bound to no role. *)
EXTENDS IdentityAuthority, TLC

CONSTANTS orchestrator, coder, plan, write, egress

MCRoles      == {orchestrator, coder}
MCScopes     == {plan, write, egress}
MCBound      == (orchestrator :> {plan}) @@ (coder :> {write})
MCDelegators == {orchestrator}
=============================================================================
