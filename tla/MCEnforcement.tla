---------------------------- MODULE MCEnforcement ----------------------------
(* Two agents after two flagged responses, and a tool of each kind. *)
EXTENDS Enforcement, TLC

CONSTANTS coder, planner,  \* subjects
          read, ingest,    \* tools: a free one and a gated one
          secret, lure,    \* flagged responses
          clean, unscreenable

MCSubjects == {coder, planner}
MCTools    == {read, ingest}
MCGated    == {ingest}
MCPlans    == {<<coder, {read}>>}
MCPayloads == {secret, lure}
MCSize     == [p \in MCPayloads |-> 1]
MCCalls    == ({coder} \X MCTools) \cup (MCSubjects \X MCPayloads)

\* The two responses are alike.
Responses == Permutations(MCPayloads)
=============================================================================
