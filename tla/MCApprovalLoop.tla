--------------------------- MODULE MCApprovalLoop ---------------------------
(* A small fleet: one scope of each kind the policy tells apart. *)
EXTENDS ApprovalLoop, TLC

CONSTANTS planner, coder, unverified,   \* subjects
          read, release, ingest, bogus, \* scopes
          inside, outside               \* resources

MCSubjects   == {planner, coder}
MCActions    == {read, release, ingest, bogus}
MCResources  == {inside, outside}
MCCatalog    == {read, release, ingest}
MCEscalating == {release, ingest}
MCReleases   == {release}
MCBindings   == (planner :> {read}) @@ (coder :> {ingest})
MCEscaping   == {<<ingest, outside>>}
MCInScope    == {<<read, inside>>, <<release, inside>>, <<ingest, inside>>}

For(s, a, r) == [subject |-> s, action |-> a, resource |-> r]

\* Two subjects after the same release, and (LoopPolicy) one request for every
\* way the policy can refuse.
MCRequests == {For(planner, release, inside), For(coder, release, inside)}
PolicyRequests == {For(coder, ingest, inside), For(coder, ingest, outside),
                   For(planner, read, inside), For(planner, read, outside),
                   For(coder, read, inside), For(coder, bogus, inside)}
=============================================================================
