------------------------------ MODULE Segments ------------------------------
(***************************************************************************)
(* The payloads of one chain segment and what a rotation derives from them  *)
(* (src/atb/lifecycle.py): the open items it carries, the seal it appends,  *)
(* the checkpoint that opens the successor.  An open item is known by the   *)
(* id of the record that raised it; what it is and who may close it is the  *)
(* business of ApprovalLoop.                                                *)
(***************************************************************************)
EXTENDS Naturals, Sequences, FiniteSets

Raise(id)   == [kind |-> "raise", id |-> id]
Settle(ref) == [kind |-> "settle", ref |-> ref]

OfKind(segment, kind) == {m \in {segment[i] : i \in DOMAIN segment} : m.kind = kind}

\* Mutant of OpenItems: the checkpoint does not seed the replay.
OpenItemsUnseeded(segment) ==
    {m.id : m \in OfKind(segment, "raise")} \ {m.ref : m \in OfKind(segment, "settle")}

\* derive_carried_state: seeded by the checkpoint, raised and not settled.
OpenItems(segment) ==
    ((UNION {m.open : m \in OfKind(segment, "checkpoint")})
        \cup {m.id : m \in OfKind(segment, "raise")})
    \ {m.ref : m \in OfKind(segment, "settle")}

\* The index a segment says it has: its checkpoint's, or the first.
IndexOf(segment) ==
    IF segment # <<>> /\ segment[1].kind = "checkpoint" THEN segment[1].segment ELSE 1

Sealed(segment) == segment # <<>> /\ segment[Len(segment)].kind = "seal"

\* Something was recorded beyond the checkpoint and the seal.
Substantive(segment) == \E i \in DOMAIN segment : segment[i].kind \notin {"checkpoint", "seal"}

\* The seal counts what it closes, itself included.
SealOf(segment) == [kind |-> "seal", segment |-> IndexOf(segment),
                    records |-> Len(segment) + 1, open |-> Cardinality(OpenItems(segment))]

CheckpointOf(segment) == [kind |-> "checkpoint", segment |-> IndexOf(segment) + 1,
                          open |-> OpenItems(segment)]
=============================================================================
