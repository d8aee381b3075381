--------------------------- MODULE EscalationQueue ---------------------------
(***************************************************************************)
(* The queue of src/atb/escalation.py has no state of its own: everything   *)
(* it knows is derived by replaying the records of the active segment.      *)
(* This module is that derivation, as operators on a SET of records.        *)
(*                                                                          *)
(* The code replays into dictionaries keyed by ref, a later record          *)
(* overwriting an earlier one.  Here the dictionaries are relations: a row  *)
(* is in `Submitted' when some record put it there.  The two agree as long  *)
(* as no ref ever gets two different rows or verdicts: QueueReplay has the  *)
(* record-by-record replay, and ReplayAgrees compares the two.              *)
(***************************************************************************)
EXTENDS Naturals, FiniteSets

OfKind(records, kind) == {m \in records : m.kind = kind}

\* A row of the queue: the escalated decision and the exact request it is for.
Row(m) == [ref |-> m.ref, req |-> m.req]

\* Rows a checkpoint seeds, and rows appended by submit.
SeededPending(records)   == UNION {c.pending : c \in OfKind(records, "checkpoint")}
SeededApprovals(records) == UNION {c.approvals : c \in OfKind(records, "checkpoint")}

Submitted(records) == {Row(m) : m \in OfKind(records, "submitted")}
                        \cup SeededPending(records) \cup SeededApprovals(records)

\* Refs with a resolution, and refs resolved as approved.
Resolved(records) == {m.ref : m \in OfKind(records, "resolved")}
                        \cup {w.ref : w \in SeededApprovals(records)}
Approved(records) == {m.ref : m \in {x \in OfKind(records, "resolved") : x.approved}}
                        \cup {w.ref : w \in SeededApprovals(records)}
Consumed(records) == {m.ref : m \in OfKind(records, "consumed")}

\* The rows a human may still decide, and the approvals a request may still spend.
Pending(records) == {w \in Submitted(records) : w.ref \notin Resolved(records)}
Approvals(records) ==
    {w \in Submitted(records) : w.ref \in Approved(records) /\ w.ref \notin Consumed(records)}
=============================================================================
