----------------------------- MODULE QueueReplay -----------------------------
(***************************************************************************)
(* The queue's replay as the code runs it, record by record into            *)
(* dictionaries where a later record overwrites an earlier one              *)
(* (escalation.py _replay, and lifecycle.py derive_carried_state, which     *)
(* "mirrors the queue's own replay").  It is the reference the relational   *)
(* definitions of EscalationQueue are compared with, on every chain the     *)
(* approval loop can build.                                                 *)
(***************************************************************************)
EXTENDS ApprovalLoop

EmptyBook == [submitted |-> <<>>, resolved |-> <<>>, consumed |-> {}]

\* A dictionary after the entries of another were put into it.
Updated(dict, entries) ==
    [ref \in DOMAIN dict \cup DOMAIN entries |->
        IF ref \in DOMAIN entries THEN entries[ref] ELSE dict[ref]]

\* The dictionary of a set of rows: ref -> request.
Book(rows) == [ref \in {w.ref : w \in rows} |-> (CHOOSE w \in rows : w.ref = ref).req]

Seed(book, m) ==
    [book EXCEPT
        !.submitted = Updated(Updated(@, Book(m.pending)), Book(m.approvals)),
        !.resolved  = Updated(@, [ref \in {w.ref : w \in m.approvals} |-> TRUE])]

ReplayRecord(book, m) ==
    CASE m.kind = "checkpoint" -> Seed(book, m)
      [] m.kind = "submitted"  ->
            [book EXCEPT !.submitted = Updated(@, [ref \in {m.ref} |-> m.req])]
      [] m.kind = "resolved"   ->
            [book EXCEPT !.resolved = Updated(@, [ref \in {m.ref} |-> m.approved])]
      [] m.kind = "consumed"   -> [book EXCEPT !.consumed = @ \cup {m.ref}]
      [] OTHER                 -> book

Replay(records) ==
    LET books[i \in 0 .. Len(records)] ==
            IF i = 0 THEN EmptyBook ELSE ReplayRecord(books[i - 1], records[i])
    IN  books[Len(records)]

RowsOf(book, refs) == {[ref |-> ref, req |-> book.submitted[ref]] : ref \in refs}

PendingOf(book) == RowsOf(book, DOMAIN book.submitted \ DOMAIN book.resolved)
ApprovalsOf(book) ==
    RowsOf(book, {ref \in (DOMAIN book.submitted \cap DOMAIN book.resolved) \ book.consumed :
                      book.resolved[ref]})

\* The dictionaries and the relations give the same open state: no row, no
\* verdict is ever overwritten, not even by the seeds of a checkpoint.
ReplayAgrees ==
    LET book == Replay(active)
    IN  /\ PendingOf(book) = Pending(Segment)
        /\ ApprovalsOf(book) = Approvals(Segment)
=============================================================================
