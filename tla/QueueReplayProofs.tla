-------------------------- MODULE QueueReplayProofs --------------------------
(***************************************************************************)
(* The dictionaries the code replays the active segment into hold exactly   *)
(* what the relations of EscalationQueue say, on any chain the approval     *)
(* loop can build.  A dictionary forgets what it overwrites, so this needs  *)
(* that nothing ever is: a ref has one row and one verdict in a segment,    *)
(* whether records or a checkpoint put them there.                          *)
(***************************************************************************)
EXTENDS QueueReplay, ApprovalLoopProofs, Induction

-----------------------------------------------------------------------------
(* The replay, record by record *)

\* The dictionaries after each of the records.
IsReplay(f, records, n) ==
    f = [i \in 0 .. n |-> IF i = 0 THEN EmptyBook ELSE ReplayRecord(f[i - 1], records[i])]

\* There are such dictionaries, for any number of records.
LEMMA ReplayExists == ASSUME NEW records, NEW n \in Nat PROVE \E f : IsReplay(f, records, n)
<1> DEFINE T == {k \in Nat : \E f : IsReplay(f, records, k)}
<1>1. 0 \in T
  <2>1. IsReplay([i \in 0 .. 0 |-> EmptyBook], records, 0)
    BY DEF IsReplay
  <2>2. QED  BY <2>1
<1>2. ASSUME NEW k \in 1 .. n, k - 1 \in T PROVE k \in T
  <2>1. PICK g : IsReplay(g, records, k - 1)
    BY <1>2
  <2> DEFINE h == [i \in 0 .. k |-> IF i = k THEN ReplayRecord(g[k - 1], records[k]) ELSE g[i]]
  <2>2. \A i \in 0 .. (k - 1) :
            g[i] = IF i = 0 THEN EmptyBook ELSE ReplayRecord(g[i - 1], records[i])
    BY <2>1 DEF IsReplay
  <2>3. \A i \in 0 .. k : h[i] = IF i = 0 THEN EmptyBook ELSE ReplayRecord(h[i - 1], records[i])
    BY <2>2
  <2>4. IsReplay(h, records, k)
    BY <2>3 DEF IsReplay
  <2>5. QED  BY <2>4
<1>3. QED
  <2> HIDE DEF T
  <2>1. 0 .. n \subseteq T
    BY <1>1, <1>2, UpTo
  <2>2. n \in T
    BY <2>1
  <2>3. QED  BY <2>2 DEF T

\* The replay ends with the last of them.
LEMMA ReplayUnfolds ==
    ASSUME NEW R, NEW records \in Seq(R)
    PROVE  \E f : /\ Replay(records) = f[Len(records)] /\ f[0] = EmptyBook
                  /\ \A i \in 1 .. Len(records) : f[i] = ReplayRecord(f[i - 1], records[i])
<1> DEFINE n == Len(records)
           f == CHOOSE g : IsReplay(g, records, n)
<1>1. n \in Nat
  OBVIOUS
<1>2. IsReplay(f, records, n)
  <2>1. PICK g : IsReplay(g, records, n)
    BY <1>1, ReplayExists
  <2>2. QED  BY <2>1
<1>3. Replay(records) = f[n]
  BY DEF Replay, IsReplay
<1> HIDE DEF f
<1>4. \A i \in 0 .. n : f[i] = IF i = 0 THEN EmptyBook ELSE ReplayRecord(f[i - 1], records[i])
  BY <1>2 DEF IsReplay
<1>5. QED  BY <1>1, <1>3, <1>4

-----------------------------------------------------------------------------
(* Dictionaries and relations *)

\* In these records a ref has one row, and one verdict.
Consistent(R) ==
    /\ \A v, w \in Submitted(R) : v.ref = w.ref => v = w
    /\ \A m \in OfKind(R, "resolved") : ~m.approved => m.ref \notin Approved(R)

\* The dictionaries say of these records what the relations say.
Agree(book, R) ==
    /\ book = [submitted |-> book.submitted, resolved |-> book.resolved,
               consumed |-> book.consumed]
    /\ DOMAIN book.submitted = SubmittedRefs(R)
    /\ \A w \in Submitted(R) : book.submitted[w.ref] = w.req
    /\ DOMAIN book.resolved = Resolved(R)
    /\ \A ref \in Resolved(R) : book.resolved[ref] <=> ref \in Approved(R)
    /\ book.consumed = Consumed(R)

\* A checkpoint adds the rows and verdicts it carries.
LEMMA ReplaySeeds ==
    ASSUME NEW R, NEW c, c.kind = "checkpoint"
    PROVE  LET T == R \cup {c}
           IN  /\ Submitted(T) = Submitted(R) \cup c.pending \cup c.approvals
               /\ Resolved(T) = Resolved(R) \cup {w.ref : w \in c.approvals}
               /\ Approved(T) = Approved(R) \cup {w.ref : w \in c.approvals}
               /\ Consumed(T) = Consumed(R)
<1> DEFINE T == R \cup {c}
<1>1. OfKind(T, "checkpoint") = OfKind(R, "checkpoint") \cup {c}
  BY DEF OfKind
<1>2. /\ OfKind(T, "submitted") = OfKind(R, "submitted")
      /\ OfKind(T, "resolved") = OfKind(R, "resolved")
      /\ OfKind(T, "consumed") = OfKind(R, "consumed")
  BY DEF OfKind
<1> HIDE DEF T
<1>3. /\ SeededPending(T) = SeededPending(R) \cup c.pending
      /\ SeededApprovals(T) = SeededApprovals(R) \cup c.approvals
  BY <1>1 DEF SeededPending, SeededApprovals
<1>4. Submitted(T) = Submitted(R) \cup c.pending \cup c.approvals
  BY <1>2, <1>3 DEF Submitted
<1>5. Resolved(T) = Resolved(R) \cup {w.ref : w \in c.approvals}
  BY <1>2, <1>3 DEF Resolved
<1>6. Approved(T) = Approved(R) \cup {w.ref : w \in c.approvals}
  BY <1>2, <1>3 DEF Approved
<1>7. Consumed(T) = Consumed(R)
  BY <1>2 DEF Consumed
<1>8. QED  BY <1>4, <1>5, <1>6, <1>7 DEF T

\* More records, more rows and verdicts; fewer are as consistent.
LEMMA ConsistentPart ==
    ASSUME NEW T, Consistent(T), NEW R, R \subseteq T PROVE Consistent(R)
<1>1. \A kind : OfKind(R, kind) \subseteq OfKind(T, kind)
  BY DEF OfKind
<1>2. /\ SeededPending(R) \subseteq SeededPending(T)
      /\ SeededApprovals(R) \subseteq SeededApprovals(T)
  BY <1>1 DEF SeededPending, SeededApprovals
<1>3. Submitted(R) \subseteq Submitted(T) /\ Approved(R) \subseteq Approved(T)
  BY <1>1, <1>2 DEF Submitted, Approved
<1>4. QED  BY <1>1, <1>3 DEF Consistent

\* The dictionary of rows that have one row for a ref.
LEMMA BookIs ==
    ASSUME NEW rows, \A v, w \in rows : v.ref = w.ref => v = w
    PROVE  /\ DOMAIN Book(rows) = {w.ref : w \in rows}
           /\ \A w \in rows : Book(rows)[w.ref] = w.req
<1>1. DOMAIN Book(rows) = {w.ref : w \in rows}
  BY DEF Book
<1>2. ASSUME NEW w \in rows PROVE Book(rows)[w.ref] = w.req
  <2>1. (CHOOSE v \in rows : v.ref = w.ref) = w
    OBVIOUS
  <2>2. QED  BY <2>1 DEF Book
<1>3. QED  BY <1>1, <1>2

\* What is in a dictionary after others were put into it.
LEMMA UpdatedIs ==
    ASSUME NEW dict, NEW entries
    PROVE  /\ DOMAIN Updated(dict, entries) = DOMAIN dict \cup DOMAIN entries
           /\ \A ref \in DOMAIN entries : Updated(dict, entries)[ref] = entries[ref]
           /\ \A ref \in DOMAIN dict \ DOMAIN entries : Updated(dict, entries)[ref] = dict[ref]
BY DEF Updated

-----------------------------------------------------------------------------
(* One record more *)

\* A row in the dictionary of the submitted ones.
LEMMA SubmissionAgrees ==
    ASSUME NEW book, NEW R, Agree(book, R), NEW m, m.kind = "submitted", Consistent(R \cup {m})
    PROVE  Agree(ReplayRecord(book, m), R \cup {m})
<1> DEFINE T == R \cup {m}
           entries == [ref \in {m.ref} |-> m.req]
           rows == Updated(book.submitted, entries)
<1>1. /\ Submitted(T) = Submitted(R) \cup {Row(m)} /\ Resolved(T) = Resolved(R)
      /\ Approved(T) = Approved(R) /\ Consumed(T) = Consumed(R)
  <2>1. ReplayedWith(R \cup {m}, R, m)
    BY ReplayOneMore
  <2>2. QED  BY <2>1 DEF ReplayedWith
<1>2. ReplayRecord(book, m) = [book EXCEPT !.submitted = rows]
  BY DEF ReplayRecord
<1>3. ReplayRecord(book, m) =
          [submitted |-> rows, resolved |-> book.resolved, consumed |-> book.consumed]
  BY <1>2 DEF Agree
<1>4. /\ DOMAIN rows = SubmittedRefs(R) \cup {m.ref} /\ rows[m.ref] = m.req
      /\ \A ref \in SubmittedRefs(R) \ {m.ref} : rows[ref] = book.submitted[ref]
  BY DEF Updated, Agree
<1> HIDE DEF rows, T
<1>5. Row(m).ref = m.ref /\ Row(m).req = m.req
  BY DEF Row
<1>6. DOMAIN rows = SubmittedRefs(T)
  BY <1>1, <1>4, <1>5 DEF SubmittedRefs
<1>7. ASSUME NEW w \in Submitted(T) PROVE rows[w.ref] = w.req
  <2>1. CASE w.ref = m.ref
    <3>1. w = Row(m)
      BY <1>1, <1>5, <2>1 DEF Consistent, T
    <3>2. QED  BY <1>4, <1>5, <3>1
  <2>2. CASE w.ref # m.ref
    <3>1. w \in Submitted(R)
      BY <1>1, <1>5, <2>2
    <3>2. QED  BY <1>4, <2>2, <3>1 DEF Agree, SubmittedRefs
  <2>3. QED  BY <2>1, <2>2
<1>8. Agree([submitted |-> rows, resolved |-> book.resolved, consumed |-> book.consumed], T)
  BY <1>1, <1>6, <1>7 DEF Agree
<1>9. QED  BY <1>3, <1>8 DEF T

\* A verdict in the dictionary of the resolved ones.
LEMMA ResolutionAgrees ==
    ASSUME NEW book, NEW R, Agree(book, R), NEW m, m.kind = "resolved", Consistent(R \cup {m})
    PROVE  Agree(ReplayRecord(book, m), R \cup {m})
<1> DEFINE T == R \cup {m}
           entries == [ref \in {m.ref} |-> m.approved]
           verdicts == Updated(book.resolved, entries)
<1>1. /\ Submitted(T) = Submitted(R) /\ Resolved(T) = Resolved(R) \cup {m.ref}
      /\ Approved(T) = Approved(R) \cup (IF m.approved THEN {m.ref} ELSE {})
      /\ Consumed(T) = Consumed(R)
  <2>1. ReplayedWith(R \cup {m}, R, m)
    BY ReplayOneMore
  <2>2. QED  BY <2>1 DEF ReplayedWith
<1>2. ReplayRecord(book, m) = [book EXCEPT !.resolved = verdicts]
  BY DEF ReplayRecord
<1>3. ReplayRecord(book, m) =
          [submitted |-> book.submitted, resolved |-> verdicts, consumed |-> book.consumed]
  BY <1>2 DEF Agree
<1>4. /\ DOMAIN verdicts = Resolved(R) \cup {m.ref} /\ verdicts[m.ref] = m.approved
      /\ \A ref \in Resolved(R) \ {m.ref} : verdicts[ref] = book.resolved[ref]
  BY DEF Updated, Agree
<1>5. ~m.approved => m.ref \notin Approved(T)
  BY DEF Consistent, OfKind
<1> HIDE DEF verdicts, T
<1>6. ASSUME NEW ref \in Resolved(T) PROVE verdicts[ref] <=> ref \in Approved(T)
  <2>1. CASE ref = m.ref
    BY <1>1, <1>4, <1>5, <2>1
  <2>2. CASE ref # m.ref
    <3>1. ref \in Resolved(R) /\ (ref \in Approved(T) <=> ref \in Approved(R))
      BY <1>1, <2>2
    <3>2. QED  BY <1>4, <2>2, <3>1 DEF Agree
  <2>3. QED  BY <2>1, <2>2
<1>7. Agree([submitted |-> book.submitted, resolved |-> verdicts, consumed |-> book.consumed], T)
  BY <1>1, <1>4, <1>6 DEF Agree, SubmittedRefs
<1>8. QED  BY <1>3, <1>7 DEF T

\* A ref in the set of the consumed ones.
LEMMA ConsumptionAgrees ==
    ASSUME NEW book, NEW R, Agree(book, R), NEW m, m.kind = "consumed"
    PROVE  Agree(ReplayRecord(book, m), R \cup {m})
<1> DEFINE T == R \cup {m}
           spent == book.consumed \cup {m.ref}
<1>1. /\ Submitted(T) = Submitted(R) /\ Resolved(T) = Resolved(R)
      /\ Approved(T) = Approved(R) /\ Consumed(T) = Consumed(R) \cup {m.ref}
  <2>1. ReplayedWith(R \cup {m}, R, m)
    BY ReplayOneMore
  <2>2. QED  BY <2>1 DEF ReplayedWith
<1>2. ReplayRecord(book, m) = [book EXCEPT !.consumed = spent]
  BY DEF ReplayRecord
<1>3. ReplayRecord(book, m) =
          [submitted |-> book.submitted, resolved |-> book.resolved, consumed |-> spent]
  BY <1>2 DEF Agree
<1>4. spent = Consumed(T)
  BY <1>1 DEF Agree
<1> HIDE DEF spent, T
<1>5. Agree([submitted |-> book.submitted, resolved |-> book.resolved, consumed |-> spent], T)
  BY <1>1, <1>4 DEF Agree, SubmittedRefs
<1>6. QED  BY <1>3, <1>5 DEF T

\* The rows and verdicts of a checkpoint, over whatever was there.
LEMMA CheckpointAgrees ==
    ASSUME NEW book, NEW R, Agree(book, R), NEW m, m.kind = "checkpoint",
           Consistent(R \cup {m})
    PROVE  Agree(ReplayRecord(book, m), R \cup {m})
<1> DEFINE T == R \cup {m}
           pending == Book(m.pending)
           approvals == Book(m.approvals)
           older == Updated(book.submitted, pending)
           rows == Updated(older, approvals)
           seeds == [ref \in {w.ref : w \in m.approvals} |-> TRUE]
           verdicts == Updated(book.resolved, seeds)
<1>1. /\ Submitted(T) = Submitted(R) \cup m.pending \cup m.approvals
      /\ Resolved(T) = Resolved(R) \cup {w.ref : w \in m.approvals}
      /\ Approved(T) = Approved(R) \cup {w.ref : w \in m.approvals}
      /\ Consumed(T) = Consumed(R)
  BY ReplaySeeds
<1>2. ReplayRecord(book, m) = [book EXCEPT !.submitted = rows, !.resolved = verdicts]
  BY DEF ReplayRecord, Seed
<1>3. ReplayRecord(book, m) =
          [submitted |-> rows, resolved |-> verdicts, consumed |-> book.consumed]
  BY <1>2 DEF Agree
<1>4. \A v, w \in Submitted(T) : v.ref = w.ref => v = w
  BY DEF Consistent
<1> HIDE DEF T
<1>5. /\ DOMAIN pending = {w.ref : w \in m.pending}
      /\ \A w \in m.pending : pending[w.ref] = w.req
  <2>1. \A v, w \in m.pending : v.ref = w.ref => v = w
    BY <1>1, <1>4
  <2>2. QED  BY <2>1, BookIs
<1>6. /\ DOMAIN approvals = {w.ref : w \in m.approvals}
      /\ \A w \in m.approvals : approvals[w.ref] = w.req
  <2>1. \A v, w \in m.approvals : v.ref = w.ref => v = w
    BY <1>1, <1>4
  <2>2. QED  BY <2>1, BookIs
<1> HIDE DEF pending, approvals
<1>7. /\ DOMAIN older = DOMAIN book.submitted \cup DOMAIN pending
      /\ \A ref \in DOMAIN pending : older[ref] = pending[ref]
      /\ \A ref \in DOMAIN book.submitted \ DOMAIN pending : older[ref] = book.submitted[ref]
  BY UpdatedIs
<1> HIDE DEF older
<1>8. /\ DOMAIN rows = DOMAIN older \cup DOMAIN approvals
      /\ \A ref \in DOMAIN approvals : rows[ref] = approvals[ref]
      /\ \A ref \in DOMAIN older \ DOMAIN approvals : rows[ref] = older[ref]
  BY UpdatedIs
<1>9. /\ DOMAIN verdicts = Resolved(R) \cup {w.ref : w \in m.approvals}
      /\ \A ref \in {w.ref : w \in m.approvals} : verdicts[ref] = TRUE
      /\ \A ref \in Resolved(R) \ {w.ref : w \in m.approvals} : verdicts[ref] = book.resolved[ref]
  BY DEF Updated, Agree
<1> HIDE DEF rows, verdicts
<1>10. DOMAIN rows = SubmittedRefs(T)
  BY <1>1, <1>5, <1>6, <1>7, <1>8 DEF Agree, SubmittedRefs
<1>11. ASSUME NEW w \in Submitted(T) PROVE rows[w.ref] = w.req
  <2>1. CASE w.ref \in DOMAIN approvals
    <3>1. PICK v \in m.approvals : v.ref = w.ref
      BY <1>6, <2>1
    <3>2. v = w
      BY <1>1, <1>4, <3>1
    <3>3. QED  BY <1>6, <1>8, <2>1, <3>2
  <2>2. CASE w.ref \notin DOMAIN approvals /\ w.ref \in DOMAIN pending
    <3>1. PICK v \in m.pending : v.ref = w.ref
      BY <1>5, <2>2
    <3>2. v = w
      BY <1>1, <1>4, <3>1
    <3>3. QED  BY <1>5, <1>7, <1>8, <2>2, <3>2
  <2>3. CASE w.ref \notin DOMAIN approvals /\ w.ref \notin DOMAIN pending
    <3>1. w \in Submitted(R)
      BY <1>1, <1>5, <1>6, <2>3
    <3>2. w.ref \in DOMAIN book.submitted /\ book.submitted[w.ref] = w.req
      BY <3>1 DEF Agree, SubmittedRefs
    <3>3. QED  BY <1>7, <1>8, <2>3, <3>2
  <2>4. QED  BY <2>1, <2>2, <2>3
<1>12. ASSUME NEW ref \in Resolved(T) PROVE verdicts[ref] <=> ref \in Approved(T)
  <2>1. CASE ref \in {w.ref : w \in m.approvals}
    BY <1>1, <1>9, <2>1
  <2>2. CASE ref \notin {w.ref : w \in m.approvals}
    <3>1. ref \in Resolved(R) /\ (ref \in Approved(T) <=> ref \in Approved(R))
      BY <1>1, <2>2
    <3>2. QED  BY <1>9, <2>2, <3>1 DEF Agree
  <2>3. QED  BY <2>1, <2>2
<1>13. Agree([submitted |-> rows, resolved |-> verdicts, consumed |-> book.consumed], T)
  BY <1>1, <1>9, <1>10, <1>11, <1>12 DEF Agree
<1>14. QED  BY <1>3, <1>13 DEF T

\* Any record.
LEMMA RecordAgrees ==
    ASSUME NEW book, NEW R, Agree(book, R), NEW m \in Records, Consistent(R \cup {m})
    PROVE  Agree(ReplayRecord(book, m), R \cup {m})
<1>1. CASE m.kind \in {"decision", "rotated"}
  <2>1. ReplayRecord(book, m) = book
    BY <1>1 DEF ReplayRecord
  <2>2. Agree(book, R \cup {m})
    BY <1>1, QuietRecord DEF Agree, SubmittedRefs
  <2>3. QED  BY <2>1, <2>2
<1>2. m.kind \in {"decision", "submitted", "resolved", "consumed", "rotated", "checkpoint"}
  BY DEF Records, DecisionRecords, SubmittedRecords, ResolvedRecords, ConsumedRecords,
     SealRecords, CheckpointRecords
<1>3. QED
  BY <1>1, <1>2, SubmissionAgrees, ResolutionAgrees, ConsumptionAgrees, CheckpointAgrees

-----------------------------------------------------------------------------
(* The whole segment *)

\* However long the records, if a ref has one row and one verdict in them.
LEMMA ReplayAgreed ==
    ASSUME NEW records \in Seq(Records), Consistent(Elements(records))
    PROVE  Agree(Replay(records), Elements(records))
<1> DEFINE n == Len(records)
           First(i) == {records[j] : j \in 1 .. i}
<1>1. PICK f : /\ Replay(records) = f[n] /\ f[0] = EmptyBook
               /\ \A i \in 1 .. n : f[i] = ReplayRecord(f[i - 1], records[i])
  BY ReplayUnfolds
<1> DEFINE T == {i \in 0 .. n : Agree(f[i], First(i))}
<1>2. n \in Nat
  OBVIOUS
<1>3. 0 \in T
  <2>1. First(0) = {}
    OBVIOUS
  <2>2. /\ Submitted({}) = {} /\ Resolved({}) = {} /\ Approved({}) = {} /\ Consumed({}) = {}
    BY DEF Submitted, Resolved, Approved, Consumed, SeededPending, SeededApprovals, OfKind
  <2>3. Agree(EmptyBook, {})
    BY <2>2 DEF Agree, EmptyBook, SubmittedRefs
  <2> HIDE DEF First
  <2>4. Agree(f[0], First(0))
    BY <1>1, <2>1, <2>3
  <2>5. QED  BY <1>2, <2>4
<1>4. ASSUME NEW k \in 1 .. n, k - 1 \in T PROVE k \in T
  <2>1. First(k) = First(k - 1) \cup {records[k]}
    OBVIOUS
  <2>2. First(k) \subseteq Elements(records) /\ records[k] \in Records
    BY DEF Elements
  <2>3. Agree(f[k - 1], First(k - 1)) /\ f[k] = ReplayRecord(f[k - 1], records[k])
    BY <1>1, <1>4
  <2> HIDE DEF First
  <2>4. Consistent(First(k))
    BY <2>2, ConsistentPart
  <2>5. Agree(f[k], First(k))
    BY <2>1, <2>2, <2>3, <2>4, RecordAgrees
  <2>6. QED  BY <1>2, <2>5
<1>5. n \in T
  <2> HIDE DEF T
  <2>1. 0 .. n \subseteq T
    BY <1>2, <1>3, <1>4, UpTo
  <2>2. QED  BY <1>2, <2>1
<1>6. First(n) = Elements(records)
  BY DEF Elements
<1>7. QED
  <2>1. Agree(f[n], First(n))
    BY <1>5
  <2>2. QED  BY <1>1, <1>6, <2>1

\* Dictionaries that agree give the same open state.
LEMMA SameOpenState ==
    ASSUME NEW book, NEW R, R \subseteq Records, Agree(book, R)
    PROVE  PendingOf(book) = Pending(R) /\ ApprovalsOf(book) = Approvals(R)
<1>1. \A w \in Submitted(R) : w = [ref |-> w.ref, req |-> w.req]
  BY QueueTyped DEF Rows
<1>2. ASSUME NEW refs, refs \subseteq SubmittedRefs(R)
      PROVE  RowsOf(book, refs) = {w \in Submitted(R) : w.ref \in refs}
  <2>1. ASSUME NEW w \in Submitted(R), w.ref \in refs PROVE w \in RowsOf(book, refs)
    BY <1>1, <2>1 DEF RowsOf, Agree
  <2>2. ASSUME NEW ref \in refs
        PROVE  [ref |-> ref, req |-> book.submitted[ref]] \in
                   {w \in Submitted(R) : w.ref \in refs}
    <3>1. PICK w \in Submitted(R) : w.ref = ref
      BY <1>2 DEF SubmittedRefs
    <3>2. w = [ref |-> ref, req |-> book.submitted[ref]]
      BY <1>1, <3>1 DEF Agree
    <3>3. QED  BY <3>1, <3>2
  <2>3. QED  BY <2>1, <2>2 DEF RowsOf
<1>3. PendingOf(book) = Pending(R)
  <2> DEFINE refs == DOMAIN book.submitted \ DOMAIN book.resolved
  <2>1. /\ refs \subseteq SubmittedRefs(R)
        /\ \A w \in Submitted(R) : w.ref \in refs <=> w.ref \notin Resolved(R)
    BY DEF Agree, SubmittedRefs
  <2> HIDE DEF refs
  <2>2. RowsOf(book, refs) = {w \in Submitted(R) : w.ref \in refs}
    BY <1>2, <2>1
  <2>3. QED  BY <2>1, <2>2 DEF PendingOf, Pending, refs
<1>4. ApprovalsOf(book) = Approvals(R)
  <2> DEFINE refs == {ref \in (DOMAIN book.submitted \cap DOMAIN book.resolved) \ book.consumed :
                         book.resolved[ref]}
  <2>1. refs \subseteq SubmittedRefs(R)
    BY DEF Agree
  <2>2. ASSUME NEW w \in Submitted(R)
        PROVE  w.ref \in refs <=> w.ref \in Approved(R) /\ w.ref \notin Consumed(R)
    <3>1. w.ref \in DOMAIN book.submitted /\ DOMAIN book.resolved = Resolved(R)
          /\ book.consumed = Consumed(R)
      BY DEF Agree, SubmittedRefs
    <3>2. w.ref \in Approved(R) => w.ref \in Resolved(R)
      BY ApprovedIsResolved
    <3>3. w.ref \in Resolved(R) => (book.resolved[w.ref] <=> w.ref \in Approved(R))
      BY DEF Agree
    <3>4. QED  BY <3>1, <3>2, <3>3
  <2> HIDE DEF refs
  <2>3. RowsOf(book, refs) = {w \in Submitted(R) : w.ref \in refs}
    BY <1>2, <2>1
  <2>4. QED  BY <2>2, <2>3 DEF ApprovalsOf, Approvals, refs
<1>5. QED  BY <1>3, <1>4

\* The chain gives a ref one row, that of the escalate decision with its id, and
\* one verdict; the active segment says nothing that the chain does not.
LEMMA SegmentIsConsistent ==
    ASSUME IInv, IdsContinue, DecidedOnce PROVE Consistent(Segment)
<1>1. archive \in Seq(Records) /\ active \in Seq(Records)
  BY DEF IInv, TypeOK
<1>2. \A m \in Chain : \/ \E i \in DOMAIN archive : m = archive[i] /\ m.id = i
                       \/ \E i \in DOMAIN active : m = active[i] /\ m.id = Len(archive) + i
  BY DEF Chain, Segment, Elements, IdsContinue
<1>3. \A d, e \in Chain : d.id = e.id => d = e
  BY <1>1, <1>2
<1>4. \A s \in OfKind(Own, "submitted") : \E e \in Chain : e.id = s.ref /\ e.req = s.req
  BY DEF IInv, SubmittedIsBacked, Decisions, OfKind
<1>5. \A s, t \in OfKind(Own, "submitted") : s.ref = t.ref => s.req = t.req
  BY <1>3, <1>4
<1>6. \A v, w \in Submitted(Segment) : v.ref = w.ref => v = w
  <2>1. Submitted(Segment) \subseteq {Row(m) : m \in OfKind(Own, "submitted")}
    BY OwnRecords DEF IInv, SegmentIsTrue
  <2>2. QED  BY <1>5, <2>1 DEF Row
<1>7. ASSUME NEW m \in OfKind(Segment, "resolved"), ~m.approved, m.ref \in Approved(Segment)
      PROVE  FALSE
  <2>1. m.ref \in Approved(Own)
    BY <1>7 DEF IInv, SegmentIsTrue
  <2>2. PICK r \in OfKind(Own, "resolved") : r.approved /\ r.ref = m.ref
    BY <2>1, OwnRecords
  <2>3. m \in OfKind(Chain, "resolved") /\ r \in OfKind(Chain, "resolved")
    BY DEF OfKind, Chain, Own
  <2>4. QED  BY <1>7, <2>2, <2>3 DEF DecidedOnce
<1>8. QED  BY <1>6, <1>7 DEF Consistent

\* The dictionaries and the relations give the same open state.
THEOREM ReplayAgreesHolds == Spec => []ReplayAgrees
<1>1. IInv /\ IdsContinue /\ DecidedOnce => ReplayAgrees
  <2> SUFFICES ASSUME IInv, IdsContinue, DecidedOnce PROVE ReplayAgrees
    OBVIOUS
  <2>1. active \in Seq(Records) /\ Segment \subseteq Records
    BY StateTyped DEF IInv, TypeOK
  <2>2. Agree(Replay(active), Segment)
    BY <2>1, SegmentIsConsistent, ReplayAgreed DEF Segment
  <2>3. QED  BY <2>1, <2>2, SameOpenState DEF ReplayAgrees
<1>2. QED  BY <1>1, Invariance, IdsContinueHolds, DecidedOnceHolds, PTL
=============================================================================
