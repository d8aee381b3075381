-------------------------- MODULE ApprovalLoopProofs --------------------------
(***************************************************************************)
(* Theorems about the approval loop, for every set of subjects, scopes,     *)
(* resources and requests, every chain length and every carry threshold.    *)
(*                                                                          *)
(* The argument: a step appends one record to the active segment or         *)
(* replaces the segment by a checkpoint of its open state.  Lemmas say what *)
(* either does to the queue derived from a set of records; IInv says that   *)
(* the active segment tells the truth about the whole chain; the safety     *)
(* properties follow from it, one action at a time.                         *)
(***************************************************************************)
EXTENDS ApprovalLoop, SequenceTheorems, TLAPS

-----------------------------------------------------------------------------
(* Sequences as sets of records *)

\* Appending a record adds it to the records replayed.
LEMMA ElementsAppend ==
    ASSUME NEW S, NEW s \in Seq(S), NEW m \in S
    PROVE  Elements(Append(s, m)) = Elements(s) \cup {m}
<1> DEFINE t == Append(s, m)
<1>1. /\ DOMAIN t = DOMAIN s \cup {Len(s) + 1}
      /\ t[Len(s) + 1] = m
      /\ \A i \in DOMAIN s : t[i] = s[i]
  OBVIOUS
<1>2. QED  BY <1>1 DEF Elements

\* Archiving a segment keeps its records.
LEMMA ElementsConcat ==
    ASSUME NEW S, NEW s \in Seq(S), NEW t \in Seq(S)
    PROVE  Elements(s \o t) = Elements(s) \cup Elements(t)
<1>1. Elements(s \o t) \subseteq Elements(s) \cup Elements(t)
  BY DEF Elements
<1>2. Elements(s) \subseteq Elements(s \o t)
  BY DEF Elements
<1>3. ASSUME NEW j \in DOMAIN t PROVE t[j] \in Elements(s \o t)
  <2>1. Len(s) + j \in DOMAIN (s \o t) /\ (s \o t)[Len(s) + j] = t[j]
    OBVIOUS
  <2>2. QED  BY <2>1 DEF Elements
<1>4. QED  BY <1>1, <1>2, <1>3 DEF Elements

\* The new segment of a rotation holds its checkpoint and nothing else.
LEMMA ElementsOne == ASSUME NEW m PROVE Elements(<<m>>) = {m}
BY DEF Elements

\* The records of a typed sequence are typed.
LEMMA ElementsTyped ==
    ASSUME NEW S, NEW s \in Seq(S) PROVE Elements(s) \subseteq S
BY DEF Elements

-----------------------------------------------------------------------------
(* The queue derived from a set of records *)

\* T is R after replaying one more record m.
ReplayedWith(T, R, m) ==
    /\ Submitted(T) = Submitted(R) \cup (IF m.kind = "submitted" THEN {Row(m)} ELSE {})
    /\ Resolved(T) = Resolved(R) \cup (IF m.kind = "resolved" THEN {m.ref} ELSE {})
    /\ Approved(T) = Approved(R)
                        \cup (IF m.kind = "resolved" /\ m.approved THEN {m.ref} ELSE {})
    /\ Consumed(T) = Consumed(R) \cup (IF m.kind = "consumed" THEN {m.ref} ELSE {})

\* What one more record, not a checkpoint, changes in the queue.
LEMMA ReplayOneMore ==
    ASSUME NEW R, NEW m, m.kind # "checkpoint"
    PROVE  ReplayedWith(R \cup {m}, R, m)
<1> DEFINE T == R \cup {m}
<1>1. OfKind(T, "checkpoint") = OfKind(R, "checkpoint")
  BY DEF OfKind
<1>2. SeededPending(T) = SeededPending(R) /\ SeededApprovals(T) = SeededApprovals(R)
  BY <1>1 DEF SeededPending, SeededApprovals
<1>3. ASSUME NEW k, k \in {"submitted", "resolved", "consumed"}
      PROVE  OfKind(T, k) = OfKind(R, k) \cup (IF m.kind = k THEN {m} ELSE {})
  BY DEF OfKind
<1>4. Submitted(T) = Submitted(R) \cup (IF m.kind = "submitted" THEN {Row(m)} ELSE {})
  BY <1>2, <1>3 DEF Submitted
<1>5. Resolved(T) = Resolved(R) \cup (IF m.kind = "resolved" THEN {m.ref} ELSE {})
  BY <1>2, <1>3 DEF Resolved
<1>6. Approved(T) = Approved(R)
          \cup (IF m.kind = "resolved" /\ m.approved THEN {m.ref} ELSE {})
  BY <1>2, <1>3 DEF Approved
<1>7. Consumed(T) = Consumed(R) \cup (IF m.kind = "consumed" THEN {m.ref} ELSE {})
  BY <1>3 DEF Consumed
<1>8. QED  BY <1>4, <1>5, <1>6, <1>7 DEF ReplayedWith

\* What a segment of nothing but a checkpoint says.
LEMMA ReplayCheckpoint ==
    ASSUME NEW c, c.kind = "checkpoint"
    PROVE  /\ Submitted({c}) = c.pending \cup c.approvals
           /\ Resolved({c}) = {w.ref : w \in c.approvals}
           /\ Approved({c}) = {w.ref : w \in c.approvals}
           /\ Consumed({c}) = {}
<1>1. OfKind({c}, "checkpoint") = {c}
  BY DEF OfKind
<1>2. SeededPending({c}) = c.pending /\ SeededApprovals({c}) = c.approvals
  BY <1>1 DEF SeededPending, SeededApprovals
<1>3. /\ OfKind({c}, "submitted") = {}
      /\ OfKind({c}, "resolved") = {}
      /\ OfKind({c}, "consumed") = {}
  BY DEF OfKind
<1>4. QED  BY <1>2, <1>3 DEF Submitted, Resolved, Approved, Consumed

\* Only approved refs are resolved-as-approved.
LEMMA ApprovedIsResolved == ASSUME NEW R PROVE Approved(R) \subseteq Resolved(R)
BY DEF Approved, Resolved, OfKind

\* The queue of typed records is typed.
LEMMA QueueTyped ==
    ASSUME NEW R, R \subseteq Records
    PROVE  /\ Submitted(R) \subseteq Rows
           /\ Resolved(R) \subseteq Refs
           /\ Consumed(R) \subseteq Refs
<1> USE DEF Records, DecisionRecords, SubmittedRecords, ResolvedRecords,
            ConsumedRecords, SealRecords, CheckpointRecords
<1>1. OfKind(R, "submitted") \subseteq SubmittedRecords
  BY DEF OfKind
<1>2. OfKind(R, "resolved") \subseteq ResolvedRecords
  BY DEF OfKind
<1>3. OfKind(R, "consumed") \subseteq ConsumedRecords
  BY DEF OfKind
<1>4. OfKind(R, "checkpoint") \subseteq CheckpointRecords
  BY DEF OfKind
<1>5. SeededPending(R) \subseteq Rows /\ SeededApprovals(R) \subseteq Rows
  BY <1>4 DEF SeededPending, SeededApprovals
<1>6. {Row(m) : m \in OfKind(R, "submitted")} \subseteq Rows
  BY <1>1 DEF Row, Rows
<1>7. Submitted(R) \subseteq Rows
  BY <1>5, <1>6 DEF Submitted
<1>8. Resolved(R) \subseteq Refs
  BY <1>2, <1>5 DEF Resolved, Rows
<1>9. Consumed(R) \subseteq Refs
  BY <1>3 DEF Consumed
<1>10. QED  BY <1>7, <1>8, <1>9

-----------------------------------------------------------------------------
(* What the two ways of writing to the chain do to the state *)

\* The records of a typed state are typed.
LEMMA StateTyped ==
    ASSUME TypeOK
    PROVE  /\ Segment \subseteq Records
           /\ Chain \subseteq Records
           /\ Own \subseteq Records
           /\ Sequence \in Nat
<1>1. Elements(archive) \subseteq Records /\ Elements(active) \subseteq Records
  BY ElementsTyped DEF TypeOK
<1>2. Segment \subseteq Records /\ Chain \subseteq Records /\ Own \subseteq Records
  BY <1>1 DEF Segment, Chain, Own
<1>3. Sequence \in Nat
  <2>1. CASE active = <<>>
    BY <2>1 DEF Sequence
  <2>2. CASE active # <<>>
    <3>1. active[Len(active)] \in Records
      BY <2>2 DEF TypeOK
    <3>2. active[Len(active)].id \in Refs
      BY <3>1 DEF Records, DecisionRecords, SubmittedRecords, ResolvedRecords,
                  ConsumedRecords, SealRecords, CheckpointRecords
    <3>3. QED  BY <2>2, <3>2 DEF Sequence, Refs
  <2>3. QED  BY <2>1, <2>2
<1>4. QED  BY <1>2, <1>3

\* With room in the chain the next id is a ref.
LEMMA NextIdTyped == ASSUME TypeOK, NEW n \in Nat \ {0}, Room(n) PROVE Sequence + n \in Refs
BY StateTyped, BoundsAssumption DEF Room, Refs

\* An append adds one record everywhere, and gives it the next id.
LEMMA ChainedAdds ==
    ASSUME TypeOK, NEW m \in Records, m.kind # "checkpoint", m.id = NextId, Chained(m)
    PROVE  /\ Segment' = Segment \cup {m}
           /\ Chain' = Chain \cup {m}
           /\ Own' = Own \cup {m}
           /\ Sequence' = NextId
           /\ archive' \in Seq(Records) /\ active' \in Seq(Records)
           /\ active' # <<>> /\ Len(active') = Len(active) + 1 /\ archive' = archive
<1>1. active \in Seq(Records) /\ archive \in Seq(Records)
  BY DEF TypeOK
<1>2. active' = Append(active, m) /\ archive' = archive
  BY DEF Chained
<1>3. Elements(active') = Elements(active) \cup {m}
  BY <1>1, <1>2, ElementsAppend
<1>4. /\ active' \in Seq(Records) /\ active' # <<>>
      /\ Len(active') = Len(active) + 1 /\ active'[Len(active')] = m
  BY <1>1, <1>2
<1>5. Sequence' = NextId
  BY <1>4 DEF Sequence
<1>6. Segment' = Segment \cup {m} /\ Chain' = Chain \cup {m}
  BY <1>2, <1>3 DEF Segment, Chain
<1>7. Own' = Own \cup {m}
  BY <1>6 DEF Own
<1>8. QED  BY <1>1, <1>2, <1>4, <1>5, <1>6, <1>7

\* The two records a rotation writes.
Seal       == [id |-> NextId, kind |-> "rotated"]
Checkpoint == [id |-> NextId + 1, kind |-> "checkpoint",
               pending |-> CarriedPending, approvals |-> CarriedApprovals]

\* A rotation leaves the checkpoint alone in the segment, and of what really
\* happened it adds the seal.
LEMMA RotateReplaces ==
    ASSUME TypeOK, NEW force, Rotate(force)
    PROVE  /\ Seal \in Records /\ Checkpoint \in Records
           /\ Segment' = {Checkpoint}
           /\ Chain' = Chain \cup {Seal, Checkpoint}
           /\ Own' = Own \cup {Seal}
           /\ Sequence' = NextId + 1
           /\ archive' \in Seq(Records) /\ active' \in Seq(Records)
           /\ active' # <<>> /\ Len(active') = 1
           /\ Len(archive') = Len(archive) + Len(active) + 1
<1>1. active \in Seq(Records) /\ archive \in Seq(Records)
  BY DEF TypeOK
<1>2. NextId \in Refs /\ NextId + 1 \in Refs
  <2>1. Room(2) /\ Room(1)
    BY StateTyped, BoundsAssumption DEF Rotate, Room
  <2>2. QED  BY <2>1, NextIdTyped, StateTyped DEF NextId
<1>3. CarriedPending \subseteq Rows /\ CarriedApprovals \subseteq Rows
  BY StateTyped, QueueTyped DEF CarriedPending, CarriedApprovals, Pending, Approvals
<1>4. Seal \in Records /\ Checkpoint \in Records
  BY <1>2, <1>3 DEF Seal, Checkpoint, Records, SealRecords, CheckpointRecords
<1> DEFINE sealed == Append(active, Seal)
<1>5. /\ archive' = archive \o sealed
      /\ active' = <<Checkpoint>>
  BY DEF Rotate, Seal, Checkpoint
<1>6. sealed \in Seq(Records) /\ Len(sealed) = Len(active) + 1
  BY <1>1, <1>4
<1>7. Elements(sealed) = Elements(active) \cup {Seal}
  BY <1>1, <1>4, ElementsAppend
<1> HIDE DEF sealed
<1>8. Elements(archive') = Elements(archive) \cup Elements(active) \cup {Seal}
  BY <1>1, <1>5, <1>6, <1>7, ElementsConcat
<1>9. Segment' = {Checkpoint}
  BY <1>5, ElementsOne DEF Segment
<1>10. Chain' = Chain \cup {Seal, Checkpoint}
  BY <1>8, <1>9 DEF Chain, Segment
<1>11. Own' = Own \cup {Seal}
  BY <1>10 DEF Own, Seal, Checkpoint
<1>12. /\ archive' \in Seq(Records) /\ active' \in Seq(Records)
       /\ active' # <<>> /\ Len(active') = 1
       /\ Len(archive') = Len(archive) + Len(active) + 1
  <2>1. archive \o sealed \in Seq(Records)
    BY <1>1, <1>6
  <2>2. Len(archive \o sealed) = Len(archive) + Len(active) + 1
    BY <1>1, <1>6
  <2>3. <<Checkpoint>> \in Seq(Records) /\ <<Checkpoint>> # <<>> /\ Len(<<Checkpoint>>) = 1
    BY <1>4
  <2>4. QED  BY <1>5, <2>1, <2>2, <2>3
<1>13. Sequence' = NextId + 1
  BY <1>5 DEF Sequence, Checkpoint
<1>14. QED  BY <1>4, <1>9, <1>10, <1>11, <1>12, <1>13

-----------------------------------------------------------------------------
(* Type correctness *)

\* A request that is answered is typed, whether or not its identity verified.
LEMMA RequestTyped ==
    ASSUME NEW req \in Requests
    PROVE  req \in Request /\ [req EXCEPT !.subject = Unverified] \in Request
BY RequestsAssumption DEF Request

\* The record each appending step writes is typed and has the next id.
LEMMA RecordsTyped ==
    ASSUME TypeOK, Room(1)
    PROVE  /\ \A ref \in Refs :
                 [id |-> NextId, kind |-> "consumed", ref |-> ref] \in Records
           /\ \A ref \in Refs, b \in BOOLEAN :
                 [id |-> NextId, kind |-> "resolved", ref |-> ref, approved |-> b] \in Records
           /\ \A ref \in Refs, q \in Request :
                 [id |-> NextId, kind |-> "submitted", ref |-> ref, req |-> q] \in Records
           /\ \A q \in Request, e \in Effects, a \in Refs \cup {NoRef} :
                 [id |-> NextId, kind |-> "decision", req |-> q, effect |-> e,
                  approval |-> a] \in Records
<1>1. NextId \in Refs
  BY NextIdTyped DEF NextId
<1>2. QED
  BY <1>1 DEF Records, DecisionRecords, SubmittedRecords, ResolvedRecords, ConsumedRecords

\* An approval that can be consumed names a ref.
LEMMA ConsumableTyped ==
    ASSUME TypeOK, NEW ref, NEW req, CanConsume(ref, req)
    PROVE  ref \in Refs
<1>1. [ref |-> ref, req |-> req] \in Rows
  BY StateTyped, QueueTyped DEF CanConsume, Approvals
<1>2. QED  BY <1>1 DEF Rows

\* Every step keeps the state in its types.
LEMMA TypeStep == ASSUME TypeOK, [Next]_vars PROVE TypeOK'
<1>1. CASE Call
  <2> PICK req \in Requests, verified \in BOOLEAN, granted \in BOOLEAN :
          \/ Refuse(req, verified, granted)
          \/ Grant(req, verified, granted)
          \/ \E ref \in CallerRefs : Spend(req, ref) \/ Escalate(req, ref)
    BY <1>1 DEF Call
  <2>1. ASSUME NEW q \in Request, NEW e \in Effects, NEW a \in Refs \cup {NoRef}, Begin(q, e, a)
        PROVE  pc' = "decide" /\ frame' \in Frames
    BY <2>1 DEF Begin, Frames
  <2>2. CASE Refuse(req, verified, granted)
    BY <2>1, <2>2, RequestTyped DEF Refuse, TypeOK, Effects, Places
  <2>3. CASE Grant(req, verified, granted)
    BY <2>1, <2>3, RequestTyped DEF Grant, TypeOK, Effects, Places
  <2>4. ASSUME NEW ref \in CallerRefs, Spend(req, ref) PROVE TypeOK'
    <3>1. ref \in Refs
      BY <2>4, ConsumableTyped DEF Spend
    <3>2. [id |-> NextId, kind |-> "consumed", ref |-> ref] \in Records
      BY <2>4, <3>1, RecordsTyped DEF Spend, Chained
    <3>3. archive' \in Seq(Records) /\ active' \in Seq(Records)
      BY <2>4, <3>2, ChainedAdds DEF Spend
    <3>4. QED  BY <2>1, <2>4, <3>1, <3>3, RequestTyped DEF Spend, TypeOK, Effects, Places
  <2>5. ASSUME NEW ref \in CallerRefs, Escalate(req, ref) PROVE TypeOK'
    BY <2>1, <2>5, RequestTyped DEF Escalate, TypeOK, Effects, Places
  <2>6. QED  BY <2>2, <2>3, <2>4, <2>5
<1>2. CASE Decide
  <2>1. frame \in Frames /\ Room(1) /\ NextId \in Refs
    BY <1>2, NextIdTyped DEF Decide, TypeOK, Chained, NextId
  <2> DEFINE m == [id |-> NextId, kind |-> "decision", req |-> frame.req,
                   effect |-> frame.effect, approval |-> frame.approval]
  <2>2. m \in Records
    BY <2>1, RecordsTyped DEF Frames
  <2>3. archive' \in Seq(Records) /\ active' \in Seq(Records)
    BY <1>2, <2>2, ChainedAdds DEF Decide
  <2>4. CASE frame.effect = "escalate"
    BY <1>2, <2>1, <2>3, <2>4 DEF Decide, TypeOK, Frames, Places
  <2>5. CASE frame.effect # "escalate"
    BY <1>2, <2>3, <2>5 DEF Decide, TypeOK, Places
  <2>6. QED  BY <2>4, <2>5
<1>3. CASE Submit
  <2>1. frame \in Frames /\ frame.decision \in Refs /\ Room(1)
    BY <1>3 DEF Submit, TypeOK, Chained
  <2>2. [id |-> NextId, kind |-> "submitted", ref |-> frame.decision, req |-> frame.req]
            \in Records
    BY <2>1, RecordsTyped DEF Frames
  <2>3. archive' \in Seq(Records) /\ active' \in Seq(Records)
    BY <1>3, <2>2, ChainedAdds DEF Submit
  <2>4. QED  BY <1>3, <2>3 DEF Submit, TypeOK, Places
<1>4. CASE Coalesce \/ AppendRaises
  BY <1>4 DEF Coalesce, AppendRaises, TypeOK, Places
<1>5. ASSUME NEW ref \in Refs, NEW b \in BOOLEAN, Resolve(ref, b) PROVE TypeOK'
  <2>1. [id |-> NextId, kind |-> "resolved", ref |-> ref, approved |-> b] \in Records
    BY <1>5, RecordsTyped DEF Resolve, Chained
  <2>2. archive' \in Seq(Records) /\ active' \in Seq(Records)
    BY <1>5, <2>1, ChainedAdds DEF Resolve
  <2>3. QED  BY <1>5, <2>2 DEF Resolve, TypeOK
<1>6. ASSUME NEW force, Rotate(force) PROVE TypeOK'
  <2>1. archive' \in Seq(Records) /\ active' \in Seq(Records)
    BY <1>6, RotateReplaces
  <2>2. QED  BY <1>6, <2>1 DEF Rotate, TypeOK
<1>7. CASE Start
  BY <1>7 DEF Start, TypeOK, Places
<1>8. CASE Stop
  BY <1>8 DEF Stop, TypeOK, Places
<1>9. CASE UNCHANGED vars
  BY <1>9 DEF vars, TypeOK
<1>10. QED  BY <1>1, <1>2, <1>3, <1>4, <1>5, <1>6, <1>7, <1>8, <1>9 DEF Next

\* The state of the loop always has its types.
THEOREM TypeCorrect == Spec => []TypeOK
<1>1. Init => TypeOK
  BY DEF Init, TypeOK, Places
<1>2. TypeOK /\ [Next]_vars => TypeOK'
  BY TypeStep
<1>3. QED  BY <1>1, <1>2, PTL DEF Spec

-----------------------------------------------------------------------------
(* The inductive invariant *)

\* Of what really happened nothing is seeded: rows, verdicts and consumptions
\* of Own are records of their own.
LEMMA OwnRecords ==
    /\ Submitted(Own) = {Row(m) : m \in OfKind(Own, "submitted")}
    /\ Resolved(Own) = {m.ref : m \in OfKind(Own, "resolved")}
    /\ Approved(Own) = {m.ref : m \in {x \in OfKind(Own, "resolved") : x.approved}}
    /\ Consumed(Own) = {m.ref : m \in OfKind(Own, "consumed")}
<1>1. OfKind(Own, "checkpoint") = {}
  BY DEF OfKind, Own
<1>2. SeededPending(Own) = {} /\ SeededApprovals(Own) = {}
  BY <1>1 DEF SeededPending, SeededApprovals
<1>3. QED  BY <1>2 DEF Submitted, Resolved, Approved, Consumed

\* A decision or a seal says nothing to the queue.
LEMMA QuietRecord ==
    ASSUME NEW R, NEW m, m.kind \in {"decision", "rotated"}
    PROVE  /\ Submitted(R \cup {m}) = Submitted(R)
           /\ Resolved(R \cup {m}) = Resolved(R)
           /\ Approved(R \cup {m}) = Approved(R)
           /\ Consumed(R \cup {m}) = Consumed(R)
           /\ Pending(R \cup {m}) = Pending(R)
           /\ Approvals(R \cup {m}) = Approvals(R)
<1>1. /\ Submitted(R \cup {m}) = Submitted(R)
      /\ Resolved(R \cup {m}) = Resolved(R)
      /\ Approved(R \cup {m}) = Approved(R)
      /\ Consumed(R \cup {m}) = Consumed(R)
  <2>1. /\ m.kind # "checkpoint" /\ m.kind # "submitted"
        /\ m.kind # "resolved" /\ m.kind # "consumed"
    OBVIOUS
  <2>2. ReplayedWith(R \cup {m}, R, m)
    BY <2>1, ReplayOneMore
  <2>3. QED  BY <2>1, <2>2 DEF ReplayedWith
<1>2. QED  BY <1>1 DEF Pending, Approvals

\* The parts of the invariant that speak of the chain alone.
ChainIsTrue == /\ ChainShape
               /\ SegmentIsTrue
               /\ LifecycleOrder
               /\ SubmittedIsBacked
               /\ ResolvedIsLater
               /\ OpenStateSurvivesRotation

\* A step that leaves the chain alone leaves them alone.
LEMMA ChainStutter ==
    ASSUME ChainIsTrue, UNCHANGED <<archive, active>>
    PROVE  /\ ChainIsTrue'
           /\ Own' = Own /\ Chain' = Chain /\ Segment' = Segment
           /\ Decisions' = Decisions /\ Allows' = Allows
           /\ \A ref, req : Paid(ref, req) => Paid(ref, req)'
<1>1. /\ Segment' = Segment /\ Chain' = Chain /\ Own' = Own /\ Sequence' = Sequence
  BY DEF Segment, Chain, Own, Sequence
<1>2. Decisions' = Decisions /\ Allows' = Allows
  BY <1>1 DEF Decisions, Allows
<1>3. ChainIsTrue'
  BY <1>1, <1>2 DEF ChainIsTrue, ChainShape, SegmentIsTrue, LifecycleOrder,
     SubmittedIsBacked, ResolvedIsLater, OpenStateSurvivesRotation, SubmittedRefs
<1>4. \A ref, req : Paid(ref, req) => Paid(ref, req)'
  BY <1>1, <1>2 DEF Paid
<1>5. QED  BY <1>1, <1>2, <1>3, <1>4

\* Appending a record keeps the shape of the chain.
LEMMA ShapeOfAppend ==
    ASSUME TypeOK, ChainShape, NEW m \in Records, m.kind # "checkpoint", m.id = NextId,
           Chained(m)
    PROVE  ChainShape'
<1>1. /\ Chain' = Chain \cup {m} /\ Sequence' = NextId /\ active' # <<>>
      /\ Len(active') = Len(active) + 1 /\ archive' = archive
  BY ChainedAdds
<1>2. Sequence \in Nat /\ Chain \subseteq Records
  BY StateTyped
<1>3. Len(active) \in Nat /\ Len(archive) \in Nat
  BY DEF TypeOK
<1>4. \A n \in Chain : n.id \in Nat /\ n.id =< Sequence
  BY <1>2 DEF ChainShape, Records, DecisionRecords, SubmittedRecords, ResolvedRecords,
     ConsumedRecords, SealRecords, CheckpointRecords, Refs
<1>5. \A n \in Chain' : n.id =< Sequence'
  BY <1>1, <1>2, <1>4 DEF NextId
<1>6. QED  BY <1>1, <1>2, <1>3, <1>5 DEF ChainShape, NextId

\* A decision changes nothing the queue knows; if it is an allow that spent an
\* approval, the consumption is already there.
LEMMA DecisionKeepsChain ==
    ASSUME TypeOK, ChainIsTrue, NEW m \in Records, m.kind = "decision", m.id = NextId,
           Chained(m), m.effect = "allow" /\ m.approval # NoRef => m.approval \in Consumed(Own)
    PROVE  /\ ChainIsTrue'
           /\ Decisions' = Decisions \cup {m}
           /\ Own' = Own \cup {m}
           /\ Submitted(Own') = Submitted(Own)
<1>1. Segment' = Segment \cup {m} /\ Chain' = Chain \cup {m} /\ Own' = Own \cup {m}
  BY ChainedAdds
<1>2. /\ Submitted(Own') = Submitted(Own) /\ Submitted(Segment') = Submitted(Segment)
      /\ Resolved(Own') = Resolved(Own) /\ Resolved(Segment') = Resolved(Segment)
      /\ Approved(Own') = Approved(Own) /\ Approved(Segment') = Approved(Segment)
      /\ Consumed(Own') = Consumed(Own) /\ Consumed(Segment') = Consumed(Segment)
      /\ Pending(Own') = Pending(Own) /\ Pending(Segment') = Pending(Segment)
      /\ Approvals(Own') = Approvals(Own) /\ Approvals(Segment') = Approvals(Segment)
  BY <1>1, QuietRecord
<1>3. Decisions' = Decisions \cup {m}
  BY <1>1 DEF Decisions, OfKind
<1>4. Allows' = Allows \cup (IF m.effect = "allow" THEN {m} ELSE {})
  BY <1>3 DEF Allows
<1>5. /\ OfKind(Own', "submitted") = OfKind(Own, "submitted")
      /\ OfKind(Own', "resolved") = OfKind(Own, "resolved")
  BY <1>1 DEF OfKind
<1>6. ChainShape'
  BY ShapeOfAppend DEF ChainIsTrue
<1>7. SegmentIsTrue' /\ OpenStateSurvivesRotation'
  BY <1>2 DEF ChainIsTrue, SegmentIsTrue, OpenStateSurvivesRotation
<1>8. LifecycleOrder'
  BY <1>2, <1>4 DEF ChainIsTrue, LifecycleOrder, SubmittedRefs
<1>9. SubmittedIsBacked' /\ ResolvedIsLater'
  BY <1>3, <1>5 DEF ChainIsTrue, SubmittedIsBacked, ResolvedIsLater
<1>10. QED  BY <1>1, <1>2, <1>3, <1>6, <1>7, <1>8, <1>9 DEF ChainIsTrue

\* Queueing an escalate decision for the first time opens one row, in the
\* segment and in the whole chain alike.
LEMMA SubmissionKeepsChain ==
    ASSUME TypeOK, ChainIsTrue, NEW m \in Records, m.kind = "submitted", m.id = NextId,
           Chained(m), m.ref \notin SubmittedRefs(Own),
           \E e \in Decisions : e.effect = "escalate" /\ e.id = m.ref /\ e.req = m.req
    PROVE  /\ ChainIsTrue'
           /\ Pending(Segment') = Pending(Segment) \cup {Row(m)}
           /\ Approvals(Segment') = Approvals(Segment)
           /\ m.ref \notin Resolved(Own) /\ m.ref \notin Consumed(Own)
<1>1. Segment' = Segment \cup {m} /\ Chain' = Chain \cup {m} /\ Own' = Own \cup {m}
  BY ChainedAdds
<1>2. ASSUME NEW R
      PROVE  /\ Submitted(R \cup {m}) = Submitted(R) \cup {Row(m)}
             /\ Resolved(R \cup {m}) = Resolved(R)
             /\ Approved(R \cup {m}) = Approved(R)
             /\ Consumed(R \cup {m}) = Consumed(R)
  <2>1. ReplayedWith(R \cup {m}, R, m)
    BY ReplayOneMore
  <2>2. QED  BY <2>1 DEF ReplayedWith
<1>3. /\ m.ref \notin Resolved(Own) /\ m.ref \notin Resolved(Segment)
      /\ m.ref \notin Approved(Own) /\ m.ref \notin Approved(Segment)
      /\ m.ref \notin Consumed(Own)
  BY ApprovedIsResolved DEF ChainIsTrue, LifecycleOrder, SegmentIsTrue
<1>4. Row(m).ref = m.ref
  BY DEF Row
<1>5. ASSUME NEW R, m.ref \notin Resolved(R), m.ref \notin Approved(R)
      PROVE  /\ Pending(R \cup {m}) = Pending(R) \cup {Row(m)}
             /\ Approvals(R \cup {m}) = Approvals(R)
  BY <1>2, <1>4, <1>5 DEF Pending, Approvals
<1>6. /\ Pending(Segment') = Pending(Segment) \cup {Row(m)}
      /\ Pending(Own') = Pending(Own) \cup {Row(m)}
      /\ Approvals(Segment') = Approvals(Segment)
      /\ Approvals(Own') = Approvals(Own)
  BY <1>1, <1>3, <1>5
<1>7. Decisions' = Decisions /\ Allows' = Allows
  BY <1>1 DEF Decisions, Allows, OfKind
<1>8. ChainShape'
  BY ShapeOfAppend DEF ChainIsTrue
<1>9. SegmentIsTrue' /\ OpenStateSurvivesRotation'
  BY <1>1, <1>2, <1>6 DEF ChainIsTrue, SegmentIsTrue, OpenStateSurvivesRotation
<1>10. LifecycleOrder'
  BY <1>1, <1>2, <1>7 DEF ChainIsTrue, LifecycleOrder, SubmittedRefs
<1>11. OfKind(Own', "submitted") = OfKind(Own, "submitted") \cup {m}
  BY <1>1 DEF OfKind
<1>12. OfKind(Own', "resolved") = OfKind(Own, "resolved")
  BY <1>1 DEF OfKind
<1>13. \A e \in Decisions : e.id < m.id
  <2>1. Sequence \in Nat /\ Chain \subseteq Records
    BY StateTyped
  <2>2. QED  BY <2>1 DEF ChainIsTrue, ChainShape, Decisions, OfKind, NextId, Records,
             DecisionRecords, SubmittedRecords, ResolvedRecords, ConsumedRecords,
             SealRecords, CheckpointRecords, Refs
<1>14. SubmittedIsBacked'
  BY <1>7, <1>11, <1>13 DEF ChainIsTrue, SubmittedIsBacked
<1>15. \A r \in OfKind(Own, "resolved") : r.ref # m.ref
  BY <1>3, OwnRecords
<1>16. ResolvedIsLater'
  BY <1>11, <1>12, <1>15 DEF ChainIsTrue, ResolvedIsLater
<1>17. QED  BY <1>3, <1>6, <1>8, <1>9, <1>10, <1>14, <1>16 DEF ChainIsTrue

\* No record of the past has the id of a record about to be appended.
LEMMA PastIsEarlier ==
    ASSUME TypeOK, ChainShape
    PROVE  \A n \in Chain : n.id \in Nat /\ n.id < NextId
<1>1. Sequence \in Nat /\ Chain \subseteq Records
  BY StateTyped
<1>2. QED  BY <1>1 DEF ChainShape, NextId, Records, DecisionRecords, SubmittedRecords,
           ResolvedRecords, ConsumedRecords, SealRecords, CheckpointRecords, Refs

\* Resolving a ref that the segment shows submitted and unresolved resolves it
\* for the first time in the whole chain, and closes the same rows there.
LEMMA ResolutionKeepsChain ==
    ASSUME TypeOK, ChainIsTrue, NEW m \in Records, m.kind = "resolved", m.id = NextId,
           Chained(m), m.ref \in SubmittedRefs(Segment), m.ref \notin Resolved(Segment)
    PROVE  /\ ChainIsTrue'
           /\ Pending(Segment') \subseteq Pending(Segment)
           /\ \A w \in Approvals(Segment') \ Approvals(Segment) : w \in Pending(Segment)
           /\ m.ref \notin Resolved(Own)
<1>1. Segment' = Segment \cup {m} /\ Chain' = Chain \cup {m} /\ Own' = Own \cup {m}
  BY ChainedAdds
<1>2. ASSUME NEW R
      PROVE  /\ Submitted(R \cup {m}) = Submitted(R)
             /\ Resolved(R \cup {m}) = Resolved(R) \cup {m.ref}
             /\ Approved(R \cup {m}) = Approved(R) \cup (IF m.approved THEN {m.ref} ELSE {})
             /\ Consumed(R \cup {m}) = Consumed(R)
  <2>1. ReplayedWith(R \cup {m}, R, m)
    BY ReplayOneMore
  <2>2. QED  BY <2>1 DEF ReplayedWith
<1>3. PICK w \in Submitted(Segment) : w.ref = m.ref
  BY DEF SubmittedRefs
<1>4. w \in Pending(Segment) /\ w \in Pending(Own)
  BY <1>3 DEF Pending, ChainIsTrue, OpenStateSurvivesRotation
<1>5. m.ref \notin Resolved(Own)
  BY <1>3, <1>4 DEF Pending
<1>6. m.ref \notin Consumed(Own) /\ m.ref \notin Consumed(Segment)
  BY <1>5, ApprovedIsResolved DEF ChainIsTrue, LifecycleOrder, SegmentIsTrue
<1>7. \A v : v \in Submitted(Own) /\ v.ref = m.ref <=> v \in Submitted(Segment) /\ v.ref = m.ref
  BY <1>5 DEF ChainIsTrue, OpenStateSurvivesRotation, Pending
<1>8. ASSUME NEW R
      PROVE  Pending(R \cup {m}) = {v \in Pending(R) : v.ref # m.ref}
  BY <1>2 DEF Pending
<1>9. ASSUME NEW R, m.ref \notin Consumed(R)
      PROVE  Approvals(R \cup {m}) = Approvals(R)
                 \cup (IF m.approved THEN {v \in Submitted(R) : v.ref = m.ref} ELSE {})
  BY <1>2, <1>9 DEF Approvals
<1>10. Pending(Segment') = Pending(Own')
  BY <1>1, <1>8 DEF ChainIsTrue, OpenStateSurvivesRotation
<1>11. Approvals(Segment') = Approvals(Own')
  <2>1. {v \in Submitted(Own) : v.ref = m.ref} = {v \in Submitted(Segment) : v.ref = m.ref}
    BY <1>7
  <2>2. QED  BY <1>1, <1>6, <1>9, <2>1 DEF ChainIsTrue, OpenStateSurvivesRotation
<1>12. \A v \in Approvals(Segment') \ Approvals(Segment) : v \in Pending(Segment)
  <2>1. \A v \in Submitted(Segment) : v.ref = m.ref => v \in Pending(Segment)
    BY DEF Pending
  <2>2. QED  BY <1>1, <1>6, <1>9, <2>1
<1>13. Pending(Segment') \subseteq Pending(Segment)
  BY <1>1, <1>8
<1>14. Decisions' = Decisions /\ Allows' = Allows
  BY <1>1 DEF Decisions, Allows, OfKind
<1>15. ChainShape'
  BY ShapeOfAppend DEF ChainIsTrue
<1>16. SegmentIsTrue'
  BY <1>1, <1>2 DEF ChainIsTrue, SegmentIsTrue
<1>17. LifecycleOrder'
  <2>1. m.ref \in SubmittedRefs(Own)
    BY <1>3 DEF SubmittedRefs, ChainIsTrue, SegmentIsTrue
  <2>2. QED  BY <1>1, <1>2, <1>14, <2>1 DEF ChainIsTrue, LifecycleOrder, SubmittedRefs
<1>18. /\ OfKind(Own', "submitted") = OfKind(Own, "submitted")
       /\ OfKind(Own', "resolved") = OfKind(Own, "resolved") \cup {m}
  BY <1>1 DEF OfKind
<1>19. SubmittedIsBacked'
  BY <1>14, <1>18 DEF ChainIsTrue, SubmittedIsBacked
<1>20. ResolvedIsLater'
  <2>1. \A s \in OfKind(Own, "submitted") : s.id < m.id
    BY PastIsEarlier DEF ChainIsTrue, OfKind, Own
  <2>2. QED  BY <1>18, <2>1 DEF ChainIsTrue, ResolvedIsLater
<1>21. QED
  BY <1>5, <1>10, <1>11, <1>12, <1>13, <1>15, <1>16, <1>17, <1>19, <1>20
     DEF ChainIsTrue, OpenStateSurvivesRotation

\* Consuming an approval the segment offers consumes it for the first time in
\* the whole chain; its history is complete from then on.
LEMMA ConsumptionKeepsChain ==
    ASSUME TypeOK, ChainIsTrue, NEW m \in Records, m.kind = "consumed", m.id = NextId,
           Chained(m), NEW req, [ref |-> m.ref, req |-> req] \in Approvals(Segment)
    PROVE  /\ ChainIsTrue'
           /\ Pending(Segment') = Pending(Segment)
           /\ Approvals(Segment') \subseteq Approvals(Segment)
           /\ m.ref \notin Consumed(Own)
           /\ Paid(m.ref, req)'
           /\ Allows' = Allows
<1>1. Segment' = Segment \cup {m} /\ Chain' = Chain \cup {m} /\ Own' = Own \cup {m}
  BY ChainedAdds
<1>2. ASSUME NEW R
      PROVE  /\ Submitted(R \cup {m}) = Submitted(R)
             /\ Resolved(R \cup {m}) = Resolved(R)
             /\ Approved(R \cup {m}) = Approved(R)
             /\ Consumed(R \cup {m}) = Consumed(R) \cup {m.ref}
  <2>1. ReplayedWith(R \cup {m}, R, m)
    BY ReplayOneMore
  <2>2. QED  BY <2>1 DEF ReplayedWith
<1>3. ASSUME NEW R
      PROVE  /\ Pending(R \cup {m}) = Pending(R)
             /\ Approvals(R \cup {m}) = {v \in Approvals(R) : v.ref # m.ref}
  BY <1>2 DEF Pending, Approvals
<1>4. OpenStateSurvivesRotation' /\ Pending(Segment') = Pending(Segment)
      /\ Approvals(Segment') \subseteq Approvals(Segment)
  BY <1>1, <1>3 DEF ChainIsTrue, OpenStateSurvivesRotation
<1> DEFINE w == [ref |-> m.ref, req |-> req]
<1>5. w \in Submitted(Own) /\ m.ref \in Approved(Own) /\ m.ref \notin Consumed(Own)
  BY DEF ChainIsTrue, OpenStateSurvivesRotation, Approvals
<1>6. Decisions' = Decisions /\ Allows' = Allows
  BY <1>1 DEF Decisions, Allows, OfKind
<1>7. ChainShape'
  BY ShapeOfAppend DEF ChainIsTrue
<1>8. SegmentIsTrue'
  <2>1. m.ref \in Consumed(Own) \cup {m.ref}
    OBVIOUS
  <2>2. QED  BY <1>1, <1>2 DEF ChainIsTrue, SegmentIsTrue
<1>9. LifecycleOrder'
  BY <1>1, <1>2, <1>5, <1>6 DEF ChainIsTrue, LifecycleOrder, SubmittedRefs
<1>10. /\ OfKind(Own', "submitted") = OfKind(Own, "submitted")
       /\ OfKind(Own', "resolved") = OfKind(Own, "resolved")
       /\ OfKind(Own', "consumed") = OfKind(Own, "consumed") \cup {m}
  BY <1>1 DEF OfKind
<1>11. SubmittedIsBacked' /\ ResolvedIsLater'
  BY <1>6, <1>10 DEF ChainIsTrue, SubmittedIsBacked, ResolvedIsLater
<1>12. PICK s \in OfKind(Own, "submitted") : Row(s) = w
  BY <1>5, OwnRecords
<1>13. s.ref = m.ref /\ s.req = req
  BY <1>12 DEF Row
<1>14. PICK r \in OfKind(Own, "resolved") : r.approved /\ r.ref = m.ref
  BY <1>5, OwnRecords
<1>15. s.id < r.id
  BY <1>13, <1>14 DEF ChainIsTrue, ResolvedIsLater
<1>16. PICK e \in Decisions : e.effect = "escalate" /\ e.id = s.ref /\ e.req = s.req /\ e.id < s.id
  BY DEF ChainIsTrue, SubmittedIsBacked
<1>17. r.id < m.id
  BY PastIsEarlier DEF ChainIsTrue, OfKind, Own
<1>18. Paid(m.ref, req)'
  BY <1>6, <1>10, <1>13, <1>14, <1>15, <1>16, <1>17 DEF Paid
<1>19. QED  BY <1>4, <1>5, <1>6, <1>7, <1>8, <1>9, <1>11, <1>18 DEF ChainIsTrue

\* Rotating keeps exactly the open state: the checkpoint alone replays to the
\* rows the whole chain leaves open.
LEMMA RotationKeepsChain ==
    ASSUME TypeOK, ChainIsTrue, NEW force, Rotate(force)
    PROVE  /\ ChainIsTrue'
           /\ Pending(Segment') = Pending(Segment)
           /\ Approvals(Segment') = Approvals(Segment)
           /\ Allows' = Allows
           /\ OfKind(Own', "consumed") = OfKind(Own, "consumed")
           /\ OfKind(Own', "resolved") = OfKind(Own, "resolved")
<1> DEFINE P == Pending(Segment)
           A == Approvals(Segment)
<1>1. /\ Segment' = {Checkpoint} /\ Chain' = Chain \cup {Seal, Checkpoint}
      /\ Own' = Own \cup {Seal} /\ Sequence' = NextId + 1
      /\ active' # <<>> /\ Len(active') = 1
      /\ Len(archive') = Len(archive) + Len(active) + 1
  BY RotateReplaces
<1>2. /\ Submitted(Segment') = P \cup A
      /\ Resolved(Segment') = {w.ref : w \in A}
      /\ Approved(Segment') = {w.ref : w \in A}
      /\ Consumed(Segment') = {}
  <2>1. /\ Checkpoint.kind = "checkpoint"
        /\ Checkpoint.pending = P /\ Checkpoint.approvals = A
    BY DEF Checkpoint, CarriedPending, CarriedApprovals
  <2>2. QED  BY <1>1, <2>1, ReplayCheckpoint
<1>3. \A v \in P, w \in A : v.ref # w.ref
  BY ApprovedIsResolved DEF Pending, Approvals
<1>4. Pending(Segment') = P
  BY <1>2, <1>3 DEF Pending
<1>5. Approvals(Segment') = A
  <2> HIDE DEF P, A
  <2>1. {w \in P \cup A : w.ref \in {v.ref : v \in A}} = A
    BY <1>3
  <2>2. QED  BY <1>2, <2>1 DEF Approvals
<1>6. /\ Submitted(Own') = Submitted(Own) /\ Resolved(Own') = Resolved(Own)
      /\ Approved(Own') = Approved(Own) /\ Consumed(Own') = Consumed(Own)
      /\ Pending(Own') = Pending(Own) /\ Approvals(Own') = Approvals(Own)
  BY <1>1, QuietRecord DEF Seal
<1>7. /\ OfKind(Own', "submitted") = OfKind(Own, "submitted")
      /\ OfKind(Own', "resolved") = OfKind(Own, "resolved")
      /\ OfKind(Own', "consumed") = OfKind(Own, "consumed")
  BY <1>1 DEF OfKind, Seal
<1>8. Decisions' = Decisions /\ Allows' = Allows
  BY <1>1 DEF Decisions, Allows, OfKind, Seal, Checkpoint
<1>9. OpenStateSurvivesRotation'
  BY <1>4, <1>5, <1>6 DEF ChainIsTrue, OpenStateSurvivesRotation
<1>10. SegmentIsTrue'
  <2>1. P \subseteq Submitted(Segment) /\ A \subseteq Submitted(Segment)
    BY DEF Pending, Approvals
  <2>2. {w.ref : w \in A} \subseteq Approved(Segment)
    BY DEF Approvals
  <2> HIDE DEF P, A
  <2>3. QED  BY <1>2, <1>6, <2>1, <2>2, ApprovedIsResolved DEF ChainIsTrue, SegmentIsTrue
<1>11. LifecycleOrder'
  BY <1>6, <1>8 DEF ChainIsTrue, LifecycleOrder, SubmittedRefs
<1>12. SubmittedIsBacked' /\ ResolvedIsLater'
  BY <1>7, <1>8 DEF ChainIsTrue, SubmittedIsBacked, ResolvedIsLater
<1>13. ChainShape'
  <2>1. Len(active) \in Nat /\ Len(archive) \in Nat /\ Sequence \in Nat
    BY StateTyped DEF TypeOK
  <2>2. \A n \in Chain' : n.id =< Sequence'
    BY <1>1, <2>1, PastIsEarlier DEF ChainIsTrue, NextId, Seal, Checkpoint
  <2>3. QED  BY <1>1, <2>1, <2>2 DEF ChainIsTrue, ChainShape, NextId
<1>14. QED  BY <1>4, <1>5, <1>7, <1>8, <1>9, <1>10, <1>11, <1>12, <1>13 DEF ChainIsTrue

\* A call spends at most the approval it names; a frame that allows without one
\* is for a scope that does not escalate.
LEMMA CallKeeps == ASSUME IInv, Call PROVE IInv'
<1> USE DEF IInv
<1>1. TypeOK'
  BY TypeStep DEF Next
<1>2. ChainIsTrue
  BY DEF ChainIsTrue
<1>3. PICK req \in Requests, verified \in BOOLEAN, granted \in BOOLEAN :
          \/ Refuse(req, verified, granted)
          \/ Grant(req, verified, granted)
          \/ \E ref \in CallerRefs : Spend(req, ref) \/ Escalate(req, ref)
  BY DEF Call
<1>4. CASE \/ Refuse(req, verified, granted) \/ Grant(req, verified, granted)
           \/ \E ref \in CallerRefs : Escalate(req, ref)
  <2>1. UNCHANGED <<archive, active>>
    BY <1>4 DEF Refuse, Grant, Escalate
  <2>2. ChainIsTrue'
    BY <1>2, <2>1, ChainStutter
  <2>3. /\ pc' = "decide" /\ frame'.approval = NoRef
        /\ frame'.effect = "allow" => frame'.req.action \notin Escalating
    BY <1>4 DEF Refuse, Grant, Escalate, Begin
  <2>4. FrameIsTrue'
    BY <2>3 DEF FrameIsTrue
  <2>5. QED  BY <1>1, <2>2, <2>4 DEF ChainIsTrue
<1>5. ASSUME NEW ref \in CallerRefs, Spend(req, ref) PROVE IInv'
  <2> DEFINE m == [id |-> NextId, kind |-> "consumed", ref |-> ref]
  <2>1. ref \in Refs
    BY <1>5, ConsumableTyped DEF Spend
  <2>2. m \in Records
    BY <1>5, <2>1, RecordsTyped DEF Spend, Chained
  <2>3. Chained(m) /\ [ref |-> m.ref, req |-> req] \in Approvals(Segment)
    BY <1>5 DEF Spend, CanConsume
  <2>4. /\ ChainIsTrue' /\ ref \notin Consumed(Own)
        /\ Paid(ref, req)' /\ Allows' = Allows
    <3>1. m.kind = "consumed" /\ m.id = NextId /\ m.ref = ref
      OBVIOUS
    <3> HIDE DEF m
    <3>2. QED  BY <1>2, <2>2, <2>3, <3>1, ConsumptionKeepsChain
  <2>5. /\ pc' = "decide" /\ frame'.approval = ref /\ frame'.req = req
    BY <1>5 DEF Spend, Begin
  <2>6. ref # NoRef
    BY <2>1 DEF Refs, NoRef
  <2>7. \A d \in Allows : d.approval # ref
    BY <2>4, <2>6 DEF LifecycleOrder
  <2>8. FrameIsTrue'
    BY <2>4, <2>5, <2>6, <2>7 DEF FrameIsTrue
  <2>9. QED  BY <1>1, <2>4, <2>8 DEF ChainIsTrue
<1>6. QED  BY <1>3, <1>4, <1>5

\* The decision a frame records, under a name the lemmas can use.
DecisionRecord == [id |-> NextId, kind |-> "decision", req |-> frame.req,
                   effect |-> frame.effect, approval |-> frame.approval]

\* What recording the decision of a frame needs and does.
LEMMA DecideAppends ==
    ASSUME IInv, Decide
    PROVE  /\ frame \in Frames
           /\ DecisionRecord \in Records /\ DecisionRecord.kind = "decision"
           /\ DecisionRecord.id = NextId /\ Chained(DecisionRecord)
           /\ DecisionRecord.req = frame.req /\ DecisionRecord.effect = frame.effect
           /\ DecisionRecord.approval = frame.approval
           /\ DecisionRecord.effect = "allow" /\ DecisionRecord.approval # NoRef
                 => DecisionRecord.approval \in Consumed(Own)
<1>1. frame \in Frames /\ Chained(DecisionRecord)
  BY DEF IInv, TypeOK, Decide, DecisionRecord
<1>2. DecisionRecord \in Records
  BY <1>1, RecordsTyped DEF IInv, DecisionRecord, Frames, Chained
<1>3. frame.approval # NoRef => frame.approval \in Consumed(Own)
  BY OwnRecords DEF IInv, FrameIsTrue, Decide, Paid
<1>4. QED  BY <1>1, <1>2, <1>3 DEF DecisionRecord

\* Recording a decision keeps the invariant: an allow was paid for, an escalate
\* moves on to be queued.
LEMMA DecideKeeps == ASSUME IInv, Decide PROVE IInv'
<1> DEFINE m == DecisionRecord
<1>1. TypeOK'
  BY TypeStep DEF Next, IInv
<1>2. /\ ChainIsTrue' /\ Decisions' = Decisions \cup {m}
      /\ Own' = Own \cup {m} /\ Submitted(Own') = Submitted(Own)
  BY DecideAppends, DecisionKeepsChain DEF IInv, ChainIsTrue
<1>3. CASE frame.effect = "escalate"
  <2>1. pc' = "submit" /\ frame'.decision = NextId /\ frame'.req = frame.req
    BY <1>3, DecideAppends DEF Decide, Frames
  <2>2. m.effect = "escalate" /\ m.id = NextId /\ m.req = frame.req
    BY <1>3, DecideAppends
  <2>3. NextId \notin SubmittedRefs(Own)
    <3>1. \A s \in OfKind(Own, "submitted") : s.ref # NextId
      <4>1. \A e \in Decisions : e.id # NextId
        <5>1. \A e \in Decisions : e.id \in Nat /\ e.id < NextId
          BY PastIsEarlier DEF IInv, Decisions, OfKind
        <5>2. NextId \in Nat
          BY StateTyped DEF IInv, NextId
        <5>3. QED  BY <5>1, <5>2
      <4>2. QED  BY <4>1 DEF IInv, SubmittedIsBacked
    <3>2. QED  BY <3>1, OwnRecords DEF SubmittedRefs, Row
  <2>4. FrameIsTrue'
    BY <1>2, <2>1, <2>2, <2>3 DEF FrameIsTrue, SubmittedRefs
  <2>5. QED  BY <1>1, <1>2, <2>4 DEF IInv, ChainIsTrue
<1>4. CASE frame.effect # "escalate"
  <2>1. pc' = "idle"
    BY <1>4 DEF Decide
  <2>2. QED  BY <1>1, <1>2, <2>1 DEF IInv, ChainIsTrue, FrameIsTrue
<1>5. QED  BY <1>3, <1>4

\* The record a frame queues its escalation with.
SubmittedRecord == [id |-> NextId, kind |-> "submitted",
                    ref |-> frame.decision, req |-> frame.req]

\* What queueing an escalation needs and does.
LEMMA SubmitAppends ==
    ASSUME IInv, Submit
    PROVE  /\ SubmittedRecord \in Records /\ SubmittedRecord.kind = "submitted"
           /\ SubmittedRecord.id = NextId /\ Chained(SubmittedRecord)
           /\ SubmittedRecord.ref = frame.decision /\ SubmittedRecord.req = frame.req
           /\ SubmittedRecord.ref \notin SubmittedRefs(Own)
           /\ \E e \in Decisions : e.effect = "escalate" /\ e.id = SubmittedRecord.ref
                                  /\ e.req = SubmittedRecord.req
<1>1. frame \in Frames /\ frame.decision \in Refs /\ Chained(SubmittedRecord)
  BY DEF IInv, TypeOK, Submit, SubmittedRecord
<1>2. SubmittedRecord \in Records
  BY <1>1, RecordsTyped DEF IInv, SubmittedRecord, Frames, Chained
<1>3. QED  BY <1>1, <1>2 DEF SubmittedRecord, IInv, FrameIsTrue, Submit

\* Queueing an escalation keeps the invariant: its decision is on the chain.
LEMMA SubmitKeeps == ASSUME IInv, Submit PROVE IInv'
<1>1. TypeOK'
  BY TypeStep DEF Next, IInv
<1>2. ChainIsTrue'
  BY SubmitAppends, SubmissionKeepsChain DEF IInv, ChainIsTrue
<1>3. FrameIsTrue'
  BY DEF Submit, FrameIsTrue
<1>4. QED  BY <1>1, <1>2, <1>3 DEF IInv, ChainIsTrue

\* The record of a human's decision.
ResolvedRecord(ref, b) == [id |-> NextId, kind |-> "resolved", ref |-> ref, approved |-> b]

\* What resolving needs and does.
LEMMA ResolveAppends ==
    ASSUME IInv, NEW ref \in Refs, NEW b \in BOOLEAN, Resolve(ref, b)
    PROVE  LET m == ResolvedRecord(ref, b)
           IN  /\ m \in Records /\ m.kind = "resolved" /\ m.id = NextId /\ Chained(m)
               /\ m.ref = ref /\ m.ref \in SubmittedRefs(Segment)
               /\ m.ref \notin Resolved(Segment)
<1>1. ResolvedRecord(ref, b) \in Records
  BY RecordsTyped DEF IInv, ResolvedRecord, Resolve, Chained
<1>2. QED  BY <1>1 DEF ResolvedRecord, Resolve, SubmittedRefs

\* A human's decision on a pending row keeps the invariant.
LEMMA ResolveKeeps ==
    ASSUME IInv, NEW ref \in Refs, NEW b \in BOOLEAN, Resolve(ref, b) PROVE IInv'
<1>1. TypeOK'
  BY TypeStep DEF Next, IInv
<1>2. ChainIsTrue'
  BY ResolveAppends, ResolutionKeepsChain DEF IInv, ChainIsTrue
<1>3. FrameIsTrue'
  BY DEF Resolve, FrameIsTrue
<1>4. QED  BY <1>1, <1>2, <1>3 DEF IInv, ChainIsTrue

\* A rotation keeps the invariant: the checkpoint seeds what was open.
LEMMA RotateKeeps == ASSUME IInv, NEW force \in BOOLEAN, Rotate(force) PROVE IInv'
<1>1. TypeOK'
  BY TypeStep DEF Next, IInv
<1>2. ChainIsTrue'
  BY RotationKeepsChain DEF IInv, ChainIsTrue
<1>3. FrameIsTrue'
  BY DEF Rotate, FrameIsTrue
<1>4. QED  BY <1>1, <1>2, <1>3 DEF IInv, ChainIsTrue

\* Steps that write nothing: coalescing, a frame given up, starting, stopping,
\* stuttering.
LEMMA QuietKeeps ==
    ASSUME IInv, Coalesce \/ AppendRaises \/ Start \/ Stop \/ UNCHANGED vars
    PROVE  IInv' /\ UNCHANGED <<archive, active>>
<1>1. UNCHANGED <<archive, active>>
  BY DEF Coalesce, AppendRaises, Start, Stop, vars
<1>2. TypeOK'
  BY TypeStep DEF Next, IInv
<1>3. /\ ChainIsTrue' /\ Own' = Own /\ Allows' = Allows /\ Decisions' = Decisions
      /\ \A ref, req : Paid(ref, req) => Paid(ref, req)'
  BY <1>1, ChainStutter DEF IInv, ChainIsTrue
<1>4. CASE Coalesce \/ AppendRaises \/ Start \/ Stop
  BY <1>1, <1>2, <1>3, <1>4 DEF Coalesce, AppendRaises, Start, Stop, FrameIsTrue, IInv, ChainIsTrue
<1>5. CASE UNCHANGED vars
  <2>1. FrameIsTrue'
    BY <1>3, <1>5 DEF vars, FrameIsTrue, IInv, SubmittedRefs
  <2>2. QED  BY <1>1, <1>2, <1>3, <2>1 DEF IInv, ChainIsTrue
<1>6. QED  BY <1>4, <1>5

\* The initial chain is empty.
LEMMA InitEmpty ==
    ASSUME Init
    PROVE  /\ Segment = {} /\ Chain = {} /\ Own = {} /\ Decisions = {} /\ Allows = {}
           /\ Sequence = 0
           /\ Submitted({}) = {} /\ Resolved({}) = {} /\ Approved({}) = {} /\ Consumed({}) = {}
           /\ OfKind({}, "submitted") = {} /\ OfKind({}, "resolved") = {}
<1>1. Elements(<<>>) = {}
  BY DEF Elements
<1>2. Segment = {} /\ Chain = {} /\ Own = {} /\ Sequence = 0
  BY <1>1 DEF Init, Segment, Chain, Own, Sequence
<1>3. \A k : OfKind({}, k) = {}
  BY DEF OfKind
<1>4. Decisions = {} /\ Allows = {}
  BY <1>2, <1>3 DEF Decisions, Allows
<1>5. SeededPending({}) = {} /\ SeededApprovals({}) = {}
  BY <1>3 DEF SeededPending, SeededApprovals
<1>6. QED  BY <1>2, <1>3, <1>4, <1>5 DEF Submitted, Resolved, Approved, Consumed

\* The empty chain satisfies the invariant.
LEMMA InvInit == Init => IInv
<1> SUFFICES ASSUME Init PROVE IInv
  OBVIOUS
<1>1. TypeOK
  BY DEF Init, TypeOK, Places
<1>2. ChainShape
  BY InitEmpty DEF Init, ChainShape
<1>3. SegmentIsTrue /\ LifecycleOrder /\ SubmittedIsBacked /\ ResolvedIsLater
  BY InitEmpty DEF SegmentIsTrue, LifecycleOrder, SubmittedIsBacked, ResolvedIsLater,
     SubmittedRefs
<1>4. FrameIsTrue
  BY DEF Init, FrameIsTrue
<1>5. OpenStateSurvivesRotation
  BY InitEmpty DEF OpenStateSurvivesRotation
<1>6. QED  BY <1>1, <1>2, <1>3, <1>4, <1>5 DEF IInv

\* Every step keeps the invariant.
LEMMA InvStep == ASSUME IInv, [Next]_vars PROVE IInv'
BY CallKeeps, DecideKeeps, SubmitKeeps, ResolveKeeps, RotateKeeps, QuietKeeps DEF Next

\* The inductive invariant holds in every reachable state.
THEOREM Invariance == Spec => []IInv
<1>1. IInv /\ [Next]_vars => IInv'
  BY InvStep
<1>2. QED  BY InvInit, <1>1, PTL DEF Spec

\* Whatever was rotated away, the active segment alone knows exactly what may
\* still be decided and spent.
THEOREM OpenStateSafe == Spec => []OpenStateSurvivesRotation
<1>1. IInv => OpenStateSurvivesRotation
  BY DEF IInv
<1>2. QED  BY Invariance, <1>1, PTL

-----------------------------------------------------------------------------
(* The safety properties, each kept by every step given IInv *)

\* Which steps can add a submission, a consumption, a resolution or an allow, and
\* which.
LEMMA WhatIsNew ==
    ASSUME IInv, [Next]_vars
    PROVE  /\ \/ OfKind(Chain', "consumed") = OfKind(Chain, "consumed")
              \/ \E m : /\ OfKind(Chain', "consumed") = OfKind(Chain, "consumed") \cup {m}
                        /\ m.ref \notin Consumed(Own)
           /\ \/ OfKind(Chain', "resolved") = OfKind(Chain, "resolved")
              \/ \E m : /\ OfKind(Chain', "resolved") = OfKind(Chain, "resolved") \cup {m}
                        /\ m.ref \notin Resolved(Own)
           /\ \/ OfKind(Chain', "submitted") = OfKind(Chain, "submitted")
              \/ /\ Submit
                 /\ OfKind(Chain', "submitted") = OfKind(Chain, "submitted") \cup {SubmittedRecord}
           /\ \/ Allows' = Allows
              \/ Decide /\ Allows' = Allows \cup {DecisionRecord} /\ frame.effect = "allow"
           /\ Chain \subseteq Chain'
<1> DEFINE Quiet == /\ Chain \subseteq Chain'
                    /\ OfKind(Chain', "consumed") = OfKind(Chain, "consumed")
                    /\ OfKind(Chain', "resolved") = OfKind(Chain, "resolved")
                    /\ OfKind(Chain', "submitted") = OfKind(Chain, "submitted")
                    /\ Allows' = Allows
<1>1. ASSUME UNCHANGED <<archive, active>> PROVE Quiet
  BY <1>1, ChainStutter DEF IInv, ChainIsTrue
<1>2. CASE Call
  <2>1. PICK req \in Requests, verified \in BOOLEAN, granted \in BOOLEAN :
            \/ Refuse(req, verified, granted)
            \/ Grant(req, verified, granted)
            \/ \E ref \in CallerRefs : Spend(req, ref) \/ Escalate(req, ref)
    BY <1>2 DEF Call
  <2>2. CASE UNCHANGED <<archive, active>>
    BY <1>1, <2>2
  <2>3. ASSUME NEW ref \in CallerRefs, Spend(req, ref)
        PROVE  /\ \E m : /\ OfKind(Chain', "consumed") = OfKind(Chain, "consumed") \cup {m}
                         /\ m.ref \notin Consumed(Own)
               /\ OfKind(Chain', "resolved") = OfKind(Chain, "resolved")
               /\ OfKind(Chain', "submitted") = OfKind(Chain, "submitted")
               /\ Allows' = Allows
               /\ Chain \subseteq Chain'
    <3> DEFINE m == [id |-> NextId, kind |-> "consumed", ref |-> ref]
    <3>1. m \in Records /\ m.kind = "consumed" /\ m.id = NextId /\ Chained(m) /\ m.ref = ref
      BY <2>3, ConsumableTyped, RecordsTyped DEF Spend, Chained, IInv
    <3>2. ref \notin Consumed(Own)
      BY <2>3 DEF IInv, OpenStateSurvivesRotation, Spend, CanConsume, Approvals
    <3> HIDE DEF m
    <3>3. Chain' = Chain \cup {m}
      BY <3>1, ChainedAdds DEF IInv
    <3>4. /\ OfKind(Chain', "consumed") = OfKind(Chain, "consumed") \cup {m}
          /\ OfKind(Chain', "resolved") = OfKind(Chain, "resolved")
          /\ OfKind(Chain', "submitted") = OfKind(Chain, "submitted")
          /\ Allows' = Allows
      BY <3>1, <3>3 DEF OfKind, Allows, Decisions
    <3>5. QED  BY <3>1, <3>2, <3>3, <3>4
  <2>4. QED  BY <2>1, <2>2, <2>3 DEF Refuse, Grant, Escalate
<1>3. CASE Decide
  <2>1. Chain' = Chain \cup {DecisionRecord} /\ DecisionRecord.kind = "decision"
    BY <1>3, DecideAppends, ChainedAdds DEF IInv
  <2>2. /\ OfKind(Chain', "consumed") = OfKind(Chain, "consumed")
        /\ OfKind(Chain', "resolved") = OfKind(Chain, "resolved")
        /\ OfKind(Chain', "submitted") = OfKind(Chain, "submitted")
        /\ Decisions' = Decisions \cup {DecisionRecord}
    BY <2>1 DEF OfKind, Decisions
  <2>3. DecisionRecord.effect = frame.effect
    BY DEF DecisionRecord
  <2>4. Allows' = Allows \cup (IF frame.effect = "allow" THEN {DecisionRecord} ELSE {})
    BY <2>2, <2>3 DEF Allows
  <2>5. QED  BY <1>3, <2>1, <2>2, <2>4
<1>4. CASE Submit
  <2>1. Chain' = Chain \cup {SubmittedRecord} /\ SubmittedRecord.kind = "submitted"
    BY <1>4, SubmitAppends, ChainedAdds DEF IInv
  <2>2. /\ OfKind(Chain', "consumed") = OfKind(Chain, "consumed")
        /\ OfKind(Chain', "resolved") = OfKind(Chain, "resolved")
        /\ OfKind(Chain', "submitted") = OfKind(Chain, "submitted") \cup {SubmittedRecord}
        /\ Allows' = Allows
    BY <2>1 DEF OfKind, Allows, Decisions
  <2>3. QED  BY <1>4, <2>1, <2>2
<1>5. ASSUME NEW ref \in Refs, NEW b \in BOOLEAN, Resolve(ref, b)
      PROVE  /\ \E m : /\ OfKind(Chain', "resolved") = OfKind(Chain, "resolved") \cup {m}
                       /\ m.ref \notin Resolved(Own)
             /\ OfKind(Chain', "consumed") = OfKind(Chain, "consumed")
             /\ OfKind(Chain', "submitted") = OfKind(Chain, "submitted")
             /\ Allows' = Allows
             /\ Chain \subseteq Chain'
  <2> DEFINE m == ResolvedRecord(ref, b)
  <2>1. /\ m \in Records /\ m.kind = "resolved" /\ m.id = NextId /\ Chained(m)
        /\ m.ref \in SubmittedRefs(Segment) /\ m.ref \notin Resolved(Segment)
    BY <1>5, ResolveAppends
  <2> HIDE DEF m
  <2>2. Chain' = Chain \cup {m} /\ m.ref \notin Resolved(Own)
    BY <2>1, ChainedAdds, ResolutionKeepsChain DEF IInv, ChainIsTrue
  <2>3. /\ OfKind(Chain', "resolved") = OfKind(Chain, "resolved") \cup {m}
        /\ OfKind(Chain', "consumed") = OfKind(Chain, "consumed")
        /\ OfKind(Chain', "submitted") = OfKind(Chain, "submitted")
        /\ Allows' = Allows
    BY <2>1, <2>2 DEF OfKind, Allows, Decisions
  <2>4. QED  BY <2>2, <2>3
<1>6. ASSUME NEW force \in BOOLEAN, Rotate(force) PROVE Quiet
  <2>1. Chain' = Chain \cup {Seal, Checkpoint} /\ Allows' = Allows
    BY <1>6, RotateReplaces, RotationKeepsChain DEF IInv, ChainIsTrue
  <2>2. QED  BY <2>1 DEF OfKind, Seal, Checkpoint
<1>7. CASE Coalesce \/ AppendRaises \/ Start \/ Stop \/ UNCHANGED vars
  BY <1>1, <1>7, QuietKeeps
<1>8. QED  BY <1>2, <1>3, <1>4, <1>5, <1>6, <1>7 DEF Next

\* Consumptions and resolutions of the chain are those of Own.
LEMMA SameAsOwn ==
    /\ Consumed(Own) = {m.ref : m \in OfKind(Chain, "consumed")}
    /\ Resolved(Own) = {m.ref : m \in OfKind(Chain, "resolved")}
<1>1. /\ OfKind(Own, "consumed") = OfKind(Chain, "consumed")
      /\ OfKind(Own, "resolved") = OfKind(Chain, "resolved")
  BY DEF OfKind, Own
<1>2. QED  BY <1>1, OwnRecords

\* Appending the next record, or rotating, goes on counting.
LEMMA IdsStep == ASSUME IInv, IdsContinue, [Next]_vars PROVE IdsContinue'
<1>1. /\ active \in Seq(Records) /\ archive \in Seq(Records)
      /\ NextId = Len(archive) + Len(active) + 1
  BY DEF IInv, TypeOK, ChainShape, NextId
<1>2. ASSUME NEW m \in Records, m.id = NextId, Chained(m) PROVE IdsContinue'
  BY <1>1, <1>2 DEF Chained, IdsContinue
<1>3. CASE UNCHANGED <<archive, active>>
  BY <1>3 DEF IdsContinue
<1>4. ASSUME NEW ref \in Refs, TypeOK, Room(1)
      PROVE  LET m == [id |-> NextId, kind |-> "consumed", ref |-> ref]
             IN  m \in Records /\ m.id = NextId
  BY <1>4, RecordsTyped
<1>5. CASE Call
  <2>1. ASSUME NEW req \in Requests, NEW ref \in CallerRefs, Spend(req, ref) PROVE IdsContinue'
    <3>1. ref \in Refs /\ Room(1) /\ TypeOK
      BY <2>1, ConsumableTyped DEF IInv, Spend, Chained
    <3>2. QED  BY <1>2, <1>4, <2>1, <3>1 DEF Spend
  <2>2. QED  BY <1>3, <1>5, <2>1 DEF Call, Refuse, Grant, Escalate
<1>6. CASE Decide
  BY <1>2, <1>6, DecideAppends
<1>7. CASE Submit
  BY <1>2, <1>7, SubmitAppends
<1>8. ASSUME NEW ref \in Refs, NEW b \in BOOLEAN, Resolve(ref, b) PROVE IdsContinue'
  BY <1>2, <1>8, ResolveAppends
<1>9. ASSUME NEW force \in BOOLEAN, Rotate(force) PROVE IdsContinue'
  <2> DEFINE sealed == Append(active, Seal)
  <2>1. Seal \in Records /\ Checkpoint \in Records
    BY <1>9, RotateReplaces DEF IInv
  <2>2. archive' = archive \o sealed /\ active' = <<Checkpoint>>
    BY <1>9 DEF Rotate, Seal, Checkpoint
  <2>3. /\ sealed \in Seq(Records) /\ Len(sealed) = Len(active) + 1
        /\ \A i \in DOMAIN sealed : sealed[i].id = Len(archive) + i
    <3>1. Seal.id = NextId
      BY DEF Seal
    <3>2. /\ sealed \in Seq(Records) /\ Len(sealed) = Len(active) + 1
          /\ sealed[Len(active) + 1] = Seal
          /\ \A i \in DOMAIN active : sealed[i] = active[i]
      BY <1>1, <2>1
    <3> HIDE DEF sealed
    <3>3. \A i \in DOMAIN sealed : i \in DOMAIN active \/ i = Len(active) + 1
      BY <1>1, <3>2
    <3>4. ASSUME NEW i \in DOMAIN active PROVE sealed[i].id = Len(archive) + i
      BY <3>2, <3>4 DEF IdsContinue
    <3>5. sealed[Len(active) + 1].id = Len(archive) + (Len(active) + 1)
      <4>1. Len(archive) \in Nat /\ Len(active) \in Nat
        BY <1>1
      <4>2. QED  BY <1>1, <3>1, <3>2, <4>1
    <3>6. QED  BY <3>2, <3>3, <3>4, <3>5
  <2> HIDE DEF sealed
  <2>4. /\ Len(archive') = Len(archive) + Len(active) + 1
        /\ \A i \in DOMAIN archive' : archive'[i].id = i
    <3>1. /\ Len(archive \o sealed) = Len(archive) + Len(sealed)
          /\ \A i \in 1 .. Len(archive) + Len(sealed) :
                (archive \o sealed)[i] = IF i =< Len(archive) THEN archive[i]
                                                             ELSE sealed[i - Len(archive)]
      BY <1>1, <2>3, ConcatProperties
    <3>2. Len(archive) \in Nat /\ Len(active) \in Nat /\ Len(sealed) \in Nat
          /\ DOMAIN archive = 1 .. Len(archive) /\ DOMAIN sealed = 1 .. Len(sealed)
      BY <1>1, <2>3
    <3>3. archive' \in Seq(Records) /\ Len(archive') = Len(archive) + Len(sealed)
      BY <1>1, <2>2, <2>3, <3>1
    <3>4. DOMAIN archive' = 1 .. Len(archive) + Len(sealed)
      BY <3>3
    <3>5. ASSUME NEW i \in 1 .. Len(archive) + Len(sealed) PROVE archive'[i].id = i
      <4>1. CASE i =< Len(archive)
        <5>1. archive'[i] = archive[i] /\ i \in DOMAIN archive
          BY <2>2, <3>1, <3>2, <4>1
        <5>2. QED  BY <5>1 DEF IdsContinue
      <4>2. CASE ~(i =< Len(archive))
        <5>1. /\ archive'[i] = sealed[i - Len(archive)]
              /\ i - Len(archive) \in DOMAIN sealed
          BY <2>2, <3>1, <3>2, <4>2
        <5>2. archive'[i].id = Len(archive) + (i - Len(archive))
          BY <2>3, <5>1
        <5>3. QED  BY <3>2, <5>2
      <4>3. QED  BY <4>1, <4>2
    <3>6. QED  BY <2>3, <3>2, <3>3, <3>4, <3>5
  <2>5. Checkpoint.id = NextId + 1
    BY DEF Checkpoint
  <2>6. \A i \in DOMAIN active' : active'[i].id = Len(archive') + i
    BY <1>1, <2>1, <2>2, <2>4, <2>5
  <2>7. QED  BY <2>4, <2>6 DEF IdsContinue
<1>10. CASE Coalesce \/ AppendRaises \/ Start \/ Stop \/ UNCHANGED vars
  BY <1>3, <1>10, QuietKeeps
<1>11. QED  BY <1>5, <1>6, <1>7, <1>8, <1>9, <1>10 DEF Next

\* An id is the number of its record in the whole chain, over rotations and
\* restarts, so no two records share one.
THEOREM IdsContinueHolds == Spec => []IdsContinue
<1>1. Init => IdsContinue
  BY DEF Init, IdsContinue
<1>2. IInv /\ IdsContinue /\ [Next]_vars => IdsContinue'
  BY IdsStep
<1>3. QED  BY <1>1, <1>2, Invariance, PTL DEF Spec

\* What the policy checked of a call it allows without a human.
Grounds(req) == /\ req.action \in Bindings[req.subject]
                /\ <<req.action, req.resource>> \in InScope
FrameIsGrounded == (pc = "decide" /\ frame.effect = "allow" /\ frame.req.action \notin Escalating)
                        => Grounds(frame.req)

\* An allow is put in a frame on its grounds, and recorded from it.
LEMMA GroundsStep ==
    ASSUME IInv, FrameIsGrounded, LeastPrivilege, [Next]_vars
    PROVE  FrameIsGrounded' /\ LeastPrivilege'
<1>1. FrameIsGrounded'
  <2>1. CASE Call
    <3>1. PICK req \in Requests, verified \in BOOLEAN, granted \in BOOLEAN :
              /\ granted => req.action \in Bindings[req.subject]
              /\ \/ Refuse(req, verified, granted)
                 \/ Grant(req, verified, granted)
                 \/ /\ Escalates(req, verified, granted)
                    /\ \E ref \in CallerRefs : Spend(req, ref) \/ Escalate(req, ref)
      BY <2>1 DEF Call
    <3>2. CASE Refuse(req, verified, granted)
      BY <3>2 DEF Refuse, Begin, FrameIsGrounded
    <3>3. CASE Grant(req, verified, granted)
      <4>1. Grounds(req)
        BY <3>1, <3>3 DEF Grant, Refused, Grounds
      <4>2. frame'.req = req
        BY <3>3 DEF Grant, Begin
      <4>3. QED  BY <4>1, <4>2 DEF FrameIsGrounded, Grounds
    <3>4. CASE Escalates(req, verified, granted)
                 /\ \E ref \in CallerRefs : Spend(req, ref) \/ Escalate(req, ref)
      BY <3>4 DEF Escalates, Spend, Escalate, Begin, FrameIsGrounded
    <3>5. QED  BY <3>1, <3>2, <3>3, <3>4
  <2>2. CASE \/ Decide \/ Submit \/ Coalesce \/ AppendRaises \/ Start \/ Stop
             \/ \E force \in BOOLEAN : Rotate(force)
    BY <2>2 DEF Decide, Submit, Coalesce, AppendRaises, Start, Stop, Rotate, FrameIsGrounded
  <2>3. CASE (\E ref \in Refs, approved \in BOOLEAN : Resolve(ref, approved)) \/ UNCHANGED vars
    BY <2>3 DEF Resolve, vars, FrameIsGrounded, Grounds
  <2>4. QED  BY <2>1, <2>2, <2>3 DEF Next
<1>2. LeastPrivilege'
  <2>1. CASE Allows' = Allows
    BY <2>1 DEF LeastPrivilege
  <2>2. CASE Decide /\ Allows' = Allows \cup {DecisionRecord} /\ frame.effect = "allow"
    <3>1. DecisionRecord.req = frame.req
      BY DEF DecisionRecord
    <3>2. frame.req.action \notin Escalating => Grounds(frame.req)
      BY <2>2 DEF FrameIsGrounded, Decide
    <3>3. QED  BY <2>2, <3>1, <3>2 DEF LeastPrivilege, Grounds
  <2>3. QED  BY <2>1, <2>2, WhatIsNew
<1>3. QED  BY <1>1, <1>2

\* An allow no human bought is within the binding of its role and the resources
\* of its scope.
THEOREM LeastPrivilegeHolds == Spec => []LeastPrivilege
<1>1. Init => FrameIsGrounded /\ LeastPrivilege
  BY InitEmpty DEF Init, FrameIsGrounded, LeastPrivilege
<1>2. IInv /\ FrameIsGrounded /\ LeastPrivilege /\ [Next]_vars => FrameIsGrounded' /\ LeastPrivilege'
  BY GroundsStep
<1>3. QED  BY <1>1, <1>2, Invariance, PTL DEF Spec

\* No escalation is ever decided twice.
THEOREM DecidedOnceHolds == Spec => []DecidedOnce
<1>1. Init => DecidedOnce
  BY InitEmpty DEF DecidedOnce
<1>2. ASSUME IInv, DecidedOnce, [Next]_vars PROVE DecidedOnce'
  BY <1>2, WhatIsNew, SameAsOwn DEF DecidedOnce
<1>3. QED  BY <1>1, <1>2, Invariance, PTL DEF Spec

\* No approval is ever spent twice, nor turned into two allows.
THEOREM SpentOnceHolds == Spec => []SpentOnce
<1>1. Init => SpentOnce
  BY InitEmpty DEF SpentOnce, OfKind
<1>2. ASSUME IInv, SpentOnce, [Next]_vars PROVE SpentOnce'
  <2>1. \A m, n \in OfKind(Chain', "consumed") : m.ref = n.ref => m = n
    BY <1>2, WhatIsNew, SameAsOwn DEF SpentOnce
  <2>2. \A d, e \in Allows' : d.approval = e.approval /\ d.approval # NoRef => d = e
    <3>1. CASE Allows' = Allows
      BY <1>2, <3>1 DEF SpentOnce
    <3>2. CASE Decide /\ Allows' = Allows \cup {DecisionRecord}
      <4>1. DecisionRecord.approval = frame.approval
        BY DEF DecisionRecord
      <4>2. frame.approval # NoRef => \A d \in Allows : d.approval # frame.approval
        BY <1>2, <3>2 DEF IInv, FrameIsTrue, Decide
      <4>3. QED  BY <1>2, <3>2, <4>1, <4>2 DEF SpentOnce
    <3>3. QED  BY <1>2, <3>1, <3>2, WhatIsNew
  <2>3. QED  BY <2>1, <2>2 DEF SpentOnce
<1>3. QED  BY <1>1, <1>2, Invariance, PTL DEF Spec

\* No escalating scope is ever allowed without its own submission, approval and
\* consumption, in this order.
THEOREM EscalatingNeedsHumanHolds == Spec => []EscalatingNeedsHuman
<1>1. Init => EscalatingNeedsHuman
  BY InitEmpty DEF EscalatingNeedsHuman
<1>2. ASSUME IInv, EscalatingNeedsHuman, [Next]_vars PROVE EscalatingNeedsHuman'
  <2>1. Chain \subseteq Chain'
    BY <1>2, WhatIsNew
  <2>2. ASSUME NEW d, Bought(d) PROVE Bought(d)'
    BY <2>1, <2>2 DEF Bought, Decisions, OfKind
  <2>3. CASE Allows' = Allows
    BY <1>2, <2>2, <2>3 DEF EscalatingNeedsHuman
  <2>4. CASE Decide /\ Allows' = Allows \cup {DecisionRecord} /\ frame.effect = "allow"
    <3>1. PICK d : d = DecisionRecord
      OBVIOUS
    <3>2. d.req = frame.req /\ d.approval = frame.approval /\ d.id = NextId
      BY <3>1 DEF DecisionRecord
    <3>3. ASSUME d.req.action \in Escalating PROVE Bought(d)
      <4>1. Paid(d.approval, d.req)
        BY <1>2, <2>4, <3>2, <3>3 DEF IInv, FrameIsTrue, Decide
      <4>2. \A c \in OfKind(Own, "consumed") : c.id < d.id
        BY <1>2, <3>2, PastIsEarlier DEF IInv, OfKind, Own
      <4>3. QED  BY <4>1, <4>2 DEF Paid, Bought, OfKind, Own
    <3>4. \A x \in Allows' : x \in Allows \/ x = d
      BY <2>4, <3>1
    <3>5. QED  BY <1>2, <2>2, <3>3, <3>4 DEF EscalatingNeedsHuman
  <2>5. QED  BY <1>2, <2>3, <2>4, WhatIsNew
<1>3. QED  BY <1>1, <1>2, Invariance, PTL DEF Spec

\* Only queueing an escalation opens a row, its own; only deciding a pending row
\* makes an approval of it.
LEMMA WhatOpens ==
    ASSUME IInv, [Next]_vars
    PROVE  /\ \/ Pending(Segment') \subseteq Pending(Segment)
              \/ /\ Submit
                 /\ Pending(Segment') = Pending(Segment) \cup {Row(SubmittedRecord)}
                 /\ frame.decision \notin Resolved(Own) /\ frame.decision \notin Consumed(Own)
           /\ \A w \in Approvals(Segment') \ Approvals(Segment) : w \in Pending(Segment)
<1>1. ASSUME UNCHANGED <<archive, active>>
      PROVE  Pending(Segment') = Pending(Segment) /\ Approvals(Segment') = Approvals(Segment)
  <2>1. Segment' = Segment
    BY <1>1, ChainStutter DEF IInv, ChainIsTrue
  <2>2. QED  BY <2>1
<1>2. CASE Call
  <2>1. PICK req \in Requests, verified \in BOOLEAN, granted \in BOOLEAN :
            \/ UNCHANGED <<archive, active>>
            \/ \E ref \in CallerRefs : Spend(req, ref)
    BY <1>2 DEF Call, Refuse, Grant, Escalate
  <2>2. ASSUME NEW ref \in CallerRefs, Spend(req, ref)
        PROVE  /\ Pending(Segment') = Pending(Segment)
               /\ Approvals(Segment') \subseteq Approvals(Segment)
    <3> DEFINE m == [id |-> NextId, kind |-> "consumed", ref |-> ref]
    <3>1. m \in Records /\ m.kind = "consumed" /\ m.id = NextId /\ Chained(m) /\ m.ref = ref
      BY <2>2, ConsumableTyped, RecordsTyped DEF Spend, Chained, IInv
    <3>2. [ref |-> m.ref, req |-> req] \in Approvals(Segment)
      BY <2>2, <3>1 DEF Spend, CanConsume
    <3> HIDE DEF m
    <3>3. QED  BY <3>1, <3>2, ConsumptionKeepsChain DEF IInv, ChainIsTrue
  <2>3. QED  BY <1>1, <2>1, <2>2
<1>3. CASE Decide
  <2>1. Segment' = Segment \cup {DecisionRecord} /\ DecisionRecord.kind = "decision"
    BY <1>3, DecideAppends, ChainedAdds DEF IInv
  <2>2. Pending(Segment') = Pending(Segment) /\ Approvals(Segment') = Approvals(Segment)
    BY <2>1, QuietRecord
  <2>3. QED  BY <2>2
<1>4. CASE Submit
  <2>1. /\ Pending(Segment') = Pending(Segment) \cup {Row(SubmittedRecord)}
        /\ Approvals(Segment') = Approvals(Segment)
        /\ SubmittedRecord.ref \notin Resolved(Own) /\ SubmittedRecord.ref \notin Consumed(Own)
    BY <1>4, SubmitAppends, SubmissionKeepsChain DEF IInv, ChainIsTrue
  <2>2. QED  BY <1>4, <2>1, SubmitAppends
<1>5. ASSUME NEW ref \in Refs, NEW b \in BOOLEAN, Resolve(ref, b)
      PROVE  /\ Pending(Segment') \subseteq Pending(Segment)
             /\ \A w \in Approvals(Segment') \ Approvals(Segment) : w \in Pending(Segment)
  BY <1>5, ResolveAppends, ResolutionKeepsChain DEF IInv, ChainIsTrue
<1>6. ASSUME NEW force \in BOOLEAN, Rotate(force)
      PROVE  Pending(Segment') = Pending(Segment) /\ Approvals(Segment') = Approvals(Segment)
  BY <1>6, RotationKeepsChain DEF IInv, ChainIsTrue
<1>7. CASE Coalesce \/ AppendRaises \/ Start \/ Stop \/ UNCHANGED vars
  BY <1>1, <1>7, QuietKeeps
<1>8. QED  BY <1>2, <1>3, <1>4, <1>5, <1>6, <1>7 DEF Next

\* The operator's queue holds at most one open row per release triple.
THEOREM OneRowPerReleaseHolds == Spec => []OneRowPerRelease
<1>1. Init => OneRowPerRelease
  BY InitEmpty DEF OneRowPerRelease, Pending
<1>2. ASSUME IInv, OneRowPerRelease, [Next]_vars PROVE OneRowPerRelease'
  <2>1. CASE Pending(Segment') \subseteq Pending(Segment)
    BY <1>2, <2>1 DEF OneRowPerRelease
  <2>2. CASE Submit /\ Pending(Segment') = Pending(Segment) \cup {Row(SubmittedRecord)}
    <3>1. Row(SubmittedRecord).req = frame.req
      BY DEF Row, SubmittedRecord
    <3>2. frame.req.action \in Releases => \A w \in Pending(Segment) : w.req # frame.req
      BY <2>2 DEF Submit, Coalesces
    <3>3. QED  BY <1>2, <2>2, <3>1, <3>2 DEF OneRowPerRelease
  <2>3. QED  BY <1>2, <2>1, <2>2, WhatOpens
<1>3. QED  BY <1>1, <1>2, Invariance, PTL DEF Spec

\* What was decided or spent never becomes open again, whatever happens next.
THEOREM NeverReopensHolds == Spec => NeverReopens
<1>1. ASSUME IInv, [Next]_vars
      PROVE  /\ \A w \in Pending(Segment)' \ Pending(Segment) :
                    w.ref \notin Resolved(Own) /\ w.ref \notin Consumed(Own)
             /\ \A w \in Approvals(Segment)' \ Approvals(Segment) : w \in Pending(Segment)
  <2>1. Row(SubmittedRecord).ref = frame.decision
    BY DEF Row, SubmittedRecord
  <2>2. QED  BY <1>1, <2>1, WhatOpens
<1>2. QED  BY <1>1, Invariance, PTL DEF Spec, NeverReopens

\* An approval that is spent, and not being turned into its allow, is not taken
\* up by any call; an escalate decision that no call is queueing is not either.
LEMMA NoFrameResumes ==
    ASSUME IInv, [Next]_vars
    PROVE  /\ \A ref \in Consumed(Own) \ Buying : ref \notin Buying'
           /\ \A d \in Decisions : d.id \notin Queuing => d.id \notin Queuing'
<1>1. CASE Call
  <2>1. PICK req \in Requests, verified \in BOOLEAN, granted \in BOOLEAN :
            \/ Refuse(req, verified, granted)
            \/ Grant(req, verified, granted)
            \/ \E ref \in CallerRefs : Spend(req, ref) \/ Escalate(req, ref)
    BY <1>1 DEF Call
  <2>2. ASSUME NEW r \in CallerRefs, Spend(req, r) PROVE r \notin Consumed(Own)
    BY <2>2 DEF IInv, OpenStateSurvivesRotation, Spend, CanConsume, Approvals
  <2>3. pc' = "decide" /\ (frame'.approval = NoRef \/ frame'.approval \notin Consumed(Own))
    <3>1. CASE \E ref \in CallerRefs : Spend(req, ref)
      BY <2>2, <3>1 DEF Spend, Begin
    <3>2. CASE \/ Refuse(req, verified, granted)
               \/ Grant(req, verified, granted)
               \/ \E ref \in CallerRefs : Escalate(req, ref)
      BY <3>2 DEF Refuse, Grant, Escalate, Begin
    <3>3. QED  BY <2>1, <3>1, <3>2
  <2>4. QED  BY <2>3 DEF Buying, Queuing, Refs, NoRef
<1>2. CASE Decide
  <2>1. \A d \in Decisions : d.id # NextId
    BY PastIsEarlier DEF IInv, Decisions, OfKind
  <2>2. pc' \in {"submit", "idle"} /\ (pc' = "submit" => frame'.decision = NextId)
    <3>1. frame \in Frames
      BY <1>2 DEF IInv, TypeOK, Decide
    <3>2. QED  BY <1>2, <3>1 DEF Decide, Frames
  <2>3. QED  BY <2>1, <2>2 DEF Buying, Queuing
<1>3. CASE Submit \/ Coalesce \/ AppendRaises \/ Start \/ Stop
  BY <1>3 DEF Submit, Coalesce, AppendRaises, Start, Stop, Buying, Queuing
<1>4. CASE \/ \E ref \in Refs, approved \in BOOLEAN : Resolve(ref, approved)
           \/ \E force \in BOOLEAN : Rotate(force)
           \/ UNCHANGED vars
  BY <1>4 DEF Resolve, Rotate, vars, Buying, Queuing
<1>5. QED  BY <1>1, <1>2, <1>3, <1>4 DEF Next

\* What a call left undone is never done by another, in this process or a later
\* one.
THEOREM AbandonedIsFinalHolds == Spec => AbandonedIsFinal
<1>1. ASSUME IInv, [Next]_vars, NEW ref \in Consumed(Own) \ Buying,
             NEW d \in Allows', d.approval = ref
      PROVE  d \in Allows
  <2>1. ref \in Refs
    BY <1>1, StateTyped, QueueTyped DEF IInv
  <2>2. CASE Decide /\ Allows' = Allows \cup {DecisionRecord}
    <3>1. d # DecisionRecord
      BY <1>1, <2>1, <2>2 DEF Buying, Decide, DecisionRecord
    <3>2. QED  BY <2>2, <3>1
  <2>3. QED  BY <1>1, <2>2, WhatIsNew
<1>2. ASSUME IInv, [Next]_vars, NEW d \in Decisions, d.id \notin Queuing,
             NEW s \in OfKind(Own', "submitted"), s.ref = d.id
      PROVE  s \in Chain
  <2>1. d.id \in Refs
    <3>1. d \in Records
      BY StateTyped, <1>2 DEF IInv, Decisions, OfKind
    <3>2. QED
      BY <3>1 DEF Records, DecisionRecords, SubmittedRecords, ResolvedRecords,
         ConsumedRecords, SealRecords, CheckpointRecords
  <2>2. s \in OfKind(Chain', "submitted")
    BY DEF OfKind, Own
  <2>3. CASE Submit /\ OfKind(Chain', "submitted") = OfKind(Chain, "submitted") \cup {SubmittedRecord}
    <3>1. s # SubmittedRecord
      BY <1>2, <2>1, <2>3 DEF Queuing, Submit, SubmittedRecord
    <3>2. QED  BY <2>2, <2>3, <3>1 DEF OfKind
  <2>4. CASE OfKind(Chain', "submitted") = OfKind(Chain, "submitted")
    BY <2>2, <2>4 DEF OfKind
  <2>5. QED  BY <1>2, <2>3, <2>4, WhatIsNew
<1>3. ASSUME IInv, [Next]_vars
      PROVE  /\ \A ref \in Consumed(Own) \ Buying :
                    /\ ref \notin Buying'
                    /\ \A d \in Allows' : d.approval = ref => d \in Allows
             /\ \A d \in Decisions : d.effect = "escalate" /\ d.id \notin Queuing =>
                    /\ d.id \notin Queuing'
                    /\ \A s \in OfKind(Own, "submitted")' : s.ref = d.id => s \in Chain
  BY <1>1, <1>2, <1>3, NoFrameResumes
<1>4. QED  BY <1>3, Invariance, PTL DEF Spec, AbandonedIsFinal

-----------------------------------------------------------------------------
(* The loop implements the abstract lifecycle *)

Status   == [ref \in Refs |-> StatusOf(ref)]
Honoured == {d.approval : d \in Allows} \ {NoRef}

\* The status of a ref, told from what the queue reads off the records.
StatusRead(ref) ==
    IF ref \in Consumed(Own) THEN "spent"
    ELSE IF ref \in Approved(Own) THEN "approved"
    ELSE IF ref \in Resolved(Own) THEN "denied"
    ELSE IF ref \in SubmittedRefs(Own) THEN "pending"
    ELSE "none"

\* It is the status the refinement shows.
LEMMA StatusIs == ASSUME NEW ref PROVE StatusOf(ref) = StatusRead(ref)
<1>1. ref \in Consumed(Own) <=> \E m \in Fate(ref) : m.kind = "consumed"
  BY OwnRecords DEF Fate, OfKind, Own
<1>2. ref \in Approved(Own) <=> \E m \in Fate(ref) : m.kind = "resolved" /\ m.approved
  BY OwnRecords DEF Fate, OfKind, Own
<1>3. ref \in Resolved(Own) <=> \E m \in Fate(ref) : m.kind = "resolved"
  BY OwnRecords DEF Fate, OfKind, Own
<1>4. ref \in SubmittedRefs(Own) <=> \E m \in Fate(ref) : m.kind = "submitted"
  <2>1. \A m : Row(m).ref = m.ref
    BY DEF Row
  <2>2. ref \in SubmittedRefs(Own) <=> \E m \in OfKind(Own, "submitted") : m.ref = ref
    BY <2>1, OwnRecords DEF SubmittedRefs
  <2>3. QED  BY <2>2 DEF Fate, OfKind, Own
<1>5. QED  BY <1>1, <1>2, <1>3, <1>4 DEF StatusOf, StatusRead

\* Before and after a step.
LEMMA StatusesAre ==
    \A ref \in Refs : StatusOf(ref) = StatusRead(ref) /\ StatusOf(ref)' = StatusRead(ref)'
<1>1. \A ref \in Refs : StatusOf(ref) = StatusRead(ref)
  BY StatusIs
<1>2. (\A ref \in Refs : StatusOf(ref) = StatusRead(ref))'
  BY <1>1, PTL
<1>3. QED  BY <1>1, <1>2 DEF Refs

\* A step changes the status of one ref, or none.
LEMMA OneStatusChange ==
    ASSUME NEW r \in Refs, NEW from, NEW to, StatusOf(r) = from, StatusOf(r)' = to,
           \A q \in Refs \ {r} : StatusOf(q)' = StatusOf(q)
    PROVE  Status[r] = from /\ Status' = [Status EXCEPT ![r] = to]
BY DEF Status

\* Statuses depend on what really happened and on nothing else.
LEMMA SameStatus ==
    ASSUME Submitted(Own') = Submitted(Own), Resolved(Own') = Resolved(Own),
           Approved(Own') = Approved(Own), Consumed(Own') = Consumed(Own)
    PROVE  Status' = Status
BY StatusesAre DEF Status, StatusRead, SubmittedRefs

\* Spending an approval.
LEMMA SpendRefines ==
    ASSUME IInv, NEW req, NEW ref \in Refs, Spend(req, ref), Room(1)
    PROVE  Lifecycle!Next
<1> DEFINE m == [id |-> NextId, kind |-> "consumed", ref |-> ref]
<1>1. m \in Records /\ m.kind = "consumed" /\ m.id = NextId /\ Chained(m) /\ m.ref = ref
  BY RecordsTyped DEF Spend, IInv
<1>2. [ref |-> m.ref, req |-> req] \in Approvals(Own)
  BY <1>1 DEF Spend, CanConsume, IInv, OpenStateSurvivesRotation
<1> HIDE DEF m
<1>3. Own' = Own \cup {m} /\ Allows' = Allows
  BY <1>1, <1>2, ChainedAdds, ConsumptionKeepsChain
     DEF IInv, ChainIsTrue, OpenStateSurvivesRotation
<1>4. ReplayedWith(Own', Own, m)
  BY <1>1, <1>3, ReplayOneMore
<1>5. /\ Submitted(Own') = Submitted(Own) /\ Resolved(Own') = Resolved(Own)
      /\ Approved(Own') = Approved(Own) /\ Consumed(Own') = Consumed(Own) \cup {ref}
  BY <1>1, <1>4 DEF ReplayedWith
<1>6. StatusOf(ref) = "approved"
  BY <1>1, <1>2, StatusesAre DEF Approvals, StatusRead, SubmittedRefs
<1>7. StatusOf(ref)' = "spent"
  BY <1>5, StatusesAre DEF StatusRead, SubmittedRefs
<1>8. \A q \in Refs \ {ref} : StatusOf(q)' = StatusOf(q)
  BY <1>5, StatusesAre DEF StatusRead, SubmittedRefs
<1>9. Status[ref] = "approved" /\ Status' = [Status EXCEPT ![ref] = "spent"]
  BY <1>6, <1>7, <1>8, OneStatusChange
<1>10. Lifecycle!Spend(ref)
  BY <1>3, <1>9 DEF Lifecycle!Spend, Lifecycle!Become, Status
<1>11. QED  BY <1>10 DEF Lifecycle!Next

\* Recording an allow that an approval bought, or any other decision.
LEMMA DecideRefines == ASSUME IInv, Decide PROVE [Lifecycle!Next]_(Lifecycle!vars)
<1> DEFINE m == DecisionRecord
<1>1. /\ Chain' = Chain \cup {m} /\ Own' = Own \cup {m} /\ m.kind = "decision"
      /\ m.approval = frame.approval /\ m.effect = frame.effect
  BY DecideAppends, ChainedAdds DEF IInv
<1>2. Status' = Status
  BY <1>1, QuietRecord, SameStatus
<1>3. Allows' = Allows \cup (IF m.effect = "allow" THEN {m} ELSE {})
  BY <1>1 DEF Allows, Decisions, OfKind
<1>4. CASE m.effect = "allow" /\ m.approval # NoRef
  <2> PICK r : r = m.approval
    OBVIOUS
  <2>1. r \in Consumed(Own) /\ r \in Refs
    BY <1>4, DecideAppends, QueueTyped, StateTyped DEF IInv
  <2>2. \A d \in Allows : d.approval # r
    BY <1>1, <1>4 DEF IInv, FrameIsTrue, Decide
  <2>3. Status[r] = "spent" /\ r \notin Honoured
    BY <2>1, <2>2, StatusesAre DEF Status, StatusRead, SubmittedRefs, Honoured
  <2>4. Honoured' = Honoured \cup {r}
    BY <1>3, <1>4 DEF Honoured
  <2>5. Lifecycle!Honour(r)
    BY <1>2, <2>3, <2>4 DEF Lifecycle!Honour, Status, Honoured
  <2>6. QED  BY <2>1, <2>5 DEF Lifecycle!Next
<1>5. CASE ~(m.effect = "allow" /\ m.approval # NoRef)
  <2>1. Honoured' = Honoured
    BY <1>3, <1>5 DEF Honoured
  <2>2. QED  BY <1>2, <2>1 DEF Lifecycle!vars, Status, Honoured
<1>6. QED  BY <1>4, <1>5

\* Queueing an escalation raises its ref.
LEMMA SubmitRefines == ASSUME IInv, Submit PROVE Lifecycle!Next
<1>1. PICK m, r : m = SubmittedRecord /\ r = frame.decision
  OBVIOUS
<1>2. /\ Own' = Own \cup {m} /\ Chain' = Chain \cup {m} /\ m.kind = "submitted" /\ m.ref = r
      /\ r \notin SubmittedRefs(Own) /\ r \notin Resolved(Own) /\ r \notin Consumed(Own)
  BY <1>1, SubmitAppends, ChainedAdds, SubmissionKeepsChain DEF IInv, ChainIsTrue
<1>3. r \in Refs
  BY <1>1 DEF IInv, TypeOK, Submit
<1>4. ReplayedWith(Own', Own, m)
  BY <1>2, ReplayOneMore
<1>5. /\ Submitted(Own') = Submitted(Own) \cup {Row(m)} /\ Resolved(Own') = Resolved(Own)
      /\ Approved(Own') = Approved(Own) /\ Consumed(Own') = Consumed(Own)
  BY <1>2, <1>4 DEF ReplayedWith
<1>6. Row(m).ref = r
  BY <1>2 DEF Row
<1>7. StatusOf(r) = "none"
  BY <1>2, <1>3, ApprovedIsResolved, StatusesAre DEF StatusRead, SubmittedRefs
<1>8. StatusOf(r)' = "pending"
  BY <1>2, <1>3, <1>5, <1>6, ApprovedIsResolved, StatusesAre DEF StatusRead, SubmittedRefs
<1>9. ASSUME NEW q \in Refs \ {r} PROVE StatusOf(q)' = StatusOf(q)
  <2>1. q \in {w.ref : w \in Submitted(Own')} <=> q \in {w.ref : w \in Submitted(Own)}
    BY <1>5, <1>6
  <2>2. QED  BY <1>5, <2>1, StatusesAre DEF StatusRead, SubmittedRefs
<1>10. Status[r] = "none" /\ Status' = [Status EXCEPT ![r] = "pending"]
  BY <1>3, <1>7, <1>8, <1>9, OneStatusChange
<1>11. Allows' = Allows
  BY <1>2 DEF Allows, Decisions, OfKind
<1>12. Lifecycle!Raise(r)
  BY <1>10, <1>11 DEF Lifecycle!Raise, Lifecycle!Become, Status
<1>13. QED  BY <1>3, <1>12 DEF Lifecycle!Next

\* A human's decision approves or denies a pending ref.
LEMMA ResolveRefines ==
    ASSUME IInv, NEW ref \in Refs, NEW b \in BOOLEAN, Resolve(ref, b) PROVE Lifecycle!Next
<1>1. PICK m : m = ResolvedRecord(ref, b)
  OBVIOUS
<1>2. /\ m \in Records /\ m.kind = "resolved" /\ m.id = NextId /\ Chained(m) /\ m.ref = ref
      /\ m.ref \in SubmittedRefs(Segment) /\ m.ref \notin Resolved(Segment)
  BY <1>1, ResolveAppends
<1>3. m.approved = b
  BY <1>1 DEF ResolvedRecord
<1>4. /\ Own' = Own \cup {m} /\ Chain' = Chain \cup {m} /\ ref \notin Resolved(Own)
  BY <1>2, ChainedAdds, ResolutionKeepsChain DEF IInv, ChainIsTrue
<1>5. ref \in SubmittedRefs(Own) /\ ref \notin Approved(Own) /\ ref \notin Consumed(Own)
  BY <1>2, <1>4, ApprovedIsResolved DEF IInv, SegmentIsTrue, LifecycleOrder, SubmittedRefs
<1>6. ReplayedWith(Own', Own, m)
  BY <1>2, <1>4, ReplayOneMore
<1>7. /\ Submitted(Own') = Submitted(Own) /\ Resolved(Own') = Resolved(Own) \cup {ref}
      /\ Approved(Own') = Approved(Own) \cup (IF b THEN {ref} ELSE {})
      /\ Consumed(Own') = Consumed(Own)
  BY <1>2, <1>3, <1>6 DEF ReplayedWith
<1> DEFINE verdict == IF b THEN "approved" ELSE "denied"
<1>8. StatusOf(ref) = "pending"
  BY <1>4, <1>5, StatusesAre DEF StatusRead, SubmittedRefs
<1>9. StatusOf(ref)' = verdict
  BY <1>5, <1>7, StatusesAre DEF StatusRead, SubmittedRefs
<1>10. \A q \in Refs \ {ref} : StatusOf(q)' = StatusOf(q)
  BY <1>7, StatusesAre DEF StatusRead, SubmittedRefs
<1>11. Status[ref] = "pending" /\ Status' = [Status EXCEPT ![ref] = verdict]
  BY <1>8, <1>9, <1>10, OneStatusChange
<1>12. Allows' = Allows
  BY <1>2, <1>4 DEF Allows, Decisions, OfKind
<1>13. Lifecycle!Approve(ref) \/ Lifecycle!Deny(ref)
  BY <1>11, <1>12 DEF Lifecycle!Approve, Lifecycle!Deny, Lifecycle!Become, Status
<1>14. QED  BY <1>13 DEF Lifecycle!Next

\* Rotations, restarts and crashes are invisible to the lifecycle.
LEMMA RotateRefines ==
    ASSUME IInv, NEW force \in BOOLEAN, Rotate(force) PROVE UNCHANGED Lifecycle!vars
<1>1. Own' = Own \cup {Seal} /\ Allows' = Allows
  BY RotateReplaces, RotationKeepsChain DEF IInv, ChainIsTrue
<1>2. Status' = Status
  BY <1>1, QuietRecord, SameStatus DEF Seal
<1>3. QED  BY <1>1, <1>2 DEF Lifecycle!vars, Status

\* A step that changes no status and honours nothing is a stutter of the lifecycle.
LEMMA QuietRefines ==
    ASSUME IInv, UNCHANGED <<archive, active>> PROVE UNCHANGED Lifecycle!vars
<1>1. Own' = Own /\ Allows' = Allows
  BY ChainStutter DEF IInv, ChainIsTrue
<1>2. Status' = Status
  BY <1>1, StatusesAre DEF Status, StatusRead, SubmittedRefs
<1>3. QED  BY <1>1, <1>2 DEF Lifecycle!vars, Status

\* Every step of the loop is a step of the lifecycle or a stutter.
LEMMA StepRefines == ASSUME IInv, [Next]_vars PROVE [Lifecycle!Next]_(Lifecycle!vars)
<1>1. CASE Call
  <2>1. PICK req \in Requests, verified \in BOOLEAN, granted \in BOOLEAN :
            \/ UNCHANGED <<archive, active>>
            \/ \E ref \in CallerRefs : Spend(req, ref)
    BY <1>1 DEF Call, Refuse, Grant, Escalate
  <2>2. ASSUME NEW ref \in CallerRefs, Spend(req, ref) PROVE Lifecycle!Next
    <3>1. ref \in Refs /\ Room(1)
      BY <2>2, ConsumableTyped DEF Spend, Chained, IInv
    <3>2. QED  BY <2>2, <3>1, SpendRefines
  <2>3. QED  BY <2>1, <2>2, QuietRefines
<1>2. CASE Decide
  BY <1>2, DecideRefines
<1>3. CASE Submit
  BY <1>3, SubmitRefines
<1>4. ASSUME NEW ref \in Refs, NEW b \in BOOLEAN, Resolve(ref, b) PROVE Lifecycle!Next
  BY <1>4, ResolveRefines
<1>5. ASSUME NEW force \in BOOLEAN, Rotate(force) PROVE UNCHANGED Lifecycle!vars
  BY <1>5, RotateRefines
<1>6. CASE Coalesce \/ AppendRaises \/ Start \/ Stop \/ UNCHANGED vars
  BY <1>6, QuietRefines, QuietKeeps
<1>7. QED  BY <1>1, <1>2, <1>3, <1>4, <1>5, <1>6 DEF Next

\* The loop, with all its records, segments, restarts and crashes, is an
\* implementation of the abstract approval lifecycle.
THEOREM LoopImplementsLifecycle == Spec => ImplementsLifecycle
<1>1. Init => Lifecycle!Init
  <2> SUFFICES ASSUME Init PROVE Lifecycle!Init
    OBVIOUS
  <2>1. Own = {} /\ Allows = {}
    BY InitEmpty
  <2>2. \A ref \in Refs : StatusOf(ref) = "none"
    BY <2>1, InitEmpty, StatusesAre DEF StatusRead, SubmittedRefs
  <2>3. QED  BY <2>1, <2>2 DEF Lifecycle!Init
<1>2. IInv /\ [Next]_vars => [Lifecycle!Next]_(Lifecycle!vars)
  BY StepRefines
<1>3. QED  BY <1>1, <1>2, Invariance, PTL DEF Spec, ImplementsLifecycle, Lifecycle!Spec
=============================================================================
