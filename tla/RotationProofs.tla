---------------------------- MODULE RotationProofs ----------------------------
(***************************************************************************)
(* Theorems about the rotation of a chain, for any processes, number of     *)
(* records and crashes, as long as processes do not overlap.                *)
(*                                                                          *)
(* The argument: every file that a name of the chain leads to is a segment, *)
(* records that continue each other up to a seal that tells the truth; the  *)
(* directory in memory and the one on the disk both name a chain of such    *)
(* segments with every acknowledged record in it; and they differ in one    *)
(* rename at most, with nothing recorded behind it.  So a power loss finds  *)
(* a chain, whichever of the unsynced operations it forgets.                *)
(***************************************************************************)
EXTENDS Rotation, Integers, SequenceTheorems, FiniteSetTheorems, TLAPS

Payloads == Items \cup Seals \cup Checkpoints

-----------------------------------------------------------------------------
(* Payloads and segments *)

\* What the kind of a payload says of its fields.
LEMMA Kinds ==
    ASSUME NEW m \in Payloads
    PROVE  /\ m.kind \in {"raise", "settle", "seal", "checkpoint"}
           /\ m.kind \in {"raise", "settle"} <=> m \in Items
           /\ m.kind = "raise" => m.id \in Ids
           /\ m.kind = "settle" => m.ref \in Ids
           /\ m.kind = "seal" => m \in Seals
           /\ m.kind = "checkpoint" => m.segment \in Indexes /\ m.open \subseteq Ids
<1>1. CASE m \in Items  BY <1>1 DEF Items
<1>2. CASE m \in Seals  BY <1>2 DEF Seals, Items
<1>3. CASE m \in Checkpoints  BY <1>3 DEF Checkpoints, Items
<1>4. QED  BY <1>1, <1>2, <1>3 DEF Payloads

\* Lines are sequences of payloads.
LEMMA LinesAre == Lines = Seq(Payloads)
BY DEF Lines, Payloads

\* The payloads of a segment's records, one by one.
LEMMA SegmentTyped ==
    ASSUME NEW lines \in Seq(Lines), \A i \in DOMAIN lines : lines[i] # <<>>
    PROVE  /\ Segment(lines) \in Seq(Payloads) /\ Len(Segment(lines)) = Len(lines)
           /\ DOMAIN Segment(lines) = 1 .. Len(lines)
           /\ \A i \in 1 .. Len(lines) : Segment(lines)[i] = lines[i][Len(lines[i])]
           /\ Segment(lines) = <<>> <=> lines = <<>>
<1>1. \A i \in 1 .. Len(lines) : lines[i] \in Seq(Payloads) /\ lines[i] # <<>>
  BY LinesAre
<1>2. \A i \in 1 .. Len(lines) : lines[i][Len(lines[i])] \in Payloads
  BY <1>1
<1>3. Segment(lines) = [i \in 1 .. Len(lines) |-> lines[i][Len(lines[i])]]
  BY DEF Segment, LastOf
<1>4. QED  BY <1>2, <1>3

\* The payloads of one record more.
LEMMA SegmentAppend ==
    ASSUME NEW lines \in Seq(Lines), \A i \in DOMAIN lines : lines[i] # <<>>,
           NEW history \in Lines, NEW m \in Payloads
    PROVE  /\ Append(history, m) \in Lines /\ Append(history, m) # <<>>
           /\ Append(lines, Append(history, m)) \in Seq(Lines)
           /\ Segment(Append(lines, Append(history, m))) = Append(Segment(lines), m)
<1> DEFINE record == Append(history, m)
           more == Append(lines, record)
<1>1. record \in Lines /\ record # <<>> /\ record[Len(record)] = m
  BY LinesAre
<1>2. /\ more \in Seq(Lines) /\ Len(more) = Len(lines) + 1 /\ more[Len(lines) + 1] = record
      /\ \A i \in 1 .. Len(lines) : more[i] = lines[i]
  BY <1>1
<1> HIDE DEF record, more
<1>3. \A i \in DOMAIN more : more[i] # <<>>
  BY <1>1, <1>2
<1>4. /\ Segment(more) \in Seq(Payloads) /\ Len(Segment(more)) = Len(more)
      /\ \A i \in 1 .. Len(more) : Segment(more)[i] = more[i][Len(more[i])]
  BY <1>2, <1>3, SegmentTyped
<1>5. /\ Segment(lines) \in Seq(Payloads) /\ Len(Segment(lines)) = Len(lines)
      /\ \A i \in 1 .. Len(lines) : Segment(lines)[i] = lines[i][Len(lines[i])]
  BY SegmentTyped
<1>6. Segment(more) = Append(Segment(lines), m)
  <2> DEFINE s == Segment(more)
             t == Append(Segment(lines), m)
  <2>1. t \in Seq(Payloads) /\ Len(t) = Len(lines) + 1 /\ t[Len(lines) + 1] = m
    BY <1>5
  <2>2. \A i \in 1 .. Len(lines) : t[i] = lines[i][Len(lines[i])]
    BY <1>5
  <2>3. s \in Seq(Payloads) /\ Len(s) = Len(lines) + 1 /\ s[Len(lines) + 1] = m
    BY <1>1, <1>2, <1>4
  <2>4. \A i \in 1 .. Len(lines) : s[i] = lines[i][Len(lines[i])]
    BY <1>2, <1>4
  <2> HIDE DEF s, t
  <2>5. s = t
    BY <2>1, <2>2, <2>3, <2>4, SeqEqual
  <2>6. QED  BY <2>5 DEF s, t
<1>7. QED  BY <1>1, <1>2, <1>6 DEF record, more

\* One payload more of a kind, or as many as before.
LEMMA OfKindAppend ==
    ASSUME NEW segment \in Seq(Payloads), NEW m \in Payloads, NEW kind
    PROVE  OfKind(Append(segment, m), kind) =
               OfKind(segment, kind) \cup (IF m.kind = kind THEN {m} ELSE {})
<1> DEFINE more == Append(segment, m)
<1>1. /\ more \in Seq(Payloads) /\ Len(more) = Len(segment) + 1 /\ more[Len(segment) + 1] = m
      /\ \A i \in 1 .. Len(segment) : more[i] = segment[i]
  OBVIOUS
<1> HIDE DEF more
<1>2. {more[i] : i \in DOMAIN more} = {segment[i] : i \in DOMAIN segment} \cup {m}
  BY <1>1
<1>3. QED  BY <1>2 DEF OfKind, more

\* What is of a kind is a payload.
LEMMA OfKindTyped ==
    ASSUME NEW segment \in Seq(Payloads), NEW kind
    PROVE  \A m \in OfKind(segment, kind) : m \in Payloads /\ m.kind = kind
BY DEF OfKind

\* Open items are ids, finitely many.
LEMMA OpenTyped ==
    ASSUME NEW segment \in Seq(Payloads)
    PROVE  /\ OpenItems(segment) \subseteq Ids /\ IsFiniteSet(OpenItems(segment))
           /\ Cardinality(OpenItems(segment)) \in Nat
<1>1. OpenItems(segment) \subseteq Ids
  <2>1. \A m \in OfKind(segment, "checkpoint") : m.open \subseteq Ids
    BY OfKindTyped, Kinds
  <2>2. \A m \in OfKind(segment, "raise") : m.id \in Ids
    BY OfKindTyped, Kinds
  <2>3. UNION {m.open : m \in OfKind(segment, "checkpoint")} \subseteq Ids
    BY <2>1
  <2>4. {m.id : m \in OfKind(segment, "raise")} \subseteq Ids
    BY <2>2
  <2> DEFINE carried == UNION {m.open : m \in OfKind(segment, "checkpoint")}
             raised  == {m.id : m \in OfKind(segment, "raise")}
             closed  == {m.ref : m \in OfKind(segment, "settle")}
  <2>5. OpenItems(segment) = (carried \cup raised) \ closed
    BY DEF OpenItems
  <2> HIDE DEF carried, raised, closed
  <2>6. QED  BY <2>3, <2>4, <2>5 DEF carried, raised
<1>2. IsFiniteSet(Ids)
  BY FS_Interval, BoundsAssumption DEF Ids
<1>3. QED  BY <1>1, <1>2, FS_Subset, FS_CardinalityType

\* Open items, and what a history says is open, after one payload more.
LEMMA OpenAppend ==
    ASSUME NEW segment \in Seq(Payloads), NEW m \in Payloads
    PROVE  /\ m.kind \in {"raise", "settle", "seal"} =>
                 OpenItems(Append(segment, m)) =
                    IF m.kind = "raise"
                    THEN OpenItems(segment) \cup
                            ({m.id} \ {r.ref : r \in OfKind(segment, "settle")})
                    ELSE IF m.kind = "settle" THEN OpenItems(segment) \ {m.ref}
                    ELSE OpenItems(segment)
           /\ Outstanding(Append(segment, m)) =
                 IF m.kind = "raise"
                 THEN Outstanding(segment) \cup
                         ({m.id} \ {r.ref : r \in OfKind(segment, "settle")})
                 ELSE IF m.kind = "settle" THEN Outstanding(segment) \ {m.ref}
                 ELSE Outstanding(segment)
<1>1. /\ OfKind(Append(segment, m), "raise") =
             OfKind(segment, "raise") \cup (IF m.kind = "raise" THEN {m} ELSE {})
      /\ OfKind(Append(segment, m), "settle") =
             OfKind(segment, "settle") \cup (IF m.kind = "settle" THEN {m} ELSE {})
      /\ OfKind(Append(segment, m), "checkpoint") =
             OfKind(segment, "checkpoint") \cup (IF m.kind = "checkpoint" THEN {m} ELSE {})
  BY OfKindAppend
<1>2. CASE m.kind = "raise"
  <2>1. {r.id : r \in OfKind(Append(segment, m), "raise")} =
            {r.id : r \in OfKind(segment, "raise")} \cup {m.id}
    BY <1>1, <1>2
  <2>2. /\ OfKind(Append(segment, m), "settle") = OfKind(segment, "settle")
        /\ OfKind(Append(segment, m), "checkpoint") = OfKind(segment, "checkpoint")
    BY <1>1, <1>2
  <2> DEFINE carried == UNION {r.open : r \in OfKind(segment, "checkpoint")}
             raised  == {r.id : r \in OfKind(segment, "raise")}
             closed  == {r.ref : r \in OfKind(segment, "settle")}
  <2>3. /\ OpenItems(segment) = (carried \cup raised) \ closed
        /\ Outstanding(segment) = raised \ closed
    BY DEF OpenItems, Outstanding
  <2>4. /\ OpenItems(Append(segment, m)) = (carried \cup raised \cup {m.id}) \ closed
        /\ Outstanding(Append(segment, m)) = (raised \cup {m.id}) \ closed
    <3>1. carried \cup raised \cup {m.id} = carried \cup (raised \cup {m.id})
      OBVIOUS
    <3>2. QED  BY <2>1, <2>2, <3>1 DEF OpenItems, Outstanding
  <2> HIDE DEF carried, raised
  <2>5. QED  BY <1>2, <2>3, <2>4
<1>3. CASE m.kind = "settle"
  BY <1>1, <1>3 DEF OpenItems, Outstanding
<1>4. CASE m.kind \notin {"raise", "settle"}
  BY <1>1, <1>4 DEF OpenItems, Outstanding
<1>5. QED  BY <1>2, <1>3, <1>4

-----------------------------------------------------------------------------
(* The lines of one segment *)

\* What the form of a segment's lines says of its length, index and seal.
LEMMA FormedTyped ==
    ASSUME NEW lines \in Seq(Lines), Formed(lines)
    PROVE  /\ Segment(lines) \in Seq(Payloads) /\ Len(Segment(lines)) = Len(lines)
           /\ \A i \in DOMAIN lines : lines[i] \in Lines /\ lines[i] # <<>>
           /\ Segment(lines) = <<>> <=> lines = <<>>
           /\ Tip(lines) \in Lines
           /\ lines = <<>> => Tip(lines) = <<>> /\ IndexOf(Segment(lines)) = 1
           /\ lines # <<>> => /\ Tip(lines) = lines[Len(lines)] /\ lines[1] \in Lines
                              /\ Len(lines[1]) >= 1
                              /\ Len(Tip(lines)) = Len(lines[1]) + Len(lines) - 1
                              /\ IndexOf(Segment(lines)) \in Indexes
                              /\ IndexOf(Segment(lines)) =< Len(lines[1])
           /\ IndexOf(Segment(lines)) \in Nat \ {0}
<1>1. \A i \in DOMAIN lines : lines[i] \in Lines /\ lines[i] # <<>>
  BY DEF Formed
<1>2. /\ Segment(lines) \in Seq(Payloads) /\ Len(Segment(lines)) = Len(lines)
      /\ Segment(lines) = <<>> <=> lines = <<>>
  BY <1>1, SegmentTyped
<1>3. CASE lines = <<>>
  <2>1. Tip(lines) = <<>> /\ <<>> \in Lines
    BY <1>3, LinesAre DEF Tip
  <2>2. IndexOf(Segment(lines)) = 1
    BY <1>2, <1>3 DEF IndexOf
  <2>3. QED  BY <1>1, <1>2, <1>3, <2>1, <2>2
<1>4. CASE lines # <<>>
  <2>1. 1 \in DOMAIN lines /\ Len(lines) \in DOMAIN lines /\ Tip(lines) = lines[Len(lines)]
    BY <1>4 DEF Tip
  <2>2. Len(lines[Len(lines)]) = Len(lines[1]) + Len(lines) - 1
    BY <2>1 DEF Formed
  <2>3. lines[1] \in Seq(Payloads) /\ lines[1] # <<>>
    BY <1>1, <2>1, LinesAre
  <2>4. Len(lines[1]) \in Nat /\ Len(lines[1]) >= 1
    BY <2>3
  <2>5. Segment(lines)[1] \in Payloads
    BY <1>2, <2>1
  <2>6. Ids # {}
    <3>1. CASE Segment(lines)[1].kind \in {"raise", "settle"}
      BY <2>5, <3>1, Kinds
    <3>2. CASE Segment(lines)[1].kind = "seal"
      BY <2>5, <3>2, Kinds DEF Seals
    <3>3. CASE Segment(lines)[1].kind = "checkpoint"
      BY <2>5, <3>3, Kinds DEF Indexes, Ids
    <3>4. QED  BY <2>5, <3>1, <3>2, <3>3, Kinds
  <2>7. 1 \in Indexes
    BY <2>6, BoundsAssumption DEF Ids, Indexes
  <2>8. IF Segment(lines)[1].kind = "checkpoint"
        THEN Segment(lines)[1].segment \in 2 .. Len(lines[1]) ELSE Len(lines[1]) = 1
    BY <1>4 DEF Formed
  <2>9. IndexOf(Segment(lines)) \in Indexes /\ IndexOf(Segment(lines)) =< Len(lines[1])
    <3>1. CASE Segment(lines)[1].kind = "checkpoint"
      <4>1. IndexOf(Segment(lines)) = Segment(lines)[1].segment
        BY <1>2, <1>4, <3>1 DEF IndexOf
      <4>2. QED  BY <2>4, <2>5, <2>8, <3>1, <4>1, Kinds
    <3>2. CASE Segment(lines)[1].kind # "checkpoint"
      BY <2>4, <2>7, <3>2 DEF IndexOf
    <3>3. QED  BY <3>1, <3>2
  <2>10. IndexOf(Segment(lines)) \in Nat \ {0}
    BY <2>9 DEF Indexes
  <2>11. Tip(lines) \in Lines
    BY <1>1, <2>1
  <2>12. QED  BY <1>1, <1>2, <1>4, <2>1, <2>2, <2>4, <2>9, <2>10, <2>11
<1>5. QED  BY <1>3, <1>4

\* A sealed segment is its body and the seal of that.
LEMMA SealedIs ==
    ASSUME NEW lines \in Seq(Lines), Formed(lines), Sealed(Segment(lines)),
           NEW body, body = Body(Segment(lines))
    PROVE  /\ Len(lines) >= 2
           /\ body \in Seq(Payloads) /\ Segment(lines) = Append(body, SealOf(body))
           /\ Len(body) = Len(lines) - 1
           /\ Substantive(body) /\ Substantive(Segment(lines))
           /\ OpenItems(body) = OpenItems(Segment(lines))
           /\ IndexOf(body) = IndexOf(Segment(lines))
           /\ SealAgrees(Segment(lines))
<1> DEFINE segment == Segment(lines)
<1>1. segment \in Seq(Payloads) /\ Len(segment) = Len(lines) /\ segment # <<>>
  BY FormedTyped DEF Sealed
<1>2. body = SubSeq(segment, 1, Len(segment) - 1) /\ Substantive(body)
      /\ segment[Len(segment)] = SealOf(body)
  BY DEF Formed, Body
<1> HIDE DEF segment
<1>3. /\ body \in Seq(Payloads) /\ Len(body) = Len(segment) - 1
      /\ \A i \in 1 .. Len(segment) - 1 : body[i] = segment[i]
  BY <1>1, <1>2
<1>4. Len(body) >= 1
  <2>1. PICK i \in DOMAIN body : body[i].kind \notin {"checkpoint", "seal"}
    BY <1>2 DEF Substantive
  <2>2. QED  BY <1>3, <2>1
<1>5. segment[Len(segment)] \in Payloads
  BY <1>1
<1>6. segment = Append(body, SealOf(body))
  <2>1. SealOf(body) \in Payloads
    BY <1>2, <1>5
  <2> DEFINE again == Append(body, SealOf(body))
  <2>2. /\ again \in Seq(Payloads) /\ Len(again) = Len(segment)
        /\ again[Len(segment)] = SealOf(body)
        /\ \A i \in 1 .. Len(segment) - 1 : again[i] = body[i]
    BY <1>1, <1>3, <2>1
  <2> HIDE DEF again
  <2>3. segment = again
    BY <1>1, <1>2, <1>3, <2>2, SeqEqual
  <2>4. QED  BY <2>3 DEF again
<1>7. Substantive(segment)
  <2>1. PICK i \in DOMAIN body : body[i].kind \notin {"checkpoint", "seal"}
    BY <1>2 DEF Substantive
  <2>2. i \in DOMAIN segment /\ segment[i] = body[i]
    BY <1>1, <1>3, <2>1
  <2>3. QED  BY <2>1, <2>2 DEF Substantive
<1>8. SealOf(body).kind = "seal"
  BY DEF SealOf
<1>9. OpenItems(body) = OpenItems(segment)
  BY <1>2, <1>3, <1>5, <1>6, <1>8, OpenAppend
<1>10. IndexOf(body) = IndexOf(segment)
  <2>1. body # <<>> /\ segment # <<>> /\ body[1] = segment[1]
    BY <1>1, <1>3, <1>4
  <2>2. QED  BY <2>1 DEF IndexOf
<1>11. SealAgrees(segment)
  <2>1. segment[Len(segment)].records = Len(body) + 1
    BY <1>2 DEF SealOf
  <2>2. segment[Len(segment)].open = Cardinality(OpenItems(body))
    BY <1>2 DEF SealOf
  <2>3. Len(body) + 1 = Len(segment)
    BY <1>1, <1>3
  <2>4. QED  BY <1>9, <2>1, <2>2, <2>3 DEF SealAgrees
<1>12. QED  BY <1>1, <1>2, <1>3, <1>4, <1>6, <1>7, <1>9, <1>10, <1>11 DEF segment

\* Lines of this form verify.
LEMMA FormedVerifies ==
    ASSUME NEW lines \in Seq(Lines), Formed(lines) PROVE Verifies(lines)
<1> SUFFICES ASSUME NEW i \in DOMAIN lines
             PROVE  IF i > 1 THEN lines[i] = Append(lines[i - 1], LastOf(lines[i]))
                    ELSE Len(lines[1]) = 1 \/ LastOf(lines[1]).kind = "checkpoint"
  BY DEF Verifies
<1>1. Segment(lines)[i] = LastOf(lines[i])
  BY DEF Segment
<1>2. CASE i > 1
  BY <1>1, <1>2 DEF Formed
<1>3. CASE ~(i > 1)
  <2>1. i = 1 /\ lines # <<>>
    BY <1>3
  <2>2. QED  BY <1>1, <1>3, <2>1 DEF Formed
<1>4. QED  BY <1>2, <1>3

\* What an append may add to a segment: an item under the number of its record, the
\* settling of an open one, the seal.
Fits(lines, m) ==
    \/ m = Raise(Len(Tip(lines)) + 1)
    \/ \E ref \in OpenItems(Segment(lines)) : m = Settle(ref)
    \/ Substantive(Segment(lines)) /\ m = SealOf(Segment(lines))

\* The record an append writes, and the lines after it.
RecordOf(lines, m) == Append(Tip(lines), m)
More(lines, m)     == Append(lines, RecordOf(lines, m))

\* The lines after an append are a segment again, with that record at the tip.
LEMMA MoreLines ==
    ASSUME NEW lines \in Seq(Lines), Formed(lines), NEW m \in Payloads, Fits(lines, m)
    PROVE  /\ More(lines, m) \in Seq(Lines) /\ More(lines, m) # <<>>
           /\ Len(More(lines, m)) = Len(lines) + 1
           /\ RecordOf(lines, m) \in Lines /\ RecordOf(lines, m) # <<>>
           /\ Tip(More(lines, m)) = RecordOf(lines, m)
           /\ Segment(More(lines, m)) = Append(Segment(lines), m)
           /\ IndexOf(Segment(More(lines, m))) = IndexOf(Segment(lines))
           /\ Sealed(Segment(More(lines, m))) <=> m.kind = "seal"
           /\ Elements(More(lines, m)) = Elements(lines) \cup {RecordOf(lines, m)}
           /\ lines # <<>> => More(lines, m)[1] = lines[1]
<1> DEFINE segment == Segment(lines)
           longer  == Append(segment, m)
           record  == RecordOf(lines, m)
           more    == More(lines, m)
<1>0. record = Append(Tip(lines), m) /\ more = Append(lines, record)
  BY DEF RecordOf, More
<1> HIDE DEF record, more
<1>1. /\ segment \in Seq(Payloads) /\ Len(segment) = Len(lines) /\ Tip(lines) \in Lines
      /\ \A i \in DOMAIN lines : lines[i] # <<>>
      /\ segment = <<>> <=> lines = <<>>
  BY FormedTyped
<1>2. /\ record \in Lines /\ record # <<>> /\ more \in Seq(Lines)
      /\ Segment(more) = longer
  BY <1>0, <1>1, SegmentAppend
<1>3. /\ Len(more) = Len(lines) + 1 /\ more[Len(lines) + 1] = record
      /\ \A i \in 1 .. Len(lines) : more[i] = lines[i]
  BY <1>0, <1>2
<1>4. Tip(more) = record /\ more # <<>>
  <2>1. Len(more) # 0
    BY <1>3
  <2>2. more[Len(more)] = record
    BY <1>3
  <2>3. QED  BY <2>1, <2>2 DEF Tip
<1>5. Elements(more) = Elements(lines) \cup {record}
  <2>1. DOMAIN lines = 1 .. Len(lines) /\ DOMAIN more = (1 .. Len(lines)) \cup {Len(lines) + 1}
    BY <1>2, <1>3
  <2>2. {more[i] : i \in DOMAIN more} = {lines[i] : i \in DOMAIN lines} \cup {record}
    BY <1>3, <2>1
  <2>3. QED  BY <2>2 DEF Elements
<1>6. lines # <<>> => more[1] = lines[1]
  BY <1>3
<1>7. /\ longer \in Seq(Payloads) /\ Len(longer) = Len(segment) + 1
      /\ longer[Len(segment) + 1] = m /\ longer # <<>>
      /\ \A i \in 1 .. Len(segment) : longer[i] = segment[i]
  BY <1>1
<1>8. m.kind # "checkpoint"
  BY DEF Fits, Raise, Settle, SealOf
<1> HIDE DEF segment, longer
<1>9. IndexOf(longer) = IndexOf(segment)
  <2>1. CASE segment = <<>>
    <3>1. longer[1] = m
      BY <1>7, <2>1
    <3>2. QED  BY <1>8, <2>1, <3>1 DEF IndexOf
  <2>2. CASE segment # <<>>
    <3>1. longer[1] = segment[1]
      BY <1>1, <1>7, <2>2
    <3>2. QED  BY <1>7, <2>2, <3>1 DEF IndexOf
  <2>3. QED  BY <2>1, <2>2
<1>10. Sealed(longer) <=> m.kind = "seal"
  BY <1>7 DEF Sealed
<1>11. QED  BY <1>2, <1>3, <1>4, <1>5, <1>6, <1>9, <1>10 DEF segment, longer, more, record

\* They have the form of a segment again.
LEMMA MoreFormed ==
    ASSUME NEW lines \in Seq(Lines), Formed(lines), ~Sealed(Segment(lines)),
           NEW m \in Payloads, Fits(lines, m)
    PROVE  Formed(More(lines, m))
<1> DEFINE segment == Segment(lines)
           history == Tip(lines)
           longer  == Append(segment, m)
           record  == RecordOf(lines, m)
           more    == More(lines, m)
<1>0. record = Append(history, m) /\ more = Append(lines, record)
  BY DEF RecordOf, More
<1> HIDE DEF record, more
<1>1. /\ segment \in Seq(Payloads) /\ Len(segment) = Len(lines)
      /\ \A i \in DOMAIN lines : lines[i] \in Lines /\ lines[i] # <<>>
      /\ segment = <<>> <=> lines = <<>>
      /\ history \in Seq(Payloads)
      /\ lines = <<>> => history = <<>>
      /\ lines # <<>> => /\ history = lines[Len(lines)] /\ Len(lines[1]) \in Nat
                         /\ Len(history) = Len(lines[1]) + Len(lines) - 1
  BY FormedTyped, LinesAre
<1>2. /\ more \in Seq(Lines) /\ Len(more) = Len(lines) + 1 /\ record \in Lines
      /\ record # <<>> /\ Tip(more) = record /\ Segment(more) = longer
      /\ Sealed(longer) <=> m.kind = "seal"
  BY MoreLines DEF record, more
<1>3. /\ more[Len(lines) + 1] = record /\ \A i \in 1 .. Len(lines) : more[i] = lines[i]
      /\ DOMAIN more = 1 .. Len(lines) + 1
  BY <1>0, <1>2
<1>4. /\ longer \in Seq(Payloads) /\ Len(longer) = Len(lines) + 1
      /\ longer[Len(lines) + 1] = m
      /\ \A i \in 1 .. Len(lines) : longer[i] = segment[i]
  BY <1>1
<1>5. Len(record) = Len(history) + 1 /\ Len(record) \in Nat
  BY <1>0, <1>1
<1>6. m.kind \in {"raise", "settle", "seal"}
  BY DEF Fits, Raise, Settle, SealOf
<1>7. \A i \in DOMAIN lines :
         /\ Len(lines[i]) = Len(lines[1]) + i - 1
         /\ i > 1 => lines[i] = Append(lines[i - 1], segment[i])
         /\ segment[i].kind = "checkpoint" => i = 1
         /\ segment[i].kind # "seal"
  <2>1. \A i \in DOMAIN lines :
           /\ Len(lines[i]) = Len(lines[1]) + i - 1
           /\ i > 1 => lines[i] = Append(lines[i - 1], segment[i])
           /\ segment[i].kind = "checkpoint" => i = 1
           /\ segment[i].kind = "seal" => i = Len(lines)
    BY DEF Formed
  <2>2. ASSUME NEW i \in DOMAIN lines, segment[i].kind = "seal" PROVE FALSE
    <3>1. i = Len(lines) /\ segment # <<>>
      BY <1>1, <2>1, <2>2
    <3>2. QED  BY <1>1, <2>2, <3>1 DEF Sealed
  <2>3. QED  BY <2>1, <2>2
<1>8. \A i \in DOMAIN more :
         /\ more[i] # <<>> /\ Len(more[i]) = Len(more[1]) + i - 1
         /\ i > 1 => more[i] = Append(more[i - 1], longer[i])
         /\ longer[i].kind = "checkpoint" => i = 1
         /\ longer[i].kind = "seal" => i = Len(more)
  <2> TAKE i \in DOMAIN more
  <2>1. CASE i \in 1 .. Len(lines)
    <3>1. /\ more[i] = lines[i] /\ more[1] = lines[1] /\ longer[i] = segment[i]
          /\ i > 1 => more[i - 1] = lines[i - 1]
      BY <1>3, <1>4, <2>1
    <3>2. i \in DOMAIN lines
      BY <2>1
    <3>3. /\ lines[i] # <<>> /\ Len(lines[i]) = Len(lines[1]) + i - 1
          /\ i > 1 => lines[i] = Append(lines[i - 1], segment[i])
          /\ segment[i].kind = "checkpoint" => i = 1
          /\ segment[i].kind # "seal"
      BY <1>1, <1>7, <3>2
    <3>4. QED  BY <3>1, <3>3
  <2>2. CASE i = Len(lines) + 1
    <3>1. more[i] = record /\ longer[i] = m /\ i = Len(more)
      BY <1>2, <1>3, <1>4, <2>2
    <3>2. CASE lines = <<>>
      BY <1>0, <1>1, <1>2, <1>5, <1>6, <2>2, <3>1, <3>2
    <3>3. CASE lines # <<>>
      <4>1. more[1] = lines[1] /\ more[i - 1] = history
        BY <1>1, <1>3, <2>2, <3>3
      <4>2. Len(record) = Len(more[1]) + i - 1
        BY <1>1, <1>5, <2>2, <3>3, <4>1
      <4>3. QED  BY <1>0, <1>2, <1>6, <3>1, <4>1, <4>2
    <3>4. QED  BY <3>2, <3>3
  <2>3. i \in 1 .. Len(lines) \/ i = Len(lines) + 1
    BY <1>3
  <2>4. QED  BY <2>1, <2>2, <2>3
<1>9. IF longer[1].kind = "checkpoint" THEN longer[1].segment \in 2 .. Len(more[1])
      ELSE Len(more[1]) = 1
  <2>1. CASE lines = <<>>
    <3>1. longer[1] = m /\ more[1] = record
      BY <1>3, <1>4, <2>1
    <3>2. Len(record) = 1
      BY <1>1, <1>5, <2>1
    <3>3. QED  BY <1>6, <3>1, <3>2
  <2>2. CASE lines # <<>>
    <3>1. longer[1] = segment[1] /\ more[1] = lines[1]
      BY <1>3, <1>4, <2>2
    <3>2. QED  BY <2>2, <3>1 DEF Formed
  <2>3. QED  BY <2>1, <2>2
<1>10. OpenItems(segment) = Outstanding(history)
  BY DEF Formed
<1>11. /\ \A r \in OfKind(history, "raise") : r.id =< Len(history)
       /\ \A r \in OfKind(segment, "settle") \cup OfKind(history, "settle") :
             r.ref =< Len(history)
  BY DEF Formed
<1>12. m.kind = "raise" => m.id = Len(history) + 1
  BY DEF Fits, Raise, Settle, SealOf
<1>13. m.kind = "settle" => m.ref \in OpenItems(segment)
  BY DEF Fits, Raise, Settle, SealOf
<1>14. m.kind = "seal" => Substantive(segment) /\ m = SealOf(segment)
  BY DEF Fits, Raise, Settle, SealOf
<1> HIDE DEF segment, history
<1>15. m.kind = "settle" => m.ref =< Len(history)
  <2> SUFFICES ASSUME m.kind = "settle" PROVE m.ref =< Len(history)
    OBVIOUS
  <2>1. PICK r \in OfKind(history, "raise") : m.ref = r.id
    BY <1>10, <1>13 DEF Outstanding
  <2>2. QED  BY <1>11, <2>1
<1>16. OpenItems(longer) = Outstanding(record)
  <2>1. CASE m.kind = "raise"
    <3>1. m.id \notin {r.ref : r \in OfKind(segment, "settle")}
      <4>1. \A r \in OfKind(segment, "settle") : r.ref \in Nat /\ r.ref =< Len(history)
        BY <1>1, <1>11, OfKindTyped, Kinds DEF Ids
      <4>2. QED  BY <1>1, <1>12, <2>1, <4>1
    <3>2. m.id \notin {r.ref : r \in OfKind(history, "settle")}
      <4>1. \A r \in OfKind(history, "settle") : r.ref \in Nat /\ r.ref =< Len(history)
        BY <1>1, <1>11, OfKindTyped, Kinds DEF Ids
      <4>2. QED  BY <1>1, <1>12, <2>1, <4>1
    <3>3. OpenItems(longer) = OpenItems(segment) \cup {m.id}
      BY <1>1, <2>1, <3>1, OpenAppend
    <3>4. Outstanding(record) = Outstanding(history) \cup {m.id}
      <4>1. Outstanding(Append(history, m)) =
               Outstanding(history) \cup ({m.id} \ {r.ref : r \in OfKind(history, "settle")})
        BY <1>1, <2>1, OpenAppend
      <4>2. QED  BY <1>0, <3>2, <4>1
    <3>5. QED  BY <1>10, <3>3, <3>4
  <2>2. CASE m.kind = "settle"
    <3>1. OpenItems(longer) = OpenItems(segment) \ {m.ref}
      BY <1>1, <2>2, OpenAppend
    <3>2. Outstanding(record) = Outstanding(history) \ {m.ref}
      BY <1>0, <1>1, <2>2, OpenAppend
    <3>3. QED  BY <1>10, <3>1, <3>2
  <2>3. CASE m.kind = "seal"
    <3>1. OpenItems(longer) = OpenItems(segment)
      BY <1>1, <2>3, OpenAppend
    <3>2. Outstanding(record) = Outstanding(history)
      BY <1>0, <1>1, <2>3, OpenAppend
    <3>3. QED  BY <1>10, <3>1, <3>2
  <2>4. QED  BY <1>6, <2>1, <2>2, <2>3
<1>17. \A r \in OfKind(record, "raise") : r.id =< Len(record)
  <2>1. OfKind(record, "raise") =
            OfKind(history, "raise") \cup (IF m.kind = "raise" THEN {m} ELSE {})
    BY <1>0, <1>1, OfKindAppend
  <2>2. \A r \in OfKind(history, "raise") : r.id \in Nat
    BY <1>1, OfKindTyped, Kinds DEF Ids
  <2>3. QED  BY <1>1, <1>5, <1>11, <1>12, <2>1, <2>2
<1>18. \A r \in OfKind(longer, "settle") \cup OfKind(record, "settle") : r.ref =< Len(record)
  <2>1. /\ OfKind(record, "settle") =
              OfKind(history, "settle") \cup (IF m.kind = "settle" THEN {m} ELSE {})
        /\ OfKind(longer, "settle") =
              OfKind(segment, "settle") \cup (IF m.kind = "settle" THEN {m} ELSE {})
    BY <1>0, <1>1, OfKindAppend
  <2>2. \A r \in OfKind(history, "settle") \cup OfKind(segment, "settle") : r.ref \in Nat
    BY <1>1, OfKindTyped, Kinds DEF Ids
  <2>3. m.kind = "settle" => m.ref \in Nat
    BY Kinds DEF Ids
  <2>4. QED  BY <1>1, <1>5, <1>11, <1>15, <2>1, <2>2, <2>3
<1>19. Sealed(longer) => Substantive(Body(longer)) /\ longer[Len(longer)] = SealOf(Body(longer))
  <2> SUFFICES ASSUME Sealed(longer)
               PROVE  Substantive(Body(longer)) /\ longer[Len(longer)] = SealOf(Body(longer))
    OBVIOUS
  <2>1. Substantive(segment) /\ m = SealOf(segment)
    BY <1>2, <1>14
  <2>2. Body(longer) = SubSeq(longer, 1, Len(longer) - 1)
    BY DEF Body
  <2>3. SubSeq(longer, 1, Len(longer) - 1) = segment
    <3> DEFINE front == SubSeq(longer, 1, Len(longer) - 1)
    <3>1. /\ front \in Seq(Payloads) /\ Len(front) = Len(lines)
          /\ \A i \in 1 .. Len(lines) : front[i] = longer[i]
      BY <1>4
    <3> HIDE DEF front
    <3>2. front = segment
      BY <1>1, <1>4, <3>1, SeqEqual
    <3>3. QED  BY <3>2 DEF front
  <2>4. longer[Len(longer)] = m
    BY <1>4
  <2>5. QED  BY <2>1, <2>2, <2>3, <2>4
<1> HIDE DEF longer
<1>20. more # <<>> /\ Tip(more) = record /\ Segment(more) = longer
  BY <1>2, <1>3
<1>21. QED  BY <1>8, <1>9, <1>16, <1>17, <1>18, <1>19, <1>20 DEF Formed, more

\* The first record of the successor of a sealed segment.
Successor(lines) == Append(Tip(lines), CheckpointOf(Body(Segment(lines))))

\* That record, alone, is a segment: it carries what the sealed one leaves open, under
\* the next number.
LEMMA SuccessorIs ==
    ASSUME NEW lines \in Seq(Lines), Formed(lines), Sealed(Segment(lines)),
           Len(Successor(lines)) =< MaxRecords \/ Successor(lines) \in Lines
    PROVE  LET more == <<Successor(lines)>>
               n    == IndexOf(Segment(lines))
           IN  /\ Successor(lines) \in Lines /\ more \in Seq(Lines) /\ Tip(more) = Successor(lines)
               /\ Segment(more) = <<CheckpointOf(Body(Segment(lines)))>>
               /\ IndexOf(Segment(more)) = n + 1 /\ ~Sealed(Segment(more))
               /\ SubSeq(Successor(lines), 1, Len(Successor(lines)) - 1) = Tip(lines)
               /\ n + 2 =< Len(Successor(lines))
               /\ Formed(more)
<1> DEFINE segment == Segment(lines)
           history == Tip(lines)
           body    == Body(segment)
           n       == IndexOf(segment)
           m       == CheckpointOf(body)
           record  == Successor(lines)
           more    == <<record>>
<1>1. /\ history \in Lines /\ history \in Seq(Payloads) /\ n \in Nat \ {0}
      /\ Len(history) >= n + 1 /\ Len(history) \in Nat
  <2>1. Len(lines) >= 2
    BY SealedIs
  <2>2. /\ lines # <<>> /\ history \in Lines /\ n \in Nat \ {0} /\ n =< Len(lines[1])
        /\ Len(history) = Len(lines[1]) + Len(lines) - 1 /\ lines[1] \in Lines
    BY <2>1, FormedTyped
  <2>3. Len(lines[1]) \in Nat
    BY <2>2, LinesAre
  <2>4. QED  BY <2>1, <2>2, <2>3, LinesAre
<1>2. body \in Seq(Payloads) /\ OpenItems(body) = OpenItems(segment) /\ IndexOf(body) = n
  BY SealedIs
<1>3. record = Append(history, m)
  BY DEF Successor
<1>4. Len(record) = Len(history) + 1 /\ Len(record) \in Nat
  <2> HIDE DEF history, m, record
  <2>1. history \in Seq(Payloads \cup {m})
    BY <1>1
  <2>2. QED  BY <1>1, <1>3, <2>1
<1>5. m = [kind |-> "checkpoint", segment |-> n + 1, open |-> OpenItems(segment)]
  BY <1>2 DEF CheckpointOf
<1>6. m \in Checkpoints /\ m \in Payloads
  <2>1. n + 1 \in Indexes
    <3>1. CASE Len(record) =< MaxRecords
      BY <1>1, <1>4, <3>1, BoundsAssumption DEF Indexes
    <3>2. CASE record \in Lines
      <4> HIDE DEF m, n, segment, history, record
      <4>1. record \in Seq(Payloads) /\ record[Len(record)] \in Payloads
        BY <1>1, <1>4, <3>2, LinesAre
      <4>2. record[Len(record)] = m
        <5>1. history \in Seq(Payloads \cup {m})
          BY <1>1
        <5>2. Append(history, m)[Len(history) + 1] = m
          BY <5>1
        <5>3. QED  BY <1>3, <1>4, <5>2
      <4>3. m.kind = "checkpoint" /\ m.segment = n + 1
        BY <1>5
      <4>4. QED  BY <4>1, <4>2, <4>3, Kinds
    <3>3. QED  BY <3>1, <3>2
  <2>2. OpenItems(segment) \subseteq Ids
    BY <1>2, OpenTyped
  <2> HIDE DEF m, n, segment
  <2>3. QED  BY <1>5, <2>1, <2>2 DEF Checkpoints, Payloads
<1>7. m.kind = "checkpoint" /\ m.segment = n + 1 /\ m.open = OpenItems(segment)
  <2> HIDE DEF m, n, segment
  <2>1. QED  BY <1>5
<1>8. OpenItems(segment) = Outstanding(history)
  BY DEF Formed
<1>9. /\ \A r \in OfKind(history, "raise") : r.id =< Len(history)
      /\ \A r \in OfKind(history, "settle") : r.ref =< Len(history)
  BY DEF Formed
<1> HIDE DEF segment, history, body, n, m, record
<1>10. /\ record \in Lines /\ record \in Seq(Payloads) /\ record # <<>>
       /\ record[Len(record)] = m
  <2>1. record \in Seq(Payloads) /\ record[Len(history) + 1] = m
    BY <1>1, <1>3, <1>6
  <2>2. record # <<>>
    BY <1>1, <1>4
  <2>3. QED  BY <1>4, <2>1, <2>2, LinesAre
<1>11. /\ more \in Seq(Lines) /\ Len(more) = 1 /\ more[1] = record /\ Tip(more) = record
       /\ more # <<>> /\ DOMAIN more = {1}
  BY <1>10 DEF Tip
<1> HIDE DEF more
<1>12. Segment(more) = <<m>>
  <2>1. Segment(more) = [i \in {1} |-> record[Len(record)]]
    BY <1>11 DEF Segment, LastOf
  <2>2. QED  BY <1>10, <2>1
<1>13. SubSeq(record, 1, Len(record) - 1) = history
  <2> DEFINE front == SubSeq(record, 1, Len(record) - 1)
  <2>1. /\ front \in Seq(Payloads) /\ Len(front) = Len(history)
        /\ \A i \in 1 .. Len(history) : front[i] = record[i]
    BY <1>1, <1>4, <1>10
  <2>2. \A i \in 1 .. Len(history) : record[i] = history[i]
    BY <1>1, <1>3, <1>6
  <2> HIDE DEF front
  <2>3. front = history
    BY <1>1, <2>1, <2>2, SeqEqual
  <2>4. QED  BY <2>3 DEF front
<1> DEFINE one == <<m>>
<1>14. one \in Seq(Payloads) /\ Len(one) = 1 /\ one[1] = m /\ one # <<>> /\ DOMAIN one = {1}
  BY <1>6
<1> HIDE DEF one
<1>15. IndexOf(one) = n + 1 /\ ~Sealed(one)
  BY <1>7, <1>14 DEF IndexOf, Sealed
<1>16. OpenItems(one) = Outstanding(record)
  <2>1. /\ OfKind(one, "checkpoint") = {m}
        /\ OfKind(one, "raise") = {} /\ OfKind(one, "settle") = {}
    <3>1. {one[i] : i \in DOMAIN one} = {m}
      BY <1>14
    <3>2. QED  BY <1>7, <3>1 DEF OfKind
  <2>2. OpenItems(one) = m.open
    <3>1. {r.open : r \in OfKind(one, "checkpoint")} = {m.open}
      BY <2>1
    <3>2. /\ {r.id : r \in OfKind(one, "raise")} = {}
          /\ {r.ref : r \in OfKind(one, "settle")} = {}
      BY <2>1
    <3>3. UNION {m.open} = m.open
      OBVIOUS
    <3>4. QED  BY <3>1, <3>2, <3>3 DEF OpenItems
  <2>3. Outstanding(record) = Outstanding(history)
    BY <1>1, <1>3, <1>6, <1>7, OpenAppend
  <2>4. QED  BY <1>7, <1>8, <2>2, <2>3
<1>17. /\ \A r \in OfKind(record, "raise") : r.id =< Len(record)
       /\ \A r \in OfKind(one, "settle") \cup OfKind(record, "settle") : r.ref =< Len(record)
  <2>1. /\ OfKind(record, "raise") = OfKind(history, "raise")
        /\ OfKind(record, "settle") = OfKind(history, "settle")
    <3>1. \A kind : OfKind(Append(history, m), kind) =
                       OfKind(history, kind) \cup (IF m.kind = kind THEN {m} ELSE {})
      BY <1>1, <1>6, OfKindAppend
    <3>2. QED  BY <1>3, <1>7, <3>1
  <2>2. OfKind(one, "settle") = {}
    BY <1>7, <1>14 DEF OfKind
  <2>3. /\ \A r \in OfKind(history, "raise") : r.id \in Nat
        /\ \A r \in OfKind(history, "settle") : r.ref \in Nat
    BY <1>1, OfKindTyped, Kinds DEF Ids
  <2>4. QED  BY <1>1, <1>4, <1>9, <2>1, <2>2, <2>3
<1>18. Formed(more)
  <2>1. \A i \in DOMAIN more :
           /\ more[i] # <<>> /\ Len(more[i]) = Len(more[1]) + i - 1
           /\ i > 1 => more[i] = Append(more[i - 1], one[i])
           /\ one[i].kind = "checkpoint" => i = 1
           /\ one[i].kind = "seal" => i = Len(more)
    BY <1>4, <1>7, <1>10, <1>11, <1>14
  <2>2. IF one[1].kind = "checkpoint" THEN one[1].segment \in 2 .. Len(more[1])
        ELSE Len(more[1]) = 1
    BY <1>1, <1>4, <1>7, <1>11, <1>14
  <2>3. Segment(more) = one
    BY <1>12 DEF one
  <2>4. QED  BY <1>11, <1>15, <1>16, <1>17, <2>1, <2>2, <2>3 DEF Formed
<1>19. QED
  BY <1>1, <1>4, <1>10, <1>11, <1>12, <1>13, <1>15, <1>18
     DEF segment, history, body, n, m, record, more, one

\* A payload that fits is a payload, in a chain within the bound.
LEMMA FitsTyped ==
    ASSUME NEW lines \in Seq(Lines), Formed(lines), NEW m, Fits(lines, m),
           Len(RecordOf(lines, m)) =< MaxRecords
    PROVE  m \in Payloads
<1>1. /\ Tip(lines) \in Seq(Payloads) /\ Segment(lines) \in Seq(Payloads)
      /\ Len(Segment(lines)) = Len(lines)
      /\ lines # <<>> => /\ Len(Tip(lines)) = Len(lines[1]) + Len(lines) - 1
                         /\ IndexOf(Segment(lines)) \in Indexes
                         /\ Len(lines[1]) >= 1 /\ lines[1] \in Lines
      /\ Segment(lines) = <<>> <=> lines = <<>>
  BY FormedTyped, LinesAre
<1>2. Len(Tip(lines)) + 1 =< MaxRecords
  <2> DEFINE history == Tip(lines)
  <2>1. history \in Seq(Payloads \cup {m})
    BY <1>1
  <2>2. Len(Append(history, m)) = Len(history) + 1
    BY <2>1
  <2>3. QED  BY <2>2 DEF RecordOf
<1>3. CASE m = Raise(Len(Tip(lines)) + 1)
  <2>1. Len(Tip(lines)) + 1 \in Ids
    BY <1>1, <1>2 DEF Ids
  <2>2. QED  BY <1>3, <2>1 DEF Raise, Items, Payloads
<1>4. CASE \E ref \in OpenItems(Segment(lines)) : m = Settle(ref)
  <2>1. OpenItems(Segment(lines)) \subseteq Ids
    BY <1>1, OpenTyped
  <2>2. QED  BY <1>4, <2>1 DEF Settle, Items, Payloads
<1>5. CASE Substantive(Segment(lines)) /\ m = SealOf(Segment(lines))
  <2>1. lines # <<>>
    <3>1. DOMAIN Segment(lines) # {}
      BY <1>5 DEF Substantive
    <3>2. QED  BY <1>1, <3>1
  <2>2. Len(lines[1]) \in Nat /\ Len(lines) \in Nat
    BY <1>1, <2>1, LinesAre
  <2>3. Len(Segment(lines)) + 1 \in Ids
    BY <1>1, <1>2, <2>1, <2>2, BoundsAssumption DEF Ids
  <2>4. Cardinality(OpenItems(Segment(lines))) \in Nat
    BY <1>1, OpenTyped
  <2>5. QED  BY <1>1, <1>5, <2>1, <2>3, <2>4 DEF SealOf, Seals, Payloads
<1>6. QED  BY <1>3, <1>4, <1>5 DEF Fits

-----------------------------------------------------------------------------
(* Sound directories *)

Directories == [active : Files, temp : Files \cup {NoFile},
                archive : [Indexes -> Files \cup {NoFile}]]
Contents    == [Files -> Seq(Lines)]

\* The value that says a name leads nowhere is no file.
LEMMA NoFileIsNone == NoFile \notin Files
BY BoundsAssumption DEF NoFile, Files

\* The number of a directory's active segment.
Number(d, content) == IndexOf(Segment(content[d.active]))

\* The active file and the archives of its lineage are different files.
LEMMA SoundTyped ==
    ASSUME NEW d \in Directories, NEW content \in Contents, NEW stored, NEW told,
           stored \subseteq Files, Sound(d, content, stored, told),
           NEW n, n = Number(d, content)
    PROVE  /\ n \in Nat \ {0} /\ 1 .. n - 1 \subseteq Indexes
           /\ content[d.active] # <<>> => n \in Indexes
           /\ n > 1 => content[d.active] # <<>>
           /\ d.active \in Files /\ content[d.active] \in Seq(Lines) /\ Formed(content[d.active])
           /\ \A i \in 1 .. n - 1 :
                 /\ d.archive[i] \in Files /\ d.archive[i] # NoFile /\ d.archive[i] # d.active
                 /\ content[d.archive[i]] \in Seq(Lines) /\ Formed(content[d.archive[i]])
                 /\ content[d.archive[i]] # <<>>
                 /\ Sealed(Segment(content[d.archive[i]]))
                 /\ IndexOf(Segment(content[d.archive[i]])) = i
<1>1. d.active \in Files /\ content[d.active] \in Seq(Lines) /\ Formed(content[d.active])
  BY DEF Directories, Contents, Sound
<1>2. /\ n \in Nat \ {0}
      /\ content[d.active] # <<>> => n \in Indexes
      /\ content[d.active] = <<>> => n = 1
  BY <1>1, FormedTyped DEF Number
<1>3. 1 .. n - 1 \subseteq Indexes
  <2>1. CASE n \in Indexes
    BY <2>1, BoundsAssumption DEF Indexes
  <2>2. CASE n = 1
    BY <2>2
  <2>3. QED  BY <1>2, <2>1, <2>2
<1>4. ASSUME NEW i \in 1 .. n - 1
      PROVE  /\ d.archive[i] \in Files /\ d.archive[i] # NoFile /\ d.archive[i] # d.active
             /\ content[d.archive[i]] \in Seq(Lines) /\ Formed(content[d.archive[i]])
             /\ content[d.archive[i]] # <<>>
             /\ Sealed(Segment(content[d.archive[i]]))
             /\ IndexOf(Segment(content[d.archive[i]])) = i
  <2>1. /\ d.archive[i] \in stored /\ Formed(content[d.archive[i]])
        /\ Sealed(Segment(content[d.archive[i]]))
        /\ IndexOf(Segment(content[d.archive[i]])) = i
    BY DEF Sound, Number
  <2>2. d.archive[i] \in Files /\ d.archive[i] # NoFile
    <3>1. d.archive[i] \in Files
      BY <2>1
    <3>2. QED  BY <3>1, NoFileIsNone
  <2>3. content[d.archive[i]] \in Seq(Lines)
    BY <2>2 DEF Contents
  <2>4. content[d.archive[i]] # <<>>
    BY <2>1, <2>3, SealedIs
  <2>5. d.archive[i] # d.active
    <3>1. i # n
      BY <1>2
    <3>2. QED  BY <2>1, <3>1 DEF Number
  <2>6. QED  BY <2>1, <2>2, <2>3, <2>4, <2>5
<1>5. QED  BY <1>1, <1>2, <1>3, <1>4

\* A directory with the same active file and the same archives is sound when these
\* hold what they held, whatever becomes of other files.
LEMMA SoundAgain ==
    ASSUME NEW d \in Directories, NEW content \in Contents, NEW stored, NEW told,
           stored \subseteq Files, Sound(d, content, stored, told),
           NEW n, n = Number(d, content),
           NEW e \in Directories, NEW content2 \in Contents, NEW stored2, stored \subseteq stored2,
           e.active = d.active, \A i \in 1 .. n - 1 : e.archive[i] = d.archive[i],
           content2[d.active] = content[d.active],
           \A i \in 1 .. n - 1 : content2[d.archive[i]] = content[d.archive[i]],
           \A i \in Indexes \ 1 .. n - 1 : e.archive[i] # NoFile =>
               i = n /\ e.archive[i] = d.active /\ Sealed(Segment(content[d.active])),
           e.temp # NoFile => e.temp # e.active /\ \A i \in Indexes : e.temp # e.archive[i]
    PROVE  Sound(e, content2, stored2, told) /\ Number(e, content2) = n
<1>1. Number(e, content2) = n /\ content2[e.active] = content[d.active]
  BY DEF Number
<1>2. n \in Nat \ {0}
  BY SoundTyped
<1>3. e.active \in stored2 /\ Formed(content2[e.active])
  BY <1>1 DEF Sound
<1>4. ASSUME NEW i \in 1 .. n - 1
      PROVE  LET lines == content2[e.archive[i]]
                 next1 == content2[IF i + 1 = n THEN e.active ELSE e.archive[i + 1]][1]
             IN  /\ e.archive[i] \in stored2 /\ Formed(lines)
                 /\ Sealed(Segment(lines)) /\ IndexOf(Segment(lines)) = i
                 /\ Tip(lines) = SubSeq(next1, 1, Len(next1) - 1)
  <2> DEFINE first == content[IF i + 1 = n THEN d.active ELSE d.archive[i + 1]][1]
  <2>1. /\ d.archive[i] \in stored /\ Formed(content[d.archive[i]])
        /\ Sealed(Segment(content[d.archive[i]])) /\ IndexOf(Segment(content[d.archive[i]])) = i
        /\ Tip(content[d.archive[i]]) = SubSeq(first, 1, Len(first) - 1)
    BY DEF Sound, Number
  <2>2. content2[e.archive[i]] = content[d.archive[i]] /\ e.archive[i] = d.archive[i]
    OBVIOUS
  <2>3. content2[IF i + 1 = n THEN e.active ELSE e.archive[i + 1]]
            = content[IF i + 1 = n THEN d.active ELSE d.archive[i + 1]]
    <3>1. CASE i + 1 = n  BY <3>1
    <3>2. CASE i + 1 # n
      <4>1. i + 1 \in 1 .. n - 1
        BY <1>2, <3>2
      <4>2. QED  BY <3>2, <4>1
    <3>3. QED  BY <3>1, <3>2
  <2> HIDE DEF first
  <2>4. content2[IF i + 1 = n THEN e.active ELSE e.archive[i + 1]][1] = first
    BY <2>3 DEF first
  <2>5. QED  BY <2>1, <2>2, <2>4
<1>5. told \subseteq Elements(content2[e.active])
                 \cup UNION {Elements(content2[e.archive[i]]) : i \in 1 .. n - 1}
  <2>1. {Elements(content2[e.archive[i]]) : i \in 1 .. n - 1}
            = {Elements(content[d.archive[i]]) : i \in 1 .. n - 1}
    OBVIOUS
  <2>2. told \subseteq Elements(content[d.active])
                   \cup UNION {Elements(content[d.archive[i]]) : i \in 1 .. n - 1}
    BY DEF Sound, Number
  <2>3. QED  BY <1>1, <2>1, <2>2
<1>6. \A i \in Indexes \ 1 .. n - 1 : e.archive[i] # NoFile =>
          i = n /\ e.archive[i] = e.active /\ Sealed(Segment(content2[e.active]))
  BY <1>1
<1>7. QED  BY <1>1, <1>3, <1>4, <1>5, <1>6 DEF Sound, Number

\* A directory is sound again after an append to its active file.
Appended(content, f, m) == [content EXCEPT ![f] = More(content[f], m)]

\* It does, with the new record acknowledged, under the same number.
LEMMA SoundMore ==
    ASSUME NEW d \in Directories, NEW content \in Contents, NEW stored, NEW told,
           stored \subseteq Files, Sound(d, content, stored, told),
           ~Sealed(Segment(content[d.active])),
           NEW m \in Payloads, Fits(content[d.active], m)
    PROVE  LET content2 == Appended(content, d.active, m)
           IN  /\ content2 \in Contents
               /\ Sound(d, content2, stored, told \cup {RecordOf(content[d.active], m)})
               /\ Number(d, content2) = Number(d, content)
               /\ \A i \in 1 .. Number(d, content) - 1 :
                     content2[d.archive[i]] = content[d.archive[i]]
<1> DEFINE n == Number(d, content)
           lines == content[d.active]
           content2 == Appended(content, d.active, m)
<1>0. content2 = [content EXCEPT ![d.active] = More(lines, m)]
  BY DEF Appended
<1> HIDE DEF content2
<1>1. /\ n \in Nat \ {0} /\ 1 .. n - 1 \subseteq Indexes
      /\ n > 1 => lines # <<>>
      /\ d.active \in Files /\ lines \in Seq(Lines) /\ Formed(lines)
      /\ \A i \in 1 .. n - 1 : d.archive[i] \in Files /\ d.archive[i] # d.active
  BY SoundTyped
<1>2. /\ More(lines, m) \in Seq(Lines)
      /\ IndexOf(Segment(More(lines, m))) = IndexOf(Segment(lines))
      /\ Elements(More(lines, m)) = Elements(lines) \cup {RecordOf(lines, m)}
      /\ lines # <<>> => More(lines, m)[1] = lines[1]
  BY <1>1, MoreLines
<1>3. Formed(More(lines, m))
  BY <1>1, MoreFormed
<1>4. /\ content2 \in Contents /\ content2[d.active] = More(lines, m)
      /\ \A f \in Files \ {d.active} : content2[f] = content[f]
  BY <1>0, <1>1, <1>2 DEF Contents
<1>5. Number(d, content2) = n /\ IndexOf(Segment(content2[d.active])) = n
  BY <1>2, <1>4 DEF Number
<1> HIDE DEF n
<1>6. \A i \in 1 .. n - 1 : content2[d.archive[i]] = content[d.archive[i]]
  BY <1>1, <1>4
<1>7. ASSUME NEW i \in 1 .. n - 1
      PROVE  LET it    == content2[d.archive[i]]
                 next1 == content2[IF i + 1 = n THEN d.active ELSE d.archive[i + 1]][1]
             IN  /\ d.archive[i] \in stored /\ Formed(it)
                 /\ Sealed(Segment(it)) /\ IndexOf(Segment(it)) = i
                 /\ Tip(it) = SubSeq(next1, 1, Len(next1) - 1)
  <2> DEFINE first == content[IF i + 1 = n THEN d.active ELSE d.archive[i + 1]][1]
  <2>1. /\ d.archive[i] \in stored /\ Formed(content[d.archive[i]])
        /\ Sealed(Segment(content[d.archive[i]])) /\ IndexOf(Segment(content[d.archive[i]])) = i
        /\ Tip(content[d.archive[i]]) = SubSeq(first, 1, Len(first) - 1)
    BY DEF Sound, Number, n
  <2>2. content2[IF i + 1 = n THEN d.active ELSE d.archive[i + 1]][1] = first
    <3>1. CASE i + 1 = n
      <4>1. n > 1
        BY <1>1, <3>1
      <4>2. QED  BY <1>1, <1>2, <1>4, <3>1, <4>1
    <3>2. CASE i + 1 # n
      <4>1. i + 1 \in 1 .. n - 1
        BY <1>1, <3>2
      <4>2. QED  BY <1>6, <3>2, <4>1
    <3>3. QED  BY <3>1, <3>2
  <2> HIDE DEF first
  <2>3. QED  BY <1>6, <2>1, <2>2
<1>8. told \cup {RecordOf(lines, m)} \subseteq Elements(content2[d.active])
                 \cup UNION {Elements(content2[d.archive[i]]) : i \in 1 .. n - 1}
  <2>1. {Elements(content2[d.archive[i]]) : i \in 1 .. n - 1}
            = {Elements(content[d.archive[i]]) : i \in 1 .. n - 1}
    BY <1>6
  <2>2. told \subseteq Elements(lines)
                   \cup UNION {Elements(content[d.archive[i]]) : i \in 1 .. n - 1}
    BY DEF Sound, Number, n
  <2>3. QED  BY <1>2, <1>4, <2>1, <2>2
<1>9. \A i \in Indexes \ 1 .. n - 1 : d.archive[i] = NoFile
  BY DEF Sound, Number, n
<1>10. /\ d.active \in stored
       /\ d.temp # NoFile => d.temp # d.active /\ \A i \in Indexes : d.temp # d.archive[i]
  BY DEF Sound
<1>11. Sound(d, content2, stored, told \cup {RecordOf(lines, m)})
  BY <1>3, <1>4, <1>5, <1>7, <1>8, <1>9, <1>10 DEF Sound
<1>12. QED  BY <1>4, <1>5, <1>6, <1>11 DEF n, content2

\* A directory is sound again when the staged successor takes the active name from
\* a sealed segment that has its archive name.
LEMMA SoundSuccessor ==
    ASSUME NEW d \in Directories, NEW content \in Contents, NEW stored, NEW told,
           stored \subseteq Files, Sound(d, content, stored, told),
           NEW lines, lines = content[d.active], Sealed(Segment(lines)),
           Successor(lines) \in Lines,
           NEW n, n = Number(d, content), d.archive[n] = d.active,
           d.temp \in stored, content[d.temp] = <<Successor(lines)>>,
           NEW e \in Directories, e.active = d.temp, e.temp = NoFile, e.archive = d.archive
    PROVE  Sound(e, content, stored, told) /\ Number(e, content) = n + 1
<1> DEFINE more == <<Successor(lines)>>
<1>1. /\ n \in Nat \ {0} /\ 1 .. n - 1 \subseteq Indexes
      /\ lines \in Seq(Lines) /\ Formed(lines)
      /\ \A i \in 1 .. n - 1 : d.archive[i] \in Files /\ d.archive[i] # d.active
  BY SoundTyped
<1>2. /\ more[1] = Successor(lines) /\ Formed(more) /\ IndexOf(Segment(more)) = n + 1
      /\ SubSeq(Successor(lines), 1, Len(Successor(lines)) - 1) = Tip(lines)
  BY <1>1, SuccessorIs DEF Number
<1> HIDE DEF more
<1>3. Number(e, content) = n + 1 /\ content[e.active] = more
  BY <1>2 DEF Number, more
<1>4. ASSUME NEW i \in 1 .. n
      PROVE  LET it    == content[e.archive[i]]
                 next1 == content[IF i + 1 = n + 1 THEN e.active ELSE e.archive[i + 1]][1]
             IN  /\ e.archive[i] \in stored /\ Formed(it)
                 /\ Sealed(Segment(it)) /\ IndexOf(Segment(it)) = i
                 /\ Tip(it) = SubSeq(next1, 1, Len(next1) - 1)
  <2>1. CASE i = n
    <3>1. /\ e.archive[i] = d.active /\ d.active \in stored /\ content[e.archive[i]] = lines
          /\ IndexOf(Segment(lines)) = i
      BY <2>1 DEF Sound, Number
    <3>2. content[IF i + 1 = n + 1 THEN e.active ELSE e.archive[i + 1]][1] = Successor(lines)
      BY <1>2, <1>3, <2>1
    <3>3. QED  BY <1>1, <1>2, <3>1, <3>2
  <2>2. CASE i # n
    <3> DEFINE first == content[IF i + 1 = n THEN d.active ELSE d.archive[i + 1]][1]
    <3>1. i \in 1 .. n - 1
      BY <1>1, <2>2
    <3>2. /\ d.archive[i] \in stored /\ Formed(content[d.archive[i]])
          /\ Sealed(Segment(content[d.archive[i]]))
          /\ IndexOf(Segment(content[d.archive[i]])) = i
          /\ Tip(content[d.archive[i]]) = SubSeq(first, 1, Len(first) - 1)
      BY <3>1 DEF Sound, Number
    <3>3. content[IF i + 1 = n + 1 THEN e.active ELSE e.archive[i + 1]][1] = first
      BY <1>1, <2>2
    <3> HIDE DEF first
    <3>4. QED  BY <3>2, <3>3
  <2>3. QED  BY <2>1, <2>2
<1>5. told \subseteq Elements(content[e.active])
                 \cup UNION {Elements(content[e.archive[i]]) : i \in 1 .. n}
  <2>1. told \subseteq Elements(lines)
                   \cup UNION {Elements(content[d.archive[i]]) : i \in 1 .. n - 1}
    BY DEF Sound, Number
  <2>2. ASSUME NEW r \in told
        PROVE  \E i \in 1 .. n : r \in Elements(content[e.archive[i]])
    <3>1. CASE r \in Elements(lines)
      <4>1. n \in 1 .. n /\ content[e.archive[n]] = lines
        BY <1>1
      <4>2. QED  BY <3>1, <4>1
    <3>2. CASE r \in UNION {Elements(content[d.archive[i]]) : i \in 1 .. n - 1}
      <4>1. PICK i \in 1 .. n - 1 : r \in Elements(content[d.archive[i]])
        BY <3>2
      <4>2. i \in 1 .. n /\ e.archive[i] = d.archive[i]
        BY <1>1
      <4>3. QED  BY <4>1, <4>2
    <3>3. QED  BY <2>1, <3>1, <3>2
  <2>3. QED  BY <2>2
<1>6. \A i \in Indexes \ 1 .. n : e.archive[i] = NoFile
  <2>1. \A i \in Indexes \ 1 .. n - 1 : d.archive[i] # NoFile => i = n
    BY DEF Sound, Number
  <2>2. QED  BY <1>1, <2>1
<1>7. 1 .. n = 1 .. (n + 1) - 1
  BY <1>1
<1>8. e.active \in stored /\ Formed(content[e.active])
  BY <1>2, <1>3
<1>9. Sound(e, content, stored, told)
  BY <1>3, <1>4, <1>5, <1>6, <1>7, <1>8 DEF Sound, Number
<1>10. QED  BY <1>3, <1>9

-----------------------------------------------------------------------------
(* The files, action by action *)

\* What IInv says of the files.
Whole == /\ data \in Contents /\ durable \subseteq Files /\ acked \subseteq Lines
         /\ dir \in Directories /\ disk \in Directories
         /\ Sound(dir, data, durable, acked)
         /\ Sound(disk, data, durable, acked)
         /\ DiskFollows

\* IInv says it.
LEMMA WholeIs == ASSUME IInv PROVE Whole
<1>1. {dir, disk} \subseteq Directories /\ data \in Contents
  BY DEF IInv, TypeOK, Directories, Contents
<1>2. QED  BY <1>1 DEF IInv, TypeOK, Whole

\* The active segment, in memory and on the disk.
LEMMA CurrentIs ==
    ASSUME Whole
    PROVE  /\ ActiveIndex = Number(dir, data) /\ ActiveIndex \in Nat \ {0}
           /\ Current \in Seq(Lines) /\ Formed(Current)
           /\ 1 .. ActiveIndex - 1 \subseteq Indexes
           /\ Current # <<>> => ActiveIndex \in Indexes
           /\ dir.active = disk.active => Number(disk, data) = ActiveIndex
<1>1. ActiveIndex = Number(dir, data)
  BY DEF ActiveIndex, Number, Current
<1>2. QED  BY <1>1, SoundTyped DEF Whole, Number, Current

\* Once the active segment is sealed, the rename that made it is synced.
LEMMA SealedSettled ==
    ASSUME Whole, Sealed(Segment(Current))
    PROVE  /\ dir.active = disk.active /\ Number(disk, data) = ActiveIndex
           /\ \A i \in 1 .. ActiveIndex - 1 : dir.archive[i] = disk.archive[i]
           /\ Len(Current) >= 2 /\ Current # <<>>
<1>1. Len(Current) >= 2
  BY CurrentIs, SealedIs
<1>2. dir.active = disk.active /\ \A i \in 1 .. ActiveIndex - 1 : dir.archive[i] = disk.archive[i]
  BY <1>1 DEF Whole, DiskFollows
<1>3. QED  BY <1>1, <1>2, CurrentIs

\* While the rename is synced, the archives beyond the lineage, in memory and on
\* the disk, are the sealed active file under its name.
LEMMA LaterArchives ==
    ASSUME Whole, dir.active = disk.active
    PROVE  /\ \A i \in 1 .. ActiveIndex - 1 :
                 dir.archive[i] = disk.archive[i] /\ dir.archive[i] # NoFile
           /\ \A i \in Indexes \ 1 .. ActiveIndex - 1 :
                 /\ dir.archive[i] # NoFile => i = ActiveIndex /\ dir.archive[i] = dir.active
                                               /\ Sealed(Segment(Current))
                 /\ disk.archive[i] # NoFile => i = ActiveIndex /\ disk.archive[i] = dir.active
                                                /\ Sealed(Segment(Current))
<1>1. \A i \in 1 .. ActiveIndex - 1 : dir.archive[i] = disk.archive[i]
  BY DEF Whole, DiskFollows
<1>2. \A i \in 1 .. ActiveIndex - 1 : dir.archive[i] # NoFile
  BY CurrentIs, SoundTyped DEF Whole
<1>3. \A i \in Indexes \ 1 .. ActiveIndex - 1 : dir.archive[i] # NoFile =>
          i = ActiveIndex /\ dir.archive[i] = dir.active /\ Sealed(Segment(Current))
  BY DEF Whole, Sound, ActiveIndex, Current
<1>4. \A i \in Indexes \ 1 .. ActiveIndex - 1 : disk.archive[i] # NoFile =>
          i = ActiveIndex /\ disk.archive[i] = dir.active /\ Sealed(Segment(Current))
  BY DEF Whole, Sound, ActiveIndex, Current
<1>5. QED  BY <1>1, <1>2, <1>3, <1>4

\* An append leaves a chain.
LEMMA AppendWhole ==
    ASSUME Whole, NEW p \in Procs, mem \in [Procs -> Seq(Lines)], mem[p] = Current,
           ~Sealed(Segment(Current)), NEW m, Fits(Current, m), AppendsTo(p, m)
    PROVE  /\ Whole' /\ dir.active' = disk.active'
           /\ m \in Payloads /\ Current' = More(Current, m) /\ mem'[p] = Current'
           /\ mem' \in [Procs -> Seq(Lines)]
           /\ \A q \in Procs \ {p} : mem'[q] = mem[q]
           /\ acked' = acked \cup {RecordOf(Current, m)}
           /\ ActiveIndex' = ActiveIndex
           /\ \A i \in 1 .. ActiveIndex - 1 : ArchiveOf(i)' = ArchiveOf(i)
<1>1. /\ Current \in Seq(Lines) /\ Formed(Current) /\ ActiveIndex = Number(dir, data)
      /\ ActiveIndex \in Nat \ {0}
      /\ data \in Contents /\ durable \subseteq Files /\ dir \in Directories
      /\ disk \in Directories /\ acked \subseteq Lines
      /\ Sound(dir, data, durable, acked) /\ Sound(disk, data, durable, acked)
  BY CurrentIs DEF Whole
<1>2. /\ Len(RecordOf(Current, m)) =< MaxRecords
      /\ data' = [data EXCEPT ![dir.active] = More(Current, m)]
      /\ durable' = durable \cup {dir.active}
      /\ disk' = [disk EXCEPT !.active = dir.active,
                              !.temp = IF dir.active # disk.active THEN dir.temp ELSE @]
      /\ acked' = acked \cup {RecordOf(Current, m)}
      /\ mem' = [mem EXCEPT ![p] = More(Current, m)]
      /\ dir' = dir
  BY DEF AppendsTo, RecordOf, More, Current
<1>3. m \in Payloads
  BY <1>1, <1>2, FitsTyped
<1>4. More(Current, m) \in Seq(Lines) /\ RecordOf(Current, m) \in Lines
  BY <1>1, <1>3, MoreLines
<1>5. durable' = durable
  BY <1>1, <1>2 DEF Sound
<1>6. /\ data' \in Contents /\ Sound(dir, data', durable, acked')
      /\ Number(dir, data') = Number(dir, data)
      /\ \A i \in 1 .. Number(dir, data) - 1 : data'[dir.archive[i]] = data[dir.archive[i]]
  <2>1. /\ ~Sealed(Segment(data[dir.active])) /\ Fits(data[dir.active], m)
        /\ data' = Appended(data, dir.active, m)
        /\ acked' = acked \cup {RecordOf(data[dir.active], m)}
    BY <1>2 DEF Current, Appended
  <2>2. QED  BY ONLY <1>1, <1>3, <2>1, SoundMore
<1>7. disk' = (IF dir.active = disk.active THEN disk ELSE dir)
  <2>1. CASE dir.active = disk.active
    BY <1>1, <1>2, <2>1 DEF Directories
  <2>2. CASE dir.active # disk.active
    <3>1. disk.archive = dir.archive
      BY <2>2 DEF Whole, DiskFollows
    <3>2. QED  BY <1>1, <1>2, <2>2, <3>1 DEF Directories
  <2>3. QED  BY <2>1, <2>2
<1>8. Sound(disk', data', durable, acked')
  <2>1. CASE dir.active = disk.active
    <3>1. disk' = disk /\ data[disk.active] = Current
      BY <1>7, <2>1 DEF Current
    <3>2. data' = Appended(data, disk.active, m)
      BY <1>2, <2>1, <3>1 DEF Appended
    <3>3. Sound(disk, data', durable, acked')
      <4>1. /\ ~Sealed(Segment(data[disk.active])) /\ Fits(data[disk.active], m)
            /\ acked' = acked \cup {RecordOf(data[disk.active], m)}
        BY <1>2, <3>1
      <4>2. QED  BY ONLY <1>1, <1>3, <3>2, <4>1, SoundMore
    <3>4. QED  BY <3>1, <3>3
  <2>2. CASE dir.active # disk.active
    BY <1>6, <1>7, <2>2
  <2>3. QED  BY <2>1, <2>2
<1>9. /\ Current' = More(Current, m) /\ ActiveIndex' = ActiveIndex
      /\ \A i \in 1 .. ActiveIndex - 1 : ArchiveOf(i)' = ArchiveOf(i)
  <2>1. Current' = data'[dir.active] /\ ActiveIndex' = Number(dir, data')
    BY <1>2 DEF Current, ActiveIndex, Number
  <2>2. dir.active \in Files
    BY <1>1 DEF Directories
  <2>3. QED  BY <1>1, <1>2, <1>6, <2>1, <2>2 DEF Contents, ArchiveOf
<1>10. DiskFollows' /\ dir.active' = disk.active'
  <2>1. CASE dir.active = disk.active
    BY <1>2, <1>7, <1>9, <2>1 DEF DiskFollows, Whole
  <2>2. CASE dir.active # disk.active
    BY <1>2, <1>7, <2>2 DEF DiskFollows
  <2>3. QED  BY <2>1, <2>2
<1>11. Whole'
  BY <1>1, <1>2, <1>4, <1>5, <1>6, <1>7, <1>8, <1>10 DEF Whole
<1>12. QED  BY <1>2, <1>3, <1>4, <1>9, <1>10, <1>11

\* A name that leads to no file of the chain is left for the staged successor.
LEMMA FreeFile ==
    ASSUME Whole, Sealed(Segment(Current)), Len(Successor(Current)) =< MaxRecords,
           dir.temp = NoFile
    PROVE  StagingFile \in Files /\ StagingFile \notin Named(dir) \cup Named(disk)
<1> DEFINE n == ActiveIndex
           taken == [k \in 1 .. n + 1 |-> IF k < n THEN dir.archive[k]
                                          ELSE IF k = n THEN dir.active ELSE disk.temp]
           T == {taken[k] : k \in 1 .. n + 1}
<1>1. n \in Nat \ {0} /\ n + 2 =< MaxRecords /\ 1 .. n - 1 \subseteq Indexes
  <2>1. n + 2 =< Len(Successor(Current)) /\ Len(Successor(Current)) \in Nat
    <3>1. Current \in Seq(Lines) /\ Formed(Current) /\ n = IndexOf(Segment(Current))
      BY CurrentIs DEF ActiveIndex
    <3>2. Successor(Current) \in Lines /\ n + 2 =< Len(Successor(Current))
      BY <3>1, SuccessorIs
    <3>3. QED  BY <3>2, LinesAre
  <2>2. QED  BY <2>1, CurrentIs, BoundsAssumption
<1>2. Named(dir) \cup Named(disk) \subseteq T \cup {NoFile}
  <2>1. \A i \in 1 .. n - 1 : dir.archive[i] \in T /\ disk.archive[i] \in T
    <3>1. \A i \in 1 .. n - 1 : i \in 1 .. n + 1 /\ taken[i] = dir.archive[i]
      BY <1>1
    <3>2. QED  BY <3>1, SealedSettled
  <2>2. dir.active \in T /\ disk.active \in T
    <3>1. n \in 1 .. n + 1 /\ taken[n] = dir.active
      BY <1>1
    <3>2. QED  BY <3>1, SealedSettled
  <2>3. disk.temp \in T
    <3>1. n + 1 \in 1 .. n + 1 /\ taken[n + 1] = disk.temp
      BY <1>1
    <3>2. QED  BY <3>1
  <2> HIDE DEF T
  <2>4. \A i \in Indexes : /\ dir.archive[i] \in T \cup {NoFile}
                           /\ disk.archive[i] \in T \cup {NoFile}
    BY <2>1, <2>2, SealedSettled, LaterArchives
  <2>5. QED  BY <2>2, <2>3, <2>4 DEF Named
<1>3. \E f \in Files : f \notin T
  <2>1. /\ IsFiniteSet(1 .. n + 1) /\ Cardinality(1 .. n + 1) = n + 1
    BY <1>1, FS_Interval
  <2>2. taken \in Surjection(1 .. n + 1, T)
    BY DEF Surjection
  <2>3. IsFiniteSet(T) /\ Cardinality(T) =< n + 1
    BY <2>1, <2>2, FS_Surjection
  <2>4. Cardinality(Files) = MaxRecords + 1
    BY FS_Interval, BoundsAssumption DEF Files
  <2> HIDE DEF T
  <2>5. ~(Files \subseteq T)
    <3> SUFFICES ASSUME Files \subseteq T PROVE FALSE
      OBVIOUS
    <3>1. Cardinality(Files) =< Cardinality(T) /\ Cardinality(T) \in Nat
      BY <2>3, FS_Subset, FS_CardinalityType
    <3>2. QED  BY <1>1, <2>3, <2>4, <3>1, BoundsAssumption
  <2>6. QED  BY <2>5
<1> HIDE DEF T
<1>4. \E f \in Files : f \notin Named(dir) \cup Named(disk)
  BY <1>2, <1>3, NoFileIsNone
<1>5. QED  BY <1>4 DEF StagingFile

\* A directory may be synced.
LEMMA SyncWhole ==
    ASSUME Whole, disk' = dir, UNCHANGED <<data, durable, dir, acked>>
    PROVE  Whole'
<1>1. DiskFollows'
  BY DEF DiskFollows
<1>2. QED  BY <1>1 DEF Whole

\* What is staged replaces no file of the chain.
LEMMA StageWhole ==
    ASSUME Whole, Sealed(Segment(Current)), Len(Successor(Current)) =< MaxRecords,
           data' = [data EXCEPT ![StagingFile] = <<Successor(Current)>>],
           durable' = durable \cup {StagingFile},
           dir' = [dir EXCEPT !.temp = StagingFile],
           UNCHANGED <<disk, acked>>
    PROVE  /\ Whole' /\ Current' = Current /\ ActiveIndex' = ActiveIndex
           /\ \A i \in 1 .. ActiveIndex - 1 : ArchiveOf(i)' = ArchiveOf(i)
           /\ dir'.temp \in durable' /\ data'[dir'.temp] = <<Successor(Current)>>
<1> DEFINE n == ActiveIndex
           f == StagingFile
<1>1. /\ Current \in Seq(Lines) /\ Formed(Current) /\ n = Number(dir, data) /\ n \in Nat \ {0}
      /\ n = IndexOf(Segment(Current)) /\ 1 .. n - 1 \subseteq Indexes
      /\ data \in Contents /\ durable \subseteq Files /\ dir \in Directories
      /\ disk \in Directories /\ acked \subseteq Lines
      /\ Sound(dir, data, durable, acked) /\ Sound(disk, data, durable, acked)
  BY CurrentIs DEF Whole, ActiveIndex
<1>2. /\ dir.active = disk.active /\ Number(disk, data) = n
      /\ \A i \in 1 .. n - 1 : dir.archive[i] = disk.archive[i] /\ dir.archive[i] # NoFile
      /\ \A i \in Indexes \ 1 .. n - 1 :
            /\ dir.archive[i] # NoFile => i = n /\ dir.archive[i] = dir.active
                                          /\ Sealed(Segment(Current))
            /\ disk.archive[i] # NoFile => i = n /\ disk.archive[i] = dir.active
                                           /\ Sealed(Segment(Current))
  BY SealedSettled, LaterArchives
<1>3. /\ f \in Files /\ f # dir.active
      /\ \A i \in Indexes : f # dir.archive[i]
      /\ f # NoFile
  <2>1. CASE dir.temp = NoFile
    <3>1. f \in Files /\ f \notin Named(dir) \cup Named(disk)
      BY <2>1, FreeFile
    <3>2. QED  BY <3>1, NoFileIsNone DEF Named
  <2>2. CASE dir.temp # NoFile
    <3>1. f = dir.temp
      BY <2>2 DEF StagingFile
    <3>2. dir.temp \in Files
      BY <1>1, <2>2 DEF Directories
    <3>3. dir.temp # dir.active /\ \A i \in Indexes : dir.temp # dir.archive[i]
      BY <1>1, <2>2 DEF Sound
    <3>4. QED  BY <2>2, <3>1, <3>2, <3>3
  <2>3. QED  BY <2>1, <2>2
<1> HIDE DEF f, n
<1>4. <<Successor(Current)>> \in Seq(Lines)
  BY <1>1, SuccessorIs
<1>5. /\ data' \in Contents /\ data'[f] = <<Successor(Current)>>
      /\ \A g \in Files \ {f} : data'[g] = data[g]
  BY <1>1, <1>3, <1>4 DEF Contents, f
<1>6. /\ dir' \in Directories /\ dir'.active = dir.active /\ dir'.archive = dir.archive
      /\ dir'.temp = f /\ disk' = disk
  BY <1>1, <1>3 DEF Directories, f
<1>7. /\ data'[dir.active] = data[dir.active] /\ data'[disk.active] = data[disk.active]
      /\ \A i \in 1 .. n - 1 : data'[dir.archive[i]] = data[dir.archive[i]]
  <2>1. dir.active \in Files /\ \A i \in 1 .. n - 1 : dir.archive[i] \in Files
    BY <1>1, SoundTyped
  <2>2. QED  BY <1>1, <1>2, <1>3, <1>5, <2>1
<1>8. durable \subseteq durable' /\ durable' \subseteq Files /\ f \in durable'
  BY <1>1, <1>3 DEF f
<1>9. Sound(dir', data', durable', acked) /\ Number(dir', data') = n
  <2>1. \A i \in Indexes \ 1 .. n - 1 : dir'.archive[i] # NoFile =>
            i = n /\ dir'.archive[i] = dir.active /\ Sealed(Segment(data[dir.active]))
    BY <1>2, <1>6 DEF Current
  <2>2. dir'.temp # NoFile => dir'.temp # dir'.active
                              /\ \A i \in Indexes : dir'.temp # dir'.archive[i]
    BY <1>3, <1>6
  <2>3. \A i \in 1 .. n - 1 : dir'.archive[i] = dir.archive[i]
    BY <1>6
  <2>4. /\ dir \in Directories /\ data \in Contents /\ durable \subseteq Files
        /\ Sound(dir, data, durable, acked) /\ n = Number(dir, data)
    BY <1>1
  <2>5. /\ dir' \in Directories /\ data' \in Contents /\ durable \subseteq durable'
        /\ dir'.active = dir.active /\ data'[dir.active] = data[dir.active]
        /\ \A i \in 1 .. n - 1 : data'[dir.archive[i]] = data[dir.archive[i]]
    BY <1>5, <1>6, <1>7, <1>8
  <2>6. QED  BY ONLY <2>1, <2>2, <2>3, <2>4, <2>5, SoundAgain
<1>10. Sound(disk', data', durable', acked)
  <2>1. /\ \A i \in Indexes \ 1 .. n - 1 : disk.archive[i] # NoFile =>
            i = n /\ disk.archive[i] = disk.active /\ Sealed(Segment(data[disk.active]))
        /\ \A i \in 1 .. n - 1 : data'[disk.archive[i]] = data[disk.archive[i]]
    BY <1>2, <1>7 DEF Current
  <2>2. disk.temp # NoFile => disk.temp # disk.active
                              /\ \A i \in Indexes : disk.temp # disk.archive[i]
    BY <1>1 DEF Sound
  <2>3. n = Number(disk, data)
    BY <1>2
  <2>4. Sound(disk, data', durable', acked)
    BY ONLY <1>1, <1>5, <1>7, <1>8, <2>1, <2>2, <2>3, SoundAgain
  <2>5. QED  BY <1>6, <2>4
<1>11. /\ Current' = Current /\ ActiveIndex' = n
       /\ \A i \in 1 .. n - 1 : ArchiveOf(i)' = ArchiveOf(i)
  BY <1>6, <1>7, <1>9 DEF Current, ActiveIndex, Number, ArchiveOf
<1>12. DiskFollows'
  <2>1. \A i \in 1 .. n - 1 : dir'.archive[i] = disk'.archive[i]
    BY <1>2, <1>6
  <2>2. QED  BY <1>2, <1>6, <1>11, <2>1 DEF DiskFollows
<1>13. Whole'
  BY <1>1, <1>5, <1>6, <1>8, <1>9, <1>10, <1>12 DEF Whole
<1>14. QED  BY <1>5, <1>6, <1>8, <1>11, <1>13 DEF n

\* The sealed active file may get its archive name.
LEMMA LinkWhole ==
    ASSUME Whole, Sealed(Segment(Current)), dir.archive[ActiveIndex] = NoFile,
           dir' = [dir EXCEPT !.archive[ActiveIndex] = dir.active],
           UNCHANGED <<data, durable, disk, acked>>
    PROVE  /\ Whole' /\ Current' = Current /\ ActiveIndex' = ActiveIndex
           /\ \A i \in 1 .. ActiveIndex - 1 : ArchiveOf(i)' = ArchiveOf(i)
           /\ dir'.archive[ActiveIndex] = dir'.active /\ dir'.temp = dir.temp
           /\ dir'.active = dir.active
<1> DEFINE n == ActiveIndex
<1>1. /\ n = Number(dir, data) /\ n \in Indexes /\ n \in Nat \ {0}
      /\ 1 .. n - 1 \subseteq Indexes
      /\ data \in Contents /\ durable \subseteq Files /\ dir \in Directories
      /\ disk \in Directories /\ acked \subseteq Lines
      /\ Sound(dir, data, durable, acked) /\ Sound(disk, data, durable, acked)
  BY CurrentIs, SealedSettled DEF Whole
<1>2. /\ dir.active = disk.active
      /\ \A i \in 1 .. n - 1 : dir.archive[i] = disk.archive[i]
      /\ \A i \in Indexes \ 1 .. n - 1 : dir.archive[i] # NoFile => i = n
  BY SealedSettled, LaterArchives
<1> HIDE DEF n
<1>3. /\ dir' \in Directories /\ dir'.active = dir.active /\ dir'.temp = dir.temp
      /\ dir'.archive[n] = dir.active
      /\ \A i \in Indexes \ {n} : dir'.archive[i] = dir.archive[i]
  <2>1. dir' = [dir EXCEPT !.archive[n] = dir.active]
    BY DEF n
  <2>2. QED  BY <1>1, <2>1 DEF Directories
<1>4. \A i \in 1 .. n - 1 : dir'.archive[i] = dir.archive[i]
  <2>1. \A i \in 1 .. n - 1 : i \in Indexes \ {n}
    BY <1>1
  <2>2. QED  BY <1>3, <2>1
<1>5. Sound(dir', data, durable, acked) /\ Number(dir', data) = n
  <2>1. \A i \in Indexes \ 1 .. n - 1 : dir'.archive[i] # NoFile =>
            i = n /\ dir'.archive[i] = dir.active /\ Sealed(Segment(data[dir.active]))
    BY <1>2, <1>3 DEF Current
  <2>2. dir'.temp # NoFile => dir'.temp # dir'.active
                              /\ \A i \in Indexes : dir'.temp # dir'.archive[i]
    <3>1. dir.temp # NoFile => dir.temp # dir.active /\ \A i \in Indexes : dir.temp # dir.archive[i]
      BY <1>1 DEF Sound
    <3>2. QED  BY <1>3, <3>1
  <2>3. /\ dir \in Directories /\ data \in Contents /\ durable \subseteq Files
        /\ Sound(dir, data, durable, acked) /\ n = Number(dir, data)
        /\ dir' \in Directories /\ dir'.active = dir.active
    BY <1>1, <1>3
  <2>4. QED  BY ONLY <1>4, <2>1, <2>2, <2>3, SoundAgain
<1>6. /\ Current' = Current /\ ActiveIndex' = n
      /\ \A i \in 1 .. n - 1 : ArchiveOf(i)' = ArchiveOf(i)
  BY <1>3, <1>4, <1>5 DEF Current, ActiveIndex, Number, ArchiveOf
<1>7. DiskFollows'
  <2>1. \A i \in 1 .. n - 1 : dir'.archive[i] = disk'.archive[i]
    BY <1>2, <1>4
  <2>2. QED  BY <1>2, <1>3, <1>6, <2>1 DEF DiskFollows
<1>8. Whole'
  BY <1>1, <1>3, <1>5, <1>7 DEF Whole
<1>9. QED  BY <1>3, <1>6, <1>8 DEF n

\* The successor takes the active name; the disk has the directory before it.
LEMMA CommitWhole ==
    ASSUME Whole, Sealed(Segment(Current)), disk = dir,
           dir.archive[ActiveIndex] = dir.active,
           dir.temp \in durable, data[dir.temp] = <<Successor(Current)>>,
           dir' = [dir EXCEPT !.active = dir.temp, !.temp = NoFile],
           UNCHANGED <<data, durable, disk, acked>>
    PROVE  /\ Whole' /\ Current' = <<Successor(Current)>> /\ ActiveIndex' = ActiveIndex + 1
           /\ \A i \in 1 .. ActiveIndex - 1 : ArchiveOf(i)' = ArchiveOf(i)
           /\ data'[dir'.archive[ActiveIndex]] = Current
           /\ Segment(Current)' = <<CheckpointOf(Body(Segment(Current)))>>
           /\ ~Sealed(Segment(Current))' /\ dir'.active # disk'.active
<1> DEFINE n == ActiveIndex
<1>1. /\ n = Number(dir, data) /\ n \in Indexes /\ n \in Nat \ {0}
      /\ Current \in Seq(Lines) /\ Formed(Current)
      /\ data \in Contents /\ durable \subseteq Files /\ dir \in Directories
      /\ disk \in Directories /\ acked \subseteq Lines
      /\ Sound(dir, data, durable, acked) /\ Sound(disk, data, durable, acked)
  BY CurrentIs, SealedSettled DEF Whole
<1>2. /\ dir' \in Directories /\ dir'.active = dir.temp /\ dir'.temp = NoFile
      /\ dir'.archive = dir.archive /\ dir.temp \in Files
  BY <1>1 DEF Directories
<1>3. Successor(Current) \in Lines
  <2> DEFINE r == Successor(Current)
  <2>1. <<r>> \in Seq(Lines) /\ Len(<<r>>) = 1 /\ <<r>>[1] = r
    BY <1>1, <1>2 DEF Contents
  <2> HIDE DEF r
  <2>2. r \in Lines
    BY <2>1
  <2>3. QED  BY <2>2 DEF r
<1>4. Sound(dir', data, durable, acked) /\ Number(dir', data) = n + 1
  <2>1. /\ dir \in Directories /\ data \in Contents /\ durable \subseteq Files
        /\ Sound(dir, data, durable, acked) /\ n = Number(dir, data)
    BY <1>1
  <2>2. /\ Sealed(Segment(data[dir.active])) /\ Successor(data[dir.active]) \in Lines
        /\ dir.archive[n] = dir.active
        /\ data[dir.temp] = <<Successor(data[dir.active])>>
    BY <1>3 DEF Current
  <2>3. dir.temp \in durable
    OBVIOUS
  <2> HIDE DEF n
  <2>4. QED  BY ONLY <1>2, <2>1, <2>2, <2>3, SoundSuccessor
<1>5. /\ Current' = <<Successor(Current)>> /\ ActiveIndex' = n + 1
      /\ \A i \in 1 .. n - 1 : ArchiveOf(i)' = ArchiveOf(i)
      /\ data'[dir'.archive[n]] = Current
  BY <1>2, <1>4 DEF Current, ActiveIndex, Number, ArchiveOf
<1>6. /\ Segment(Current)' = <<CheckpointOf(Body(Segment(Current)))>>
      /\ ~Sealed(Segment(Current))'
  <2>1. /\ Segment(<<Successor(Current)>>) = <<CheckpointOf(Body(Segment(Current)))>>
        /\ ~Sealed(Segment(<<Successor(Current)>>))
    BY <1>1, <1>3, SuccessorIs
  <2>2. QED  BY <1>5, <2>1
<1>7. dir'.active # disk'.active
  BY <1>1, <1>2, NoFileIsNone DEF Sound
<1>8. DiskFollows'
  <2>1. Len(Current)' = 1 /\ ActiveIndex' > 1
    BY <1>1, <1>5
  <2>2. /\ disk'.archive = dir'.archive /\ disk'.active = dir'.archive[n]
        /\ dir'.temp = NoFile /\ disk'.temp = dir'.active
    BY <1>2
  <2>3. disk'.active = dir'.archive[ActiveIndex' - 1]
    BY <1>1, <1>5, <2>2
  <2>4. QED  BY <1>7, <2>1, <2>2, <2>3 DEF DiskFollows
<1>9. Whole'
  BY <1>1, <1>2, <1>4, <1>8 DEF Whole
<1>10. QED  BY <1>5, <1>6, <1>7, <1>9

\* What a sound directory names of the chain is on the disk, and is kept.
LEMMA KeptByPower ==
    ASSUME NEW d \in Directories, NEW content \in Contents, NEW stored, NEW told,
           stored \subseteq Files, Sound(d, content, stored, told),
           NEW e \in Directories, e.active = d.active,
           NEW n, n = Number(d, content),
           \A i \in 1 .. n - 1 : e.archive[i] = d.archive[i],
           \A i \in Indexes \ 1 .. n - 1 : e.archive[i] # NoFile =>
               i = n /\ e.archive[i] = d.active /\ Sealed(Segment(content[d.active])),
           e.temp # NoFile => e.temp # e.active /\ \A i \in Indexes : e.temp # e.archive[i],
           NEW content2, content2 = [f \in Files |-> IF f \in stored THEN content[f] ELSE <<>>]
    PROVE  /\ content2 \in Contents /\ Sound(e, content2, stored, told)
           /\ content2[d.active] = content[d.active] /\ Number(e, content2) = n
           /\ \A i \in 1 .. n - 1 : content2[d.archive[i]] = content[d.archive[i]]
<1>1. content2 \in Contents
  <2>1. <<>> \in Seq(Lines)
    OBVIOUS
  <2>2. QED  BY <2>1 DEF Contents
<1>2. \A f \in stored : content2[f] = content[f]
  OBVIOUS
<1>3. content2[d.active] = content[d.active]
  BY <1>2 DEF Sound
<1>4. \A i \in 1 .. n - 1 : content2[d.archive[i]] = content[d.archive[i]]
  BY <1>2 DEF Sound, Number
<1>5. Sound(e, content2, stored, told) /\ Number(e, content2) = n
  BY <1>1, <1>3, <1>4, SoundAgain
<1>6. QED  BY <1>1, <1>3, <1>4, <1>5

\* A power loss leaves a chain, the one there was or the one before the rename.
LEMMA PowerWhole ==
    ASSUME Whole, PowerLoss
    PROVE  /\ Whole' /\ dir' = disk'
           /\ \/ /\ Current' = Current /\ ActiveIndex' = ActiveIndex
                 /\ \A i \in 1 .. ActiveIndex - 1 : ArchiveOf(i)' = ArchiveOf(i)
              \/ /\ dir.active # disk.active
                 /\ ActiveIndex' = ActiveIndex - 1 /\ ActiveIndex > 1
                 /\ Current' = data[dir.archive[ActiveIndex - 1]]
                 /\ \A i \in 1 .. ActiveIndex - 2 : ArchiveOf(i)' = ArchiveOf(i)
<1> DEFINE n == ActiveIndex
<1>1. /\ n = Number(dir, data) /\ n \in Nat \ {0}
      /\ Current \in Seq(Lines) /\ Formed(Current)
      /\ data \in Contents /\ durable \subseteq Files /\ dir \in Directories
      /\ disk \in Directories /\ acked \subseteq Lines
      /\ Sound(dir, data, durable, acked) /\ Sound(disk, data, durable, acked)
  BY CurrentIs DEF Whole
<1>2. /\ durable' = durable /\ acked' = acked /\ disk' = dir'
      /\ data' = [f \in Files |-> IF f \in durable THEN data[f] ELSE <<>>]
  BY DEF PowerLoss
<1>3. PICK renamed, linked, staged \in BOOLEAN : dir' = Found(renamed, linked, staged)
  BY DEF PowerLoss
<1>4. SUFFICES /\ data' \in Contents /\ dir' \in Directories
               /\ Sound(dir', data', durable, acked)
               /\ \/ /\ Current' = Current /\ ActiveIndex' = n
                     /\ \A i \in 1 .. n - 1 : ArchiveOf(i)' = ArchiveOf(i)
                  \/ /\ dir.active # disk.active
                     /\ ActiveIndex' = n - 1 /\ n > 1
                     /\ Current' = data[dir.archive[n - 1]]
                     /\ \A i \in 1 .. n - 2 : ArchiveOf(i)' = ArchiveOf(i)
  BY <1>1, <1>2 DEF Whole, DiskFollows
<1>5. CASE dir.active = disk.active
  <2>1. /\ dir'.active = dir.active
        /\ dir'.archive \in {dir.archive, disk.archive} /\ dir'.temp \in {dir.temp, disk.temp}
        /\ dir' \in Directories
    BY <1>1, <1>3, <1>5 DEF Found, Directories
  <2>2. /\ \A i \in 1 .. n - 1 : dir.archive[i] = disk.archive[i] /\ dir.archive[i] # NoFile
        /\ \A i \in Indexes \ 1 .. n - 1 :
              /\ dir.archive[i] # NoFile => i = n /\ dir.archive[i] = dir.active
                                            /\ Sealed(Segment(Current))
              /\ disk.archive[i] # NoFile => i = n /\ disk.archive[i] = dir.active
                                             /\ Sealed(Segment(Current))
    BY <1>5, LaterArchives
  <2>3. \A i \in 1 .. n - 1 : dir'.archive[i] = dir.archive[i]
    BY <2>1, <2>2
  <2>4. \A i \in Indexes \ 1 .. n - 1 : dir'.archive[i] # NoFile =>
            i = n /\ dir'.archive[i] = dir.active /\ Sealed(Segment(data[dir.active]))
    BY <2>1, <2>2 DEF Current
  <2>5. dir'.temp # NoFile => dir'.temp # dir'.active
                              /\ \A i \in Indexes : dir'.temp # dir'.archive[i]
    <3> SUFFICES ASSUME dir'.temp # NoFile
                 PROVE  dir'.temp # dir'.active /\ \A i \in Indexes : dir'.temp # dir'.archive[i]
      OBVIOUS
    <3>1. /\ dir.temp # NoFile => dir.temp # dir.active
                                  /\ \A i \in Indexes : dir.temp # dir.archive[i]
          /\ disk.temp # NoFile => disk.temp # dir.active
                                   /\ \A i \in Indexes : disk.temp # disk.archive[i]
      BY <1>1, <1>5 DEF Sound
    <3>2. \A i \in Indexes : dir'.archive[i] \in {dir.archive[i], NoFile, dir.active}
      BY <2>1, <2>2
    <3>3. \A i \in Indexes : dir'.archive[i] \in {disk.archive[i], NoFile, dir.active}
      BY <2>1, <2>2
    <3>4. QED  BY <2>1, <3>1, <3>2, <3>3
  <2>6. /\ data' \in Contents /\ Sound(dir', data', durable, acked)
        /\ data'[dir.active] = data[dir.active] /\ Number(dir', data') = n
        /\ \A i \in 1 .. n - 1 : data'[dir.archive[i]] = data[dir.archive[i]]
    <3>1. /\ dir \in Directories /\ data \in Contents /\ durable \subseteq Files
          /\ Sound(dir, data, durable, acked) /\ n = Number(dir, data)
      BY <1>1
    <3> HIDE DEF n
    <3>2. QED  BY ONLY <1>2, <2>1, <2>3, <2>4, <2>5, <3>1, KeptByPower
  <2>7. /\ Current' = Current /\ ActiveIndex' = n
        /\ \A i \in 1 .. n - 1 : ArchiveOf(i)' = ArchiveOf(i)
    BY <2>1, <2>3, <2>6 DEF Current, ActiveIndex, Number, ArchiveOf
  <2>8. QED  BY <2>1, <2>6, <2>7
<1>6. CASE dir.active # disk.active
  <2>1. /\ Len(Current) = 1 /\ n > 1
        /\ disk.archive = dir.archive /\ disk.active = dir.archive[n - 1]
        /\ dir.temp = NoFile /\ disk.temp = dir.active
    BY <1>6 DEF Whole, DiskFollows
  <2>2. CASE renamed
    <3>1. dir' = dir
      BY <1>1, <1>3, <1>6, <2>1, <2>2 DEF Found, Directories
    <3>2. /\ \A i \in Indexes \ 1 .. n - 1 : dir.archive[i] # NoFile =>
                i = n /\ dir.archive[i] = dir.active /\ Sealed(Segment(data[dir.active]))
          /\ dir.temp # NoFile => dir.temp # dir.active
                                  /\ \A i \in Indexes : dir.temp # dir.archive[i]
      BY <1>1 DEF Sound, Number
    <3>3. /\ data' \in Contents /\ Sound(dir, data', durable, acked)
          /\ data'[dir.active] = data[dir.active] /\ Number(dir, data') = n
          /\ \A i \in 1 .. n - 1 : data'[dir.archive[i]] = data[dir.archive[i]]
      <4>1. /\ dir \in Directories /\ data \in Contents /\ durable \subseteq Files
            /\ Sound(dir, data, durable, acked) /\ n = Number(dir, data)
        BY <1>1
      <4> HIDE DEF n
      <4>2. QED  BY ONLY <1>2, <3>2, <4>1, KeptByPower
    <3>4. /\ Current' = Current /\ ActiveIndex' = n
          /\ \A i \in 1 .. n - 1 : ArchiveOf(i)' = ArchiveOf(i)
      BY <3>1, <3>3 DEF Current, ActiveIndex, Number, ArchiveOf
    <3>5. QED  BY <1>1, <3>1, <3>3, <3>4
  <2>3. CASE ~renamed
    <3>1. dir' = disk
      BY <1>1, <1>3, <1>6, <2>1, <2>3 DEF Found, Directories
    <3>2. Number(disk, data) = n - 1
      <4>1. n - 1 \in 1 .. n - 1
        BY <1>1, <2>1
      <4>2. IndexOf(Segment(data[dir.archive[n - 1]])) = n - 1
        BY <1>1, <4>1, SoundTyped
      <4>3. QED  BY <2>1, <4>2 DEF Number
    <3>3. /\ \A i \in Indexes \ 1 .. (n - 1) - 1 : disk.archive[i] # NoFile =>
                i = n - 1 /\ disk.archive[i] = disk.active /\ Sealed(Segment(data[disk.active]))
          /\ disk.temp # NoFile => disk.temp # disk.active
                                  /\ \A i \in Indexes : disk.temp # disk.archive[i]
      BY <1>1, <3>2 DEF Sound, Number
    <3>4. /\ data' \in Contents /\ Sound(disk, data', durable, acked)
          /\ data'[disk.active] = data[disk.active] /\ Number(disk, data') = n - 1
          /\ \A i \in 1 .. (n - 1) - 1 : data'[disk.archive[i]] = data[disk.archive[i]]
      <4>1. /\ disk \in Directories /\ data \in Contents /\ durable \subseteq Files
            /\ Sound(disk, data, durable, acked) /\ n - 1 = Number(disk, data)
        BY <1>1, <3>2
      <4> HIDE DEF n
      <4>2. QED  BY ONLY <1>2, <3>3, <4>1, KeptByPower
    <3>5. \A i \in 1 .. n - 2 : i \in 1 .. (n - 1) - 1
      BY <1>1, <2>1
    <3>6. /\ Current' = data[dir.archive[n - 1]] /\ ActiveIndex' = n - 1
          /\ \A i \in 1 .. n - 2 : ArchiveOf(i)' = ArchiveOf(i)
      BY <2>1, <3>1, <3>4, <3>5 DEF Current, ActiveIndex, Number, ArchiveOf
    <3>7. QED  BY <1>1, <1>6, <2>1, <3>1, <3>4, <3>6
  <2>4. QED  BY <2>2, <2>3
<1>7. QED  BY <1>5, <1>6

-----------------------------------------------------------------------------
(* The processes *)

\* What IInv says of the processes, but for what they know.
Alive == /\ pc \in [Procs -> Places] /\ job \in [Procs -> Jobs \cup {NoJob}]
         /\ mem \in [Procs -> Seq(Lines)] /\ digest \in [Procs -> Seq(Lines)]
         /\ locked \in [Procs -> BOOLEAN] /\ crashes \in 0 .. MaxCrashes
         /\ \A p \in Procs : pc[p] = "out" => ~locked[p] /\ mem[p] = <<>>
         /\ OneAtATime

OthersOut(p) == \A q \in Procs \ {p} : pc[q] = "out"

\* IInv in its three parts: the files, the processes, what these know.
LEMMA IInvParts == IInv <=> Whole /\ Alive /\ InStep
<1>1. ASSUME IInv PROVE Whole /\ Alive /\ InStep
  <2>1. Alive
    BY <1>1 DEF IInv, TypeOK, Alive
  <2>2. QED  BY <1>1, <2>1, WholeIs DEF IInv
<1>2. ASSUME Whole, Alive, InStep PROVE IInv
  <2>1. TypeOK
    BY <1>2 DEF Whole, Alive, TypeOK, Directories, Contents
  <2>2. QED  BY <1>2, <2>1 DEF Whole, Alive, IInv
<1>3. QED  BY <1>1, <1>2

\* Whoever runs runs alone.
LEMMA RunsAlone ==
    ASSUME Alive, NEW p \in Procs, pc[p] # "out" PROVE OthersOut(p)
BY DEF Alive, OneAtATime, OthersOut

\* Without overlap a process starts when no other one runs.
LEMMA StartsAlone ==
    ASSUME "overlap" \notin Events, NEW p \in Procs, Alone(p) PROVE OthersOut(p)
BY DEF Alone, OthersOut

\* A process that is out knows nothing.
LEMMA OutKnows ==
    ASSUME NEW p \in Procs, pc'[p] = "out" PROVE Knows(p)'
BY DEF Knows

\* The only process goes on to another place.
LEMMA Moves ==
    ASSUME Alive, NEW p \in Procs, OthersOut(p), NEW place \in Places, place # "out",
           Goto(p, place), job' \in [Procs -> Jobs \cup {NoJob}],
           mem' \in [Procs -> Seq(Lines)], digest' \in [Procs -> Seq(Lines)],
           locked' \in [Procs -> BOOLEAN], crashes' = crashes,
           \A q \in Procs \ {p} : mem'[q] = mem[q] /\ locked'[q] = locked[q],
           Knows(p)'
    PROVE  Alive' /\ InStep'
<1>1. /\ pc' \in [Procs -> Places] /\ pc'[p] = place
      /\ \A q \in Procs \ {p} : pc'[q] = "out" /\ pc[q] = "out"
  BY DEF Alive, Goto, OthersOut
<1>2. OneAtATime'
  BY <1>1 DEF OneAtATime
<1>3. \A q \in Procs : pc'[q] = "out" => mem'[q] = <<>>
  BY <1>1 DEF Alive
<1>4. \A q \in Procs : pc'[q] = "out" => ~locked'[q]
  BY <1>1 DEF Alive
<1>5. crashes' \in 0 .. MaxCrashes
  BY DEF Alive
<1>6. Alive'
  BY <1>1, <1>2, <1>3, <1>4, <1>5 DEF Alive
<1>7. InStep'
  BY <1>1, OutKnows DEF InStep
<1>8. QED  BY <1>6, <1>7

\* It goes on with nothing but its place changed.
LEMMA StepsOn ==
    ASSUME Alive, NEW p \in Procs, OthersOut(p), NEW place \in Places, place # "out",
           Goto(p, place), UNCHANGED <<job, mem, locked, crashes>>,
           digest' \in [Procs -> Seq(Lines)], Knows(p)'
    PROVE  Alive' /\ InStep'
<1>1. /\ job' \in [Procs -> Jobs \cup {NoJob}] /\ mem' \in [Procs -> Seq(Lines)]
      /\ \A q \in Procs \ {p} : mem'[q] = mem[q] /\ locked'[q] = locked[q]
  BY DEF Alive
<1>2. locked' \in [Procs -> BOOLEAN]
  BY DEF Alive
<1>3. QED  BY <1>1, <1>2, Moves

\* It leaves, and nobody runs.
LEMMA Leaves ==
    ASSUME Alive, NEW p \in Procs, OthersOut(p), Leave(p), crashes' \in 0 .. MaxCrashes
    PROVE  Alive' /\ InStep'
<1>1. \A q \in Procs : pc'[q] = "out" /\ mem'[q] = <<>>
  BY DEF Leave, Forget, OthersOut, Alive
<1>2. \A q \in Procs : ~locked'[q]
  BY DEF Leave, Forget, OthersOut, Alive
<1>3. /\ pc' \in [Procs -> Places] /\ job' \in [Procs -> Jobs \cup {NoJob}]
  BY DEF Leave, Forget, Alive, Places
<1>4. /\ mem' \in [Procs -> Seq(Lines)] /\ digest' \in [Procs -> Seq(Lines)]
  BY DEF Leave, Forget, Alive
<1>5. locked' \in [Procs -> BOOLEAN]
  BY DEF Leave, Forget, Alive
<1>6. OneAtATime'
  BY <1>1 DEF OneAtATime
<1>7. Alive'
  BY <1>1, <1>2, <1>3, <1>4, <1>5, <1>6 DEF Alive
<1>8. InStep'
  BY <1>1, OutKnows DEF InStep
<1>9. QED  BY <1>7, <1>8

\* The files are as they were.
LEMMA SameFiles ==
    ASSUME UNCHANGED <<files, acked>>
    PROVE  /\ Whole => Whole'
           /\ Current' = Current /\ ActiveIndex' = ActiveIndex
           /\ \A i : ArchiveOf(i)' = ArchiveOf(i)
<1>1. UNCHANGED <<data, durable, dir, disk, acked>>
  BY DEF files
<1>2. QED
  BY <1>1 DEF Whole, DiskFollows, Current, ActiveIndex, ArchiveOf

-----------------------------------------------------------------------------
(* The gateway, and the command up to its opening of the chain *)

\* Serve starts the only process, on an unsealed chain.
LEMMA ServeKeeps ==
    ASSUME "overlap" \notin Events, Whole, Alive, InStep, NEW p \in Procs, Serve(p)
    PROVE  Whole' /\ Alive' /\ InStep'
<1>1. /\ OthersOut(p) /\ Goto(p, "read") /\ UNCHANGED <<files, acked, locked, digest, crashes>>
      /\ mem' = [mem EXCEPT ![p] = Current] /\ ~Sealed(Segment(Current))
      /\ job' = [job EXCEPT ![p] = [task |-> "serve"]]
  BY StartsAlone DEF Serve
<1>2. Whole' /\ Current' = Current /\ Current \in Seq(Lines)
  BY <1>1, SameFiles, CurrentIs
<1>3. pc'[p] = "read" /\ mem'[p] = Current
  BY <1>1 DEF Goto, Alive
<1>4. Knows(p)'
  BY <1>1, <1>2, <1>3 DEF Knows
<1>5. job' \in [Procs -> Jobs \cup {NoJob}]
  <2>1. [task |-> "serve"] \in Jobs
    BY DEF Jobs
  <2>2. QED  BY <1>1, <2>1 DEF Alive
<1>6. /\ mem' \in [Procs -> Seq(Lines)] /\ digest' \in [Procs -> Seq(Lines)]
      /\ \A q \in Procs \ {p} : mem'[q] = mem[q] /\ locked'[q] = locked[q]
  BY <1>1, <1>2 DEF Alive
<1>7. locked' \in [Procs -> BOOLEAN] /\ "read" \in Places
  BY <1>1 DEF Alive, Places
<1>8. Alive' /\ InStep'
  BY <1>1, <1>4, <1>5, <1>6, <1>7, Moves
<1>9. QED  BY <1>2, <1>8

\* Plan starts it, and looks whether the chain is sealed.
LEMMA PlanKeeps ==
    ASSUME "overlap" \notin Events, Whole, Alive, InStep, NEW p \in Procs,
           NEW force \in BOOLEAN, Plan(p, force)
    PROVE  Whole' /\ Alive' /\ InStep'
<1> DEFINE it == [task |-> IF Sealed(Segment(Current)) THEN "resume" ELSE "rotate",
                  force |-> force]
<1>1. /\ OthersOut(p) /\ Goto(p, "prompt")
      /\ UNCHANGED <<files, acked, mem, locked, digest, crashes>>
      /\ job' = [job EXCEPT ![p] = it]
  BY StartsAlone DEF Plan
<1>2. it \in Jobs /\ (it.task = "resume" => Sealed(Segment(Current)))
  BY DEF Jobs
<1> HIDE DEF it
<1>3. Whole' /\ Current' = Current
  BY <1>1, SameFiles
<1>4. pc'[p] = "prompt" /\ job'[p] = it /\ job' \in [Procs -> Jobs \cup {NoJob}]
  BY <1>1, <1>2 DEF Goto, Alive
<1>5. Knows(p)'
  BY <1>2, <1>3, <1>4 DEF Knows
<1>6. /\ mem' \in [Procs -> Seq(Lines)] /\ digest' \in [Procs -> Seq(Lines)]
      /\ \A q \in Procs \ {p} : mem'[q] = mem[q] /\ locked'[q] = locked[q]
  BY <1>1 DEF Alive
<1>7. locked' \in [Procs -> BOOLEAN] /\ "prompt" \in Places
  BY <1>1 DEF Alive, Places
<1>8. Alive' /\ InStep'
  BY <1>1, <1>4, <1>5, <1>6, <1>7, Moves
<1>9. QED  BY <1>3, <1>8

\* Whoever leaves with the files as they were.
LEMMA LeaveKeeps ==
    ASSUME Whole, Alive, NEW p \in Procs, pc[p] # "out", Leave(p),
           UNCHANGED <<files, acked>>, crashes' \in 0 .. MaxCrashes
    PROVE  Whole' /\ Alive' /\ InStep'
BY SameFiles, RunsAlone, Leaves

\* While the operator is asked nothing changes, so the plan still fits.
LEMMA ConfirmKeeps ==
    ASSUME Whole, Alive, InStep, NEW p \in Procs, Confirm(p)
    PROVE  Whole' /\ Alive' /\ InStep'
<1> DEFINE resuming == job[p].task = "resume"
           place    == IF resuming THEN "opened" ELSE "read"
<1>1. pc[p] = "prompt" /\ UNCHANGED <<files, acked, crashes>> /\ OthersOut(p)
  BY RunsAlone DEF Confirm
<1>2. crashes' \in 0 .. MaxCrashes
  BY <1>1 DEF Alive
<1>3. CASE Leave(p)
  BY <1>1, <1>2, <1>3, LeaveKeeps
<1>4. CASE /\ resuming \/ ~Sealed(Segment(Current))
           /\ mem' = [mem EXCEPT ![p] = Current]
           /\ Goto(p, place) /\ UNCHANGED <<job, locked, digest>>
  <2>1. Whole' /\ Current' = Current /\ Current \in Seq(Lines)
    BY <1>1, SameFiles, CurrentIs
  <2>2. pc'[p] = place /\ mem'[p] = Current
    BY <1>4 DEF Goto, Alive
  <2>3. resuming => Sealed(Segment(Current))
    BY <1>1 DEF InStep, Knows
  <2>4. Knows(p)'
    BY <1>4, <2>1, <2>2, <2>3 DEF Knows
  <2>5. /\ mem' \in [Procs -> Seq(Lines)] /\ digest' \in [Procs -> Seq(Lines)]
        /\ job' \in [Procs -> Jobs \cup {NoJob}]
        /\ \A q \in Procs \ {p} : mem'[q] = mem[q] /\ locked'[q] = locked[q]
    BY <1>4, <2>1 DEF Alive
  <2>6. locked' \in [Procs -> BOOLEAN]
    BY <1>4 DEF Alive
  <2>7. place \in Places /\ place # "out"
    BY DEF Places
  <2> HIDE DEF place
  <2>8. Alive' /\ InStep'
    BY <1>1, <1>4, <2>4, <2>5, <2>6, <2>7, Moves
  <2>9. QED  BY <2>1, <2>8
<1>5. QED  BY <1>3, <1>4 DEF Confirm

\* Lock: the chain that was read is still the current one.
LEMMA LockKeeps ==
    ASSUME Whole, Alive, InStep, NEW p \in Procs, Lock(p)
    PROVE  Whole' /\ Alive' /\ InStep'
<1> DEFINE place == IF job[p].task = "serve" THEN "serving" ELSE "opened"
<1>1. pc[p] = "read" /\ UNCHANGED <<files, acked, crashes>> /\ OthersOut(p)
  BY RunsAlone DEF Lock
<1>2. crashes' \in 0 .. MaxCrashes
  BY <1>1 DEF Alive
<1>3. CASE Leave(p)
  BY <1>1, <1>2, <1>3, LeaveKeeps
<1>4. CASE /\ locked' = [locked EXCEPT ![p] = TRUE]
           /\ Goto(p, place) /\ UNCHANGED <<job, mem, digest>>
  <2>1. Whole' /\ Current' = Current
    BY <1>1, SameFiles
  <2>2. pc'[p] = place /\ mem'[p] = mem[p]
    BY <1>4 DEF Goto, Alive
  <2>3. locked'[p]
    BY <1>4 DEF Alive
  <2>4. mem[p] = Current /\ ~Sealed(Segment(Current))
    BY <1>1 DEF InStep, Knows
  <2>5. Knows(p)'
    BY <2>1, <2>2, <2>3, <2>4 DEF Knows
  <2>6. /\ mem' \in [Procs -> Seq(Lines)] /\ digest' \in [Procs -> Seq(Lines)]
        /\ job' \in [Procs -> Jobs \cup {NoJob}]
        /\ \A q \in Procs \ {p} : mem'[q] = mem[q]
    BY <1>4 DEF Alive
  <2>7. locked' \in [Procs -> BOOLEAN] /\ \A q \in Procs \ {p} : locked'[q] = locked[q]
    BY <1>4 DEF Alive
  <2>8. place \in Places /\ place # "out"
    BY DEF Places
  <2> HIDE DEF place
  <2>9. Alive' /\ InStep'
    BY <1>1, <1>4, <2>5, <2>6, <2>7, <2>8, Moves
  <2>10. QED  BY <2>1, <2>9
<1>5. QED  BY <1>3, <1>4 DEF Lock

\* Record: an item more, on an unsealed segment.
LEMMA RecordKeeps ==
    ASSUME Whole, Alive, InStep, NEW p \in Procs, Record(p)
    PROVE  Whole' /\ Alive' /\ InStep'
<1>1. /\ pc[p] = "serving" /\ UNCHANGED <<pc, job, locked, digest, crashes>> /\ OthersOut(p)
  BY RunsAlone DEF Record
<1>2. mem[p] = Current /\ ~Sealed(Segment(Current)) /\ locked[p]
  BY <1>1 DEF InStep, Knows
<1>3. PICK m : /\ AppendsTo(p, m)
               /\ \/ m = Raise(Len(Tip(Current)) + 1)
                  \/ \E ref \in OpenItems(Segment(Current)) : m = Settle(ref)
  BY <1>2 DEF Record
<1>4. Fits(Current, m) /\ m.kind # "seal"
  BY <1>3 DEF Fits, Raise, Settle
<1>5. mem \in [Procs -> Seq(Lines)]
  BY DEF Alive
<1>6. /\ Whole' /\ m \in Payloads /\ Current' = More(Current, m) /\ mem'[p] = Current'
      /\ mem' \in [Procs -> Seq(Lines)] /\ \A q \in Procs \ {p} : mem'[q] = mem[q]
  BY <1>2, <1>3, <1>4, <1>5, AppendWhole
<1>7. ~Sealed(Segment(Current))'
  <2>1. ~Sealed(Segment(More(Current, m)))
    BY <1>4, <1>6, CurrentIs, MoreLines
  <2>2. QED  BY <1>6, <2>1
<1>8. pc'[p] = "serving" /\ Goto(p, "serving") /\ locked'[p]
  BY <1>1, <1>2 DEF Goto, Alive
<1>9. Knows(p)'
  BY <1>6, <1>7, <1>8 DEF Knows
<1>10. /\ digest' \in [Procs -> Seq(Lines)] /\ job' \in [Procs -> Jobs \cup {NoJob}]
  BY <1>1 DEF Alive
<1>11. locked' \in [Procs -> BOOLEAN] /\ \A q \in Procs \ {p} : locked'[q] = locked[q]
  BY <1>1 DEF Alive
<1>12. "serving" \in Places
  BY DEF Places
<1>13. \A q \in Procs \ {p} : mem'[q] = mem[q] /\ locked'[q] = locked[q]
  BY <1>6, <1>11
<1>14. crashes' = crashes
  BY <1>1
<1>15. Alive' /\ InStep'
  BY <1>1, <1>6, <1>8, <1>9, <1>10, <1>11, <1>12, <1>13, <1>14, Moves
<1>16. QED  BY <1>6, <1>15

-----------------------------------------------------------------------------
(* execute_rotation *)

\* What can be rotated, and is not sealed yet, has something to seal.
LEMMA SealFits ==
    ASSUME NEW force, Plannable(Current, force), ~Sealed(Segment(Current))
    PROVE  Fits(Current, SealOf(Segment(Current)))
BY DEF Plannable, Fits

\* Seal: the seal ends the segment, or it was there.
LEMMA SealKeeps ==
    ASSUME Whole, Alive, InStep, NEW p \in Procs, Seal(p)
    PROVE  Whole' /\ Alive' /\ InStep'
<1> DEFINE segment == Segment(mem[p])
<1>1. pc[p] = "opened" /\ crashes' = crashes /\ OthersOut(p)
  BY RunsAlone DEF Seal
<1>2. mem[p] = Current
  BY <1>1 DEF InStep, Knows
<1>3. crashes' \in 0 .. MaxCrashes
  BY <1>1 DEF Alive
<1>4. CASE Leave(p) /\ UNCHANGED <<files, acked>>
  BY <1>1, <1>3, <1>4, LeaveKeeps
<1>5. CASE /\ Sealed(segment) /\ UNCHANGED <<files, mem, acked>>
           /\ Goto(p, "sealed") /\ UNCHANGED <<job, locked, digest>>
  <2>1. Whole' /\ Current' = Current
    BY <1>5, SameFiles
  <2>2. pc'[p] = "sealed" /\ mem'[p] = Current'
    BY <1>2, <1>5, <2>1 DEF Goto, Alive
  <2>3. Knows(p)'
    BY <1>2, <1>5, <2>1, <2>2 DEF Knows
  <2>4. "sealed" \in Places /\ digest' \in [Procs -> Seq(Lines)]
    BY <1>5 DEF Places, Alive
  <2>5. Alive' /\ InStep'
    BY <1>1, <1>5, <2>3, <2>4, StepsOn
  <2>6. QED  BY <2>1, <2>5
<1>6. CASE /\ Plannable(mem[p], job[p].force) /\ ~Sealed(segment)
           /\ AppendsTo(p, SealOf(segment))
           /\ Goto(p, "sealed") /\ UNCHANGED <<job, locked, digest>>
  <2> DEFINE m == SealOf(Segment(Current))
  <2>1. Fits(Current, m) /\ m.kind = "seal" /\ AppendsTo(p, m) /\ ~Sealed(Segment(Current))
    BY <1>2, <1>6, SealFits DEF SealOf
  <2>2. mem \in [Procs -> Seq(Lines)]
    BY DEF Alive
  <2> HIDE DEF m
  <2>3. /\ Whole' /\ m \in Payloads /\ Current' = More(Current, m) /\ mem'[p] = Current'
        /\ mem' \in [Procs -> Seq(Lines)] /\ \A q \in Procs \ {p} : mem'[q] = mem[q]
    BY <1>2, <2>1, <2>2, AppendWhole
  <2>4. Sealed(Segment(Current))'
    <3>1. Sealed(Segment(More(Current, m)))
      BY <2>1, <2>3, CurrentIs, MoreLines
    <3>2. QED  BY <2>3, <3>1
  <2>5. pc'[p] = "sealed"
    BY <1>6 DEF Goto, Alive
  <2>6. Knows(p)'
    BY <2>3, <2>4, <2>5 DEF Knows
  <2>7. /\ "sealed" \in Places /\ digest' \in [Procs -> Seq(Lines)]
        /\ job' \in [Procs -> Jobs \cup {NoJob}]
    BY <1>6 DEF Places, Alive
  <2>8. locked' \in [Procs -> BOOLEAN] /\ \A q \in Procs \ {p} : locked'[q] = locked[q]
    BY <1>6 DEF Alive
  <2>9. \A q \in Procs \ {p} : mem'[q] = mem[q] /\ locked'[q] = locked[q]
    BY <2>3, <2>8
  <2>10. Alive' /\ InStep'
    BY <1>1, <1>6, <2>3, <2>6, <2>7, <2>8, <2>9, Moves
  <2>11. QED  BY <2>3, <2>10
<1>7. QED  BY <1>4, <1>5, <1>6 DEF Seal

\* The staged record is the successor of the sealed segment.
LEMMA CheckpointIs ==
    ASSUME Whole, NEW p \in Procs, mem[p] = Current, Sealed(Segment(Current))
    PROVE  Checkpoint(p) = Successor(Current)
<1>1. Len(Segment(Current)) = Len(Current)
  BY CurrentIs, FormedTyped
<1>2. QED  BY <1>1 DEF Checkpoint, Successor, Body

\* Stage: the successor is on the disk under the staging name.
LEMMA StageKeeps ==
    ASSUME Whole, Alive, InStep, NEW p \in Procs, Stage(p)
    PROVE  Whole' /\ Alive' /\ InStep'
<1>1. /\ pc[p] = "sealed" /\ OthersOut(p)
      /\ UNCHANGED <<disk, job, mem, locked, acked, crashes>> /\ Goto(p, "staged")
      /\ digest' = [digest EXCEPT ![p] = Current]
  BY RunsAlone DEF Stage
<1>2. mem[p] = Current /\ Sealed(Segment(Current))
  BY <1>1 DEF InStep, Knows
<1>3. Checkpoint(p) = Successor(Current)
  BY <1>2, CheckpointIs
<1>4. /\ Len(Successor(Current)) =< MaxRecords
      /\ data' = [data EXCEPT ![StagingFile] = <<Successor(Current)>>]
      /\ durable' = durable \cup {StagingFile}
      /\ dir' = [dir EXCEPT !.temp = StagingFile]
  BY <1>3 DEF Stage
<1>5. /\ Whole' /\ Current' = Current
      /\ dir'.temp \in durable' /\ data'[dir'.temp] = <<Successor(Current)>>
  BY <1>1, <1>2, <1>4, StageWhole
<1>6. Checkpoint(p)' = Checkpoint(p)
  BY <1>1 DEF Checkpoint
<1>7. pc'[p] = "staged" /\ mem'[p] = Current' /\ digest'[p] = Current'
  BY <1>1, <1>2, <1>5 DEF Goto, Alive
<1>8. Sealed(Segment(Current))'
  BY <1>2, <1>5
<1>9. Knows(p)'
  BY <1>3, <1>5, <1>6, <1>7, <1>8 DEF Knows
<1>10. "staged" \in Places /\ digest' \in [Procs -> Seq(Lines)]
  BY <1>1, CurrentIs DEF Places, Alive
<1>11. Alive' /\ InStep'
  BY <1>1, <1>9, <1>10, StepsOn
<1>12. QED  BY <1>5, <1>11

\* The archive name, when it is there, is the active file's.
LEMMA OwnLink ==
    ASSUME Whole, Sealed(Segment(Current)), dir.archive[ActiveIndex] # NoFile
    PROVE  dir.archive[ActiveIndex] = dir.active
<1>1. ActiveIndex \in Indexes \ 1 .. ActiveIndex - 1
  BY SealedSettled, CurrentIs
<1>2. QED  BY <1>1, SealedSettled, LaterArchives

\* Link: the sealed segment has its archive name.
LEMMA LinkKeeps ==
    ASSUME Whole, Alive, InStep, NEW p \in Procs, Link(p)
    PROVE  Whole' /\ Alive' /\ InStep'
<1>1. /\ pc[p] = "staged" /\ OthersOut(p)
      /\ UNCHANGED <<data, durable, disk, acked, crashes>>
  BY RunsAlone DEF Link
<1>2. /\ mem[p] = Current /\ Sealed(Segment(Current)) /\ digest[p] = Current
      /\ dir.temp \in durable /\ data[dir.temp] = <<Checkpoint(p)>>
  BY <1>1 DEF InStep, Knows
<1>3. IndexOf(Segment(mem[p])) = ActiveIndex
  BY <1>2 DEF ActiveIndex
<1>4. CASE dir.archive[ActiveIndex] = NoFile
  <2>1. /\ dir' = [dir EXCEPT !.archive[ActiveIndex] = dir.active]
        /\ Goto(p, "linked") /\ UNCHANGED <<job, mem, locked, digest>>
    BY <1>3, <1>4 DEF Link
  <2>2. /\ Whole' /\ Current' = Current /\ ActiveIndex' = ActiveIndex
        /\ dir'.archive[ActiveIndex] = dir'.active /\ dir'.temp = dir.temp
    BY <1>1, <1>2, <1>4, <2>1, LinkWhole
  <2>3. /\ pc'[p] = "linked" /\ mem'[p] = Current' /\ digest'[p] = Current'
        /\ Checkpoint(p)' = Checkpoint(p)
    BY <1>2, <2>1, <2>2 DEF Goto, Alive, Checkpoint
  <2>4. dir'.archive[ActiveIndex'] = dir'.active /\ Sealed(Segment(Current))'
    BY <1>2, <2>2
  <2>5. Knows(p)'
    BY <1>1, <1>2, <2>2, <2>3, <2>4 DEF Knows
  <2>6. "linked" \in Places /\ digest' \in [Procs -> Seq(Lines)]
    BY <2>1 DEF Places, Alive
  <2>7. Alive' /\ InStep'
    BY <1>1, <2>1, <2>5, <2>6, StepsOn
  <2>8. QED  BY <2>2, <2>7
<1>5. CASE dir.archive[ActiveIndex] # NoFile
  <2>1. dir.archive[ActiveIndex] = dir.active
    BY <1>2, <1>5, OwnLink
  <2>2. Goto(p, "linked") /\ UNCHANGED <<dir, job, mem, locked, digest>>
    BY <1>2, <1>3, <1>5, <2>1 DEF Link, Current
  <2>3. UNCHANGED <<files, acked>>
    BY <1>1, <2>2 DEF files
  <2>4. Whole' /\ Current' = Current /\ ActiveIndex' = ActiveIndex
    BY <2>3, SameFiles
  <2>5. /\ pc'[p] = "linked" /\ mem'[p] = Current' /\ digest'[p] = Current'
        /\ Checkpoint(p)' = Checkpoint(p)
    BY <1>2, <2>2, <2>4 DEF Goto, Alive, Checkpoint
  <2>6. dir'.archive[ActiveIndex'] = dir'.active /\ Sealed(Segment(Current))'
    BY <1>2, <2>1, <2>2, <2>4
  <2>7. Knows(p)'
    BY <1>1, <1>2, <2>2, <2>4, <2>5, <2>6 DEF Knows
  <2>8. "linked" \in Places /\ digest' \in [Procs -> Seq(Lines)]
    BY <2>2 DEF Places, Alive
  <2>9. Alive' /\ InStep'
    BY <1>1, <2>2, <2>7, <2>8, StepsOn
  <2>10. QED  BY <2>4, <2>9
<1>6. QED  BY <1>4, <1>5

\* SyncLink: the disk has the archive name and the staged file.
LEMMA SyncLinkKeeps ==
    ASSUME Whole, Alive, InStep, NEW p \in Procs, SyncLink(p)
    PROVE  Whole' /\ Alive' /\ InStep'
<1>1. /\ pc[p] = "linked" /\ OthersOut(p) /\ disk' = dir /\ Goto(p, "synced")
      /\ UNCHANGED <<data, durable, dir, job, mem, locked, digest, acked, crashes>>
  BY RunsAlone DEF SyncLink
<1>2. /\ mem[p] = Current /\ Sealed(Segment(Current)) /\ digest[p] = Current
      /\ dir.temp \in durable /\ data[dir.temp] = <<Checkpoint(p)>>
      /\ dir.archive[ActiveIndex] = dir.active
  BY <1>1 DEF InStep, Knows
<1>3. Whole'
  BY <1>1, SyncWhole
<1>4. Current' = Current /\ ActiveIndex' = ActiveIndex /\ Checkpoint(p)' = Checkpoint(p)
  BY <1>1 DEF Current, ActiveIndex, Checkpoint
<1>5. pc'[p] = "synced" /\ mem'[p] = Current' /\ digest'[p] = Current'
  BY <1>1, <1>2, <1>4 DEF Goto, Alive
<1>6. /\ dir'.archive[ActiveIndex'] = dir'.active /\ Sealed(Segment(Current))'
      /\ disk' = dir'
  BY <1>1, <1>2, <1>4
<1>7. Knows(p)'
  BY <1>1, <1>2, <1>4, <1>5, <1>6 DEF Knows
<1>8. "synced" \in Places /\ digest' \in [Procs -> Seq(Lines)]
  BY <1>1 DEF Places, Alive
<1>9. Alive' /\ InStep'
  BY <1>1, <1>7, <1>8, StepsOn
<1>10. QED  BY <1>3, <1>9

\* What Commit does when the process is alone: it never refuses.
LEMMA CommitIs ==
    ASSUME Whole, InStep, NEW p \in Procs, Commit(p)
    PROVE  /\ pc[p] = "synced" /\ mem[p] = Current /\ Sealed(Segment(Current))
           /\ disk = dir /\ dir.archive[ActiveIndex] = dir.active
           /\ dir.temp \in durable /\ data[dir.temp] = <<Successor(Current)>>
           /\ dir' = [dir EXCEPT !.active = dir.temp, !.temp = NoFile]
           /\ Goto(p, "renamed") /\ UNCHANGED <<job, mem, locked, digest>>
           /\ UNCHANGED <<data, durable, disk, acked, crashes>>
<1>1. pc[p] = "synced" /\ UNCHANGED <<data, durable, disk, acked, crashes>>
  BY DEF Commit
<1>2. /\ mem[p] = Current /\ Sealed(Segment(Current)) /\ digest[p] = Current
      /\ dir.temp \in durable /\ data[dir.temp] = <<Checkpoint(p)>>
      /\ dir.archive[ActiveIndex] = dir.active /\ disk = dir
  BY <1>1 DEF InStep, Knows
<1>3. dir.temp # NoFile
  BY <1>2, NoFileIsNone DEF Whole
<1>4. /\ dir' = [dir EXCEPT !.active = dir.temp, !.temp = NoFile]
      /\ Goto(p, "renamed") /\ UNCHANGED <<job, mem, locked, digest>>
  BY <1>2, <1>3 DEF Commit
<1>5. QED  BY <1>1, <1>2, <1>4, CheckpointIs

\* The rename keeps the invariant: the only process knows no less.
LEMMA CommitKeeps ==
    ASSUME Whole, Alive, InStep, NEW p \in Procs, Commit(p)
    PROVE  Whole' /\ Alive' /\ InStep'
<1>1. /\ pc[p] = "synced" /\ Goto(p, "renamed") /\ UNCHANGED <<job, mem, locked, digest, crashes>>
      /\ OthersOut(p)
  BY CommitIs, RunsAlone
<1>2. Whole'
  BY CommitIs, CommitWhole
<1>3. pc'[p] = "renamed"
  BY <1>1 DEF Goto, Alive
<1>4. Knows(p)'
  BY <1>3 DEF Knows
<1>5. "renamed" \in Places /\ digest' \in [Procs -> Seq(Lines)]
  BY <1>1 DEF Places, Alive
<1>6. Alive' /\ InStep'
  BY <1>1, <1>4, <1>5, StepsOn
<1>7. QED  BY <1>2, <1>6

\* Finish: the rename is on the disk, and nobody runs.
LEMMA FinishKeeps ==
    ASSUME Whole, Alive, NEW p \in Procs, Finish(p)
    PROVE  Whole' /\ Alive' /\ InStep'
<1>1. /\ pc[p] = "renamed" /\ OthersOut(p) /\ disk' = dir /\ Leave(p)
      /\ UNCHANGED <<data, durable, dir, acked, crashes>>
  BY RunsAlone DEF Finish
<1>2. crashes' \in 0 .. MaxCrashes
  BY <1>1 DEF Alive
<1>3. QED  BY <1>1, <1>2, SyncWhole, Leaves

\* The machine stops, and nobody runs.
LEMMA PowerKeeps ==
    ASSUME Whole, Alive, PowerLoss
    PROVE  Whole' /\ Alive' /\ InStep'
<1>1. Whole' /\ Forget(Procs) /\ crashes' \in 0 .. MaxCrashes
  <2>1. crashes' = crashes + 1 /\ crashes < MaxCrashes /\ crashes \in 0 .. MaxCrashes
    BY DEF PowerLoss, Crash, Alive
  <2>2. QED  BY <2>1, PowerWhole, BoundsAssumption DEF PowerLoss
<1>2. \A q \in Procs : pc'[q] = "out" /\ mem'[q] = <<>>
  BY <1>1 DEF Forget
<1>3. \A q \in Procs : ~locked'[q]
  BY <1>1 DEF Forget
<1>4. /\ pc' \in [Procs -> Places] /\ job' \in [Procs -> Jobs \cup {NoJob}]
      /\ mem' \in [Procs -> Seq(Lines)] /\ digest' \in [Procs -> Seq(Lines)]
  BY <1>1 DEF Forget, Places
<1>5. locked' \in [Procs -> BOOLEAN]
  BY <1>1 DEF Forget
<1>6. OneAtATime'
  BY <1>2 DEF OneAtATime
<1>7. Alive'
  BY <1>1, <1>2, <1>3, <1>4, <1>5, <1>6 DEF Alive
<1>8. InStep'
  BY <1>2, OutKnows DEF InStep
<1>9. QED  BY <1>1, <1>7, <1>8

-----------------------------------------------------------------------------
(* The inductive invariant *)

\* The initial states satisfy the invariant.
LEMMA InitKeeps == ASSUME Init PROVE Whole /\ Alive /\ InStep
<1>1. /\ 1 \in Files /\ NoFile \in Files \cup {NoFile} /\ <<>> \in Seq(Lines)
  BY BoundsAssumption DEF Files
<1>2. /\ data \in Contents /\ data[1] = <<>> /\ durable = {1} /\ durable \subseteq Files
      /\ acked = {} /\ dir \in Directories /\ dir.active = 1 /\ dir.temp = NoFile
      /\ \A i \in Indexes : dir.archive[i] = NoFile
      /\ disk = dir
  BY <1>1 DEF Init, Contents, Directories
<1>3. Segment(<<>>) = <<>>
  BY DEF Segment
<1>4. Formed(<<>>)
  <2>1. /\ \A kind : OfKind(<<>>, kind) = {}
        /\ Tip(<<>>) = <<>>
    BY DEF OfKind, Tip
  <2>2. OpenItems(<<>>) = Outstanding(<<>>)
    <3>1. /\ {m.open : m \in OfKind(<<>>, "checkpoint")} = {}
          /\ {m.id : m \in OfKind(<<>>, "raise")} = {}
      BY <2>1
    <3>2. QED  BY <3>1 DEF OpenItems, Outstanding
  <2>3. ~Sealed(<<>>)
    BY DEF Sealed
  <2>4. DOMAIN <<>> = {}
    OBVIOUS
  <2>5. QED  BY <1>3, <2>1, <2>2, <2>3, <2>4 DEF Formed
<1>5. Number(dir, data) = 1
  BY <1>2, <1>3 DEF Number, IndexOf
<1>6. Sound(dir, data, durable, acked)
  BY <1>2, <1>4, <1>5 DEF Sound, Number
<1>7. DiskFollows
  BY <1>2 DEF DiskFollows
<1>8. Whole
  BY <1>2, <1>6, <1>7 DEF Whole
<1>9. \A p \in Procs : pc[p] = "out" /\ mem[p] = <<>>
  BY DEF Init
<1>10. \A p \in Procs : ~locked[p]
  BY DEF Init
<1>11. /\ pc \in [Procs -> Places] /\ job \in [Procs -> Jobs \cup {NoJob}]
       /\ mem \in [Procs -> Seq(Lines)] /\ digest \in [Procs -> Seq(Lines)]
       /\ crashes \in 0 .. MaxCrashes
  BY BoundsAssumption DEF Init, Places
<1>12. locked \in [Procs -> BOOLEAN]
  BY DEF Init
<1>13. Alive
  BY <1>9, <1>10, <1>11, <1>12 DEF Alive, OneAtATime
<1>14. InStep
  BY <1>9 DEF InStep, Knows
<1>15. QED  BY <1>8, <1>13, <1>14

\* Every step keeps the invariant.
LEMMA StepKeeps ==
    ASSUME "overlap" \notin Events, Whole, Alive, InStep, [Next]_vars
    PROVE  Whole' /\ Alive' /\ InStep'
<1>1. CASE UNCHANGED vars
  <2>1. UNCHANGED <<files, acked>> /\ UNCHANGED <<pc, job, mem, locked, digest, crashes>>
    BY <1>1 DEF vars, files
  <2>2. Whole' /\ Current' = Current /\ ActiveIndex' = ActiveIndex
    BY <2>1, SameFiles
  <2>3. Alive'
    BY <2>1 DEF Alive, OneAtATime
  <2>4. \A p \in Procs : Knows(p) => Knows(p)'
    BY <2>1, <2>2 DEF Knows, files, Checkpoint
  <2>5. QED  BY <2>2, <2>3, <2>4 DEF InStep
<1>2. ASSUME NEW p \in Procs, Close(p) \/ Decline(p) PROVE Whole' /\ Alive' /\ InStep'
  <2>1. /\ pc[p] # "out" /\ Leave(p) /\ UNCHANGED <<files, acked, crashes>>
    BY <1>2 DEF Close, Decline
  <2>2. crashes' \in 0 .. MaxCrashes
    BY <2>1 DEF Alive
  <2>3. QED  BY <2>1, <2>2, LeaveKeeps
<1>3. ASSUME NEW p \in Procs, Die(p) PROVE Whole' /\ Alive' /\ InStep'
  <2>1. /\ pc[p] # "out" /\ Leave(p) /\ UNCHANGED <<files, acked>>
        /\ crashes < MaxCrashes /\ crashes' = crashes + 1
    BY <1>3 DEF Die, Crash
  <2>2. crashes' \in 0 .. MaxCrashes
    BY <2>1, BoundsAssumption DEF Alive
  <2>3. QED  BY <2>1, <2>2, LeaveKeeps
<1>4. ASSUME NEW p \in Procs, Rotating(p) PROVE Whole' /\ Alive' /\ InStep'
  BY <1>4, LockKeeps, SealKeeps, StageKeeps, LinkKeeps, SyncLinkKeeps, CommitKeeps, FinishKeeps
     DEF Rotating
<1>5. CASE Next
  BY <1>2, <1>3, <1>4, <1>5, ServeKeeps, PlanKeeps, ConfirmKeeps, RecordKeeps, PowerKeeps DEF Next
<1>6. QED  BY <1>1, <1>5

\* IInv is inductive when processes do not overlap: whatever dies, and whatever the
\* machine forgets of the directory, the names lead to one chain of whole segments.
THEOREM RotationInvariance == ASSUME "overlap" \notin Events PROVE Spec => []IInv
<1>1. Init => IInv
  BY InitKeeps, IInvParts
<1>2. IInv /\ [Next]_vars => IInv'
  <2> SUFFICES ASSUME IInv, [Next]_vars PROVE IInv'
    OBVIOUS
  <2>1. Whole /\ Alive /\ InStep
    BY IInvParts
  <2>2. Whole' /\ Alive' /\ InStep'
    BY <2>1, StepKeeps
  <2>3. (IInv <=> Whole /\ Alive /\ InStep)'
    BY IInvParts, PTL
  <2>4. QED  BY <2>2, <2>3
<1>3. QED  BY <1>1, <1>2, PTL DEF Spec

-----------------------------------------------------------------------------
(* What a rotation promises *)

\* Every interruption leaves a chain that opens, and if it is sealed the rotation
\* can be planned and resumed: the seal agrees with what is there, and the archive,
\* if there is one already, with the segment (lifecycle.py:27).
THEOREM RecoversHolds == ASSUME "overlap" \notin Events PROVE Spec => []Recovers
<1>1. IInv => Recovers
  <2> SUFFICES ASSUME IInv PROVE Recovers
    OBVIOUS
  <2> DEFINE n == ActiveIndex
  <2>1. Whole
    BY WholeIs
  <2>2. /\ Current \in Seq(Lines) /\ Formed(Current) /\ n = Number(dir, data) /\ n \in Nat \ {0}
        /\ n = IndexOf(Segment(Current)) /\ 1 .. n - 1 \subseteq Indexes
        /\ Current # <<>> => n \in Indexes
    BY <2>1, CurrentIs DEF ActiveIndex
  <2>3. Verifies(Current)
    BY <2>2, FormedVerifies
  <2>4. \A i \in 1 .. n - 1 : i \in Indexes /\ dir.archive[i] # NoFile
    BY <2>1, <2>2, SoundTyped DEF Whole
  <2>5. \A i \in Indexes \ 1 .. n - 1 : dir.archive[i] # NoFile =>
            /\ i = n /\ dir.archive[i] = dir.active /\ Sealed(Segment(Current))
    BY <2>1 DEF Whole, Sound, Current, ActiveIndex
  <2>6. Present(Current)
    <3> DEFINE found == {i \in Indexes : dir.archive[i] # NoFile}
    <3>1. CASE n > 1
      <4>1. 1 .. n - 1 \subseteq found
        BY <2>4
      <4>2. QED  BY <2>2, <3>1, <4>1 DEF Present
    <3>2. CASE ~(n > 1)
      <4>1. 1 .. n - 1 = {}
        BY <2>2, <3>2
      <4>2. \A i \in found : Sealed(Segment(Current)) /\ data[dir.archive[i]] = Current
        BY <2>5, <4>1 DEF Current
      <4>3. QED  BY <2>2, <3>2, <4>2 DEF Present
    <3>3. QED  BY <3>1, <3>2
  <2>7. ASSUME Sealed(Segment(Current))
        PROVE  /\ Plannable(Current, TRUE) /\ SealAgrees(Segment(Current))
               /\ dir.archive[n] # NoFile => ArchiveOf(n) = Current
    <3>1. SealAgrees(Segment(Current))
      BY <2>2, <2>7, SealedIs
    <3>2. Plannable(Current, TRUE)
      BY <2>7 DEF Plannable
    <3>3. dir.archive[n] # NoFile => ArchiveOf(n) = Current
      BY <2>1, <2>7, OwnLink DEF ArchiveOf, Current
    <3>4. QED  BY <3>1, <3>2, <3>3
  <2>8. QED  BY <2>3, <2>6, <2>7 DEF Recovers, Opens
<1>2. QED  BY <1>1, RotationInvariance, PTL

\* Nothing is lost: every acknowledged record is in the active segment or in an
\* archive of its lineage, each of which the next one continues.
THEOREM NothingLostHolds == ASSUME "overlap" \notin Events PROVE Spec => []NothingLost
<1>1. IInv => NothingLost
  <2> SUFFICES ASSUME IInv PROVE NothingLost
    OBVIOUS
  <2> DEFINE n == ActiveIndex
  <2>1. Whole /\ Sound(dir, data, durable, acked)
    BY WholeIs DEF Whole
  <2>2. n = IndexOf(Segment(data[dir.active]))
    BY DEF ActiveIndex, Current
  <2>3. \A i \in 1 .. n - 1 : dir.archive[i] # NoFile
    BY <2>1, CurrentIs, SoundTyped DEF Whole
  <2>4. ASSUME NEW i \in 1 .. n - 1
        PROVE  LET next == IF i + 1 = n THEN Current ELSE ArchiveOf(i + 1)
               IN  Tip(ArchiveOf(i)) = SubSeq(next[1], 1, Len(next[1]) - 1)
    <3> DEFINE file == IF i + 1 = n THEN dir.active ELSE dir.archive[i + 1]
               next == IF i + 1 = n THEN Current ELSE ArchiveOf(i + 1)
    <3>1. Tip(data[dir.archive[i]]) = SubSeq(data[file][1], 1, Len(data[file][1]) - 1)
      BY <2>1, <2>2 DEF Sound
    <3>2. next = data[file]
      BY DEF Current, ArchiveOf
    <3>3. Tip(ArchiveOf(i)) = Tip(data[dir.archive[i]])
      BY DEF ArchiveOf
    <3> HIDE DEF file, next
    <3>4. Tip(ArchiveOf(i)) = SubSeq(next[1], 1, Len(next[1]) - 1)
      BY <3>1, <3>2, <3>3
    <3>5. QED  BY <3>4 DEF next
  <2>5. acked \subseteq Elements(Current)
                  \cup UNION {Elements(ArchiveOf(i)) : i \in 1 .. n - 1}
    BY <2>1, <2>2 DEF Sound, Current, ArchiveOf
  <2>6. QED  BY <2>3, <2>4, <2>5 DEF NothingLost
<1>2. QED  BY <1>1, RotationInvariance, PTL

\* What a segment carries over from its predecessors is what the whole history has
\* left open (derive_carried_state).
THEOREM OpenIsCarriedHolds == ASSUME "overlap" \notin Events PROVE Spec => []OpenIsCarried
<1>1. IInv => OpenIsCarried
  BY DEF IInv, Sound, Formed, OpenIsCarried, Current
<1>2. QED  BY <1>1, RotationInvariance, PTL

-----------------------------------------------------------------------------
(* The rotation in one step *)

\* The state of the abstract chain.
SealedSegments == [i \in 1 .. ActiveIndex - 1 |-> Segment(ArchiveOf(i))]
OpenSegment    == Body(Segment(Current))
IsSettled      == dir.active = disk.active

\* What the abstract chain derives from a segment is what the rotation does.
LEMMA SameOperators ==
    ASSUME NEW segment
    PROVE  /\ Promise!Substantive(segment) = Substantive(segment)
           /\ Promise!SealOf(segment) = SealOf(segment)
           /\ Promise!CheckpointOf(segment) = CheckpointOf(segment)
<1>1. \A s, kind : Promise!OfKind(s, kind) = OfKind(s, kind)
  BY DEF Promise!OfKind, OfKind
<1>2. \A s : Promise!OpenItems(s) = OpenItems(s)
  BY <1>1 DEF Promise!OpenItems, OpenItems
<1>3. \A s : Promise!IndexOf(s) = IndexOf(s)
  BY DEF Promise!IndexOf, IndexOf
<1>4. Promise!Substantive(segment) = Substantive(segment)
  BY DEF Promise!Substantive, Substantive
<1>5. \A s : Promise!Cardinality(s) = Cardinality(s)
  BY DEF Promise!Cardinality, Cardinality
<1>6. QED
  BY <1>2, <1>3, <1>4, <1>5 DEF Promise!SealOf, SealOf, Promise!CheckpointOf, CheckpointOf

\* The segments of the chain are sequences of payloads.
SegmentsAre ==
    /\ SealedSegments \in Seq(Seq(Payloads)) /\ Len(SealedSegments) = ActiveIndex - 1
    /\ \A i \in 1 .. ActiveIndex - 1 : SealedSegments[i] = Segment(ArchiveOf(i))
    /\ OpenSegment \in Seq(Payloads)

\* They are, in a state whose files are whole.
LEMMA SegmentsTyped == Whole => SegmentsAre
<1> SUFFICES ASSUME Whole PROVE SegmentsAre
  OBVIOUS
<1>1. /\ ActiveIndex = Number(dir, data) /\ ActiveIndex \in Nat \ {0}
      /\ Current \in Seq(Lines) /\ Formed(Current)
  BY CurrentIs
<1>2. \A i \in 1 .. ActiveIndex - 1 : Segment(ArchiveOf(i)) \in Seq(Payloads)
  <2>1. \A i \in 1 .. ActiveIndex - 1 : ArchiveOf(i) \in Seq(Lines) /\ Formed(ArchiveOf(i))
    BY <1>1, SoundTyped DEF Whole, ArchiveOf
  <2>2. QED  BY <2>1, FormedTyped
<1>3. ActiveIndex - 1 \in Nat
  BY <1>1
<1>4. Segment(Current) \in Seq(Payloads)
  BY <1>1, FormedTyped
<1>5. OpenSegment \in Seq(Payloads)
  <2>1. CASE Sealed(Segment(Current))
    BY <1>1, <2>1, SealedIs DEF OpenSegment
  <2>2. CASE ~Sealed(Segment(Current))
    BY <1>4, <2>2 DEF OpenSegment, Body
  <2>3. QED  BY <2>1, <2>2
<1>6. QED  BY <1>2, <1>3, <1>5 DEF SealedSegments, SegmentsAre

\* One element more, one less.
LEMMA OneMore ==
    ASSUME NEW S, NEW s \in Seq(S), NEW t \in Seq(S), Len(t) = Len(s) + 1,
           \A i \in 1 .. Len(s) : t[i] = s[i]
    PROVE  t = Append(s, t[Len(t)]) /\ s = SubSeq(t, 1, Len(t) - 1)
<1> DEFINE more == Append(s, t[Len(t)])
           less == SubSeq(t, 1, Len(t) - 1)
<1>1. /\ more \in Seq(S) /\ Len(more) = Len(s) + 1 /\ more[Len(s) + 1] = t[Len(t)]
      /\ \A i \in 1 .. Len(s) : more[i] = s[i]
  OBVIOUS
<1>2. less \in Seq(S) /\ Len(less) = Len(s) /\ \A i \in 1 .. Len(s) : less[i] = t[i]
  OBVIOUS
<1> HIDE DEF more, less
<1>3. t = more
  BY <1>1, SeqEqual
<1>4. s = less
  BY <1>2, SeqEqual
<1>5. QED  BY <1>3, <1>4 DEF more, less

\* The steps of the abstract chain, in the words of the rotation.
LEMMA PromiseSteps ==
    /\ Promise!vars = <<SealedSegments, OpenSegment, IsSettled>>
    /\ \A m : /\ SealedSegments' = SealedSegments /\ OpenSegment' = Append(OpenSegment, m)
              /\ IsSettled' = TRUE
              => Promise!Record(m)
    /\ SealedSegments' = SealedSegments /\ OpenSegment' = OpenSegment /\ IsSettled' = TRUE
       => Promise!Confirm
    /\ /\ Substantive(OpenSegment) /\ OpenSegment' = <<CheckpointOf(OpenSegment)>>
       /\ SealedSegments' = Append(SealedSegments, Append(OpenSegment, SealOf(OpenSegment)))
       /\ IsSettled' = FALSE
       => Promise!Rotate
    /\ /\ ~IsSettled /\ Len(OpenSegment) = 1
       /\ OpenSegment' = LET last == SealedSegments[Len(SealedSegments)]
                         IN  SubSeq(last, 1, Len(last) - 1)
       /\ SealedSegments' = SubSeq(SealedSegments, 1, Len(SealedSegments) - 1)
       /\ IsSettled' = TRUE
       => Promise!Undo
<1>1. Promise!vars = <<SealedSegments, OpenSegment, IsSettled>>
  BY DEF Promise!vars, SealedSegments, OpenSegment, IsSettled
<1>2. ASSUME NEW m, SealedSegments' = SealedSegments, OpenSegment' = Append(OpenSegment, m),
             IsSettled' = TRUE
      PROVE  Promise!Record(m)
  BY <1>2 DEF Promise!Record, SealedSegments, OpenSegment, IsSettled
<1>3. ASSUME SealedSegments' = SealedSegments, OpenSegment' = OpenSegment, IsSettled' = TRUE
      PROVE  Promise!Confirm
  BY <1>3 DEF Promise!Confirm, SealedSegments, OpenSegment, IsSettled
<1>4. ASSUME Substantive(OpenSegment), OpenSegment' = <<CheckpointOf(OpenSegment)>>,
             SealedSegments' = Append(SealedSegments, Append(OpenSegment, SealOf(OpenSegment))),
             IsSettled' = FALSE
      PROVE  Promise!Rotate
  BY <1>4, SameOperators DEF Promise!Rotate, SealedSegments, OpenSegment, IsSettled
<1>5. ASSUME ~IsSettled, Len(OpenSegment) = 1,
             OpenSegment' = LET last == SealedSegments[Len(SealedSegments)]
                            IN  SubSeq(last, 1, Len(last) - 1),
             SealedSegments' = SubSeq(SealedSegments, 1, Len(SealedSegments) - 1),
             IsSettled' = TRUE
      PROVE  Promise!Undo
  BY <1>5 DEF Promise!Undo, SealedSegments, OpenSegment, IsSettled
<1>6. QED  BY <1>1, <1>2, <1>3, <1>4, <1>5

\* A step that leaves the chain as it was is a confirmation at most.
LEMMA Unseen ==
    ASSUME Whole, Current' = Current, ActiveIndex' = ActiveIndex,
           \A i \in 1 .. ActiveIndex - 1 : ArchiveOf(i)' = ArchiveOf(i),
           dir'.active = disk'.active \/ (dir'.active = dir.active /\ disk'.active = disk.active)
    PROVE  [Promise!Next]_(Promise!vars)
<1>1. SealedSegments' = SealedSegments /\ OpenSegment' = OpenSegment
  BY DEF SealedSegments, OpenSegment
<1>2. CASE dir'.active = disk'.active
  <2>1. IsSettled' = TRUE
    BY <1>2 DEF IsSettled
  <2>2. Promise!Confirm
    BY <1>1, <2>1, PromiseSteps
  <2>3. QED  BY <2>2 DEF Promise!Next
<1>3. CASE dir'.active = dir.active /\ disk'.active = disk.active
  <2>1. IsSettled' = IsSettled
    BY <1>3 DEF IsSettled
  <2>2. Promise!vars' = Promise!vars
    BY <1>1, <2>1 DEF Promise!vars, SealedSegments, OpenSegment, IsSettled
  <2>3. QED  BY <2>2
<1>4. QED  BY <1>2, <1>3

\* A step that changes no file is not seen.
LEMMA UnseenFiles ==
    ASSUME Whole, UNCHANGED <<files, acked>> PROVE [Promise!Next]_(Promise!vars)
<1>1. dir'.active = dir.active /\ disk'.active = disk.active
  BY DEF files
<1>2. QED  BY <1>1, SameFiles, Unseen

\* A record of the gateway is one of the abstract chain.
LEMMA RecordImplements ==
    ASSUME Whole, Alive, InStep, NEW p \in Procs, Record(p) PROVE [Promise!Next]_(Promise!vars)
<1>1. mem[p] = Current /\ ~Sealed(Segment(Current)) /\ mem \in [Procs -> Seq(Lines)]
  BY DEF InStep, Knows, Record, Alive
<1>2. PICK m : /\ AppendsTo(p, m)
               /\ \/ m = Raise(Len(Tip(Current)) + 1)
                  \/ \E ref \in OpenItems(Segment(Current)) : m = Settle(ref)
  BY <1>1 DEF Record
<1>3. Fits(Current, m) /\ m.kind \in {"raise", "settle"}
  BY <1>2 DEF Fits, Raise, Settle
<1>4. /\ m \in Payloads /\ Current' = More(Current, m) /\ dir.active' = disk.active'
      /\ ActiveIndex' = ActiveIndex
      /\ \A i \in 1 .. ActiveIndex - 1 : ArchiveOf(i)' = ArchiveOf(i)
  BY <1>1, <1>2, <1>3, AppendWhole
<1>5. /\ Segment(More(Current, m)) = Append(Segment(Current), m)
      /\ ~Sealed(Segment(More(Current, m)))
  BY <1>3, <1>4, CurrentIs, MoreLines
<1>6. OpenSegment' = Append(OpenSegment, m)
  BY <1>1, <1>4, <1>5 DEF OpenSegment, Body
<1>7. SealedSegments' = SealedSegments /\ IsSettled' = TRUE
  BY <1>4 DEF SealedSegments, IsSettled
<1>8. Promise!Record(m) /\ m \in Items
  BY <1>3, <1>4, <1>6, <1>7, PromiseSteps, Kinds
<1>9. QED  BY <1>8 DEF Promise!Next

\* A seal is not seen: it confirms, at most, that the chain is settled.
LEMMA SealImplements ==
    ASSUME Whole, Alive, InStep, NEW p \in Procs, Seal(p) PROVE [Promise!Next]_(Promise!vars)
<1> DEFINE m == SealOf(Segment(Current))
<1>1. mem[p] = Current /\ mem \in [Procs -> Seq(Lines)]
  BY DEF InStep, Knows, Seal, Alive
<1>2. CASE UNCHANGED <<files, acked>>
  BY <1>2, UnseenFiles
<1>3. CASE /\ Plannable(mem[p], job[p].force) /\ ~Sealed(Segment(mem[p]))
           /\ AppendsTo(p, SealOf(Segment(mem[p])))
  <2>1. Fits(Current, m) /\ m.kind = "seal" /\ AppendsTo(p, m) /\ ~Sealed(Segment(Current))
    BY <1>1, <1>3, SealFits DEF SealOf
  <2> HIDE DEF m
  <2>2. /\ m \in Payloads /\ Current' = More(Current, m) /\ dir.active' = disk.active'
        /\ ActiveIndex' = ActiveIndex
        /\ \A i \in 1 .. ActiveIndex - 1 : ArchiveOf(i)' = ArchiveOf(i)
    BY <1>1, <2>1, AppendWhole
  <2>3. /\ Segment(More(Current, m)) = Append(Segment(Current), m)
        /\ Sealed(Segment(More(Current, m)))
    BY <2>1, <2>2, CurrentIs, MoreLines
  <2>4. Segment(Current) \in Seq(Payloads)
    BY CurrentIs, FormedTyped
  <2>5. OpenSegment' = OpenSegment
    <3> DEFINE s == Segment(Current)
               t == Append(s, m)
    <3>1. t \in Seq(Payloads) /\ Len(t) = Len(s) + 1 /\ \A i \in 1 .. Len(s) : t[i] = s[i]
      BY <2>2, <2>4
    <3> HIDE DEF s, t
    <3>2. s = SubSeq(t, 1, Len(t) - 1)
      BY <2>4, <3>1, OneMore DEF s
    <3>3. OpenSegment' = SubSeq(t, 1, Len(t) - 1)
      BY <2>2, <2>3 DEF OpenSegment, Body, t, s
    <3>4. OpenSegment = s
      BY <2>1 DEF OpenSegment, Body, s
    <3>5. QED  BY <3>2, <3>3, <3>4
  <2>6. SealedSegments' = SealedSegments /\ IsSettled' = TRUE
    BY <2>2 DEF SealedSegments, IsSettled
  <2>7. Promise!Confirm
    BY <2>5, <2>6, PromiseSteps
  <2>8. QED  BY <2>7 DEF Promise!Next
<1>4. QED  BY <1>2, <1>3 DEF Seal

\* A staged file is not seen.
LEMMA StageImplements ==
    ASSUME Whole, Alive, InStep, NEW p \in Procs, Stage(p) PROVE [Promise!Next]_(Promise!vars)
<1>1. mem[p] = Current /\ Sealed(Segment(Current))
  BY DEF InStep, Knows, Stage
<1>2. Checkpoint(p) = Successor(Current)
  BY <1>1, CheckpointIs
<1>3. /\ Len(Successor(Current)) =< MaxRecords
      /\ data' = [data EXCEPT ![StagingFile] = <<Successor(Current)>>]
      /\ durable' = durable \cup {StagingFile}
      /\ dir' = [dir EXCEPT !.temp = StagingFile]
      /\ UNCHANGED <<disk, acked>>
  BY <1>2 DEF Stage
<1>4. dir'.active = dir.active /\ disk'.active = disk.active
  BY <1>3 DEF Whole, Directories
<1>5. QED  BY <1>1, <1>3, <1>4, StageWhole, Unseen

\* Nor is the archive name, a second one of the active file.
LEMMA LinkImplements ==
    ASSUME Whole, Alive, InStep, NEW p \in Procs, Link(p) PROVE [Promise!Next]_(Promise!vars)
<1>1. /\ mem[p] = Current /\ Sealed(Segment(Current)) /\ digest[p] = Current
      /\ UNCHANGED <<data, durable, disk, acked>>
  BY DEF InStep, Knows, Link
<1>2. IndexOf(Segment(mem[p])) = ActiveIndex
  BY <1>1 DEF ActiveIndex
<1>3. CASE dir.archive[ActiveIndex] = NoFile
  <2>1. dir' = [dir EXCEPT !.archive[ActiveIndex] = dir.active]
    BY <1>2, <1>3 DEF Link
  <2>2. /\ Current' = Current /\ ActiveIndex' = ActiveIndex /\ dir'.active = dir.active
        /\ \A i \in 1 .. ActiveIndex - 1 : ArchiveOf(i)' = ArchiveOf(i)
    BY <1>1, <1>3, <2>1, LinkWhole
  <2>3. disk'.active = disk.active
    BY <1>1
  <2>4. QED  BY <2>2, <2>3, Unseen
<1>4. CASE dir.archive[ActiveIndex] # NoFile
  <2>1. dir.archive[ActiveIndex] = dir.active
    BY <1>1, <1>4, OwnLink
  <2>2. UNCHANGED dir
    BY <1>1, <1>2, <1>4, <2>1 DEF Link, Current
  <2>3. QED  BY <1>1, <2>2, UnseenFiles DEF files
<1>5. QED  BY <1>3, <1>4

\* A directory that is synced is a chain that is settled.
LEMMA SyncImplements ==
    ASSUME Whole, disk' = dir, UNCHANGED <<data, durable, dir, acked>>
    PROVE  [Promise!Next]_(Promise!vars)
<1>1. /\ Current' = Current /\ ActiveIndex' = ActiveIndex /\ \A i : ArchiveOf(i)' = ArchiveOf(i)
      /\ dir'.active = disk'.active
  BY DEF Current, ActiveIndex, ArchiveOf
<1>2. QED  BY <1>1, Unseen

\* The rename is the rotation.
LEMMA CommitImplements ==
    ASSUME Whole, Whole', Alive, InStep, NEW p \in Procs, Commit(p)
    PROVE  [Promise!Next]_(Promise!vars)
<1> DEFINE n == ActiveIndex
           s == SealedSegments
           t == SealedSegments'
<1>1. /\ Current' = <<Successor(Current)>> /\ ActiveIndex' = n + 1
      /\ \A i \in 1 .. n - 1 : ArchiveOf(i)' = ArchiveOf(i)
      /\ data'[dir'.archive[n]] = Current /\ Sealed(Segment(Current))
      /\ Segment(Current)' = <<CheckpointOf(Body(Segment(Current)))>>
      /\ ~Sealed(Segment(Current))' /\ dir'.active # disk'.active
  BY CommitIs, CommitWhole
<1>2. n \in Nat \ {0} /\ Current \in Seq(Lines) /\ Formed(Current)
  BY CurrentIs
<1>3. /\ Segment(Current) = Append(OpenSegment, SealOf(OpenSegment))
      /\ Substantive(OpenSegment)
  BY <1>1, <1>2, SealedIs DEF OpenSegment
<1>4. OpenSegment' = <<CheckpointOf(OpenSegment)>>
  BY <1>1 DEF OpenSegment, Body
<1>5. /\ s \in Seq(Seq(Payloads)) /\ Len(s) = n - 1
      /\ \A i \in 1 .. n - 1 : s[i] = Segment(ArchiveOf(i))
  BY SegmentsTyped DEF SegmentsAre
<1>6. /\ t \in Seq(Seq(Payloads)) /\ Len(t) = ActiveIndex' - 1
      /\ \A i \in 1 .. ActiveIndex' - 1 : t[i] = Segment(data'[dir'.archive[i]])
  <2>1. (Whole => SegmentsAre)'
    BY SegmentsTyped, PTL
  <2>2. QED  BY <2>1 DEF SegmentsAre, ArchiveOf
<1>7. Len(t) = n /\ t[n] = Segment(Current)
  BY <1>1, <1>2, <1>6
<1>8. \A i \in 1 .. n - 1 : t[i] = s[i]
  BY <1>1, <1>2, <1>5, <1>6 DEF ArchiveOf
<1> HIDE DEF n, s, t
<1>9. t = Append(s, t[n])
  <2>1. Len(t) = Len(s) + 1 /\ \A i \in 1 .. Len(s) : t[i] = s[i]
    BY <1>2, <1>5, <1>7, <1>8
  <2>2. QED  BY <1>5, <1>6, <1>7, <2>1, OneMore
<1>10. SealedSegments' = Append(SealedSegments, Append(OpenSegment, SealOf(OpenSegment)))
  BY <1>3, <1>7, <1>9 DEF s, t
<1>11. IsSettled' = FALSE
  BY <1>1 DEF IsSettled
<1>12. Promise!Rotate
  BY <1>3, <1>4, <1>10, <1>11, PromiseSteps
<1>13. QED  BY <1>12 DEF Promise!Next

\* A power loss keeps the chain, or takes the rename back.
LEMMA PowerImplements ==
    ASSUME Whole, Whole', PowerLoss PROVE [Promise!Next]_(Promise!vars)
<1> DEFINE n == ActiveIndex
           s == SealedSegments
           t == SealedSegments'
<1>1. dir' = disk'
  BY PowerWhole
<1>2. CASE /\ Current' = Current /\ ActiveIndex' = ActiveIndex
           /\ \A i \in 1 .. ActiveIndex - 1 : ArchiveOf(i)' = ArchiveOf(i)
  BY <1>1, <1>2, Unseen
<1>3. CASE /\ dir.active # disk.active
           /\ ActiveIndex' = n - 1 /\ n > 1
           /\ Current' = data[dir.archive[n - 1]]
           /\ \A i \in 1 .. n - 2 : ArchiveOf(i)' = ArchiveOf(i)
  <2>1. /\ n \in Nat \ {0} /\ Current \in Seq(Lines) /\ Formed(Current)
        /\ n = Number(dir, data)
    BY CurrentIs
  <2>2. Len(Current) = 1
    BY <1>3 DEF Whole, DiskFollows
  <2>3. ~IsSettled /\ Len(OpenSegment) = 1
    <3>1. ~Sealed(Segment(Current))
      BY <2>1, <2>2, SealedIs
    <3>2. Len(Segment(Current)) = 1
      BY <2>1, <2>2, FormedTyped
    <3>3. QED  BY <1>3, <3>1, <3>2 DEF IsSettled, OpenSegment, Body
  <2>4. /\ s \in Seq(Seq(Payloads)) /\ Len(s) = n - 1
        /\ \A i \in 1 .. n - 1 : s[i] = Segment(ArchiveOf(i))
    BY SegmentsTyped DEF SegmentsAre
  <2>5. Sealed(Segment(data[dir.archive[n - 1]]))
    <3>1. n - 1 \in 1 .. n - 1
      BY <1>3, <2>1
    <3>2. QED  BY <2>1, <3>1, SoundTyped DEF Whole
  <2>6. s[n - 1] = Segment(data[dir.archive[n - 1]])
    BY <1>3, <2>1, <2>4 DEF ArchiveOf
  <2>7. OpenSegment' = SubSeq(s[n - 1], 1, Len(s[n - 1]) - 1)
    BY <1>3, <2>5, <2>6 DEF OpenSegment, Body
  <2>8. /\ t \in Seq(Seq(Payloads)) /\ Len(t) = ActiveIndex' - 1
        /\ \A i \in 1 .. ActiveIndex' - 1 : t[i] = Segment(data'[dir'.archive[i]])
    <3>1. (Whole => SegmentsAre)'
      BY SegmentsTyped, PTL
    <3>2. QED  BY <3>1 DEF SegmentsAre, ArchiveOf
  <2>9. Len(t) = n - 2 /\ \A i \in 1 .. n - 2 : s[i] = t[i]
    <3>1. \A i \in 1 .. n - 2 : i \in 1 .. ActiveIndex' - 1 /\ i \in 1 .. n - 1
      BY <1>3, <2>1
    <3>2. Len(t) = n - 2
      BY <1>3, <2>1, <2>8
    <3>3. QED  BY <1>3, <2>4, <2>8, <3>1, <3>2 DEF ArchiveOf
  <2> HIDE DEF n, s, t
  <2>10. t = SubSeq(s, 1, Len(s) - 1)
    <3>1. Len(s) = Len(t) + 1 /\ \A i \in 1 .. Len(t) : s[i] = t[i]
      BY <2>1, <2>4, <2>9
    <3>2. QED  BY <2>4, <2>8, <3>1, OneMore
  <2>11. IsSettled' = TRUE
    BY <1>1 DEF IsSettled
  <2>12. Promise!Undo
    BY <2>3, <2>4, <2>7, <2>10, <2>11, PromiseSteps DEF s, t
  <2>13. QED  BY <2>12 DEF Promise!Next
<1>4. QED  BY <1>2, <1>3, PowerWhole

\* Every step of the rotation, the gateway, a crash is a step of the abstract chain or
\* is not seen.
LEMMA StepImplements ==
    ASSUME Whole, Alive, InStep, Whole', [Next]_vars PROVE [Promise!Next]_(Promise!vars)
<1>1. CASE UNCHANGED vars
  BY <1>1, UnseenFiles DEF vars, files
<1>2. ASSUME NEW p \in Procs,
             Serve(p) \/ Confirm(p) \/ Decline(p) \/ Lock(p) \/ Close(p) \/ Die(p)
                \/ \E force \in BOOLEAN : Plan(p, force)
      PROVE  [Promise!Next]_(Promise!vars)
  <2>1. UNCHANGED <<files, acked>>
    BY <1>2 DEF Serve, Confirm, Decline, Lock, Close, Die, Plan
  <2>2. QED  BY <2>1, UnseenFiles
<1>3. ASSUME NEW p \in Procs, SyncLink(p) \/ Finish(p) PROVE [Promise!Next]_(Promise!vars)
  BY <1>3, SyncImplements DEF SyncLink, Finish
<1>4. CASE Next
  BY <1>2, <1>3, <1>4, RecordImplements, SealImplements, StageImplements, LinkImplements,
     CommitImplements, PowerImplements DEF Next, Rotating
<1>5. QED  BY <1>1, <1>4

\* The rotation, with its staging file, link, rename, syncs, crashes and re-runs,
\* implements the rotation in one step: a segment is sealed and succeeded at once, and
\* a power loss may undo that as a whole while nothing was recorded behind it.
THEOREM RotationImplementsSegmentedChain ==
    ASSUME "overlap" \notin Events PROVE Spec => ImplementsSegmentedChain
<1>1. Init => Promise!Init
  <2> SUFFICES ASSUME Init PROVE Promise!Init
    OBVIOUS
  <2>1. Whole
    BY InitKeeps
  <2>2. Current = <<>> /\ dir.active = disk.active
    BY BoundsAssumption DEF Init, Current, Files
  <2>3. Segment(Current) = <<>>
    BY <2>2 DEF Segment
  <2>4. ActiveIndex = 1 /\ Body(Segment(Current)) = <<>>
    BY <2>3 DEF ActiveIndex, IndexOf, Body, Sealed
  <2>5. SealedSegments = <<>>
    BY <2>1, <2>4, SegmentsTyped DEF SegmentsAre
  <2>6. IsSettled = TRUE /\ OpenSegment = <<>>
    BY <2>2, <2>4 DEF IsSettled, OpenSegment
  <2>7. QED  BY <2>5, <2>6 DEF Promise!Init, SealedSegments, OpenSegment, IsSettled
<1>2. IInv /\ IInv' /\ [Next]_vars => [Promise!Next]_(Promise!vars)
  <2> SUFFICES ASSUME IInv, IInv', [Next]_vars PROVE [Promise!Next]_(Promise!vars)
    OBVIOUS
  <2>1. Whole /\ Alive /\ InStep
    BY IInvParts
  <2>2. (IInv <=> Whole /\ Alive /\ InStep)'
    BY IInvParts, PTL
  <2>3. QED  BY <2>1, <2>2, StepImplements
<1>3. QED
  BY <1>1, <1>2, RotationInvariance, PTL DEF Spec, ImplementsSegmentedChain, Promise!Spec
=============================================================================
