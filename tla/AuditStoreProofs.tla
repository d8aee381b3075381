-------------------------- MODULE AuditStoreProofs --------------------------
(***************************************************************************)
(* Theorems about the durable audit store, for any processes, payloads and  *)
(* length of the file.                                                      *)
(*                                                                          *)
(* The argument: a line that was synced is never touched again, because a   *)
(* line without its newline never was.  So a chain that verifies has what   *)
(* was acknowledged, whatever went wrong while it was written: a line that  *)
(* does not continue its predecessor stays there and is seen.  Under the    *)
(* documents' discipline more is true: the file is one chain and perhaps a  *)
(* torn tail, its tip is the log of the process on it, and the store        *)
(* implements the abstract durable log.                                     *)
(***************************************************************************)
EXTENDS AuditStore, Integers, SequenceTheorems, TLAPS

-----------------------------------------------------------------------------
(* Chains of records *)

\* What comes before line i is line i - 1.
LEMMA TipOfPrefix ==
    ASSUME NEW lines \in Seq(Lines), NEW i \in 1 .. Len(lines)
    PROVE  Tip(SubSeq(lines, 1, i - 1)) = IF i = 1 THEN Genesis ELSE lines[i - 1]
<1>1. CASE i = 1
  BY <1>1 DEF Tip, Genesis
<1>2. CASE i # 1
  <2>1. Len(SubSeq(lines, 1, i - 1)) = i - 1 /\ SubSeq(lines, 1, i - 1)[i - 1] = lines[i - 1]
    BY <1>2
  <2>2. SubSeq(lines, 1, i - 1) # <<>>
    BY <1>2, <2>1
  <2>3. QED  BY <1>2, <2>1, <2>2 DEF Tip
<1>3. QED  BY <1>1, <1>2

\* The tip of a chain has as many payloads as the chain has records.
LEMMA LinkedTip ==
    ASSUME NEW lines \in Seq(Lines), Linked(lines)
    PROVE  /\ Tip(lines) \in Lines
           /\ Len(Tip(lines)) = Len(lines)
           /\ Tip(lines) = Genesis <=> lines = <<>>
           /\ lines # <<>> => Tip(lines) = lines[Len(lines)]
<1>1. CASE lines = <<>>
  BY <1>1 DEF Tip, Genesis, Lines
<1>2. CASE lines # <<>>
  <2>1. Len(lines) \in DOMAIN lines /\ Tip(lines) = lines[Len(lines)]
    BY <1>2 DEF Tip
  <2>2. Tip(lines) \in Lines /\ Len(Tip(lines)) = Len(lines)
    BY <2>1 DEF Linked
  <2>3. QED  BY <1>2, <2>1, <2>2 DEF Genesis, Lines
<1>3. QED  BY <1>1, <1>2

\* A chain verifies.
LEMMA LinkedVerifies ==
    ASSUME NEW lines \in Seq(Lines), Linked(lines) PROVE Verifies(lines)
<1> SUFFICES ASSUME NEW i \in 1 .. Len(lines)
             PROVE  /\ Len(lines[i]) = i
                    /\ SubSeq(lines[i], 1, i - 1) = Tip(SubSeq(lines, 1, i - 1))
  BY DEF Verifies
<1>1. lines[i] \in Lines /\ Len(lines[i]) = i
  BY DEF Linked
<1>2. CASE i = 1
  <2>1. i - 1 = 0 /\ SubSeq(lines[i], 1, 0) = <<>>
    BY <1>1, <1>2 DEF Lines
  <2>2. QED  BY <1>1, <1>2, <2>1, TipOfPrefix DEF Genesis
<1>3. CASE i # 1
  <2>1. i - 1 \in 1 .. i
    BY <1>3
  <2>2. lines[i - 1] = SubSeq(lines[i], 1, i - 1)
    BY <2>1 DEF Linked
  <2>3. QED  BY <1>1, <1>3, <2>2, TipOfPrefix
<1>4. QED  BY <1>2, <1>3

\* The first k elements.
LEMMA FirstElements ==
    ASSUME NEW S, NEW s \in Seq(S), NEW k \in 0 .. Len(s)
    PROVE  /\ SubSeq(s, 1, k) \in Seq(S) /\ Len(SubSeq(s, 1, k)) = k
           /\ \A i \in 1 .. k : SubSeq(s, 1, k)[i] = s[i]
OBVIOUS

\* A prefix of a prefix.
LEMMA PrefixOfPrefix ==
    ASSUME NEW S, NEW s \in Seq(S), NEW n \in 0 .. Len(s), NEW j \in 0 .. n
    PROVE  SubSeq(SubSeq(s, 1, n), 1, j) = SubSeq(s, 1, j)
<1> DEFINE t == SubSeq(s, 1, n)
<1>1. t \in Seq(S) /\ Len(t) = n /\ \A i \in 1 .. n : t[i] = s[i]
  OBVIOUS
<1> HIDE DEF t
<1>2. /\ SubSeq(t, 1, j) \in Seq(S) /\ Len(SubSeq(t, 1, j)) = j
      /\ \A i \in 1 .. j : SubSeq(t, 1, j)[i] = s[i]
  BY <1>1
<1>3. /\ SubSeq(s, 1, j) \in Seq(S) /\ Len(SubSeq(s, 1, j)) = j
      /\ \A i \in 1 .. j : SubSeq(s, 1, j)[i] = s[i]
  OBVIOUS
<1>4. SubSeq(t, 1, j) = SubSeq(s, 1, j)
  BY <1>2, <1>3, SeqEqual
<1>5. QED  BY <1>4 DEF t

\* The first records of a chain are a chain, whose tip is the first payloads.
LEMMA LinkedPrefix ==
    ASSUME NEW lines \in Seq(Lines), Linked(lines), NEW k \in 0 .. Len(lines)
    PROVE  /\ SubSeq(lines, 1, k) \in Seq(Lines) /\ Len(SubSeq(lines, 1, k)) = k
           /\ Linked(SubSeq(lines, 1, k))
           /\ Tip(SubSeq(lines, 1, k)) = SubSeq(Tip(lines), 1, k)
<1> DEFINE front == SubSeq(lines, 1, k)
<1>1. front \in Seq(Lines) /\ Len(front) = k /\ \A i \in 1 .. k : front[i] = lines[i]
  OBVIOUS
<1> HIDE DEF front
<1>2. Linked(front)
  BY <1>1 DEF Linked
<1>3. Tip(front) = SubSeq(Tip(lines), 1, k)
  <2>1. CASE k = 0
    BY <1>1, <2>1, LinkedTip DEF Tip, Genesis, Lines
  <2>2. CASE k # 0
    <3>1. lines # <<>> /\ Len(lines) \in DOMAIN lines /\ k \in 1 .. Len(lines)
      BY <2>2
    <3>2. Tip(lines) = lines[Len(lines)] /\ lines[k] = SubSeq(lines[Len(lines)], 1, k)
      BY <3>1, LinkedTip DEF Linked
    <3>3. Tip(front) = lines[k]
      BY <1>1, <2>2 DEF Tip
    <3>4. QED  BY <3>2, <3>3
  <2>3. QED  BY <2>1, <2>2
<1>4. QED  BY <1>1, <1>2, <1>3 DEF front

\* A record that continues the tip continues the chain.
LEMMA LinkedAppend ==
    ASSUME NEW lines \in Seq(Lines), Linked(lines), NEW r \in Lines,
           Len(r) = Len(lines) + 1, SubSeq(r, 1, Len(lines)) = Tip(lines)
    PROVE  /\ Append(lines, r) \in Seq(Lines) /\ Linked(Append(lines, r))
           /\ Tip(Append(lines, r)) = r
<1> DEFINE n == Len(lines)
           more == Append(lines, r)
<1>1. /\ more \in Seq(Lines) /\ Len(more) = n + 1 /\ more[n + 1] = r
      /\ \A i \in 1 .. n : more[i] = lines[i]
  OBVIOUS
<1>2. n \in Nat /\ r \in Seq(Payloads)
  BY DEF Lines
<1> HIDE DEF more
<1>3. Tip(more) = r
  BY <1>1, <1>2 DEF Tip
<1>4. ASSUME NEW j \in 1 .. n PROVE lines[j] = SubSeq(r, 1, j)
  <2>1. n \in DOMAIN lines /\ lines # <<>>
    BY <1>4
  <2>2. lines[n] = SubSeq(r, 1, n)
    BY <2>1, LinkedTip
  <2>3. lines[j] = SubSeq(lines[n], 1, j)
    BY <2>1, <1>4 DEF Linked
  <2>4. SubSeq(SubSeq(r, 1, n), 1, j) = SubSeq(r, 1, j)
    BY <1>2, <1>4, PrefixOfPrefix
  <2>5. QED  BY <2>2, <2>3, <2>4
<1>5. SubSeq(r, 1, n + 1) = r
  BY <1>2
<1>6. ASSUME NEW i \in 1 .. n + 1
      PROVE  Len(more[i]) = i /\ \A j \in 1 .. i : more[j] = SubSeq(more[i], 1, j)
  <2>1. CASE i \in 1 .. n
    <3>1. more[i] = lines[i] /\ i \in DOMAIN lines
      BY <1>1, <2>1
    <3>2. \A j \in 1 .. i : more[j] = lines[j]
      BY <1>1, <1>2, <2>1
    <3>3. QED  BY <3>1, <3>2 DEF Linked
  <2>2. CASE i = n + 1
    <3>1. \A j \in 1 .. n + 1 : j \in 1 .. n \/ j = n + 1
      BY <1>2
    <3>2. QED  BY <1>1, <1>4, <1>5, <2>2, <3>1
  <2>3. QED  BY <1>2, <1>6, <2>1, <2>2
<1>7. Linked(more)
  BY <1>1, <1>6 DEF Linked
<1>8. QED  BY <1>1, <1>3, <1>7 DEF more

-----------------------------------------------------------------------------
(* The lines of the file *)

\* Text added goes into a new line, or makes the unfinished one unreadable.
LEMMA AddedLines ==
    ASSUME NEW text \in Lines, file \in Seq(Lines), ended \in BOOLEAN, ~ended => file # <<>>
    PROVE  /\ Added(text) \in Seq(Lines)
           /\ ended => /\ Len(Added(text)) = Len(file) + 1
                       /\ Added(text)[Len(file) + 1] = text
                       /\ \A i \in 1 .. Len(file) : Added(text)[i] = file[i]
           /\ ~ended => /\ Len(Added(text)) = Len(file)
                        /\ Added(text)[Len(file)] = Torn
                        /\ \A i \in 1 .. Len(file) - 1 : Added(text)[i] = file[i]
<1>1. CASE ended
  BY <1>1 DEF Added
<1>2. CASE ~ended
  <2>1. Torn \in Lines
    BY DEF Torn, Lines
  <2>2. Added(text) = [file EXCEPT ![Len(file)] = Torn] /\ Len(file) \in DOMAIN file
    BY <1>2 DEF Added
  <2>3. QED  BY <1>2, <2>1, <2>2
<1>3. QED  BY <1>1, <1>2

\* What a power loss leaves of the file: the synced lines, and no more lines than
\* there were.
LEMMA SurvivingLines ==
    ASSUME file \in Seq(Lines), ended \in BOOLEAN, synced \in 0 .. Len(file), UnendedIsUnsynced,
           NEW k \in synced .. Len(file), Survives(k)
    PROVE  /\ file' \in Seq(Lines) /\ ended' \in BOOLEAN /\ Len(file') =< Len(file)
           /\ Finished(file', ended') \in synced .. Len(file')
           /\ ~ended' => Finished(file', ended') < Len(file')
           /\ \A i \in 1 .. synced : file'[i] = file[i]
<1>1. k \in Nat /\ synced \in Nat /\ synced =< k /\ k =< Len(file) /\ Len(file) \in Nat
  OBVIOUS
<1>2. Torn \in Lines
  BY DEF Torn, Lines
<1> DEFINE front == SubSeq(file, 1, k)
<1>3. front \in Seq(Lines) /\ Len(front) = k /\ \A i \in 1 .. k : front[i] = file[i]
  BY <1>1
<1>4. CASE file' = front /\ ended' = (k = Len(file) => ended)
  <2>1. (ended' <=> (k = Len(file) => ended)) /\ ended' \in BOOLEAN
    BY <1>4
  <2>2. ~ended' => Finished(file', ended') = k - 1 /\ synced < k
    BY <1>1, <1>3, <1>4, <2>1 DEF Finished, UnendedIsUnsynced
  <2>3. ended' => Finished(file', ended') = k
    BY <1>3, <1>4 DEF Finished
  <2>4. Len(file') = k /\ \A i \in 1 .. synced : file'[i] = file[i]
    BY <1>1, <1>3, <1>4
  <2>5. QED  BY <1>1, <1>3, <1>4, <2>1, <2>2, <2>3, <2>4
<1>5. CASE k < Len(file) /\ file' = Append(front, Torn) /\ ended' = FALSE
  <2> HIDE DEF front
  <2>1. /\ file' \in Seq(Lines) /\ Len(file') = k + 1
        /\ \A i \in 1 .. k : file'[i] = file[i]
    BY <1>1, <1>2, <1>3, <1>5
  <2>2. Finished(file', ended') = k
    BY <1>1, <1>5, <2>1 DEF Finished
  <2>3. ~ended' /\ ended' \in BOOLEAN /\ k < Len(file)
    BY <1>5
  <2>4. QED  BY <1>1, <2>1, <2>2, <2>3
<1>6. CASE k < Len(file) /\ file' = SubSeq(file, 1, k + 1) /\ ended' = FALSE
  <2>1. /\ file' \in Seq(Lines) /\ Len(file') = k + 1
        /\ \A i \in 1 .. k : file'[i] = file[i]
    BY <1>1, <1>6
  <2>2. Finished(file', ended') = k
    BY <1>1, <1>6, <2>1 DEF Finished
  <2>3. ~ended' /\ ended' \in BOOLEAN /\ k < Len(file)
    BY <1>6
  <2>4. QED  BY <1>1, <2>1, <2>2, <2>3
<1>7. QED  BY <1>4, <1>5, <1>6 DEF Survives

-----------------------------------------------------------------------------
(* The shape of the state: every step, whatever the mishaps *)

Shape == TypeOK /\ OneWriter /\ UnendedIsUnsynced

\* The part of it that is about the file and what was acknowledged.
FileShape ==
    /\ file \in Seq(Lines) /\ Len(file) =< MaxLines
    /\ ended \in BOOLEAN /\ rewritten \in BOOLEAN
    /\ synced \in 0 .. Len(file)
    /\ ~ended => synced < Len(file)
    /\ acked \subseteq Lines

\* What a process's step leaves of the others.
LEMMA OneMoves ==
    ASSUME NEW S, NEW f \in [Procs -> S], NEW p \in Procs, NEW x \in S, NEW g,
           g = [f EXCEPT ![p] = x]
    PROVE  g \in [Procs -> S] /\ g[p] = x /\ \A q \in Procs \ {p} : g[q] = f[q]
OBVIOUS

\* A step of process p keeps the shape if what it makes of the file has it.
LEMMA StepShape ==
    ASSUME Shape, NEW p \in Procs, NEW place \in Places, Goto(p, place),
           NEW x \in Lines, mem' = [mem EXCEPT ![p] = x],
           NEW y \in Seq(Lines), salvage' = [salvage EXCEPT ![p] = y],
           FileShape', place \in {"out", "cut"} => x = Genesis,
           place # "cut" => y = <<>>,
           place = "cut" => Len(y) < MaxLines,
           place \in Holding => \A q \in Procs : pc[q] \in Holding => q = p,
           place = "appended" => Len(file') < MaxLines,
           place = "written" => ended',
           \A q \in Procs \ {p} : /\ pc[q] = "appended" => Len(file') < MaxLines
                                  /\ pc[q] = "written" => ended'
    PROVE  Shape'
<1>1. pc' \in [Procs -> Places] /\ pc'[p] = place /\ \A q \in Procs \ {p} : pc'[q] = pc[q]
  BY DEF Shape, TypeOK, Goto
<1>2. mem' \in [Procs -> Lines] /\ mem'[p] = x /\ \A q \in Procs \ {p} : mem'[q] = mem[q]
  BY DEF Shape, TypeOK
<1>3. /\ salvage' \in [Procs -> Seq(Lines)] /\ salvage'[p] = y
      /\ \A q \in Procs \ {p} : salvage'[q] = salvage[q]
  BY DEF Shape, TypeOK
<1>4. TypeOK'
  BY <1>1, <1>2, <1>3 DEF Shape, TypeOK, FileShape
<1>5. OneWriter'
  BY <1>1, <1>3 DEF Shape, OneWriter
<1>6. UnendedIsUnsynced'
  BY DEF UnendedIsUnsynced, FileShape
<1>7. QED  BY <1>4, <1>5, <1>6 DEF Shape

\* The functions a step leaves alone, as the step lemma has them.
LEMMA Unmoved ==
    ASSUME TypeOK, NEW p \in Procs
    PROVE  /\ mem = [mem EXCEPT ![p] = mem[p]] /\ mem[p] \in Lines
           /\ salvage = [salvage EXCEPT ![p] = salvage[p]] /\ salvage[p] \in Seq(Lines)
           /\ Genesis \in Lines /\ <<>> \in Seq(Lines)
BY DEF TypeOK, Genesis, Lines

\* The tip of the file is a record, or none.
LEMMA TipTyped == ASSUME NEW lines \in Seq(Lines) PROVE Tip(lines) \in Lines
<1>1. CASE lines = <<>>
  BY <1>1 DEF Tip, Genesis, Lines
<1>2. CASE lines # <<>>
  <2>1. Len(lines) \in DOMAIN lines
    BY <1>2
  <2>2. QED  BY <1>2, <2>1 DEF Tip
<1>3. QED  BY <1>1, <1>2

\* Opening, locking, minting, failing, closing: the file stands.
LEMMA MemoryShape ==
    ASSUME Shape, NEW p \in Procs,
           \/ Read(p) \/ Lock(p) \/ Fail(p) \/ Close(p) \/ \E m \in Payloads : Mint(p, m)
    PROVE  Shape'
<1>1. /\ file \in Seq(Lines)
      /\ \A q \in Procs : /\ pc[q] = "appended" => Len(file) < MaxLines
                          /\ pc[q] = "written" => ended
  BY DEF Shape, TypeOK, OneWriter
<1> UNCHANGED <<file, ended, synced, rewritten, salvage, acked>>
  BY DEF Read, Lock, Fail, Close, Mint
<1> FileShape'
  BY DEF Shape, TypeOK, UnendedIsUnsynced, FileShape
<1>2. /\ pc[p] # "cut" => salvage[p] = <<>>
      /\ pc[p] \in Holding => \A q \in Procs : pc[q] \in Holding => q = p
  BY DEF Shape, TypeOK, OneWriter
<1>3. Tip(file) \in Lines
  BY <1>1, TipTyped
<1>4. /\ mem = [mem EXCEPT ![p] = mem[p]] /\ mem[p] \in Lines
      /\ salvage = [salvage EXCEPT ![p] = salvage[p]] /\ salvage[p] \in Seq(Lines)
      /\ Genesis \in Lines
  BY Unmoved DEF Shape
<1>5. CASE Read(p)
  <2>1. /\ "read" \in Places /\ "read" \notin {"out", "cut", "appended", "written"} \cup Holding
        /\ Goto(p, "read") /\ mem' = [mem EXCEPT ![p] = Tip(file)] /\ pc[p] = "out"
    BY <1>5 DEF Read, Places, Holding
  <2>2. QED  BY <1>1, <1>2, <1>3, <1>4, <2>1, StepShape
<1>6. CASE Lock(p)
  <2>1. /\ pc[p] = "read" /\ "out" \in Places /\ "ready" \in Places /\ "out" \notin Holding
    BY <1>6 DEF Lock, Places, Holding
  <2>2. CASE \E q \in Procs : pc[q] \in Holding
    <3>1. Goto(p, "out") /\ mem' = [mem EXCEPT ![p] = Genesis]
      BY <1>6, <2>2 DEF Lock, Leave
    <3>2. QED  BY <1>1, <1>2, <1>4, <2>1, <3>1, StepShape
  <2>3. CASE ~\E q \in Procs : pc[q] \in Holding
    <3>1. Goto(p, "ready") /\ mem' = mem
      BY <1>6, <2>3 DEF Lock
    <3>2. QED  BY <1>1, <1>2, <1>4, <2>1, <2>3, <3>1, StepShape
  <2>4. QED  BY <2>2, <2>3
<1>7. CASE Fail(p)
  <2>1. /\ "ready" \in Places /\ pc[p] \in Holding /\ pc[p] # "cut" /\ Goto(p, "ready")
        /\ UNCHANGED mem
    BY <1>7 DEF Fail, Places, Holding
  <2>2. QED  BY <1>1, <1>2, <1>4, <2>1, StepShape
<1>8. CASE Close(p)
  <2>1. /\ "out" \in Places /\ "out" \notin Holding /\ pc[p] # "cut" /\ Goto(p, "out")
        /\ mem' = [mem EXCEPT ![p] = Genesis]
    BY <1>8 DEF Close, Leave, Places, Holding
  <2>2. QED  BY <1>1, <1>2, <1>4, <2>1, StepShape
<1>9. ASSUME NEW m \in Payloads, Mint(p, m) PROVE Shape'
  <2>1. /\ "appended" \in Places /\ pc[p] \in Holding /\ pc[p] # "cut" /\ Goto(p, "appended")
        /\ mem' = [mem EXCEPT ![p] = Append(mem[p], m)] /\ Len(file) < MaxLines
    BY <1>9 DEF Mint, Places, Holding
  <2>2. Append(mem[p], m) \in Lines
    BY <1>4 DEF Lines
  <2>3. QED  BY <1>1, <1>2, <1>4, <2>1, <2>2, StepShape
<1>10. QED  BY <1>5, <1>6, <1>7, <1>8, <1>9

\* Writing, tearing, syncing: the holder of the lock changes the file.
LEMMA WriterShape ==
    ASSUME Shape, NEW p \in Procs, Write(p) \/ Tear(p) \/ Sync(p) PROVE Shape'
<1>1. /\ file \in Seq(Lines) /\ Len(file) =< MaxLines /\ ended \in BOOLEAN /\ rewritten \in BOOLEAN
      /\ acked \subseteq Lines /\ synced \in 0 .. Len(file)
      /\ ~ended => synced < Len(file)
  BY DEF Shape, TypeOK, UnendedIsUnsynced
<1>2. pc[p] \in {"appended", "written"} /\ pc[p] \in Holding
  BY DEF Write, Tear, Sync, Holding
<1>3. /\ salvage[p] = <<>> /\ \A q \in Procs : pc[q] \in Holding => q = p
      /\ pc[p] = "appended" => Len(file) < MaxLines
      /\ pc[p] = "written" => ended
  BY <1>2 DEF Shape, TypeOK, OneWriter
<1>4. \A q \in Procs \ {p} : pc[q] # "appended" /\ pc[q] # "written"
  BY <1>3 DEF Holding
<1>5. /\ mem = [mem EXCEPT ![p] = mem[p]] /\ mem[p] \in Lines
      /\ salvage = [salvage EXCEPT ![p] = salvage[p]] /\ salvage[p] \in Seq(Lines)
      /\ Genesis \in Lines
  BY Unmoved DEF Shape
<1>6. ASSUME NEW text \in Lines, pc[p] = "appended", file' = Added(text)
      PROVE  /\ file' \in Seq(Lines) /\ Len(file') =< MaxLines /\ synced \in 0 .. Len(file')
             /\ synced < Len(file')
  <2>1. ~ended => file # <<>>
    BY <1>1
  <2>2. MaxLines \in Nat /\ Len(file) < MaxLines
    BY <1>3, <1>6, BoundAssumption
  <2>3. /\ Added(text) \in Seq(Lines)
        /\ Len(Added(text)) = IF ended THEN Len(file) + 1 ELSE Len(file)
    BY <1>1, <2>1, AddedLines
  <2>4. QED  BY <1>1, <1>6, <2>2, <2>3
<1>7. CASE Write(p)
  <2>1. /\ "written" \in Places /\ "written" \notin {"out", "cut", "appended"}
        /\ pc[p] = "appended" /\ Goto(p, "written") /\ file' = Added(mem[p])
        /\ UNCHANGED <<synced, rewritten, mem, salvage, acked>>
    BY <1>7 DEF Write, Places
  <2>2. ended'
    BY <1>7 DEF Write
  <2>3. ended' \in BOOLEAN
    BY <1>7 DEF Write
  <2>4. rewritten' \in BOOLEAN
    BY <1>1, <1>7 DEF Write
  <2>5. /\ file' \in Seq(Lines) /\ Len(file') =< MaxLines /\ synced' \in 0 .. Len(file')
        /\ acked' \subseteq Lines
    BY <1>1, <1>5, <1>6, <2>1
  <2>6. FileShape'
    BY <2>2, <2>3, <2>4, <2>5 DEF FileShape
  <2>7. mem' = [mem EXCEPT ![p] = mem[p]] /\ salvage' = [salvage EXCEPT ![p] = salvage[p]]
    BY <1>5, <2>1
  <2>8. QED  BY <1>3, <1>4, <1>5, <2>1, <2>2, <2>6, <2>7, StepShape
<1>8. CASE Tear(p)
  <2>1. /\ pc[p] = "appended"
        /\ file' = Added(Torn) \/ file' = Added(mem[p])
        /\ Leave(p) \/ (Goto(p, "ready") /\ UNCHANGED mem)
        /\ UNCHANGED <<synced, rewritten, salvage, acked>>
    BY <1>8 DEF Tear
  <2>2. ended' \in BOOLEAN
    BY <1>8 DEF Tear
  <2>3. rewritten' \in BOOLEAN
    BY <1>1, <1>8 DEF Tear
  <2>4. "out" \in Places /\ "ready" \in Places /\ "out" \notin Holding /\ Torn \in Lines
    BY DEF Places, Holding, Torn, Lines
  <2>5. /\ file' \in Seq(Lines) /\ Len(file') =< MaxLines /\ synced' \in 0 .. Len(file')
        /\ synced' < Len(file') /\ acked' \subseteq Lines
    BY <1>1, <1>5, <1>6, <2>1, <2>4
  <2>6. FileShape'
    BY <2>2, <2>3, <2>5 DEF FileShape
  <2>7. salvage' = [salvage EXCEPT ![p] = salvage[p]]
    BY <1>5, <2>1
  <2>8. CASE Leave(p)
    BY <1>3, <1>4, <1>5, <2>4, <2>6, <2>7, <2>8, StepShape DEF Leave
  <2>9. CASE Goto(p, "ready") /\ UNCHANGED mem
    <3>1. mem' = [mem EXCEPT ![p] = mem[p]] /\ "ready" \notin {"out", "cut", "appended", "written"}
      BY <1>5, <2>9
    <3>2. QED  BY <1>3, <1>4, <1>5, <2>4, <2>6, <2>7, <2>9, <3>1, StepShape
  <2>10. QED  BY <2>1, <2>8, <2>9
<1>9. CASE Sync(p)
  <2>1. /\ "ready" \in Places /\ pc[p] = "written" /\ Goto(p, "ready")
        /\ synced' = Len(file) /\ acked' = acked \cup {mem[p]}
        /\ UNCHANGED <<file, mem, salvage>>
    BY <1>9 DEF Sync, Places
  <2>2. ended' = ended
    BY <1>9 DEF Sync
  <2>3. ended'
    BY <1>3, <2>1, <2>2
  <2>4. ended' \in BOOLEAN
    BY <1>1, <2>2
  <2>5. rewritten' \in BOOLEAN
    BY <1>9 DEF Sync
  <2>6. synced' \in 0 .. Len(file') /\ file' \in Seq(Lines) /\ Len(file') =< MaxLines
    BY <1>1, <2>1
  <2>7. acked' \subseteq Lines
    BY <1>1, <1>5, <2>1
  <2>8. FileShape'
    BY <2>3, <2>4, <2>5, <2>6, <2>7 DEF FileShape
  <2>9. /\ mem' = [mem EXCEPT ![p] = mem[p]] /\ salvage' = [salvage EXCEPT ![p] = salvage[p]]
        /\ "ready" \notin {"out", "cut", "appended", "written"}
    BY <1>5, <2>1
  <2>10. "ready" \in Places /\ Goto(p, "ready")
    BY <2>1
  <2>11. QED  BY <1>3, <1>4, <1>5, <2>8, <2>9, <2>10, StepShape
<1>10. QED  BY <1>7, <1>8, <1>9

\* Dying, and the two halves of a repair.
LEMMA LeaverShape ==
    ASSUME Shape, NEW p \in Procs, Die(p) \/ RepairCut(p) \/ RepairWrite(p) PROVE Shape'
<1>1. /\ file \in Seq(Lines) /\ Len(file) =< MaxLines /\ ended \in BOOLEAN /\ rewritten \in BOOLEAN
      /\ acked \subseteq Lines /\ synced \in 0 .. Len(file) /\ MaxLines \in Nat
  BY BoundAssumption DEF Shape, TypeOK
<1>2. /\ \A q \in Procs : /\ pc[q] = "appended" => Len(file) < MaxLines
                          /\ pc[q] = "written" => ended
      /\ pc[p] = "cut" => Len(salvage[p]) < MaxLines
  BY DEF Shape, OneWriter
<1>3. /\ mem = [mem EXCEPT ![p] = mem[p]] /\ mem[p] \in Lines /\ salvage[p] \in Seq(Lines)
      /\ Genesis \in Lines /\ <<>> \in Seq(Lines)
      /\ pc[p] \in {"out", "cut"} => mem[p] = Genesis
  BY Unmoved DEF Shape, TypeOK
<1>4. "out" \in Places /\ "cut" \in Places /\ "out" \notin Holding /\ "cut" \notin Holding
  BY DEF Places, Holding
<1>5. CASE Die(p)
  <2>1. /\ Goto(p, "out") /\ mem' = [mem EXCEPT ![p] = Genesis]
        /\ salvage' = [salvage EXCEPT ![p] = <<>>] /\ UNCHANGED file
    BY <1>5 DEF Die, Leave
  <2>2. FileShape'
    BY <1>5 DEF Die, Shape, TypeOK, UnendedIsUnsynced, FileShape
  <2>3. ended' = ended
    BY <1>5 DEF Die
  <2>4. \A q \in Procs : pc[q] = "written" => ended'
    BY <1>2, <2>3
  <2>5. \A q \in Procs : pc[q] = "appended" => Len(file') < MaxLines
    BY <1>2, <2>1
  <2>6. QED  BY <1>3, <1>4, <2>1, <2>2, <2>4, <2>5, StepShape
<1>6. CASE RepairCut(p)
  <2>1. /\ pc[p] = "out" /\ file # <<>> /\ Goto(p, "cut")
        /\ salvage' = [salvage EXCEPT ![p] = SubSeq(file, 1, Len(file) - 1)]
        /\ file' = <<>> /\ synced' = 0 /\ UNCHANGED <<mem, acked>>
    BY <1>6 DEF RepairCut, Trimmable
  <2>2. ended'
    BY <1>6 DEF RepairCut
  <2>3. ended' \in BOOLEAN
    BY <1>6 DEF RepairCut
  <2>4. rewritten' \in BOOLEAN
    BY <1>1, <1>6 DEF RepairCut
  <2>5. Len(file) \in Nat \ {0} /\ 0 < MaxLines
    BY <1>1, <2>1
  <2>6. /\ SubSeq(file, 1, Len(file) - 1) \in Seq(Lines)
        /\ Len(SubSeq(file, 1, Len(file) - 1)) = Len(file) - 1
    <3>1. Len(file) - 1 \in 0 .. Len(file)
      BY <2>5
    <3>2. QED  BY <1>1, <3>1, FirstElements
  <2>7. Len(SubSeq(file, 1, Len(file) - 1)) < MaxLines
    BY <1>1, <2>5, <2>6
  <2>8. file' \in Seq(Lines) /\ Len(file') = 0 /\ synced' \in 0 .. Len(file')
    BY <2>1
  <2>9. acked' \subseteq Lines /\ Len(file') =< MaxLines /\ Len(file') < MaxLines
    BY <1>1, <2>1, <2>5, <2>8
  <2>10. FileShape'
    BY <2>2, <2>3, <2>4, <2>8, <2>9 DEF FileShape
  <2>11. mem' = [mem EXCEPT ![p] = Genesis]
    BY <1>3, <2>1
  <2>12. QED  BY <1>3, <1>4, <2>1, <2>2, <2>6, <2>7, <2>9, <2>10, <2>11, StepShape
<1>7. CASE RepairWrite(p)
  <2>1. /\ pc[p] = "cut" /\ Goto(p, "out")
        /\ salvage' = [salvage EXCEPT ![p] = <<>>]
        /\ file' = salvage[p] /\ synced' = 0 /\ UNCHANGED <<mem, acked>>
    BY <1>7 DEF RepairWrite
  <2>2. ended'
    BY <1>7 DEF RepairWrite
  <2>3. ended' \in BOOLEAN
    BY <1>7 DEF RepairWrite
  <2>4. rewritten' \in BOOLEAN
    BY <1>7 DEF RepairWrite
  <2>5. file' \in Seq(Lines) /\ Len(file') < MaxLines
    BY <1>2, <1>3, <2>1
  <2>6. synced' \in 0 .. Len(file') /\ Len(file') =< MaxLines /\ acked' \subseteq Lines
    BY <1>1, <2>1, <2>5
  <2>7. FileShape'
    BY <2>2, <2>3, <2>4, <2>5, <2>6 DEF FileShape
  <2>8. mem[p] = Genesis
    BY <1>3, <2>1
  <2>9. mem' = [mem EXCEPT ![p] = Genesis]
    BY <1>3, <2>1, <2>8
  <2>10. QED  BY <1>3, <1>4, <2>1, <2>2, <2>5, <2>7, <2>9, StepShape
<1>8. QED  BY <1>5, <1>6, <1>7

\* The machine stops: everybody is out, and the lines that are left are on the disk.
LEMMA PowerShape == ASSUME Shape, PowerLoss PROVE Shape'
<1>1. /\ file \in Seq(Lines) /\ Len(file) =< MaxLines /\ ended \in BOOLEAN
      /\ acked \subseteq Lines /\ synced \in 0 .. Len(file) /\ UnendedIsUnsynced /\ MaxLines \in Nat
  BY BoundAssumption DEF Shape, TypeOK
<1>2. PICK k \in synced .. Len(file) : Survives(k)
  BY DEF PowerLoss
<1>3. /\ file' \in Seq(Lines) /\ Len(file') =< Len(file)
      /\ Finished(file', ended') \in synced .. Len(file')
      /\ ~ended' => Finished(file', ended') < Len(file')
  BY <1>1, <1>2, SurvivingLines
<1>4. ended' \in BOOLEAN
  BY <1>1, <1>2, SurvivingLines
<1>5. /\ synced' = Finished(file', ended') /\ acked' = acked
      /\ pc' = [p \in Procs |-> "out"]
      /\ mem' = [p \in Procs |-> Genesis]
      /\ salvage' = [p \in Procs |-> <<>>]
  BY DEF PowerLoss
<1>6. rewritten' \in BOOLEAN
  BY DEF PowerLoss
<1>7. synced' \in 0 .. Len(file') /\ Len(file') =< MaxLines
  BY <1>1, <1>3, <1>5
<1>8. "out" \in Places /\ "out" \notin Holding /\ Genesis \in Lines /\ <<>> \in Seq(Lines)
  BY DEF Places, Holding, Genesis, Lines
<1>9. TypeOK'
  BY <1>1, <1>3, <1>4, <1>5, <1>6, <1>7, <1>8 DEF TypeOK
<1>10. OneWriter'
  BY <1>5, <1>8 DEF OneWriter
<1>11. UnendedIsUnsynced'
  BY <1>3, <1>5 DEF UnendedIsUnsynced
<1>12. QED  BY <1>9, <1>10, <1>11 DEF Shape

\* The system writes the file back.
LEMMA WritebackShape == ASSUME Shape, Writeback PROVE Shape'
<1>1. /\ file \in Seq(Lines) /\ ended \in BOOLEAN /\ synced \in 0 .. Len(file)
      /\ ~ended => synced < Len(file)
  BY DEF Shape, TypeOK, UnendedIsUnsynced
<1>2. synced' = Finished(file, ended) /\ UNCHANGED <<file, pc, mem, salvage, acked>>
  BY DEF Writeback
<1>3. ended' = ended
  BY DEF Writeback
<1>4. rewritten' \in BOOLEAN
  BY DEF Writeback
<1>5. /\ Finished(file, ended) \in 0 .. Len(file)
      /\ ~ended => Finished(file, ended) < Len(file)
  BY <1>1 DEF Finished
<1>6. synced' \in 0 .. Len(file') /\ UnendedIsUnsynced'
  BY <1>2, <1>3, <1>5 DEF UnendedIsUnsynced
<1>7. TypeOK'
  BY <1>2, <1>3, <1>4, <1>6 DEF Shape, TypeOK
<1>8. OneWriter'
  BY <1>2, <1>3 DEF Shape, OneWriter
<1>9. QED  BY <1>6, <1>7, <1>8 DEF Shape

\* Every step keeps the shape.
LEMMA ShapeStep == Shape /\ [Next]_vars => Shape'
<1> SUFFICES ASSUME Shape, [Next]_vars PROVE Shape'
  OBVIOUS
<1>1. CASE UNCHANGED vars
  BY <1>1 DEF vars, Shape, TypeOK, OneWriter, UnendedIsUnsynced
<1>2. CASE Next
  <2>1. ASSUME NEW p \in Procs,
               \/ Read(p) \/ Lock(p) \/ Fail(p) \/ Close(p) \/ \E m \in Payloads : Mint(p, m)
        PROVE Shape'
    BY <2>1, MemoryShape
  <2>2. ASSUME NEW p \in Procs, Write(p) \/ Tear(p) \/ Sync(p) PROVE Shape'
    BY <2>2, WriterShape
  <2>3. ASSUME NEW p \in Procs, Die(p) \/ RepairCut(p) \/ RepairWrite(p) PROVE Shape'
    BY <2>3, LeaverShape
  <2>4. QED  BY <1>2, <2>1, <2>2, <2>3, PowerShape, WritebackShape DEF Next
<1>3. QED  BY <1>1, <1>2

\* The store starts in shape.
LEMMA ShapeInit == Init => Shape
<1> SUFFICES ASSUME Init PROVE Shape
  OBVIOUS
<1>1. "out" \in Places /\ "out" \notin Holding /\ Genesis \in Lines /\ <<>> \in Seq(Lines)
  BY DEF Places, Holding, Genesis, Lines
<1>2. ended
  BY DEF Init
<1>3. TypeOK
  <2>1. /\ file = <<>> /\ synced = 0 /\ acked = {} /\ MaxLines \in Nat
        /\ pc = [p \in Procs |-> "out"]
        /\ mem = [p \in Procs |-> Genesis]
        /\ salvage = [p \in Procs |-> <<>>]
    BY BoundAssumption DEF Init
  <2>2. ended \in BOOLEAN /\ rewritten \in BOOLEAN
    BY DEF Init
  <2>3. QED  BY <1>1, <2>1, <2>2 DEF TypeOK
<1>4. OneWriter
  BY <1>1, <1>2 DEF Init, OneWriter
<1>5. QED  BY <1>2, <1>3, <1>4 DEF Shape, UnendedIsUnsynced

-----------------------------------------------------------------------------
(* Without a repair: what is acknowledged is there, or its loss shows *)

\* Whether a line is broken is between it and the line before it.
LEMMA BrokenStays ==
    ASSUME file \in Seq(Lines), file' \in Seq(Lines),
           NEW i \in 1 .. Len(file), i \in 1 .. Len(file'), \A j \in 1 .. i : file'[j] = file[j],
           Broken(i)
    PROVE  Broken(i)'
<1>1. Tip(SubSeq(file, 1, i - 1)) = IF i = 1 THEN Genesis ELSE file[i - 1]
  BY TipOfPrefix
<1>2. Tip(SubSeq(file', 1, i - 1)) = IF i = 1 THEN Genesis ELSE file'[i - 1]
  BY TipOfPrefix
<1>3. file'[i] = file[i] /\ (i # 1 => file'[i - 1] = file[i - 1])
  OBVIOUS
<1>4. QED  BY <1>1, <1>2, <1>3 DEF Broken

\* A step that leaves the synced lines alone, and after which what has been
\* written is there, keeps what was acknowledged.
LEMMA SyncedStand ==
    ASSUME Shape, Shape', KeptOrBroken, rewritten' = FALSE, \A p \in Procs : pc'[p] # "cut",
           synced =< synced', \A i \in 1 .. synced : file'[i] = file[i], acked' = acked,
           \A p \in Procs : pc'[p] = "written" =>
               \E i \in DOMAIN file' : file'[i] = mem'[p] \/ Broken(i)'
    PROVE  KeptOrBroken'
<1>1. /\ file \in Seq(Lines) /\ file' \in Seq(Lines)
      /\ synced \in 0 .. Len(file) /\ synced' \in 0 .. Len(file')
  BY DEF Shape, TypeOK
<1>2. ASSUME NEW h \in acked PROVE \E i \in 1 .. synced' : file'[i] = h \/ Broken(i)'
  <2>1. PICK i \in 1 .. synced : file[i] = h \/ Broken(i)
    BY <1>2 DEF KeptOrBroken
  <2>2. /\ i \in 1 .. Len(file) /\ i \in 1 .. Len(file') /\ i \in 1 .. synced'
        /\ file'[i] = file[i] /\ \A j \in 1 .. i : file'[j] = file[j]
    BY <1>1, <2>1
  <2>3. Broken(i) => Broken(i)'
    BY <1>1, <2>2, BrokenStays
  <2>4. QED  BY <2>1, <2>2, <2>3
<1>3. QED  BY <1>2 DEF KeptOrBroken, Cutting

\* A step after which nobody has an unsynced write, of the kind above.
LEMMA NobodyWrote ==
    ASSUME Shape, Shape', KeptOrBroken, rewritten' = FALSE, synced =< synced',
           \A i \in 1 .. synced : file'[i] = file[i], acked' = acked,
           \A p \in Procs : pc'[p] # "cut" /\ pc'[p] # "written"
    PROVE  KeptOrBroken'
BY SyncedStand

\* A line appended leaves the synced lines alone, and is there or broken.
LEMMA AddedIsThere ==
    ASSUME Shape, NEW text \in Lines, file' = Added(text)
    PROVE  /\ \A i \in 1 .. synced : file'[i] = file[i]
           /\ \E i \in DOMAIN file' : file'[i] = text \/ Broken(i)'
<1>1. /\ file \in Seq(Lines) /\ synced \in 0 .. Len(file) /\ ended \in BOOLEAN
      /\ ~ended => synced < Len(file)
  BY DEF Shape, TypeOK, UnendedIsUnsynced
<1>2. ~ended => file # <<>>
  BY <1>1
<1>3. CASE ended
  <2>1. /\ Added(text) \in Seq(Lines) /\ Len(Added(text)) = Len(file) + 1
        /\ Added(text)[Len(file) + 1] = text
        /\ \A i \in 1 .. Len(file) : Added(text)[i] = file[i]
    BY <1>1, <1>3, AddedLines
  <2>2. Len(file) + 1 \in DOMAIN file' /\ file'[Len(file) + 1] = text
    BY <1>1, <2>1
  <2>3. \A i \in 1 .. synced : file'[i] = file[i]
    BY <1>1, <2>1
  <2>4. QED  BY <2>2, <2>3
<1>4. CASE ~ended
  <2>1. /\ Added(text) \in Seq(Lines) /\ Len(Added(text)) = Len(file)
        /\ Added(text)[Len(file)] = Torn
        /\ \A i \in 1 .. Len(file) - 1 : Added(text)[i] = file[i]
    BY <1>1, <1>2, <1>4, AddedLines
  <2>2. Len(file) \in Nat \ {0} /\ synced < Len(file)
    BY <1>1, <1>4
  <2>3. PICK n \in DOMAIN file' : n = Len(file) /\ file'[n] = Torn
    BY <2>1, <2>2
  <2>4. Len(file'[n]) # n
    BY <2>2, <2>3 DEF Torn
  <2>5. Broken(n)'
    BY <2>4 DEF Broken
  <2>6. \A i \in 1 .. synced : file'[i] = file[i]
    BY <1>1, <2>1, <2>2
  <2>7. QED  BY <2>3, <2>5, <2>6
<1>5. QED  BY <1>3, <1>4

\* Every step but a repair keeps what was acknowledged, or the line that shows it
\* is lost.
LEMMA KeptStep ==
    ASSUME "repair" \notin Events, Shape, Shape', KeptOrBroken, [Next]_vars
    PROVE  KeptOrBroken'
<1>1. /\ file \in Seq(Lines) /\ synced \in 0 .. Len(file) /\ ended \in BOOLEAN
      /\ pc \in [Procs -> Places] /\ mem \in [Procs -> Lines]
      /\ UnendedIsUnsynced
  BY DEF Shape, TypeOK
<1>2. rewritten = FALSE /\ \A q \in Procs : pc[q] # "cut"
  BY DEF KeptOrBroken, Cutting, Shape, TypeOK
<1>3. \A p, q \in Procs : pc[p] \in Holding /\ pc[q] \in Holding => p = q
  BY DEF Shape, OneWriter
<1>4. ASSUME NEW p \in Procs, NEW place \in {"out", "read", "ready", "appended"}, Goto(p, place),
             NEW x, mem' = [mem EXCEPT ![p] = x], UNCHANGED <<file, synced, acked>>,
             rewritten' = FALSE
      PROVE KeptOrBroken'
  <2>1. \A q \in Procs : pc'[q] # "cut"
    BY <1>1, <1>2, <1>4 DEF Goto
  <2>2. ASSUME NEW q \in Procs, pc'[q] = "written"
        PROVE  \E i \in DOMAIN file' : file'[i] = mem'[q] \/ Broken(i)'
    <3>1. pc[q] = "written" /\ mem'[q] = mem[q]
      BY <1>1, <1>4, <2>2 DEF Goto
    <3>2. PICK i \in DOMAIN file : file[i] = mem[q] \/ Broken(i)
      BY <3>1 DEF KeptOrBroken
    <3>3. file' = file
      BY <1>4
    <3>4. i \in DOMAIN file' /\ (file'[i] = mem'[q] \/ Broken(i)')
      BY <3>1, <3>2, <3>3 DEF Broken
    <3>5. QED  BY <3>4
  <2>3. synced =< synced' /\ (\A i \in 1 .. synced : file'[i] = file[i]) /\ acked' = acked
    BY <1>1, <1>4
  <2>4. QED  BY <1>4, <2>1, <2>2, <2>3, SyncedStand
<1>5. ASSUME NEW p \in Procs,
             Read(p) \/ Lock(p) \/ Fail(p) \/ Close(p) \/ Die(p) \/ \E m \in Payloads : Mint(p, m)
      PROVE KeptOrBroken'
  <2>1. UNCHANGED <<file, synced, acked>>
    BY <1>5 DEF Read, Lock, Fail, Close, Die, Mint
  <2>2. rewritten' = FALSE
    BY <1>2, <1>5 DEF Read, Lock, Fail, Close, Die, Mint
  <2>3. mem = [mem EXCEPT ![p] = mem[p]]
    BY <1>1
  <2>4. \E place \in {"out", "read", "ready", "appended"} :
            Goto(p, place) /\ \E x : mem' = [mem EXCEPT ![p] = x]
    BY <1>5, <2>3 DEF Read, Lock, Fail, Close, Die, Mint, Leave
  <2>5. QED  BY <1>4, <2>1, <2>2, <2>4
<1>6. ASSUME NEW p \in Procs, Write(p) PROVE KeptOrBroken'
  <2>1. /\ pc[p] = "appended" /\ file' = Added(mem[p]) /\ Goto(p, "written")
        /\ UNCHANGED <<synced, mem, acked>>
    BY <1>6 DEF Write
  <2>2. rewritten' = FALSE
    BY <1>2, <1>6 DEF Write
  <2>3. \A q \in Procs : pc'[q] # "cut" /\ (pc'[q] = "written" => q = p)
    BY <1>1, <1>2, <1>3, <2>1 DEF Goto, Holding
  <2>4. /\ \A i \in 1 .. synced : file'[i] = file[i]
        /\ \E i \in DOMAIN file' : file'[i] = mem[p] \/ Broken(i)'
    BY <1>1, <2>1, AddedIsThere
  <2>5. synced =< synced'
    BY <1>1, <2>1
  <2>6. QED  BY <2>1, <2>2, <2>3, <2>4, <2>5, SyncedStand
<1>7. ASSUME NEW p \in Procs, Tear(p) PROVE KeptOrBroken'
  <2>1. /\ pc[p] = "appended"
        /\ file' = Added(Torn) \/ file' = Added(mem[p])
        /\ Goto(p, "out") \/ Goto(p, "ready")
        /\ UNCHANGED <<synced, acked>>
    BY <1>7 DEF Tear, Leave
  <2>2. rewritten' = FALSE
    BY <1>2, <1>7 DEF Tear
  <2>3. \A q \in Procs : pc'[q] # "cut" /\ pc'[q] # "written"
    <3>1. pc'[p] \in {"out", "ready"} /\ \A q \in Procs \ {p} : pc'[q] = pc[q]
      BY <1>1, <2>1 DEF Goto
    <3>2. \A q \in Procs \ {p} : pc[q] # "written"
      BY <1>3, <2>1 DEF Holding
    <3>3. QED  BY <1>2, <3>1, <3>2
  <2>4. Torn \in Lines
    BY DEF Torn, Lines
  <2>5. \A i \in 1 .. synced : file'[i] = file[i]
    BY <1>1, <1>7, <2>4, AddedIsThere DEF Tear
  <2>6. synced =< synced' /\ acked' = acked
    BY <1>1, <2>1
  <2>7. QED  BY <2>2, <2>3, <2>5, <2>6, NobodyWrote
<1>8. ASSUME NEW p \in Procs, Sync(p) PROVE KeptOrBroken'
  <2>1. /\ pc[p] = "written" /\ synced' = Len(file) /\ acked' = acked \cup {mem[p]}
        /\ Goto(p, "ready") /\ file' = file
    BY <1>8 DEF Sync
  <2>2. rewritten' = FALSE
    BY <1>8 DEF Sync
  <2>3. \A q \in Procs : pc'[q] # "cut" /\ pc'[q] # "written"
    BY <1>1, <1>2, <1>3, <2>1 DEF Goto, Holding
  <2>4. ASSUME NEW h \in acked' PROVE \E i \in 1 .. synced' : file'[i] = h \/ Broken(i)'
    <3>1. \E i \in DOMAIN file : file[i] = h \/ Broken(i)
      <4>1. CASE h = mem[p]
        BY <2>1, <4>1 DEF KeptOrBroken
      <4>2. CASE h \in acked
        <5>1. PICK i \in 1 .. synced : file[i] = h \/ Broken(i)
          BY <4>2 DEF KeptOrBroken
        <5>2. i \in DOMAIN file
          BY <1>1
        <5>3. QED  BY <5>1, <5>2
      <4>3. QED  BY <2>1, <2>4, <4>1, <4>2
    <3>2. PICK i \in DOMAIN file : file[i] = h \/ Broken(i)
      BY <3>1
    <3>3. i \in 1 .. synced'
      BY <1>1, <2>1
    <3>4. file'[i] = h \/ Broken(i)'
      BY <2>1, <3>2 DEF Broken
    <3>5. QED  BY <3>3, <3>4
  <2>5. QED  BY <2>2, <2>3, <2>4 DEF KeptOrBroken, Cutting
<1>9. CASE PowerLoss
  <2>1. PICK k \in synced .. Len(file) : Survives(k)
    BY <1>9 DEF PowerLoss
  <2>2. /\ Finished(file', ended') \in synced .. Len(file')
        /\ \A i \in 1 .. synced : file'[i] = file[i]
    BY <1>1, <2>1, SurvivingLines
  <2>3. synced' = Finished(file', ended') /\ acked' = acked /\ pc' = [p \in Procs |-> "out"]
    BY <1>9 DEF PowerLoss
  <2>4. rewritten' = FALSE
    BY <1>9 DEF PowerLoss
  <2>5. synced =< synced' /\ \A q \in Procs : pc'[q] # "cut" /\ pc'[q] # "written"
    BY <1>1, <2>2, <2>3
  <2>6. QED  BY <2>2, <2>3, <2>4, <2>5, NobodyWrote
<1>10. ASSUME NEW p \in Procs, RepairCut(p) \/ RepairWrite(p) PROVE FALSE
  BY <1>2, <1>10 DEF RepairCut, RepairWrite
<1>11. CASE Writeback
  BY <1>2, <1>11 DEF Writeback
<1>12. CASE UNCHANGED vars
  BY <1>12 DEF vars, KeptOrBroken, Cutting, Broken
<1>13. QED  BY <1>5, <1>6, <1>7, <1>8, <1>9, <1>10, <1>11, <1>12 DEF Next

-----------------------------------------------------------------------------
(* With the discipline: one chain, and what was acknowledged is in it *)

\* A chain has no torn tail.
LEMMA LinkedIsWhole ==
    ASSUME NEW lines \in Seq(Lines), Linked(lines)
    PROVE  ~(Tip(lines) = Torn /\ lines # <<>>)
BY LinkedTip DEF Torn, Genesis

\* Lines and a torn tail, and what is left of them without it.
LEMMA TornTail ==
    ASSUME NEW lines \in Seq(Lines)
    PROVE  LET more == Append(lines, Torn)
           IN  Tip(more) = Torn /\ more # <<>> /\ SubSeq(more, 1, Len(more) - 1) = lines /\ more # lines
<1> DEFINE more == Append(lines, Torn)
<1>1. Torn \in Lines
  BY DEF Torn, Lines
<1>2. /\ more \in Seq(Lines) /\ Len(more) = Len(lines) + 1 /\ more[Len(lines) + 1] = Torn
      /\ \A i \in 1 .. Len(lines) : more[i] = lines[i]
  BY <1>1
<1> HIDE DEF more
<1>3. Len(lines) \in Nat /\ Len(lines) \in 0 .. Len(more)
  BY <1>2
<1>4. more # <<>> /\ Tip(more) = Torn /\ more # lines
  BY <1>2, <1>3 DEF Tip
<1>5. /\ SubSeq(more, 1, Len(lines)) \in Seq(Lines) /\ Len(SubSeq(more, 1, Len(lines))) = Len(lines)
      /\ \A i \in 1 .. Len(lines) : SubSeq(more, 1, Len(lines))[i] = lines[i]
  BY <1>2, <1>3, FirstElements
<1>6. SubSeq(more, 1, Len(lines)) = lines
  BY <1>5, SeqEqual
<1>7. SubSeq(more, 1, Len(more) - 1) = lines
  BY <1>2, <1>3, <1>6
<1>8. QED  BY <1>4, <1>7 DEF more

\* What the store is worth, by where it is.
LEMMA WholeIs ==
    ASSUME Shape, OneChain
    PROVE  /\ Whole \in Seq(Lines) /\ Linked(Whole)
           /\ ~Cutting => (ended => Whole = file)
           /\ ~Cutting => (~ended => /\ file # <<>> /\ Tip(file) = Torn
                                     /\ Whole = SubSeq(file, 1, Len(file) - 1)
                                     /\ Len(Whole) = Len(file) - 1)
           /\ \A p \in Procs : pc[p] = "cut" => Whole = salvage[p]
<1>1. /\ file \in Seq(Lines) /\ salvage \in [Procs -> Seq(Lines)] /\ Linked(Whole)
      /\ \A p, q \in Procs : pc[p] # "out" /\ pc[q] # "out" => p = q
      /\ ~Cutting => (ended <=> Whole = file)
  BY DEF Shape, TypeOK, OneChain
<1>2. ASSUME NEW p \in Procs, pc[p] = "cut" PROVE Whole = salvage[p] /\ Cutting
  <2>1. Cutting /\ \A q \in Procs : pc[q] = "cut" => q = p
    BY <1>1, <1>2 DEF Cutting
  <2>2. (CHOOSE q \in Procs : pc[q] = "cut") = p
    BY <1>2, <2>1
  <2>3. QED  BY <2>1, <2>2 DEF Whole
<1>3. CASE Cutting
  BY <1>1, <1>2, <1>3 DEF Cutting
<1>4. CASE ~Cutting
  <2>1. CASE ended
    BY <1>1, <1>2, <1>4, <2>1
  <2>2. CASE ~ended
    <3>1. Tip(file) = Torn /\ file # <<>> /\ Whole = SubSeq(file, 1, Len(file) - 1)
      BY <1>1, <1>4, <2>2 DEF Whole
    <3>2. Len(file) - 1 \in 0 .. Len(file)
      BY <1>1, <3>1
    <3>3. Whole \in Seq(Lines) /\ Len(Whole) = Len(file) - 1
      BY <1>1, <3>1, <3>2, FirstElements
    <3>4. QED  BY <1>1, <1>2, <1>4, <2>2, <3>1, <3>3
  <2>3. QED  BY <2>1, <2>2
<1>5. QED  BY <1>3, <1>4

\* When nobody has cut the file, a file that is a chain is the whole of it ...
LEMMA WholeFile ==
    ASSUME file' \in Seq(Lines), Linked(file'), \A p \in Procs : pc'[p] # "cut"
    PROVE  Whole' = file'
BY LinkedIsWhole DEF Whole, Cutting

\* ... and a file that is a chain and a torn tail is worth the chain.
LEMMA WholeTorn ==
    ASSUME NEW lines \in Seq(Lines), file' = Append(lines, Torn), \A p \in Procs : pc'[p] # "cut"
    PROVE  Whole' = lines /\ Whole' # file'
BY TornTail DEF Whole, Cutting

\* A step that leaves the file alone leaves what it is worth.
LEMMA WholeStays ==
    ASSUME ~Cutting, file' = file, \A p \in Procs : pc'[p] # "cut"
    PROVE  Whole' = Whole
BY DEF Whole, Cutting

\* After a step of process p, the others being out, the chain is whole.
LEMMA ChainAgain ==
    ASSUME NEW p \in Procs, \A q \in Procs \ {p} : pc'[q] = "out", pc'[p] # "cut",
           Linked(Whole'), ended' <=> Whole' = file',
           pc'[p] # "out" => ended',
           pc'[p] \in {"read", "ready", "written"} => mem'[p] = Tip(file'),
           pc'[p] = "written" => file' # <<>>,
           pc'[p] = "appended" => /\ Len(mem'[p]) = Len(file') + 1
                                  /\ SubSeq(mem'[p], 1, Len(file')) = Tip(file')
    PROVE  OneChain'
<1>1. ~Cutting'
  BY DEF Cutting
<1>2. \A q, r \in Procs : pc'[q] # "out" /\ pc'[r] # "out" => q = r
  OBVIOUS
<1>3. \A q \in Procs :
          /\ pc'[q] \notin {"out", "cut"} => ended'
          /\ pc'[q] \in {"read", "ready", "written"} => mem'[q] = Tip(file')
          /\ pc'[q] = "written" => file' # <<>>
          /\ pc'[q] = "appended" => /\ Len(mem'[q]) = Len(file') + 1
                                    /\ SubSeq(mem'[q], 1, Len(file')) = Tip(file')
  OBVIOUS
<1>4. QED  BY <1>1, <1>2, <1>3 DEF OneChain

\* What was acknowledged stays in it, and synced, when the file, the synced count
\* and the acknowledgements stand.
LEMMA AckedAgain ==
    ASSUME AckedInChain, ~Cutting, Whole' = Whole, acked' = acked, file' = file,
           synced' = synced, rewritten' = rewritten
    PROVE  AckedInChain'
BY DEF AckedInChain, Elements

\* The invariant under the discipline.
Chained == Shape /\ OneChain /\ AckedInChain

\* The mishaps the discipline excludes.
LEMMA Excluded ==
    ASSUME Discipline
    PROVE  /\ "overlap" \notin Events /\ "error" \notin Events /\ "text" \notin Events
           /\ "repair-interrupted" \notin Events
BY DEF Discipline

\* Whoever is on the file is alone on it.
LEMMA OthersOut ==
    ASSUME Discipline, OneChain, NEW p \in Procs, pc[p] # "out" \/ Alone(p)
    PROVE  \A q \in Procs \ {p} : pc[q] = "out"
BY Excluded DEF OneChain, Alone

\* Opening, locking, minting, closing and dying leave the chain alone.
LEMMA MemoryChain ==
    ASSUME Discipline, Chained, NEW p \in Procs,
           \/ Read(p) \/ Lock(p) \/ Close(p) \/ Die(p) \/ \E m \in Payloads : Mint(p, m)
    PROVE  OneChain' /\ AckedInChain' /\ Whole' = Whole /\ acked' = acked
<1>1. /\ file \in Seq(Lines) /\ pc \in [Procs -> Places] /\ mem \in [Procs -> Lines]
      /\ mem[p] \in Lines
  BY DEF Chained, Shape, TypeOK
<1>2. /\ file' = file /\ synced' = synced /\ acked' = acked
      /\ pc[p] # "out" \/ Alone(p)
  BY DEF Read, Lock, Close, Die, Mint
<1>3. ended' = ended
  BY DEF Read, Lock, Close, Die, Mint
<1>4. rewritten' = rewritten
  BY DEF Read, Lock, Close, Die, Mint
<1>5. pc[p] # "cut"
  BY Excluded DEF Read, Lock, Close, Die, Mint
<1>6. \A q \in Procs \ {p} : pc[q] = "out"
  BY <1>2, OthersOut DEF Chained
<1>7. ~Cutting
  BY <1>5, <1>6 DEF Cutting
<1>8. Whole \in Seq(Lines) /\ Linked(Whole) /\ (ended <=> Whole = file)
  BY <1>7, WholeIs DEF Chained, OneChain
<1>9. \A place : Goto(p, place) => pc'[p] = place /\ \A q \in Procs \ {p} : pc'[q] = "out"
  BY <1>1, <1>6 DEF Goto
<1>10. \A x : mem' = [mem EXCEPT ![p] = x] => mem'[p] = x
  BY <1>1
<1>11. /\ pc[p] \in {"read", "ready"} => ended /\ mem[p] = Tip(file)
  BY DEF Chained, OneChain
<1>12. ASSUME pc'[p] # "cut", \A q \in Procs \ {p} : pc'[q] = "out"
       PROVE  /\ Linked(Whole') /\ (ended' <=> Whole' = file') /\ Whole' = Whole
              /\ AckedInChain'
  <2>1. Whole' = Whole
    BY <1>2, <1>7, <1>12, WholeStays
  <2>2. AckedInChain'
    BY <1>2, <1>4, <1>7, <2>1, AckedAgain DEF Chained
  <2>3. QED  BY <1>2, <1>3, <1>8, <2>1, <2>2
<1>13. CASE Read(p)
  <2>1. /\ pc'[p] = "read" /\ (\A q \in Procs \ {p} : pc'[q] = "out")
        /\ mem'[p] = Tip(file) /\ Verifies(file)
    BY <1>9, <1>10, <1>13 DEF Read
  <2>2. ~(Tip(file) = Torn /\ file # <<>>)
    <3>1. SUFFICES ASSUME Tip(file) = Torn, file # <<>> PROVE FALSE
      OBVIOUS
    <3>2. Len(file) \in DOMAIN file /\ Len(file) # 0 /\ file[Len(file)] = Torn
      BY <1>1, <3>1 DEF Tip
    <3>3. QED  BY <2>1, <3>2 DEF Verifies, Torn
  <2>3. ended
    BY <1>7, <2>2, WholeIs DEF Chained
  <2>4. ended'
    BY <1>3, <2>3
  <2>5. QED  BY <1>2, <1>12, <2>1, <2>4, ChainAgain
<1>14. CASE Lock(p)
  <2>1. ~\E q \in Procs : pc[q] \in Holding
    BY <1>6, <1>14 DEF Lock, Holding
  <2>2. /\ pc[p] = "read" /\ mem' = mem
        /\ pc'[p] = "ready" /\ (\A q \in Procs \ {p} : pc'[q] = "out")
    BY <1>9, <1>14, <2>1 DEF Lock
  <2>3. ended'
    BY <1>3, <1>11, <2>2
  <2>4. mem'[p] = Tip(file')
    BY <1>2, <1>11, <2>2
  <2>5. QED  BY <1>2, <1>12, <2>2, <2>3, <2>4, ChainAgain
<1>15. CASE Close(p) \/ Die(p)
  <2>1. pc'[p] = "out" /\ (\A q \in Procs \ {p} : pc'[q] = "out")
    BY <1>9, <1>15 DEF Close, Die, Leave
  <2>2. QED  BY <1>2, <1>12, <2>1, ChainAgain
<1>16. ASSUME NEW m \in Payloads, Mint(p, m)
       PROVE  OneChain' /\ AckedInChain' /\ Whole' = Whole /\ acked' = acked
  <2>1. /\ pc[p] = "ready" /\ mem'[p] = Append(mem[p], m)
        /\ pc'[p] = "appended" /\ (\A q \in Procs \ {p} : pc'[q] = "out")
    BY <1>9, <1>10, <1>16 DEF Mint
  <2>2. ended /\ mem[p] = Tip(file)
    BY <1>11, <2>1
  <2>3. ended'
    BY <1>3, <2>2
  <2>4. Len(mem[p]) = Len(file)
    BY <1>1, <1>8, <2>2, LinkedTip
  <2>5. /\ Append(mem[p], m) \in Seq(Payloads)
        /\ Len(Append(mem[p], m)) = Len(file) + 1
        /\ SubSeq(Append(mem[p], m), 1, Len(file)) = mem[p]
    <3>1. mem[p] \in Seq(Payloads) /\ Len(file) \in Nat
      BY <1>1 DEF Lines
    <3>2. /\ Append(mem[p], m) \in Seq(Payloads) /\ Len(Append(mem[p], m)) = Len(file) + 1
          /\ \A i \in 1 .. Len(file) : Append(mem[p], m)[i] = mem[p][i]
      BY <2>4, <3>1
    <3>3. /\ SubSeq(Append(mem[p], m), 1, Len(file)) \in Seq(Payloads)
          /\ Len(SubSeq(Append(mem[p], m), 1, Len(file))) = Len(file)
          /\ \A i \in 1 .. Len(file) : SubSeq(Append(mem[p], m), 1, Len(file))[i] = mem[p][i]
      BY <3>1, <3>2, FirstElements
    <3>4. QED  BY <2>4, <3>1, <3>2, <3>3, SeqEqual
  <2>6. Len(mem'[p]) = Len(file') + 1 /\ SubSeq(mem'[p], 1, Len(file')) = Tip(file')
    BY <1>2, <2>1, <2>2, <2>5
  <2>7. QED  BY <1>2, <1>12, <2>1, <2>3, <2>6, ChainAgain
<1>17. QED  BY <1>13, <1>14, <1>15, <1>16

\* Writing appends the record to the chain.
LEMMA WriteChain ==
    ASSUME Discipline, Chained, NEW p \in Procs, Write(p)
    PROVE  /\ OneChain' /\ AckedInChain' /\ acked' = acked
           /\ \E m \in Payloads : Tip(Whole') = Append(Tip(Whole), m)
<1>1. /\ file \in Seq(Lines) /\ pc \in [Procs -> Places] /\ mem[p] \in Lines
      /\ synced \in 0 .. Len(file)
  BY DEF Chained, Shape, TypeOK
<1>2. /\ pc[p] = "appended" /\ file' = Added(mem[p]) /\ Goto(p, "written")
      /\ mem' = mem /\ synced' = synced /\ acked' = acked
  BY DEF Write
<1>3. ended' /\ (rewritten' <=> rewritten)
  BY DEF Write
<1>4. \A q \in Procs \ {p} : pc[q] = "out"
  BY <1>2, OthersOut DEF Chained
<1>5. /\ pc'[p] = "written" /\ (\A q \in Procs \ {p} : pc'[q] = "out") /\ ~Cutting
  BY <1>1, <1>2, <1>4 DEF Goto, Cutting
<1>6. ended /\ Len(mem[p]) = Len(file) + 1 /\ SubSeq(mem[p], 1, Len(file)) = Tip(file)
  BY <1>2 DEF Chained, OneChain
<1>7. Whole = file /\ Linked(file)
  BY <1>5, <1>6, WholeIs DEF Chained
<1>8. file' = Append(file, mem[p])
  BY <1>2, <1>6 DEF Added
<1>9. file' \in Seq(Lines) /\ Linked(file') /\ Tip(file') = mem[p]
  BY <1>1, <1>6, <1>7, <1>8, LinkedAppend
<1>10. Whole' = file'
  BY <1>5, <1>9, WholeFile
<1>11. /\ Len(file') = Len(file) + 1 /\ \A i \in 1 .. Len(file) : file'[i] = file[i]
  BY <1>1, <1>8
<1>12. OneChain'
  <2>1. file' # <<>> /\ mem'[p] = Tip(file')
    BY <1>1, <1>2, <1>9, <1>11
  <2>2. Linked(Whole') /\ (ended' <=> Whole' = file')
    BY <1>3, <1>9, <1>10
  <2>3. QED  BY <1>3, <1>5, <2>1, <2>2, ChainAgain
<1>13. AckedInChain'
  <2>1. Elements(Whole) \subseteq Elements(Whole')
    BY <1>1, <1>7, <1>10, <1>11 DEF Elements
  <2>2. {file[i] : i \in 1 .. synced} = {file'[i] : i \in 1 .. synced'}
    BY <1>1, <1>2, <1>11
  <2>3. /\ acked \subseteq Elements(Whole)
        /\ ~rewritten => acked \subseteq {file[i] : i \in 1 .. synced}
        /\ acked # {} => \E h \in acked : \A g \in acked : Len(g) =< Len(h)
    BY <1>5 DEF Chained, AckedInChain
  <2>4. acked' \subseteq Elements(Whole')
    BY <1>2, <2>1, <2>3
  <2>5. ~rewritten' => acked' \subseteq {file'[i] : i \in 1 .. synced'}
    BY <1>2, <1>3, <2>2, <2>3
  <2>6. acked' # {} => \E h \in acked' : \A g \in acked' : Len(g) =< Len(h)
    BY <1>2, <2>3
  <2>7. QED  BY <2>4, <2>5, <2>6 DEF AckedInChain
<1>14. \E m \in Payloads : mem[p] = Append(Tip(file), m)
  <2>1. mem[p] \in Seq(Payloads) /\ mem[p] # <<>> /\ Len(file) \in Nat /\ Len(file) = Len(mem[p]) - 1
    BY <1>1, <1>6 DEF Lines
  <2>2. mem[p][Len(mem[p])] \in Payloads
    BY <2>1
  <2>3. mem[p] = Append(SubSeq(mem[p], 1, Len(mem[p]) - 1), mem[p][Len(mem[p])])
    BY <2>1
  <2>4. QED  BY <1>6, <2>1, <2>2, <2>3
<1>15. QED  BY <1>2, <1>7, <1>9, <1>10, <1>12, <1>13, <1>14

\* A write that stops short leaves a torn tail, and its process dies with it.
LEMMA TearChain ==
    ASSUME Discipline, Chained, NEW p \in Procs, Tear(p)
    PROVE  OneChain' /\ AckedInChain' /\ Whole' = Whole /\ acked' = acked
<1>1. /\ file \in Seq(Lines) /\ pc \in [Procs -> Places] /\ synced \in 0 .. Len(file)
  BY DEF Chained, Shape, TypeOK
<1>2. /\ pc[p] = "appended" /\ file' = Added(Torn) /\ Goto(p, "out")
      /\ synced' = synced /\ acked' = acked
  BY Excluded DEF Tear, Leave
<1>3. ~ended' /\ (rewritten' <=> rewritten)
  BY DEF Tear
<1>4. \A q \in Procs \ {p} : pc[q] = "out"
  BY <1>2, OthersOut DEF Chained
<1>5. /\ pc'[p] = "out" /\ (\A q \in Procs \ {p} : pc'[q] = "out") /\ ~Cutting
      /\ \A q \in Procs : pc'[q] # "cut"
  BY <1>1, <1>2, <1>4 DEF Goto, Cutting
<1>6. ended
  BY <1>2 DEF Chained, OneChain
<1>7. Whole = file /\ Linked(file)
  BY <1>5, <1>6, WholeIs DEF Chained
<1>8. file' = Append(file, Torn)
  BY <1>2, <1>6 DEF Added
<1>9. Whole' = file /\ Whole' # file'
  BY <1>1, <1>5, <1>8, WholeTorn
<1>10. OneChain'
  BY <1>3, <1>5, <1>7, <1>9, ChainAgain
<1>11. AckedInChain'
  <2>1. {file[i] : i \in 1 .. synced} = {file'[i] : i \in 1 .. synced'}
    <3>1. Torn \in Lines
      BY DEF Torn, Lines
    <3>2. \A i \in 1 .. Len(file) : file'[i] = file[i]
      BY <1>1, <1>8, <3>1
    <3>3. QED  BY <1>1, <1>2, <3>2
  <2>2. /\ acked \subseteq Elements(Whole)
        /\ ~rewritten => acked \subseteq {file[i] : i \in 1 .. synced}
        /\ acked # {} => \E h \in acked : \A g \in acked : Len(g) =< Len(h)
    BY <1>5 DEF Chained, AckedInChain
  <2>3. acked' \subseteq Elements(Whole')
    BY <1>2, <1>7, <1>9, <2>2
  <2>4. ~rewritten' => acked' \subseteq {file'[i] : i \in 1 .. synced'}
    BY <1>2, <1>3, <2>1, <2>2
  <2>5. acked' # {} => \E h \in acked' : \A g \in acked' : Len(g) =< Len(h)
    BY <1>2, <2>2
  <2>6. QED  BY <2>3, <2>4, <2>5 DEF AckedInChain
<1>12. QED  BY <1>2, <1>7, <1>9, <1>10, <1>11

\* fsync acknowledges the tip of the chain.
LEMMA SyncChain ==
    ASSUME Discipline, Chained, NEW p \in Procs, Sync(p)
    PROVE  /\ OneChain' /\ AckedInChain' /\ Whole' = Whole
           /\ Tip(Whole) \in acked' /\ \A g \in acked' : Len(g) =< Len(Tip(Whole))
<1>1. /\ file \in Seq(Lines) /\ pc \in [Procs -> Places] /\ synced \in 0 .. Len(file)
  BY DEF Chained, Shape, TypeOK
<1>2. /\ pc[p] = "written" /\ file' = file /\ Goto(p, "ready") /\ mem' = mem
      /\ synced' = Len(file) /\ acked' = acked \cup {mem[p]}
  BY DEF Sync
<1>3. ended' = ended
  BY DEF Sync
<1>4. \A q \in Procs \ {p} : pc[q] = "out"
  BY <1>2, OthersOut DEF Chained
<1>5. /\ pc'[p] = "ready" /\ (\A q \in Procs \ {p} : pc'[q] = "out") /\ ~Cutting
      /\ \A q \in Procs : pc'[q] # "cut"
  BY <1>1, <1>2, <1>4 DEF Goto, Cutting
<1>6. ended /\ mem[p] = Tip(file) /\ file # <<>>
  BY <1>2 DEF Chained, OneChain
<1>7. Whole = file /\ Linked(file)
  BY <1>5, <1>6, WholeIs DEF Chained
<1>8. Whole' = Whole
  BY <1>2, <1>5, WholeStays
<1>9. OneChain'
  <2>1. ended' /\ mem'[p] = Tip(file') /\ file' # <<>> /\ Linked(Whole') /\ Whole' = file'
    BY <1>2, <1>3, <1>6, <1>7, <1>8
  <2>2. ended' <=> Whole' = file'
    BY <2>1
  <2>3. QED  BY <1>5, <2>1, <2>2, ChainAgain
<1>10. Tip(file) = file[Len(file)] /\ Len(file) \in 1 .. Len(file) /\ Len(Tip(file)) = Len(file)
  BY <1>1, <1>6, <1>7, LinkedTip
<1>11. acked' \subseteq {file[i] : i \in 1 .. Len(file)}
  BY <1>1, <1>2, <1>6, <1>7, <1>10 DEF Chained, AckedInChain, Elements
<1>12. \A g \in acked' : Len(g) =< Len(Tip(file))
  <2>1. ASSUME NEW g \in acked' PROVE Len(g) =< Len(Tip(file))
    <3>1. PICK i \in 1 .. Len(file) : g = file[i]
      BY <1>11
    <3>2. Len(g) = i
      BY <1>1, <1>7, <3>1 DEF Linked
    <3>3. QED  BY <1>1, <1>10, <3>2
  <2>2. QED  BY <2>1
<1>13. AckedInChain'
  <2>1. acked' \subseteq Elements(Whole')
    BY <1>1, <1>7, <1>8, <1>11 DEF Elements
  <2>2. acked' \subseteq {file'[i] : i \in 1 .. synced'}
    BY <1>2, <1>11
  <2>3. Tip(file) \in acked'
    BY <1>2, <1>6
  <2>4. QED  BY <1>12, <2>1, <2>2, <2>3 DEF AckedInChain
<1>14. QED  BY <1>2, <1>6, <1>7, <1>8, <1>9, <1>12, <1>13

\* A repair cuts the torn tail off: what it holds is what the file was worth.
LEMMA CutChain ==
    ASSUME Discipline, Chained, NEW p \in Procs, RepairCut(p)
    PROVE  OneChain' /\ AckedInChain' /\ Whole' = Whole /\ acked' = acked
<1>1. /\ file \in Seq(Lines) /\ pc \in [Procs -> Places] /\ salvage \in [Procs -> Seq(Lines)]
      /\ mem \in [Procs -> Lines]
  BY DEF Chained, Shape, TypeOK
<1>2. /\ pc[p] = "out" /\ Alone(p) /\ Tip(file) = Torn /\ file # <<>> /\ Goto(p, "cut")
      /\ salvage' = [salvage EXCEPT ![p] = SubSeq(file, 1, Len(file) - 1)]
      /\ file' = <<>> /\ synced' = 0 /\ mem' = mem /\ acked' = acked
  BY DEF RepairCut, Trimmable
<1>3. ended'
  BY DEF RepairCut
<1>4. \A q \in Procs \ {p} : pc[q] = "out"
  BY <1>2, OthersOut DEF Chained
<1>5. /\ pc'[p] = "cut" /\ (\A q \in Procs \ {p} : pc'[q] = "out") /\ ~Cutting /\ Cutting'
  BY <1>1, <1>2, <1>4 DEF Goto, Cutting
<1>6. Whole = SubSeq(file, 1, Len(file) - 1)
  BY <1>2, <1>5 DEF Whole
<1>7. Whole' = SubSeq(file, 1, Len(file) - 1)
  <2>1. salvage'[p] = SubSeq(file, 1, Len(file) - 1)
    BY <1>1, <1>2
  <2>2. (CHOOSE q \in Procs : pc'[q] = "cut") = p
    BY <1>5
  <2>3. QED  BY <1>5, <2>1, <2>2 DEF Whole
<1>8. OneChain'
  <2>1. \A q, r \in Procs : pc'[q] # "out" /\ pc'[r] # "out" => q = r
    BY <1>5
  <2>2. Linked(Whole')
    BY <1>6, <1>7 DEF Chained, OneChain
  <2>3. \A q \in Procs : pc'[q] \in {"out", "cut"}
    BY <1>5
  <2>4. \A q \in Procs : pc'[q] \notin {"read", "ready", "written", "appended"}
    BY <2>3
  <2>5. QED  BY <1>2, <1>3, <1>5, <2>1, <2>2, <2>3, <2>4 DEF OneChain
<1>9. AckedInChain'
  BY <1>2, <1>5, <1>6, <1>7 DEF Chained, AckedInChain
<1>10. QED  BY <1>2, <1>6, <1>7, <1>8, <1>9

\* ... and writes it down again.
LEMMA WriteBackChain ==
    ASSUME Discipline, Chained, NEW p \in Procs, RepairWrite(p)
    PROVE  OneChain' /\ AckedInChain' /\ Whole' = Whole /\ acked' = acked
<1>1. pc \in [Procs -> Places] /\ salvage \in [Procs -> Seq(Lines)]
  BY DEF Chained, Shape, TypeOK
<1>2. /\ pc[p] = "cut" /\ file' = salvage[p] /\ Goto(p, "out") /\ acked' = acked
  BY DEF RepairWrite
<1>3. ended' /\ rewritten'
  BY DEF RepairWrite
<1>4. \A q \in Procs \ {p} : pc[q] = "out"
  BY <1>2, OthersOut DEF Chained
<1>5. /\ pc'[p] = "out" /\ (\A q \in Procs \ {p} : pc'[q] = "out")
      /\ \A q \in Procs : pc'[q] # "cut"
  BY <1>1, <1>2, <1>4 DEF Goto
<1>6. Whole = salvage[p] /\ Linked(salvage[p]) /\ salvage[p] \in Seq(Lines)
  BY <1>2, WholeIs DEF Chained
<1>7. Whole' = file'
  BY <1>2, <1>5, <1>6, WholeFile
<1>8. OneChain'
  <2>1. Linked(Whole') /\ (ended' <=> Whole' = file')
    BY <1>2, <1>3, <1>6, <1>7
  <2>2. QED  BY <1>5, <2>1, ChainAgain
<1>9. AckedInChain'
  BY <1>2, <1>3, <1>6, <1>7 DEF Chained, AckedInChain
<1>10. QED  BY <1>2, <1>6, <1>7, <1>8, <1>9

\* Written back by the system, every line with its newline is synced.
LEMMA WritebackChain ==
    ASSUME Discipline, Chained, Writeback
    PROVE  OneChain' /\ AckedInChain' /\ Whole' = Whole /\ acked' = acked
<1>1. file \in Seq(Lines) /\ synced \in 0 .. Len(file)
  BY DEF Chained, Shape, TypeOK
<1>2. /\ synced' = Finished(file, ended)
      /\ file' = file /\ pc' = pc /\ mem' = mem /\ salvage' = salvage /\ acked' = acked
  BY DEF Writeback
<1>3. ended' = ended
  BY DEF Writeback
<1>4. Whole' = Whole /\ Cutting' = Cutting
  BY <1>2 DEF Whole, Cutting
<1>5. OneChain'
  <2>1. Cutting => synced' = 0
    <3>1. Cutting => file = <<>> /\ ended
      BY DEF Chained, OneChain
    <3>2. QED  BY <1>2, <3>1 DEF Finished
  <2>2. QED  BY <1>2, <1>3, <1>4, <2>1 DEF Chained, OneChain
<1>6. AckedInChain'
  <2>1. acked \subseteq Elements(Whole)
    BY DEF Chained, AckedInChain
  <2>2. ~Cutting => Elements(Whole) \subseteq {file[i] : i \in 1 .. Finished(file, ended)}
    <3>1. SUFFICES ASSUME ~Cutting PROVE Elements(Whole) \subseteq {file[i] : i \in 1 .. Finished(file, ended)}
      OBVIOUS
    <3>2. CASE ended
      <4>1. Whole = file
        BY <3>1, <3>2, WholeIs DEF Chained
      <4>2. QED  BY <1>1, <3>2, <4>1 DEF Elements, Finished
    <3>3. CASE ~ended
      <4>1. Whole = SubSeq(file, 1, Len(file) - 1) /\ file # <<>>
        BY <3>1, <3>3, WholeIs DEF Chained
      <4>2. Len(file) - 1 \in 0 .. Len(file)
        BY <1>1, <4>1
      <4>3. /\ Len(Whole) = Len(file) - 1 /\ Whole \in Seq(Lines)
            /\ \A i \in 1 .. Len(file) - 1 : Whole[i] = file[i]
        BY <1>1, <4>1, <4>2, FirstElements
      <4>4. QED  BY <3>3, <4>3 DEF Elements, Finished
    <3>4. QED  BY <3>2, <3>3
  <2>3. acked # {} => \E h \in acked : \A g \in acked : Len(g) =< Len(h)
    BY DEF Chained, AckedInChain
  <2>4. QED  BY <1>2, <1>4, <2>1, <2>2, <2>3 DEF AckedInChain
<1>7. QED  BY <1>2, <1>4, <1>5, <1>6

\* With everybody out, the chain is whole.
LEMMA ChainAlone ==
    ASSUME \A q \in Procs : pc'[q] = "out", Linked(Whole'), ended' <=> Whole' = file'
    PROVE  OneChain'
<1>1. ~Cutting'
  BY DEF Cutting
<1>2. QED  BY <1>1 DEF OneChain

\* A power loss leaves a prefix of the chain, with what was acknowledged.
LEMMA PowerChain ==
    ASSUME Discipline, Chained, Shape', PowerLoss
    PROVE  /\ OneChain' /\ AckedInChain' /\ acked' = acked
           /\ \E j \in 0 .. Len(Whole) : /\ Whole' = SubSeq(Whole, 1, j)
                                         /\ \A h \in acked : Len(h) =< j
<1>1. /\ file \in Seq(Lines) /\ synced \in 0 .. Len(file) /\ ended \in BOOLEAN
      /\ ~ended => synced < Len(file) /\ UnendedIsUnsynced
  BY DEF Chained, Shape, TypeOK, UnendedIsUnsynced
<1>2. UnendedIsUnsynced
  BY DEF Chained, Shape
<1>3. ~Cutting /\ ~rewritten
  BY Excluded DEF PowerLoss, Cutting
<1>4. PICK k \in synced .. Len(file) : Survives(k)
  BY DEF PowerLoss
<1>5. acked' = acked /\ synced' = Finished(file', ended') /\ \A q \in Procs : pc'[q] = "out"
  BY DEF PowerLoss
<1>6. \A q \in Procs : pc'[q] # "cut"
  BY <1>5
<1>7. /\ Whole \in Seq(Lines) /\ Linked(Whole)
      /\ ended => Whole = file
      /\ ~ended => Whole = SubSeq(file, 1, Len(file) - 1) /\ Len(Whole) = Len(file) - 1
  BY <1>3, WholeIs DEF Chained
<1>8. Len(Whole) \in Nat /\ Len(Whole) =< Len(file) /\ synced =< Len(Whole)
  BY <1>1, <1>7
<1>9. ASSUME NEW j \in 0 .. Len(Whole)
      PROVE  /\ SubSeq(file, 1, j) = SubSeq(Whole, 1, j)
             /\ SubSeq(file, 1, j) \in Seq(Lines) /\ Linked(SubSeq(file, 1, j))
  <2>1. SubSeq(file, 1, j) = SubSeq(Whole, 1, j)
    <3>1. CASE ended
      BY <1>7, <3>1
    <3>2. CASE ~ended
      <4>1. Len(file) - 1 \in 0 .. Len(file) /\ j \in 0 .. Len(file) - 1
        BY <1>1, <1>7, <1>9, <3>2
      <4>2. QED  BY <1>1, <1>7, <3>2, <4>1, PrefixOfPrefix
    <3>3. QED  BY <3>1, <3>2
  <2>2. QED  BY <1>7, <1>9, <2>1, LinkedPrefix
<1>10. \E j \in synced .. Len(Whole) :
           /\ Whole' = SubSeq(file, 1, j) /\ (ended' <=> Whole' = file')
  <2>1. CASE k = Len(file) /\ ~ended
    <3>1. file' = SubSeq(file, 1, k) /\ ~ended'
      BY <1>1, <1>4, <2>1 DEF Survives
    <3>2. file' = file
      BY <1>1, <2>1, <3>1
    <3>3. Whole' = Whole
      BY <1>3, <1>6, <3>2, WholeStays
    <3>4. Whole # file
      BY <1>3, <2>1 DEF Chained, OneChain
    <3>5. Whole' = SubSeq(file, 1, Len(Whole))
      BY <1>7, <2>1, <3>3
    <3>6. Len(Whole) \in synced .. Len(Whole)
      BY <1>1, <1>8
    <3>7. QED  BY <3>1, <3>2, <3>3, <3>4, <3>5, <3>6
  <2>2. CASE ~(k = Len(file) /\ ~ended)
    <3>1. k \in synced .. Len(Whole) /\ k \in 0 .. Len(Whole)
      BY <1>1, <1>7, <1>8, <2>2
    <3>2. CASE file' = SubSeq(file, 1, k) /\ ended'
      <4>1. Whole' = file'
        BY <1>6, <1>9, <3>1, <3>2, WholeFile
      <4>2. QED  BY <3>1, <3>2, <4>1
    <3>3. CASE file' = Append(SubSeq(file, 1, k), Torn) /\ ~ended'
      <4>1. Whole' = SubSeq(file, 1, k) /\ Whole' # file'
        BY <1>6, <1>9, <3>1, <3>3, WholeTorn
      <4>2. QED  BY <3>1, <3>3, <4>1
    <3>4. \/ file' = SubSeq(file, 1, k) /\ ended'
          \/ file' = Append(SubSeq(file, 1, k), Torn) /\ ~ended'
      BY <1>4, <2>2, Excluded DEF Survives
    <3>5. QED  BY <3>2, <3>3, <3>4
  <2>3. QED  BY <2>1, <2>2
<1>11. PICK j \in synced .. Len(Whole) : /\ Whole' = SubSeq(file, 1, j)
                                         /\ ended' <=> Whole' = file'
  BY <1>10
<1>12. j \in 0 .. Len(Whole) /\ synced =< j /\ j =< Len(file) /\ j \in 0 .. Len(file)
  BY <1>1, <1>8
<1>13. Whole' = SubSeq(Whole, 1, j) /\ Linked(Whole')
  BY <1>9, <1>11, <1>12
<1>14. OneChain'
  BY <1>5, <1>11, <1>13, ChainAlone
<1>15. /\ acked \subseteq {file[i] : i \in 1 .. synced}
       /\ acked # {} => \E h \in acked : \A g \in acked : Len(g) =< Len(h)
  BY <1>3 DEF Chained, AckedInChain
<1>16. Len(Whole') = j /\ \A i \in 1 .. j : Whole'[i] = file[i]
  BY <1>1, <1>11, <1>12, FirstElements
<1>17. AckedInChain'
  <2>1. acked' \subseteq Elements(Whole')
    BY <1>1, <1>5, <1>12, <1>15, <1>16 DEF Elements
  <2>2. /\ synced' \in synced .. Len(file') /\ file' \in Seq(Lines)
        /\ \A i \in 1 .. synced : file'[i] = file[i]
    BY <1>1, <1>2, <1>4, <1>5, SurvivingLines
  <2>3. acked' \subseteq {file'[i] : i \in 1 .. synced'}
    BY <1>1, <1>5, <1>15, <2>2
  <2>4. acked' # {} => \E h \in acked' : \A g \in acked' : Len(g) =< Len(h)
    BY <1>5, <1>15
  <2>5. QED  BY <2>1, <2>3, <2>4 DEF AckedInChain
<1>18. ASSUME NEW h \in acked PROVE Len(h) =< j
  <2>1. PICK i \in 1 .. synced : h = file[i]
    BY <1>15
  <2>2. i \in 1 .. j /\ h = Whole'[i] /\ i \in DOMAIN Whole'
    BY <1>1, <1>12, <1>13, <1>16, <2>1, <1>9, <1>11
  <2>3. Len(h) = i
    BY <1>13, <2>2 DEF Linked
  <2>4. QED  BY <1>1, <1>12, <2>2, <2>3
<1>19. QED  BY <1>5, <1>12, <1>13, <1>14, <1>17, <1>18

\* Every step keeps the chain, and extends it, acknowledges its tip, loses a
\* suffix nobody was told of, or leaves it as it is.
LEMMA ChainStep ==
    ASSUME Discipline, Chained, Shape', [Next]_vars
    PROVE  /\ OneChain' /\ AckedInChain'
           /\ \/ Whole' = Whole /\ acked' = acked
              \/ acked' = acked /\ \E m \in Payloads : Tip(Whole') = Append(Tip(Whole), m)
              \/ /\ Whole' = Whole /\ Tip(Whole) \in acked'
                 /\ \A g \in acked' : Len(g) =< Len(Tip(Whole))
              \/ /\ acked' = acked
                 /\ \E j \in 0 .. Len(Whole) : /\ Whole' = SubSeq(Whole, 1, j)
                                               /\ \A h \in acked : Len(h) =< j
<1>1. CASE UNCHANGED vars
  <2>1. Whole' = Whole /\ acked' = acked
    BY <1>1 DEF vars, Whole, Cutting
  <2>2. OneChain' /\ AckedInChain'
    BY <1>1, <2>1 DEF vars, Chained, OneChain, AckedInChain, Cutting
  <2>3. QED  BY <2>1, <2>2
<1>2. ASSUME NEW p \in Procs,
             \/ Read(p) \/ Lock(p) \/ Close(p) \/ Die(p) \/ \E m \in Payloads : Mint(p, m)
      PROVE  OneChain' /\ AckedInChain' /\ Whole' = Whole /\ acked' = acked
  BY <1>2, MemoryChain
<1>3. ASSUME NEW p \in Procs, Fail(p) PROVE FALSE
  BY <1>3, Excluded DEF Fail
<1>4. QED
  BY <1>1, <1>2, <1>3, WriteChain, TearChain, SyncChain, CutChain, WriteBackChain, PowerChain,
     WritebackChain DEF Next

\* The empty store is an empty chain, of which nothing is acknowledged.
LEMMA ChainInit == Init => OneChain /\ AckedInChain /\ Whole = <<>> /\ acked = {}
<1> SUFFICES ASSUME Init PROVE OneChain /\ AckedInChain /\ Whole = <<>> /\ acked = {}
  OBVIOUS
<1>1. file = <<>> /\ acked = {} /\ ~Cutting /\ \A p \in Procs : pc[p] = "out"
  BY DEF Init, Cutting
<1>2. ended
  BY DEF Init
<1>3. Whole = <<>>
  BY <1>1 DEF Whole
<1>4. Linked(Whole)
  BY <1>3 DEF Linked
<1>5. OneChain
  BY <1>1, <1>2, <1>3, <1>4 DEF OneChain
<1>6. AckedInChain
  BY <1>1 DEF AckedInChain
<1>7. QED  BY <1>1, <1>3, <1>5, <1>6

\* IInv is inductive: the state keeps its shape whatever the mishaps; without a
\* repair what is acknowledged is there or visibly lost; and with the discipline
\* the file is one chain with everything acknowledged in it.
THEOREM StoreInvariance == Spec => []IInv
<1>1. Init => IInv
  BY ShapeInit, ChainInit DEF IInv, Shape, Init, KeptOrBroken, Cutting
<1>2. IInv /\ [Next]_vars => IInv'
  <2> SUFFICES ASSUME IInv, [Next]_vars PROVE IInv'
    OBVIOUS
  <2>1. Shape /\ Shape'
    BY ShapeStep DEF IInv, Shape
  <2>2. "repair" \notin Events => KeptOrBroken'
    BY <2>1, KeptStep DEF IInv
  <2>3. Discipline => OneChain' /\ AckedInChain'
    BY <2>1, ChainStep DEF IInv, Chained
  <2>4. QED  BY <2>1, <2>2, <2>3 DEF IInv, Shape
<1>3. QED  BY <1>1, <1>2, PTL DEF Spec

-----------------------------------------------------------------------------
(* What the store promises *)

\* Loss is never silent: whoever overlapped, died, tore or failed a write, or
\* lost power, a chain that open accepts has every acknowledged record, as long
\* as nobody repairs it (persistence.py:113-143).
THEOREM VerifiedIsCompleteHolds ==
    ASSUME "repair" \notin Events PROVE Spec => []VerifiedIsComplete
<1>1. IInv => VerifiedIsComplete
  <2> SUFFICES ASSUME IInv, Verifies(file), NEW h \in acked PROVE h \in Elements(file)
    BY DEF VerifiedIsComplete
  <2>1. file \in Seq(Lines) /\ synced \in 0 .. Len(file)
    BY DEF IInv, TypeOK
  <2>2. PICK i \in 1 .. synced : file[i] = h \/ Broken(i)
    BY DEF IInv, KeptOrBroken
  <2>3. i \in DOMAIN file
    BY <2>1
  <2>4. ~Broken(i)
    BY <2>3 DEF Verifies, Broken
  <2>5. QED  BY <2>2, <2>3, <2>4 DEF Elements
<1>2. QED  BY <1>1, StoreInvariance, PTL

\* What is left of a file without its torn tail.
LEMMA WholeLines ==
    ASSUME Shape, OneChain, ~Cutting
    PROVE  /\ file \in Seq(Lines) /\ Whole \in Seq(Lines) /\ Linked(Whole)
           /\ Len(Whole) \in 0 .. Len(file)
           /\ \A i \in 1 .. Len(Whole) : Whole[i] = file[i]
<1>1. file \in Seq(Lines) /\ ended \in BOOLEAN
  BY DEF Shape, TypeOK
<1>2. CASE ended
  BY <1>1, <1>2, WholeIs
<1>3. CASE ~ended
  <2>1. /\ Whole \in Seq(Lines) /\ Linked(Whole) /\ file # <<>>
        /\ Whole = SubSeq(file, 1, Len(file) - 1) /\ Len(Whole) = Len(file) - 1
    BY <1>3, WholeIs
  <2>2. Len(file) - 1 \in 0 .. Len(file)
    BY <1>1, <2>1
  <2>3. QED  BY <1>1, <2>1, <2>2, FirstElements
<1>4. QED  BY <1>2, <1>3

\* An acknowledged record is in the file, whatever died since, whenever the power
\* went, and after any repair that was let finish (persistence.py:191).
THEOREM AckedIsKeptHolds == ASSUME Discipline PROVE Spec => []AckedIsKept
<1>1. IInv => AckedIsKept
  <2> SUFFICES ASSUME IInv, ~Cutting PROVE acked \subseteq Elements(file)
    BY DEF AckedIsKept
  <2>1. acked \subseteq Elements(Whole)
    BY DEF IInv, AckedInChain
  <2>2. /\ file \in Seq(Lines) /\ Whole \in Seq(Lines) /\ Len(Whole) \in 0 .. Len(file)
        /\ \A i \in 1 .. Len(Whole) : Whole[i] = file[i]
    BY WholeLines DEF IInv, Shape
  <2>3. QED  BY <2>1, <2>2 DEF Elements
<1>2. QED  BY <1>1, StoreInvariance, PTL

\* The file always verifies, or does once the repair has trimmed its last line,
\* and the repair does trim it (persistence.py:14, 207-251).
THEOREM RecoverableHolds == ASSUME Discipline PROVE Spec => []Recoverable
<1>1. IInv => Recoverable
  <2> SUFFICES ASSUME IInv, ~Cutting
               PROVE  \/ Verifies(file)
                      \/ Trimmable /\ Verifies(SubSeq(file, 1, Len(file) - 1))
    BY DEF Recoverable
  <2>1. Shape /\ OneChain /\ ended \in BOOLEAN
    BY DEF IInv, Shape, TypeOK
  <2>2. /\ file \in Seq(Lines) /\ Whole \in Seq(Lines) /\ Linked(Whole)
        /\ \A i \in 1 .. Len(Whole) : Whole[i] = file[i]
    BY <2>1, WholeLines
  <2>3. CASE ended
    BY <2>1, <2>2, <2>3, WholeIs, LinkedVerifies
  <2>4. CASE ~ended
    <3>1. /\ file # <<>> /\ Tip(file) = Torn /\ Whole = SubSeq(file, 1, Len(file) - 1)
          /\ Len(Whole) = Len(file) - 1
      BY <2>1, <2>4, WholeIs
    <3>2. ASSUME NEW i \in 1 .. Len(file) - 1 PROVE file[i] # Torn
      <4>1. i \in DOMAIN Whole /\ i \in 1 .. Len(Whole) /\ i # 0
        BY <2>2, <3>1, <3>2
      <4>2. Len(Whole[i]) = i /\ Whole[i] = file[i]
        BY <2>2, <4>1 DEF Linked
      <4>3. QED  BY <4>1, <4>2 DEF Torn
    <3>3. Verifies(SubSeq(file, 1, Len(file) - 1))
      BY <2>2, <3>1, LinkedVerifies
    <3>4. QED  BY <3>1, <3>2, <3>3 DEF Trimmable
  <2>5. QED  BY <2>1, <2>3, <2>4
<1>2. QED  BY <1>1, StoreInvariance, PTL

-----------------------------------------------------------------------------
(* The store implements the durable log *)

\* The number of records acknowledged, as the refinement has it.
KeptOf(told) == CHOOSE n \in {0} \cup {Len(h) : h \in told} : \A h \in told : Len(h) =< n

\* It is the length of the longest ...
LEMMA KeptIsLongest ==
    ASSUME NEW told \in SUBSET Lines, NEW h \in told, \A g \in told : Len(g) =< Len(h)
    PROVE  KeptOf(told) = Len(h)
<1>1. \A g \in told : Len(g) \in Nat
  BY DEF Lines
<1>2. Len(h) \in {0} \cup {Len(g) : g \in told}
  OBVIOUS
<1>3. /\ KeptOf(told) \in {0} \cup {Len(g) : g \in told}
      /\ \A g \in told : Len(g) =< KeptOf(told)
  BY <1>2 DEF KeptOf
<1>4. KeptOf(told) \in Nat /\ Len(h) =< KeptOf(told)
  BY <1>1, <1>3
<1>5. KeptOf(told) =< Len(h)
  BY <1>1, <1>3
<1>6. QED  BY <1>1, <1>4, <1>5

\* ... or none.
LEMMA KeptIsNone == KeptOf({}) = 0
BY DEF KeptOf

\* Every step of the store is a write, an acknowledgement or the loss of records
\* nobody was told of, or is invisible.
LEMMA StepImplements ==
    ASSUME Discipline, Chained, Chained', [Next]_vars PROVE [Promise!Next]_(Promise!vars)
<1> DEFINE log == Tip(Whole)
           kept == KeptOf(acked)
<1>1. acked \in SUBSET Lines /\ acked' \in SUBSET Lines
  BY DEF Chained, Shape, TypeOK
<1>2. /\ Whole \in Seq(Lines) /\ Linked(Whole) /\ log \in Lines /\ Len(log) = Len(Whole)
  BY WholeIs, LinkedTip DEF Chained
<1>3. \A h \in acked : Len(h) =< Len(log)
  <2>1. ASSUME NEW h \in acked PROVE Len(h) =< Len(log)
    <3>1. PICK i \in DOMAIN Whole : h = Whole[i]
      BY DEF Chained, AckedInChain, Elements
    <3>2. QED  BY <1>2, <3>1 DEF Linked
  <2>2. QED  BY <2>1
<1>4. CASE Whole' = Whole /\ acked' = acked
  BY <1>4 DEF Promise!vars
<1>5. ASSUME NEW m \in Payloads, acked' = acked, log' = Append(log, m) PROVE Promise!Next
  <2>1. Promise!Write(m)
    BY <1>5 DEF Promise!Write, KeptOf
  <2>2. QED  BY <2>1 DEF Promise!Next
<1>6. CASE Whole' = Whole /\ log \in acked' /\ \A g \in acked' : Len(g) =< Len(log)
  <2>1. kept' = Len(log)
    BY <1>1, <1>6, KeptIsLongest
  <2>2. Promise!Acknowledge
    BY <1>6, <2>1 DEF Promise!Acknowledge, KeptOf
  <2>3. QED  BY <2>2 DEF Promise!Next
<1>7. ASSUME acked' = acked, NEW j \in 0 .. Len(Whole), Whole' = SubSeq(Whole, 1, j),
             \A h \in acked : Len(h) =< j
      PROVE  Promise!Next
  <2>1. log' = SubSeq(log, 1, j)
    BY <1>2, <1>7, LinkedPrefix
  <2>2. j \in kept .. Len(log)
    <3>1. CASE acked = {}
      BY <1>2, <1>7, <3>1, KeptIsNone
    <3>2. CASE acked # {}
      <4>1. PICK h \in acked : \A g \in acked : Len(g) =< Len(h)
        BY <3>2 DEF Chained, AckedInChain
      <4>2. kept = Len(h)
        BY <1>1, <4>1, KeptIsLongest
      <4>3. Len(h) \in Nat /\ Len(h) =< j
        BY <1>1, <1>7, <4>1 DEF Lines
      <4>4. QED  BY <1>2, <1>7, <4>2, <4>3
    <3>3. QED  BY <3>1, <3>2
  <2>3. Promise!Lose
    BY <1>7, <2>1, <2>2 DEF Promise!Lose, KeptOf
  <2>4. QED  BY <2>3 DEF Promise!Next
<1>8. QED  BY <1>4, <1>5, <1>6, <1>7, ChainStep DEF Chained

\* The store, with its file, lock, processes, deaths, power losses, torn writes
\* and repairs, is an implementation of the abstract durable log: one history,
\* of which the acknowledged part is never lost or rewritten.
THEOREM StoreImplementsDurableLog ==
    ASSUME Discipline PROVE Spec => ImplementsDurableLog
<1>1. Init => Promise!Init
  <2> SUFFICES ASSUME Init PROVE Promise!Init
    OBVIOUS
  <2>1. Tip(Whole) = <<>> /\ acked = {}
    BY ChainInit DEF Tip, Genesis
  <2>2. KeptOf(acked) = 0
    BY <2>1, KeptIsNone
  <2>3. QED  BY <2>1, <2>2 DEF Promise!Init, KeptOf
<1>2. IInv /\ IInv' /\ [Next]_vars => [Promise!Next]_(Promise!vars)
  BY StepImplements DEF IInv, Chained, Shape
<1>3. QED  BY <1>1, <1>2, StoreInvariance, PTL DEF Spec, ImplementsDurableLog, Promise!Spec
=============================================================================
