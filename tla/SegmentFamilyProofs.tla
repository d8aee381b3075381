------------------------- MODULE SegmentFamilyProofs -------------------------
(***************************************************************************)
(* Theorems about the segment family, for any number of segments.           *)
(*                                                                          *)
(* The verification is a recursive function over the archives, so what it   *)
(* computes is shown by induction on their number.                          *)
(***************************************************************************)
EXTENDS SegmentFamily, Induction, TLAPS

-----------------------------------------------------------------------------
(* The verification *)

\* What the loop over the archives has computed after each turn.
IsWalk(f, presented, n) ==
    f = [i \in 0 .. n |-> IF i = 0 THEN Start ELSE Visit(f[i - 1], i, File(presented, i))]

\* There is such a function, for any number of turns.
LEMMA WalkExists ==
    ASSUME NEW presented, NEW n \in Nat
    PROVE  \E f : IsWalk(f, presented, n)
<1> DEFINE T == {k \in Nat : \E f : IsWalk(f, presented, k)}
<1>1. 0 \in T
  <2>1. IsWalk([i \in 0 .. 0 |-> Start], presented, 0)
    BY DEF IsWalk
  <2>2. QED  BY <2>1
<1>2. ASSUME NEW k \in 1 .. n, k - 1 \in T PROVE k \in T
  <2>1. PICK g : IsWalk(g, presented, k - 1)
    BY <1>2
  <2> DEFINE h == [i \in 0 .. k |-> IF i = k THEN Visit(g[k - 1], k, File(presented, k)) ELSE g[i]]
  <2>2. \A i \in 0 .. (k - 1) :
            g[i] = IF i = 0 THEN Start ELSE Visit(g[i - 1], i, File(presented, i))
    BY <2>1 DEF IsWalk
  <2>3. \A i \in 0 .. k : h[i] = IF i = 0 THEN Start ELSE Visit(h[i - 1], i, File(presented, i))
    BY <2>2
  <2>4. IsWalk(h, presented, k)
    BY <2>3 DEF IsWalk
  <2>5. QED  BY <2>4
<1>3. QED
  <2> HIDE DEF T
  <2>1. 0 .. n \subseteq T
    BY <1>1, <1>2, UpTo
  <2>2. n \in T
    BY <2>1
  <2>3. QED  BY <2>2 DEF T

\* The walk starts at Start, and each turn visits the next archive.
LEMMA WalkUnfolds ==
    ASSUME NEW presented, active \in Nat \ {0}
    PROVE  /\ Walk(presented)[0] = Start
           /\ \A i \in Archived :
                 Walk(presented)[i] = Visit(Walk(presented)[i - 1], i, File(presented, i))
<1>1. PICK f : IsWalk(f, presented, active - 1)
  BY WalkExists
<1>2. Walk(presented) = CHOOSE g : IsWalk(g, presented, active - 1)
  BY DEF Walk, IsWalk
<1>3. IsWalk(Walk(presented), presented, active - 1)
  BY <1>1, <1>2
<1>4. \A i \in 0 .. (active - 1) :
          Walk(presented)[i] = IF i = 0 THEN Start
                               ELSE Visit(Walk(presented)[i - 1], i, File(presented, i))
  BY <1>3 DEF IsWalk
<1>5. QED  BY <1>4 DEF Archived

-----------------------------------------------------------------------------
(* A loss is noticed *)

\* What the walk knows after a turn.
Verdicts == [anchor : {"ours", "other", "lost"}, ok : BOOLEAN]

\* After a missing archive the head does not list, the walk has failed.
LEMMA MissingFails ==
    ASSUME NEW w, NEW i, i \notin carried
    PROVE  Visit(w, i, "absent").ok = FALSE
BY DEF Visit

\* A walk that has failed goes on failing, whatever it is shown.
LEMMA FailureStays ==
    ASSUME NEW w \in Verdicts, w.ok = FALSE, NEW i, NEW content
    PROVE  Visit(w, i, content).ok = FALSE
BY DEF Visit, Verdicts

\* A walk gives verdicts.
LEMMA VisitTyped ==
    ASSUME NEW w \in Verdicts, NEW i, NEW content
    PROVE  Visit(w, i, content) \in Verdicts
BY DEF Visit, Verdicts, Start

\* Every step of the walk over the archives gives a verdict.
LEMMA WalkTyped ==
    ASSUME NEW presented, active \in Nat \ {0}
    PROVE  \A i \in 0 .. (active - 1) : Walk(presented)[i] \in Verdicts
<1> DEFINE T == {i \in 0 .. (active - 1) : Walk(presented)[i] \in Verdicts}
<1>1. 0 \in T
  <2>1. Start \in Verdicts
    BY DEF Start, Verdicts
  <2>2. QED  BY <2>1, WalkUnfolds
<1>2. ASSUME NEW i \in 1 .. (active - 1), i - 1 \in T PROVE i \in T
  BY <1>2, WalkUnfolds, VisitTyped DEF Archived
<1>3. 0 .. (active - 1) \subseteq T
  <2> HIDE DEF T
  <2>1. QED  BY <1>1, <1>2, UpTo
<1>4. QED  BY <1>3

\* Once the walk has met such an archive, it fails to its end.
LEMMA WalkFails ==
    ASSUME NEW presented, active \in Nat \ {0},
           NEW i \in Archived, i \notin carried, File(presented, i) = "absent"
    PROVE  Walk(presented)[active - 1].ok = FALSE
<1> DEFINE T == {k \in 0 .. (active - 1) : k >= i => Walk(presented)[k].ok = FALSE}
<1>1. 0 \in T
  BY DEF Archived
<1>2. ASSUME NEW k \in 1 .. (active - 1), k - 1 \in T PROVE k \in T
  <2>1. Walk(presented)[k] = Visit(Walk(presented)[k - 1], k, File(presented, k))
    BY WalkUnfolds DEF Archived
  <2>2. CASE k < i
    BY <2>2 DEF Archived
  <2>3. CASE k = i
    <3>1. Visit(Walk(presented)[k - 1], k, "absent").ok = FALSE
      BY <2>3, MissingFails
    <3>2. QED  BY <2>1, <2>3, <3>1
  <2>4. CASE k > i
    <3>1. Walk(presented)[k - 1].ok = FALSE
      BY <1>2, <2>4 DEF Archived
    <3>2. Walk(presented)[k - 1] \in Verdicts
      BY WalkTyped
    <3>3. Visit(Walk(presented)[k - 1], k, File(presented, k)).ok = FALSE
      BY <3>1, <3>2, FailureStays
    <3>4. QED  BY <2>1, <3>3
  <2>5. i \in Int /\ k \in Int
    BY DEF Archived
  <2>6. k < i \/ k = i \/ k > i
    BY <2>5
  <2> HIDE DEF T
  <2>7. QED  BY <2>2, <2>3, <2>4, <2>6
<1>3. 0 .. (active - 1) \subseteq T
  <2> HIDE DEF T
  <2>1. QED  BY <1>1, <1>2, UpTo
<1>4. QED  BY <1>3 DEF Archived

-----------------------------------------------------------------------------
(* The invariant *)

\* A chain starts with one segment, and nothing is detached.
LEMMA InitKeeps == Init => IInv
BY SegmentsAssumption DEF Init, IInv, TypeOK, Indexes, Archived, Contents

\* Every step keeps the books of what was detached.
LEMMA StepKeeps == ASSUME IInv, [Next]_vars PROVE IInv'
<1> USE DEF IInv, TypeOK, Indexes, Archived, Contents
<1>1. CASE Rotate
  BY <1>1, SegmentsAssumption DEF Rotate
<1>2. ASSUME NEW i \in Archived, AskDetach(i) PROVE IInv'
  BY <1>2 DEF AskDetach
<1>3. CASE Detach
  BY <1>3 DEF Detach
<1>4. CASE GiveUp
  BY <1>4 DEF GiveUp
<1>5. ASSUME NEW i \in Archived, NEW content \in Contents, Befall(i, content) PROVE IInv'
  BY <1>5 DEF Befall
<1>6. CASE UNCHANGED vars
  BY <1>6 DEF vars
<1>7. QED  BY <1>1, <1>2, <1>3, <1>4, <1>5, <1>6 DEF Next

\* What was ever detached stays listed, through any number of rotations.
THEOREM FamilyInvariance == Spec => []IInv
<1>1. IInv /\ [Next]_vars => IInv'
  BY StepKeeps
<1>2. QED  BY InitKeeps, <1>1, PTL DEF Spec

-----------------------------------------------------------------------------
(* The theorems *)

\* The chain opens just when every archive that is gone was once detached
\* (check_presence, after any number of rotations).
THEOREM OpensIfAccountedHolds == Spec => []OpensIfAccounted
<1>1. IInv => OpensIfAccounted
  BY DEF IInv, OpensIfAccounted, Opens, Missing
<1>2. QED  BY <1>1, FamilyInvariance, PTL

\* A missing archive that nobody detached fails verify_family, whatever copies of
\* others the operator presents.
THEOREM LossIsNoticedHolds == Spec => []LossIsNoticed
<1>1. IInv => LossIsNoticed
  <2> SUFFICES ASSUME IInv, NEW i \in Missing \ granted,
                      NEW presented \in SUBSET (Archived \ {i})
               PROVE  ~Green(presented)
    BY DEF LossIsNoticed
  <2>1. active \in Nat \ {0}
    BY SegmentsAssumption DEF IInv, TypeOK, Indexes
  <2>2. i \in Archived /\ i \notin carried /\ File(presented, i) = "absent"
    BY DEF IInv, Missing, File
  <2>3. QED  BY <2>1, <2>2, WalkFails DEF Green
<1>2. QED  BY <1>1, FamilyInvariance, PTL

\* A turn that does not fail over an archive that is there has read it: it
\* continues this history, or it is of another history.
LEMMA SoundTurn ==
    ASSUME NEW w \in Verdicts, NEW i, NEW content \in Contents, content # "absent",
           w.anchor # "lost", Visit(w, i, content).ok
    PROVE  /\ w.ok
           /\ Visit(w, i, content).anchor # "lost"
           /\ content = "foreign" \/ (content \in {"intact", "reserialized"} /\ w.anchor = "ours")
           /\ Visit(w, i, content).anchor = "ours" => w.anchor = "ours" /\ content # "foreign"
BY DEF Visit, Verdicts, Replays, Contents

\* A walk over archives that are all there, and that has not failed, has lost
\* nothing; while it is on this history every archive behind it is of it.
LEMMA WalkIsSound ==
    ASSUME NEW presented, active \in Nat \ {0},
           \A i \in Archived : File(presented, i) \in Contents \ {"absent"},
           NEW n \in 0 .. (active - 1), Walk(presented)[n].ok
    PROVE  /\ Walk(presented)[n].anchor # "lost"
           /\ Walk(presented)[n].anchor = "ours" =>
                 \A i \in 1 .. n : File(presented, i) \in {"intact", "reserialized"}
<1> DEFINE W == Walk(presented)
           Sound(k) == W[k].ok =>
                /\ W[k].anchor # "lost"
                /\ W[k].anchor = "ours" =>
                      \A i \in 1 .. k : File(presented, i) \in {"intact", "reserialized"}
           T == {k \in 0 .. (active - 1) : Sound(k)}
<1>1. 0 \in T
  BY WalkUnfolds DEF Start
<1>2. ASSUME NEW k \in 1 .. (active - 1), k - 1 \in T PROVE k \in T
  <2>1. k \in Archived /\ k - 1 \in 0 .. (active - 1)
    BY DEF Archived
  <2>2. W[k] = Visit(W[k - 1], k, File(presented, k)) /\ W[k - 1] \in Verdicts
    BY <2>1, WalkUnfolds, WalkTyped
  <2>3. Sound(k - 1)
    BY <1>2
  <2> SUFFICES ASSUME W[k].ok
               PROVE  /\ W[k].anchor # "lost"
                      /\ W[k].anchor = "ours" =>
                            \A i \in 1 .. k : File(presented, i) \in {"intact", "reserialized"}
    BY <2>1
  <2>4. CASE W[k - 1].ok
    <3>1. W[k - 1].anchor # "lost"
      BY <2>3, <2>4
    <3> HIDE DEF W
    <3>2. /\ W[k].anchor # "lost"
          /\ File(presented, k) = "foreign"
                \/ (File(presented, k) \in {"intact", "reserialized"} /\ W[k - 1].anchor = "ours")
          /\ W[k].anchor = "ours" => W[k - 1].anchor = "ours" /\ File(presented, k) # "foreign"
      BY <2>1, <2>2, <3>1, SoundTurn
    <3>3. \A i \in 1 .. k : i = k \/ i \in 1 .. (k - 1)
      OBVIOUS
    <3>4. QED  BY <2>3, <2>4, <3>2, <3>3
  <2>5. CASE W[k - 1].ok = FALSE
    <3>1. Visit(W[k - 1], k, File(presented, k)).ok = FALSE
      BY <2>2, <2>5, FailureStays
    <3>2. QED  BY <2>2, <3>1
  <2>6. QED  BY <2>2, <2>4, <2>5 DEF Verdicts
<1>3. 0 .. (active - 1) \subseteq T
  <2> HIDE DEF T
  <2>1. QED  BY <1>1, <1>2, UpTo
<1>4. QED  BY <1>3

\* When verify_family is green with every lost archive presented again, the
\* records in every segment are those recorded, and the last archive's bytes are
\* those sealed.
THEOREM GreenIsCompleteHolds == Spec => []GreenIsComplete
<1>1. IInv => GreenIsComplete
  <2> SUFFICES ASSUME IInv, Green(Missing)
               PROVE  /\ \A i \in Archived : File(Missing, i) \in {"intact", "reserialized"}
                      /\ active > 1 => File(Missing, active - 1) = "intact"
    BY DEF GreenIsComplete
  <2>1. active \in Nat \ {0}
    BY SegmentsAssumption DEF IInv, TypeOK, Indexes
  <2>2. \A i \in Archived : File(Missing, i) \in Contents \ {"absent"}
    <3>1. Archived \subseteq Indexes
      BY SegmentsAssumption, <2>1 DEF IInv, TypeOK, Archived, Indexes
    <3>2. \A i \in Archived : files[i] \in Contents
      BY <3>1 DEF IInv, TypeOK
    <3>3. QED  BY <3>2 DEF Missing, File, Contents
  <2>3. CASE active = 1
    BY <2>3 DEF Archived
  <2>4. CASE active > 1
    <3> DEFINE W == Walk(Missing)
               last == active - 1
    <3>1. last \in Archived /\ last - 1 \in 0 .. (active - 1) /\ last \in 0 .. (active - 1)
      BY <2>1, <2>4 DEF Archived
    <3>2. File(Missing, last) = "intact"
      BY <2>2, <2>4, <3>1 DEF Green, DigestMatches
    <3>3. W[last] = Visit(W[last - 1], last, "intact") /\ W[last - 1] \in Verdicts
      BY <2>1, <3>1, <3>2, WalkUnfolds, WalkTyped
    <3>4. W[last].ok /\ W[last].anchor # "lost"
      BY <2>1, <2>2, <3>1, WalkIsSound DEF Green
    <3>5. W[last].anchor = "ours"
      BY <3>3, <3>4 DEF Visit, Verdicts, Replays
    <3>6. \A i \in 1 .. last : File(Missing, i) \in {"intact", "reserialized"}
      BY <2>1, <2>2, <3>1, <3>4, <3>5, WalkIsSound
    <3>7. QED  BY <3>2, <3>6 DEF Archived
  <2>5. QED  BY <2>1, <2>3, <2>4
<1>2. QED  BY <1>1, FamilyInvariance, PTL
=============================================================================
