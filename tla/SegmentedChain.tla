--------------------------- MODULE SegmentedChain ---------------------------
(***************************************************************************)
(* What a rotation promises, with files, names and crashes taken away: the  *)
(* open segment grows a record at a time, and in ONE step it is sealed and  *)
(* succeeded by a segment that opens with what was still open.  Sealed      *)
(* segments never change.  Until the step has settled a failure may undo it *)
(* as a whole, as long as nothing was recorded in the new segment.          *)
(***************************************************************************)
EXTENDS Segments

CONSTANT Payloads

VARIABLES sealed,  \* the sealed segments, oldest first
          open,    \* the open segment
          settled  \* the last rotation cannot be undone any more

vars == <<sealed, open, settled>>

Init == sealed = <<>> /\ open = <<>> /\ settled = TRUE

Record(m) == /\ open' = Append(open, m)
             /\ settled' = TRUE
             /\ UNCHANGED sealed

Rotate == /\ Substantive(open)
          /\ sealed' = Append(sealed, Append(open, SealOf(open)))
          /\ open' = <<CheckpointOf(open)>>
          /\ settled' = FALSE

Confirm == settled' = TRUE /\ UNCHANGED <<sealed, open>>

\* The seal stays in the file, but the segment is the open one again.
Undo == /\ ~settled
        /\ Len(open) = 1
        /\ LET last == sealed[Len(sealed)]
           IN  open' = SubSeq(last, 1, Len(last) - 1)
        /\ sealed' = SubSeq(sealed, 1, Len(sealed) - 1)
        /\ settled' = TRUE

Next == (\E m \in Payloads : Record(m)) \/ Rotate \/ Confirm \/ Undo

Spec == Init /\ [][Next]_vars
=============================================================================
