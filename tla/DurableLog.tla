------------------------------ MODULE DurableLog ------------------------------
(***************************************************************************)
(* What the audit store promises its callers, with the file, the lock, the  *)
(* processes and the crashes taken away: one history that grows a record at *)
(* a time, of which the acknowledged part is never lost or rewritten.       *)
(***************************************************************************)
EXTENDS Naturals, Sequences

CONSTANT Payloads

VARIABLES log,   \* the records, oldest first
          kept   \* how many of them are acknowledged

vars == <<log, kept>>

Init == log = <<>> /\ kept = 0

Write(m)    == log' = Append(log, m) /\ UNCHANGED kept
Acknowledge == kept' = Len(log) /\ UNCHANGED log

\* A failure takes records nobody was told about, the youngest first.
Lose == /\ \E n \in kept .. Len(log) : log' = SubSeq(log, 1, n)
        /\ UNCHANGED kept

Next == (\E m \in Payloads : Write(m)) \/ Acknowledge \/ Lose

Spec == Init /\ [][Next]_vars
=============================================================================
