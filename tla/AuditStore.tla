------------------------------ MODULE AuditStore ------------------------------
(***************************************************************************)
(* The durable audit chain of src/atb/persistence.py over the in-memory     *)
(* chain of src/atb/audit.py: processes open one segment file, append to    *)
(* it, die, lose power, and repair a torn tail.                             *)
(*                                                                          *)
(* A record's hash commits to everything before it, so a record IS the      *)
(* sequence of payloads it commits to: its id is the length, the previous   *)
(* hash is all but the last.  A log in memory is known by its last record.  *)
(* A line of the file is a record, or text that does not parse.             *)
(*                                                                          *)
(* A write is one write(2) call: others see all of it, or, when it stops    *)
(* short, what it left.  Which mishaps an instance has is the constant      *)
(* Events; the discipline the documents ask for is their absence.           *)
(***************************************************************************)
EXTENDS Naturals, Sequences, FiniteSets

CONSTANTS
    Procs,       \* gateways and one-shot CLI commands
    Payloads,
    Events,      \* the mishaps of this instance, see Mishaps
    MaxLines     \* bound: lines in the file, records in a log

Mishaps == {"overlap",  \* a process starts on the file while another is on it
            "death",    \* a process is killed between two steps
            "power",    \* the machine stops: what was not fsynced may be lost
            "error",    \* a write or fsync raises and the process goes on
            "part",     \* a write that stops leaves part of the record
            "text",     \* a write that stops leaves the record, not its newline
            "repair",   \* an operator repairs a torn tail
            "repair-interrupted"} \* and the machine or the tool stops meanwhile

ASSUME EventsAssumption == Events \subseteq Mishaps
ASSUME BoundAssumption == MaxLines \in Nat

VARIABLES file,      \* the lines of the segment file
          ended,     \* the last line has its newline
          synced,    \* lines that are on the disk whatever happens
          rewritten, \* the file was rewritten by a repair and not synced since
          pc,        \* where each process is: see Places
          mem,       \* the in-memory log of each process
          salvage,   \* the lines a repair holds while the file is empty
          acked      \* the records whose append has returned

vars == <<file, ended, synced, rewritten, pc, mem, salvage, acked>>

Places  == {"out", "read", "ready", "appended", "written", "cut"}
Holding == {"ready", "appended", "written"}

Genesis == <<>>
Torn    == <<>>   \* a line that does not parse commits to nothing
Lines   == Seq(Payloads)

-----------------------------------------------------------------------------
Tip(lines) == IF lines = <<>> THEN Genesis ELSE lines[Len(lines)]

\* open accepts the lines: each parses, continues the one before, in order.
Verifies(lines) ==
    \A i \in DOMAIN lines :
        Len(lines[i]) = i /\ SubSeq(lines[i], 1, i - 1) = Tip(SubSeq(lines, 1, i - 1))

\* The lines that have their newline.
Finished(lines, end) == IF end THEN Len(lines) ELSE Len(lines) - 1

\* Text added to the file after an unfinished line becomes one line with it.
Added(text) == IF ended THEN Append(file, text) ELSE [file EXCEPT ![Len(file)] = Torn]

\* Nobody else is on the file, or this instance lets processes meet.
Alone(p) == (\E q \in Procs \ {p} : pc[q] # "out") => "overlap" \in Events

Goto(p, place) == pc' = [pc EXCEPT ![p] = place]

\* The process ends, or gives its store up; its memory is gone.
Leave(p) == /\ Goto(p, "out")
            /\ mem' = [mem EXCEPT ![p] = Genesis]

-----------------------------------------------------------------------------
\* Mutant of Read: the chain is not verified.
ReadUnverified(p) ==
    /\ pc[p] = "out"
    /\ Alone(p)
    /\ mem' = [mem EXCEPT ![p] = Tip(file)]
    /\ Goto(p, "read")
    /\ UNCHANGED <<file, ended, synced, rewritten, salvage, acked>>

\* open, up to the lock: the file is read and verified, or open raises.
Read(p) ==
    /\ pc[p] = "out"
    /\ Alone(p)
    /\ Verifies(file)
    /\ mem' = [mem EXCEPT ![p] = Tip(file)]
    /\ Goto(p, "read")
    /\ UNCHANGED <<file, ended, synced, rewritten, salvage, acked>>

\* open, the lock: exclusive, non-blocking, taken after the file was read.
Lock(p) ==
    /\ pc[p] = "read"
    /\ IF \E q \in Procs : pc[q] \in Holding
       THEN Leave(p)
       ELSE Goto(p, "ready") /\ UNCHANGED mem
    /\ UNCHANGED <<file, ended, synced, rewritten, salvage, acked>>

\* append, in memory.
Mint(p, m) ==
    /\ pc[p] = "ready"
    /\ Len(mem[p]) < MaxLines /\ Len(file) < MaxLines
    /\ mem' = [mem EXCEPT ![p] = Append(@, m)]
    /\ Goto(p, "appended")
    /\ UNCHANGED <<file, ended, synced, rewritten, salvage, acked>>

\* append, the write-through of the record and its newline.
Write(p) ==
    /\ pc[p] = "appended"
    /\ file' = Added(mem[p])
    /\ ended' = TRUE
    /\ Goto(p, "written")
    /\ UNCHANGED <<synced, rewritten, mem, salvage, acked>>

\* The write stops short; the process dies with it, or catches the error and
\* keeps its store, with the record still in memory.
Tear(p) ==
    /\ pc[p] = "appended"
    /\ \/ "part" \in Events /\ file' = Added(Torn)
       \/ "text" \in Events /\ file' = Added(mem[p])
    /\ ended' = FALSE
    /\ \/ "death" \in Events /\ Leave(p)
       \/ "error" \in Events /\ Goto(p, "ready") /\ UNCHANGED mem
    /\ UNCHANGED <<synced, rewritten, salvage, acked>>

\* Mutant of Sync: append returns without fsync.
SyncSkipped(p) ==
    /\ pc[p] = "written"
    /\ acked' = acked \cup {mem[p]}
    /\ Goto(p, "ready")
    /\ UNCHANGED <<file, ended, synced, rewritten, mem, salvage>>

\* fsync, and append returns: the record is acknowledged.
Sync(p) ==
    /\ pc[p] = "written"
    /\ synced' = Len(file)
    /\ rewritten' = FALSE
    /\ acked' = acked \cup {mem[p]}
    /\ Goto(p, "ready")
    /\ UNCHANGED <<file, ended, mem, salvage>>

\* write or fsync raises with nothing more written, and the process goes on.
Fail(p) ==
    /\ "error" \in Events
    /\ pc[p] \in {"appended", "written"}
    /\ Goto(p, "ready")
    /\ UNCHANGED <<file, ended, synced, rewritten, mem, salvage, acked>>

\* Mutant of Close: the log outlives its store.
CloseWithLog(p) ==
    /\ pc[p] = "ready"
    /\ Goto(p, "out")
    /\ UNCHANGED <<file, ended, synced, rewritten, mem, salvage, acked>>

Close(p) ==
    /\ pc[p] = "ready"
    /\ Leave(p)
    /\ UNCHANGED <<file, ended, synced, rewritten, salvage, acked>>

Die(p) ==
    /\ "death" \in Events
    /\ pc[p] # "out"
    /\ pc[p] = "cut" => "repair-interrupted" \in Events
    /\ Leave(p)
    /\ salvage' = [salvage EXCEPT ![p] = <<>>]
    /\ UNCHANGED <<file, ended, synced, rewritten, acked>>

\* The first k lines survive, and what is left of the next one.
Survives(k) ==
    \/ /\ file' = SubSeq(file, 1, k)
       /\ ended' = (k = Len(file) => ended)
    \/ /\ k < Len(file)
       /\ \/ "part" \in Events /\ file' = Append(SubSeq(file, 1, k), Torn)
          \/ "text" \in Events /\ file' = SubSeq(file, 1, k + 1)
       /\ ended' = FALSE

PowerLoss ==
    /\ "power" \in Events
    /\ (rewritten \/ \E p \in Procs : pc[p] = "cut") => "repair-interrupted" \in Events
    /\ \E k \in synced .. Len(file) : Survives(k)
    /\ synced' = Finished(file', ended')
    /\ rewritten' = FALSE
    /\ pc' = [p \in Procs |-> "out"]
    /\ mem' = [p \in Procs |-> Genesis]
    /\ salvage' = [p \in Procs |-> <<>>]
    /\ UNCHANGED acked

-----------------------------------------------------------------------------
\* Mutant of Trimmable: a last line that parses is trimmed too.
TrimmableAlways == file # <<>> /\ \A i \in 1 .. Len(file) - 1 : file[i] # Torn

\* trim_torn_tail acts: only the last line fails to parse.
Trimmable ==
    /\ file # <<>>
    /\ Tip(file) = Torn
    /\ \A i \in 1 .. Len(file) - 1 : file[i] # Torn

\* write_text empties the file, then writes the lines that were kept.  It takes
\* no lock and does not sync.
RepairCut(p) ==
    /\ "repair" \in Events
    /\ pc[p] = "out"
    /\ Alone(p)
    /\ Trimmable
    /\ salvage' = [salvage EXCEPT ![p] = SubSeq(file, 1, Len(file) - 1)]
    /\ file' = <<>> /\ ended' = TRUE /\ synced' = 0
    /\ Goto(p, "cut")
    /\ UNCHANGED <<rewritten, mem, acked>>

RepairWrite(p) ==
    /\ pc[p] = "cut"
    /\ file' = salvage[p]
    /\ ended' = TRUE
    /\ synced' = 0
    /\ rewritten' = TRUE
    /\ salvage' = [salvage EXCEPT ![p] = <<>>]
    /\ Goto(p, "out")
    /\ UNCHANGED <<mem, acked>>

\* In its own time the system writes the file back.
Writeback ==
    /\ rewritten
    /\ rewritten' = FALSE
    /\ synced' = Finished(file, ended)
    /\ UNCHANGED <<file, ended, pc, mem, salvage, acked>>

Init == /\ file = <<>> /\ ended = TRUE /\ synced = 0 /\ rewritten = FALSE
        /\ pc = [p \in Procs |-> "out"]
        /\ mem = [p \in Procs |-> Genesis]
        /\ salvage = [p \in Procs |-> <<>>]
        /\ acked = {}

Next == \/ \E p \in Procs :
              \/ Read(p)
              \/ Lock(p)
              \/ \E m \in Payloads : Mint(p, m)
              \/ Write(p)
              \/ Tear(p)
              \/ Sync(p)
              \/ Fail(p)
              \/ Close(p)
              \/ Die(p)
              \/ RepairCut(p)
              \/ RepairWrite(p)
        \/ PowerLoss
        \/ Writeback

Spec == Init /\ [][Next]_vars

-----------------------------------------------------------------------------
(* Properties *)

Elements(s) == {s[i] : i \in DOMAIN s}
Prefixes(h) == {SubSeq(h, 1, n) : n \in 1 .. Len(h)}
Cutting     == \E p \in Procs : pc[p] = "cut"

\* The state has the shape the code gives it, and only who needs one has a log.
TypeOK ==
    /\ file \in Seq(Lines) /\ Len(file) =< MaxLines
    /\ ended \in BOOLEAN /\ rewritten \in BOOLEAN
    /\ synced \in 0 .. Len(file)
    /\ pc \in [Procs -> Places]
    /\ mem \in [Procs -> Lines]
    /\ salvage \in [Procs -> Seq(Lines)]
    /\ acked \subseteq Lines
    /\ \A p \in Procs : /\ pc[p] \in {"out", "cut"} => mem[p] = Genesis
                        /\ pc[p] # "cut" => salvage[p] = <<>>

\* "An acknowledged decision survives power loss" (persistence.py:191), and any
\* other end of any process, and a repair.
AckedIsKept == ~Cutting => acked \subseteq Elements(file)

\* Writers are "a hard refusal rather than a chain fork" (the lifecycle document,
\* line 275): what was acknowledged, by whomever, is one history.
OneHistory == \A g, h \in acked : g \in Prefixes(h) \/ h \in Prefixes(g)

\* "A torn unacknowledged tail is recoverable" (persistence.py:14): whatever the
\* mishaps, the chain verifies, or does once its last line is trimmed.
Recoverable ==
    ~Cutting => \/ Verifies(file)
                \/ Trimmable /\ Verifies(SubSeq(file, 1, Len(file) - 1))

\* Loss is never silent: a chain that verifies has every acknowledged record,
\* whoever overlapped, died or failed while it was written.
VerifiedIsComplete == Verifies(file) => acked \subseteq Elements(file)

-----------------------------------------------------------------------------
\* With the discipline, the store implements the durable log: its records are
\* those the file would verify to, were a torn tail or a cut file repaired.
Whole == IF Cutting THEN salvage[CHOOSE p \in Procs : pc[p] = "cut"]
         ELSE IF Tip(file) = Torn /\ file # <<>> THEN SubSeq(file, 1, Len(file) - 1)
         ELSE file

Promise == INSTANCE DurableLog
           WITH log  <- Tip(Whole),
                kept <- CHOOSE n \in {0} \cup {Len(h) : h \in acked} :
                            \A h \in acked : Len(h) =< n

\* Every step is a write, an acknowledgement or the loss of an unacknowledged
\* record, or invisible.
ImplementsDurableLog == Promise!Spec
-----------------------------------------------------------------------------
(* Why they hold: the inductive invariant *)

\* The lock: one process writes.  What it is about to write fits, and what it
\* has written ends with a newline.
OneWriter ==
    /\ \A p, q \in Procs : pc[p] \in Holding /\ pc[q] \in Holding => p = q
    /\ \A p \in Procs : /\ pc[p] = "appended" => Len(file) < MaxLines
                        /\ pc[p] = "written" => ended
                        /\ pc[p] = "cut" => Len(salvage[p]) < MaxLines

\* A line without its newline was never synced.
UnendedIsUnsynced == ~ended => synced < Len(file)

\* Line i does not continue the lines before it.
Broken(i) == Len(file[i]) # i \/ SubSeq(file[i], 1, i - 1) # Tip(SubSeq(file, 1, i - 1))

\* Without a repair: what is acknowledged is among the synced lines, or a line
\* among them is broken, and will be for ever.
KeptOrBroken ==
    /\ ~rewritten /\ ~Cutting
    /\ \A h \in acked : \E i \in 1 .. synced : file[i] = h \/ Broken(i)
    /\ \A p \in Procs : pc[p] = "written" => \E i \in DOMAIN file : file[i] = mem[p] \/ Broken(i)

\* What the documents ask of operators: one process at a time, whole writes or
\* none, and a repair that is let finish.
Discipline == Events \subseteq {"death", "power", "part", "repair"}

\* Each record is what the last one commits to, up to there.
Linked(lines) ==
    \A i \in DOMAIN lines : /\ Len(lines[i]) = i
                            /\ \A j \in 1 .. i : lines[j] = SubSeq(lines[i], 1, j)

\* The file, or what the repair holds of it, is one chain and perhaps a torn
\* tail, and the process on it, if any, is in step with it.
OneChain ==
    /\ \A p, q \in Procs : pc[p] # "out" /\ pc[q] # "out" => p = q
    /\ Linked(Whole)
    /\ Cutting => file = <<>> /\ ended /\ synced = 0
    /\ ~Cutting => (ended <=> Whole = file)
    /\ \A p \in Procs :
          /\ pc[p] \notin {"out", "cut"} => ended
          /\ pc[p] \in {"read", "ready", "written"} => mem[p] = Tip(file)
          /\ pc[p] = "written" => file # <<>>
          /\ pc[p] = "appended" => /\ Len(mem[p]) = Len(file) + 1
                                   /\ SubSeq(mem[p], 1, Len(file)) = Tip(file)

\* What is acknowledged is in it, and synced unless a repair has just been there;
\* the last of it is the longest.
AckedInChain ==
    /\ acked \subseteq Elements(Whole)
    /\ ~Cutting /\ ~rewritten => acked \subseteq {file[i] : i \in 1 .. synced}
    /\ acked # {} => \E h \in acked : \A g \in acked : Len(g) =< Len(h)

\* Inductive: what the properties above rest on.
IInv == /\ TypeOK
        /\ OneWriter
        /\ UnendedIsUnsynced
        /\ "repair" \notin Events => KeptOrBroken
        /\ Discipline => OneChain /\ AckedInChain
=============================================================================
