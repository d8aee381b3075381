------------------------------- MODULE Rotation -------------------------------
(***************************************************************************)
(* The rotation of a chain, step by step (src/atb/lifecycle.py               *)
(* execute_rotation, src/atb/cli.py _cmd_rotate), beside the gateway that    *)
(* appends to the same chain:                                                *)
(*     plan, prompt -> open -> seal -> digest, stage -> link -> sync the     *)
(*     directory -> re-check, rename -> sync the directory -> self-test     *)
(*                                                                          *)
(* Names and files are apart, for a link gives a file a second name and a   *)
(* rename moves a name to another file.  A process may die between any two  *)
(* steps, and the machine may lose power: what it forgets is the unsynced   *)
(* part of the directory and the content of files never synced.  fsync of a *)
(* file makes the name it was opened by durable too, and no other name.     *)
(*                                                                          *)
(* A line is a record, and a record is the sequence of payloads its hash    *)
(* commits to.  An append is whole and durable here (AuditStore has the     *)
(* torn ones).                                                              *)
(***************************************************************************)
EXTENDS Segments

CONSTANTS
    Procs,       \* gateways and operators' commands
    Events,      \* the mishaps of this instance, see Mishaps
    MaxRecords,  \* bound: records in the whole chain
    MaxCarry,    \* open items a rotation carries without --force-carry
    MaxCrashes   \* bound: deaths and power losses

Mishaps == {"overlap", \* a process starts while another one runs
            "death",   \* a process is killed between two steps
            "power"}   \* the machine stops

ASSUME EventsAssumption == Events \subseteq Mishaps
ASSUME BoundsAssumption == MaxRecords \in Nat /\ MaxCarry \in Nat /\ MaxCrashes \in Nat

VARIABLES data,    \* the lines of each file
          durable, \* the files whose content is on the disk
          dir,     \* the directory: which file each name is, or NoFile
          disk,    \* the directory as a power loss would find it
          pc,      \* where each process is: see Places
          job,     \* what it set out to do: see Jobs
          mem,     \* the lines it has read and added to
          locked,  \* it holds the lock
          digest,  \* the lines it took the digest of
          acked,   \* the records whose append has returned
          crashes

vars == <<data, durable, dir, disk, pc, job, mem, locked, digest, acked, crashes>>
files == <<data, durable, dir, disk>>
procs == <<pc, job, mem, locked, digest>>

Ids      == 1 .. MaxRecords
Files    == 1 .. MaxRecords + 1
NoFile   == 0
Indexes  == 1 .. MaxRecords

Items       == [kind : {"raise"}, id : Ids] \cup [kind : {"settle"}, ref : Ids]
Seals       == [kind : {"seal"}, segment : Indexes, records : Ids, open : Nat]
Checkpoints == [kind : {"checkpoint"}, segment : Indexes, open : SUBSET Ids]
Lines       == Seq(Items \cup Seals \cup Checkpoints)

Places == {"out", "prompt", "read", "serving", "opened", "sealed", "staged", "linked",
           "synced", "renamed"}
Jobs   == [task : {"serve"}] \cup [task : {"rotate", "resume"}, force : BOOLEAN]
NoJob  == [task |-> "none"]

-----------------------------------------------------------------------------
Tip(lines) == IF lines = <<>> THEN <<>> ELSE lines[Len(lines)]
LastOf(record) == record[Len(record)]

\* The payloads of a segment's lines.
Segment(lines) == [i \in DOMAIN lines |-> LastOf(lines[i])]

Current == data[dir.active]

\* open accepts the lines: each continues the one before; the first continues
\* genesis, or is a checkpoint, whose anchor is taken as it stands.
Verifies(lines) ==
    \A i \in DOMAIN lines :
        IF i > 1 THEN lines[i] = Append(lines[i - 1], LastOf(lines[i]))
        ELSE Len(lines[1]) = 1 \/ LastOf(lines[1]).kind = "checkpoint"

\* check_presence: every archive the checkpoint's lineage names is there; a
\* segment that opens at genesis has none, but for its own link while it is sealed.
Present(lines) ==
    LET n == IndexOf(Segment(lines))
        found == {i \in Indexes : dir.archive[i] # NoFile}
    IN  IF n > 1 THEN 1 .. n - 1 \subseteq found
        ELSE \A i \in found : Sealed(Segment(lines)) /\ data[dir.archive[i]] = lines

Opens(lines) == Verifies(lines) /\ Present(lines)

\* plan_rotation: something to rotate or to resume, and not too much to carry.
Plannable(lines, force) ==
    LET segment == Segment(lines)
    IN  /\ Substantive(segment) \/ Sealed(segment)
        /\ force \/ Cardinality(OpenItems(segment)) =< MaxCarry

\* The seal still counts what is there.
SealAgrees(segment) ==
    LET seal == segment[Len(segment)]
    IN  seal.records = Len(segment) /\ seal.open = Cardinality(OpenItems(segment))

Alone(p) == (\E q \in Procs \ {p} : pc[q] # "out") => "overlap" \in Events

Goto(p, place) == pc' = [pc EXCEPT ![p] = place]

\* The process ends; what it held and knew is gone.
Forget(P) == /\ pc' = [p \in Procs |-> IF p \in P THEN "out" ELSE pc[p]]
             /\ job' = [p \in Procs |-> IF p \in P THEN NoJob ELSE job[p]]
             /\ mem' = [p \in Procs |-> IF p \in P THEN <<>> ELSE mem[p]]
             /\ locked' = [p \in Procs |-> IF p \in P THEN FALSE ELSE locked[p]]
             /\ digest' = [p \in Procs |-> IF p \in P THEN <<>> ELSE digest[p]]
Leave(p) == Forget({p})

\* A durable append, by the path: to whatever file has the active name now.
AppendsTo(p, payload) ==
    LET record == Append(Tip(mem[p]), payload)
        moved  == dir.active # disk.active
    IN  /\ Len(record) =< MaxRecords
        /\ data' = [data EXCEPT ![dir.active] = Append(@, record)]
        /\ durable' = durable \cup {dir.active}
        /\ disk' = [disk EXCEPT !.active = dir.active,
                                !.temp = IF moved THEN dir.temp ELSE @]
        /\ acked' = acked \cup {record}
        /\ mem' = [mem EXCEPT ![p] = Append(@, record)]
        /\ UNCHANGED dir

-----------------------------------------------------------------------------
(* The gateway, and the command up to its opening of the chain. *)

\* The gateway starts, and reads the chain.
Serve(p) ==
    /\ pc[p] = "out"
    /\ Alone(p)
    /\ Opens(Current) /\ ~Sealed(Segment(Current))
    /\ job' = [job EXCEPT ![p] = [task |-> "serve"]]
    /\ mem' = [mem EXCEPT ![p] = Current]
    /\ Goto(p, "read")
    /\ UNCHANGED <<files, locked, digest, acked, crashes>>

\* The command reads the chain, makes a plan, and prompts.
Plan(p, force) ==
    /\ pc[p] = "out"
    /\ Alone(p)
    /\ Opens(Current) /\ Plannable(Current, force)
    /\ Sealed(Segment(Current)) \/ Len(Tip(Current)) + 2 =< MaxRecords
    /\ job' = [job EXCEPT ![p] =
                  [task |-> IF Sealed(Segment(Current)) THEN "resume" ELSE "rotate",
                   force |-> force]]
    /\ Goto(p, "prompt")
    /\ UNCHANGED <<files, mem, locked, digest, acked, crashes>>

\* Mutant of Confirm: the chain is always opened to append.
ConfirmToAppend(p) ==
    /\ pc[p] = "prompt"
    /\ IF Opens(Current) /\ ~Sealed(Segment(Current))
       THEN /\ mem' = [mem EXCEPT ![p] = Current]
            /\ Goto(p, "read")
            /\ UNCHANGED <<job, locked, digest>>
       ELSE Leave(p)
    /\ UNCHANGED <<files, acked, crashes>>

\* Confirmed, it opens the chain again: to append when the plan was to rotate,
\* without the lock when it was to resume.
Confirm(p) ==
    /\ pc[p] = "prompt"
    /\ LET resuming == job[p].task = "resume"
       IN  IF Opens(Current) /\ (resuming \/ ~Sealed(Segment(Current)))
           THEN /\ mem' = [mem EXCEPT ![p] = Current]
                /\ Goto(p, IF resuming THEN "opened" ELSE "read")
                /\ UNCHANGED <<job, locked, digest>>
           ELSE Leave(p)
    /\ UNCHANGED <<files, acked, crashes>>

Decline(p) ==
    /\ pc[p] = "prompt"
    /\ Leave(p)
    /\ UNCHANGED <<files, acked, crashes>>

Lock(p) ==
    /\ pc[p] = "read"
    /\ IF \E q \in Procs : locked[q]
       THEN Leave(p)
       ELSE /\ locked' = [locked EXCEPT ![p] = TRUE]
            /\ Goto(p, IF job[p].task = "serve" THEN "serving" ELSE "opened")
            /\ UNCHANGED <<job, mem, digest>>
    /\ UNCHANGED <<files, acked, crashes>>

\* The gateway records that an item is open, or that an open one is settled.
Record(p) ==
    /\ pc[p] = "serving"
    /\ \/ AppendsTo(p, Raise(Len(Tip(mem[p])) + 1))
       \/ \E ref \in OpenItems(Segment(mem[p])) : AppendsTo(p, Settle(ref))
    /\ UNCHANGED <<pc, job, locked, digest, crashes>>

Close(p) ==
    /\ pc[p] = "serving"
    /\ Leave(p)
    /\ UNCHANGED <<files, acked, crashes>>

-----------------------------------------------------------------------------
(* execute_rotation *)

\* Step 3: seal, unless the chain is sealed already and the seal agrees.
Seal(p) ==
    /\ pc[p] = "opened"
    /\ LET segment == Segment(mem[p])
       IN  IF ~Plannable(mem[p], job[p].force) \/ (Sealed(segment) /\ ~SealAgrees(segment))
           THEN Leave(p) /\ UNCHANGED <<files, acked>>
           ELSE /\ IF Sealed(segment)
                   THEN UNCHANGED <<files, mem, acked>>
                   ELSE AppendsTo(p, SealOf(segment))
                /\ Goto(p, "sealed")
                /\ UNCHANGED <<job, locked, digest>>
    /\ UNCHANGED crashes

\* The successor's first record, after the seal.
Checkpoint(p) ==
    Append(Tip(mem[p]), CheckpointOf(SubSeq(Segment(mem[p]), 1, Len(mem[p]) - 1)))

\* The file the staging name stands for: the one it has, or a new one.
Named(d) == {d.active, d.temp} \cup {d.archive[i] : i \in Indexes}
StagingFile == IF dir.temp # NoFile THEN dir.temp
               ELSE CHOOSE f \in Files : f \notin Named(dir) \cup Named(disk)

\* Mutant of Stage: the staged file is not synced.
StageUnsynced(p) ==
    /\ pc[p] = "sealed"
    /\ Len(Checkpoint(p)) =< MaxRecords
    /\ digest' = [digest EXCEPT ![p] = Current]
    /\ data' = [data EXCEPT ![StagingFile] = <<Checkpoint(p)>>]
    /\ durable' = durable \ {StagingFile}
    /\ dir' = [dir EXCEPT !.temp = StagingFile]
    /\ Goto(p, "staged")
    /\ UNCHANGED <<disk, job, mem, locked, acked, crashes>>

\* Steps 4 and 5: the digest of the active file, the staged successor, synced.
Stage(p) ==
    /\ pc[p] = "sealed"
    /\ Len(Checkpoint(p)) =< MaxRecords
    /\ digest' = [digest EXCEPT ![p] = Current]
    /\ data' = [data EXCEPT ![StagingFile] = <<Checkpoint(p)>>]
    /\ durable' = durable \cup {StagingFile}
    /\ dir' = [dir EXCEPT !.temp = StagingFile]
    /\ Goto(p, "staged")
    /\ UNCHANGED <<disk, job, mem, locked, acked, crashes>>

\* A refusal on the way takes the staged file back.
Abort(p) ==
    /\ dir' = [dir EXCEPT !.temp = NoFile]
    /\ Leave(p)

\* Step 6: the active file gets its archive name, or has it from a run before.
Link(p) ==
    /\ pc[p] = "staged"
    /\ LET i == IndexOf(Segment(mem[p]))
       IN  IF dir.archive[i] = NoFile
           THEN /\ dir' = [dir EXCEPT !.archive[i] = dir.active]
                /\ Goto(p, "linked")
                /\ UNCHANGED <<job, mem, locked, digest>>
           ELSE IF data[dir.archive[i]] = digest[p]
           THEN Goto(p, "linked") /\ UNCHANGED <<dir, job, mem, locked, digest>>
           ELSE Abort(p)
    /\ UNCHANGED <<data, durable, disk, acked, crashes>>

\* Mutant of SyncLink: the directory is not synced before the rename.
SyncLinkSkipped(p) ==
    /\ pc[p] = "linked"
    /\ Goto(p, "synced")
    /\ UNCHANGED <<files, job, mem, locked, digest, acked, crashes>>

SyncLink(p) ==
    /\ pc[p] = "linked"
    /\ disk' = dir
    /\ Goto(p, "synced")
    /\ UNCHANGED <<data, durable, dir, job, mem, locked, digest, acked, crashes>>

\* Step 7: the active file is still the one that was sealed; the successor takes
\* its name.  The rename raises when another run has taken the staged file.
Commit(p) ==
    /\ pc[p] = "synced"
    /\ IF Current # digest[p] THEN Abort(p)
       ELSE IF dir.temp = NoFile THEN Leave(p) /\ UNCHANGED dir
       ELSE /\ dir' = [dir EXCEPT !.active = dir.temp, !.temp = NoFile]
            /\ Goto(p, "renamed")
            /\ UNCHANGED <<job, mem, locked, digest>>
    /\ UNCHANGED <<data, durable, disk, acked, crashes>>

\* Mutant of Finish: the lock outlives the command.
FinishLocked(p) ==
    /\ pc[p] = "renamed"
    /\ disk' = dir
    /\ Goto(p, "out")
    /\ UNCHANGED <<data, durable, dir, job, mem, locked, digest, acked, crashes>>

\* The directory is synced; the lock is given up, the self-test changes nothing.
Finish(p) ==
    /\ pc[p] = "renamed"
    /\ disk' = dir
    /\ Leave(p)
    /\ UNCHANGED <<data, durable, dir, acked, crashes>>

-----------------------------------------------------------------------------
(* Crashes *)

Crash == crashes < MaxCrashes /\ crashes' = crashes + 1

Die(p) ==
    /\ "death" \in Events
    /\ pc[p] # "out"
    /\ Crash
    /\ Leave(p)
    /\ UNCHANGED <<files, acked>>

\* Of the operations on the directory that were not synced any may be lost: the
\* rename, the link, the creation of the staged file.
Found(renamed, linked, staged) ==
    [active  |-> IF renamed THEN dir.active ELSE disk.active,
     archive |-> IF linked THEN dir.archive ELSE disk.archive,
     temp    |-> IF dir.active = disk.active
                 THEN IF staged THEN dir.temp ELSE disk.temp
                 ELSE IF renamed THEN dir.temp ELSE IF staged THEN dir.active ELSE disk.temp]

PowerLoss ==
    /\ "power" \in Events
    /\ Crash
    /\ \E renamed, linked, staged \in BOOLEAN : dir' = Found(renamed, linked, staged)
    /\ disk' = dir'
    /\ data' = [f \in Files |-> IF f \in durable THEN data[f] ELSE <<>>]
    /\ Forget(Procs)
    /\ UNCHANGED <<durable, acked>>

Init == /\ data = [f \in Files |-> <<>>]
        /\ durable = {1}
        /\ dir = [active |-> 1, temp |-> NoFile, archive |-> [i \in Indexes |-> NoFile]]
        /\ disk = dir
        /\ pc = [p \in Procs |-> "out"] /\ job = [p \in Procs |-> NoJob]
        /\ mem = [p \in Procs |-> <<>>] /\ digest = [p \in Procs |-> <<>>]
        /\ locked = [p \in Procs |-> FALSE]
        /\ acked = {}
        /\ crashes = 0

\* What a confirmed rotation does to its end.
Rotating(p) == \/ Lock(p) \/ Seal(p) \/ Stage(p) \/ Link(p)
               \/ SyncLink(p) \/ Commit(p) \/ Finish(p)

Next == \/ \E p \in Procs :
              \/ Serve(p)
              \/ \E force \in BOOLEAN : Plan(p, force)
              \/ Confirm(p)
              \/ Decline(p)
              \/ Rotating(p)
              \/ Record(p)
              \/ Close(p)
              \/ Die(p)
        \/ PowerLoss

Spec == Init /\ [][Next]_vars

\* A command runs on once confirmed.  And the operator does as a sealed chain
\* tells everyone who opens it, and re-runs the rotation until it goes through.
FairSpec ==
    /\ Spec
    /\ WF_vars(\E p \in Procs : Rotating(p))
    /\ WF_vars(\E p \in Procs : Plan(p, TRUE))
    /\ SF_vars(\E p \in Procs : Confirm(p))

-----------------------------------------------------------------------------
(* Properties *)

Elements(s)  == {s[i] : i \in DOMAIN s}
Idle         == \A p \in Procs : pc[p] = "out"
ActiveIndex  == IndexOf(Segment(Current))
ArchiveOf(i) == data[dir.archive[i]]

\* The state has the shape the code gives it, and a process that is out has
\* neither the lock nor a log.
TypeOK ==
    /\ data \in [Files -> Seq(Lines)] /\ durable \subseteq Files
    /\ {dir, disk} \subseteq [active : Files, temp : Files \cup {NoFile},
                             archive : [Indexes -> Files \cup {NoFile}]]
    /\ pc \in [Procs -> Places] /\ job \in [Procs -> Jobs \cup {NoJob}]
    /\ {mem, digest} \subseteq [Procs -> Seq(Lines)]
    /\ locked \in [Procs -> BOOLEAN]
    /\ acked \subseteq Lines /\ crashes \in 0 .. MaxCrashes
    /\ \A p \in Procs : pc[p] = "out" => ~locked[p] /\ mem[p] = <<>>

\* "Every interruption leaves an append-blocked state that one re-run converges
\* from" (lifecycle.py:27): whenever nothing runs, the chain can be opened to
\* append, or it is sealed and a rotation can be planned and resumed.
Recovers ==
    Idle => /\ Opens(Current)
            /\ Sealed(Segment(Current)) =>
                  /\ Plannable(Current, TRUE)
                  /\ SealAgrees(Segment(Current))
                  /\ dir.archive[ActiveIndex] # NoFile => ArchiveOf(ActiveIndex) = Current

\* "Nothing is lost": every acknowledged record is in the active segment or in
\* one of the archives of its lineage, and each of these continues the last.
NothingLost ==
    /\ \A i \in 1 .. ActiveIndex - 1 :
          /\ dir.archive[i] # NoFile
          /\ Tip(ArchiveOf(i)) =
                LET next == IF i + 1 = ActiveIndex THEN Current ELSE ArchiveOf(i + 1)
                IN  SubSeq(next[1], 1, Len(next[1]) - 1)
    /\ acked \subseteq Elements(Current)
                   \cup UNION {Elements(ArchiveOf(i)) : i \in 1 .. ActiveIndex - 1}

\* What the active segment alone says is open is what the whole history says.
Outstanding(history) == {m.id : m \in OfKind(history, "raise")}
                        \ {m.ref : m \in OfKind(history, "settle")}
OpenIsCarried == OpenItems(Segment(Current)) = Outstanding(Tip(Current))

\* "rotate and every ... writer take an exclusive ... flock" (the lifecycle
\* document, lines 270-271), so that concurrent writers are "a hard refusal"
\* (line 275): whoever appends to the chain holds the lock.  It does not hold
\* once two processes overlap, for the lock is decided on by a plan made before
\* the operator's prompt (cli.py:506).
AppendsAreLocked ==
    [][\A p \in Procs :
          pc[p] \in {"serving", "opened"} /\ pc'[p] # "out" /\ acked' # acked
              /\ mem'[p] # mem[p] => locked[p]]_vars

\* A sealed chain does not stay sealed: re-runs converge.
Converges == Sealed(Segment(Current)) ~> ~Sealed(Segment(Current))

-----------------------------------------------------------------------------
\* A segment without its seal.
Body(segment) == IF Sealed(segment) THEN SubSeq(segment, 1, Len(segment) - 1) ELSE segment

\* The rotation implements the one-step rotation of a segmented chain: a seal
\* at the end of the active file is not seen until the rename.
Promise == INSTANCE SegmentedChain
           WITH Payloads <- Items,
                sealed   <- [i \in 1 .. ActiveIndex - 1 |-> Segment(ArchiveOf(i))],
                open     <- Body(Segment(Current)),
                settled  <- dir.active = disk.active

ImplementsSegmentedChain == Promise!Spec
-----------------------------------------------------------------------------
(* Why they hold, one process at a time: the inductive invariant *)

OneAtATime == \A p, q \in Procs : pc[p] # "out" /\ pc[q] # "out" => p = q

\* The lines of one segment: records that continue each other from genesis or from
\* a checkpoint, and at most one seal, at the end, that tells the truth.  What they
\* leave open is what the whole history leaves open; ids are what the code makes
\* them, the number of the record.
Formed(lines) ==
    LET segment == Segment(lines)
        history == Tip(lines)
    IN  /\ \A i \in DOMAIN lines :
              /\ lines[i] # <<>> /\ Len(lines[i]) = Len(lines[1]) + i - 1
              /\ i > 1 => lines[i] = Append(lines[i - 1], segment[i])
              /\ segment[i].kind = "checkpoint" => i = 1
              /\ segment[i].kind = "seal" => i = Len(lines)
        /\ lines # <<>> => IF segment[1].kind = "checkpoint"
                           THEN segment[1].segment \in 2 .. Len(lines[1])
                           ELSE Len(lines[1]) = 1
        /\ Sealed(segment) => /\ Substantive(Body(segment))
                              /\ segment[Len(segment)] = SealOf(Body(segment))
        /\ OpenItems(segment) = Outstanding(history)
        /\ \A m \in OfKind(history, "raise") : m.id =< Len(history)
        /\ \A m \in OfKind(segment, "settle") \cup OfKind(history, "settle") :
              m.ref =< Len(history)

\* A directory one can start from: the active file and the archives of its lineage
\* are on the disk, are segments, and follow each other; a sealed one may have its
\* archive name already; the staging name is none of theirs; nothing is lost.
Sound(d, content, stored, told) ==
    LET n == IndexOf(Segment(content[d.active]))
        Next1(i) == content[IF i + 1 = n THEN d.active ELSE d.archive[i + 1]][1]
    IN  /\ d.active \in stored /\ Formed(content[d.active])
        /\ \A i \in 1 .. n - 1 :
              LET lines == content[d.archive[i]]
              IN  /\ d.archive[i] \in stored /\ Formed(lines)
                  /\ Sealed(Segment(lines)) /\ IndexOf(Segment(lines)) = i
                  /\ Tip(lines) = SubSeq(Next1(i), 1, Len(Next1(i)) - 1)
        /\ \A i \in Indexes \ 1 .. n - 1 : d.archive[i] # NoFile =>
              i = n /\ d.archive[i] = d.active /\ Sealed(Segment(content[d.active]))
        /\ d.temp # NoFile => d.temp # d.active /\ \A i \in Indexes : d.temp # d.archive[i]
        /\ told \subseteq Elements(content[d.active])
                  \cup UNION {Elements(content[d.archive[i]]) : i \in 1 .. n - 1}

\* The disk has the same active segment, or the one before it: then the rename is
\* not synced, and nothing was recorded since.
DiskFollows ==
    IF dir.active = disk.active
    THEN \A i \in 1 .. ActiveIndex - 1 : dir.archive[i] = disk.archive[i]
    ELSE /\ Len(Current) = 1 /\ ActiveIndex > 1
         /\ disk.archive = dir.archive /\ disk.active = dir.archive[ActiveIndex - 1]
         /\ dir.temp = NoFile /\ disk.temp = dir.active

\* Where a process is says what it knows and has done.
Knows(p) ==
    /\ pc[p] \notin {"out", "prompt", "renamed"} => mem[p] = Current
    /\ pc[p] \in {"read", "serving"} => ~Sealed(Segment(Current))
    /\ pc[p] = "serving" => locked[p]
    /\ pc[p] = "opened" => locked[p] \/ Sealed(Segment(Current))
    /\ pc[p] = "prompt" /\ job[p].task = "resume" => Sealed(Segment(Current))
    /\ pc[p] \in {"sealed", "staged", "linked", "synced"} => Sealed(Segment(Current))
    /\ pc[p] \in {"staged", "linked", "synced"} =>
          digest[p] = Current /\ dir.temp \in durable /\ data[dir.temp] = <<Checkpoint(p)>>
    /\ pc[p] \in {"linked", "synced"} => dir.archive[ActiveIndex] = dir.active
    /\ pc[p] = "synced" => disk = dir
InStep == \A p \in Procs : Knows(p)

IInv == /\ TypeOK
        /\ OneAtATime
        /\ Sound(dir, data, durable, acked)
        /\ Sound(disk, data, durable, acked)
        /\ DiskFollows
        /\ InStep
=============================================================================
