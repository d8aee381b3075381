---------------------------- MODULE SegmentFamily ----------------------------
(***************************************************************************)
(* The segments of a chain as a family of files (lifecycle.py and the       *)
(* detach and verify commands of cli.py): archives pile up with every       *)
(* rotation, may be authorised to leave the volume, and are looked at only  *)
(* by the presence guard of every open and by the deep verification.        *)
(*                                                                          *)
(* Rotation is one step here (Rotation has its own steps), the active       *)
(* segment replays (AuditStore has what makes it), and the keyed seals are  *)
(* left out.  An archive is one of five things: see Contents.               *)
(***************************************************************************)
EXTENDS Naturals, FiniteSets

CONSTANT MaxSegments  \* bound: segments of the family, the active one included

ASSUME SegmentsAssumption == MaxSegments \in Nat \ {0}

VARIABLES
    active,    \* the index of the active segment
    files,     \* what stands under each archive's name
    carried,   \* the segments the active segment's head lists as detached
    appended,  \* the segments detached in the active segment itself
    asking,    \* the segment a detach command has verified and prompts about, or 0
    granted    \* history: every segment a detach record was ever chained for

vars == <<active, files, carried, appended, asking, granted>>

Indexes  == 1 .. MaxSegments
Archived == 1 .. (active - 1)

\* intact: the sealed bytes; reserialized: other bytes with the same records;
\* edited: something that does not replay; foreign: a sealed segment of another
\* history, such as a fork or an older copy of the volume.
Contents == {"absent", "intact", "reserialized", "edited", "foreign"}

-----------------------------------------------------------------------------
\* check_presence: each archived segment is there, or was detached, by the head
\* or in the segment itself.
Opens == \A i \in Archived : files[i] # "absent" \/ i \in carried \cup appended

\* What verification reads of a segment: a copy the operator presents comes first.
File(presented, i) == IF i \in presented THEN "intact" ELSE files[i]

\* The hash a segment must continue: of this history, of another, or not known.
Start == [anchor |-> "ours", ok |-> TRUE]

\* A segment replays if it continues the anchor; a foreign one may leave this
\* history or go on with the other.
Replays(content, anchor) == \/ content \in {"intact", "reserialized"} /\ anchor = "ours"
                            \/ content = "foreign"

\* Mutants of Visit: a missing archive is no failure; whatever is sealed replays.
VisitLenient(w, i, content) ==
    CASE content = "absent"                                -> [w EXCEPT !.anchor = "lost"]
      [] content # "absent" /\ w.anchor = "lost"           -> w
      [] content # "absent" /\ Replays(content, w.anchor)  -> Start
      [] OTHER                                             -> [anchor |-> "lost", ok |-> FALSE]
VisitUnanchored(w, i, content) ==
    CASE content = "absent" -> [anchor |-> "lost", ok |-> w.ok /\ i \in carried]
      [] content = "edited" -> [anchor |-> "lost", ok |-> FALSE]
      [] OTHER              -> w

\* One turn of the loop over the archives: only the head's list excuses a missing
\* one, and behind it, or behind a failure, the others are not read any more.
Visit(w, i, content) ==
    CASE content = "absent" -> [anchor |-> "lost", ok |-> w.ok /\ i \in carried]
      [] content # "absent" /\ w.anchor = "lost" -> w
      [] content # "absent" /\ w.anchor # "lost" /\ Replays(content, w.anchor) ->
            [w EXCEPT !.anchor = IF content = "foreign" THEN "other" ELSE "ours"]
      [] OTHER -> [anchor |-> "lost", ok |-> FALSE]

\* Only the last archive is compared with the digest its successor committed to.
DigestMatches(presented) ==
    active > 1 => File(presented, active - 1) \in {"absent", "intact"}

\* The loop, turn by turn.
Walk(presented) ==
    LET walk[i \in 0 .. active - 1] ==
            IF i = 0 THEN Start ELSE Visit(walk[i - 1], i, File(presented, i))
    IN  walk

\* verify_family, deep, of the family and the copies presented (--with).
Green(presented) == Walk(presented)[active - 1].ok /\ DigestMatches(presented)

-----------------------------------------------------------------------------
\* Mutant of Rotate: the next head lists what was detached in this segment only.
RotateForgetting ==
    /\ active < MaxSegments
    /\ Opens
    /\ files' = [files EXCEPT ![active] = "intact"]
    /\ active' = active + 1
    /\ carried' = appended
    /\ appended' = {}
    /\ UNCHANGED <<asking, granted>>

\* The active segment becomes an archive; its successor's head carries the list.
Rotate ==
    /\ active < MaxSegments
    /\ Opens
    /\ files' = [files EXCEPT ![active] = "intact"]
    /\ active' = active + 1
    /\ carried' = carried \cup appended
    /\ appended' = {}
    /\ UNCHANGED <<asking, granted>>

\* atb detach: the archive is there and the family is green; then the prompt.
AskDetach(i) ==
    /\ asking = 0
    /\ files[i] # "absent"
    /\ Green({})
    /\ asking' = i
    /\ UNCHANGED <<active, files, carried, appended, granted>>

\* Mutant of Detach: a record is chained although nothing was verified.
DetachUnasked ==
    /\ Opens
    /\ appended' = appended \cup {asking}
    /\ granted' = granted \cup {asking}
    /\ asking' = 0
    /\ UNCHANGED <<active, files, carried>>

\* The operator agrees: the chain is opened and the record appended.
Detach ==
    /\ asking # 0
    /\ Opens
    /\ appended' = appended \cup {asking}
    /\ granted' = granted \cup {asking}
    /\ asking' = 0
    /\ UNCHANGED <<active, files, carried>>

\* The operator declines, or the chain does not open.
GiveUp == /\ asking # 0
          /\ asking' = 0
          /\ UNCHANGED <<active, files, carried, appended, granted>>

\* External: an archive is taken off the volume, after a detach or not, changed,
\* exchanged or copied back.
Befall(i, content) ==
    /\ files[i] # content
    /\ files' = [files EXCEPT ![i] = content]
    /\ UNCHANGED <<active, carried, appended, asking, granted>>

Init == /\ active = 1
        /\ files = [i \in Indexes |-> "absent"]
        /\ carried = {}
        /\ appended = {}
        /\ asking = 0
        /\ granted = {}

Next == \/ Rotate
        \/ \E i \in Archived : AskDetach(i)
        \/ Detach
        \/ GiveUp
        \/ \E i \in Archived, content \in Contents : Befall(i, content)

Spec == Init /\ [][Next]_vars
-----------------------------------------------------------------------------
(* Properties *)

\* The state has the shape the code gives it; nothing but an archive is detached.
TypeOK ==
    /\ active \in Indexes
    /\ files \in [Indexes -> Contents]
    /\ carried \cup appended \cup granted \subseteq Archived
    /\ asking \in Archived \cup {0}
    /\ \A i \in Indexes \ Archived : files[i] = "absent"

\* Inductive: what was ever detached is still listed, by the head or in the segment.
IInv == TypeOK /\ granted = carried \cup appended

Missing == {i \in Archived : files[i] = "absent"}

\* "The exemption survives N subsequent rotations; missing-undetached still
\* hard-fails" (Audit-Chain-Lifecycle.md:645): the chain opens just when every
\* archive that is gone was once detached, however many rotations ago.
OpensIfAccounted == Opens <=> Missing \subseteq granted

\* "A missing, undetached segment is a failure, never a silent skip"
\* (lifecycle.py:632): no other copies the operator presents make up for it.
LossIsNoticed ==
    \A i \in Missing \ granted : \A presented \in SUBSET (Archived \ {i}) : ~Green(presented)

\* Deep verification "proves all history" (lifecycle.py:626) once every archive is
\* there or presented again: the records are those recorded, in every segment, and
\* the last archive's bytes are those sealed.
GreenIsComplete ==
    Green(Missing) =>
        /\ \A i \in Archived : File(Missing, i) \in {"intact", "reserialized"}
        /\ active > 1 => File(Missing, active - 1) = "intact"

\* "Edit / truncate / re-serialize an archived segment: deep verify: digest mismatch
\* vs the successor checkpoint" (Audit-Chain-Lifecycle.md:557).
EditIsNoticed == Green({}) => \A i \in Archived : files[i] \in {"absent", "intact"}
=============================================================================
