----------------------------- MODULE ApprovalLoop -----------------------------
(***************************************************************************)
(* The human approval loop of the trust broker: PolicyEngine.authorize      *)
(* (policy.py), the escalation queue (escalation.py) and the carry of open  *)
(* state over a chain rotation (lifecycle.py), all over one audit chain.    *)
(*                                                                          *)
(* One gateway process handles one call at a time.  A call is a FRAME that  *)
(* makes up to two separate durable appends:                                *)
(*     consume an approval -> record the decision -> queue the escalation   *)
(* and the process may die between any two of them, or an append may raise  *)
(* and end the frame while the process lives on.  Human decisions come      *)
(* between frames, from the CLI while the gateway is stopped or from the    *)
(* same process while it is idle.  Rotation needs the gateway stopped.      *)
(*                                                                          *)
(* Appends are atomic and durable here; how they become so, and when they   *)
(* fail to, is the business of AuditStore.  A rotation is one step here.    *)
(***************************************************************************)
EXTENDS Naturals, Sequences, FiniteSets, EscalationQueue

CONSTANTS
    Subjects,    \* agents an identity can be minted for
    Unverified,  \* the subject recorded when the identity does not verify
    Actions,     \* scope names a request may carry, catalogued or not
    Resources,
    Catalog,     \* the catalogued scopes
    Escalating,  \* the scopes that always need a human
    Releases,    \* the scopes of quarantine release, whose rows coalesce
    Bindings,    \* the scopes each subject's role is bound to
    Escaping,    \* <<action, resource>> pairs that are fs paths leaving the root
    InScope,     \* <<action, resource>> pairs within the action's resource scope
    Requests,    \* the requests agents make
    MaxRecords,  \* bound: records in the whole chain
    MaxCarry     \* open items a rotation carries without --force-carry

ASSUME UnverifiedAssumption == Unverified \notin Subjects
ASSUME CatalogAssumption == /\ Catalog \subseteq Actions
                            /\ Escalating \subseteq Catalog
                            /\ Releases \subseteq Escalating
                            /\ Bindings \in [Subjects -> SUBSET Actions]
ASSUME RequestsAssumption ==
    Requests \subseteq [subject : Subjects, action : Actions, resource : Resources]
ASSUME BoundsAssumption == MaxRecords \in Nat /\ MaxCarry \in Nat

VARIABLES archive,  \* records of the sealed segments, oldest first
          active,   \* records of the active segment
          pc,       \* where the gateway process is: see Places
          frame     \* the call in progress, or NoFrame

vars == <<archive, active, pc, frame>>

Refs    == 1 .. MaxRecords
NoRef   == 0
Places  == {"down", "idle", "decide", "submit"}
Effects == {"allow", "deny", "escalate"}

Request == [subject : Subjects \cup {Unverified}, action : Actions, resource : Resources]
Rows    == [ref : Refs, req : Request]

DecisionRecords   == [id : Refs, kind : {"decision"}, req : Request, effect : Effects,
                      approval : Refs \cup {NoRef}]
SubmittedRecords  == [id : Refs, kind : {"submitted"}, ref : Refs, req : Request]
ResolvedRecords   == [id : Refs, kind : {"resolved"}, ref : Refs, approved : BOOLEAN]
ConsumedRecords   == [id : Refs, kind : {"consumed"}, ref : Refs]
SealRecords       == [id : Refs, kind : {"rotated"}]
CheckpointRecords == [id : Refs, kind : {"checkpoint"},
                      pending : SUBSET Rows, approvals : SUBSET Rows]

Records == DecisionRecords \cup SubmittedRecords \cup ResolvedRecords
              \cup ConsumedRecords \cup SealRecords \cup CheckpointRecords

Frames  == [req : Request, effect : Effects, approval : Refs \cup {NoRef},
            decision : Refs \cup {NoRef}]
NoFrame == [req |-> "none"]

-----------------------------------------------------------------------------
\* The records the queue replays, and everything ever chained.
Elements(s) == {s[i] : i \in DOMAIN s}
Segment == Elements(active)
Chain   == Elements(archive) \cup Segment

\* The id of the last record, restored on open from the records themselves.
Sequence == IF active = <<>> THEN 0 ELSE active[Len(active)].id
\* Mutant of NextId: a restored log counts the records of its own segment only.
NextIdOfSegment == Len(active) + 1
NextId   == Sequence + 1
Room(n)  == Sequence + n =< MaxRecords

Chained(m) == /\ Room(1)
              /\ active' = Append(active, m)
              /\ UNCHANGED archive

-----------------------------------------------------------------------------
\* Mutant of Refused: the resource scope is forgotten.
RefusedAnywhere(req, verified, granted) ==
    \/ ~verified
    \/ req.action \notin Catalog
    \/ <<req.action, req.resource>> \in Escaping
    \/ req.action \notin Escalating /\ ~granted

(* The checks of _evaluate that refuse: identity, catalogue, path, binding,
   resource scope, in this order.  The binding and the resource scope are
   asked only of actions that do not escalate. *)
Refused(req, verified, granted) ==
    \/ ~verified
    \/ req.action \notin Catalog
    \/ <<req.action, req.resource>> \in Escaping
    \/ /\ req.action \notin Escalating
       /\ ~granted \/ <<req.action, req.resource>> \notin InScope

Escalates(req, verified, granted) ==
    ~Refused(req, verified, granted) /\ req.action \in Escalating

\* Mutants of CanConsume: any request may spend an approval; a spent one may be
\* spent again.
CanConsumeForAny(ref, req) == \E w \in Approvals(Segment) : w.ref = ref
CanConsumeAgain(ref, req) ==
    ref \in Approved(Segment) /\ [ref |-> ref, req |-> req] \in Submitted(Segment)

\* try_consume: an approved, unspent row for exactly this request.
CanConsume(ref, req) == [ref |-> ref, req |-> req] \in Approvals(Segment)

Begin(req, effect, approval) ==
    /\ pc' = "decide"
    /\ frame' = [req |-> req, effect |-> effect, approval |-> approval, decision |-> NoRef]

Refuse(req, verified, granted) ==
    /\ Refused(req, verified, granted)
    /\ Begin(IF verified THEN req ELSE [req EXCEPT !.subject = Unverified], "deny", NoRef)
    /\ UNCHANGED <<archive, active>>

Grant(req, verified, granted) ==
    /\ ~Refused(req, verified, granted)
    /\ req.action \notin Escalating
    /\ Begin(req, "allow", NoRef)
    /\ UNCHANGED <<archive, active>>

\* Mutant of Spend: an approval that was spent and bought no allow is honoured
\* once more, as a retry of the call that was cut short.
SpendOrRetry(req, ref) ==
    \/ /\ CanConsume(ref, req)
       /\ Chained([id |-> NextId, kind |-> "consumed", ref |-> ref])
       /\ Begin(req, "allow", ref)
    \/ /\ [ref |-> ref, req |-> req] \in Submitted(Segment)
       /\ ref \in Consumed(Segment)
       /\ \A m \in OfKind(Segment, "decision") : m.approval # ref
       /\ Begin(req, "allow", ref)
       /\ UNCHANGED <<archive, active>>

\* The approval is spent, durably, before the decision it buys is recorded.
Spend(req, ref) ==
    /\ CanConsume(ref, req)
    /\ Chained([id |-> NextId, kind |-> "consumed", ref |-> ref])
    /\ Begin(req, "allow", ref)

Escalate(req, ref) ==
    /\ ~CanConsume(ref, req)
    /\ Begin(req, "escalate", NoRef)
    /\ UNCHANGED <<archive, active>>

\* The approval_ref of the call's context is whatever the caller says: the ref
\* of any row, or one that names none.
CallerRefs == {w.ref : w \in Submitted(Segment)} \cup {NoRef}

\* A call arrives.  The token's scopes never exceed its role's binding.
Call ==
    /\ pc = "idle"
    /\ Room(2)
    /\ \E req \in Requests, verified, granted \in BOOLEAN :
          /\ granted => req.action \in Bindings[req.subject]
          /\ \/ Refuse(req, verified, granted)
             \/ Grant(req, verified, granted)
             \/ /\ Escalates(req, verified, granted)
                /\ \E ref \in CallerRefs : Spend(req, ref) \/ Escalate(req, ref)

\* authorize appends its decision; an escalate goes on to the queue.
Decide ==
    /\ pc = "decide"
    /\ Chained([id |-> NextId, kind |-> "decision", req |-> frame.req,
                effect |-> frame.effect, approval |-> frame.approval])
    /\ IF frame.effect = "escalate"
       THEN /\ pc' = "submit"
            /\ frame' = [frame EXCEPT !.decision = NextId]
       ELSE /\ pc' = "idle"
            /\ frame' = NoFrame

\* Mutant of Coalesces: releases pile up.
CoalescesNever(req) == FALSE

\* A release request whose exact triple is already waiting joins that row.
Coalesces(req) == req.action \in Releases /\ \E w \in Pending(Segment) : w.req = req

Submit ==
    /\ pc = "submit"
    /\ ~Coalesces(frame.req)
    /\ \A w \in Submitted(Segment) : w.ref # frame.decision
    /\ Chained([id |-> NextId, kind |-> "submitted",
                ref |-> frame.decision, req |-> frame.req])
    /\ pc' = "idle"
    /\ frame' = NoFrame

Coalesce ==
    /\ pc = "submit"
    /\ Coalesces(frame.req)
    /\ pc' = "idle"
    /\ frame' = NoFrame
    /\ UNCHANGED <<archive, active>>

(* The append a frame has just made raised: its record is in the chain, which
   persistence.py extends before it writes, but the caller gets an error in
   place of an answer, the rest of the frame never runs, and the gateway goes
   on to the next call.  (An append that raises in the last step of a frame
   leaves the chain that this step leaves when it returns.) *)
AppendRaises ==
    /\ pc = "submit" \/ (pc = "decide" /\ frame.approval # NoRef)
    /\ pc' = "idle"
    /\ frame' = NoFrame
    /\ UNCHANGED <<archive, active>>

-----------------------------------------------------------------------------
\* Mutant of Resolve: a row that was decided is decided again.
ResolveAgain(ref, approved) ==
    /\ pc \in {"idle", "down"}
    /\ \E w \in Submitted(Segment) : w.ref = ref
    /\ Chained([id |-> NextId, kind |-> "resolved", ref |-> ref, approved |-> approved])
    /\ UNCHANGED <<pc, frame>>

\* A named human decides a pending row; between calls, or with the gateway down.
Resolve(ref, approved) ==
    /\ pc \in {"idle", "down"}
    /\ \E w \in Submitted(Segment) : w.ref = ref
    /\ ref \notin Resolved(Segment)
    /\ Chained([id |-> NextId, kind |-> "resolved", ref |-> ref, approved |-> approved])
    /\ UNCHANGED <<pc, frame>>

\* Mutants: a decided row is carried as pending, a spent approval as approved.
CarriedSubmitted == Submitted(Segment)
CarriedSpent     == {w \in Submitted(Segment) : w.ref \in Approved(Segment)}

\* The state a rotation carries: derive_carried_state of the sealed segment.
CarriedPending   == Pending(Segment)
CarriedApprovals == Approvals(Segment)

Rotate(force) ==
    /\ pc = "down"
    /\ Room(2)
    /\ \E m \in Segment : m.kind \notin {"checkpoint", "rotated"}
    /\ force \/ Cardinality(CarriedPending) + Cardinality(CarriedApprovals) =< MaxCarry
    /\ archive' = archive \o Append(active, [id |-> NextId, kind |-> "rotated"])
    /\ active' = <<[id |-> NextId + 1, kind |-> "checkpoint",
                    pending |-> CarriedPending, approvals |-> CarriedApprovals]>>
    /\ UNCHANGED <<pc, frame>>

\* The process starts on the records it finds, and stops at any point.
Start == /\ pc = "down"
         /\ pc' = "idle"
         /\ UNCHANGED <<archive, active, frame>>

Stop == /\ pc # "down"
        /\ pc' = "down"
        /\ frame' = NoFrame
        /\ UNCHANGED <<archive, active>>

Init == /\ archive = <<>>
        /\ active = <<>>
        /\ pc = "down"
        /\ frame = NoFrame

Next == \/ Call
        \/ Decide
        \/ Submit
        \/ Coalesce
        \/ AppendRaises
        \/ \E ref \in Refs, approved \in BOOLEAN : Resolve(ref, approved)
        \/ \E force \in BOOLEAN : Rotate(force)
        \/ Start
        \/ Stop

Spec == Init /\ [][Next]_vars
-----------------------------------------------------------------------------
(* Properties *)

Decisions   == OfKind(Chain, "decision")
Allows      == {d \in Decisions : d.effect = "allow"}
\* What was really chained, as opposed to what a checkpoint says about it.
Own         == {m \in Chain : m.kind # "checkpoint"}

\* The state has the shape the code gives it, and an idle process no frame.
TypeOK ==
    /\ archive \in Seq(Records)
    /\ active \in Seq(Records)
    /\ pc \in Places
    /\ pc \in {"idle", "down"} => frame = NoFrame
    /\ pc \in {"decide", "submit"} => frame \in Frames
    /\ pc = "submit" => frame.decision \in Refs

\* Decision ids count the records of the whole chain and go on across a
\* rotation: the id a process would mint next after replaying only the active
\* segment is the one a process that never restarted would mint.
IdsContinue ==
    /\ \A i \in DOMAIN archive : archive[i].id = i
    /\ \A i \in DOMAIN active : active[i].id = Len(archive) + i

\* "Post-rotation behaviour identical by construction" (escalation.py:62-66):
\* what may still be decided or spent according to the active segment alone is
\* what the records of all segments together say.
OpenStateSurvivesRotation ==
    /\ Pending(Segment) = Pending(Own)
    /\ Approvals(Segment) = Approvals(Own)

\* One-shot: over the whole chain, with any number of rotations, restarts and
\* replays in between, a ref is consumed once and buys one allow.
SpentOnce ==
    /\ \A m, n \in OfKind(Chain, "consumed") : m.ref = n.ref => m = n
    /\ \A d, e \in Allows : d.approval = e.approval /\ d.approval # NoRef => d = e

\* No escalation is decided twice, whichever segment holds the decisions.
DecidedOnce == \A m, n \in OfKind(Chain, "resolved") : m.ref = n.ref => m = n

\* d was bought by the escalation of the same request, which was queued, then
\* approved, then spent, in this order and all before d.
Bought(d) ==
    \E e \in Decisions, s \in OfKind(Chain, "submitted"),
       r \in OfKind(Chain, "resolved"), c \in OfKind(Chain, "consumed") :
        /\ e.effect = "escalate" /\ e.id = d.approval
        /\ e.req = d.req /\ s.req = d.req
        /\ s.ref = e.id /\ r.ref = e.id /\ c.ref = e.id
        /\ r.approved
        /\ e.id < s.id /\ s.id < r.id /\ r.id < c.id /\ c.id < d.id

\* An escalating scope is allowed only when a human bought exactly this request.
EscalatingNeedsHuman == \A d \in Allows : d.req.action \in Escalating => Bought(d)

\* An allow without a human stays within the role's binding and the scope's
\* resources.
LeastPrivilege ==
    \A d \in Allows : d.req.action \notin Escalating =>
        /\ d.req.action \in Bindings[d.req.subject]
        /\ <<d.req.action, d.req.resource>> \in InScope

\* A repeated release request cannot flood the queue: one open row per triple.
OneRowPerRelease ==
    \A v, w \in Pending(Segment) : v.req = w.req /\ v.req.action \in Releases => v = w

\* A row joins the open rows only by its own escalate decision, and once it is
\* decided or spent it never comes back: not by a restart, not by a rotation.
NeverReopens ==
    [][/\ \A w \in Pending(Segment)' \ Pending(Segment) :
              w.ref \notin Resolved(Own) /\ w.ref \notin Consumed(Own)
       /\ \A w \in Approvals(Segment)' \ Approvals(Segment) : w \in Pending(Segment)]_vars

\* Whose allow, or whose queue row, the call in progress has still to record.
Buying  == {ref \in Refs : pc = "decide" /\ frame.approval = ref}
Queuing == {ref \in Refs : pc = "submit" /\ frame.decision = ref}

\* What a call left undone stays undone: an approval whose call ended between
\* its consumption and the allow (policy.py:129, a death or an append that
\* raised) buys nothing in any later call or process, and an escalate decision
\* whose call ended before the queue (enforcement.py:363) is never queued.
AbandonedIsFinal ==
    [][/\ \A ref \in Consumed(Own) \ Buying :
              /\ ref \notin Buying'
              /\ \A d \in Allows' : d.approval = ref => d \in Allows
       /\ \A d \in Decisions : d.effect = "escalate" /\ d.id \notin Queuing =>
              /\ d.id \notin Queuing'
              /\ \A s \in OfKind(Own, "submitted")' : s.ref = d.id => s \in Chain]_vars

-----------------------------------------------------------------------------
(* Why the properties hold: the facts every step keeps (IInv). *)

SubmittedRefs(records) == {w.ref : w \in Submitted(records)}

\* A segment opens with a checkpoint, so only a chain never rotated is empty,
\* and no record has an id of the future.
ChainShape == /\ active = <<>> => archive = <<>>
              /\ Sequence = Len(archive) + Len(active)
              /\ \A m \in Chain : m.id =< Sequence

\* What the active segment says happened did happen, and in the order of the
\* lifecycle: a ref is resolved only if submitted, consumed only if approved.
SegmentIsTrue ==
    /\ Submitted(Segment) \subseteq Submitted(Own)
    /\ Resolved(Segment) \subseteq Resolved(Own)
    /\ Approved(Segment) \subseteq Approved(Own)
    /\ Consumed(Segment) \subseteq Consumed(Own)
LifecycleOrder ==
    /\ Resolved(Own) \subseteq SubmittedRefs(Own)
    /\ Consumed(Own) \subseteq Approved(Own)
    /\ \A d \in Allows : d.approval # NoRef => d.approval \in Consumed(Own)

\* Every submitted record is backed by its escalate decision, every resolution
\* follows the submission it is about.
SubmittedIsBacked ==
    \A s \in OfKind(Own, "submitted") :
        \E e \in Decisions : /\ e.effect = "escalate" /\ e.id = s.ref
                             /\ e.req = s.req /\ e.id < s.id
ResolvedIsLater ==
    \A s \in OfKind(Own, "submitted"), r \in OfKind(Own, "resolved") :
        s.ref = r.ref => s.id < r.id

\* The history behind an approval that was just spent for req.
Paid(ref, req) ==
    \E e \in Decisions, s \in OfKind(Own, "submitted"),
       r \in OfKind(Own, "resolved"), c \in OfKind(Own, "consumed") :
        /\ e.effect = "escalate" /\ e.id = ref /\ e.req = req /\ s.req = req
        /\ s.ref = ref /\ r.ref = ref /\ c.ref = ref /\ r.approved
        /\ e.id < s.id /\ s.id < r.id /\ r.id < c.id

\* A frame about to record an allow has paid for it and not recorded it yet; a
\* frame about to submit has recorded its escalate decision and not queued it.
FrameIsTrue ==
    /\ pc = "decide" =>
          /\ frame.approval # NoRef =>
                /\ Paid(frame.approval, frame.req)
                /\ \A d \in Allows : d.approval # frame.approval
          /\ frame.effect = "allow" /\ frame.approval = NoRef =>
                frame.req.action \notin Escalating
    /\ pc = "submit" =>
          /\ frame.decision \notin SubmittedRefs(Own)
          /\ \E e \in Decisions : /\ e.effect = "escalate" /\ e.id = frame.decision
                                 /\ e.req = frame.req

\* The inductive invariant: everything above, and the safety properties.
IInv ==
    /\ TypeOK
    /\ ChainShape
    /\ SegmentIsTrue
    /\ LifecycleOrder
    /\ SubmittedIsBacked
    /\ ResolvedIsLater
    /\ FrameIsTrue
    /\ OpenStateSurvivesRotation

-----------------------------------------------------------------------------
\* The loop implements the abstract life of an approval: the status of a ref is
\* what all its records say, and it is honoured once an allow names it.
Fate(ref) == {m \in Chain : m.kind \in {"submitted", "resolved", "consumed"} /\ m.ref = ref}
StatusOf(ref) ==
    LET fate == Fate(ref)
    IN  IF \E m \in fate : m.kind = "consumed" THEN "spent"
        ELSE IF \E m \in fate : m.kind = "resolved" /\ m.approved THEN "approved"
        ELSE IF \E m \in fate : m.kind = "resolved" THEN "denied"
        ELSE IF \E m \in fate : m.kind = "submitted" THEN "pending"
        ELSE "none"

Lifecycle == INSTANCE ApprovalLifecycle
             WITH status   <- [ref \in Refs |-> StatusOf(ref)],
                  honoured <- {d.approval : d \in Allows} \ {NoRef}

\* Every step of the loop is a step of the lifecycle or leaves it alone.
ImplementsLifecycle == Lifecycle!Spec
=============================================================================
