----------------------------- MODULE Enforcement -----------------------------
(***************************************************************************)
(* The enforcement point (enforcement.py, plan.py, and tools/call and       *)
(* atb/declare_plan of the gateway): one tool call at a time is checked     *)
(* against the caller's declared plan, authorised, forwarded, and its       *)
(* response screened; a flagged response goes to quarantine, and comes out  *)
(* of it only through a response_release call that a human approved.        *)
(*                                                                          *)
(* A call is a sequence of steps, one per durable append or file operation, *)
(* and the process may die, or a purge may delete a file, between any two.  *)
(*     arrive -> ask -> decide -> submit                   (held)           *)
(*     arrive -> ask -> decide -> forward -> answer        (clean)          *)
(*     ... forward -> put -> rename -> ask -> decide -> submit  (flagged)   *)
(*     ... forward | put | rename -> withhold              (not storable)   *)
(*                                                                          *)
(* The chain is reduced to what it says of the escalations, `rows', and to  *)
(* the records the call in progress has appended; ApprovalLoop models it,   *)
(* and the policy, record by record.  Here the policy may refuse anything,  *)
(* grants what a human need not see, and asks a human for the rest.         *)
(***************************************************************************)
EXTENDS Quarantine, Sequences

CONSTANTS
    Subjects,
    Tools,         \* the tool map, response_release aside
    Gated,         \* the tools whose scope always needs a human
    Plans,         \* <<subject, tools>>: the plans agents declare
    Calls,         \* <<subject, tool or payload>>: what agents ask for
    Clean,         \* a response that passes the screening
    Unscreenable,  \* a response that cannot be screened, or not be stored
    MaxRows        \* bound: escalations in the queue

ASSUME PointAssumption ==
    /\ Gated \subseteq Tools
    /\ Tools \cap Payloads = {}
    /\ Plans \subseteq Subjects \X ((SUBSET Tools) \ {{}})
    /\ Calls \subseteq Subjects \X (Tools \cup Payloads)
    /\ Clean \notin Payloads /\ Unscreenable \notin Payloads /\ Clean # Unscreenable
    /\ MaxRows \in Nat

VARIABLES rows,         \* the escalations of the chain, the ref being the index
          plans,        \* the tools each subject declared, {} for no plan
          requirePlan,  \* ATB_REQUIRE_PLAN
          pc,           \* where the gateway is: see Places
          call,         \* the call in progress, or NoCall
          raced         \* history: a purge and the gateway ran at the same time

vars == <<store, rows, plans, requirePlan, pc, call, raced>>

Places == {"down", "idle", "ask", "decide", "submit", "forward", "put", "rename",
           "withhold", "answer"}

\* The triple an approval is bound to.
Requests == [subject : Subjects, kind : {"tool", "override"}, what : Tools]
                \cup [subject : Subjects, kind : {"release"}, what : Payloads]

Refs    == 1 .. MaxRows
NoRef   == 0
Nothing == "nothing"

RecordKinds == {"refusal", "consumed", "allow", "deny", "escalate", "submitted",
                "screening_refusal"}

\* tool: what was called; req: the question now before the policy; known: the
\* token verified when the plan was checked; spent: the approval the call used;
\* output: what of a response the agent is given; trail: the records appended.
CallRecords == [subject : Subjects, tool : Tools \cup {Nothing}, req : Requests,
                known : BOOLEAN, effect : {"none", "allow", "deny", "escalate", "error"},
                spent : Refs \cup {NoRef}, forwarded : BOOLEAN,
                output : Payloads \cup {Nothing, Clean, Unscreenable},
                trail : Seq(RecordKinds)]
NoCall == [subject |-> Nothing]

-----------------------------------------------------------------------------
RowsWith(req, status) == {i \in DOMAIN rows : rows[i] = [req |-> req, status |-> status]}

\* The contents a purge must keep: release rows pending, or approved and unspent.
OpenReleases == {i \in DOMAIN rows : /\ rows[i].req.kind = "release"
                                     /\ rows[i].status \in {"pending", "approved"}}
\* Mutant of Blocked: an approved row does not count as open.
BlockedByPending == {rows[i].req.what : i \in {j \in OpenReleases : rows[j].status = "pending"}}
Blocked == {rows[i].req.what : i \in OpenReleases}

Go(place, c) == pc' = place /\ call' = c
Keep == UNCHANGED <<store, rows, plans, requirePlan, raced>>
KeepRows == UNCHANGED <<rows, plans, requirePlan, raced>>

Triple(s, kind, what) == [subject |-> s, kind |-> kind, what |-> what]
New(s, tool, req, known) ==
    [subject |-> s, tool |-> tool, req |-> req, known |-> known, effect |-> "none",
     spent |-> NoRef, forwarded |-> FALSE, output |-> Nothing, trail |-> <<>>]

With(c, record) == [c EXCEPT !.trail = Append(@, record)]
Refusal(c) == With([c EXCEPT !.effect = "deny"], "refusal")

\* An unknown tool, arguments no resource derives from, a reserved context key.
Unmapped(s, t) ==
    /\ pc = "idle"
    /\ Go("answer", Refusal(New(s, t, Triple(s, "tool", t), FALSE)))
    /\ Keep

\* A release reads the blob first: without it no approval is asked for or spent.
CallRelease(s, p) ==
    LET c == New(s, Nothing, Triple(s, "release", p), FALSE)
    IN  /\ pc = "idle"
        /\ IF Get(p) THEN Go("ask", c) ELSE Go("answer", Refusal(c))
        /\ Keep

\* Mutant of Verdict: a plan binds only where one is required.
VerdictIfRequired(s, t) ==
    CASE ~requirePlan   -> "fits"
      [] plans[s] = {}  -> "plan_required"
      [] t \in plans[s] -> "fits"
      [] OTHER          -> "plan_divergence"

\* PlanBook.check; a subject without a plan may do anything unless one is required.
Verdict(s, t) ==
    CASE plans[s] = {} /\ requirePlan  -> "plan_required"
      [] plans[s] = {} /\ ~requirePlan -> "fits"
      [] t \in plans[s]                -> "fits"
      [] OTHER                         -> "plan_divergence"

\* The plan is checked for the subject the token verifies for; a token that does
\* not verify now (it may when the policy asks) has no plan.
CallTool(s, t, known) ==
    LET verdict == IF known THEN Verdict(s, t)
                   ELSE IF requirePlan THEN "plan_required" ELSE "fits"
        kind    == IF verdict = "plan_divergence" THEN "override" ELSE "tool"
        c       == New(s, t, Triple(s, kind, t), known)
    IN  /\ pc = "idle"
        /\ IF verdict = "plan_required" THEN Go("answer", Refusal(c)) ELSE Go("ask", c)
        /\ Keep

-----------------------------------------------------------------------------
\* Mutant of Coalesces: a row already decided is joined.
CoalescesWithAny(req) == req.kind = "release" /\ \E i \in DOMAIN rows : rows[i].req = req

\* A release joins the row of the same triple that is waiting for a human.
Coalesces(req) == req.kind = "release" /\ RowsWith(req, "pending") # {}
Escalates(req) == req.kind # "tool" \/ req.what \in Gated

\* The policy refuses, the token no longer verifying included.
Deny == /\ pc = "ask"
        /\ Go("decide", [call EXCEPT !.effect = "deny"])
        /\ Keep

Grant == /\ pc = "ask"
         /\ ~Escalates(call.req)
         /\ Go("decide", [call EXCEPT !.effect = "allow"])
         /\ Keep

\* The approvals a question may spend: the caller names one; a flag names none.
CallerRefs(c) == IF c.forwarded THEN {} ELSE DOMAIN rows

\* try_consume, its own append before the decision's.
Spend(ref) == /\ pc = "ask"
              /\ Escalates(call.req)
              /\ ref \in CallerRefs(call)
              /\ ref \in RowsWith(call.req, "approved")
              /\ rows' = [rows EXCEPT ![ref].status = "spent"]
              /\ Go("decide", With([call EXCEPT !.effect = "allow", !.spent = ref], "consumed"))
              /\ UNCHANGED <<store, plans, requirePlan, raced>>

Escalate == /\ pc = "ask"
            /\ Escalates(call.req)
            /\ Len(rows) < MaxRows \/ Coalesces(call.req)
            /\ Go("decide", [call EXCEPT !.effect = "escalate"])
            /\ Keep

\* Mutant of Served: the blob is read again when the approval has been spent.
ServedFromStore(p) == IF Get(p) THEN p ELSE Nothing
\* A release serves the bytes read before the decision.
Served(p) == p

\* Where an allow leads: on to the tool; nowhere, for an approved divergence; to
\* the bytes; and, were a flag ever allowed, to a refusal all the same.
Allowed(c) ==
    CASE c.req.kind = "tool"                    -> Go("forward", c)
      [] c.req.kind = "override"                -> Go("answer", c)
      [] c.req.kind = "release" /\ ~c.forwarded ->
            Go("answer", [c EXCEPT !.output = Served(c.req.what)])
      [] OTHER                                  -> Go("withhold", c)

\* The decision is appended, and the point acts on it.
Decide == LET c == With(call, call.effect)
          IN  /\ pc = "decide"
              /\ CASE c.effect = "allow"    -> Allowed(c)
                   [] c.effect = "deny"     -> Go("answer", c)
                   [] c.effect = "escalate" -> Go("submit", c)
              /\ Keep

Submit == /\ pc = "submit"
          /\ IF Coalesces(call.req)
             THEN Go("answer", call) /\ UNCHANGED rows
             ELSE /\ rows' = Append(rows, [req |-> call.req, status |-> "pending"])
                  /\ Go("answer", With(call, "submitted"))
          /\ UNCHANGED <<store, plans, requirePlan, raced>>

-----------------------------------------------------------------------------
\* Mutant of Screen: a screener that fails lets the response through.
ScreenOpen(response) == IF response \in Payloads THEN "hold" ELSE "relay"

\* The screener's verdict, and what its caller makes of an exception in it.
Screen(response) == CASE response = Clean        -> "relay"
                      [] response \in Payloads   -> "hold"
                      [] response = Unscreenable -> "withhold"

\* The tool is called.  Whatever it returns is screened before it goes anywhere.
Forward(response) ==
    LET c == [call EXCEPT !.forwarded = TRUE]
    IN  /\ pc = "forward"
        /\ CASE Screen(response) = "relay"    -> Go("answer", [c EXCEPT !.output = response])
             [] Screen(response) = "hold"     ->
                    Go("put", [c EXCEPT !.req = Triple(c.subject, "release", response)])
             [] Screen(response) = "withhold" -> Go("withhold", c)
        /\ Keep

\* The tool raises: the gateway reports a fixed text and nothing of the response.
Raise == /\ pc = "forward"
         /\ Go("answer", [call EXCEPT !.forwarded = TRUE, !.effect = "error"])
         /\ Keep

\* Mutant of Put: a write that failed is not noticed, and a human is asked.
PutUnnoticed ==
    LET p == call.req.what
    IN  /\ pc = "put"
        /\ \/ AlreadyStored(p) /\ Go("ask", call)
           \/ WriteTemp(p) /\ Go("rename", call)
           \/ Reject(p) /\ Go("withhold", call)
           \/ ~Get(p) /\ Fits(p) /\ FailWrite(p) /\ Go("ask", call)
        /\ KeepRows

\* The flagged response is stored before anyone is asked about it.
Put == LET p == call.req.what
       IN  /\ pc = "put"
           /\ \/ AlreadyStored(p) /\ Go("ask", call)
              \/ WriteTemp(p) /\ Go("rename", call)
              \/ Reject(p) /\ Go("withhold", call)
              \/ ~Get(p) /\ Fits(p) /\ FailWrite(p) /\ Go("withhold", call)
           /\ KeepRows

Replace == LET p == call.req.what
           IN  /\ pc = "rename"
               /\ \/ Rename(p) /\ Go("ask", call)
                  \/ FailWrite(p) /\ Go("withhold", call)
               /\ KeepRows

\* _screening_refusal: its own record, and nothing of the response.
Withhold == /\ pc = "withhold"
            /\ Go("answer", With([call EXCEPT !.effect = "deny"], "screening_refusal"))
            /\ Keep

Return == pc = "answer" /\ Go("idle", NoCall) /\ Keep

-----------------------------------------------------------------------------
\* declare_plan: the subject's plan is replaced.
DeclarePlan(s, plan) ==
    /\ pc = "idle"
    /\ plans' = [plans EXCEPT ![s] = plan]
    /\ UNCHANGED <<store, rows, requirePlan, pc, call, raced>>

\* A named human decides a row, between calls or with the gateway stopped.
Resolve(ref, approved) ==
    /\ pc \in {"idle", "down"}
    /\ rows[ref].status = "pending"
    /\ rows' = [rows EXCEPT ![ref].status = IF approved THEN "approved" ELSE "denied"]
    /\ UNCHANGED <<store, plans, requirePlan, pc, call, raced>>

\* The discipline: a purge runs while the gateway is stopped.
MayOverlap == "beside" \in Events

PlanPurge == /\ pc = "down" \/ MayOverlap
             /\ Scan(Blocked)
             /\ raced' = (raced \/ pc # "down")
             /\ UNCHANGED <<rows, plans, requirePlan, pc, call>>

Purging == /\ EndPurge \/ \E f \in purge : Unlink(f)
           /\ UNCHANGED <<rows, plans, requirePlan, pc, call, raced>>

Rot == /\ \E p \in Payloads : Damage(p)
       /\ UNCHANGED <<rows, plans, requirePlan, pc, call, raced>>

Start(required) ==
    /\ pc = "down"
    /\ purge = {} \/ MayOverlap
    /\ raced' = (raced \/ purge # {})
    /\ requirePlan' = required
    /\ Go("idle", NoCall)
    /\ UNCHANGED <<store, rows, plans>>

\* The process stops or dies, at any point; the plan book is in its memory only.
Stop == /\ pc # "down"
        /\ Go("down", NoCall)
        /\ plans' = [s \in Subjects |-> {}]
        /\ requirePlan' = FALSE
        /\ UNCHANGED <<store, rows, raced>>

Init == /\ StoreInit
        /\ rows = <<>>
        /\ plans = [s \in Subjects |-> {}]
        /\ requirePlan = FALSE
        /\ pc = "down"
        /\ call = NoCall
        /\ raced = FALSE

Arrive == \E c \in Calls :
    \/ c[2] \in Tools /\ Unmapped(c[1], c[2])
    \/ c[2] \in Tools /\ \E known \in BOOLEAN : CallTool(c[1], c[2], known)
    \/ c[2] \in Payloads /\ CallRelease(c[1], c[2])

Answering == \/ Deny \/ Grant \/ Escalate
             \/ \E ref \in DOMAIN rows : Spend(ref)
             \/ Decide \/ Submit
             \/ \E response \in Payloads \cup {Clean, Unscreenable} : Forward(response)
             \/ Raise \/ Put \/ Replace \/ Withhold \/ Return

Next == \/ Arrive
        \/ Answering
        \/ \E d \in Plans : DeclarePlan(d[1], d[2])
        \/ \E ref \in DOMAIN rows, approved \in BOOLEAN : Resolve(ref, approved)
        \/ PlanPurge
        \/ Purging
        \/ Rot
        \/ \E required \in BOOLEAN : Start(required)
        \/ Stop

Spec == Init /\ [][Next]_vars
-----------------------------------------------------------------------------
(* Properties *)

\* The state has the shape the code gives it, and an idle gateway no call.
TypeOK ==
    /\ StoreTypeOK
    /\ rows \in Seq([req : Requests, status : {"pending", "approved", "denied", "spent"}])
    /\ plans \in [Subjects -> SUBSET Tools]
    /\ requirePlan \in BOOLEAN /\ raced \in BOOLEAN
    /\ pc \in Places
    /\ IF pc \in {"down", "idle"} THEN call = NoCall ELSE call \in CallRecords

\* "Relay only a clean verdict" (enforcement.py:390): an agent is given a clean
\* response, or content a human approved for this subject and these very bytes,
\* by an approval this call used up; never an unscreened one.
FlaggedNeedsHuman ==
    (pc # "idle" /\ pc # "down" /\ call.output \notin {Nothing, Clean}) =>
        /\ call.spent \in DOMAIN rows
        /\ rows[call.spent] = [req |-> Triple(call.subject, "release", call.output),
                              status |-> "spent"]

\* "A storage fault refuses pre-decision and never spends the one-shot approval"
\* (enforcement.py:458-460): whatever the store loses meanwhile, a call that used
\* up a release approval answers with the whole content, unless the process dies.
ReleaseBuysBytes ==
    (pc = "answer" /\ call.spent # NoRef /\ rows[call.spent].req.kind = "release") =>
        call.effect = "allow" /\ call.output = rows[call.spent].req.what

\* "An approval must never dangle against content that was not stored"
\* (Response-Screening-and-Quarantine.md:391): while a release waits for a human
\* or for its use, its content is in the store, and all of it was written; the
\* file system may garble it later.  Purges beside the gateway are excepted.
OpenRowHasBlob ==
    ~raced => \A i \in OpenReleases : blobs[rows[i].req.what] \in {"good", "rotten"}

\* A tool is reached only within the caller's plan, as far as the token verified
\* when the plan was checked, and not at all without one where a plan is required;
\* a human's approval of the divergence does not change that (enforcement.py:346).
PlanBinds ==
    (pc # "idle" /\ pc # "down" /\ call.forwarded) =>
        /\ call.known /\ plans[call.subject] # {} => call.tool \in plans[call.subject]
        /\ requirePlan => call.known /\ plans[call.subject] # {}

\* The record accounting of Response-Screening-and-Quarantine.md:338-350: the
\* records a finished call has appended, in order, by what became of it.
Honoured(c) == IF c.spent # NoRef THEN <<"consumed", "allow">> ELSE <<"allow">>
First(c)    == IF c.forwarded THEN Honoured(c) ELSE <<>>
Accounts(c) ==
    LET asked  == Append(First(c), "escalate")
        joined == IF c.req.kind = "release" THEN {asked} ELSE {}
    IN  CASE c.effect = "escalate" -> {Append(asked, "submitted")} \cup joined
          [] c.effect = "deny"     -> {Append(First(c), "deny"),
                                       Append(First(c), IF c.forwarded THEN "screening_refusal"
                                                                       ELSE "refusal")}
          [] c.effect = "error"    -> {First(c)}
          [] c.effect = "allow"    -> IF c.forwarded THEN {First(c)}
                                      ELSE {<<"consumed", "allow">>}

Accounted ==
    pc = "answer" =>
        /\ call.trail \in Accounts(call)
        \* what is told to wait for a human does wait, in one row if it is a release
        /\ call.effect = "escalate" =>
              /\ RowsWith(call.req, "pending") # {}
              /\ call.req.kind = "release" => Cardinality(RowsWith(call.req, "pending")) = 1
-----------------------------------------------------------------------------
(* Why they hold: the inductive invariant *)

InCall == pc \notin {"down", "idle"}

\* Releases that wait are told apart by what they ask for.
QueueShape ==
    /\ Len(rows) =< MaxRows
    /\ \A i, j \in DOMAIN rows :
          (rows[i].req.kind = "release" /\ rows[i].status = "pending" /\ rows[j] = rows[i]) => i = j

\* The approval a call used is its own, for what it asked when it used it.
SpentIsOwn ==
    InCall =>
        /\ call.req.subject = call.subject
        /\ call.spent # NoRef =>
              /\ call.spent \in DOMAIN rows
              /\ rows[call.spent].status = "spent"
              /\ IF call.forwarded THEN rows[call.spent].req.kind = "tool"
                                   ELSE rows[call.spent].req = call.req

\* A question that is asked of the policy, or was answered and not acted on.
Asking ==
    /\ call.output = Nothing
    /\ call.forwarded => call.req.kind = "release"
    /\ call.effect # "allow" /\ ~call.forwarded => call.spent = NoRef
    /\ call.effect = "escalate" => Len(rows) < MaxRows \/ Coalesces(call.req)

\* Where a call is says what it has done.
CallShape ==
    /\ pc = "ask" => Asking /\ call.effect = IF call.forwarded THEN "allow" ELSE "none"
    /\ pc = "decide" => /\ Asking
                        /\ call.effect \in {"allow", "deny", "escalate"}
                        /\ call.effect = "allow" => /\ ~call.forwarded
                                                    /\ call.spent # NoRef \/ call.req.kind = "tool"
    /\ pc = "submit" => Asking /\ call.effect = "escalate"
    /\ pc = "forward" => /\ ~call.forwarded
                         /\ call.req.kind = "tool"
                         /\ call.effect = "allow"
                         /\ call.output = Nothing
    /\ pc \in {"put", "rename"} => /\ call.forwarded
                                   /\ call.req.kind = "release"
                                   /\ call.effect = "allow"
                                   /\ call.output = Nothing
    /\ pc = "withhold" => call.forwarded /\ call.output = Nothing

\* What an answer gives, and what a used release approval gave.
AnswerShape ==
    pc = "answer" =>
        /\ call.output \notin {Nothing, Clean} =>
              /\ call.req.kind = "release" /\ call.output = call.req.what
              /\ ~call.forwarded /\ call.spent # NoRef
        /\ (call.spent # NoRef /\ ~call.forwarded /\ call.req.kind = "release") =>
              call.effect = "allow" /\ call.output = call.req.what
        /\ call.effect = "escalate" => RowsWith(call.req, "pending") # {}

\* The plan was checked before the question, and stands.
PlanStands ==
    (InCall /\ (call.forwarded \/ (pc # "answer" /\ call.req.kind = "tool"))) =>
        /\ call.known /\ plans[call.subject] # {} => call.tool \in plans[call.subject]
        /\ requirePlan => call.known /\ plans[call.subject] # {}

\* The records so far.
TrailSoFar ==
    /\ pc \in {"ask", "put", "rename", "withhold"} => call.trail = First(call)
    /\ pc = "decide" => call.trail = IF call.spent # NoRef /\ ~call.forwarded
                                     THEN <<"consumed">> ELSE First(call)
    /\ pc = "forward" => call.trail = Honoured(call)
    /\ pc = "submit" => call.trail = Append(First(call), "escalate")
    /\ pc = "answer" => call.trail \in Accounts(call)

Stored(p) == blobs[p] \in {"good", "rotten"}

\* What a human decides about, or is about to be asked about, is stored, and no
\* purge is on its way to it.
StoreShape ==
    ~raced =>
        /\ pc # "down" => purge = {}
        /\ \A p \in Blocked : Stored(p) /\ <<"blob", p>> \notin purge
        /\ (pc \in {"ask", "decide", "submit"} /\ call.req.kind = "release") => Stored(call.req.what)

\* Inductive: what the properties above rest on.
IInv == /\ TypeOK
        /\ QueueShape
        /\ SpentIsOwn
        /\ CallShape
        /\ AnswerShape
        /\ PlanStands
        /\ TrailSoFar
        /\ "short" \notin Events => StoreShape
=============================================================================
