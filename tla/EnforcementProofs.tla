-------------------------- MODULE EnforcementProofs --------------------------
(***************************************************************************)
(* Theorems about the enforcement point and its quarantine, for any agents, *)
(* tools, plans, responses, budget and number of escalations.               *)
(*                                                                          *)
(* The argument: where a call is tells what it has asked, spent and         *)
(* appended (CallShape, TrailSoFar), and what it spent was for what it      *)
(* asked (SpentIsOwn).  A step of a call moves all three along; a human, a  *)
(* purge or a restart moves none of them.  The store is apart: StoreShape   *)
(* says that a purge and an open release never meet.                        *)
(***************************************************************************)
EXTENDS Enforcement, Integers, SequenceTheorems, FiniteSetTheorems, TLAPS

-----------------------------------------------------------------------------
(* Types *)

Row == [req : Requests, status : {"pending", "approved", "denied", "spent"}]

\* A call in progress is a call.
LEMMA CallTyped == ASSUME TypeOK, InCall PROVE call \in CallRecords
BY DEF TypeOK, InCall

\* A call with one more record is a call.
LEMMA WithTyped ==
    ASSUME NEW c \in CallRecords, NEW record \in RecordKinds
    PROVE  /\ With(c, record) \in CallRecords
           /\ With(c, record).trail = Append(c.trail, record)
           /\ With(c, record) = [c EXCEPT !.trail = Append(c.trail, record)]
BY DEF With, CallRecords

\* A new call is a call.
LEMMA NewTyped ==
    ASSUME NEW s \in Subjects, NEW tool \in Tools \cup {Nothing}, NEW req \in Requests,
           NEW known \in BOOLEAN
    PROVE  /\ New(s, tool, req, known) \in CallRecords
           /\ Refusal(New(s, tool, req, known)) \in CallRecords
<1>1. New(s, tool, req, known) \in CallRecords
  BY DEF New, CallRecords, NoRef
<1>2. [New(s, tool, req, known) EXCEPT !.effect = "deny"] \in CallRecords
  BY <1>1 DEF CallRecords
<1>3. "refusal" \in RecordKinds
  BY DEF RecordKinds
<1>4. QED  BY <1>1, <1>2, <1>3, WithTyped DEF Refusal

\* The questions the policy is asked.
LEMMA TripleTyped ==
    ASSUME NEW s \in Subjects
    PROVE  /\ \A t \in Tools : Triple(s, "tool", t) \in Requests /\ Triple(s, "override", t) \in Requests
           /\ \A p \in Payloads : Triple(s, "release", p) \in Requests
BY DEF Triple, Requests

\* Short sequences.
LEMMA ShortTuples ==
    ASSUME NEW a, NEW b
    PROVE  /\ Append(<<>>, a) = <<a>>
           /\ Append(<<a>>, b) = <<a, b>>
<1>1. Append(<<>>, a) = <<a>>
  OBVIOUS
<1>2. Append(<<a>>, b) = <<a, b>>
  <2> DEFINE S == {a, b}
  <2>1. <<a>> \in Seq(S) /\ <<a, b>> \in Seq(S) /\ Append(<<a>>, b) \in Seq(S)
    OBVIOUS
  <2>2. Len(Append(<<a>>, b)) = 2 /\ Len(<<a, b>>) = 2
    OBVIOUS
  <2>3. Append(<<a>>, b)[1] = a /\ Append(<<a>>, b)[2] = b
    OBVIOUS
  <2>4. \A i \in 1 .. 2 : Append(<<a>>, b)[i] = <<a, b>>[i]
    BY <2>3
  <2>5. QED  BY <2>1, <2>2, <2>4, SeqEqual
<1>3. QED  BY <1>1, <1>2

\* The records of a finished call, by its effect.
LEMMA AccountsOf ==
    ASSUME NEW c
    PROVE  /\ c.effect = "deny" =>
                 Accounts(c) = {Append(First(c), "deny"),
                                Append(First(c), IF c.forwarded THEN "screening_refusal"
                                                                ELSE "refusal")}
           /\ c.effect = "error" => Accounts(c) = {First(c)}
           /\ c.effect = "allow" /\ c.forwarded => Accounts(c) = {First(c)}
           /\ c.effect = "allow" /\ ~c.forwarded => Accounts(c) = {<<"consumed", "allow">>}
           /\ c.effect = "escalate" =>
                 /\ Append(Append(First(c), "escalate"), "submitted") \in Accounts(c)
                 /\ c.req.kind = "release" => Append(First(c), "escalate") \in Accounts(c)
BY DEF Accounts

\* A step that leaves the rest of the state alone keeps its type.
LEMMA KeepTyped ==
    ASSUME TypeOK, Keep, pc' \in Places,
           IF pc' \in {"down", "idle"} THEN call' = NoCall ELSE call' \in CallRecords
    PROVE  TypeOK'
BY DEF TypeOK, Keep, store, StoreTypeOK

\* ... and the store and the queue their shape.
LEMMA KeepShapes ==
    ASSUME IInv, Keep, InCall \/ pc = "idle",
           "short" \in Events \/ raced \/ pc' \notin {"ask", "decide", "submit"}
             \/ call'.req.kind # "release" \/ Stored(call'.req.what)
    PROVE  /\ QueueShape'
           /\ "short" \notin Events => StoreShape'
<1>1. QueueShape'
  BY DEF IInv, QueueShape, Keep
<1>2. Blocked' = Blocked /\ blobs' = blobs /\ purge' = purge /\ raced' = raced
  BY DEF Keep, Blocked, OpenReleases, store
<1>3. ASSUME "short" \notin Events, ~raced' PROVE StoreShape'
  <2>1. StoreShape /\ pc # "down"
    BY <1>3 DEF IInv, InCall
  <2>2. purge' = {} /\ \A p \in Blocked : Stored(p)
    BY <1>2, <1>3, <2>1 DEF StoreShape
  <2>3. ((pc \in {"ask", "decide", "submit"} /\ call.req.kind = "release") => Stored(call.req.what))'
    BY <1>2, <1>3 DEF Stored
  <2>4. (\A p \in Blocked : Stored(p) /\ <<"blob", p>> \notin purge)'
    <3>1. \A p : Stored(p)' <=> Stored(p)
      BY <1>2 DEF Stored
    <3>2. QED  BY <1>2, <2>2, <3>1
  <2>5. QED  BY <2>2, <2>3, <2>4 DEF StoreShape
<1>4. QED  BY <1>1, <1>3 DEF StoreShape

-----------------------------------------------------------------------------
(* A call arrives *)

\* A call that is refused before it asks anything.
LEMMA RefusedAtOnce ==
    ASSUME IInv, NEW s \in Subjects, NEW tool \in Tools \cup {Nothing}, NEW req \in Requests,
           NEW known \in BOOLEAN, req.subject = s,
           pc = "idle", pc' = "answer", call' = Refusal(New(s, tool, req, known)), Keep
    PROVE  IInv'
<1> DEFINE c == Refusal(New(s, tool, req, known))
<1>1. c \in CallRecords
  BY NewTyped
<1>2. /\ c.subject = s /\ c.req = req /\ c.spent = NoRef /\ c.forwarded = FALSE
      /\ c.output = Nothing /\ c.effect = "deny" /\ c.trail = <<"refusal">>
  BY DEF Refusal, New, With
<1> HIDE DEF c
<1>3. call' = c
  BY DEF c
<1>4. TypeOK'
  BY <1>1, <1>3, KeepTyped DEF IInv, Places
<1>5. QueueShape' /\ ("short" \notin Events => StoreShape')
  BY KeepShapes
<1>6. SpentIsOwn'
  BY <1>2, <1>3 DEF SpentIsOwn
<1>7. CallShape' /\ AnswerShape'
  BY <1>2, <1>3 DEF CallShape, AnswerShape
<1>8. PlanStands'
  BY <1>2, <1>3 DEF PlanStands
<1>9. TrailSoFar'
  <2>1. Accounts(c) = {<<"deny">>, <<"refusal">>}
    BY <1>2, AccountsOf, ShortTuples DEF First
  <2>2. QED  BY <1>2, <1>3, <2>1 DEF TrailSoFar
<1>10. QED  BY <1>4, <1>5, <1>6, <1>7, <1>8, <1>9 DEF IInv

\* A call that goes on to the policy: its plan allows it, or its content is there.
LEMMA AsksThePolicy ==
    ASSUME IInv, NEW s \in Subjects, NEW tool \in Tools \cup {Nothing}, NEW req \in Requests,
           NEW known \in BOOLEAN, req.subject = s,
           pc = "idle", pc' = "ask", call' = New(s, tool, req, known), Keep,
           req.kind = "tool" =>
               /\ known /\ plans[s] # {} => tool \in plans[s]
               /\ requirePlan => known /\ plans[s] # {},
           req.kind = "release" => Stored(req.what)
    PROVE  IInv'
<1> DEFINE c == New(s, tool, req, known)
<1>1. c \in CallRecords
  BY NewTyped
<1>2. /\ c.subject = s /\ c.req = req /\ c.spent = NoRef /\ c.forwarded = FALSE
      /\ c.tool = tool /\ c.known = known
      /\ c.output = Nothing /\ c.effect = "none" /\ c.trail = <<>>
  BY DEF New
<1> HIDE DEF c
<1>3. call' = c
  BY DEF c
<1>4. TypeOK'
  BY <1>1, <1>3, KeepTyped DEF IInv, Places
<1>5. QueueShape' /\ ("short" \notin Events => StoreShape')
  BY <1>2, <1>3, KeepShapes
<1>6. SpentIsOwn'
  BY <1>2, <1>3 DEF SpentIsOwn
<1>7. CallShape' /\ AnswerShape'
  BY <1>2, <1>3 DEF CallShape, AnswerShape, Asking
<1>8. PlanStands'
  BY <1>2, <1>3 DEF PlanStands, Keep
<1>9. TrailSoFar'
  BY <1>2, <1>3 DEF TrailSoFar, First
<1>10. QED  BY <1>4, <1>5, <1>6, <1>7, <1>8, <1>9 DEF IInv

\* A call whose resource cannot be derived is refused before anything is asked.
LEMMA UnmappedKeeps ==
    ASSUME IInv, NEW s \in Subjects, NEW t \in Tools, Unmapped(s, t)
    PROVE  IInv'
<1>1. Triple(s, "tool", t) \in Requests /\ Triple(s, "tool", t).subject = s
  BY TripleTyped DEF Triple
<1>2. QED  BY <1>1, RefusedAtOnce DEF Unmapped, Go

\* A request for a release is refused unless its content is stored, whole.
LEMMA CallReleaseKeeps ==
    ASSUME IInv, NEW s \in Subjects, NEW p \in Payloads, CallRelease(s, p)
    PROVE  IInv'
<1> DEFINE req == Triple(s, "release", p)
<1>1. /\ req \in Requests /\ req.subject = s /\ req.kind = "release" /\ req.what = p
  BY TripleTyped DEF Triple
<1> HIDE DEF req
<1>2. CASE Get(p)
  <2>1. Stored(p)
    BY <1>2 DEF Get, Stored
  <2>2. pc = "idle" /\ pc' = "ask" /\ call' = New(s, Nothing, req, FALSE) /\ Keep
    BY <1>2 DEF CallRelease, Go, req
  <2>3. QED  BY <1>1, <2>1, <2>2, AsksThePolicy
<1>3. CASE ~Get(p)
  <2>1. pc = "idle" /\ pc' = "answer" /\ call' = Refusal(New(s, Nothing, req, FALSE)) /\ Keep
    BY <1>3 DEF CallRelease, Go, req
  <2>2. QED  BY <1>1, <2>1, RefusedAtOnce
<1>4. QED  BY <1>2, <1>3

\* A tool call is refused, or asks for a human, or goes to the policy, by its plan.
LEMMA CallToolKeeps ==
    ASSUME IInv, NEW s \in Subjects, NEW t \in Tools, NEW known \in BOOLEAN, CallTool(s, t, known)
    PROVE  IInv'
<1> DEFINE verdict == IF known THEN Verdict(s, t)
                      ELSE IF requirePlan THEN "plan_required" ELSE "fits"
           kind == IF verdict = "plan_divergence" THEN "override" ELSE "tool"
           req == Triple(s, kind, t)
<1>1. /\ req \in Requests /\ req.subject = s /\ req.kind = kind
  BY TripleTyped DEF Triple
<1>2. verdict \notin {"plan_required", "plan_divergence"} =>
          /\ known /\ plans[s] # {} => t \in plans[s]
          /\ requirePlan => known /\ plans[s] # {}
  BY DEF Verdict, IInv, TypeOK
<1>3. /\ pc = "idle" /\ Keep
      /\ IF verdict = "plan_required" THEN pc' = "answer" /\ call' = Refusal(New(s, t, req, known))
                                      ELSE pc' = "ask" /\ call' = New(s, t, req, known)
  BY DEF CallTool, Go
<1>4. kind = "tool" /\ verdict # "plan_required" => verdict \notin {"plan_required", "plan_divergence"}
  OBVIOUS
<1>5. kind # "release"
  OBVIOUS
<1> HIDE DEF req, kind, verdict
<1>6. CASE verdict = "plan_required"
  BY <1>1, <1>3, <1>6, RefusedAtOnce
<1>7. CASE verdict # "plan_required"
  BY <1>1, <1>2, <1>3, <1>4, <1>5, <1>7, AsksThePolicy
<1>8. QED  BY <1>6, <1>7

-----------------------------------------------------------------------------
(* The policy answers *)

\* The fields of a call whose effect is set.
LEMMA EffectSet ==
    ASSUME NEW c \in CallRecords, NEW e \in {"none", "allow", "deny", "escalate", "error"},
           NEW d, d = [c EXCEPT !.effect = e]
    PROVE  /\ d \in CallRecords
           /\ d.effect = e
           /\ d.subject = c.subject /\ d.tool = c.tool /\ d.req = c.req /\ d.known = c.known
           /\ d.spent = c.spent /\ d.forwarded = c.forwarded /\ d.output = c.output
           /\ d.trail = c.trail
           /\ First(d) = First(c) /\ Honoured(d) = Honoured(c)
BY DEF CallRecords, First, Honoured

\* An answer that spends nothing.
LEMMA AnsweredKeeps ==
    ASSUME IInv, pc = "ask", NEW e \in {"allow", "deny", "escalate"},
           e = "allow" => ~Escalates(call.req),
           e = "escalate" => Len(rows) < MaxRows \/ Coalesces(call.req),
           Go("decide", [call EXCEPT !.effect = e]), Keep
    PROVE  IInv'
<1> DEFINE d == [call EXCEPT !.effect = e]
<1>1. InCall /\ call \in CallRecords
  BY CallTyped DEF IInv, InCall
<1>2. /\ d \in CallRecords
      /\ d.effect = e
      /\ d.subject = call.subject /\ d.tool = call.tool /\ d.req = call.req
      /\ d.known = call.known
      /\ d.spent = call.spent /\ d.forwarded = call.forwarded /\ d.output = call.output
      /\ d.trail = call.trail
      /\ First(d) = First(call)
  <2>1. d = [call EXCEPT !.effect = e]
    OBVIOUS
  <2> HIDE DEF d
  <2>2. QED  BY <1>1, <2>1, EffectSet
<1> HIDE DEF d
<1>3. pc' = "decide" /\ call' = d
  BY DEF Go, d
<1>4. /\ Asking /\ call.effect = IF call.forwarded THEN "allow" ELSE "none"
      /\ ~call.forwarded => call.spent = NoRef
  BY DEF IInv, CallShape, Asking
<1>5. rows' = rows /\ plans' = plans /\ requirePlan' = requirePlan
  BY DEF Keep
<1>6. TypeOK'
  BY <1>2, <1>3, KeepTyped DEF IInv, Places
<1>7. QueueShape' /\ ("short" \notin Events => StoreShape')
  <2>1. "short" \in Events \/ raced \/ d.req.kind # "release" \/ Stored(d.req.what)
    BY <1>2 DEF IInv, StoreShape
  <2>2. QED  BY <1>1, <1>3, <2>1, KeepShapes
<1>8. SpentIsOwn'
  BY <1>1, <1>2, <1>3, <1>5 DEF IInv, SpentIsOwn
<1>9. CallShape'
  <2>1. e = "allow" => call.req.kind = "tool" /\ ~call.forwarded
    BY <1>4 DEF Escalates, Asking
  <2>2. (Len(rows) < MaxRows \/ Coalesces(call.req)) => (Len(rows) < MaxRows \/ Coalesces(call.req))'
    BY <1>2, <1>3, <1>5 DEF Coalesces, RowsWith
  <2>3. Asking'
    BY <1>2, <1>3, <1>4, <2>2 DEF Asking
  <2>4. QED  BY <1>2, <1>3, <2>1, <2>3 DEF CallShape
<1>10. AnswerShape'
  BY <1>3 DEF AnswerShape
<1>11. PlanStands'
  BY <1>1, <1>2, <1>3, <1>5 DEF IInv, PlanStands, InCall
<1>12. TrailSoFar'
  BY <1>2, <1>3, <1>4 DEF IInv, TrailSoFar
<1>13. QED  BY <1>6, <1>7, <1>8, <1>9, <1>10, <1>11, <1>12 DEF IInv

\* The policy says no: nothing is spent.
LEMMA DenyKeeps == ASSUME IInv, Deny PROVE IInv'
BY AnsweredKeeps DEF Deny

\* The policy says yes by itself: only to a tool call.
LEMMA GrantKeeps == ASSUME IInv, Grant PROVE IInv'
BY AnsweredKeeps DEF Grant

\* The policy asks for a human: there is a row, or room for one.
LEMMA EscalateKeeps == ASSUME IInv, Escalate PROVE IInv'
BY AnsweredKeeps DEF Escalate

\* A row that is open and is decided, or spent: the queue keeps its shape, and no
\* more contents are open than were.
LEMMA RowSettled ==
    ASSUME TypeOK, QueueShape, NEW ref \in DOMAIN rows, NEW st \in {"approved", "denied", "spent"},
           rows[ref].status \in {"pending", "approved"},
           rows' = [rows EXCEPT ![ref].status = st]
    PROVE  /\ rows' \in Seq(Row)
           /\ Len(rows') = Len(rows) /\ DOMAIN rows' = DOMAIN rows
           /\ rows'[ref].req = rows[ref].req /\ rows'[ref].status = st
           /\ \A i \in DOMAIN rows \ {ref} : rows'[i] = rows[i]
           /\ \A i \in DOMAIN rows : rows'[i].req = rows[i].req
           /\ QueueShape'
           /\ Blocked' \subseteq Blocked
<1>1. rows \in Seq(Row)
  BY DEF TypeOK, Row
<1>2. rows[ref] \in Row /\ [rows[ref] EXCEPT !.status = st] \in Row
  <2>1. rows[ref] \in Row
    BY <1>1
  <2>2. QED  BY <2>1 DEF Row
<1>3. /\ rows' \in Seq(Row)
      /\ Len(rows') = Len(rows) /\ DOMAIN rows' = DOMAIN rows
      /\ rows'[ref] = [rows[ref] EXCEPT !.status = st]
      /\ \A i \in DOMAIN rows \ {ref} : rows'[i] = rows[i]
  BY <1>1, <1>2
<1>4. rows'[ref].req = rows[ref].req /\ rows'[ref].status = st
  BY <1>2, <1>3 DEF Row
<1>5. \A i \in DOMAIN rows : rows'[i].req = rows[i].req
  BY <1>3, <1>4
<1>6. QueueShape'
  BY <1>3, <1>4 DEF QueueShape
<1>7. Blocked' \subseteq Blocked
  <2>1. OpenReleases' \subseteq OpenReleases
    BY <1>3, <1>4, <1>5 DEF OpenReleases
  <2>2. \A i \in OpenReleases' : i \in DOMAIN rows
    BY <1>3 DEF OpenReleases
  <2>3. QED  BY <1>5, <2>1, <2>2 DEF Blocked
<1>8. QED  BY <1>3, <1>4, <1>5, <1>6, <1>7

\* What open releases are about is content.
LEMMA BlockedTyped == ASSUME TypeOK PROVE Blocked \subseteq Payloads
<1>1. rows \in Seq(Row)
  BY DEF TypeOK, Row
<1>2. \A i \in DOMAIN rows : rows[i] \in Row
  BY <1>1
<1>3. \A i \in DOMAIN rows : rows[i].req \in Requests
  BY <1>2 DEF Row
<1>4. QED  BY <1>3 DEF Blocked, OpenReleases, Requests

\* An approval is spent: a row of exactly this request, approved until now.
LEMMA SpendKeeps == ASSUME IInv, NEW ref \in DOMAIN rows, Spend(ref) PROVE IInv'
<1> DEFINE d == [call EXCEPT !.effect = "allow", !.spent = ref]
           e == With(d, "consumed")
<1>1. InCall /\ call \in CallRecords /\ TypeOK /\ QueueShape
  BY CallTyped DEF IInv, InCall, Spend
<1>2. /\ pc = "ask" /\ ~call.forwarded /\ ref \in RowsWith(call.req, "approved")
      /\ rows' = [rows EXCEPT ![ref].status = "spent"]
      /\ pc' = "decide" /\ call' = e
      /\ UNCHANGED <<store, plans, requirePlan, raced>>
  BY DEF Spend, Go, CallerRefs
<1>3. rows[ref] = [req |-> call.req, status |-> "approved"]
  BY <1>2 DEF RowsWith
<1>4. ref \in Refs
  BY <1>1, PointAssumption DEF TypeOK, QueueShape, Refs
<1>5. /\ d \in CallRecords /\ d.effect = "allow" /\ d.spent = ref
      /\ d.subject = call.subject /\ d.tool = call.tool /\ d.req = call.req
      /\ d.known = call.known /\ d.forwarded = call.forwarded /\ d.output = call.output
      /\ d.trail = call.trail
  BY <1>1, <1>4 DEF CallRecords
<1>6. "consumed" \in RecordKinds
  BY DEF RecordKinds
<1> HIDE DEF d
<1>7. /\ e \in CallRecords /\ e.effect = "allow" /\ e.spent = ref
      /\ e.subject = call.subject /\ e.tool = call.tool /\ e.req = call.req
      /\ e.known = call.known /\ e.forwarded = call.forwarded /\ e.output = call.output
      /\ e.trail = Append(call.trail, "consumed")
  <2>1. e \in CallRecords /\ e = [d EXCEPT !.trail = Append(d.trail, "consumed")]
    BY <1>5, <1>6, WithTyped
  <2> HIDE DEF e
  <2>2. QED  BY <1>5, <2>1 DEF CallRecords
<1> HIDE DEF e
<1>8. /\ rows' \in Seq(Row) /\ DOMAIN rows' = DOMAIN rows
      /\ rows'[ref].req = call.req /\ rows'[ref].status = "spent"
      /\ QueueShape'
      /\ Blocked' \subseteq Blocked
  <2>1. rows[ref].status = "approved" /\ rows[ref].req = call.req
    BY <1>3
  <2>2. QED  BY <1>1, <1>2, <2>1, RowSettled
<1>9. /\ Asking /\ call.spent = NoRef /\ call.trail = <<>>
  BY <1>2 DEF IInv, CallShape, Asking, TrailSoFar, First
<1>10. TypeOK'
  BY <1>1, <1>2, <1>7, <1>8 DEF TypeOK, StoreTypeOK, store, Places, Row
<1>11. SpentIsOwn'
  BY <1>1, <1>2, <1>7, <1>8 DEF IInv, SpentIsOwn
<1>12. CallShape'
  <2>1. ref # NoRef
    BY <1>4, PointAssumption DEF Refs, NoRef
  <2>2. Asking'
    BY <1>2, <1>7, <1>9 DEF Asking
  <2>3. QED  BY <1>2, <1>7, <2>1, <2>2 DEF CallShape
<1>13. AnswerShape'
  BY <1>2 DEF AnswerShape
<1>14. PlanStands'
  BY <1>1, <1>2, <1>7 DEF IInv, PlanStands, InCall
<1>15. TrailSoFar'
  <2>1. e.trail = <<"consumed">> /\ e.spent # NoRef
    BY <1>4, <1>7, <1>9, ShortTuples, PointAssumption DEF Refs, NoRef
  <2>2. QED  BY <1>2, <1>7, <2>1 DEF TrailSoFar
<1>16. ASSUME "short" \notin Events PROVE StoreShape'
  <2>1. StoreShape
    BY <1>16 DEF IInv
  <2>2. blobs' = blobs /\ purge' = purge /\ raced' = raced
    BY <1>2 DEF store
  <2>3. \A p : Stored(p)' <=> Stored(p)
    BY <2>2 DEF Stored
  <2>4. QED  BY <1>2, <1>7, <1>8, <2>1, <2>2, <2>3 DEF StoreShape, Stored
<1>17. QED  BY <1>8, <1>10, <1>11, <1>12, <1>13, <1>14, <1>15, <1>16 DEF IInv

-----------------------------------------------------------------------------
(* The decision is acted on *)

\* The fields of a call with one more record.
LEMMA WithFields ==
    ASSUME NEW c \in CallRecords, NEW record \in RecordKinds, NEW d, d = With(c, record)
    PROVE  /\ d \in CallRecords
           /\ d.subject = c.subject /\ d.tool = c.tool /\ d.req = c.req /\ d.known = c.known
           /\ d.effect = c.effect /\ d.spent = c.spent /\ d.forwarded = c.forwarded
           /\ d.output = c.output
           /\ d.trail = Append(c.trail, record)
           /\ First(d) = First(c) /\ Honoured(d) = Honoured(c)
<1>1. d \in CallRecords /\ d = [c EXCEPT !.trail = Append(c.trail, record)]
  BY WithTyped
<1>2. /\ d.subject = c.subject /\ d.tool = c.tool /\ d.req = c.req /\ d.known = c.known
      /\ d.effect = c.effect /\ d.spent = c.spent /\ d.forwarded = c.forwarded
      /\ d.output = c.output
      /\ d.trail = Append(c.trail, record)
  BY <1>1 DEF CallRecords
<1>3. QED  BY <1>1, <1>2 DEF First, Honoured

\* The call as Decide leaves it, the output aside.
LEMMA Decided ==
    ASSUME IInv, pc = "decide", NEW c, c = With(call, call.effect)
    PROVE  /\ InCall /\ call \in CallRecords /\ c \in CallRecords
           /\ c.subject = call.subject /\ c.tool = call.tool /\ c.req = call.req
           /\ c.known = call.known
           /\ c.effect = call.effect /\ c.spent = call.spent /\ c.forwarded = call.forwarded
           /\ c.output = Nothing
           /\ c.trail = Append(call.trail, call.effect)
           /\ First(c) = First(call) /\ Honoured(c) = Honoured(call)
<1>1. InCall /\ call \in CallRecords
  BY CallTyped DEF IInv, InCall
<1>2. call.effect \in RecordKinds /\ call.output = Nothing
  BY DEF IInv, CallShape, Asking, RecordKinds
<1>3. QED  BY <1>1, <1>2, WithFields

\* An allow is recorded: the tool is forwarded, or the release served whole.
LEMMA DecideAllowKeeps == ASSUME IInv, Decide, call.effect = "allow" PROVE IInv'
<1> DEFINE c == With(call, call.effect)
<1>1. pc = "decide" /\ Allowed(c) /\ Keep
  <2>1. pc = "decide" /\ Keep
    BY DEF Decide
  <2>2. c.effect = "allow"
    BY <2>1, Decided
  <2> HIDE DEF c
  <2>3. QED  BY <2>1, <2>2 DEF Decide, c
<1>2. /\ InCall /\ call \in CallRecords /\ c \in CallRecords
      /\ c.subject = call.subject /\ c.tool = call.tool /\ c.req = call.req
      /\ c.known = call.known
      /\ c.effect = "allow" /\ c.spent = call.spent /\ c.forwarded = call.forwarded
      /\ c.output = Nothing
      /\ c.trail = Append(call.trail, "allow")
      /\ First(c) = First(call) /\ Honoured(c) = Honoured(call)
  <2>1. c = With(call, call.effect)
    OBVIOUS
  <2> HIDE DEF c
  <2>2. QED  BY <1>1, <2>1, Decided
<1> HIDE DEF c
<1>3. ~call.forwarded /\ (call.spent # NoRef \/ call.req.kind = "tool")
  BY <1>1 DEF IInv, CallShape
<1>4. c.trail = Honoured(c)
  <2>1. call.trail = IF call.spent # NoRef THEN <<"consumed">> ELSE <<>>
    BY <1>1, <1>3 DEF IInv, TrailSoFar, First
  <2>2. QED  BY <1>2, <2>1, ShortTuples DEF Honoured
<1>5. /\ pc' \in {"forward", "answer"}
      /\ call' = [c EXCEPT !.output = IF call.req.kind = "release" THEN call.req.what ELSE Nothing]
      /\ pc' = "forward" <=> call.req.kind = "tool"
  <2>1. call.req.kind \in {"tool", "override", "release"}
    BY <1>2 DEF CallRecords, Requests
  <2>2. [c EXCEPT !.output = Nothing] = c
    BY <1>2 DEF CallRecords
  <2>3. CASE call.req.kind = "tool"
    BY <1>1, <1>2, <1>3, <2>2, <2>3 DEF Allowed, Go
  <2>4. CASE call.req.kind = "override"
    BY <1>1, <1>2, <1>3, <2>2, <2>4 DEF Allowed, Go
  <2>5. CASE call.req.kind = "release"
    BY <1>1, <1>2, <1>3, <2>5 DEF Allowed, Go, Served
  <2>6. QED  BY <2>1, <2>3, <2>4, <2>5
<1> DEFINE d == call'
<1>6. /\ d \in CallRecords
      /\ d.subject = call.subject /\ d.tool = call.tool /\ d.req = call.req
      /\ d.known = call.known /\ d.effect = "allow" /\ d.spent = call.spent
      /\ d.forwarded = FALSE
      /\ d.output = IF call.req.kind = "release" THEN call.req.what ELSE Nothing
      /\ d.trail = c.trail
  <2>1. call.req.kind = "release" => call.req.what \in Payloads
    BY <1>2 DEF CallRecords, Requests
  <2>2. QED  BY <1>2, <1>3, <1>5, <2>1 DEF CallRecords
<1>7. Honoured(d) = Honoured(c)
  BY <1>2, <1>6 DEF Honoured
<1> HIDE DEF d
<1>8. call' = d
  BY DEF d
<1>9. rows' = rows /\ plans' = plans /\ requirePlan' = requirePlan
  BY <1>1 DEF Keep
<1>10. TypeOK'
  BY <1>1, <1>5, <1>6, <1>8, KeepTyped DEF IInv, Places
<1>11. QueueShape' /\ ("short" \notin Events => StoreShape')
  BY <1>1, <1>2, <1>5, KeepShapes
<1>12. SpentIsOwn'
  BY <1>2, <1>3, <1>6, <1>8, <1>9 DEF IInv, SpentIsOwn
<1>13. CallShape'
  BY <1>5, <1>6, <1>8 DEF CallShape
<1>14. AnswerShape'
  BY <1>3, <1>5, <1>6, <1>8 DEF AnswerShape
<1>15. PlanStands'
  BY <1>1, <1>2, <1>3, <1>5, <1>6, <1>8, <1>9 DEF IInv, PlanStands
<1>16. TrailSoFar'
  <2>1. CASE pc' = "forward"
    BY <1>4, <1>6, <1>7, <1>8, <2>1 DEF TrailSoFar
  <2>2. CASE pc' = "answer"
    <3>1. d.spent # NoRef
      BY <1>3, <1>5, <1>6, <2>2
    <3>2. d.trail = <<"consumed", "allow">>
      BY <1>4, <1>6, <1>7, <3>1 DEF Honoured
    <3>3. d.trail \in Accounts(d)
      BY <1>6, <3>2, AccountsOf
    <3>4. QED  BY <1>8, <2>2, <3>3 DEF TrailSoFar
  <2>3. QED  BY <1>5, <2>1, <2>2
<1>17. QED  BY <1>10, <1>11, <1>12, <1>13, <1>14, <1>15, <1>16 DEF IInv

\* A deny or an escalate is recorded: nothing is forwarded or served.
LEMMA DecideOtherKeeps == ASSUME IInv, Decide, call.effect # "allow" PROVE IInv'
<1> DEFINE c == With(call, call.effect)
<1>1. /\ pc = "decide" /\ Keep /\ call' = c
      /\ call.effect \in {"deny", "escalate"}
      /\ pc' = IF call.effect = "deny" THEN "answer" ELSE "submit"
  <2>1. pc = "decide" /\ call.effect \in {"deny", "escalate"}
    BY DEF Decide, IInv, CallShape
  <2>2. c.effect = call.effect
    BY <2>1, Decided
  <2>3. QED  BY <2>1, <2>2 DEF Decide, Go
<1>2. /\ InCall /\ call \in CallRecords /\ c \in CallRecords
      /\ c.subject = call.subject /\ c.tool = call.tool /\ c.req = call.req
      /\ c.known = call.known
      /\ c.effect = call.effect /\ c.spent = call.spent /\ c.forwarded = call.forwarded
      /\ c.output = Nothing
      /\ c.trail = Append(call.trail, call.effect)
      /\ First(c) = First(call)
  BY <1>1, Decided
<1> HIDE DEF c
<1>3. Asking /\ (~call.forwarded => call.spent = NoRef)
  BY <1>1 DEF IInv, CallShape, Asking
<1>4. call.trail = First(c)
  BY <1>1, <1>2, <1>3 DEF IInv, TrailSoFar
<1>5. rows' = rows /\ plans' = plans /\ requirePlan' = requirePlan
  BY <1>1 DEF Keep
<1>6. TypeOK'
  BY <1>1, <1>2, KeepTyped DEF IInv, Places
<1>7. QueueShape' /\ ("short" \notin Events => StoreShape')
  <2>1. "short" \in Events \/ raced \/ c.req.kind # "release" \/ Stored(c.req.what)
    BY <1>1, <1>2 DEF IInv, StoreShape
  <2>2. QED  BY <1>1, <1>2, <2>1, KeepShapes
<1>8. SpentIsOwn'
  BY <1>1, <1>2, <1>5 DEF IInv, SpentIsOwn
<1>9. CallShape'
  <2>1. (Len(rows) < MaxRows \/ Coalesces(call.req)) => (Len(rows) < MaxRows \/ Coalesces(call.req))'
    BY <1>1, <1>2, <1>5 DEF Coalesces, RowsWith
  <2>2. Asking'
    BY <1>1, <1>2, <1>3, <2>1 DEF Asking
  <2>3. QED  BY <1>1, <1>2, <2>2 DEF CallShape
<1>10. AnswerShape'
  BY <1>1, <1>2, <1>3 DEF AnswerShape
<1>11. PlanStands'
  BY <1>1, <1>2, <1>5 DEF IInv, PlanStands
<1>12. TrailSoFar'
  <2>1. CASE call.effect = "deny"
    <3>1. c.trail \in Accounts(c)
      BY <1>2, <1>4, <2>1, AccountsOf
    <3>2. QED  BY <1>1, <2>1, <3>1 DEF TrailSoFar
  <2>2. CASE call.effect = "escalate"
    BY <1>1, <1>2, <1>4, <2>2 DEF TrailSoFar
  <2>3. QED  BY <1>1, <2>1, <2>2
<1>13. QED  BY <1>6, <1>7, <1>8, <1>9, <1>10, <1>11, <1>12 DEF IInv

-----------------------------------------------------------------------------
(* An escalation is queued *)

\* A release that is already waiting is not queued twice.
LEMMA CoalesceKeeps == ASSUME IInv, Submit, Coalesces(call.req) PROVE IInv'
<1>1. /\ pc = "submit" /\ pc' = "answer" /\ call' = call /\ rows' = rows
      /\ UNCHANGED <<store, plans, requirePlan, raced>>
  BY DEF Submit, Go
<1>2. InCall /\ call \in CallRecords
  BY <1>1, CallTyped DEF IInv, InCall
<1>3. Asking /\ call.effect = "escalate"
  BY <1>1 DEF IInv, CallShape
<1>4. Keep
  BY <1>1 DEF Keep
<1>5. TypeOK'
  BY <1>1, <1>2, <1>4, KeepTyped DEF IInv, Places
<1>6. QueueShape' /\ ("short" \notin Events => StoreShape')
  BY <1>1, <1>2, <1>4, KeepShapes
<1>7. SpentIsOwn'
  BY <1>1, <1>2 DEF IInv, SpentIsOwn
<1>8. CallShape'
  BY <1>1 DEF CallShape
<1>9. AnswerShape'
  <2>1. (RowsWith(call.req, "pending") # {})'
    BY <1>1 DEF Coalesces, RowsWith
  <2>2. QED  BY <1>1, <1>3, <2>1 DEF AnswerShape, Asking
<1>10. PlanStands'
  BY <1>1, <1>2 DEF IInv, PlanStands
<1>11. TrailSoFar'
  <2>1. call.trail \in Accounts(call)
    <3>1. call.trail = Append(First(call), "escalate") /\ call.req.kind = "release"
      BY <1>1 DEF IInv, TrailSoFar, Coalesces
    <3>2. QED  BY <1>3, <3>1, AccountsOf
  <2>2. QED  BY <1>1, <2>1 DEF TrailSoFar
<1>12. QED  BY <1>5, <1>6, <1>7, <1>8, <1>9, <1>10, <1>11 DEF IInv

\* A row is queued for what was asked, whose content, if any, is stored.
LEMMA SubmitKeeps == ASSUME IInv, Submit, ~Coalesces(call.req) PROVE IInv'
<1> DEFINE row == [req |-> call.req, status |-> "pending"]
           c == With(call, "submitted")
<1>1. /\ pc = "submit" /\ pc' = "answer" /\ call' = c /\ rows' = Append(rows, row)
      /\ UNCHANGED <<store, plans, requirePlan, raced>>
  BY DEF Submit, Go
<1>2. InCall /\ call \in CallRecords /\ TypeOK /\ QueueShape
  BY <1>1, CallTyped DEF IInv, InCall
<1>3. /\ Asking /\ call.effect = "escalate" /\ Len(rows) < MaxRows
      /\ ~call.forwarded => call.spent = NoRef
  BY <1>1 DEF IInv, CallShape, Asking
<1>4. /\ c \in CallRecords
      /\ c.subject = call.subject /\ c.tool = call.tool /\ c.req = call.req
      /\ c.known = call.known
      /\ c.effect = "escalate" /\ c.spent = call.spent /\ c.forwarded = call.forwarded
      /\ c.output = Nothing
      /\ c.trail = Append(call.trail, "submitted")
      /\ First(c) = First(call)
  <2>1. "submitted" \in RecordKinds /\ call.output = Nothing
    BY <1>3 DEF RecordKinds, Asking
  <2>2. QED  BY <1>2, <1>3, <2>1, WithFields
<1>5. rows \in Seq(Row) /\ row \in Row
  BY <1>2 DEF TypeOK, Row, CallRecords
<1> DEFINE n == Len(rows) + 1
<1>6. /\ rows' \in Seq(Row) /\ Len(rows') = n /\ DOMAIN rows' = DOMAIN rows \cup {n}
      /\ n \notin DOMAIN rows /\ rows'[n] = row
      /\ \A i \in DOMAIN rows : rows'[i] = rows[i]
  BY <1>1, <1>5
<1>7. row.req = call.req /\ row.status = "pending"
  OBVIOUS
<1>8. \A i \in DOMAIN rows : ~(row.req.kind = "release" /\ rows[i] = row)
  BY DEF Coalesces, RowsWith
<1> HIDE DEF c, n, row
<1>9. TypeOK'
  BY <1>1, <1>2, <1>4, <1>6 DEF TypeOK, StoreTypeOK, store, Places, Row
<1>10. QueueShape'
  <2>1. Len(rows') =< MaxRows
    BY <1>3, <1>5, <1>6, PointAssumption DEF n
  <2>2. ASSUME NEW i \in DOMAIN rows', NEW j \in DOMAIN rows', rows'[i].req.kind = "release",
               rows'[i].status = "pending", rows'[j] = rows'[i]
        PROVE  i = j
    BY <1>2, <1>6, <1>8, <2>2 DEF QueueShape
  <2>3. QED  BY <2>1, <2>2 DEF QueueShape
<1>11. SpentIsOwn'
  BY <1>1, <1>2, <1>4, <1>6 DEF IInv, SpentIsOwn
<1>12. CallShape'
  BY <1>1 DEF CallShape
<1>13. AnswerShape'
  <2>1. n \in RowsWith(call.req, "pending")'
    BY <1>1, <1>4, <1>6 DEF RowsWith, row
  <2>2. QED  BY <1>1, <1>3, <1>4, <2>1 DEF AnswerShape
<1>14. PlanStands'
  BY <1>1, <1>2, <1>4 DEF IInv, PlanStands
<1>15. TrailSoFar'
  <2>1. call.trail = Append(First(call), "escalate")
    BY <1>1 DEF IInv, TrailSoFar
  <2>2. c.trail \in Accounts(c)
    BY <1>4, <2>1, AccountsOf
  <2>3. QED  BY <1>1, <2>2 DEF TrailSoFar
<1>16. ASSUME "short" \notin Events PROVE StoreShape'
  <2>1. StoreShape
    BY <1>16 DEF IInv
  <2>2. blobs' = blobs /\ purge' = purge /\ raced' = raced
    BY <1>1 DEF store
  <2>3. \A p : Stored(p)' <=> Stored(p)
    BY <2>2 DEF Stored
  <2>4. \A p \in Blocked' : p \in Blocked \/ (call.req.kind = "release" /\ p = call.req.what)
    BY <1>6, <1>7 DEF Blocked, OpenReleases
  <2>5. QED  BY <1>1, <2>1, <2>2, <2>3, <2>4 DEF StoreShape
<1>17. QED  BY <1>9, <1>10, <1>11, <1>12, <1>13, <1>14, <1>15, <1>16 DEF IInv

-----------------------------------------------------------------------------
(* The tool is called, and its response screened *)

\* Whatever the tool returns, the call goes on having been forwarded: to an answer
\* with a clean output or none, to the quarantine, or to a refusal.
LEMMA ForwardedKeeps ==
    ASSUME IInv, pc = "forward", NEW d \in CallRecords, call' = d, Keep,
           pc' \in {"answer", "put", "withhold"},
           d.subject = call.subject, d.tool = call.tool, d.known = call.known,
           d.spent = call.spent, d.trail = call.trail, d.forwarded = TRUE,
           d.req.subject = call.subject,
           pc' = "answer" => d.output \in {Nothing, Clean} /\ d.effect \in {"allow", "error"},
           pc' = "put" => d.req.kind = "release" /\ d.effect = "allow",
           pc' # "answer" => d.output = Nothing
    PROVE  IInv'
<1>1. InCall /\ ~call.forwarded /\ call.req.kind = "tool"
  BY DEF IInv, InCall, CallShape
<1>2. rows' = rows /\ plans' = plans /\ requirePlan' = requirePlan
  BY DEF Keep
<1>3. TypeOK'
  BY KeepTyped DEF IInv, Places
<1>4. QueueShape' /\ ("short" \notin Events => StoreShape')
  BY <1>1, KeepShapes
<1>5. SpentIsOwn'
  BY <1>1, <1>2 DEF IInv, SpentIsOwn
<1>6. CallShape'
  BY DEF CallShape
<1>7. AnswerShape'
  BY DEF AnswerShape
<1>8. PlanStands'
  BY <1>1, <1>2 DEF IInv, PlanStands
<1>9. TrailSoFar'
  <2>1. d.trail = First(d)
    BY DEF IInv, TrailSoFar, First, Honoured
  <2>2. CASE pc' = "answer"
    <3>1. d.trail \in Accounts(d)
      BY <2>1, <2>2, AccountsOf
    <3>2. QED  BY <2>2, <3>1 DEF TrailSoFar
  <2>3. CASE pc' \in {"put", "withhold"}
    BY <2>1, <2>3 DEF TrailSoFar
  <2>4. QED  BY <2>2, <2>3
<1>10. QED  BY <1>3, <1>4, <1>5, <1>6, <1>7, <1>8, <1>9 DEF IInv

\* The tool's response is relayed, held or refused.
LEMMA ForwardKeeps ==
    ASSUME IInv, NEW response \in Payloads \cup {Clean, Unscreenable}, Forward(response)
    PROVE  IInv'
<1> DEFINE c == [call EXCEPT !.forwarded = TRUE]
           relayed == [c EXCEPT !.output = response]
           held == [c EXCEPT !.req = Triple(c.subject, "release", response)]
<1>1. pc = "forward" /\ Keep
  BY DEF Forward
<1>2. InCall /\ call \in CallRecords /\ call.effect = "allow" /\ call.output = Nothing
  BY <1>1, CallTyped DEF IInv, InCall, CallShape
<1>3. call.req.subject = call.subject
  BY <1>2 DEF IInv, SpentIsOwn
<1>4. /\ c \in CallRecords /\ c.forwarded = TRUE /\ c.output = Nothing
      /\ c.subject = call.subject /\ c.tool = call.tool /\ c.known = call.known
      /\ c.spent = call.spent /\ c.trail = call.trail /\ c.req = call.req
      /\ c.effect = call.effect
  BY <1>2 DEF CallRecords
<1>5. CASE response = Clean
  <2>1. Screen(response) = "relay"
    BY <1>5, PointAssumption DEF Screen
  <2>2. pc' = "answer" /\ call' = relayed
    BY <2>1 DEF Forward, Go
  <2> HIDE DEF c
  <2>3. /\ relayed \in CallRecords /\ relayed.forwarded = TRUE /\ relayed.output = Clean
        /\ relayed.subject = c.subject /\ relayed.tool = c.tool /\ relayed.known = c.known
        /\ relayed.spent = c.spent /\ relayed.trail = c.trail /\ relayed.req = c.req
        /\ relayed.effect = c.effect
    BY <1>4, <1>5 DEF CallRecords
  <2> HIDE DEF relayed
  <2>4. QED  BY <1>1, <1>2, <1>3, <1>4, <2>2, <2>3, ForwardedKeeps
<1>6. CASE response \in Payloads
  <2>1. Screen(response) = "hold"
    BY <1>6, PointAssumption DEF Screen
  <2>2. pc' = "put" /\ call' = held
    BY <2>1 DEF Forward, Go
  <2> DEFINE req == Triple(c.subject, "release", response)
  <2>3. call.subject \in Subjects
    BY <1>2 DEF CallRecords
  <2>4. req \in Requests /\ req.kind = "release" /\ req.subject = call.subject
    BY <1>4, <1>6, <2>3, TripleTyped DEF Triple
  <2> HIDE DEF c, req
  <2>5. held = [c EXCEPT !.req = req]
    BY DEF req
  <2> HIDE DEF held
  <2>6. /\ held \in CallRecords /\ held.forwarded = TRUE /\ held.output = c.output
        /\ held.subject = c.subject /\ held.tool = c.tool /\ held.known = c.known
        /\ held.spent = c.spent /\ held.trail = c.trail /\ held.req = req
        /\ held.effect = c.effect
    BY <1>4, <2>4, <2>5 DEF CallRecords
  <2>7. QED  BY <1>1, <1>2, <1>4, <2>2, <2>4, <2>6, ForwardedKeeps
<1>7. CASE response = Unscreenable
  <2>1. Screen(response) = "withhold"
    BY <1>7, PointAssumption DEF Screen
  <2>2. pc' = "withhold" /\ call' = c
    BY <2>1 DEF Forward, Go
  <2> HIDE DEF c
  <2>3. QED  BY <1>1, <1>2, <1>3, <1>4, <2>2, ForwardedKeeps
<1>8. QED  BY <1>5, <1>6, <1>7

\* A tool that raises ends the call with nothing of the response.
LEMMA RaiseKeeps == ASSUME IInv, Raise PROVE IInv'
<1> DEFINE d == [call EXCEPT !.forwarded = TRUE, !.effect = "error"]
<1>1. pc = "forward" /\ Keep /\ pc' = "answer" /\ call' = d
  BY DEF Raise, Go
<1>2. InCall /\ call \in CallRecords /\ call.output = Nothing
  BY <1>1, CallTyped DEF IInv, InCall, CallShape
<1>3. call.req.subject = call.subject
  BY <1>2 DEF IInv, SpentIsOwn
<1>4. /\ d \in CallRecords /\ d.forwarded = TRUE /\ d.output = Nothing /\ d.effect = "error"
      /\ d.subject = call.subject /\ d.tool = call.tool /\ d.known = call.known
      /\ d.spent = call.spent /\ d.trail = call.trail /\ d.req = call.req
  BY <1>2 DEF CallRecords
<1> HIDE DEF d
<1>5. QED  BY <1>1, <1>3, <1>4, ForwardedKeeps

-----------------------------------------------------------------------------
(* A flagged response is stored *)

\* A step of the writing of a flagged response.
LEMMA WritingKeeps ==
    ASSUME IInv, pc \in {"put", "rename"}, pc' \in {"ask", "rename", "withhold"},
           call' = call, KeepRows, StoreTypeOK', purge' = purge,
           "short" \notin Events => /\ \A p \in Payloads : Stored(p) => Stored(p)'
                                    /\ pc' = "ask" => Stored(call.req.what)'
    PROVE  IInv'
<1>1. InCall /\ call \in CallRecords
  BY CallTyped DEF IInv, InCall
<1>2. /\ call.forwarded /\ call.req.kind = "release" /\ call.effect = "allow"
      /\ call.output = Nothing /\ call.trail = First(call)
  BY DEF IInv, CallShape, TrailSoFar
<1>3. rows' = rows /\ plans' = plans /\ requirePlan' = requirePlan /\ raced' = raced
  BY DEF KeepRows
<1>4. TypeOK'
  BY <1>1, <1>3 DEF IInv, TypeOK, Places
<1>5. QueueShape'
  BY <1>3 DEF IInv, QueueShape
<1>6. SpentIsOwn'
  BY <1>1, <1>3 DEF IInv, SpentIsOwn
<1>7. CallShape'
  <2>1. Asking'
    BY <1>2 DEF Asking
  <2>2. QED  BY <1>2, <2>1 DEF CallShape
<1>8. AnswerShape'
  BY DEF AnswerShape
<1>9. PlanStands'
  BY <1>1, <1>2, <1>3 DEF IInv, PlanStands
<1>10. TrailSoFar'
  BY <1>2 DEF TrailSoFar
<1>11. ASSUME "short" \notin Events, ~raced' PROVE StoreShape'
  <2>1. StoreShape /\ ~raced
    BY <1>3, <1>11 DEF IInv
  <2>2. Blocked' = Blocked
    BY <1>3 DEF Blocked, OpenReleases
  <2>3. Blocked \subseteq Payloads
    BY BlockedTyped DEF IInv
  <2>4. (\A p \in Blocked : Stored(p) /\ <<"blob", p>> \notin purge)'
    <3>1. \A p \in Blocked : Stored(p) /\ <<"blob", p>> \notin purge
      BY <2>1 DEF StoreShape
    <3>2. \A p \in Blocked : Stored(p)'
      BY <1>11, <2>3, <3>1
    <3>3. QED  BY <2>2, <3>1, <3>2
  <2>5. (pc' # "down" => purge' = {})
    BY <2>1 DEF StoreShape
  <2>6. ((pc \in {"ask", "decide", "submit"} /\ call.req.kind = "release") => Stored(call.req.what))'
    <3>1. pc' \in {"ask", "decide", "submit"} => pc' = "ask"
      OBVIOUS
    <3>2. QED  BY <1>11, <3>1
  <2>7. QED  BY <2>4, <2>5, <2>6 DEF StoreShape
<1>12. "short" \notin Events => StoreShape'
  BY <1>11 DEF StoreShape
<1>13. QED  BY <1>4, <1>5, <1>6, <1>7, <1>8, <1>9, <1>10, <1>12 DEF IInv

\* The content asked about is a payload.
LEMMA ReleaseTyped ==
    ASSUME NEW c \in CallRecords, c.req.kind = "release"
    PROVE  c.req.what \in Payloads
BY DEF CallRecords, Requests

\* Looking for the file, or making the temporary one.
LEMMA PutKeeps == ASSUME IInv, Put PROVE IInv'
<1> DEFINE p == call.req.what
<1>1. pc = "put" /\ KeepRows /\ call' = call
  BY DEF Put, Go
<1>2. call \in CallRecords /\ call.req.kind = "release"
  BY <1>1, CallTyped DEF IInv, InCall, CallShape
<1>3. p \in Payloads
  BY <1>2, ReleaseTyped
<1>4. StoreTypeOK
  BY DEF IInv, TypeOK
<1> HIDE DEF p
<1>5. /\ pc' \in {"ask", "rename", "withhold"} /\ blobs' = blobs /\ purge' = purge
      /\ StoreTypeOK' /\ (pc' = "ask" => Get(p))
  <2>1. CASE AlreadyStored(p) /\ Go("ask", call)
    BY <1>4, <2>1 DEF AlreadyStored, Go, store, StoreTypeOK
  <2>2. CASE WriteTemp(p) /\ Go("rename", call)
    BY <1>3, <1>4, <2>2 DEF WriteTemp, Go, StoreTypeOK
  <2>3. CASE Reject(p) /\ Go("withhold", call)
    BY <1>4, <2>3 DEF Reject, Go, store, StoreTypeOK
  <2>4. CASE FailWrite(p) /\ Go("withhold", call)
    BY <1>4, <2>4 DEF FailWrite, Go, StoreTypeOK
  <2>5. QED  BY <2>1, <2>2, <2>3, <2>4 DEF Put, p
<1>6. \A q : Stored(q)' <=> Stored(q)
  BY <1>5 DEF Stored
<1>7. Stored(call.req.what)' <=> Stored(call.req.what)
  BY <1>1, <1>5 DEF Stored
<1>8. pc' = "ask" => Stored(call.req.what)
  BY <1>5 DEF Get, Stored, p
<1>9. QED  BY <1>1, <1>5, <1>6, <1>7, <1>8, WritingKeeps

\* Giving the temporary file its name.
LEMMA ReplaceKeeps == ASSUME IInv, Replace PROVE IInv'
<1> DEFINE p == call.req.what
<1>1. pc = "rename" /\ KeepRows /\ call' = call
  BY DEF Replace, Go
<1>2. call \in CallRecords /\ call.req.kind = "release"
  BY <1>1, CallTyped DEF IInv, InCall, CallShape
<1>3. p \in Payloads
  BY <1>2, ReleaseTyped
<1>4. StoreTypeOK
  BY DEF IInv, TypeOK
<1> HIDE DEF p
<1>5. CASE Rename(p) /\ Go("ask", call)
  <2>1. PICK content \in Written : blobs' = [blobs EXCEPT ![p] = content]
    BY <1>5 DEF Rename
  <2>2. pc' = "ask" /\ temps' = temps \ {p} /\ purge' = purge
    BY <1>5 DEF Rename, Go
  <2>3. content \in Blobs /\ ("short" \notin Events => content = "good")
    BY DEF Written, Blobs
  <2>4. StoreTypeOK'
    BY <1>4, <2>1, <2>2, <2>3 DEF StoreTypeOK
  <2>5. blobs'[p] = content /\ \A q \in Payloads \ {p} : blobs'[q] = blobs[q]
    BY <1>3, <1>4, <2>1 DEF StoreTypeOK
  <2>6. ASSUME "short" \notin Events
        PROVE  (\A q \in Payloads : Stored(q) => Stored(q)') /\ Stored(call.req.what)'
    <3>1. Stored(p)' /\ \A q \in Payloads \ {p} : Stored(q) => Stored(q)'
      BY <2>3, <2>5, <2>6, <1>1 DEF Stored, p
    <3>2. Stored(call.req.what)'
      BY <2>3, <2>5, <2>6, <1>1 DEF Stored, p
    <3>3. blobs'[p] \in {"good", "rotten"}
      BY <2>3, <2>5, <2>6
    <3>4. QED  BY <3>2, <2>5, <3>3 DEF Stored
  <2>7. QED  BY <1>1, <2>2, <2>4, <2>6, WritingKeeps
<1>6. CASE FailWrite(p) /\ Go("withhold", call)
  <2>1. pc' = "withhold" /\ blobs' = blobs /\ purge' = purge /\ StoreTypeOK'
    BY <1>4, <1>6 DEF FailWrite, Go, StoreTypeOK
  <2>2. \A q : Stored(q)' <=> Stored(q)
    BY <2>1 DEF Stored
  <2>3. QED  BY <1>1, <2>1, <2>2, WritingKeeps
<1>7. QED  BY <1>5, <1>6 DEF Replace, p

-----------------------------------------------------------------------------
(* The answer is refused, or goes out *)

\* A response that could not be screened or stored is refused.
LEMMA WithholdKeeps == ASSUME IInv, Withhold PROVE IInv'
<1> DEFINE d == [call EXCEPT !.effect = "deny"]
           e == With(d, "screening_refusal")
<1>1. pc = "withhold" /\ Keep /\ pc' = "answer" /\ call' = e
  BY DEF Withhold, Go
<1>2. /\ InCall /\ call \in CallRecords /\ call.forwarded /\ call.output = Nothing
      /\ call.trail = First(call)
  BY <1>1, CallTyped DEF IInv, InCall, CallShape, TrailSoFar
<1>3. /\ d \in CallRecords /\ d.effect = "deny"
      /\ d.subject = call.subject /\ d.tool = call.tool /\ d.req = call.req
      /\ d.known = call.known
      /\ d.spent = call.spent /\ d.forwarded = call.forwarded /\ d.output = call.output
      /\ d.trail = call.trail
      /\ First(d) = First(call)
  <2>1. /\ d \in CallRecords /\ d.effect = "deny"
        /\ d.subject = call.subject /\ d.tool = call.tool /\ d.req = call.req
        /\ d.known = call.known
        /\ d.spent = call.spent /\ d.forwarded = call.forwarded /\ d.output = call.output
        /\ d.trail = call.trail
    BY <1>2 DEF CallRecords
  <2> HIDE DEF d
  <2>2. QED  BY <2>1 DEF First, Honoured
<1> HIDE DEF d
<1>4. /\ e \in CallRecords /\ e.effect = "deny"
      /\ e.subject = call.subject /\ e.tool = call.tool /\ e.req = call.req
      /\ e.known = call.known
      /\ e.spent = call.spent /\ e.forwarded = call.forwarded /\ e.output = Nothing
      /\ e.trail = Append(First(e), "screening_refusal")
  <2>1. "screening_refusal" \in RecordKinds /\ e = With(d, "screening_refusal")
    BY DEF RecordKinds
  <2> HIDE DEF e
  <2>2. /\ e \in CallRecords
        /\ e.subject = d.subject /\ e.tool = d.tool /\ e.req = d.req /\ e.known = d.known
        /\ e.effect = d.effect /\ e.spent = d.spent /\ e.forwarded = d.forwarded
        /\ e.output = d.output
        /\ e.trail = Append(d.trail, "screening_refusal")
        /\ First(e) = First(d)
    BY <1>3, <2>1, WithFields
  <2>3. QED  BY <1>2, <1>3, <2>2
<1> HIDE DEF e
<1>5. rows' = rows /\ plans' = plans /\ requirePlan' = requirePlan
  BY <1>1 DEF Keep
<1>6. TypeOK'
  BY <1>1, <1>4, KeepTyped DEF IInv, Places
<1>7. QueueShape' /\ ("short" \notin Events => StoreShape')
  BY <1>1, <1>2, KeepShapes
<1>8. SpentIsOwn'
  BY <1>1, <1>2, <1>4, <1>5 DEF IInv, SpentIsOwn
<1>9. CallShape'
  BY <1>1 DEF CallShape
<1>10. AnswerShape'
  BY <1>1, <1>2, <1>4 DEF AnswerShape
<1>11. PlanStands'
  BY <1>1, <1>2, <1>4, <1>5 DEF IInv, PlanStands
<1>12. TrailSoFar'
  <2>1. e.trail \in Accounts(e)
    BY <1>2, <1>4, AccountsOf
  <2>2. QED  BY <1>1, <2>1 DEF TrailSoFar
<1>13. QED  BY <1>6, <1>7, <1>8, <1>9, <1>10, <1>11, <1>12 DEF IInv

\* Without a call the invariant is about the queue and the store.
LEMMA NoCallKeeps ==
    ASSUME pc' \in {"down", "idle"}, TypeOK', QueueShape', "short" \notin Events => StoreShape'
    PROVE  IInv'
<1>1. ~InCall'
  BY DEF InCall
<1>2. QED  BY <1>1 DEF IInv, SpentIsOwn, CallShape, AnswerShape, PlanStands, TrailSoFar

\* The answer goes out.
LEMMA ReturnKeeps == ASSUME IInv, Return PROVE IInv'
<1>1. pc = "answer" /\ pc' = "idle" /\ call' = NoCall /\ Keep
  BY DEF Return, Go
<1>2. TypeOK'
  BY <1>1, KeepTyped DEF IInv, Places
<1>3. QueueShape' /\ ("short" \notin Events => StoreShape')
  BY <1>1, KeepShapes DEF InCall
<1>4. QED  BY <1>1, <1>2, <1>3, NoCallKeeps

-----------------------------------------------------------------------------
(* What happens beside the calls *)

\* A plan is declared between calls.
LEMMA DeclareKeeps ==
    ASSUME IInv, NEW d \in Plans, DeclarePlan(d[1], d[2])
    PROVE  IInv'
<1>1. d[1] \in Subjects /\ d[2] \subseteq Tools
  BY PointAssumption
<1>2. /\ pc = "idle" /\ plans' = [plans EXCEPT ![d[1]] = d[2]]
      /\ UNCHANGED <<store, rows, requirePlan, pc, call, raced>>
  BY DEF DeclarePlan
<1>3. TypeOK'
  <2>1. plans' \in [Subjects -> SUBSET Tools]
    BY <1>1, <1>2 DEF IInv, TypeOK
  <2>2. QED  BY <1>2, <2>1 DEF IInv, TypeOK, StoreTypeOK, store
<1>4. QueueShape'
  BY <1>2 DEF IInv, QueueShape
<1>5. "short" \notin Events => StoreShape'
  BY <1>2 DEF IInv, StoreShape, Blocked, OpenReleases, Stored, store
<1>6. QED  BY <1>2, <1>3, <1>4, <1>5, NoCallKeeps

\* A human decides a row between calls.
LEMMA ResolveKeeps ==
    ASSUME IInv, NEW ref \in DOMAIN rows, NEW approved \in BOOLEAN, Resolve(ref, approved)
    PROVE  IInv'
<1> DEFINE st == IF approved THEN "approved" ELSE "denied"
<1>1. /\ pc \in {"idle", "down"} /\ rows[ref].status = "pending"
      /\ rows' = [rows EXCEPT ![ref].status = st]
      /\ UNCHANGED <<store, plans, requirePlan, pc, call, raced>>
  BY DEF Resolve
<1>2. st \in {"approved", "denied", "spent"}
  OBVIOUS
<1>3. TypeOK /\ QueueShape
  BY DEF IInv
<1> HIDE DEF st
<1>4. rows' \in Seq(Row) /\ QueueShape' /\ Blocked' \subseteq Blocked
  BY <1>1, <1>2, <1>3, RowSettled
<1>5. TypeOK'
  BY <1>1, <1>3, <1>4 DEF TypeOK, StoreTypeOK, store, Row
<1>6. ASSUME "short" \notin Events PROVE StoreShape'
  <2>1. StoreShape
    BY <1>6 DEF IInv
  <2>2. blobs' = blobs /\ purge' = purge /\ raced' = raced
    BY <1>1 DEF store
  <2>3. \A p : Stored(p)' <=> Stored(p)
    BY <2>2 DEF Stored
  <2>4. QED  BY <1>1, <1>4, <2>1, <2>2, <2>3 DEF StoreShape
<1>7. QED  BY <1>1, <1>4, <1>5, <1>6, NoCallKeeps

\* The process starts.
LEMMA StartKeeps == ASSUME IInv, NEW required \in BOOLEAN, Start(required) PROVE IInv'
<1>1. /\ pc = "down" /\ raced' = (raced \/ purge # {}) /\ requirePlan' = required
      /\ pc' = "idle" /\ call' = NoCall /\ UNCHANGED <<store, rows, plans>>
  BY DEF Start, Go
<1>2. TypeOK'
  BY <1>1 DEF IInv, TypeOK, StoreTypeOK, store, Places
<1>3. QueueShape'
  BY <1>1 DEF IInv, QueueShape
<1>4. ASSUME "short" \notin Events PROVE StoreShape'
  <2>1. StoreShape
    BY <1>4 DEF IInv
  <2>2. blobs' = blobs /\ purge' = purge /\ Blocked' = Blocked
    BY <1>1 DEF store, Blocked, OpenReleases
  <2>3. \A p : Stored(p)' <=> Stored(p)
    BY <2>2 DEF Stored
  <2>4. QED  BY <1>1, <2>1, <2>2, <2>3 DEF StoreShape
<1>5. QED  BY <1>1, <1>2, <1>3, <1>4, NoCallKeeps

\* The process stops or dies.
LEMMA StopKeeps == ASSUME IInv, Stop PROVE IInv'
<1>1. /\ pc # "down" /\ pc' = "down" /\ call' = NoCall
      /\ plans' = [s \in Subjects |-> {}] /\ requirePlan' = FALSE
      /\ UNCHANGED <<store, rows, raced>>
  BY DEF Stop, Go
<1>2. TypeOK'
  BY <1>1 DEF IInv, TypeOK, StoreTypeOK, store, Places
<1>3. QueueShape'
  BY <1>1 DEF IInv, QueueShape
<1>4. ASSUME "short" \notin Events PROVE StoreShape'
  <2>1. StoreShape
    BY <1>4 DEF IInv
  <2>2. blobs' = blobs /\ purge' = purge /\ Blocked' = Blocked
    BY <1>1 DEF store, Blocked, OpenReleases
  <2>3. \A p : Stored(p)' <=> Stored(p)
    BY <2>2 DEF Stored
  <2>4. QED  BY <1>1, <2>1, <2>2, <2>3 DEF StoreShape
<1>5. QED  BY <1>1, <1>2, <1>3, <1>4, NoCallKeeps

\* A step of the purge or of the file system: the call and the queue stand still.
LEMMA FilesKeep ==
    ASSUME IInv, UNCHANGED <<rows, plans, requirePlan, pc, call>>, StoreTypeOK', raced' \in BOOLEAN,
           "short" \notin Events => StoreShape'
    PROVE  IInv'
<1>1. TypeOK'
  BY DEF IInv, TypeOK
<1>2. QueueShape' /\ SpentIsOwn' /\ PlanStands' /\ TrailSoFar'
  BY DEF IInv, QueueShape, SpentIsOwn, PlanStands, TrailSoFar, InCall
<1>3. \A r, status : RowsWith(r, status)' = RowsWith(r, status)
  BY DEF RowsWith
<1>4. RowsWith(call.req, "pending")' = RowsWith(call.req, "pending")
  BY DEF RowsWith
<1>5. Coalesces(call.req)' <=> Coalesces(call.req)
  BY <1>4 DEF Coalesces
<1>6. CallShape'
  BY <1>5 DEF IInv, CallShape, Asking
<1>7. AnswerShape'
  BY <1>4 DEF IInv, AnswerShape
<1>8. QED  BY <1>1, <1>2, <1>6, <1>7 DEF IInv

\* A purge is planned: what open releases need is not on its list.
LEMMA PlanPurgeKeeps == ASSUME IInv, PlanPurge PROVE IInv'
<1>1. /\ purge' = Eligible(Blocked) /\ blobs' = blobs /\ temps' = temps
      /\ raced' = (raced \/ pc # "down")
      /\ UNCHANGED <<rows, plans, requirePlan, pc, call>>
  BY DEF PlanPurge, Scan
<1>2. StoreTypeOK'
  BY <1>1 DEF IInv, TypeOK, StoreTypeOK, Eligible, Files
<1>3. ASSUME "short" \notin Events PROVE StoreShape'
  <2>1. StoreShape
    BY <1>3 DEF IInv
  <2>2. Blocked' = Blocked
    BY <1>1 DEF Blocked, OpenReleases
  <2>3. \A p : Stored(p)' <=> Stored(p)
    BY <1>1 DEF Stored
  <2>4. \A p \in Blocked : <<"blob", p>> \notin purge'
    BY <1>1 DEF Eligible
  <2>5. QED  BY <1>1, <2>1, <2>2, <2>3, <2>4 DEF StoreShape
<1>4. raced' \in BOOLEAN
  BY <1>1 DEF IInv, TypeOK
<1>5. QED  BY <1>1, <1>2, <1>3, <1>4, FilesKeep

\* A purge deletes a file, or ends.
LEMMA PurgingKeeps == ASSUME IInv, Purging PROVE IInv'
<1>1. UNCHANGED <<rows, plans, requirePlan, pc, call, raced>>
  BY DEF Purging
<1>2. Blocked' = Blocked
  BY <1>1 DEF Blocked, OpenReleases
<1>3. StoreTypeOK /\ raced \in BOOLEAN
  BY DEF IInv, TypeOK
<1>4. CASE EndPurge
  <2>1. purge' = {} /\ blobs' = blobs /\ temps' = temps
    BY <1>4 DEF EndPurge
  <2>2. StoreTypeOK'
    BY <1>3, <2>1 DEF StoreTypeOK
  <2>3. \A p : Stored(p)' <=> Stored(p)
    BY <2>1 DEF Stored
  <2>4. "short" \notin Events => StoreShape'
    BY <1>1, <1>2, <2>1, <2>3 DEF IInv, StoreShape, Stored
  <2>5. QED  BY <1>1, <1>3, <2>2, <2>4, FilesKeep
<1>5. ASSUME NEW f \in purge, Unlink(f) PROVE IInv'
  <2>1. /\ purge' = purge \ {f}
        /\ IF f[1] = "temp" THEN temps' = temps \ {f[2]} /\ blobs' = blobs
                            ELSE blobs' = [blobs EXCEPT ![f[2]] = "absent"] /\ temps' = temps
    BY <1>5 DEF Unlink
  <2>2. f = <<f[1], f[2]>> /\ f[1] \in {"temp", "blob"} /\ f[2] \in Payloads
    BY <1>3 DEF StoreTypeOK, Files
  <2>3. StoreTypeOK'
    BY <1>3, <2>1, <2>2 DEF StoreTypeOK, Blobs
  <2>4. ASSUME "short" \notin Events, ~raced PROVE StoreShape'
    <3>1. StoreShape
      BY <2>4 DEF IInv
    <3>2. pc = "down" /\ \A p \in Blocked : Stored(p) /\ <<"blob", p>> \notin purge
      BY <2>4, <3>1 DEF StoreShape
    <3>3. \A p \in Blocked : f[1] = "blob" => p # f[2]
      BY <2>2, <3>2
    <3>4. \A p \in Blocked : blobs[p] \in {"good", "rotten"}
      BY <3>2 DEF Stored
    <3>5. \A p \in Blocked : p \in Payloads
      BY BlockedTyped DEF IInv
    <3>6. \A p \in Blocked : blobs'[p] = blobs[p]
      BY <1>3, <2>1, <2>2, <3>3, <3>5 DEF StoreTypeOK
    <3>7. \A p \in Blocked' : Stored(p)' /\ <<"blob", p>> \notin purge'
      BY <1>2, <2>1, <3>2, <3>4, <3>6 DEF Stored
    <3>8. QED  BY <1>1, <3>2, <3>7 DEF StoreShape
  <2>5. "short" \notin Events => StoreShape'
    BY <1>1, <2>4 DEF StoreShape
  <2>6. QED  BY <1>1, <1>3, <2>3, <2>5, FilesKeep
<1>6. QED  BY <1>4, <1>5 DEF Purging

\* The file system garbles a file, which stays there.
LEMMA RotKeeps == ASSUME IInv, Rot PROVE IInv'
<1>1. UNCHANGED <<rows, plans, requirePlan, pc, call, raced>>
  BY DEF Rot
<1>2. PICK q \in Payloads : Damage(q)
  BY DEF Rot
<1>3. StoreTypeOK /\ raced \in BOOLEAN
  BY DEF IInv, TypeOK
<1>4. blobs' = [blobs EXCEPT ![q] = "rotten"] /\ temps' = temps /\ purge' = purge
  BY <1>2 DEF Damage
<1>5. StoreTypeOK'
  BY <1>3, <1>4 DEF StoreTypeOK, Blobs
<1>6. ASSUME "short" \notin Events PROVE StoreShape'
  <2>1. StoreShape
    BY <1>6 DEF IInv
  <2>2. Blocked' = Blocked
    BY <1>1 DEF Blocked, OpenReleases
  <2>3. \A p \in Payloads : blobs[p] \in {"good", "rotten"} => blobs'[p] \in {"good", "rotten"}
    BY <1>3, <1>4 DEF StoreTypeOK
  <2>4. \A p \in Blocked : p \in Payloads
    BY BlockedTyped DEF IInv
  <2>5. ~raced => \A p \in Blocked' : Stored(p)' /\ <<"blob", p>> \notin purge'
    BY <1>4, <2>1, <2>2, <2>3, <2>4 DEF StoreShape, Stored
  <2>6. (~raced /\ pc \in {"ask", "decide", "submit"} /\ call.req.kind = "release")
            => blobs'[call.req.what] \in {"good", "rotten"}
    <3>1. SUFFICES ASSUME ~raced, pc \in {"ask", "decide", "submit"}, call.req.kind = "release"
                   PROVE  blobs'[call.req.what] \in {"good", "rotten"}
      OBVIOUS
    <3>2. call \in CallRecords
      BY <3>1, CallTyped DEF IInv, InCall
    <3>3. call.req.what \in Payloads
      BY <3>1, <3>2, ReleaseTyped
    <3>4. Stored(call.req.what)
      BY <2>1, <3>1 DEF StoreShape
    <3>5. QED  BY <2>3, <3>3, <3>4 DEF Stored
  <2>7. QED  BY <1>1, <1>4, <2>1, <2>5, <2>6 DEF StoreShape, Stored
<1>7. QED  BY <1>1, <1>3, <1>5, <1>6, FilesKeep

-----------------------------------------------------------------------------
(* The invariant *)

\* A gateway that has never run has no call, no row and no file.
LEMMA InitKeeps == ASSUME Init PROVE IInv
<1>1. pc = "down" /\ call = NoCall /\ rows = <<>> /\ raced = FALSE
  BY DEF Init
<1>2. TypeOK
  <2>1. StoreTypeOK
    BY DEF Init, StoreInit, StoreTypeOK, Blobs
  <2>2. plans \in [Subjects -> SUBSET Tools] /\ requirePlan = FALSE
    BY DEF Init
  <2>3. rows \in Seq(Row)
    BY <1>1
  <2>4. QED  BY <1>1, <2>1, <2>2, <2>3 DEF TypeOK, Places, Row
<1>3. QueueShape
  BY <1>1, PointAssumption DEF QueueShape
<1>4. StoreShape
  BY <1>1 DEF Init, StoreInit, StoreShape, Blocked, OpenReleases
<1>5. QED
  BY <1>1, <1>2, <1>3, <1>4
     DEF IInv, SpentIsOwn, InCall, CallShape, AnswerShape, PlanStands, TrailSoFar

\* The calls that arrive are those of known agents for mapped tools or for content.
LEMMA ArriveKeeps == ASSUME IInv, Arrive PROVE IInv'
<1>1. PICK c \in Calls : \/ c[2] \in Tools /\ Unmapped(c[1], c[2])
                         \/ c[2] \in Tools /\ \E known \in BOOLEAN : CallTool(c[1], c[2], known)
                         \/ c[2] \in Payloads /\ CallRelease(c[1], c[2])
  BY DEF Arrive
<1>2. c[1] \in Subjects
  BY PointAssumption
<1>3. CASE c[2] \in Tools /\ Unmapped(c[1], c[2])
  BY <1>2, <1>3, UnmappedKeeps
<1>4. ASSUME c[2] \in Tools, NEW known \in BOOLEAN, CallTool(c[1], c[2], known) PROVE IInv'
  BY <1>2, <1>4, CallToolKeeps
<1>5. CASE c[2] \in Payloads /\ CallRelease(c[1], c[2])
  BY <1>2, <1>5, CallReleaseKeeps
<1>6. QED  BY <1>1, <1>3, <1>4, <1>5

\* Every step keeps the invariant.
LEMMA StepKeeps == ASSUME IInv, [Next]_vars PROVE IInv'
<1>1. CASE Arrive
  BY <1>1, ArriveKeeps
<1>2. CASE Deny
  BY <1>2, DenyKeeps
<1>3. CASE Grant
  BY <1>3, GrantKeeps
<1>4. CASE Escalate
  BY <1>4, EscalateKeeps
<1>5. ASSUME NEW ref \in DOMAIN rows, Spend(ref) PROVE IInv'
  BY <1>5, SpendKeeps
<1>6. CASE Decide
  BY <1>6, DecideAllowKeeps, DecideOtherKeeps
<1>7. CASE Submit
  BY <1>7, CoalesceKeeps, SubmitKeeps
<1>8. ASSUME NEW response \in Payloads \cup {Clean, Unscreenable}, Forward(response) PROVE IInv'
  BY <1>8, ForwardKeeps
<1>9. CASE Raise
  BY <1>9, RaiseKeeps
<1>10. CASE Put
  BY <1>10, PutKeeps
<1>11. CASE Replace
  BY <1>11, ReplaceKeeps
<1>12. CASE Withhold
  BY <1>12, WithholdKeeps
<1>13. CASE Return
  BY <1>13, ReturnKeeps
<1>14. ASSUME NEW d \in Plans, DeclarePlan(d[1], d[2]) PROVE IInv'
  BY <1>14, DeclareKeeps
<1>15. ASSUME NEW ref \in DOMAIN rows, NEW approved \in BOOLEAN, Resolve(ref, approved) PROVE IInv'
  BY <1>15, ResolveKeeps
<1>16. CASE PlanPurge
  BY <1>16, PlanPurgeKeeps
<1>17. CASE Purging
  BY <1>17, PurgingKeeps
<1>18. CASE Rot
  BY <1>18, RotKeeps
<1>19. ASSUME NEW required \in BOOLEAN, Start(required) PROVE IInv'
  BY <1>19, StartKeeps
<1>20. CASE Stop
  BY <1>20, StopKeeps
<1>21. CASE UNCHANGED vars
  <2>1. UNCHANGED <<blobs, temps, purge, rows, plans, requirePlan, pc, call, raced>>
    BY <1>21 DEF vars, store
  <2>2. StoreTypeOK' /\ raced' \in BOOLEAN
    BY <2>1 DEF IInv, TypeOK, StoreTypeOK
  <2>3. "short" \notin Events => StoreShape'
    BY <2>1 DEF IInv, StoreShape, Blocked, OpenReleases, Stored
  <2>4. QED  BY <2>1, <2>2, <2>3, FilesKeep
<1>22. CASE Answering
  BY <1>22, <1>2, <1>3, <1>4, <1>5, <1>6, <1>7, <1>8, <1>9, <1>10, <1>11, <1>12, <1>13 DEF Answering
<1>23. QED
  BY <1>1, <1>14, <1>15, <1>16, <1>17, <1>18, <1>19, <1>20, <1>21, <1>22 DEF Next

\* The inductive invariant holds of every reachable state: the type invariant, the
\* shape of the call in progress, and, if every write stores what it is given,
\* the agreement of the queue, the store and the purge.
THEOREM EnforcementInvariance == Spec => []IInv
<1>1. Init => IInv
  BY InitKeeps
<1>2. IInv /\ [Next]_vars => IInv'
  BY StepKeeps
<1>3. QED  BY <1>1, <1>2, PTL DEF Spec

-----------------------------------------------------------------------------
(* What it gives *)

\* An agent is given a clean response, or content a human approved for this agent
\* and these bytes by an approval this call used up (enforcement.py:390).
THEOREM FlaggedNeedsHumanHolds == Spec => []FlaggedNeedsHuman
<1>1. IInv => FlaggedNeedsHuman
  <2>1. SUFFICES ASSUME IInv, InCall, call.output \notin {Nothing, Clean}
                 PROVE  /\ call.spent \in DOMAIN rows
                        /\ rows[call.spent] = [req |-> Triple(call.subject, "release", call.output),
                                               status |-> "spent"]
    BY DEF FlaggedNeedsHuman, InCall
  <2>2. call \in CallRecords /\ rows \in Seq(Row)
    BY <2>1, CallTyped DEF IInv, TypeOK, Row
  <2>3. pc = "answer"
    BY <2>1, <2>2 DEF IInv, TypeOK, Places, InCall, CallShape, Asking
  <2>4. /\ call.req.kind = "release" /\ call.output = call.req.what
        /\ ~call.forwarded /\ call.spent # NoRef
    BY <2>1, <2>3 DEF IInv, AnswerShape
  <2>5. /\ call.spent \in DOMAIN rows /\ rows[call.spent].status = "spent"
        /\ rows[call.spent].req = call.req /\ call.req.subject = call.subject
    BY <2>1, <2>4 DEF IInv, SpentIsOwn
  <2>6. call.req = [subject |-> call.req.subject, kind |-> call.req.kind, what |-> call.req.what]
    BY <2>2 DEF CallRecords, Requests
  <2>7. call.req = Triple(call.subject, "release", call.output)
    BY <2>4, <2>5, <2>6 DEF Triple
  <2>8. rows[call.spent] = [req |-> rows[call.spent].req, status |-> rows[call.spent].status]
    <3>1. rows[call.spent] \in Row
      BY <2>2, <2>5
    <3>2. QED  BY <3>1 DEF Row
  <2>9. QED  BY <2>5, <2>7, <2>8
<1>2. QED  BY <1>1, EnforcementInvariance, PTL

\* A release approval that was used up bought the content, whatever the store lost
\* meanwhile (enforcement.py:458).
THEOREM ReleaseBuysBytesHolds == Spec => []ReleaseBuysBytes
<1>1. IInv => ReleaseBuysBytes
  <2>1. SUFFICES ASSUME IInv, pc = "answer", call.spent # NoRef, rows[call.spent].req.kind = "release"
                 PROVE  call.effect = "allow" /\ call.output = rows[call.spent].req.what
    BY DEF ReleaseBuysBytes
  <2>2. ~call.forwarded /\ rows[call.spent].req = call.req
    BY <2>1 DEF IInv, SpentIsOwn, InCall
  <2>3. QED  BY <2>1, <2>2 DEF IInv, AnswerShape
<1>2. QED  BY <1>1, EnforcementInvariance, PTL

\* A tool is reached within the declared plan, and not without one where one is
\* required (enforcement.py:346).
THEOREM PlanBindsHolds == Spec => []PlanBinds
<1>1. IInv => PlanBinds
  BY DEF IInv, PlanBinds, PlanStands, InCall
<1>2. QED  BY <1>1, EnforcementInvariance, PTL

\* A finished call has appended the records its outcome calls for, in order, and
\* what it was told to wait for waits, a release in one row only
\* (Response-Screening-and-Quarantine.md:338).
THEOREM AccountedHolds == Spec => []Accounted
<1>1. IInv => Accounted
  <2>1. SUFFICES ASSUME IInv, pc = "answer" PROVE Accounted
    BY DEF Accounted
  <2>2. call.trail \in Accounts(call)
    BY <2>1 DEF IInv, TrailSoFar
  <2>3. call.effect = "escalate" => RowsWith(call.req, "pending") # {}
    BY <2>1 DEF IInv, AnswerShape
  <2>4. ASSUME call.effect = "escalate", call.req.kind = "release"
        PROVE  Cardinality(RowsWith(call.req, "pending")) = 1
    <3> DEFINE waiting == RowsWith(call.req, "pending")
    <3>1. PICK i : i \in waiting
      BY <2>3, <2>4
    <3>2. \A j \in waiting : j = i
      <4>1. \A j \in waiting : /\ j \in DOMAIN rows /\ rows[j] = rows[i]
                               /\ rows[j].req.kind = "release" /\ rows[j].status = "pending"
        BY <2>4, <3>1 DEF RowsWith
      <4>2. i \in DOMAIN rows
        BY <3>1 DEF RowsWith
      <4>3. QED  BY <2>1, <4>1, <4>2 DEF IInv, QueueShape
    <3>3. waiting = {i}
      BY <3>1, <3>2
    <3>4. QED  BY <3>3, FS_Singleton
  <2>5. QED  BY <2>2, <2>3, <2>4 DEF Accounted
<1>2. QED  BY <1>1, EnforcementInvariance, PTL

\* Where every write stores what it is given, and no purge ran beside the gateway,
\* what an open release is about is stored
\* (Response-Screening-and-Quarantine.md:391).
THEOREM OpenRowHasBlobHolds == ASSUME "short" \notin Events PROVE Spec => []OpenRowHasBlob
<1>1. IInv => OpenRowHasBlob
  BY DEF IInv, StoreShape, OpenRowHasBlob, Blocked, Stored
<1>2. QED  BY <1>1, EnforcementInvariance, PTL
=============================================================================
