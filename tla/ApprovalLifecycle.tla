-------------------------- MODULE ApprovalLifecycle --------------------------
(***************************************************************************)
(* What the human approval loop promises, with the chain, the replay, the   *)
(* segments and the crashes taken away: one status per escalated decision.  *)
(* A ref is raised once, decided once, spent at most once, and turned into  *)
(* at most one allow, and only after it was spent.                          *)
(***************************************************************************)
CONSTANT Refs

VARIABLES status,   \* the status of every escalated decision
          honoured  \* the refs that were turned into an allow decision

vars == <<status, honoured>>

Statuses == {"none", "pending", "approved", "denied", "spent"}

TypeOK == /\ status \in [Refs -> Statuses]
          /\ honoured \subseteq Refs

Init == /\ status = [r \in Refs |-> "none"]
        /\ honoured = {}

Become(r, from, to) == /\ status[r] = from
                       /\ status' = [status EXCEPT ![r] = to]

Raise(r)   == Become(r, "none", "pending") /\ UNCHANGED honoured
Approve(r) == Become(r, "pending", "approved") /\ UNCHANGED honoured
Deny(r)    == Become(r, "pending", "denied") /\ UNCHANGED honoured
Spend(r)   == Become(r, "approved", "spent") /\ UNCHANGED honoured
Honour(r)  == /\ status[r] = "spent"
              /\ r \notin honoured
              /\ honoured' = honoured \cup {r}
              /\ UNCHANGED status

Next == \E r \in Refs : Raise(r) \/ Approve(r) \/ Deny(r) \/ Spend(r) \/ Honour(r)

Spec == Init /\ [][Next]_vars
=============================================================================
