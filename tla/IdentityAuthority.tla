-------------------------- MODULE IdentityAuthority --------------------------
(***************************************************************************)
(* The identity authority of src/atb/identity.py: minting, depth-1          *)
(* delegation, expiry against a wall clock, and revocation that cascades.   *)
(*                                                                          *)
(* The authority is called by one thread, so its operations do not          *)
(* interleave; but the clock runs on while an operation runs.  mint reads   *)
(* it once.  mint_delegated reads it to check that the new lifetime nests   *)
(* and AGAIN, in _issue, to set it, so a delegation is two steps here with  *)
(* the clock moving in between.                                             *)
(*                                                                          *)
(* Signatures are not modelled: a token that the authority did not sign, or *)
(* that names no identity, never verifies.                                  *)
(***************************************************************************)
EXTENDS Naturals, Sequences

CONSTANTS
    Roles,     \* the registered roles
    Scopes,
    Bound,     \* the scopes each role is bound to
    Delegators,\* the roles whose binding is delegatable
    Ttls,      \* lifetimes callers ask for
    MaxDrift,  \* bound: clock units that pass while one call runs
    MaxTime,   \* bound: the last clock reading
    MaxIds     \* bound: identities issued

ASSUME RolesAssumption == Bound \in [Roles -> SUBSET Scopes] /\ Delegators \subseteq Roles
ASSUME TimesAssumption == /\ Ttls \subseteq Nat
                          /\ MaxDrift \in Nat /\ MaxTime \in Nat /\ MaxIds \in Nat

VARIABLES now,     \* the wall clock
          store,   \* the identities issued; identity i is store[i]
          revoked, \* ids revoked, issued or not
          call     \* the delegation between its check and its issue, or NoCall

vars == <<now, store, revoked, call>>

Ids  == 1 .. MaxIds
Root == 0    \* delegated_by of an identity minted directly
Time == 0 .. MaxTime

Identities == [subject : Roles, not_after : Nat, scopes : SUBSET Scopes,
               delegatable : BOOLEAN, delegated_by : Ids \cup {Root}]
Calls  == [role : Roles, scopes : SUBSET Scopes, ttl : Ttls,
           delegator : Ids, checked : Time]
NoCall == [role |-> "none"]

-----------------------------------------------------------------------------
\* Mutant of Verifies: revocation is not looked up.
VerifiesRevoked(i) == i \in DOMAIN store /\ now < store[i].not_after

\* verify: issued, not revoked, not expired.
Verifies(i) == i \in DOMAIN store /\ i \notin revoked /\ now < store[i].not_after

\* _issue takes the next id and reads the clock.
Issue(role, scopes, ttl, delegatable, delegator) ==
    /\ Len(store) < MaxIds
    /\ store' = Append(store, [subject |-> role, not_after |-> now + ttl, scopes |-> scopes,
                               delegatable |-> delegatable, delegated_by |-> delegator])

Mint(role, ttl) ==
    /\ call = NoCall
    /\ Issue(role, Bound[role], ttl, role \in Delegators, Root)
    /\ UNCHANGED <<now, revoked, call>>

\* Mutants of Delegate: the scopes are held against the delegator's role; the
\* lifetime is not compared.
DelegateOwnScopes(i, role, scopes, ttl) ==
    /\ call = NoCall
    /\ Len(store) < MaxIds
    /\ Verifies(i)
    /\ store[i].delegatable
    /\ scopes \subseteq Bound[store[i].subject]
    /\ now + ttl =< store[i].not_after
    /\ call' = [role |-> role, scopes |-> scopes, ttl |-> ttl, delegator |-> i, checked |-> now]
    /\ UNCHANGED <<now, store, revoked>>
DelegateAnyLifetime(i, role, scopes, ttl) ==
    /\ call = NoCall
    /\ Len(store) < MaxIds
    /\ Verifies(i)
    /\ store[i].delegatable
    /\ scopes \subseteq Bound[role]
    /\ call' = [role |-> role, scopes |-> scopes, ttl |-> ttl, delegator |-> i, checked |-> now]
    /\ UNCHANGED <<now, store, revoked>>

\* mint_delegated up to its last check: the delegator verifies and may
\* delegate, the scopes are within the target role's binding, the lifetime
\* nests in the delegator's at this reading of the clock.
Delegate(i, role, scopes, ttl) ==
    /\ call = NoCall
    /\ Len(store) < MaxIds
    /\ Verifies(i)
    /\ store[i].delegatable
    /\ scopes \subseteq Bound[role]
    /\ now + ttl =< store[i].not_after
    /\ call' = [role |-> role, scopes |-> scopes, ttl |-> ttl, delegator |-> i, checked |-> now]
    /\ UNCHANGED <<now, store, revoked>>

\* Mutant of IssueDelegated: a delegated identity may delegate as its role may.
IssueDelegatable ==
    /\ call # NoCall
    /\ Issue(call.role, call.scopes, call.ttl, call.role \in Delegators, call.delegator)
    /\ call' = NoCall
    /\ UNCHANGED <<now, revoked>>

\* The rest of mint_delegated: the identity is issued at the next reading.
IssueDelegated ==
    /\ call # NoCall
    /\ Issue(call.role, call.scopes, call.ttl, FALSE, call.delegator)
    /\ call' = NoCall
    /\ UNCHANGED <<now, revoked>>

DelegatedBy(i) == {j \in DOMAIN store : store[j].delegated_by = i}

\* Mutant of Revoke: nothing cascades.
RevokeAlone(i) ==
    /\ call = NoCall
    /\ revoked' = revoked \cup {i}
    /\ UNCHANGED <<now, store, call>>

\* revoke names any id, and takes with it what that identity delegated so far.
Revoke(i) ==
    /\ call = NoCall
    /\ revoked' = revoked \cup {i} \cup DelegatedBy(i)
    /\ UNCHANGED <<now, store, call>>

\* The clock is the wall clock: it may be set back as well as advance.
Clock(t) ==
    /\ t # now
    /\ call # NoCall => t =< call.checked + MaxDrift
    /\ now' = t
    /\ UNCHANGED <<store, revoked, call>>

Init == /\ now \in Time
        /\ store = <<>>
        /\ revoked = {}
        /\ call = NoCall

Next == \/ \E role \in Roles, ttl \in Ttls : Mint(role, ttl)
        \/ \E i \in Ids, role \in Roles, scopes \in SUBSET Scopes, ttl \in Ttls :
              Delegate(i, role, scopes, ttl)
        \/ IssueDelegated
        \/ \E i \in Ids : Revoke(i)
        \/ \E t \in Time : Clock(t)

Spec == Init /\ [][Next]_vars

-----------------------------------------------------------------------------
(* Properties *)

Delegated == {i \in DOMAIN store : store[i].delegated_by # Root}

\* The state has the shape the code gives it.
TypeOK ==
    /\ now \in Time
    /\ store \in Seq(Identities) /\ Len(store) =< MaxIds
    /\ revoked \subseteq Ids
    /\ call = NoCall \/ call \in Calls

\* Delegation is depth-1: who delegated was minted directly for a delegatable
\* role, before, and what it handed out cannot be handed on.
DepthOne ==
    \A i \in Delegated :
        LET p == store[i].delegated_by
        IN  /\ p < i
            /\ store[p].delegated_by = Root
            /\ store[p].subject \in Delegators
            /\ ~store[i].delegatable

\* Revocation leaves no orphan: whatever the order of minting, delegating and
\* revoking, a delegated identity does not survive the revocation of its
\* delegator, not even one issued after it.
NoOrphan == \A i \in Delegated : store[i].delegated_by \in revoked => i \in revoked

\* No credential, however it was obtained, carries a scope beyond the binding
\* of the role it acts as, so a scope bound to no role is never carried.
WithinBinding == \A i \in DOMAIN store : store[i].scopes \subseteq Bound[store[i].subject]

\* "The delegated lifetime may not exceed the delegator's" (identity.py:115).
LifetimeNested ==
    \A i \in Delegated : store[i].not_after =< store[store[i].delegated_by].not_after

\* What the code guarantees instead: it nests up to the time one call takes.
LifetimeNestedUpToDrift ==
    \A i \in Delegated :
        store[i].not_after =< store[store[i].delegated_by].not_after + MaxDrift

RevivedByTime ==
    \A i \in Ids : ~Verifies(i) /\ Verifies(i)' =>
        /\ i \notin revoked
        /\ i \in DOMAIN store => now' < now

\* A credential once dead by revocation never verifies again, and a clock set
\* back revives nothing but what only the clock had ended.
OnlyTimeRevives == [][RevivedByTime]_vars

-----------------------------------------------------------------------------
(* Why they hold *)

\* A delegation in progress still has the grounds it was checked on.
CallIsGrounded ==
    call # NoCall =>
        LET p == call.delegator
        IN  /\ p \in DOMAIN store /\ p \notin revoked
            /\ store[p].delegatable
            /\ call.scopes \subseteq Bound[call.role]
            /\ call.checked + call.ttl =< store[p].not_after
            /\ now =< call.checked + MaxDrift

\* Only an identity minted directly for a delegatable role can delegate.
DelegatableIsRoot ==
    \A i \in DOMAIN store :
        store[i].delegatable => store[i].delegated_by = Root /\ store[i].subject \in Delegators

IInv == /\ TypeOK
        /\ CallIsGrounded
        /\ DelegatableIsRoot
        /\ DepthOne
        /\ NoOrphan
        /\ WithinBinding
        /\ LifetimeNestedUpToDrift
=============================================================================
