----------------------- MODULE IdentityAuthorityProofs -----------------------
(***************************************************************************)
(* Theorems about the identity authority, for every set of roles and        *)
(* bindings, every lifetime and every drift of the clock.                   *)
(*                                                                          *)
(* The argument: nothing but the clock moves between the check of a         *)
(* delegation and its issue (CallIsGrounded), so what was checked about the *)
(* delegator still holds of it when the identity is issued; only identities *)
(* minted directly can delegate, so revoking one reaches everything that    *)
(* descends from it in one sweep.                                           *)
(***************************************************************************)
EXTENDS IdentityAuthority, TLAPS

\* Issuing appends one typed identity and leaves the others as they were.
LEMMA IssueAppends ==
    ASSUME TypeOK, NEW role \in Roles, NEW scopes \in SUBSET Scopes, NEW ttl \in Ttls,
           NEW delegatable \in BOOLEAN, NEW delegator \in Ids \cup {Root},
           Issue(role, scopes, ttl, delegatable, delegator)
    PROVE  LET n == Len(store) + 1
           IN  /\ store' \in Seq(Identities) /\ Len(store') = n /\ n =< MaxIds
               /\ DOMAIN store' = DOMAIN store \cup {n} /\ n \notin DOMAIN store
               /\ \A i \in DOMAIN store : store'[i] = store[i] /\ i < n
               /\ store'[n].subject = role /\ store'[n].not_after = now + ttl
               /\ store'[n].scopes = scopes /\ store'[n].delegatable = delegatable
               /\ store'[n].delegated_by = delegator
<1> DEFINE identity == [subject |-> role, not_after |-> now + ttl, scopes |-> scopes,
                        delegatable |-> delegatable, delegated_by |-> delegator]
<1>1. now \in Nat /\ ttl \in Nat /\ Len(store) \in Nat /\ store \in Seq(Identities)
  BY TimesAssumption DEF TypeOK, Time
<1>2. identity \in Identities
  BY <1>1 DEF Identities
<1>3. store' = Append(store, identity) /\ Len(store) < MaxIds
  BY DEF Issue
<1> HIDE DEF identity
<1>4. /\ store' \in Seq(Identities) /\ Len(store') = Len(store) + 1
      /\ store'[Len(store) + 1] = identity
      /\ \A i \in DOMAIN store : store'[i] = store[i] /\ i < Len(store) + 1
      /\ DOMAIN store' = DOMAIN store \cup {Len(store) + 1}
      /\ Len(store) + 1 \notin DOMAIN store
  BY <1>1, <1>2, <1>3
<1>5. QED  BY <1>1, <1>3, <1>4, TimesAssumption DEF identity

\* Every identity of a typed store has the fields the code gives it.
LEMMA StoreTyped ==
    ASSUME TypeOK, NEW i \in DOMAIN store
    PROVE  /\ i \in Ids /\ store[i] \in Identities /\ store[i].not_after \in Nat
           /\ store[i].delegated_by \in Ids \cup {Root}
<1>1. store \in Seq(Identities) /\ Len(store) =< MaxIds /\ Len(store) \in Nat
  BY DEF TypeOK
<1>2. store[i] \in Identities /\ i \in 1 .. Len(store)
  BY <1>1
<1>3. QED  BY <1>1, <1>2, TimesAssumption DEF Identities, Ids

\* Who delegated an identity is in the store, before it.
LEMMA DelegatorKnown ==
    ASSUME TypeOK, DepthOne, NEW i \in Delegated
    PROVE  i \in DOMAIN store /\ store[i].delegated_by \in DOMAIN store
<1>1. i \in DOMAIN store /\ store[i].delegated_by # Root
  BY DEF Delegated
<1>2. i \in 1 .. Len(store) /\ Len(store) \in Nat /\ store \in Seq(Identities)
  BY <1>1 DEF TypeOK
<1>3. store[i].delegated_by \in Nat \ {0}
  BY <1>1, StoreTyped, TimesAssumption DEF Ids, Root
<1>4. store[i].delegated_by < i
  BY DEF DepthOne
<1>5. QED  BY <1>1, <1>2, <1>3, <1>4

\* Minting directly keeps the invariant.
LEMMA MintKeeps == ASSUME IInv, NEW role \in Roles, NEW ttl \in Ttls, Mint(role, ttl) PROVE IInv'
<1> DEFINE n == Len(store) + 1
<1> USE DEF IInv
<1>1. /\ store' \in Seq(Identities) /\ Len(store') = n /\ n =< MaxIds
      /\ DOMAIN store' = DOMAIN store \cup {n} /\ n \notin DOMAIN store
      /\ \A i \in DOMAIN store : store'[i] = store[i] /\ i < n
      /\ store'[n].subject = role /\ store'[n].scopes = Bound[role]
      /\ store'[n].delegatable => role \in Delegators
      /\ store'[n].delegated_by = Root
  <2>1. Bound[role] \in SUBSET Scopes /\ Root \in Ids \cup {Root}
    BY RolesAssumption
  <2>2. CASE role \in Delegators
    <3>1. (role \in Delegators) = TRUE
      BY <2>2
    <3>2. Issue(role, Bound[role], ttl, role \in Delegators, Root)
      BY DEF Mint
    <3>3. Issue(role, Bound[role], ttl, TRUE, Root)
      BY <3>1, <3>2, Zenon
    <3>4. QED  BY <2>1, <2>2, <3>3, IssueAppends
  <2>3. CASE role \notin Delegators
    <3>1. (role \in Delegators) = FALSE
      BY <2>3
    <3>2. Issue(role, Bound[role], ttl, role \in Delegators, Root)
      BY DEF Mint
    <3>3. Issue(role, Bound[role], ttl, FALSE, Root)
      BY <3>1, <3>2, Zenon
    <3>4. QED  BY <2>1, <2>3, <3>3, IssueAppends
  <2>4. QED  BY <2>2, <2>3
<1>2. call' = NoCall /\ now' = now /\ revoked' = revoked
  BY DEF Mint
<1>3. TypeOK'
  BY <1>1, <1>2 DEF TypeOK
<1>4. CallIsGrounded'
  BY <1>2 DEF CallIsGrounded
<1>5. DelegatableIsRoot'
  BY <1>1 DEF DelegatableIsRoot
<1>6. Delegated' = Delegated
  BY <1>1 DEF Delegated
<1>7. \A i \in Delegated : /\ i \in DOMAIN store
                           /\ store[i].delegated_by \in DOMAIN store
  BY DelegatorKnown
<1>8. DepthOne'
  BY <1>1, <1>6, <1>7 DEF DepthOne
<1>9. NoOrphan'
  BY <1>1, <1>2, <1>6, <1>7 DEF NoOrphan
<1>10. WithinBinding'
  BY <1>1 DEF WithinBinding
<1>11. LifetimeNestedUpToDrift'
  <2> SUFFICES ASSUME NEW i \in Delegated'
               PROVE  store'[i].not_after
                          =< store'[store'[i].delegated_by].not_after + MaxDrift
    BY DEF LifetimeNestedUpToDrift
  <2>1. store'[i] = store[i] /\ store'[store[i].delegated_by] = store[store[i].delegated_by]
    BY <1>1, <1>6, <1>7
  <2>2. QED  BY <1>6, <2>1 DEF LifetimeNestedUpToDrift
<1>12. QED  BY <1>3, <1>4, <1>5, <1>8, <1>9, <1>10, <1>11

\* Checking a delegation grounds the call in progress.
LEMMA DelegateKeeps ==
    ASSUME IInv, NEW i \in Ids, NEW role \in Roles, NEW scopes \in SUBSET Scopes,
           NEW ttl \in Ttls, Delegate(i, role, scopes, ttl)
    PROVE  IInv'
<1> USE DEF IInv
<1>1. /\ call' = [role |-> role, scopes |-> scopes, ttl |-> ttl, delegator |-> i, checked |-> now]
      /\ now' = now /\ store' = store /\ revoked' = revoked
  BY DEF Delegate
<1>2. call' \in Calls
  BY <1>1 DEF Calls, TypeOK
<1>3. TypeOK'
  BY <1>1, <1>2 DEF TypeOK
<1>4. CallIsGrounded'
  <2>1. now \in Nat /\ now =< now + MaxDrift
    BY TimesAssumption DEF TypeOK, Time
  <2>2. QED  BY <1>1, <2>1 DEF CallIsGrounded, Delegate, Verifies
<1>5. (DelegatableIsRoot /\ DepthOne /\ NoOrphan /\ WithinBinding /\ LifetimeNestedUpToDrift)'
  BY <1>1 DEF DelegatableIsRoot, DepthOne, NoOrphan, WithinBinding, LifetimeNestedUpToDrift,
     Delegated
<1>6. QED  BY <1>3, <1>4, <1>5

\* Issuing what was checked keeps the invariant, however far the clock drifted.
LEMMA IssueDelegatedKeeps == ASSUME IInv, IssueDelegated PROVE IInv'
<1> DEFINE n == Len(store) + 1
           p == call.delegator
<1> USE DEF IInv
<1>1. call \in Calls
  BY DEF IssueDelegated, TypeOK
<1>2. /\ call.role \in Roles /\ call.scopes \in SUBSET Scopes /\ call.ttl \in Nat
      /\ p \in Ids /\ call.checked \in Nat /\ now \in Nat
  <2>1. now \in Nat
    BY TimesAssumption DEF Time, TypeOK
  <2>2. call.role \in Roles /\ call.scopes \in SUBSET Scopes /\ call.ttl \in Ttls
    BY <1>1 DEF Calls
  <2>3. p \in Ids /\ call.checked \in Nat
    BY <1>1, TimesAssumption DEF Calls, Time
  <2>4. QED  BY <2>1, <2>2, <2>3, TimesAssumption
<1>3. /\ store' \in Seq(Identities) /\ Len(store') = n /\ n =< MaxIds
      /\ DOMAIN store' = DOMAIN store \cup {n} /\ n \notin DOMAIN store
      /\ \A i \in DOMAIN store : store'[i] = store[i] /\ i < n
      /\ store'[n].subject = call.role /\ store'[n].not_after = now + call.ttl
      /\ store'[n].scopes = call.scopes /\ store'[n].delegatable = FALSE
      /\ store'[n].delegated_by = p
  <2>1. Issue(call.role, call.scopes, call.ttl, FALSE, p)
    BY DEF IssueDelegated
  <2>2. call.ttl \in Ttls /\ p \in Ids \cup {Root} /\ FALSE \in BOOLEAN
    BY <1>1, <1>2 DEF Calls
  <2>3. QED  BY <1>2, <2>1, <2>2, IssueAppends
<1>4. call' = NoCall /\ now' = now /\ revoked' = revoked
  BY DEF IssueDelegated
<1>5. /\ p \in DOMAIN store /\ p \notin revoked /\ store[p].delegatable
      /\ call.scopes \subseteq Bound[call.role]
      /\ call.checked + call.ttl =< store[p].not_after
      /\ now =< call.checked + MaxDrift
  BY DEF IssueDelegated, CallIsGrounded
<1>6. TypeOK'
  BY <1>3, <1>4 DEF TypeOK
<1>7. CallIsGrounded'
  BY <1>4 DEF CallIsGrounded
<1>8. DelegatableIsRoot'
  BY <1>3 DEF DelegatableIsRoot
<1>9. Delegated' = Delegated \cup {n}
  BY <1>2, <1>3, TimesAssumption DEF Delegated, Ids, Root
<1>10. \A i \in Delegated : /\ i \in DOMAIN store
                            /\ store[i].delegated_by \in DOMAIN store
  BY DelegatorKnown
<1>11. store'[p] = store[p] /\ p < n /\ store'[n].delegated_by = p
  BY <1>3, <1>5
<1>12. \A i \in Delegated : /\ store'[i] = store[i]
                            /\ store'[store[i].delegated_by] = store[store[i].delegated_by]
  BY <1>3, <1>10
<1>13. DepthOne'
  <2>1. /\ store[p].delegated_by = Root /\ store[p].subject \in Delegators
    BY <1>5 DEF DelegatableIsRoot
  <2>2. \A i \in Delegated' : i = n \/ i \in Delegated
    BY <1>9
  <2>3. ~store'[n].delegatable
    BY <1>3
  <2>4. QED  BY <1>11, <1>12, <2>1, <2>2, <2>3 DEF DepthOne
<1>14. NoOrphan'
  BY <1>4, <1>5, <1>9, <1>11, <1>12 DEF NoOrphan
<1>15. WithinBinding'
  BY <1>3, <1>5 DEF WithinBinding
<1>16. LifetimeNestedUpToDrift'
  <2>1. store[p].not_after \in Nat
    BY <1>5, StoreTyped
  <2>2. now + call.ttl =< store[p].not_after + MaxDrift
    BY <1>2, <1>5, <2>1, TimesAssumption
  <2>3. store'[n].not_after =< store'[p].not_after + MaxDrift
    BY <1>3, <1>11, <2>2
  <2>4. \A i \in Delegated : store'[i].not_after
                                =< store'[store'[i].delegated_by].not_after + MaxDrift
    BY <1>12 DEF LifetimeNestedUpToDrift
  <2>5. QED  BY <1>9, <1>11, <2>3, <2>4 DEF LifetimeNestedUpToDrift
<1>17. QED  BY <1>6, <1>7, <1>8, <1>13, <1>14, <1>15, <1>16

\* One sweep over the direct children is enough: they have none of their own.
LEMMA RevokeKeeps == ASSUME IInv, NEW i \in Ids, Revoke(i) PROVE IInv'
<1> USE DEF IInv
<1>1. /\ revoked' = revoked \cup {i} \cup DelegatedBy(i)
      /\ now' = now /\ store' = store /\ call' = NoCall
  BY DEF Revoke
<1>2. DelegatedBy(i) \subseteq Ids
  BY StoreTyped DEF DelegatedBy
<1>3. TypeOK' /\ CallIsGrounded'
  BY <1>1, <1>2 DEF TypeOK, CallIsGrounded
<1>4. NoOrphan'
  <2> SUFFICES ASSUME NEW j \in Delegated, store[j].delegated_by \in revoked'
               PROVE  j \in revoked'
    BY <1>1 DEF NoOrphan, Delegated
  <2>1. CASE store[j].delegated_by \in revoked
    BY <1>1, <2>1 DEF NoOrphan
  <2>2. CASE store[j].delegated_by = i
    BY <1>1, <2>2 DEF DelegatedBy, Delegated
  <2>3. store[j].delegated_by \notin DelegatedBy(i)
    <3>1. store[store[j].delegated_by].delegated_by = Root
      BY DEF DepthOne
    <3>2. i # Root
      BY TimesAssumption DEF Ids, Root
    <3>3. QED  BY <3>1, <3>2 DEF DelegatedBy
  <2>4. QED  BY <1>1, <2>1, <2>2, <2>3
<1>5. (DelegatableIsRoot /\ DepthOne /\ WithinBinding /\ LifetimeNestedUpToDrift)'
  BY <1>1 DEF DelegatableIsRoot, DepthOne, WithinBinding, LifetimeNestedUpToDrift, Delegated
<1>6. QED  BY <1>3, <1>4, <1>5

\* The clock, forward or back, and stuttering.
LEMMA ClockKeeps ==
    ASSUME IInv, (\E t \in Time : Clock(t)) \/ UNCHANGED vars PROVE IInv'
<1> USE DEF IInv
<1>1. store' = store /\ revoked' = revoked /\ call' = call
  BY DEF Clock, vars
<1>2. TypeOK'
  BY <1>1 DEF TypeOK, Clock, vars
<1>3. CallIsGrounded'
  BY <1>1 DEF CallIsGrounded, Clock, vars
<1>4. (DelegatableIsRoot /\ DepthOne /\ NoOrphan /\ WithinBinding /\ LifetimeNestedUpToDrift)'
  BY <1>1 DEF DelegatableIsRoot, DepthOne, NoOrphan, WithinBinding, LifetimeNestedUpToDrift,
     Delegated
<1>5. QED  BY <1>2, <1>3, <1>4

\* The inductive invariant holds in every reachable state.
THEOREM IdentityInvariance == Spec => []IInv
<1>1. Init => IInv
  BY TimesAssumption DEF Init, IInv, TypeOK, CallIsGrounded, DelegatableIsRoot, DepthOne, NoOrphan,
     WithinBinding, LifetimeNestedUpToDrift, Delegated
<1>2. ASSUME IInv, [Next]_vars PROVE IInv'
  BY <1>2, MintKeeps, DelegateKeeps, IssueDelegatedKeeps, RevokeKeeps, ClockKeeps DEF Next
<1>3. QED  BY <1>1, <1>2, PTL DEF Spec

\* However minting, delegating and revoking are ordered, revoking an identity
\* leaves nothing it delegated alive.
THEOREM RevocationCascades == Spec => []NoOrphan
<1>1. IInv => NoOrphan
  BY DEF IInv
<1>2. QED  BY IdentityInvariance, <1>1, PTL

\* Who delegates was minted directly for a delegatable role, and what it handed
\* out cannot be handed on.
THEOREM DelegationIsDepthOne == Spec => []DepthOne
<1>1. IInv => DepthOne
  BY DEF IInv
<1>2. QED  BY IdentityInvariance, <1>1, PTL

\* No credential, minted or delegated, carries a scope its role is not bound to.
THEOREM WithinBindingHolds == Spec => []WithinBinding
<1>1. IInv => WithinBinding
  BY DEF IInv
<1>2. QED  BY IdentityInvariance, <1>1, PTL

\* A delegated lifetime exceeds the delegator's by no more than the clock moves
\* during one call.
THEOREM LifetimeIsNearlyNested == Spec => []LifetimeNestedUpToDrift
<1>1. IInv => LifetimeNestedUpToDrift
  BY DEF IInv
<1>2. QED  BY IdentityInvariance, <1>1, PTL

\* Identities are never changed and revocation is for ever, whatever a step does.
LEMMA StepKeepsHistory ==
    ASSUME IInv, [Next]_vars
    PROVE  /\ revoked \subseteq revoked'
           /\ \A i \in DOMAIN store : i \in DOMAIN store' /\ store'[i] = store[i]
<1>1. ASSUME NEW role \in Roles, NEW ttl \in Ttls, Mint(role, ttl)
      PROVE  \A i \in DOMAIN store : i \in DOMAIN store' /\ store'[i] = store[i]
  BY <1>1 DEF Mint, Issue, IInv, TypeOK
<1>2. ASSUME IssueDelegated
      PROVE  \A i \in DOMAIN store : i \in DOMAIN store' /\ store'[i] = store[i]
  BY <1>2 DEF IssueDelegated, Issue, IInv, TypeOK
<1>3. CASE \E role \in Roles, ttl \in Ttls : Mint(role, ttl)
  BY <1>1, <1>3 DEF Mint
<1>4. CASE \E i \in Ids, role \in Roles, scopes \in SUBSET Scopes, ttl \in Ttls :
              Delegate(i, role, scopes, ttl)
  BY <1>4 DEF Delegate
<1>5. CASE IssueDelegated
  BY <1>2, <1>5 DEF IssueDelegated
<1>6. CASE \E i \in Ids : Revoke(i)
  BY <1>6 DEF Revoke
<1>7. CASE (\E t \in Time : Clock(t)) \/ UNCHANGED vars
  BY <1>7 DEF Clock, vars
<1>8. QED  BY <1>3, <1>4, <1>5, <1>6, <1>7 DEF Next

\* Revocation is for ever, and only a clock set back revives an expired one.
THEOREM OnlyTimeRevivesHolds == Spec => OnlyTimeRevives
<1>1. ASSUME IInv, [Next]_vars PROVE RevivedByTime
  <2> SUFFICES ASSUME NEW i \in Ids, ~Verifies(i), Verifies(i)'
               PROVE  i \notin revoked /\ (i \in DOMAIN store => now' < now)
    BY DEF RevivedByTime
  <2>1. IInv'
    BY <1>1, MintKeeps, DelegateKeeps, IssueDelegatedKeeps, RevokeKeeps, ClockKeeps DEF Next
  <2>2. now \in Nat /\ now' \in Nat
    BY <1>1, <2>1, TimesAssumption DEF IInv, TypeOK, Time
  <2>3. i \notin revoked
    BY <1>1, StepKeepsHistory DEF Verifies
  <2>4. ASSUME i \in DOMAIN store PROVE now' < now
    <3>1. store[i].not_after \in Nat /\ store'[i] = store[i]
      BY <1>1, <2>4, StoreTyped, StepKeepsHistory DEF IInv
    <3>2. now' < store'[i].not_after
      BY DEF Verifies
    <3>3. ~(now < store[i].not_after)
      BY <2>3, <2>4 DEF Verifies
    <3>4. QED  BY <2>2, <3>1, <3>2, <3>3
  <2>5. QED  BY <2>3, <2>4
<1>2. QED  BY <1>1, IdentityInvariance, PTL DEF Spec, OnlyTimeRevives
=============================================================================
