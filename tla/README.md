# TLA+ models of the agent trust broker

This directory holds TLA+ specifications of the trust broker under `src/atb/`,
the TLC configurations that check them on small instances, and theorems about
them that TLAPS proves for every value of the constants.

- [The system](#the-system): components, state, operations, what is hard
- [The modules](#the-modules): which module models which code, and how
- [The runs](#the-runs): what TLC checks, with which bounds
- [What the checks found](#what-the-checks-found)
- [What is proved](#what-is-proved)
- [What is not modelled](#what-is-not-modelled)
- [Plan](#plan)

To check a configuration: `tlc -config LoopSafety.cfg MCApprovalLoop`.
To check the proofs: `tlapm ApprovalLoopProofs.tla`, and so on for each `*Proofs` module.

## The system

The broker stands between agents and their tools. An agent presents a token;
the broker decides whether the token may do what it asks, asks a human when the
scope says so, forwards the call, screens what comes back, and records every
decision in a hash-chained audit log. Nearly all lasting state is in that log:
the human approval queue is derived from it by replay, and so are rotations.

| Component | State | Operations | Correct when |
|---|---|---|---|
| Identity authority (`identity.py`, `bindings.py`) | identities issued, ids revoked, wall clock | `mint`, `mint_delegated`, `verify`, `revoke` | delegation is depth-1, attenuates and nests; revocation leaves no orphan and is final |
| Policy engine (`policy.py`, `catalog.py`) | none of its own | `authorize` | an escalating scope is allowed only by a human's approval of exactly that request; any other allow is within binding and resource scope |
| Escalation queue (`escalation.py`) | none: replayed from the active segment | `submit`, `pending`, `resolve`, `try_consume` | a ref is decided once and spent once, whatever segment the records are in |
| Audit chain (`audit.py`) | records in memory, last hash, id counter | `append`, `adopt`, `verify_chain` | ids go on across segments; a record commits to all before it |
| Durable store (`persistence.py`) | segment file, flock, log of each process | `open`, `append`, `close`, `trim_torn_tail` | an acknowledged record survives any crash; one history |
| Chain lifecycle (`lifecycle.py`) | segment files, temp file, archives | rotate, verify a family, presence guard, detach | open state survives a rotation; a crashed rotation converges; a lost segment is noticed |
| Enforcement point (`enforcement.py`, `plan.py`) | declared plans | `declare_plan`, `mediate` with screening and release | nothing is forwarded that was not allowed; an approval buys what it was given for |
| Screening and quarantine (`screening.py`) | blobs on disk, byte budget | `screen`, `put`, `get`, purge | a released blob is the approved one; no blob a human may still release is purged |
| Operator CLI (`cli.py`) | none: one process per command | approve, deny, rotate, verify, detach, repair, purge | works on the chain between, or beside, gateway runs |
| MCP gateway (`examples/mcp_gateway.py`) | the objects above, one process | one JSON-RPC request at a time | goes on after a request fails |

How they interact. The gateway handles one request at a time, by calls: the
enforcement point calls `authorize`, which calls the authority (`verify`), the
queue (`try_consume`) and the log (`append`); on an escalate the enforcement
point then calls the queue's `submit`, one more append. The operator's CLI is a
second process on the same files. The two are kept apart by an exclusive
`flock` held by a store opened for appending, by the refusal to open a sealed
segment, and by the documents' instruction to stop the gateway before a rotation.

What is hard, and hard to test:

- a call makes up to two durable appends (consume, then decision; or decision,
  then submission) and the process may die between them;
- all queue state is derived from the active segment only, so every rotation
  must carry exactly what is still open, through any number of rotations;
- the file is read before the lock is taken, written after memory was extended,
  and repaired in place;
- a flagged response is stored before anyone is asked about it, and an approved
  one is read before its approval is spent; the store may fail, the process may
  die and a purge may delete in between;
- archives leave the volume and come back, and what excuses a missing one is
  carried from head to head;
- the identity authority reads the wall clock twice in one operation, and the
  clock may be set back;
- a rotation is a sequence of file operations that may stop after any of them.

`PROJECT.json` lists each of these at its line under `hazards`, with the
properties that cover it.

## The modules

    EscalationQueue          the queue's derived state, on a set of records
      ApprovalLoop           policy engine + queue + rotation over one chain
        ApprovalLifecycle    (abstract) the life of one approval
        MCApprovalLoop       a small fleet for TLC
        ApprovalLoopProofs
        QueueReplay          the replay as the code runs it, for comparison
          MCQueueReplay      the same fleet
          QueueReplayProofs
    IdentityAuthority        mint, delegate, verify, revoke, wall clock
      MCIdentityAuthority
      IdentityAuthorityProofs
    AuditStore               processes on one segment file
      DurableLog             (abstract) one history, acknowledged records kept
      MCAuditStore
      AuditStoreProofs
    Segments                 the payloads of a segment and what is derived from them
      Rotation               execute_rotation step by step, beside the gateway
        SegmentedChain       (abstract) a chain rotated in one step
        MCRotation
        RotationProofs
    SegmentFamily            archives, detachments, presence guard, deep verification
      SegmentFamilyProofs
    Quarantine               the blob store, step by step, and the operator's purge
      Enforcement            mediate: plan, decision, forward, screen, hold, release
        MCEnforcement
        EnforcementProofs
    Induction                a set of numbers has a least member; used by the proofs

### ApprovalLoop, EscalationQueue

State: the records of the sealed segments (`archive`), those of the active one
(`active`), where the gateway process is (`pc`) and the call in progress
(`frame`). A decision id such as `ATB-DEC-000042` is the number 42. The queue
has no variable, because the code has none: `Pending`, `Approvals` and
`CanConsume` are derived from the records of the active segment.

| Code | Action |
|---|---|
| `PolicyEngine.authorize`, up to the decision; `try_consume` | `Call`: one of `Refuse`, `Grant`, `Spend`, `Escalate` |
| `authorize`, the append of the decision | `Decide` |
| `EscalationQueue.submit` | `Submit` |
| `_submit_release` joining a pending row | `Coalesce` |
| `EscalationQueue.resolve` (approve, deny) | `Resolve` |
| `execute_rotation` run to its end | `Rotate` |
| an append that raises between two steps of a call, the gateway going on | `AppendRaises` |
| a process starting on the files, or ending at any point | `Start`, `Stop` |

The checks of `_evaluate` are kept with their order and effect: the binding and
the resource scope are asked only of scopes that do not escalate. What `verify`
says of the token (`verified`) and whether its scopes hold the action
(`granted`) are inputs of a call; that `granted` never exceeds the binding is
`WithinBinding` of IdentityAuthority. The `approval_ref` an agent presents is
any ref of the segment, or one that names no row.

The code replays records into dictionaries in which a later record overwrites an
earlier one; the model uses relations. `QueueReplay` takes the records one by
one the way the code does, checkpoint seeds included, and `ReplayAgrees` says the
two agree on every chain the loop builds.

An append is atomic and durable here. How it becomes so is AuditStore's subject,
and so is the file after an append that raised: the record is in memory, and finding
1 is what comes of it if the gateway appends again. If it does not, and the line
did not reach the file, the next process is where a death before the append leaves it.

### IdentityAuthority

State: `now`, the identities issued (`store`), `revoked`, and the delegation
between its check and its issue (`call`). `mint_delegated` reads the clock in
its check (`identity.py:114`) and again in `_issue` (`identity.py:77`), so it is
two actions, `Delegate` and `IssueDelegated`, between which only the clock
moves: the authority is called by one thread. `Clock` moves `now` forward or
back, within a call by at most `MaxDrift` beyond the check.

### AuditStore

State: the lines of the segment file, whether the last has its newline, how
many lines are on the disk whatever happens, and each process's place and
in-memory log. A record's hash commits to everything before it, so a record IS
the sequence of payloads it commits to; a log is known by its last record; two
histories that differ are two different sequences.

| Code | Action |
|---|---|
| `open`: read, replay, `verify_chain` | `Read` |
| `open`: `_acquire_lock` | `Lock` |
| `append`: extend the chain in memory | `Mint` |
| `append`: `handle.write`, `flush` | `Write`, or `Tear` when it stops short |
| `append`: `fsync`, return | `Sync` (the record is acknowledged) |
| `append` raising, the gateway going on | `Fail`, a case of `Tear` |
| `close` | `Close` |
| `trim_torn_tail`, called by `repair` | `RepairCut`, `RepairWrite` |
| process death, power loss, write-back | `Die`, `PowerLoss`, `Writeback` |

Which mishaps an instance has is the constant `Events`. This keeps one model for
the discipline the documents ask for and for its violations: a passing run names
the mishaps under which the promise holds. A repair rewrites the file and does not
sync it, so afterwards no line counts as being on the disk (`synced = 0`) until a
write-back or the next fsync.

### Rotation, Segments

State: files (`data`) and names (`dir`) apart, because a link gives a file a
second name and a rename moves a name to another file; what a power loss would
leave of both (`durable`, `disk`); and for each process its place, its plan, the
lines it read, whether it holds the lock, and the digest it took. As in
AuditStore a record is the sequence of payloads it commits to.

| Code | Action |
|---|---|
| a gateway opening, recording, closing | `Serve`, `Lock`, `Record`, `Close` |
| `_cmd_rotate`: read-only open, `plan_rotation`, prompt | `Plan`, then `Confirm` or `Decline` |
| `_cmd_rotate`: open to append, or without the lock to resume | `Confirm`, `Lock` |
| `execute_rotation` step 3: plan again, seal or cross-check the seal | `Seal` |
| steps 4 and 5: digest, staged checkpoint, fsync | `Stage` |
| step 6: link, or compare with the archive there is; directory fsync | `Link`, `SyncLink` |
| step 7: re-check, rename; directory fsync, and steps 8 and 9 | `Commit`, `Finish` |
| death, power loss | `Die`, `PowerLoss` |

After a power loss any of the directory operations not yet synced may be
missing, in any combination; the content of a file never synced is gone. An fsync
of a file also makes the name it was opened by durable, and no other: this is what
journaling file systems give, and without it a record written by a gateway
between a killed rotation's rename and its directory sync could be lost.

Items that are open are abstracted to the id of the record that raised them;
who may settle them is ApprovalLoop's subject. An append is whole and durable
here; torn ones are AuditStore's subject, a torn seal included.

### Enforcement, Quarantine

State: what the chain says of the escalations (`rows`), the plan book (`plans`,
`requirePlan`), where the gateway process is (`pc`) and the call in progress
(`call`, with the records it has appended); the files under each digest's name
(`blobs`), the contents a temporary file exists for (`temps`), and the files the
purge in progress has yet to delete (`purge`). A digest is modelled by the content
it names. The chain is reduced to the rows: ApprovalLoop has the records, and what
the policy looks at. Here the policy may refuse anything, grants what no human
need see, and asks a human for the rest.

| Code | Action |
|---|---|
| `mediate`, up to the decision | `Arrive`: `Unmapped`, `CallTool`, `CallRelease` |
| `PlanBook.check` | `Verdict`, in `CallTool` |
| `PolicyEngine.authorize` | `Deny`, `Grant`, `Spend` or `Escalate`, then `Decide` |
| `_submit_release`, or `queue.submit` | `Submit` |
| the downstream call, `screen` | `Forward`, or `Raise` |
| `FileQuarantineStore.put` | `Put` (`AlreadyStored`, `WriteTemp`, `Reject`, `FailWrite`) and `Replace` (`Rename`, `FailWrite`) |
| `_screening_refusal` | `Withhold` |
| the answer | `Return` |
| `declare_plan` | `DeclarePlan` |
| approve, deny | `Resolve` |
| `_cmd_quarantine_purge`: read chain and directory, prompt | `PlanPurge` (`Scan`) |
| the same: delete file by file; decline, fail, stop | `Purging` (`Unlink`, `EndPurge`) |
| a blob that no longer is what its name says | `Rot` |
| the gateway starting, ending at any point | `Start`, `Stop` |

A flagged response asks the policy a second question in the same call, so a call
passes `ask` and `decide` twice; the second time it may name no approval
(`CallerRefs`), because the point builds that context from the verdict alone. A
token is verified once for the plan and once more by the policy, so whether it
verified the first time (`known`) is an input of its own.

`Events` has "beside" when a purge may run beside the gateway, which the
documents leave to the operator, and "short" when a write may store less than
it was given. With "beside" the history variable `raced` says whether the two
ever overlapped.

### SegmentFamily

State: the index of the active segment, what stands under each archive's name
(`files`), the list of detached segments in the active head (`carried`), those
detached in the active segment itself (`appended`), the segment a detach command
prompts about, and every segment ever detached (`granted`, a history variable). An
archive is intact, re-serialized (other bytes, same records), edited, foreign (a
sealed segment of another history) or absent.

| Code | Action or operator |
|---|---|
| `execute_rotation` run to its end | `Rotate` |
| `_cmd_detach`, up to the prompt | `AskDetach` |
| `_cmd_detach`, the open and the record | `Detach`, or `GiveUp` |
| `check_presence`, called by every open | `Opens` |
| `verify_family(deep=True)`, with `--with` | `Green`, a walk of `Visit` and `DigestMatches` |
| an archive taken away, changed, exchanged, copied back | `Befall` |

### Abstract specifications

`ApprovalLifecycle` has a status per ref (none, pending, approved or denied,
spent) and the set of refs that became an allow. `ApprovalLoop` maps a status to
what all records of the chain say of the ref; every step of the loop is then a
lifecycle step or invisible. `DurableLog` is one history that grows by a record,
may lose unacknowledged records, and never an acknowledged one; `AuditStore`
maps to it the records its file would verify to once a torn tail is trimmed.
`SegmentedChain` has the sealed segments and the open one, and rotates in one
step, which is what `Rotate` of ApprovalLoop does; until the step has settled a
failure may undo it as a whole. `Rotation` maps to it by not showing a seal at
the end of the active file; the rename is the step.

## The runs

| Run | Instance | Shows |
|---|---|---|
| `loop_safety` | two subjects after the same release; 8 records; deaths and appends that raise | approvals are human, exact and one-shot; rotations neither lose nor invent open state; ids go on; rows do not reopen; release rows coalesce; what a call left undone stays undone; the loop implements ApprovalLifecycle |
| `loop_policy` | a request for each branch of `_evaluate`; 6 records | least privilege; the replay agrees with the queue; the inductive invariant of the proofs |
| `identity_safety` | 2 roles, 3 scopes, 4 identities, clock 0..2, drift 1 | depth, attenuation, cascade, nesting up to the drift, only time revives |
| `rotation_steps` | gateway and command one at a time; 8 records, 2 deaths or power losses | the steps implement SegmentedChain; nothing is lost, open items are carried, re-runs converge; the inductive invariant of the proofs |
| `rotation_overlap` | gateway and command at once; 6 records, no crash | a command that seals a segment another process has locked (finding) |
| `store_discipline` | 2 processes one at a time, 2 payloads, 4 lines; deaths, power losses, torn records, repairs | acknowledged records are kept, always recoverable; the store implements DurableLog; the inductive invariant of the proofs |
| `store_mishaps` | all at once except repairs | a chain that verifies has every acknowledged record: loss is never silent |
| `store_write_error` | a write that raises | what the store does NOT keep (finding) |
| `mediation` | 2 agents, a free and a gated tool, 2 flagged responses, 2 rows, purges beside the gateway | flagged content reaches an agent only through its own approval; a spent approval buys the whole content; open rows have their blob; plans bind; each outcome has its records; the inductive invariant of the proofs |
| `quarantine_short` | the same, a write that stores less | a queued release without its content (finding) |
| `family` | 5 segments | the chain opens just when what is missing was once detached; a loss is never green, whatever copies are presented; green with all present means the true history; the inductive invariant of the proofs |
| `family_edited` | 4 segments | an archive whose bytes changed and deep verification that is green (finding) |

Bounds, and why they are enough.

- `MaxRecords`. Escalate, submit, approve, consume, allow are five records and a
  rotation two, so 8 records hold a whole life with a rotation at any point of
  it and one record to spare, or three rotations with a shorter life. Two rotations around a whole life do not fit, and that
  is what the proofs are for: they have no bound on records.
- `MaxCarry = 1` makes both a refused and a forced rotation occur.
- Requests. Two subjects with the same release tell "same request" from "same
  action", and neither may release without a human. `PolicyRequests` of
  `loop_policy` has a member for each way the policy can answer: the ingest is a
  second scope that escalates, one role is bound to it, and one resource escapes.
- Identities. Four are a delegator, two delegated by it and one unrelated; three
  clock values are before, at and after an expiry, with one unit of drift.
- Rotation. Eight records are two rotations with items raised before the first,
  carried through both and settled after, with one or two records to spare; two
  crashes hit the rotation and then its re-run. `MaxCarry = 0` makes every carry a
  forced one, so that a rotation interrupted after its seal needs force again.
- Mediation. Two rows are two open releases, or a release and a gated tool, or an
  approval spent and its successor; two contents of size 1 with a budget of 2
  fit, and both and a third, to replace one that is corrupt, do not. The one
  plan holds the free tool and not the gated one, so calls fit it, diverge from
  it, and come without one.
- Family. Five segments are four archives: one detached in an earlier segment and
  carried, one detached now, one lost, and one to be looked at behind them.
- Store. Four lines are an acknowledged record, one lost or torn, one written by
  another process, and one more; two payloads tell two histories apart.

Deadlock is checked in every run but `rotation_overlap`, whose processes may fork
the chain, which nothing opens. Symmetry is used in `mediation` and
`quarantine_short`, between the two flagged responses: no constant or action tells
them apart, and no property there is about liveness. No state constraint is
used: each bound is in a guard (`Room`, `MaxIds`, `MaxLines`, `MaxRows`, `MaxSegments`), and stopping or
restarting is always possible. The record bound is tested before a call begins
(`Room(2)`), so a bound never stops a call halfway.

Fairness. Only Rotation has a specification with fairness. Its `FairSpec` has weak
fairness of a confirmed command's steps, which run one after the other in one
process, and assumes of the operator what the message of every refused open
asks for: a sealed chain makes them plan again, with force, and of infinitely
many prompts they confirm one. Crashes are bounded by `MaxCrashes`, so
`Converges` speaks of the time after the last one.

No liveness is stated of the approval loop, because the code promises none. A
call appends twice (consumption and decision, or decision and queue row), and the
first append may raise after its record was chained (`persistence.py:198-203`):
the gateway reports the error and serves the next request, so a spent approval
may never become an allow, and an escalation may never be queued, in a gateway
that lives on. `AppendRaises` is that step, and `Stop` the death that has the
same effect. What can be promised is about safety and is checked: what a call left
undone is not done later, by no other call and no other process
(`AbandonedIsFinal`, `SpentOnce`). No fairness is assumed of humans, agents or
restarts either, so nothing says a pending row is ever decided.

Mutants. Each property of a passing run has a mutant in `PROJECT.json`: an
operator next to the original, with a comment, that a plausible bug in that code
would give (an id counter restored from the length of the segment, a carry that
forgets consumption, a revocation that does not cascade, a read that is not
verified, an append that is not synced), and TLC finds the property violated.

## What the checks found

The runs that expect a violation each show one disagreement between what the
repository says and what the code does.

1. `store_write_error`. A write that raises leaves the record in memory; the
   gateway reports the error and goes on, and the next record continues one that
   is not in the file. No open accepts it and it is not a torn tail.
2. `quarantine_short`. `put` does one `os.write` and does not look at its count
   (`screening.py:479`). On a disk that is nearly full part of the content gets
   the digest's name and is reported as stored, and a release is queued that no
   approval can honour; the class says a file under a digest's name "is therefore
   complete by construction". `get` notices, so nothing wrong is served, and
   another put of the same content writes it anew.
3. `family_edited`. Deep verification compares a file with the digest its
   successor committed to only for the last archive (`lifecycle.py:725-732`); of
   the others it replays the records. The document's tamper catalogue (line 557)
   promises the digest for any archived segment. A re-serialized older archive is
   green; its records are still the recorded ones, which is what `GreenIsComplete`
   says. Behind an archive that was detached and taken away nothing is replayed
   (`lifecycle.py:656-674`), so there even an edited archive is green, until the
   detached one is presented with `--with`.
4. `rotation_overlap`. `rotate` decides whether to open the chain with the lock from
   the plan it printed before its prompt (`cli.py:506`), and `execute_rotation` plans
   anew. A command that planned on a sealed segment, and is confirmed only after
   the run that sealed it has completed the rotation and a gateway has opened the
   successor and recorded, opens it without the lock and seals it under the gateway.
   The lifecycle document has the gateway stopped for a rotation, and adds that the
   lock makes concurrent writers "a hard refusal rather than a chain fork" (lines
   270-276); in this order it does not.

What follows needs an event, a constant or an order that the passing runs leave
out; no run repeats it, and it takes one change of a cfg to see it.

- Lifetimes. "delegated lifetime may not exceed the delegator's"
  (`identity.py:115`) is checked at one reading of the clock and the lifetime
  set at a later one. Exact nesting (`LifetimeNested`) fails with `MaxDrift = 1`;
  `LifetimeNestedUpToDrift` is proved.
- Overlapping opens. The file is read before the lock is taken
  (`persistence.py:91-112`): with the event `overlap` a process that read, and got
  the lock after another one appended and closed, forks the chain (`OneHistory`).
  The lifecycle document (lines 275-276) says the lock makes this a refusal. The
  next open refuses the file (`VerifiedIsComplete`), so the fork is noticed.
- Glued lines. With the event `text` a write stops just before its newline and
  leaves a line that parses; the next append is glued to it, the glued line does
  not parse, and the record just acknowledged is lost with it (`AckedIsKept`).
- Interrupted repair. The repair empties the file before it writes the lines it
  keeps and does not sync; stopped in between it loses acknowledged records
  (event `repair-interrupted`). And it looks only at whether earlier lines parse,
  not whether they continue the chain (`persistence.py:236`), so with `part` and
  `error` it trims a chain with a gap; the verification that follows reports it.
- Purging beside a gateway. The purge judges from the chain it read before its
  prompt; a gateway may queue a release of a blob on its list meanwhile, or the
  purge may take the temporary file of a put in progress. `OpenRowHasBlob` without
  its `~raced` shows the first; the second makes `put` fail and is withheld.
- Corrupt blobs and the budget. A corrupt blob counts toward the budget that its
  replacement has to fit into, so in a store that is full it does not heal.
  Orphaned temporary files count toward nothing until a purge deletes them.
- Plans. `response_release` skips the plan check, also where plans are required.
  A token that fails to verify at the plan check and verifies when the policy
  asks has no plan to diverge from, unless one is required. The plan book is in
  memory, so a restart forgets every plan. A human who approves a divergence
  approves a call that is not forwarded all the same (`enforcement.py:346`);
  `PlanBinds` holds because of it.
- Detaching. Only the head's list excuses a missing archive in verification, while
  an open also looks at the records of the active segment. So an archive that is
  detached and taken away before the next rotation is reported MISSING by
  `verify`, no other segment can be detached until that rotation, and the
  document (lines 387-389) calls it detached.
- Anchors. `check_anchor` looks for a recorded tip in the active segment only, so
  a tip printed by an earlier rotation is not found (document, line 376).
- `put` does not sync its directory, so a power loss may keep a queued release and
  lose the blob's name.

## What is proved

The theorems below are checked by TLAPS for every value of the constants that
satisfies the named assumptions of the modules: scope sets included in one
another as in the catalogue, requests made of known subjects, actions and
resources, `Unverified` no subject's name, contents with a size, a release
triple for each subject and content, and bounds that are natural numbers. The
bounds (`MaxRecords`, `MaxIds`, `MaxLines`, `MaxRows`, `MaxSegments`) may be any
number, so the proofs cover chains, files and queues of any length. Each
component has an inductive invariant, `IInv`, of which a run checks on its
instance what the proof shows of all.

The approval loop. The properties are about the whole chain, while the code
looks only at the active segment. The inductive invariant `IInv` says why that is
enough, and each part is needed:

- `OpenStateSurvivesRotation`: the pending rows and unspent approvals of the
  active segment are those of all records. This alone is not inductive;
- `SegmentIsTrue`: what a segment, its checkpoint included, says was submitted,
  resolved or approved really was, so a guard on the segment says something
  about the chain;
- `LifecycleOrder`: resolved refs were submitted and consumed ones approved, so
  a row that left a segment cannot be open;
- `SubmittedIsBacked`, `ResolvedIsLater`: the records an allow rests on, in order;
- `FrameIsTrue`: a call between its two appends has paid and not been honoured,
  or has decided and not queued; this carries the facts across a crash point;
- `ChainShape`, `TypeOK`: ids are fresh.

Every action falls under one of a few lemmas about what a record of its kind
adds to the chain (`DecisionKeepsChain`, `SubmissionKeepsChain`,
`ResolutionKeepsChain`, `ConsumptionKeepsChain`, `RotationKeepsChain`). From the
invariant: `TypeCorrect`, `OpenStateSafe`, `DecidedOnceHolds`, `SpentOnceHolds`,
`EscalatingNeedsHumanHolds`, `OneRowPerReleaseHolds`, `NeverReopensHolds`,
`AbandonedIsFinalHolds`, and `LoopImplementsLifecycle`, the refinement of
ApprovalLifecycle. `DecidedOnce` and the others about uniqueness, and
`AbandonedIsFinal`, are proved from `WhatIsNew`, a step-level lemma that names the
one record a step adds and the guard it was added under.
`IdsContinueHolds` is a step-level lemma too (`IdsStep`): what a step appends, a
rotation's seal and checkpoint included, is numbered on. `LeastPrivilegeHolds`
needs that the process carries its grounds to the append of the decision
(`FrameIsGrounded`), because the policy looked at them a step earlier.

The replay. `ReplayAgreesHolds` is about a recursive function, so it is proved by
induction on the records replayed (`ReplayAgreed`, by `UpTo` of Induction). What a
dictionary overwrites it forgets, so the two agree only on records in which a ref
has one row and one verdict (`Consistent`). That the active segment is such is a
fact about the whole chain (`SegmentIsConsistent`): its rows are those of the
escalate decisions with their ids, ids are not used twice (`IdsContinue`), and no
ref is decided twice in any segment (`DecidedOnce`), so not even a checkpoint's
seed meets another verdict.

The identity authority. The invariant adds to the properties that a delegation
in progress still has the grounds it was checked on (`CallIsGrounded`: nothing
but the clock moves meanwhile) and that only a directly minted identity of a
delegating role is delegatable (`DelegatableIsRoot`). From it: `NoOrphan`,
`DepthOne`, `WithinBinding`, `LifetimeNestedUpToDrift` and `OnlyTimeRevives`.

The audit store. `IInv` has three layers, for three sets of mishaps.

- Whatever happens (`TypeOK`, `OneWriter`, `UnendedIsUnsynced`): one process
  holds the lock, a record that was written ends with its newline, and a line
  without one was never synced. So a write, torn or not, changes no synced line:
  it adds a line, or spoils the unfinished one.
- Without a repair (`KeptOrBroken`): each acknowledged record is among the
  synced lines, or one of these does not continue its predecessor. Whether a line
  continues its predecessor is between these two lines (`BrokenStays`), and
  neither is touched again, so `open` will refuse the file for ever. From it
  `VerifiedIsCompleteHolds`, for every mishap but a repair: overlapping
  processes, failed writes, glued lines, in any number and order.
- Under `Discipline` (no overlapping processes, no write that fails and lets the
  process go on, no write that stops just before its newline, no interrupted
  repair): the file, or what a repair holds while the file is empty, is one
  chain and perhaps a torn tail (`OneChain`), the process on it is in step with
  its tip, and every acknowledged record is in it, synced unless a repair has
  just been there (`AckedInChain`). From it `AckedIsKeptHolds`,
  `RecoverableHolds`, and `StoreImplementsDurableLog`, the refinement. It rests on
  a few lemmas about chains of records: a prefix of a chain is a chain whose tip
  is a prefix of the tip (`LinkedPrefix`), a record that continues the tip
  continues the chain (`LinkedAppend`), and a chain verifies (`LinkedVerifies`).

That `Discipline` cannot be weakened is what the runs and remarks above show: each
event it excludes has a counterexample.

The rotation, for processes that do not overlap (`"overlap" \notin Events`: the
document has the gateway stopped, and finding 4 is what happens otherwise), with
deaths and power losses between any two steps. The difficulty is that a power loss may forget any of the directory operations not
yet synced. The invariant says why every directory it can find is one to start
from:

- `Formed`: what a name of the chain leads to is a segment, records that continue
  each other, then at most a seal that tells the truth; what its checkpoint and
  records leave open is what the whole history leaves open;
- `Sound`: a directory names an active segment and an archive for each number
  before it, each continued by the next, with every acknowledged record in one of
  them. It holds of the directory in memory and of the one on the disk. That the
  archives of a lineage are different files is not part of it, it follows: their
  seals bear different numbers (`SoundTyped`);
- `DiskFollows`: the two have the same lineage, or the disk lacks the last rename,
  and then nothing was recorded behind it. This is what the first record's fsync,
  which makes the active name durable, has to give (`AppendWhole`), and what lets a
  power loss take a rotation back but never a record;
- `InStep`: where a process is says what it has read, locked and synced. The digest
  taken before the link is of the file linked; a resumed rotation plans on the
  sealed bytes, so it derives the checkpoint the first run would have
  (`CheckpointIs`).

That a staging file can be had is an argument about numbers: there are more files
than records, and a chain of n segments has more than n records (`SuccessorIs`,
`SoundTyped`). From the invariant: `RecoversHolds`, `NothingLostHolds`,
`OpenIsCarriedHolds`, and `RotationImplementsSegmentedChain`, the refinement: the rename is the rotation, a power loss that forgets it is the
abstract chain's `Undo`, and seal, staging, link and re-runs are not seen.

The segment family. `IInv`: what was ever detached is listed, by the active head
or in the active segment. From it `OpensIfAccountedHolds`. The deep verification
is a walk over the archives, a recursive function on the natural numbers;
that a failure is never forgotten and that the lineage it has found is the recorded
one (`LossIsNoticedHolds`, `GreenIsCompleteHolds`) is proved by taking the least
index at which it would not be so (`LeastNumber`), because the library's induction
principle is out of the prover's reach. The last one is the theorem behind finding
3: the records are the recorded ones, the bytes only those of the last archive.

The enforcement point. The properties are about finished answers; the invariant
says of each place in `mediate` what was done on the way there:

- `CallShape`, `AnswerShape`: what has been asked, forwarded, withheld or served;
- `SpentIsOwn`: the approval a call used is spent, and was for what this call asked
  when it used it, the tool or the release;
- `PlanStands`: the plan was checked before the question, and cannot change while
  the call lasts;
- `TrailSoFar`: the records so far;
- `QueueShape`: no two waiting releases ask for the same;
- `StoreShape`: without purges that overlap the gateway, whatever is waiting or
  about to be queued is stored and not on a purge's list.

From it `FlaggedNeedsHumanHolds`, `ReleaseBuysBytesHolds`, `PlanBindsHolds` and
`AccountedHolds`, whatever the store loses, rots or stores in part; and
`OpenRowHasBlobHolds` when a write stores what it was given (`"short" \notin
Events`; `quarantine_short` shows that without it the property fails).

Model-checked only: `Converges`, which is liveness and out of the prover's reach. Every invariant and every safety property
that a passing run checks is also proved.

## What is not modelled

- Screening rules, text normalisation, resource derivation and scope patterns:
  stateless text matching, left to the repository's tests. ApprovalLoop has their
  outcome as constants (`InScope`, `Escaping`) and Enforcement as the class of a
  response and a choice of the policy.
- Record timestamps and their monotonic floor.
- Keyed seals, `verify --active-only`, the anchor check, and the derivation of
  the carried state once more from the last archive: SegmentFamily is about which
  archives are there and whether their records are the recorded ones.
- In Enforcement, an append that raises within `mediate`: the caller gets a fixed
  error and no content, as when the downstream call raises. ApprovalLoop has the step,
  and AuditStore the file it leaves.
- The in-memory quarantine store, `PlanBook.clear` (nothing calls it), and a power
  loss of the quarantine directory.
- Cryptography. Hashes are injective (a record is what it commits to) and a
  token that was not issued does not verify.
- JSON-RPC framing, listings, statistics, the demo, packaging.

## Plan

Done: ApprovalLoop and its proofs, IdentityAuthority and its proofs, AuditStore,
Rotation, SegmentFamily, Quarantine, Enforcement.

The theorems of ApprovalLoop, QueueReplay, IdentityAuthority, AuditStore, Rotation,
SegmentFamily and Enforcement are proved. Next:

1. The rows of Enforcement as a refinement of ApprovalLifecycle.
2. Timestamps in AuditStore.
3. An append that raises within `mediate`, in Enforcement.
