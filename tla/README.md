# FOMO in TLA+

FOMO is a web workbench in which a coding agent builds an application for a
user.  A user's message becomes a *run*; an API process stores it, worker
processes claim and execute it in sandboxes of an external provider, and what
the agent builds is verified and published as a new *version* of the project.
This directory holds TLA+ models of that program, the TLC configurations that
check them on small instances, and proofs for every instance.

Paths below are relative to `src/services/control-plane/src/fomo/` unless they
start with `src/`.

- [1. The system](#1-the-system)
- [2. Modules and plan](#2-modules-and-plan)
- [3. From the code to the modules](#3-from-the-code-to-the-modules)
- [4. What the runs check](#4-what-the-runs-check)
- [5. What is proved](#5-what-is-proved)
- [6. Findings](#6-findings)
- [7. What is not modelled](#7-what-is-not-modelled)

## 1. The system

```
  browser ── HTTP/SSE ── API process ──┐
                                       ├── PostgreSQL (repository.py: one
  preview URL ── preview gateway ──────┤    transaction per public method)
                                       │
  worker processes (runner.py) ────────┘
     └── orchestrator ── session ── transport ── RPC bridge in sandbox G ── agent
            ├── verification in a clean sandbox V
            ├── sandbox provider (create, kill, look up; sandboxes expire)
            └── inference gateway (a key per run, usage)
```

The database is the only thing processes share.  A worker's authority over a
run is a lease: `claim_next_run` stores a fresh token and a deadline, a
heartbeat renews it, and every later write of the worker repeats the predicate
*running, my token, not expired* (`_run_for_write`).  Losing the lease is found
out at the next write or the next heartbeat, never earlier.

| component | state it keeps | operations | what is hard | what makes it correct |
|---|---|---|---|---|
| **Run control** `persistence/repository.py` | runs (status, lease, cancellation, continuation, base version), project pointer, versions and head | create, recover, answer, cancel, save, restore; claim, renew, ask, publish, mark terminal; recover expired leases | API requests, several workers and recovery interleave; stalled workers come back | one writer, no stale write, one publication per success, cancellation decides, no run lost |
| **Sandbox resources** `repository.py`, `direct_pi/workspace.py`, `worker/runner.py` | resource rows, `sandbox_id`, `preview_url`, cleanup targets in a sweep | create, register, attach, adopt, destroy, sweep, acknowledge | crashes between the calls; kills that fail; lists that age while they are worked off | nothing of an old attempt beside a new one; nothing needed is killed; everything is reclaimed |
| **Worker loop and heartbeat** `worker/runner.py` | the task in hand, lease token, preflight backoff | recover, sweep, claim, execute, renew | the heartbeat cancels the task at any await | a lost lease ends the task, a question does not |
| **GoalGraph** `direct_pi/goalgraph.py`, `goal_manager.py`, `repository.py` | graphs, nodes, checkpoints | persist, activate, claim, resume, checkpoint, fail, terminalize, supersede | a crash between any two; graphs of cancelled runs stay active | one current goal, checkpoints are verified goals, never stuck |
| **Orchestrator** `direct_pi/orchestrator.py` | the refs G and V, the current goal, the final verdict | open workspace, plan, build, audit, verify, repair, publish, exits | which handler runs after which failure | the run ends settled, its sandboxes destroyed or handed over |
| **Agent session** `direct_pi/session.py`, `execution.py` | turn, events, budgets, cancellation watcher | start a turn, stream, stop, abort | abort, timeout, budget and result race | a turn ends once; no cost is lost |
| **Verification** `direct_pi/verification.py` | gates and their results | build, start, browser tests | flaky or hung commands | a verdict belongs to the code it judged |
| **Preview gateway** `preview_gateway.py` | none of its own: it reads the runs, the provider and its configuration | look up, resolve, expire, proxy, rewrite links | its view of the provider is old, visitors race, deployments change the public address | only a preview that is over expires, once; every link of the application arrives |
| **Usage ledger** `repository.py` | reservations, settlements | reserve, settle, total | lease lost between the two; retries; totals that leave out a run | a settled turn holds what was charged; a run stays within its limit |
| **Admission and recovery lineage** `api/app.py`, `repository.py` | client keys, chains of recovery runs, inherited checkpoints | look a key up, apply the policy, create | requests are repeated and overlap; limits are counted at creation and at use | one key is one run; an admitted run can start, from the newest verified work |
| **Runtime preflight** `runtime_preflight.py` | last verdict, backoff, the probe's key and sandbox | probe | the backoff delays recovery as well; a probe fails or is cancelled in any step | nothing is left behind, no claim without proof, queued runs are taken |
| **Inference gateway** `fomo_pi_ds/gateway.py` | keys | issue, block | revocation is skipped by a crash | a key does not outlive its run by more than its TTL |
| **Transport and bridges** `fomo_pi_ds/`, `src/infra/opensandbox/*.mjs` | frames, turn state | start, events, abort, final | a final, an abort and a timeout race | exactly one final per turn |
| **Delegated subtasks** `src/infra/opensandbox/fomo-delegate-subtasks-core.mjs` | pool, budget | spawn, collect, abort | abort while the pool fills | bounded, all children end |
| **Event log and stream** `repository.py`, `api/app.py`, `src/apps/web/lib/events/reducer.ts` | sequence numbers, the client's state | append, replay, stream, reduce | reconnects replay | each event applied once and in order |
| the rest of the HTTP API, accounts, configuration, provider client, reporter, web workbench, deployment | | | | see [section 7](#7-what-is-not-modelled) |

The hazards of this code, each at its line and with the properties that would
catch it going wrong, are listed in `PROJECT.json`.

## 2. Modules and plan

| module | what it is |
|---|---|
| `RunControl` | the durable run: every transaction on runs, versions and the project pointer, and the workers' tasks |
| `RunControl_proofs` | the inductive invariant of `RunControl` and every safety property that follows |
| `SandboxCustody` | extends `RunControl` with the orchestrator's steps between its transactions, the sandboxes, their rows and the sweep; refines it |
| `GoalGraph` | extends `RunControl` with the nodes behind its count of checkpoints; refines it |
| `GoalLoop` | one run of the orchestrator over the *content* of the candidate: turns, settlement, audit, capture, verification, checkpoints, publication, recovery |
| `GoalDelivery` | abstract: what a GoalGraph promises; `GoalLoop` implements it |
| `AgentTurn` | the paid turns of one run: session, transport, bridge, inference key and usage ledger |
| `WorkerGate` | the worker's loop in front of a run: hint, preflight with cache and backoff, and the claim statement by statement under READ COMMITTED |
| `RunAdmission` | how a run comes to exist: repeated and overlapping create and recover requests, the recovery lineage and the checkpoint it inherits |
| `EventStream` | the events of one run: log, pages, SSE streams, snapshots, reconnects and the workbench's reducer |
| `EventFeed` | abstract: what the log promises a subscriber; every stream of `EventStream` implements it |
| `PreviewGateway` | look-up, resolution, expiry, proxying and link rewriting of published previews |
| `RunRefinements_proofs` | that `GoalGraph` and `SandboxCustody` implement `RunControl`, and the invariants of goals and of sandboxes; uses `RunControl_proofs` |
| `GoalLoop_proofs`, `EventStream_proofs` | the inductive invariants of these modules and that they implement `GoalDelivery` and `EventFeed` |
| `AgentTurn_proofs`, `WorkerGate_proofs`, `PreviewGateway_proofs`, `RunAdmission_proofs` | the inductive invariants of these modules and what follows |
| `MC...` | the instance of the module of that name for TLC |

`RunControl` serves as an abstract specification: it says which transactions
may follow which and knows nothing of sandboxes or nodes.  `SandboxCustody` and
`GoalGraph` name their state's common part the same and so refine it under the
identity mapping; `PROPERTY Spec` in their configurations checks that each of
their steps is a step of `RunControl` or leaves its variables alone, and
`RunRefinements_proofs` proves it.  What is proved of `RunControl` is thereby inherited.
`GoalLoop` refines `GoalDelivery` with `promoted <- verified, delivered <-
published`; `EventStream` refines `EventFeed` with the length of the log, the
open connections and their cursors.  Both are checked and proved as well.

The other modules each take one part of the system apart that `RunControl`
treats as a step or two or leaves out.  They carry a reduced copy of the run's
status, and the transactions in it have the names they have in `RunControl`.

Every invariant that a run checks is a conjunction of named parts where it has
several: `CustodyInvariant`, `GoalInvariant`, `VerdictIsSound`,
`SpendIsAccounted`, `ViewInvariant`, `PreflightIsClean`, `ExpiryIsHonest`,
`AdmissionInvariant` hold the module's type invariant or consistency of its
columns and the parts described at their definitions.

What the plan has left: the delegated subtasks of the bridge, whose cost is
part of the turn in `AgentTurn` so far.

All modules avoid `RECURSIVE` operators; iteration is by quantifiers, `CHOOSE`
of the least element, recursive functions, or the folds of the community modules.

## 3. From the code to the modules

### 3.1 RunControl

One project (projects share nothing that matters here).  Runs are numbered by
`created_at`, versions by their `number`; 0 is SQL's NULL.

| variable | code |
|---|---|
| `status`, `cancelRequested`, `baseVersion` | columns of `RunRecord` |
| `leaseOwner`, `leaseExpired` | `lease_owner`; `lease_expires_at <= now` |
| `continuation` | `continuation_request_id` and the status of its request; `"detached"` is a continuation whose run has lost `sandbox_id` to lease recovery |
| `graph`, `checkpoints` | the run's GoalGraph and the number of its checkpoints |
| `activeRun`, `projectStatus`, `headVersion` | columns of `ProjectRecord` |
| `versions` | the `VersionRecord`s: parent, QA status, run |
| `taskRun`, `taskToken` | what a worker process is executing and the lease token it carries, which may be older than the row's |
| `locked` | the rows that a claim in progress has selected `FOR UPDATE` |
| `overtaken` | history: runs whose claim counted no other writer and then saw another claim commit before its own; a mark lasts while that claim is in progress or its run has another writer beside it |

Each transaction is one action and carries the name of its method.  The
repository locks the run's row and then the project's, always in this order,
and keeps both to the end of the transaction; so a transaction is atomic with
respect to the others on the same run and no lock-order deadlock arises.  The exception
is `claim_next_run`, whose count of other writers sees only what is committed
when it is taken (READ COMMITTED) and precedes its own update.  It is two actions:
`SelectCandidates` locks rows (`SKIP LOCKED`: what another claim holds is passed
over) and counts; `ClaimNextRun` writes and commits, unless the partial unique
index on running runs refuses it (`ClaimRefused`: the IntegrityError ends the
process's loop and it starts over).  Everything else commits in between:
creations, answers, questions, recovery, the other worker's claim.
`WorkerGate` adds the preflight before it and a step for each statement.

The fence is `Fenced(w)`.  A worker whose lease was lost keeps its task and its
token and goes on; all its fenced writes are disabled from then on, and
`LeaveTask` is the moment when a write or the heartbeat tells it so.  Tokens
are uuids in the code; `FreshTokens` picks any that nobody stores or carries, so
as many tokens as workers are enough: when a claim is written the index admits no
running run, so only the other workers' tasks hold tokens.

`LeaseExpires` needs a fault while a live task renews the lease (the heartbeat
is starved for longer than the lease) and none when no task carries its token.
`RecoverExpiredRunningRun` takes `intact` from `{TRUE, FALSE}`: whether the
checkpoint's manifest and attestation validate.  Repeating a request that was
already served (same client id) returns the stored answer and is a stutter here;
`RunAdmission` is about it.  `MaxEdits` bounds manual saves and restores only.

### 3.2 SandboxCustody

`pc` gives every worker the phase it is in.

```
 idle ─ListTargets→ sweep ─SelectRuns→ claim ─ClaimRun→ begin ─CreateGeneration→ register → attach → work
   ↑                  │                  │                └─Adopt→ work | unavailable
   └─NothingToClaim───┘                  └─Crash (or refused by the index)→ idle
 work ─CreateVerification→ registerV → attachV → verify → judged ─Pass→ passed ─Publish→ committed
   ↑                                               └──RetireVerification──┘
   └────────── return ←ForgetPreview─ retire ←────────────┘
 work ─Ask→ asked        any acting phase ─Abort→ abort ─End→ close ─Leave→ idle
 asked ─Preserve→ close  committed ─Keep→ close
 any phase ─LoseLease | HeartbeatStrikes→ close | disown
```

`gen` and `ver` are the orchestrator's references to G and V; `rowRun`,
`rowKind`, `cleaned` are the resource rows; `targets` is the list the sweep
works off.  The provider (`provided`, `alive`, `expired`) is external: it
creates, kills, and ends a sandbox's lifetime whenever it likes.

Recovery and the two cleanup lists run concurrently in the runner
(`asyncio.gather`), so `RecoverExpired` may commit before or after the lists
are read.  `AwaitsContinuation` keeps the three-valued logic of the query: the
comparison with a NULL `sandbox_id` excludes the row from the list.

Every task step that takes a fenced write has that write's guard; a task whose
lease is gone can take only exits, and those of its exits that need no fence
(killing its own sandbox) still happen, at any later time.  A cancellation of
the task by the heartbeat is `LoseLease`, except in the two phases after a
commit that itself gave up the lease, where it is `HeartbeatStrikes` and skips
the assignment that would have spared the sandbox.

### 3.3 GoalGraph

`node[r][g]` is the status of goal `g` in run `r`'s graph; `DependsOn` is the
plan's dependency relation, of which only what `_validate_goal_topology`
guarantees is assumed.  Which statuses may follow which is `Transitions`, from
`transition_goal_status`; a transition it refuses rolls the transaction back
and so disables the action.  `RecoverGoals` repeats lease recovery with its own
look at the current goal, where `RunControl` looks only at the count of
checkpoints: that the two agree is part of the refinement, and would fail if an
active graph with checkpoints could lack a current goal.

### 3.4 GoalLoop

The candidate's source is a function from files to values, so that "changed",
"what was audited" and "what was verified" can be told apart.  `G` and `V` are
the two sandboxes; `task` holds the locals of `_run_goal_graph`, `question` the
cursor that `wait_for_user_input` stores, `checkpoint` the content and capsule
of the last checkpoint.  `task.pc` follows the method:

```
 prepare → planning → select → turn → settle → typecheck → claim → audit → capture → verify
              ↑          ↑       ↑______________repairs____________________________|   |
              └ drafts   └────────────── record_verified_checkpoint ←── accept ←───────┘
 final → reverify → publish                                               └→ publish
```

Goals are numbered in the order of `select_executable_goal`, which a frozen
graph fixes.  `Passing[g]` is what the acceptance suite of goal `g` accepts and
`Compiling` what type-checks and builds: verdicts are deterministic, and a flaky
gate is `InfrastructureFails`.  `Taints` is what the auditor finds wrong with
files that are not the candidate's to change.  `DriftGeneration` and
`DriftVerification` are processes of the candidate or the agent that write after
their time, at any point of the method.  Between an audit and the capture that
follows it the code has no second look at G: what is then recorded is not what V
judged.  The history variable `strays` names the goals to which that happened, from
the write to the goal's next audit.  `VerdictIsSound` says what holds in spite
of it (V was judged and is unchanged) and that it is the only way to a
checkpoint that does not pass; that there is this way is the finding
`UnverifiedCheckpoint` of section 6.

### 3.5 AgentTurn

An attempt is one claim; its number stands for its lease token, its key and the
sandbox it makes.  A worker goes `claimed → opened → admitted → ready → checked
→ funded → reserved → clear → streaming → returned → settled → public`, and each
arrow is one call: a check, a fenced write, or a call to the gateway or the
provider.  A failure of any of them goes to `failing`, whose exits discard the
sandbox, mark the run and block the key.  The bridge runs on its own: it charges
while its key has credit, and is ended by an interruption, its own time limit
or the kill of its sandbox.  Costs are counted in the provider's smallest
charge.  `blind` is a history variable: a key was bought while an unsettled
entry hid the run's spend from `_usage_totals_for_runs_in_session`.

### 3.6 WorkerGate

`claim_next_run`, which is two steps in `RunControl`, is four here: `Select` takes the row locks (`FOR UPDATE
SKIP LOCKED`), `Count` counts the other writers of the project as committed at
that time, `Write` fails if the partial unique index on running runs refuses it
(the IntegrityError leaves `run_forever` and ends the process), `Commit`
releases the locks.  The preflight is one step for each of its calls, with the
key and the sandbox it owes; a cancellation is deferred until its clean-up is
done.  Time passes in ticks, shorter than any of the three durations.

### 3.7 RunAdmission

A request is two transactions with an await between them: `LookUp`, and after
the runtime policy one of the two creations, which look the key up again under
the project's lock.  `Lineage(r)` is the chain from the original request to `r`,
`InheritanceIsIntact` the walk of `_recovery_checkpoint_for_run_in_session`.
What workers do to a run is reduced to its status and its checkpoints.  The
history variable `misled` collects requests that got another answer than the run
they had made.

### 3.8 EventStream

A snapshot is two reads (`SnapshotHead`, `SnapshotEvents`) and an arrival; a
stream repeats status, page, events, and the browser applies each event through
`ReduceDomainEvent`.  Two connections may be open for one run: the one that sent
its message and the one a snapshot resumed.  A failed gate is an event of its
own kind because `isTerminalEvent` takes it for the end.  `displaced` remembers
that a late snapshot or a late answer to `startRun` set the view back under a
stream that was further ahead.

### 3.9 PreviewGateway

A path is a sequence of segments, a run is named like its sandbox.  `Init`
picks host or path mode, `Redeploy` changes it, and a preview keeps the base
path it was built with.  A visit goes from look-up to body, resolution,
expiry or proxying; `link` is the location or the asset in the reply, which
`Follow` sends back as the next request, and `meant` the path the application
wanted it to reach.  A sandbox is running, paused, stopping or gone: `paused`
stands for every state in which it is alive and not `Running`, and can be
resumed.  The history variable `steady` holds the requests whose sandbox has been
running ever since their look-up.  `Pages` and `Assets` contain a page
whose first segment is that of the preview itself.

### 3.10 Operators named `Mutant…`

Each is a plausible mistake in the definition after it: a dropped guard, a
missing reset, an order swapped.  No specification uses them.  Replacing the definition
by its mutant makes TLC violate the property `PROJECT.json` names, which
shows that the property depends on that code and that the instance is large
enough to notice.

## 4. What the runs check

| run | instance | properties | states |
|---|---|---|---|
| `RunControl` | 2 workers, 2 runs, 2 goals, 1 question, 1 manual edit, 1 fault, `FairSpec` | `TypeOK`, `SingleWriter`, `OneEffectiveWorker`, `ActiveRunPointsAtLiveRun`, `OneActiveGraph`, `SuccessIsOnePublication`, `WaitingHasPendingQuestion`, `CancelDecides`, `TerminalRunIsFrozen`, `NoRunIsLost` | 958 k |
| `Custody` | 2 workers, 1 run, 2 goals, 3 sandboxes, 1 question, 1 fault, 1 failed call | `CustodyInvariant`, `CleanedMeansGone`, `WriterHoldsEveryResource`, `PublishedPreviewIsKept`, `SweepSparesLiveWork`, refinement of `RunControl` | 1.31 M |
| `CustodyReclaim` | 1 worker, 1 run, 3 sandboxes, 1 question, 1 fault, 1 failed call, `FairCustodySpec` | `EndedRunIsReclaimed` | 179 k |
| `GoalGraphSafety` | 2 workers, 2 runs, 3 goals (a fork), 1 question, 1 manual edit, 1 fault | `GoalInvariant`, `WorkerIsNeverBlocked`, `CheckpointsAreVerifiedGoals`, refinement of `RunControl` | 1.03 M |
| `GoalLoop` | 4 goals, 2 files, 5 turns, 2 faults, 1 inheritable checkpoint | `VerdictIsSound`, `GoalsHaveEffect`, `LogicalTurnIsKept`, refinement of `GoalDelivery` | 7.59 M |
| `AgentTurns` | 2 workers, 3 attempts, 2 turns, a limit of 2, 1 fault, `FairSpec` | `SpendIsAccounted`, `OneBridge`, `PaidWorkStops` | 678 k |
| `EventStreams` | 3 events, pages of 2, 2 connections, 1 lost connection, `FairSpec` | `ViewInvariant`, `StreamIsFaithful` (with the refinement of `EventFeed`), `ViewerCatchesUp` | 475 k |
| `WorkerGate` | 2 workers, 2 runs of one project, backoff 1 to 2 ticks, 2 faults, 1 question, `FairSpec` | `PreflightIsClean`, `OneRunningWriter`, `QueuedRunIsTaken` | 109 k |
| `PreviewGateway` | 1 run, 2 visitors, 2 faults, 1 redeployment | `ExpiryIsHonest`, `LinksArrive` | 1.80 M |
| `RunAdmission` | 2 clients, 4 runs, chains of at most 3, 2 sizes of content, 1 checkpoint each | `AdmissionInvariant`, `RetryGetsItsRun`, `AdmittedRunCanStart`, `RecoveryKeepsNewestWork` | 504 k |

**Bounds.**  Every `Max...` constant that the code does not have appears as a
conjunct in the guard of one kind of action and bounds what is created, never
how the code treats it.

- *RunControl, SandboxCustody, GoalGraph.*  Two workers are enough for every race
  over a run, because a race is between the holder of the lease and one that was
  or wants to be, and the claims of two overlap; two runs for every race over the
  project (more are covered by the proofs); one manual edit for a base or a head
  that no run has made.  One fault gives a stalled worker, a recovery and a second attempt
  beside it; two goals give a graph that is neither fresh nor complete.  Three
  sandboxes are a G and a V and the G of a second attempt.
- *GoalLoop.*  Four goals: one to deliver a file, one to break it, one that is
  already content, and a final one, so that a focused verification comes after a
  damage.  The three contents beside the base are a correct one, one that breaks
  goal 1, and one that does not compile.  `MaxCapsulePaths` is 1 for two files, as
  24 is for a project; `MaxCapsuleGoals` is the code's 6.  Two faults give a drift
  and a crash.
- *AgentTurn.*  Three attempts of two turns: a turn can be cut off, its run
  requeued, and the next turn meet what it left.  A limit of 2 can be missed by one.
- *EventStream.*  Pages of 2 for 3 events: the end of a run may be beyond a page,
  as it may be beyond 500.  Every run of events that fits, with failed gates and
  progress, is explored.
- *WorkerGate.*  The backoff doubles once and meets its limit; the proof of a
  preflight expires after one tick.  Runs of several projects do not compete.
- *PreviewGateway.*  One preview: previews share nothing; its sandbox pauses and
  resumes any number of times.  Links of five kinds,
  each with and without a base path, in both modes and across a redeployment.
- *RunAdmission.*  Keys are taken in order, and the requests under way compete
  for one key (`Competing`); one run at a time has not ended (`MaxLive`); a run
  ends cancelled.  Chains of at most 3 runs in 4 reach the depth limit, contents
  of 1 and 2 against `MaxPrompt` 4 the size limit.  Framework, profile and
  thinking are one `runtime`, of which one is enough because the property is
  about whether a request *leaves it open*.

**Symmetry.**  Workers, tokens, clients and visitors are interchangeable: no
action compares them otherwise than for equality.  It is declared in runs of
safety and action properties only.

**Deadlock** is checked where the system always has something to do
(`PreviewGateway`, `RunAdmission`).  Elsewhere it is not an error: once every run
has ended and the bounds are used up nothing is left to do, and a waiting run may
wait for its user for ever.  That the system does not stop earlier is
`NoRunIsLost`, `WorkerIsNeverBlocked`, `EndedRunIsReclaimed`, `PaidWorkStops`,
`ViewerCatchesUp` and `QueuedRunIsTaken`.

**Fairness** is weak throughout; with strong fairness a worker would be
guaranteed a claim between two requests that keep disabling it, which the code
does not offer.  Nothing is assumed of users, crashes, stalls or failing calls.

- *RunControl, SandboxCustody.*  `run_forever` polls for ever, so recovery, the
  sweep and claims are fair.  Turns, gates and exit handlers have deadlines, so a
  task concludes.  A task that lost its fence is cancelled by its heartbeat, so it
  leaves; one condition of fairness stands for all three ends of a task.  A lease
  nobody renews runs out by the clock.  `NoRunIsLost` excepts
  projects that wait for a user and detached continuations (section 6).
- *AgentTurn.*  The same, and every call of a task returns or fails by its
  timeout; the sweep retries the kill of a registered sandbox.  `Charge` and the
  provider's side of a turn are not fair: an agent may do nothing for ever.
- *EventStream.*  The server's loop and the browser's requests make progress; that
  the run ends, that a connection stays up and that the worker writes are not
  assumed.  The user presses the reconnect button (`Reconnect`).
- *WorkerGate.*  The loop, the clock and the restart policy of the container.

Each property has at least one mutant in `PROJECT.json`, a conjunction one for
every part of it.

## 5. What is proved

Every safety and action property of a run that passes is a theorem, and so are
the four refinements; what is left to TLC is in section 5.8.  A theorem holds
for all values of the constants that satisfy the named assumptions of the
modules.  These say that bounds are natural numbers, that values are distinct from
NULL and from values of other kinds, that the compiled and passing contents are
contents, and that a goal depends on earlier goals (`TopologyAssumption`, which
is `_validate_goal_topology`).  TLC evaluates all of them on the instances.

| module | theorem | says |
|---|---|---|
| `RunControl` | `TypeCorrect` | every variable keeps its type |
| | `SingleWriterHolds` | two runs of a project are never both running, and a second one runs or waits only beside a waiting one, and only after a claim was overtaken between its count and its commit |
| | `OneEffectiveWorkerHolds` | at most one process passes the write fence |
| | `ActiveRunPointsAtLiveRunHolds` | the project pointer is a live run, and NULL only when no run is queued |
| | `OneActiveGraphHolds` | two GoalGraphs are never active together |
| | `WaitingHasPendingQuestionHolds` | a run waits exactly while its question is unanswered |
| | `SuccessIsOnePublicationHolds` | a run succeeded exactly when one version carries it |
| | `CancelDecidesHolds` | an accepted cancellation decides how the run ends |
| | `TerminalRunIsFrozenHolds` | a finished run stays as it ended |
| `GoalGraph` | `GoalGraphImplementsRunControl` | every step is a transaction of `RunControl` or changes none of its variables, lease recovery's own look at the current goal included |
| | `GoalInvariantOfRuns` | at most one goal is current, and an active graph with checkpoints has one |
| | `WorkerIsNeverBlockedHolds` | the worker of an active graph always has a goal, or finds one that it may take up |
| | `CheckpointsAreVerifiedGoalsHolds` | checkpoints are the verified goals, their dependencies are among them, and a graph is verified when all are |
| `SandboxCustody` | `CustodyImplementsRunControl` | every step between the transactions is one of them or changes no run |
| | `CustodyInvariantHolds` | a run that waits, or is queued to go on, lacks its sandbox exactly when lease recovery detached it |
| | `CleanedMeansGoneHolds` | no acknowledged row has a living sandbox |
| | `WriterHoldsEveryResourceHolds` | whoever works on a run holds every live resource of it |
| | `PublishedPreviewIsKeptHolds` | a published preview is what its run verified, and ends only by its lifetime or by the task that published it, struck before it let go |
| | `SweepSparesLiveWorkHolds` | a sweep kills nothing that is awaited, published or held, however old its list |
| `GoalLoop` | `GoalLoopImplementsGoalDelivery` | goals are promoted one by one and nothing is delivered before the last |
| | `VerdictIsSoundHolds` | every promotion was judged on an unchanged V; what is checkpointed passes too, unless G was written between audit and capture; a focused suite leaves out nothing that could be broken |
| | `GoalsHaveEffectHolds` | no goal is promoted on an unchanged workspace, unless that is the checkpoint of an earlier goal |
| | `LogicalTurnIsKeptHolds` | what failed a verification is not captured again as it is, over repairs, questions, restored files and drift |
| `AgentTurn` | `SpendIsAccountedHolds` | a settled entry is its turn's cost, and the limit holds as far as the ledger knows |
| | `OneBridgeHolds` | one bridge of a run at most is at work |
| `WorkerGate` | `PreflightIsCleanHolds` | a preflight has tried to give back all it made, and no failed one counts as a success |
| | `OneRunningWriterHolds` | overlapping claims under READ COMMITTED never leave two runs of a project running |
| `RunAdmission` | `OneRunPerKeyHolds` | one key is one run, however its requests overlap |
| | `RetryGetsItsRunHolds` | a repeated request is answered with the run it made |
| | `AdmittedRunCanStartHolds` | what was admitted still passes the checks of the worker when it starts |
| | `RecoveryKeepsNewestWorkHolds` | a recovery inherits the last checkpoint of its nearest ancestor that has one |
| `EventStream` | `EventStreamImplementsEventFeed` | every stream hands out the log in order and without a gap |
| | `StreamIsFaithfulHolds` | the same, and a stream that the server ends has handed out the run's end, or what a page may hold of it |
| | `ViewInvariantHolds` | the view stays within the log and has no holes, unless an older snapshot displaced it |
| `PreviewGateway` | `ExpiryIsHonestHolds` | a preview expires once, and only for a request during which its sandbox left `Running`; whoever is told so finds it withdrawn |
| | `LinksArriveHolds` | a rewritten link is found at the look-up and asks the application for the path it meant |

### 5.1 RunControl

The argument is one inductive invariant, `WriterInv` (theorem
`WriterInvariant`), and what follows from it.  Neither `SingleWriter` nor
`OneEffectiveWorker` is inductive, so it has two more parts.

- `LeaseInv`: a run is running exactly when it stores a token, a task has a run
  exactly when it has a token, and no two tasks carry the same one; two fenced
  tasks are then on one run with its one token.  Exactly the runs beyond
  `created` are absent, which is why creating a run never touches an old one.
- `ClaimInv`: what a claim may rely on between its count and its commit.  Its
  rows stay queued and are locked by nobody else; and unless its run is
  `overtaken`, the project still has no other writer, because nothing but a
  claim makes one: a question, an answer, a recovery or a cancellation turns a
  writer into a writer or into none.

So a claim that commits is alone, or another one has committed since it counted;
then the index still excludes that both run, and what is left is a run that
starts beside one that has come to wait.  `SingleWriter` says exactly that.  Its
preservation is proved by kinds of transaction: one lemma each for those that
take a run from the workers' hands, that select, that claim, that drop a task,
that create a run, and that move none of these.

`ActiveRunPointsAtLiveRun` and `OneActiveGraph` are inductive beside `TypeOK`; the
former rests on `OldestIsMember`, which uses the well-foundedness of `<` to show
that the oldest queued run exists.  `WaitingHasPendingQuestion`,
`SuccessIsOnePublication` and `TerminalRunIsFrozen` need `WriterInv` for the
creation of a run; `SuccessIsOnePublication` also needs `NewVersionAppends`, that
a new version changes none before it.

The docstring of `claim_next_run` promises more than `SingleWriter`, which has the
exception of an overtaken claim; section 6 (`ClaimRace`) shows that the exception
is needed.

### 5.2 GoalGraph and SandboxCustody

Both are in `RunRefinements_proofs`, which uses the theorems of `RunControl`.

The refinement of `RunControl` by `GoalGraph` is not a property of single steps:
`RecoverGoals` is a step of `Recover` only because an active graph with
checkpoints has a current goal to resume.  So the invariant comes first.
`GoalIInv` adds to the invariants of `RunControl` that every graph agrees with its
run (`GraphsAgree`): a current goal is in an active graph and the only one
there, the goals that a current or verified goal depends on are verified, an
active graph with checkpoints has a current goal, and the number of checkpoints
is the cardinality of the set of verified goals.  The parts carry each other:
the count grows by one because the goal was not verified before
(`CountGrowsByOne`), and its dependencies are verified because the orchestrator
takes up only what is executable (`EligibleIsExecutable`).
`WorkerIsNeverBlocked` follows: an active graph without a current goal has no
checkpoint, so all its goals are pending, and the first depends on none
(`TopologyAssumption`); a current goal elsewhere would be in another active graph.

`SandboxCustody` refines `RunControl` step by step (`CustodyNextRefines`).
`CustodyIInv` is needed because none of the properties speaks of what a worker
holds between two calls:

- `ProvidedInv`: only what the provider has made is in a row or a hand, and
  what was acknowledged as cleaned, or outlived its lifetime, is gone.
- `HandsInv`: in each phase the worker's G and V are what that phase has
  created and registered, and no two workers hold the same unregistered sandbox
  or the same V.
- `ClaimantInv`: the rows that a claim has locked stay claimable until it
  commits: no other transaction registers a resource for them or forgets the
  sandbox of their continuation.
- `PublisherInv`: who still holds the V of a successful run is the task that
  published it, between that commit and its own end.  With `TargetInv` it makes
  `PublishedPreviewIsKept`: every kill, acknowledgement or forgotten reference of
  an advertised V is the provider's, or that task's in its exit handlers.
- `ReferenceInv`: `sandbox_id` is a registered row of its run, and of the kind
  that the run's status calls for.
- `CustodianInv`: what a task that passes the fence may rely on: when it begins,
  nothing but the sandbox of the continuation is live among its run's resources,
  and from then on nothing but what it holds itself.
- `TargetInv`: what may have become of a listed target since it was listed.
  While its run is running, the target is cleaned, is not the run's sandbox and
  is in no fenced hand; otherwise, if it is the run's sandbox, it is neither
  awaited nor published.  A list is read at one time and worked off at any
  later one, so this is the part that makes `SweepSparesLiveWork` hold: a run
  starts only when its resources are cleaned, and ids are never used again.

### 5.3 GoalLoop

`LoopIInv` has eight parts, of which `PhaseInv` says which step, graph, question
and sandboxes go together.  `VerdictIsSound` needs the chain behind a verdict:
`SourceInv` (what is audited, captured, verified and recorded is one content),
`JudgeInv` (a verdict is about what V froze), `TurnInv` (a turn, *and the stored
cursor of its question*, remembers what it started from), `StartInv` (a goal
starts from the last checkpoint unless that is marked unknown), `CapsuleInv`
(the capsule names every file that differs from the base) and `FocusInv`.  The
last two are what justifies the code's focused verification: it leaves out the
suites of earlier goals when no file they delivered has changed, and that is
sound only because the capsule that is compared covers all of them.

No theorem has a hypothesis about when processes write.  `SourceInv` says its
equations of the goals that have not strayed (section 3.4), `CapsuleInv` and
`FocusInv` while no goal with a checkpoint has (`CheckpointsAreStraight`);
`JudgeInv`, which is about V alone, needs no such condition, and with it
`PromotionIsJudged` has none.

### 5.4 AgentTurn

`OneBridge` and the accounts are one argument, because the ledger reads a
session that counts on over all turns of its sandbox, whoever reserved them.
`AgentIInv` centres on who *uses* the run's sandbox (`Uses`): an attempt whose
task is in one of its steps there, or a bridge that it left behind.  `UseInv` says
that at most one attempt does, and that it either holds the run or keeps every
later claim out (`Holds`), because its sandbox is alive and not the one the run
continues in.  From this follow

- `OneBridge`, as a task starts a bridge only in its own turn;
- that no other turn of the session costs anything while one is under way, so
  that the session's count is the count at its start and the turn's cost
  (`TurnInv`), and the difference of the two readings is what
  `settle_usage_entry` should store;
- that one key at most is charged, so what has been spent and what is left on
  that key are together within the limit (`MoneyInv`), unless some key was bought
  blind.

`RowInv` and `PlaceInv` say what the row and the sandboxes agree on, `TaskInv` what
a task knows of its turn in each step.  The sums are the community modules'
`MapThenSumSet`, a fold that takes the elements in an order of its own choosing.
That the order does not matter is shown by taking a smallest set for which it
would (`SmallestSet`); the lemmas after it say what a sum does when an element is
taken out, grows by one, or costs nothing.  The only assumption is
`AgentAssumption`.

### 5.5 WorkerGate and PreviewGateway

`OneRunningWriter` is not inductive across the statements of a claim.
`IndexInv` states what the partial unique index guarantees of a transaction
that has written and not committed: no other run of its project is running, and
no other transaction has written one.  `GateInv` is the preflight's half: in
each step it owes at most the key and the sandbox that the steps before it have
made.

`GatewayIInv` has `RowInv` for the database and `VisitInv` for a request, which
says of what a visitor has read only what can no longer become false: a
published run stays published and its URL can only go, a sandbox that was not
running takes its request out of `steady` for good, and a link that reaches a
path goes on to do so (`Reaches`), as the base path of a build never changes.
That a request for such a path is answered 404 only after the URL is withdrawn is
a part of `VisitInv` as well.  The link lemmas
(`RewrittenLocationLeads`, `RewrittenAssetLeads`) are about sequences alone.

### 5.6 EventStream

`StreamIInv` relates the log to every copy of a piece of it: a page on its way
(`StreamInv`), a snapshot under way (`SnapInv`) and the view (`ViewInv`).  A
stream reads the run's status before its page, so if the run had ended by then,
a page that is not full reaches the end; `StepClosesAtEnd`, the action half of
`StreamIsFaithful`, follows.  A snapshot's events are read after its head, so they
reach as far as the number it names.  No stream is ahead of the view: its next
event is known or the one that follows, so the view gets no holes; `MergedView`
shows that a late snapshot leaves it so.  The lemmas `MaxOfTwo` and `MinOfTwo` reduce the
community modules' `Max` and `Min` to arithmetic.

### 5.7 RunAdmission

`Lineage(r)` and `PromptSize(r)` are recursive functions over run numbers, and
the limits are about their values.  The library's induction theorems take an
operator as a parameter and cannot be used here; `LeastElement` takes their place:
a non-empty set of natural numbers has a least member (from `WFMin` and
`NatLessThanWellFounded`), so the set of inputs for which a statement fails is
empty.  `ChainsExist` and `SumsExist` prove with it that the recursive
definitions have a solution, and `LineageUnfolds` and `PromptSizeUnfolds` that
the operators satisfy their equations.  `LineageStays` and `SizeStays` then say
that a new run, a new status or a new checkpoint changes neither for existing
runs, whose parents are always older.

`AdmissionIInv` joins to the type, the keys and `misled = {}` what a request
between its two transactions may rely on (`CallInv`); that the source of a
recovery is older, has ended, and still has to hand over the checkpoint that it
handed over (`SourceInv`); and that the lineage and the prompt of every run are
within the limits (`PromptInv`).  The last two hold because an ended source gets no
other checkpoint: with a source that could still run, the recovery would be
checked against one checkpoint and start from another.

### 5.8 What is only model-checked

The five liveness properties `NoRunIsLost`, `EndedRunIsReclaimed`,
`PaidWorkStops`, `ViewerCatchesUp` and `QueuedRunIsTaken`: fairness and `ENABLED`
are outside the prover.  The findings of section 6 are runs of TLC.

## 6. Findings

Two runs expect a violation.  Each checks one sentence of the repository's own
messages or documents, and TLC's trace shows how the code departs from it.

| run | the text | what happens |
|---|---|---|
| `EditUnderWriter` | "An agent run is active; wait for it before changing the published version." | Cancelling a *queued* run resets the project pointer although another run is being written; edits are then admitted under that writer, whose publication does not descend from them. |
| `UnreadableCheckpoint` | "Recovery starts a fresh session from the latest verified checkpoint" | The capsule of a checkpoint is written with every goal and every changed path, and read back with limits of six goals and 24 paths a goal; a run that starts from a larger one fails before its first turn, however often it is recovered. |

Ten more configurations are kept beside the runs of `PROJECT.json`.  Each
checks a property that the text suggests and TLC refutes in seconds; run them
with `tlc -config <name>.cfg <module>`.

| configuration, module | the text | what happens |
|---|---|---|
| `CancelledRunWaits`, `MCRunControl` | "cancellation taking precedence" (`direct_pi/execution.py:36`) | `wait_for_user_input` does not look at the cancellation; a run cancelled during the asking turn comes to wait for the user who cancelled it. |
| `RequeuedRunStuck`, `MCRunControl` | "requeued so a fresh sandbox/session can resume" (`repository.py:3034`) | Recovery forgets `sandbox_id` and keeps the continuation; every later attempt is refused by `get_run_continuation`, before the orchestrator's `try`, so that the run stays `running` until its lease expires and recovery requeues it once more. |
| `FencingResourceUnlisted`, `MCSandboxCustody` | "registered resources fence the next claim until cleanup is acknowledged" (`repository.py:3035`) | For the same run, if the first kill fails, the generation row fences the claim and is on no cleanup list, its exclusion being NULL. |
| `PublishedPreviewKilled`, `MCSandboxCustody` | "Retain it until the preview is invalidated" (`repository.py:4246`) | A renewal that waited for the publication's row lock fails after its commit and cancels the task before `keep_verification` is set; the handler kills the published sandbox. |
| `AwaitedSandboxKilled`, `MCSandboxCustody` | "Preserve G exactly as-is" (`orchestrator.py:1580`) | The same window after a question, when the run was answered and claimed again meanwhile: the old task kills the sandbox the new one adopted. |
| `SpendLimit`, `MCAgentTurn` | the run's spend limit (`src/README.md:181`) | A turn cut off before its settlement hides the whole run from the totals; the next attempt's key gets the full limit again. |
| `StreamEndMisread`, `MCEventStream` | "You can reconnect safely from the last event" (`src/apps/web/lib/transport/agent-event-transport.ts:128`) | A failed gate's event carries `status: "failed"`; the transport takes it for the end of the run, and neither the stream nor the button shows what follows. |
| `ClaimRace`, `MCWorkerGate` | "Claim one queued run without allowing two writers for a project" (`repository.py:2900`) | The index refuses two running runs, but the count of waiting ones is taken before the write: a run of the project may start while another one comes to wait. |
| `UnverifiedCheckpoint`, `MCGoalLoop` | "Recovery starts a fresh session from the latest verified checkpoint" (`src/README.md:112`) | V is made from what the audit read (`orchestrator.py:1141`), the checkpoint from what the capture reads later (`orchestrator.py:1274`); a process left behind in G writes in between, and what is recorded and would be restored was never verified. |
| `LivePreviewExpired`, `MCPreviewGateway` | "removes the durable URL only after an authoritative OpenSandbox 404/410" (`src/README.md:280`) | After a 404 for the endpoint alone the gateway asks for the sandbox and takes every state but `Running` for its end (`preview_gateway.py:566`).  A test grants `Terminated` (`tests/test_preview_gateway.py:743`); a paused sandbox, which the provider supports (`sandbox/opensandbox.py:223`) and can resume, loses its URL too. |

Noticed while modelling, and modelled as the code has it:

- `messages` does not compare what a recovery names, so a message that reuses
  the key and content of a recovery is answered with the recovery's run; a
  repeated answer with the same key returns the first answer even if it differs.
- In path mode only redirects to the sandbox's endpoint are kept: one that names
  the preview's public address loses its location (`preview_gateway.py:423`).
- `src/README.md:143` says that focused verification skips the build; it builds.

## 7. What is not modelled

- In `RunControl`: who owns what, the size and shape of inputs, the session id,
  the phase and the repair counter of a run.
- In `SandboxCustody`: files and commands inside sandboxes, and the failure of
  creation after the provider answered, where the manager kills what it got.  A
  sandbox that was created and never registered is in the model
  (`CreateGeneration` before `RegisterGeneration`); only the provider's lifetime
  ends it, and no property claims more.
- In `GoalGraph` and `GoalLoop`: the admission of drafts (a draft is valid or
  not), acceptance evidence, navigation suites.  Planning turns leave no
  processes behind; a question answered over a verified graph
  (`orchestrator.py:331`) and the refusal of a no-op continuation
  (`orchestrator.py:812`) are left out.  `FocusIsSafe` speaks of runs without an
  inherited checkpoint, since the ids of that checkpoint may be another graph's.
- In `AgentTurn`: delegated child agents (their cost is part of the turn), the
  idle and turn time limits as numbers, the projection of public events.  The
  inside of the three bridges is one process that charges, sends and ends.
- In `EventStream`: what an event shows, and other runs of the project.
- In `PreviewGateway`: headers, cookies, streaming of bodies, and the fall-back
  to an older run's row for the same sandbox.
- In `RunAdmission`: the text that frames each follow-up in the prompt, and the
  base version a message may name (the workbench never does).
- HTTP validation and projections, artifacts, accounts and sessions: single-row
  operations that do not interact with runs.
- Configuration, runtime contract, starter assets, prompts, reporter, web
  components, build and deployment: no state of their own.
- Real time: a lease has or has not expired; only `WorkerGate` counts ticks.
