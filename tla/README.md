# Orcana runtime: TLA+ verification project

This directory holds TLA+ models of the parts of the Orcana runtime where
several asynchronous parties share state, the TLC configurations that check
them on small instances, and machine-checked proofs of the results that should
hold for every size. Source paths below are relative to the repository root
(`src/...`); `PROJECT.json` maps every definition to the lines it models.

## 1. The system

Orcana is a coding-agent runtime in TypeScript (about 94,000 lines). Its own
control logic, as opposed to adapters and presentation, lives in five places: the
workflow scheduler, the execution daemon with its broker, the host capacity
authority, the harness around a run, and the agent kernel with its file
transactions and completion gates.

| Component | State it keeps | Operations | Interacts with |
|---|---|---|---|
| Write lock (`workflow/scheduler/concurrency-controller.ts`) | held flag, owner token, one waiter, token counter | acquireWrite, tryAcquireWrite, release, abort, deadline | scheduler nodes |
| Workflow scheduler (`workflow/scheduler/scheduler.ts`, `ready-queue.ts`, `dependency-policy.ts`) | ready list and in-degrees, running promises, finished set, pending interrupt | fill loop, launch, settle, pause, completion gate | write lock, result store, cache, interrupts, capacity authority |
| Results (`workflow/results`) | result map, checkpoint file, read cache | put and persist, restore, cache get/put/invalidate | scheduler, file system |
| Interrupts (`workflow/interrupts`) | persisted interrupt records | open, resume, resolve | scheduler, user |
| Host capacity authority (`runtime/linux/scheduler/host-capacity.ts`) | claims table, idempotency table | reserve, updatePhase, releaseRequested, reconcile, chargeRecoveredCell | brokers and schedulers over a socket, `/proc`, cgroups |
| Execution broker (`runtime/linux/broker.ts`) | acquired resources of each cell | execute (reserve … spawn … cleanup … release), cancel | authority, sandbox backend, processes |
| Execution daemon (`execd`) | SQLite cells, handles, receipts, idempotency; leases, events | submit, runCell, cancelCell, cancelRun, cleanupRun, recover; leases, watch | broker, authority, clients |
| Workspace lease (`runtime/linux/workspace/workspace-lease.ts`) | lock directory with an owner file | acquire with stale takeover, release | other processes |
| Service cells (`runtime/linux/service`) | service records, restart epochs | start, ready, restart, stop | broker |
| Harness (`harness/runtime`, `harness/interrupts`, `harness/persistence`) | run objects, registry of controllers, watchdogs, run records on disk | run, resume, cancel, save | kernel loop, user, file system |
| Agent kernel (`agent/loop.ts`, `agent/kernel`, `agent/context-epoch.ts`) | message history, supervisor counters, retry budgets, run-bound resources | phases, rounds, rollover, terminal switch, Stop hook | provider, tools, gates |
| Patch transactions (`agent/patch-transaction.ts`, `tools/file.ts`, `tools/transaction.ts`, `file-state`) | file baselines of a run, staged files, rollback snapshots | read, approve, stage, check, rename, revert, rollback | workspace, other runs |
| Evidence and completion (`agent/evidence-ledger.ts`, `agent/completion-orchestrator.ts`, `agent/verification`) | write generation, transaction history, unmanaged writes, ledger | stamp, ingest, cover, claim | file tools, shell, verification tools |

What is hard in this code:

* **Concurrency.** JavaScript runs a function to its next `await` without
  interruption, so the interleavings are those of awaits, timers, promise
  settlements, socket requests, and of separate processes.
* **Failure.** Clients and the daemon die at any point while the sandboxed
  processes go on; checkpoints are written best effort; replies get lost.
* **Time.** Reservation and lock waits end after 60 s, a release request after
  5 s, reconcile runs every minute. Each timer races with what it guards.
* **Stale facts.** A recorded pid, a token, a cache entry, a workspace digest, a
  file baseline, a passing verification are taken at one moment and trusted at
  another.
* **Generators.** The harness and the kernel are async generators: a consumer
  may stop pulling, close them at any yield, or abort them while they await.

What makes each component correct: the write lock has one owner at a time and
never strands the slot; a node runs only on satisfied dependencies, one write
at a time, never again after it was restored, and a run says `done` only when
everything is; no process runs without a durable identity and a charged claim,
a cell has one claim, and abandoned capacity comes back; a submission starts one
cell, whose recorded verdict is true of its processes and final; a commit is
built on what its run has read and overwrites nobody; a run is done only on
evidence newer than its last change; an answer is acted on once and a cancel
reaches the loop; requests are well formed, stalls are caught, every run ends
with its resources released. The hazards in
`PROJECT.json` list, line by line, where these could break.

## 2. Modules

| Module | Models |
|---|---|
| `WriteMutex` | abstract specification: a slot with waiting callers and an heir, who gets it in the step in which the owner leaves |
| `WriteLock` | `ConcurrencyController` |
| `WriteLockProofs` | inductive invariant, safety theorems and refinement of `WriteLock` |
| `HostCapacity` | the authority, the broker's spawn protocol, scheduler claims, daemon restart |
| `HostCapacityProofs` | inductive invariants and safety theorems of `HostCapacity` |
| `MCHostCapacity` | instances of `HostCapacity` |
| `WorkflowScheduler` | `runScheduler` with its queue, store, cache, interrupts and gate; composes `WriteLock` (INSTANCE `Lock`) |
| `WorkflowSchedulerProofs` | inductive invariant and safety theorems of `WorkflowScheduler`, on top of those of `WriteLock` |
| `MCWorkflowScheduler` | seven workflows of three nodes, and one with a shared cache key |
| `ExecdCells` | the cells of the daemon: cell manager, store, broker execution, supervisor, cgroups, recovery |
| `ExecdCellsProofs` | inductive invariant and safety theorems of `ExecdCells` |
| `MCExecdCells` | two cells of one run on a host with a delegated cgroup |
| `PatchTransaction` | the transactional file tools, the freshness approval and the writes around them |
| `PatchTransactionProofs` | inductive invariant and safety theorems of `PatchTransaction` |
| `MCPatchTransaction` | one run on two files, with its peers and outside writers |
| `CompletionEvidence` | write generation, transaction history, evidence ledger and completion gate of a run |
| `CompletionEvidenceProofs` | inductive invariant and safety theorems of `CompletionEvidence` |
| `HarnessRun` | run(), resume() and cancel() of the harness over one run and its record |
| `HarnessRunProofs` | inductive invariant and safety theorems of `HarnessRun` |
| `KernelLoop` | runAgentLoop: phases, rounds, supervision, retries, history, Stop hook |
| `KernelLoopProofs` | inductive invariant and safety theorems of `KernelLoop` |

### WriteLock

One action per call or callback: `AcquireFree`, `AcquirePreAborted` and
`AcquireBusy` are the three paths of `acquireWrite`; `Deadline` and `Abort` are
its timer and its signal listener; `Release` and `ReleaseAgain` call
`releaseWrite`, with a live and with a spent handle. A waiter object is named
by its token. `tryAcquireWrite` takes the same step as `AcquireFree`.

`WriteMutex` is what it promises. A caller that waits gets in only as the heir,
a slot with an heir is handed to that heir in the step in which its owner
leaves, it becomes free only without an heir, and who gave up is not let in.
The mapping takes `inside` from the holding calls, `waiting` from the waiting
ones and `heir` from the waiter field.

### HostCapacity

The claims table is a function from insertion numbers to rows. A row keeps the
phase, a token counter in place of the token hash, and the spawned pid (named by
the broker execution it belongs to). The requested amounts are abstracted to
one unit of the scarcest dimension. `Reserve` and `ReserveRefused` are `reserve`
with its outcomes (a refused retry has lost its idempotency record); `PreSpawn`, `SpawnAttempting`, `CommitIdentity`, `AttachAndGo`,
`ExecuteAndGo` follow `broker.execute`; `SendRelease`, `ReleaseRequested` and
`ReleaseTimeout` split the bounded release into sending, serving and giving up;
`Reconcile` is the periodic timer; `Restart` is the daemon's `start` after a
crash (reconcile, then the recovery charge, then admission). `Reality` is the
process reality provider: a leader that is absent is proof; a live leader is
not, unless the claim names a cgroup that holds no process.

Each authority method is one step, because its statements run synchronously
and the built-in provider never leaves the microtask queue. Brokers inside the
daemon (`Local`) call the authority directly; their replies cannot be lost, and
their continuations from reserve to `PRE_SPAWN` and from the identity commit to
the attach run before the timer can (`InMicrotask`). Remote clients have
neither guarantee. The history variable `early` marks the executions whose claim
a pass judged between the identity commit and the attach of a remote broker.

### WorkflowScheduler

`loop = "fill"` is the synchronous inner loop of `runScheduler`: no node moves
while it runs. `loop = "await"` is the `Promise.race`; `race` records how it was
decided, and later settlements do not change it. `FillStep` has one action per
branch of the loop and of the synchronous prefix of `launch`; `NodeStep` has
one per await of a launched node. `Crash` and `Resume` start a new run from the
checkpoint (`StartRun`), whose write may have failed at any earlier `put`. A
result is abstracted to its status, its declared acceptance, and whether it
carries failing verification results. The execution of a node is two steps:
`Execute` stores the result, `Return` is what `launch` does after the await. It
may store the result again (ownership denied) or rewrite it in memory (role
output invalid), updates the cache and releases the slot. A cache given to a run
may hold results of earlier runs (`Injected`), and of other workflows when the
spec says `shared`. Budgets and assignments are a
nondeterministic refusal when the run has a pool; merge integration, worktrees
and completion criteria are left out, so `blocked_conflict` does not occur. A
result cache is always present, and a human node has no synchronous responder.

### ExecdCells

Three kinds of state, lost at different moments: what SQLite keeps (cell states,
idempotency, handles, receipts), what the daemon remembers (where each
`runCell` stands, the abort controllers, the isolation lock, the cancellation
in flight), and what the kernel keeps (process trees, cgroup directories). The
path of a cell is `SubmitAccepted`, `RunCellStart`, `RecordHandle`,
`AcquireAndSpawn`, `AttachAndGo`, an end (`LeaderExit`, `WallTimeout`,
`AbortSeen`), `ExitEvent`, `ReceiptEvent`, `cleanupAcquired`, `FinishCell`, with
the failures of each step. `cancelCell` is two steps, because it reads the state
before its awaits and writes after them; so is `cancelRun`. `Transition` is the
guarded transition of the store. `Crash`, `Restart`, `RecoverCell` and
`OpenAdmission` are a restart, one recovery step per cell. A process tree is a
launcher, attached to its cgroup, astray (the attach was tolerated to fail),
dying, or gone; a descendant that leaves its process group survives
`terminateTree`. `cgroup.kill` may fail at every use: `Removal` then leaves
processes and directories behind and the clean-up releases the lock anyway; the
history variable `outlived` names the cells this happened to. `cancelAgent`, `stop()`, logs, leases, sessions and the event
stream are left out.

### PatchTransaction

Contents are version numbers, so equal contents have equal hashes. A record of
the ledger is partial, full, truncated (only an analysis of a long file was
read) or unmarked: `checkFresh` writes its verdict back, and so a truncated
record loses its mark at a failed check. A run's call
goes through `BeginWrite`, one `Snapshot` per target (in any order, they are
read in parallel), `Stage`, then `Check` and `Rename` for each file, and
`RecordWrite`. `loop` names the run inside a synchronous section: from the first
check to the last rename nothing else of the process runs, but other processes
do. `Abandon` and `Restore` are the catch block of `applyAndCommit`, which
undoes the renamed prefix after a conflict and every path after any other error.
`RollbackTool` and `DirectWrite` (apply_patch, shell) write without a look at
the baselines. Other runs are the constant `Peer`: they can change a file
whenever no synchronous section is open.

### CompletionEvidence

The outcome of each write tool for the counters (`gen`, `count`, `unmanaged`,
`uncovered`, `covered`), the stamp a verification gets when it runs, the round
that hands its last result to the ledger, the batch tsc after a round that wrote
TypeScript, and the gates. A tracker asks for typecheck evidence or not, its
steps may be undone, a plan may swap it and a resume may lose its kinds.
`NarrowFinish` accepts what was ingested, lets the batch tsc run and ends. The
history's hash chain is a session number and a length. Three histories are kept
for the properties: the entry a gate accepted (`accepted`), whether the run
changed a file after an entry was collected (`clean`), and whether it made a change that no counter sees (`blind`):
apply_patch, a revert that throws, and everything before a resume, which starts
a new generation and keeps the ledger.

### HarnessRun

Each run() or resume() call is a process, since both are async generators.
Objects are named by the call that made them, so two restored copies of one run
are two objects. `registered` and `handle` are what the registry holds. `LoadRun`,
`RegisterRestored` and the validation are separate steps because of the awaits
between them. The kernel loop is external: it works until it returns a decision,
throws, sees an abort, or is closed. `Crash` ends the process and keeps the
record, unless it was being rewritten in place.

### KernelLoop

One action per exit of a phase and per way into another round. The history is a
sequence of message kinds: `ask` (user), `say` and `use` (assistant without and
with tool calls), `result`. `superviseNextRound` is the function of that name
with `LoopSupervisor.afterRound`, `ProgressGovernor` (through its verdict on
whether a round was effective) and the commitment debt. What the model, the
tools and the gates answer is nondeterministic. `held` is the set of run-bound
resources; `StopRun` releases them in the order of the code, and a release that
throws skips those after it. `BuildThrows` is an exception after the sandbox was
made and before the loop got the context. `RoundsOver` forgets the history
and the counters once no later step reads them. `EpochTail` is the normal path
of the rollover; its fallback serves a tool chain that is open when a round
starts, which does not happen here (`ClosedChains`).

## 3. Runs

| Run | Result | Shows |
|---|---|---|
| `write_lock` | passes | `MutualExclusion`, `SlotHasHolder`, refinement of `WriteMutex` |
| `write_lock_fifo` | violation | the second waiter overwrites the first (finding 1) |
| `host_capacity` | passes | `OneActiveClaimPerCell`, `ExecOnlyWithIdentity`, `ChargedUnlessOverlooked`, `AbandonedClaimFreed` |
| `host_capacity_overcommit` | violation | a reconciled claim is charged again past the capacity (finding 2) |
| `host_capacity_ghost` | violation | descendants run after their claim was freed (finding 3) |
| `workflow_scheduler` | passes | `DependenciesHonoured`, `SingleWriter`, `RestoredNotReexecuted`, `DeadlockOnlyAfterError`, `DoneMeansComplete`, `ResultsAreFinal`, `RunEnds` |
| `workflow_replay` | violation | a replayed result is stored under another node's id (finding 4) |
| `execd_cells` | passes | `OneCellPerKey`, `VerdictIsTrue`, `RunningCellIsAnchored`, `OneWriterUntilCrash`, `VerdictsAreFinal` |
| `patch_transaction` | passes | `CommitsFromWhatItRead`, `NoCommitIsOverwritten`, `ConflictKeepsOthers` |
| `completion_evidence` | passes | `DoneIsVerified`, `FreshVerificationSuffices` |
| `harness_run` | passes | `AnswerRunsOnce`, `CancelReachesLoop`, `SavedAnswerIsFinal`, `FinishedCallIsReleased`, `StartedCallEnds` |
| `kernel_loop` | passes | `ClosedChains`, `StallIsCaught`, `LoopEnds` |

**Bounds.** `write_lock`: three callers, six tokens: a holder, a waiter and an
overwritten waiter at once, and each may come back. `host_capacity`: a local
broker with a cgroup, a remote one with and a remote one without, on the same
(run, cell) pair, and a scheduler node; capacity 2, two rows, two tokens per
row: enough for a refused double acquire, a rekey with a late release of the old
token, a restart that charges a recovered cell, orphans, tolerated attach
failures and a pass between identity and attach. `MaxClaims` and `MaxToken` cap
the two counters and nothing else; that a refused retry loses a record other
than 0 takes a third row and is left to the proofs. `RunningIsCharged` without
any exception is the property of `host_capacity_ghost`. `workflow_scheduler`: three nodes, three in parallel,
two restarts: three competing writers, a dependency chain with a blocked node,
a join, a pool with a harness tool node, and a crash of a run that was itself
restored, each start with any cache that earlier runs can leave. Shared cache
keys are only in `workflow_replay`. `execd_cells`: two cells of one run, so that clean-up
and `cancelRun` of one meet the other, two keys, one crash; `MaxCells` and
`MaxCrash` are the only bounds. `patch_transaction`: one followed run, its peers
and an outside writer on two files, four versions: a read, a two-file commit, a
conflict between its two renames, and a rollback over a later edit.
`completion_evidence`: two files, calls start up to generation 4, one resume.
`harness_run`: run() and two resume() calls, two interrupts: an answer raced by a
second answer, and an interrupt of a resumed run. `kernel_loop`: four rounds and
four physical requests, one transport retry, three stall rounds, a ladder of
three, a debt of one, and two turns kept by a rollover (the code keeps three):
enough for a stall by each of the three counters, a retry at the cap, and
rollovers of histories shorter and longer than what they keep.

**Deadlock checking** is off where the system may stop: a workflow that ended,
clients that are done, cells, calls and loops that ended have nothing left to do.

**Fairness.** `HostCapacity!FairSpec` assumes that the reconcile timer keeps
firing and that a local broker's continuation runs; nothing is assumed of
clients, processes or messages. `WorkflowScheduler!FairSpec` assumes that the
event loop runs what is ready, that the 60 s deadlines of reservation and lock
fire, and that a node's execution ends (handlers have their own timeouts). A
held write slot is released in the `finally` of the node, so no fairness of the
lock itself is needed. `HarnessRun` assumes that a consumer pulls or closes its
generator, that awaits end, that the watchdog of a run fires, and that a kernel
loop whose controller is aborted comes back (`KernelLoop` is where that is
shown); a run configured without a wall-time limit has no watchdog, and
`StartedCallEnds` says nothing of it. `KernelLoop` assumes that the generator is
pulled or closed and that what it awaits ends, by the idle timeout of the
provider and the timeouts of the tools: weak fairness of `Step \/ Throw \/
Close`. `ExecdCells`, `PatchTransaction` and `CompletionEvidence` state safety
only.

**Exceptions the properties make.** Each is a state the code reaches and the
model shows:

* `ChargedUnlessOverlooked` excepts the processes that the reality provider
  cannot see: descendants whose leader is gone, a process that a tolerated attach
  failure left outside its cgroup, and one whose claim was judged after the
  identity commit and before a remote broker attached it. In each case the claim
  is freed while the process runs.
* `OneWriterUntilCrash` excepts cells whose own clean-up failed to kill their
  processes: the code ignores the failure and releases the lock, so two cells
  write without any crash. It ends with the first crash: a restarted daemon has
  an empty lock table while a recovered cell still runs, and nobody watches that
  cell's exit. `cancelRun` records CANCELLED without a termination proof.
* `CommitsFromWhatItRead` excepts the unmarked record: contrary to
  `src/file-state/freshness-gate.ts:40`, a truncated baseline authorizes an edit
  once a failed check took its mark and the file is back at that content.
* `NoCommitIsOverwritten` excepts a write from outside the process between the
  last hash check and the rename. `ConflictKeepsOthers` is about conflicts: after
  any other error every path is restored, also those that others wrote.
* `DoneIsVerified` is about runs whose gate needs typecheck evidence: the batch
  executor saw them write, or their tracker names it. A narrow edit that was
  accepted still ends `verified_write` when the batch tsc of its round fails
  ("the authoritative typecheck for the round",
  `src/agent/verification/coordinator.ts:242`). A tracker rebuilt from a
  checkpoint names no kinds, and such a run needs no evidence. A run without one that wrote only through the shell or apply_patch
  passes the gate with no evidence, contrary to the note in
  `src/agent/evidence-ledger.ts:343-345`; apply_patch moves no counter at all.
* In a fresh process several resume() calls may each restore a copy of the run
  before any of them has registered its own. `AnswerRunsOnce` then allows one
  continuation per copy, and `CancelReachesLoop` is about the time when there is
  one copy.
  `FinishedCallIsReleased` excepts the kernel generator of a run cut off by a
  budget, which is left suspended, and a call closed at its opening events, which
  skips the clean-up.
* `ClosedChains` excepts the prompt of a blocked narrow edit, which is pushed
  between the call and its result, and a rollover with fewer turns than it keeps,
  which may start the history with a result.
* `LoopEnds` demands one Stop hook and, of the resources, that nothing stays held
  except what a throwing clean-up skipped and the sandbox of a context that was
  never handed over; the shell is never left with a sandbox that was disposed.

**What no property says.** `DoneMeansComplete` does not speak of evidence. The
completion gate accepts a run when some verification of some write passed, or
one of any harness tool node, while `src/workflow/scheduler/scheduler.ts:7-8` and
`727-730` read as if each write needed one: evidence for each write does not
hold, and the gate's own condition is not worth restating. A result restored
after a crash between its store and its validation was not validated. A crash
after an answer was acted on and before the save leaves the interrupt pending on
disk, and the answer is acted on again.

## 4. Proofs

`WriteLockProofs` proves, for every set of callers and every token bound
(assumption `MaxTokenAssumption`: the bound is a natural number):

* `TypeCorrect`, `MutualExclusionHolds`, `SlotHasHolderHolds`:
  `Spec => []TypeOK`, `[]MutualExclusion`, `[]SlotHasHolder`;
* `Refinement`: `Spec => ImplementsMutex`.

None of the invariants is inductive alone. The inductive invariant adds the
facts the handoff relies on: tokens below `nextToken` only, and different for
different calls; a holding call has the owner token, and the owner token is 0
exactly when the slot is free; a waiter in the field belongs to a call that is
waiting, and a cancelled token does not. From these a release by the owner
grants the slot to exactly the waiting call the field names, and a release with
any other token changes nothing. The refinement maps `inside`, `waiting` and
`heir`; every action enters, asks, gives up, leaves without an heir, hands over
to the heir, or stutters.

`HostCapacityProofs` proves, for every set of brokers (finite), scheduler nodes
and (run, cell) pairs, every capacity and every bound on rows and tokens
(assumption `CapacityAssumption`):

* `TypeCorrect`, `NoDoubleAcquire`, `IdentityBeforeExec`: `Spec => []TypeOK`,
  `[]OneActiveClaimPerCell`, `[]ExecOnlyWithIdentity`;
* `RunningAlwaysCharged`: `Spec => []ChargedUnlessOverlooked`, for local, remote,
  delegated and other brokers alike.

`OneActiveClaimPerCell` is inductive given the types: `reserve` checks the pair,
`updatePhase` and a release are stopped by the unique index, reconcile activates
nothing, and recovery charges only cells without an active row.
`ExecOnlyWithIdentity` is not inductive: the invariant `IInv` adds that a
client with an idempotency record holds the row it names, that two clients never
share a row, that rows are inserted above every row in use, and that nothing is
spawned before the identity step. `CInv` adds for `ChargedUnlessOverlooked` that
a release on its way belongs to a session that has ended, and that a delegated
broker's claim is active from the identity commit on, unless a pass came in
between: in that window the launcher is not yet in the cgroup, and a reconcile or
a release would take the empty cgroup for a proof. A local broker goes on in the
same turn of the event loop, so that only a remote one can be in `early`.

`PatchTransactionProofs` proves, for every set of runs and files and every
number of contents (assumptions `NoOneAssumption`, that the names of the outside
writers are no runs, and `MaxVersionAssumption`): `TypeCorrect`, `CommitReads`
(`CommitsFromWhatItRead`), `NoLostUpdate` (`NoCommitIsOverwritten`),
`ConflictRevertIsOwn` (`ConflictKeepsOthers`). The invariant says, run by run,
how far the transaction is in each phase; that from the first check to the end
of the commit or of its revert the run is inside its synchronous section; that
every approved base is the run's own baseline, a record that the check has
just let pass; and that what is renamed, or due
to be undone after a conflict, is the run's or was written by another process.
Since a run writes only while it holds the section, the step of one run cannot
touch these facts about another.

`HarnessRunProofs` proves, for every set of calls and number of interrupts
(`FirstAssumption`, `BoundAssumption`): `TypeCorrect`, `AnswerOnce`
(`AnswerRunsOnce`), `CancelReaches` (`CancelReachesLoop`), `SavedAnswers`
(`SavedAnswerIsFinal`), `NothingOutlives` (`FinishedCallIsReleased`). The
invariant: nothing exists before run(); an object is driven only after its call
made it; one call serves an object; interrupts are numbered in the order of
their creation, so an interrupt that is pending on a driven object is on no
other copy and settled by no save; an accepted answer stays on its object. An
earlier form of `AnswerRunsOnce`, which made an exception only for two
calls that loaded together, held with the three calls of the run and turned
out not to be provable: with four calls a late one meets a copy that another
call registered. The property now names the object.

`ExecdCellsProofs` proves, for every number of cells, keys, runs and crashes,
with and without a delegated cgroup (`CellsAssumption`, `RunsAssumption`: the
values that stand for "no call" differ from calls): `TypeCorrect`, `Idempotent`
(`OneCellPerKey`), `HonestVerdicts` (`VerdictIsTrue`), `Anchored`
(`RunningCellIsAnchored`), `OneWriter` (`OneWriterUntilCrash`) and the action
property `FinalVerdicts` (`VerdictsAreFinal`). The invariant ties the durable
state of a cell to the phase of its `runCell`, the phase to what exists in the
kernel, the handle to the cgroup, the lock to the phases that need it (apart from
the cells a failed kill left behind), and a
cancellation in flight to the state it read before its awaits. Most steps start
nothing for a cell (`Calm`), and one lemma carries the invariant over all of
them; the rest is the path from submission to spawn and the recovery.

`CompletionEvidenceProofs` proves, for every finite set of files, every bound on
generations and resumptions (`FilesAssumption`, `BoundAssumption`):
`TypeCorrect`, `Verified` (`DoneIsVerified`), `GateOpens`
(`FreshVerificationSuffices`). The invariant says what a stamp tells, of the
pending and of the latest entry: a passing entry after which a file changed has
an older generation, or a call is still between its renames; one after which
nothing changed has the present generation and, if it is bound, the present
binding. It adds that what is counted has an entry in the history.

`KernelLoopProofs` proves, for every positive budget, cap and limit
(`BoundsAssumption`; the limits come from the environment): `TypeCorrect`,
`ChainsClosed` (`ClosedChains`), `StallCaught` (`StallIsCaught`), and
`StoppedRunIsWoundUp`, the safety half of `LoopEnds`. The invariant
describes the history at each phase (it ends with a user message and all chains
are closed, or the last message has the open calls), and relates the
supervisor's counters to what the rounds did. That a rollover finds the turns it
keeps needs a fact about all histories; it is proved from the least element of a
set of indices, since induction is not available.

`WorkflowSchedulerProofs` proves, for every number of nodes, every set of acyclic
workflows, every parallelism and every number of restarts
(`SchedulerAssumption`): `TypeCorrect`, `OneWriteAtATime` (`SingleWriter`) and
`RestoredStayPut` (`RestoredNotReexecuted`); and, for workflows in which no two
reads share a cache key and whose cache serves no other workflow (the hypothesis
`SoleKeys`), `DependenciesFirst`
(`DependenciesHonoured`), `NoDeadlock` (`DeadlockOnlyAfterError`),
`DoneIsComplete` (`DoneMeansComplete`) and the action property `FinalResults`
(`ResultsAreFinal`). The hypothesis is needed: `workflow_replay` violates
`DependenciesHonoured` without it. The first layer of the invariant defines the
nodes that have told their dependents (`Told`) and says that a counter of the
queue is the number of dependencies that have not (`Countdown`), that a node is
queued once, when its counter is down and before it starts, that an executing
write holds the slot, and that the invariant of `WriteLock` holds of the slot:
its steps are cited from `WriteLockProofs`, through an instance. The second
layer says that results and stages agree, that who told has finished, and that
the results of finished nodes, in memory and in the checkpoint, are grounded:
they satisfy the conditions of those that ran on them (`Grounded`,
`DiskGrounded`). A node
whose counter is down then has results of all its dependencies; and if nothing
is queued, running or paused, the least node that has not told was launched and
threw. What `InOrder` returns (each element once) is proved from a smallest
counterexample.

Two definitions were made precise by the proofs: `InOrder` is stated as an
increasing enumeration, and the ends of a filling round and of a run are IF
chains, because the guards of a CASE that overlap leave the choice open.

Only model-checked: liveness (`AbandonedClaimFreed`, `RunEnds`,
`StartedCallEnds`, `LoopEnds`), which is out of the prover's reach. Every safety
property of a passing run is stated by a theorem, four properties of the
scheduler under the hypothesis named above.

## 5. Findings

1. The write lock is not FIFO: one waiter field, overwritten by the next waiter.
2. Reconcile frees claims of live owners that have not spawned yet, and
   `updatePhase` reactivates a released row without a capacity check.
3. A leader that is gone counts as proof of termination of the whole cell.
4. A cache hit stores the result under the id of the node that produced it.

## 6. Plan

Each component has its model, its run and its proofs. What would add most:

1. An abstract specification of the scheduler (nodes get one result each, in an
   order the dependencies allow) that `WorkflowScheduler` implements within a
   run, and one of the cell store (a cell is submitted once and gets one
   verdict); the invariants above are what their refinement proofs need.
2. The exceptions above as obligations of their own, once the code closes the
   gaps: a kill whose failure keeps the lock, a ledger that keeps the truncated
   mark, an attach before the identity commit, evidence for each write.
3. The four properties of the scheduler for workflows with shared keys, once a
   replay is stored under the node that asked for it.

Candidates for later models: the cross-process workspace lease with stale
takeover, the daemon's event stream (a subscriber sees every event once, in
order), service cells with restart epochs, merge integration, and the age of
cached reads in `WorkflowScheduler`.

## 7. Not modelled

Sandbox backends, policy compilation, seccomp and egress (translation to
external tools); the tools other than the file tools, LSP, MCP and provider
adapters; memory, context maps, session, skills, ripple analysis (storage,
static analysis and text selection, whose results enter the models as
nondeterministic answers); terminal and web interfaces (presentation); workflow
compilers and validators (the models start from validated specs); the in-process
resource ledger (superseded by the authority); evaluation harnesses and scripts.
Daemon sessions, leases, logs and event stream, the cross-process workspace
lease, service cells, remote workers and merge integration are state machines
that could be modelled and are not yet. Most of the repository's lines belong to
this list: the models cover the control logic where interleavings, failures and
stale facts matter, a small share of the whole.
