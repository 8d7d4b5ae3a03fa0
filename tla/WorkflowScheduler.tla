--------------------------- MODULE WorkflowScheduler ---------------------------
(***************************************************************************)
(* runScheduler (src/workflow/scheduler/scheduler.ts) with the ready queue,*)
(* the dependency policy, the result store and its checkpoint, the result  *)
(* cache, the interrupt of human nodes and the completion gate.  The       *)
(* single-writer slot is the module WriteLock.                             *)
(*                                                                         *)
(* The main loop fills: it takes nodes from the ready queue and launches   *)
(* them without awaiting, so no node moves while it fills.  Then it awaits *)
(* the race of the running promises; nodes move, and the first promise     *)
(* that settles decides the race and wakes the loop.                       *)
(*                                                                         *)
(* A run may be cut by a crash of the process: memory is lost, the         *)
(* checkpoint and the workspace stay, and the run starts again.            *)
(***************************************************************************)
EXTENDS Naturals, Sequences, FiniteSets

CONSTANTS
  N,            \* number of nodes of a workflow
  Specs,        \* the WorkflowSpecs a behaviour may run, one of them
  MaxParallel,  \* the option maxParallel
  MaxStarts     \* bound: runs started after the first, by crash or resume

Nodes == 1 .. N   \* in the order of spec.nodes

Conditions == {"terminal", "succeeded", "failed", "blocked", "accepted",
               "rejected"}

\* A done result may declare an acceptance, or carry failing verification
\* results (failedCount > 0) that the completion gate looks at.
DoneResults == {"done", "accepted", "rejected", "doneFailing"}

Results == DoneResults \cup {"failed", "blocked"}

(***************************************************************************)
(* deps[n]: the nodes n depends on; when[n][d]: the condition on d.  key:  *)
(* nodes with the same handler and input have the same key.  h11: nodes    *)
(* that run in the harness (never cached); human: the human nodes of them. *)
(* roles: h11 nodes that declare a role; tools: h11 tool nodes.            *)
(* outcomes[n]: what the execution of n may return.  pool: an agent pool,  *)
(* so a node may be denied or over budget.  harness: the run has a harness *)
(* environment, hence a workspace digest and a cancellation scope.         *)
(* shared: the cache given to the run also serves other workflows.         *)
(***************************************************************************)
WorkflowSpecs ==
  [deps : [Nodes -> SUBSET Nodes], when : [Nodes -> [Nodes -> Conditions]],
   writes : SUBSET Nodes, verify : SUBSET Nodes, h11 : SUBSET Nodes,
   human : SUBSET Nodes, roles : SUBSET Nodes, tools : SUBSET Nodes,
   key : [Nodes -> Nodes],
   outcomes : [Nodes -> SUBSET (Results \ {"blocked"})],
   readonly : BOOLEAN, pool : BOOLEAN, harness : BOOLEAN,
   shared : BOOLEAN]

ASSUME SchedulerAssumption ==
  /\ N \in Nat
  /\ MaxParallel \in Nat \ {0}
  /\ MaxStarts \in Nat
  /\ \A s \in Specs :
       /\ s \in WorkflowSpecs
       /\ \A n \in Nodes : /\ s.outcomes[n] # {}
                           /\ \A d \in s.deps[n] : d < n   \* no cycle
       /\ s.verify \subseteq s.writes   \* verification is a write handler
       /\ s.human \cup s.roles \cup s.tools \subseteq s.h11
       /\ s.h11 = {} \/ s.harness

VARIABLES
  spec,       \* the workflow being run
  loop,       \* the main loop: fill, await, or how the run ended
  race,       \* Promise.race: pending, resolved or rejected
  ready,      \* ReadyQueue.ready
  remaining,  \* ReadyQueue.remaining
  finished,   \* the set finished
  stage,      \* where each node's promise is
  store,      \* ResultStore.results, "none" where there is no entry
  disk,       \* the checkpoint: its results and workspaceDigest
  cache,      \* ResultCache: key -> node id and status of the cached result
  interrupt,  \* the node of pendingInterrupt.error, or 0
  opened,     \* workspaceHash of the interrupt records of this run
  answered,   \* resumeAnswer.nodeId, or 0
  workspace,  \* version of the workspace content
  digest,     \* workspaceDigest, computed when the run starts
  restored,   \* nodes whose result came from the checkpoint in this run
  starts,     \* runs started after the first
  writeHeld, writeOwnerToken, waiter, nextToken, cancelled, aborted, call,
  spent       \* the ConcurrencyController of the run

Lock == INSTANCE WriteLock WITH Callers <- Nodes, MaxToken <- N

lockVars == <<writeHeld, writeOwnerToken, waiter, nextToken, cancelled,
              aborted, call, spent>>

queueVars == <<ready, remaining, finished>>

dataVars == <<store, disk, cache, workspace>>

runVars == <<spec, answered, digest, restored, starts>>

pauseVars == <<interrupt, opened>>

vars == <<loop, race, stage, pauseVars, queueVars, dataVars, runVars, lockVars>>

Stages == {"idle", "reserving", "locking", "executing", "returned", "settling",
           "pausing", "throwing", "over"}

InFlight == {"reserving", "locking", "executing", "returned", "settling",
             "pausing", "throwing"}

running == {n \in Nodes : stage[n] \in InFlight}

Outcomes == {"done", "failed", "blocked", "blocked_no_evidence"}

\* A cached result names the node that produced it: 0 stands for no entry,
\* N + 1 for a node of another workflow.
CacheEntries == [node : 0 .. N + 1, result : DoneResults]

TypeOK ==
  /\ spec \in Specs
  /\ loop \in Outcomes \cup {"fill", "await", "paused", "threw", "deadlock"}
  /\ race \in {"pending", "resolved", "rejected"}
  /\ ready \in Seq(Nodes)
  /\ remaining \in [Nodes -> 0 .. N]
  /\ finished \subseteq Nodes
  /\ stage \in [Nodes -> Stages]
  /\ store \in [Nodes -> Results \cup {"none"}]
  /\ disk \in [results : [Nodes -> Results \cup {"none"}], digest : Nat]
  /\ cache \in [Nodes -> CacheEntries]
  /\ interrupt \in 0 .. N
  /\ opened \in [Nodes -> Nat]
  /\ answered \in 0 .. N
  /\ workspace \in Nat
  /\ digest \in Nat
  /\ restored \subseteq Nodes
  /\ starts \in 0 .. MaxStarts
  /\ Lock!TypeOK
-----------------------------------------------------------------------------
(***************************************************************************)
(* Dependency policy.                                                      *)
(***************************************************************************)
dependencySatisfied(when, result) ==
  CASE when = "terminal" -> result # "none"
    [] when = "succeeded" -> result \in DoneResults
    [] OTHER -> result = when

\* Faulty variant: one satisfied dependency is enough.
evaluateReadinessAny(n) ==
  IF \E d \in spec.deps[n] : store[d] = "none" THEN "pending"
  ELSE IF spec.deps[n] = {} \/ \E d \in spec.deps[n] :
            dependencySatisfied(spec.when[n][d], store[d])
  THEN "executable" ELSE "blocked"

evaluateReadiness(n) ==
  IF \E d \in spec.deps[n] : store[d] = "none" THEN "pending"
  ELSE IF \A d \in spec.deps[n] : dependencySatisfied(spec.when[n][d], store[d])
  THEN "executable" ELSE "blocked"

(***************************************************************************)
(* onDependencyDone(d): every dependent counts down; the ones that reach 0 *)
(* are pushed in node order.  left is the queue the new nodes go behind.   *)
(***************************************************************************)
InOrder(S) ==
  CHOOSE s \in [1 .. Cardinality(S) -> S] :
    \A i, j \in 1 .. Cardinality(S) : i < j => s[i] < s[j]

\* Faulty variant: the counter is compared before it is decremented.
onDependencyDoneLate(d, left) ==
  /\ remaining' = [n \in Nodes |-> IF d \in spec.deps[n] /\ remaining[n] > 0
                                   THEN remaining[n] - 1 ELSE remaining[n]]
  /\ ready' = left \o InOrder({n \in Nodes : d \in spec.deps[n]
                                             /\ remaining[n] = 0})

onDependencyDone(d, left) ==
  /\ remaining' = [n \in Nodes |-> IF d \in spec.deps[n]
                                   THEN remaining[n] - 1 ELSE remaining[n]]
  /\ ready' = left \o InOrder({n \in Nodes : d \in spec.deps[n]
                                             /\ remaining[n] = 1})

\* ResultStore.put: the map is updated and persisted, best effort.  Nobody
\* asks for the result of a node of another workflow.
put(n, result) ==
  /\ store' = IF n \in Nodes THEN [store EXCEPT ![n] = result] ELSE store
  /\ disk' \in {disk, [results |-> store', digest |-> digest]}

-----------------------------------------------------------------------------
(***************************************************************************)
(* The start of a run.  The queue is built from the graph before the       *)
(* checkpoint is read; a checkpoint of another workspace version is        *)
(* rejected as a whole.  Restored reads refill the cache (of two results   *)
(* under one key the last one stays).                                      *)
(***************************************************************************)
NoResults == [n \in Nodes |-> "none"]

Restorable(ws) ==
  IF spec.harness /\ disk.digest # ws THEN NoResults ELSE disk.results

Refill(results, k) ==
  {[node |-> n, result |-> results[n]] :
     n \in {m \in Nodes \ spec.writes : spec.key[m] = k /\ results[m] \in DoneResults}}

\* The caches with an entry of its set under each key.
CachesFrom(S) ==
  {c \in [Nodes -> UNION {S[k] : k \in Nodes}] : \A k \in Nodes : c[k] \in S[k]}

StartRun(answer, kept) ==
  LET results == Restorable(workspace) IN
  /\ starts < MaxStarts
  /\ starts' = starts + 1
  /\ loop' = "fill"
  /\ race' = "pending"
  /\ remaining' = [n \in Nodes |-> Cardinality(spec.deps[n])]
  /\ ready' = InOrder({n \in Nodes : spec.deps[n] = {}})
  /\ store' = results
  /\ restored' = {n \in Nodes : results[n] # "none"}
  /\ finished' = restored'
  /\ stage' = [n \in Nodes |-> "idle"]
  /\ cache' \in CachesFrom([k \in Nodes |->
                  IF Refill(results, k) = {} THEN kept[k] ELSE Refill(results, k)])
  /\ interrupt' = 0
  /\ opened' = [n \in Nodes |-> 0]
  /\ answered' = answer
  /\ digest' = workspace
  /\ writeHeld' = FALSE /\ writeOwnerToken' = 0 /\ waiter' = 0
  /\ nextToken' = 1 /\ cancelled' = {} /\ aborted' = FALSE
  /\ call' = [n \in Nodes |-> Lock!NoCall] /\ spent' = {}
  /\ UNCHANGED <<spec, disk, workspace>>

NoEntry == [node |-> 0, result |-> "done"]

NoCache == [k \in Nodes |-> NoEntry]

\* options.cache: what may be under a key is nothing, a result of an earlier
\* run of this workflow or, when the cache is shared, of another workflow.
Injected ==
  [k \in Nodes |->
    {NoEntry} \cup
    {e \in CacheEntries :
       IF e.node \in Nodes \ spec.writes
       THEN spec.key[e.node] = k /\ e.result \in spec.outcomes[e.node]
       ELSE e.node = N + 1 /\ spec.shared}]

\* The process dies at any point and the workflow is run again.
Crash == StartRun(0, Injected)

\* ResumeController.resume: refused when the workspace is not the one the
\* interrupt recorded.  Cache keys carry the digest of their run.
Resume ==
  /\ loop = "paused"
  /\ opened[interrupt] = workspace
  /\ StartRun(interrupt,
       [k \in Nodes |-> {IF workspace = digest THEN cache[k] ELSE NoEntry}])

Init ==
  /\ spec \in Specs
  /\ loop = "fill"
  /\ race = "pending"
  /\ remaining = [n \in Nodes |-> Cardinality(spec.deps[n])]
  /\ ready = InOrder({n \in Nodes : spec.deps[n] = {}})
  /\ store = NoResults
  /\ restored = {}
  /\ finished = {}
  /\ stage = [n \in Nodes |-> "idle"]
  /\ cache \in CachesFrom(Injected)
  /\ disk = [results |-> NoResults, digest |-> 0]
  /\ interrupt = 0
  /\ opened = [n \in Nodes |-> 0]
  /\ answered = 0
  /\ workspace = 0
  /\ digest = 0
  /\ starts = 0
  /\ Lock!Init
-----------------------------------------------------------------------------
(***************************************************************************)
(* The filling loop.                                                       *)
(***************************************************************************)
CanTake ==
  /\ loop = "fill"
  /\ Cardinality(running) < MaxParallel
  /\ ready # <<>>
  /\ interrupt = 0

node == Head(ready)

\* Faulty variant: the restored node is launched again.
TakesLaunchAll == CanTake

\* A node that has no result yet.
Takes == CanTake /\ store[node] = "none"

SkipRestored ==
  /\ CanTake
  /\ ~Takes
  /\ onDependencyDone(node, Tail(ready))
  /\ UNCHANGED <<loop, race, stage, pauseVars, finished, dataVars, runVars,
                 lockVars>>

\* Blocked by its dependencies, or denied by the participant assignment: the
\* loop stores the result and counts the node as finished itself.
CloseNode(result) ==
  /\ put(node, result)
  /\ finished' = finished \cup {node}
  /\ onDependencyDone(node, Tail(ready))
  /\ UNCHANGED <<loop, race, stage, pauseVars, cache, workspace, runVars,
                 lockVars>>

Block == Takes /\ evaluateReadiness(node) = "blocked" /\ CloseNode("blocked")

Launchable == Takes /\ evaluateReadiness(node) # "blocked"

Deny == Launchable /\ spec.pool /\ spec.harness /\ CloseNode("failed")

\* launch(): what runs before the first await.
Launch(to) ==
  /\ stage' = [stage EXCEPT ![node] = to]
  /\ ready' = Tail(ready)
  /\ UNCHANGED <<loop, race, pauseVars, remaining, finished, cache, workspace,
                 runVars, lockVars>>

\* A write in a readonly workflow.
RejectWrite ==
  /\ Launchable
  /\ node \in spec.writes
  /\ spec.readonly
  /\ put(node, "failed")
  /\ Launch("settling")

Runnable == Launchable /\ ~(node \in spec.writes /\ spec.readonly)

\* The agent of the node is cancelled or its node or write budget is spent.
RefuseAgent ==
  /\ Runnable
  /\ spec.pool
  /\ put(node, "failed")
  /\ Launch("settling")

CacheHit == node \notin spec.writes \cup spec.h11 /\ cache[spec.key[node]].node # 0

\* The cached result is put as it is, under the node id it carries.
Replay ==
  /\ Runnable
  /\ CacheHit
  /\ LET hit == cache[spec.key[node]] IN put(hit.node, hit.result)
  /\ Launch("settling")

BeginNode ==
  /\ Runnable
  /\ ~CacheHit
  /\ Launch("reserving")
  /\ UNCHANGED <<store, disk>>

-----------------------------------------------------------------------------
(***************************************************************************)
(* The completion gate, on the results after verification nodes that       *)
(* ingested failures were rewritten to failed.                             *)
(***************************************************************************)
gated == [n \in Nodes |-> IF store[n] = "doneFailing" THEN "failed" ELSE store[n]]

\* aggregateEvidence: a verification node is evidence when it depends on a
\* write handler or on a tool node of the harness, whatever that one does.
EvidencePassed ==
  \E v \in spec.verify :
    /\ gated[v] \in DoneResults
    /\ spec.deps[v] \cap ((spec.writes \ spec.verify) \cup spec.tools) # {}

\* Faulty variant: blocked nodes do not count.
RunStatusLenient ==
  IF \E n \in Nodes : gated[n] = "failed" THEN "failed"
  ELSE IF spec.writes # {} /\ ~EvidencePassed THEN "blocked_no_evidence"
  ELSE "done"

RunStatus ==
  IF \E n \in Nodes : gated[n] = "failed" THEN "failed"
  ELSE IF \E n \in Nodes : gated[n] = "blocked" THEN "blocked"
  ELSE IF spec.writes # {} /\ ~EvidencePassed THEN "blocked_no_evidence"
  ELSE "done"

\* Nothing more can be launched: the run is complete, waits for the race of
\* the running promises, has paused, or has no way on.
EndFill ==
  /\ loop = "fill"
  /\ ~CanTake
  /\ loop' = IF finished = Nodes THEN RunStatus
             ELSE IF running # {} THEN "await"
             ELSE IF interrupt # 0 THEN "paused"
             ELSE "deadlock"
  /\ race' = "pending"
  /\ store' = IF loop' \in Outcomes THEN gated ELSE store
  /\ UNCHANGED <<stage, pauseVars, queueVars, disk, cache, workspace, runVars,
                 lockVars>>

\* The race settled: fill again, or leave runScheduler with the error.
Wake ==
  /\ loop = "await"
  /\ race # "pending"
  /\ loop' = IF race = "resolved" THEN "fill" ELSE "threw"
  /\ UNCHANGED <<race, stage, pauseVars, queueVars, dataVars, runVars, lockVars>>

-----------------------------------------------------------------------------
(***************************************************************************)
(* A launched node.  It moves whenever the loop is not filling, also after *)
(* the run has thrown.                                                     *)
(***************************************************************************)
At(n, s) == loop # "fill" /\ stage[n] = s

Goto(n, s) == stage' = [stage EXCEPT ![n] = s]

\* Faulty variant: a write does not ask for the slot.
ReservedNoLock(n) ==
  /\ At(n, "reserving")
  /\ Goto(n, "executing")
  /\ UNCHANGED <<loop, race, pauseVars, queueVars, dataVars, runVars, lockVars>>

\* awaitReservation succeeds; a write then asks for the writer slot.
Reserved(n) ==
  /\ At(n, "reserving")
  /\ IF n \in spec.writes
     THEN /\ Goto(n, "locking")
          /\ Lock!AcquireFree(n) \/ Lock!AcquirePreAborted(n) \/ Lock!AcquireBusy(n)
     ELSE /\ Goto(n, "executing")
          /\ UNCHANGED lockVars
  /\ UNCHANGED <<loop, race, pauseVars, queueVars, dataVars, runVars>>

\* RESOURCE_WAIT_TIMEOUT or RESOURCE_WAIT_CANCELLED.
ReserveThrows(n) ==
  /\ At(n, "reserving")
  /\ Goto(n, "throwing")
  /\ UNCHANGED <<loop, race, pauseVars, queueVars, dataVars, runVars, lockVars>>

LockGranted(n) ==
  /\ At(n, "locking")
  /\ Lock!Holding(n)
  /\ Goto(n, "executing")
  /\ UNCHANGED <<loop, race, pauseVars, queueVars, dataVars, runVars, lockVars>>

\* Faulty variant: acquireWrite is called without deadlineMs.
LockDeadlineMissing(n) == FALSE

LockDeadline(n) ==
  /\ At(n, "locking")
  /\ Lock!Deadline(n)
  /\ UNCHANGED <<loop, race, stage, pauseVars, queueVars, dataVars, runVars>>

LockThrows(n) ==
  /\ At(n, "locking")
  /\ call[n].status = "rejected"
  /\ Goto(n, "throwing")
  /\ UNCHANGED <<loop, race, pauseVars, queueVars, dataVars, runVars, lockVars>>

\* The scope of the run is cancelled.
Cancel ==
  /\ loop # "fill"
  /\ spec.harness
  /\ Lock!Abort
  /\ UNCHANGED <<loop, race, stage, pauseVars, queueVars, dataVars, runVars>>

(***************************************************************************)
(* The execution returns and executeNode stores its result at once.  The   *)
(* node takes it up after an await and may still turn it into failed: a    *)
(* write outside what its agent owns, stored again, or the output of a     *)
(* role that fails validation, in memory only.  A done write then empties  *)
(* the cache, a done read that is not h11 fills it.  finally: the writer   *)
(* slot is released.                                                       *)
(***************************************************************************)
Execute(n) ==
  /\ At(n, "executing")
  /\ n \in spec.human => n = answered
  /\ \E result \in spec.outcomes[n] : put(n, result)
  /\ workspace' = IF n \in spec.writes THEN workspace + 1 ELSE workspace
  /\ Goto(n, "returned")
  /\ UNCHANGED <<loop, race, pauseVars, queueVars, cache, runVars, lockVars>>

CheckResult(n) ==
  \/ UNCHANGED <<store, disk>>
  \/ /\ n \in spec.writes /\ spec.pool /\ spec.harness
     /\ store[n] \in DoneResults
     /\ put(n, "failed")
  \/ /\ n \in spec.roles
     /\ store[n] \in DoneResults
     /\ store' = [store EXCEPT ![n] = "failed"]
     /\ UNCHANGED disk

UpdateCache(n) ==
  cache' = IF store'[n] \notin DoneResults \/ n \in spec.h11 \ spec.writes THEN cache
           ELSE IF n \in spec.writes THEN NoCache
           ELSE [cache EXCEPT ![spec.key[n]] =
                   [node |-> n, result |-> store'[n]]]

ReleaseSlot(n) ==
  IF n \in spec.writes THEN Lock!Release(n) ELSE UNCHANGED lockVars

Return(n) ==
  /\ At(n, "returned")
  /\ CheckResult(n)
  /\ UpdateCache(n)
  /\ ReleaseSlot(n)
  /\ Goto(n, "settling")
  /\ UNCHANGED <<loop, race, pauseVars, queueVars, workspace, runVars>>

\* A human node without an answer: the record is persisted, the node throws
\* WorkflowInterruptError; the first such error is the pending one.
Pause(n) ==
  /\ At(n, "executing")
  /\ n \in spec.human
  /\ n # answered
  /\ Goto(n, "pausing")
  /\ opened' = [opened EXCEPT ![n] = workspace]
  /\ UNCHANGED <<loop, race, interrupt, queueVars, dataVars, runVars, lockVars>>

Settled(outcome) == race' = IF race = "pending" THEN outcome ELSE race

\* Faulty variant: running.delete is missing.
SettleTwice(n) ==
  /\ At(n, "settling")
  /\ finished' = finished \cup {n}
  /\ onDependencyDone(n, ready)
  /\ Settled("resolved")
  /\ UNCHANGED <<loop, stage, pauseVars, dataVars, runVars, lockVars>>

\* .then: running.delete, finished.add, queue.onDependencyDone.
Settle(n) ==
  /\ At(n, "settling")
  /\ Goto(n, "over")
  /\ finished' = finished \cup {n}
  /\ onDependencyDone(n, ready)
  /\ Settled("resolved")
  /\ UNCHANGED <<loop, pauseVars, dataVars, runVars, lockVars>>

\* .catch with an interrupt: running.delete, the promise resolves.
SettlePause(n) ==
  /\ At(n, "pausing")
  /\ Goto(n, "over")
  /\ interrupt' = IF interrupt = 0 THEN n ELSE interrupt
  /\ Settled("resolved")
  /\ UNCHANGED <<loop, opened, queueVars, dataVars, runVars, lockVars>>

\* .catch with any other error: running.delete, the promise rejects.
Rethrow(n) ==
  /\ At(n, "throwing")
  /\ Goto(n, "over")
  /\ Settled("rejected")
  /\ UNCHANGED <<loop, pauseVars, queueVars, dataVars, runVars, lockVars>>

FillStep ==
  SkipRestored \/ Block \/ Deny \/ RejectWrite \/ RefuseAgent \/ Replay
  \/ BeginNode \/ EndFill

NodeStep(n) ==
  \/ Reserved(n) \/ ReserveThrows(n)
  \/ LockGranted(n) \/ LockDeadline(n) \/ LockThrows(n)
  \/ Execute(n) \/ Return(n) \/ Pause(n)
  \/ Settle(n) \/ SettlePause(n) \/ Rethrow(n)

Next ==
  \/ FillStep
  \/ Wake
  \/ \E n \in Nodes : NodeStep(n)
  \/ Cancel
  \/ Crash
  \/ Resume

Spec == Init /\ [][Next]_vars

(***************************************************************************)
(* The event loop runs what is ready, the 60 s deadlines of reservation    *)
(* and lock fire, and the execution of a node ends.                        *)
(***************************************************************************)
FairSpec ==
  /\ Spec
  /\ WF_vars(FillStep \/ Wake)
  /\ \A n \in Nodes : WF_vars(NodeStep(n))
-----------------------------------------------------------------------------
(***************************************************************************)
(* A node runs only when every dependency has a result and each of them    *)
(* satisfies its condition (ready-queue.ts:6-9, dependency-policy.ts:5-8), *)
(* through blocked nodes, restored results, replays and restarts.          *)
(***************************************************************************)
DependenciesHonoured ==
  \A n \in Nodes : stage[n] \in {"reserving", "locking", "executing", "returned"} =>
    \A d \in spec.deps[n] : /\ store[d] # "none"
                            /\ dependencySatisfied(spec.when[n][d], store[d])

(***************************************************************************)
(* At most one write node executes, or has its result checked, at a time,  *)
(* also among the nodes that are still in flight after the run threw.      *)
(***************************************************************************)
SingleWriter ==
  Cardinality({n \in spec.writes : stage[n] \in {"executing", "returned"}}) <= 1

(***************************************************************************)
(* "Resumed nodes never re-execute" (scheduler.ts:337), although the ready *)
(* queue is built before the checkpoint is read and offers them again.     *)
(***************************************************************************)
RestoredNotReexecuted ==
  \A n \in restored : stage[n] = "idle"

(***************************************************************************)
(* "No deadlock: blocked is terminal" (scheduler.ts:623): the loop finds   *)
(* nothing to launch and nothing running only after a node promise threw.  *)
(***************************************************************************)
DeadlockOnlyAfterError ==
  loop = "deadlock" => \E n \in Nodes : stage[n] = "over" /\ n \notin finished

(***************************************************************************)
(* A run reports done only when every node has a result that is done and   *)
(* the conditions on all dependencies hold of these results, whether the   *)
(* nodes ran, were replayed, or were restored from a checkpoint that a     *)
(* crash left behind (scheduler.ts:765-770, dependency-policy.ts:5-8).     *)
(***************************************************************************)
DoneMeansComplete ==
  loop = "done" =>
    \A n \in Nodes :
      /\ store[n] \in DoneResults \ {"doneFailing"}
      /\ \A d \in spec.deps[n] : dependencySatisfied(spec.when[n][d], store[d])

(***************************************************************************)
(* Within a run the result of a finished node never changes: what its      *)
(* dependents were launched on stays true, although results are rewritten  *)
(* after they are stored (scheduler.ts:503-552).  Only the gate at the end *)
(* rewrites a verification that ingested failures.                         *)
(***************************************************************************)
ResultsAreFinal ==
  [][\A n \in finished :
       starts' = starts /\ store[n] # "doneFailing" => store'[n] = store[n]]_vars

(***************************************************************************)
(* Every run ends: it returns an outcome, pauses or throws.  A writer that *)
(* the single waiter slot forgot is woken by its deadline.                 *)
(***************************************************************************)
RunEnds == loop \in {"fill", "await"} ~> loop \notin {"fill", "await"}
=============================================================================
