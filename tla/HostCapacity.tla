----------------------------- MODULE HostCapacity -----------------------------
(***************************************************************************)
(* The host capacity authority of the execution daemon                     *)
(* (src/runtime/linux/scheduler/host-capacity.ts) with its two kinds of    *)
(* client: the execution broker, which walks a claim through the spawn     *)
(* protocol (src/runtime/linux/broker.ts), and the workflow scheduler,     *)
(* which keeps a claim RESERVED while a node runs                          *)
(* (src/workflow/scheduler/scheduler.ts).                                  *)
(*                                                                         *)
(* Every method of the authority is one step: its statements run           *)
(* synchronously against SQLite, and the built-in reality provider reads   *)
(* /proc and the cgroup files synchronously, so no other request is        *)
(* served inside a method.  What interleaves is the order of requests, the *)
(* loss of a reply, the timeout of a release, the reconcile timer, the     *)
(* crash of a client or of the daemon, and the life of the processes.      *)
(*                                                                         *)
(* A request asks for one unit; Capacity stands for the scarcest dimension *)
(* (cpu, memory, pids, network, temp or the number of cells).              *)
(***************************************************************************)
EXTENDS Naturals, FiniteSets

CONSTANTS
  Brokers,       \* broker executions, one process each
  Local,         \* brokers inside the daemon (calls cannot be lost)
  Delegated,     \* brokers with a delegated cgroup
  Schedulers,    \* scheduler nodes, each holding a claim while it runs
  Keys,          \* the (run_id, cell_id) pairs
  Key,           \* the pair each client reserves for
  Capacity,      \* units the authority may hand out
  MaxClaims,     \* bound: rows inserted into the claims table
  MaxToken,      \* bound: owner tokens drawn for one claim
  MayOrphan,     \* TRUE when a leader may exit before its descendants
  MayDegrade,    \* TRUE when a failed cgroup attach is tolerated
  None           \* "no spawned pid"

Clients == Brokers \cup Schedulers

ASSUME CapacityAssumption ==
  /\ Capacity \in Nat
  /\ MaxClaims \in Nat
  /\ MaxToken \in Nat \ {0}
  /\ Keys # {}
  /\ Key \in [Clients -> Keys]
  /\ IsFiniteSet(Brokers)
  /\ Local \subseteq Brokers
  /\ Delegated \subseteq Brokers
  /\ Brokers \cap Schedulers = {}
  /\ None \notin Brokers
  /\ MayOrphan \in BOOLEAN
  /\ MayDegrade \in BOOLEAN

VARIABLES
  claims,   \* the claims table, indexed by insertion number
  inserted, \* number of rows inserted so far
  idem,     \* authority_idempotency: the row each client's key points at, or 0
  pc,       \* where each client is
  held,     \* the claim id and owner token in the client's acquired record
  conn,     \* FALSE: the client's connection died with the daemon
  proc,     \* the OS process (and process group) of each broker execution
  releases, \* release requests on their way to the authority
  early     \* history: executions whose claim was judged between the commit
            \* of their identity and the attach to their cgroup

vars == <<claims, inserted, idem, pc, held, conn, proc, releases, early>>

-----------------------------------------------------------------------------
ActivePhases == {"RESERVED", "PRE_SPAWN", "SPAWN_ATTEMPTING",
                 "SPAWN_IDENTITY_COMMITTED", "EXECUTING", "QUARANTINED",
                 "SUSPECT"}

Phases == ActivePhases \cup {"ABSENT", "RELEASED"}

ProcStates == {"none", "launcher", "running", "attached", "orphans", "gone"}

\* The client's own code: reserve ... report each phase ... cleanup ... done.
Steps == {"idle", "reserved", "preSpawn", "attempting", "spawned",
          "identified", "executing", "cleanup", "releasing", "done", "crashed"}

ClaimId == 1 .. MaxClaims

Token == 0 .. MaxToken

\* recovered: the cell that startup recovery charged the row for.
Row == [key : Keys, recovered : Brokers \cup {None}, phase : Phases,
        token : Token, pid : Brokers \cup {None}]

Handle == [claim : 0 .. MaxClaims, token : Token]

NoHandle == [claim |-> 0, token |-> 0]

NoRow == [key |-> CHOOSE k \in Keys : TRUE, recovered |-> None,
          phase |-> "ABSENT", token |-> 0, pid |-> None]

Active(i) == claims[i].phase \in ActivePhases

\* chargedBytes: the rows WHERE phase NOT IN ('RELEASED').
Charged == {i \in ClaimId : Active(i)}

TypeOK ==
  /\ claims \in [ClaimId -> Row]
  /\ inserted \in 0 .. MaxClaims
  /\ idem \in [Clients -> 0 .. MaxClaims]
  /\ pc \in [Clients -> Steps]
  /\ held \in [Clients -> Handle]
  /\ conn \in [Clients -> BOOLEAN]
  /\ proc \in [Brokers -> ProcStates]
  /\ releases \subseteq Handle
  /\ early \subseteq Brokers

Init ==
  /\ claims = [i \in ClaimId |-> NoRow]
  /\ inserted = 0
  /\ idem = [c \in Clients |-> 0]
  /\ pc = [c \in Clients |-> "idle"]
  /\ held = [c \in Clients |-> NoHandle]
  /\ conn = [c \in Clients |-> TRUE]
  /\ proc = [b \in Brokers |-> "none"]
  /\ releases = {}
  /\ early = {}

-----------------------------------------------------------------------------
(***************************************************************************)
(* reserve.  A (run, cell) pair with an active claim that is not the one   *)
(* the caller's idempotency record names is refused.  A record that names  *)
(* an active claim rekeys it: same claim, new token.  Otherwise            *)
(* reserveFresh checks the capacity and inserts a row.                     *)
(***************************************************************************)
ActiveFor(key, recovered) ==
  {i \in ClaimId : Active(i) /\ claims[i].key = key
                             /\ claims[i].recovered = recovered}

DoubleAcquire(c) == ActiveFor(Key[c], None) \ {idem[c]} # {}

Rekeyable(c) == idem[c] # 0 /\ Active(idem[c])

Rekey(c) ==
  /\ ~DoubleAcquire(c)
  /\ Rekeyable(c)
  /\ claims[idem[c]].token < MaxToken
  /\ claims' = [claims EXCEPT ![idem[c]].token = @ + 1]
  /\ held' = [held EXCEPT ![c] = [claim |-> idem[c],
                                  token |-> claims[idem[c]].token + 1]]
  /\ UNCHANGED <<inserted, idem>>

ReserveFresh(c) ==
  /\ ~DoubleAcquire(c)
  /\ ~Rekeyable(c)
  /\ inserted < MaxClaims
  /\ Cardinality(Charged) < Capacity
  /\ claims' = [claims EXCEPT ![inserted + 1] =
                  [key |-> Key[c], recovered |-> None, phase |-> "RESERVED",
                   token |-> 1, pid |-> None]]
  /\ inserted' = inserted + 1
  /\ idem' = [idem EXCEPT ![c] = inserted + 1]
  /\ held' = [held EXCEPT ![c] = [claim |-> inserted + 1, token |-> 1]]

\* What the caller does next: a lost reply makes the call throw.
After(c, reply, lost) ==
  pc' \in {[pc EXCEPT ![c] = next] :
             next \in IF c \in Local THEN {reply} ELSE {reply, lost}}

\* When the reply is lost the claim exists and no one holds its token.
Reserve(c) ==
  /\ pc[c] = "idle"
  /\ conn[c]
  /\ Rekey(c) \/ ReserveFresh(c)
  /\ After(c, "reserved", "done")
  /\ UNCHANGED <<conn, proc, releases, early>>

\* A refused broker fails its cell; a scheduler node polls again.  The record
\* of a released claim is deleted before the capacity is checked.
ReserveRefused(c) ==
  /\ pc[c] = "idle"
  /\ conn[c]
  /\ \/ DoubleAcquire(c) /\ UNCHANGED idem
     \/ /\ ~DoubleAcquire(c)
        /\ ~Rekeyable(c)
        /\ Cardinality(Charged) >= Capacity
        /\ idem' = [idem EXCEPT ![c] = 0]
  /\ pc' = [pc EXCEPT ![c] = IF c \in Brokers THEN "done" ELSE "idle"]
  /\ UNCHANGED <<claims, inserted, held, conn, proc, releases, early>>

-----------------------------------------------------------------------------
(***************************************************************************)
(* updatePhase: only the token is compared, so the row is written whatever *)
(* phase it is in.  Making a RELEASED row active again fails on the unique *)
(* index idx_claims_active_run_cell when the pair has an active claim.     *)
(***************************************************************************)
\* Faulty variant: the table has no partial unique index.
IndexAllowsAlways(i) == TRUE

IndexAllows(i) ==
  ActiveFor(claims[i].key, claims[i].recovered) \subseteq {i}

\* Faulty variant: the identity is not written with the phase.
UpdatePhaseNoPid(h, phase, pid) ==
  /\ claims[h.claim].token = h.token
  /\ IndexAllows(h.claim)
  /\ claims' = [claims EXCEPT ![h.claim].phase = phase]

UpdatePhase(h, phase, pid) ==
  /\ claims[h.claim].token = h.token
  /\ IndexAllows(h.claim)
  /\ claims' = [claims EXCEPT ![h.claim].phase = phase,
                              ![h.claim].pid = IF pid = None THEN @ ELSE pid]

\* reportPhase: the reply moves the broker on; a lost reply fails it.
Report(b, from, to, phase) ==
  /\ pc[b] = from
  /\ conn[b]
  /\ UpdatePhase(held[b], phase, None)
  /\ After(b, to, "cleanup")
  /\ UNCHANGED <<inserted, idem, held, conn, proc, releases, early>>

PreSpawn(b) == Report(b, "reserved", "preSpawn", "PRE_SPAWN")

\* Materialize, locks, lease and cgroup come first; then the backend runs.
SpawnAttempting(b) == Report(b, "preSpawn", "attempting", "SPAWN_ATTEMPTING")

\* The backend starts the launcher, which waits for the go token.
SpawnLauncher(b) ==
  /\ pc[b] = "attempting"
  /\ proc' = [proc EXCEPT ![b] = "launcher"]
  /\ pc' = [pc EXCEPT ![b] = "spawned"]
  /\ UNCHANGED <<claims, inserted, idem, held, conn, releases, early>>

\* attachCell, up to the durable commit of pid and startticks.
CommitIdentity(b) ==
  /\ pc[b] = "spawned"
  /\ conn[b]
  /\ proc[b] = "launcher"
  /\ UpdatePhase(held[b], "SPAWN_IDENTITY_COMMITTED", b)
  /\ After(b, "identified", "cleanup")
  /\ UNCHANGED <<inserted, idem, held, conn, proc, releases, early>>

\* attachCell with a cgroup: attach, then the go token; no further report.
\* A tolerated attach failure releases the launcher outside the cgroup.
AttachAndGo(b) ==
  /\ b \in Delegated
  /\ pc[b] = "identified"
  /\ proc[b] = "launcher"
  /\ pc' = [pc EXCEPT ![b] = "executing"]
  /\ \E p \in {"attached"} \cup {q \in {"running"} : MayDegrade} :
       proc' = [proc EXCEPT ![b] = p]
  /\ UNCHANGED <<claims, inserted, idem, held, conn, releases, early>>

\* attachCell without a cgroup: EXECUTING is committed, then the go token.
ExecuteAndGo(b) ==
  /\ b \notin Delegated
  /\ pc[b] = "identified"
  /\ conn[b]
  /\ proc[b] = "launcher"
  /\ UpdatePhase(held[b], "EXECUTING", None)
  /\ After(b, "executing", "cleanup")
  /\ proc' = IF pc'[b] = "executing" THEN [proc EXCEPT ![b] = "running"]
                                     ELSE proc
  /\ UNCHANGED <<inserted, idem, held, conn, releases, early>>

\* The node is done, the cell's event stream ended, or any step in between
\* threw or was cancelled: the outer finally begins.
Finish(c) ==
  /\ pc[c] \in {"reserved", "preSpawn", "attempting", "spawned", "identified",
                "executing"}
  /\ pc' = [pc EXCEPT ![c] = "cleanup"]
  /\ UNCHANGED <<claims, inserted, idem, held, conn, proc, releases, early>>

-----------------------------------------------------------------------------
(***************************************************************************)
(* createProcessRealityProvider.  A leader that is gone, or whose pid was  *)
(* reused, is proof.  A leader that lives proves nothing, except when the  *)
(* claim names a cgroup that holds no process.                             *)
(***************************************************************************)
LeaderLives(b) == proc[b] \in {"launcher", "running", "attached"}

Reality(pid) ==
  IF pid = None THEN "unknown"
  ELSE IF ~LeaderLives(pid) THEN "proven"
  ELSE IF pid \in Delegated /\ proc[pid] # "attached" THEN "proven"
  ELSE "live"

\* What releaseRequested and reconcile make of a row.
\* Faulty variant: a live process does not keep its claim.
VerdictTrusting(r) ==
  IF r.pid = None /\ r.phase \notin {"RESERVED", "PRE_SPAWN"}
  THEN "SUSPECT" ELSE "RELEASED"

\* Faulty variant: claims without identity are kept, spawned or not.
VerdictKeeping(r) ==
  CASE Reality(r.pid) = "proven" -> "RELEASED"
    [] Reality(r.pid) = "live" -> "QUARANTINED"
    [] OTHER -> "SUSPECT"

\* Faulty variant: a proven claim stops at TERMINATION_PROVEN.
VerdictHalfway(r) ==
  IF Reality(r.pid) = "proven" THEN "TERMINATION_PROVEN" ELSE VerdictKeeping(r)

Verdict(r) ==
  CASE r.pid = None /\ r.phase \in {"RESERVED", "PRE_SPAWN"} -> "RELEASED"
    [] Reality(r.pid) = "proven" -> "RELEASED"
    [] Reality(r.pid) = "live" -> "QUARANTINED"
    [] OTHER -> "SUSPECT"

\* boundedReleaseRequest, sent in the outer finally.
SendRelease(c) ==
  /\ pc[c] = "cleanup"
  /\ pc' = [pc EXCEPT ![c] = IF conn[c] THEN "releasing" ELSE "done"]
  /\ releases' = IF conn[c] THEN releases \cup {held[c]} ELSE releases
  /\ UNCHANGED <<claims, inserted, idem, held, conn, proc, early>>

\* The request may arrive after its sender gave up waiting.  A token that
\* was rotated since is rejected; a failed write leaves the row as it is.
ReleaseRequested(h) ==
  LET r == claims[h.claim] IN
  /\ h \in releases
  /\ releases' = releases \ {h}
  /\ pc' = [c \in Clients |-> IF pc[c] = "releasing" /\ held[c] = h
                              THEN "done" ELSE pc[c]]
  /\ claims' = IF r.token = h.token
                  /\ (Verdict(r) = "RELEASED" \/ IndexAllows(h.claim))
               THEN [claims EXCEPT ![h.claim].phase = Verdict(r)]
               ELSE claims
  /\ UNCHANGED <<inserted, idem, held, conn, proc, early>>

\* Five seconds passed.
ReleaseTimeout(c) ==
  /\ pc[c] = "releasing"
  /\ pc' = [pc EXCEPT ![c] = "done"]
  /\ UNCHANGED <<claims, inserted, idem, held, conn, proc, releases, early>>

\* A resumed workflow runs the node again, under the same idempotency key.
Rerun(s) ==
  /\ pc[s] = "done"
  /\ conn[s]
  /\ pc' = [pc EXCEPT ![s] = "idle"]
  /\ UNCHANGED <<claims, inserted, idem, held, conn, proc, releases, early>>

-----------------------------------------------------------------------------
\* reconcile: every row not yet released, in one pass.
Reconciled ==
  [i \in ClaimId |-> IF Active(i)
                     THEN [claims[i] EXCEPT !.phase = Verdict(claims[i])]
                     ELSE claims[i]]

\* A local broker goes on from its reserve to PRE_SPAWN, and from its identity
\* commit to the attach, in microtasks: the timer's turn falls outside.
InMicrotask(b) == b \in Local /\ pc[b] \in {"reserved", "identified"}

\* The remote launchers that wait for the attach while a pass judges claims.
Unattached == {b \in Delegated \ Local : pc[b] = "identified"}

Reconcile ==
  /\ \A b \in Brokers : ~InMicrotask(b)
  /\ claims' = Reconciled
  /\ early' = early \cup Unattached
  /\ UNCHANGED <<inserted, idem, pc, held, conn, proc, releases>>

(***************************************************************************)
(* The daemon crashes and starts again: its own brokers are gone, requests *)
(* and connections are lost, and before it admits anyone it reconciles and *)
(* charges the cells (those with a handle) whose cgroup is populated.  The *)
(* new rows carry the CellManager's cell id, not the broker's, and no pid. *)
(***************************************************************************)
Recoverable(cells) ==
  {b \in cells : ActiveFor(Key[b], b) = {}}

Restart ==
  /\ \E cells \in SUBSET {b \in Local \cap Delegated :
                             proc[b] \in {"attached", "orphans"}} :
       LET n == Cardinality(Recoverable(cells)) IN
       /\ inserted + n <= MaxClaims
       /\ inserted' = inserted + n
       /\ \E order \in [Recoverable(cells) -> 1 .. n] :
            /\ \A x, y \in Recoverable(cells) : order[x] = order[y] => x = y
            /\ claims' = [i \in ClaimId |->
                 IF \E b \in Recoverable(cells) : i = inserted + order[b]
                 THEN LET b == CHOOSE x \in Recoverable(cells) :
                                        i = inserted + order[x]
                      IN [key |-> Key[b], recovered |-> b,
                          phase |-> "QUARANTINED", token |-> 0, pid |-> None]
                 ELSE Reconciled[i]]
  /\ releases' = {}
  /\ pc' = [c \in Clients |-> IF c \in Local THEN "crashed" ELSE pc[c]]
  /\ conn' = [c \in Clients |-> conn[c] /\ held[c] = NoHandle]
  /\ early' = early \cup Unattached
  /\ UNCHANGED <<idem, held, proc>>

ClientCrash(c) ==
  /\ c \notin Local
  /\ pc[c] \notin {"done", "crashed"}
  /\ pc' = [pc EXCEPT ![c] = "crashed"]
  /\ UNCHANGED <<claims, inserted, idem, held, conn, proc, releases, early>>

\* The leader exits, alone or before its descendants, or the last of them.
ProcessExit(b) ==
  /\ proc[b] \notin {"none", "gone"}
  /\ \E p \in {"gone"} \cup {q \in {"orphans"} :
                             MayOrphan /\ proc[b] \in {"running", "attached"}} :
       proc' = [proc EXCEPT ![b] = p]
  /\ UNCHANGED <<claims, inserted, idem, pc, held, conn, releases, early>>

BrokerStep(b) ==
  \/ PreSpawn(b)
  \/ SpawnAttempting(b)
  \/ SpawnLauncher(b)
  \/ CommitIdentity(b)
  \/ AttachAndGo(b)
  \/ ExecuteAndGo(b)
  \/ ProcessExit(b)

ClientStep(c) ==
  \/ Reserve(c)
  \/ ReserveRefused(c)
  \/ Finish(c)
  \/ SendRelease(c)
  \/ ReleaseTimeout(c)
  \/ ClientCrash(c)

Next ==
  \/ \E b \in Brokers : BrokerStep(b)
  \/ \E c \in Clients : ClientStep(c)
  \/ \E s \in Schedulers : Rerun(s)
  \/ \E h \in releases : ReleaseRequested(h)
  \/ Reconcile
  \/ Restart

Spec == Init /\ [][Next]_vars

(***************************************************************************)
(* The reconcile timer of the daemon fires again and again, and a local    *)
(* broker's continuation runs.  Nothing is assumed of clients, processes   *)
(* or release requests.                                                    *)
(***************************************************************************)
Continue(b) ==
  /\ InMicrotask(b)
  /\ PreSpawn(b) \/ AttachAndGo(b) \/ ExecuteAndGo(b) \/ Finish(b)

FairSpec ==
  /\ Spec
  /\ WF_vars(Reconcile)
  /\ \A b \in Local : WF_vars(Continue(b))

-----------------------------------------------------------------------------
(***************************************************************************)
(* RESOURCE_DOUBLE_ACQUIRE=0: a (run, cell) pair never has two active      *)
(* claims, through rekeys, reconciled claims brought back by updatePhase   *)
(* and late releases that reactivate a row (host-capacity.ts:460-462).     *)
(***************************************************************************)
OneActiveClaimPerCell ==
  \A i, j \in Charged :
    claims[i].key = claims[j].key /\ claims[i].recovered = claims[j].recovered
      => i = j

Executing(b) == proc[b] \in {"running", "attached", "orphans"}

(***************************************************************************)
(* No process passes its go token before its pid is durable in the claim   *)
(* it runs under (REGISTRY_COMMIT_FAILURE_EXEC_BYPASS=0, broker.ts:1033).  *)
(***************************************************************************)
ExecOnlyWithIdentity ==
  \A b \in Brokers : Executing(b) => /\ held[b].claim # 0
                                     /\ claims[held[b].claim].pid = b

(***************************************************************************)
(* "The only condition for freeing capacity is the server's independent    *)
(* positive reality proof" (host-capacity.ts:10-11): while any process of  *)
(* an execution lives, its claim is charged, whatever releases, reconciles,*)
(* timeouts, crashes and restarts happened.                                *)
(***************************************************************************)
RunningIsCharged ==
  \A b \in Brokers : Executing(b) => Active(held[b].claim)

(***************************************************************************)
(* What of it holds in every deployment: a claim is charged while its      *)
(* process runs, unless descendants outlive the leader (host-capacity.ts:  *)
(* 192-195), a tolerated attach failure left the process outside the       *)
(* cgroup its claim names (broker.ts:1052-1064), or a pass judged the      *)
(* claim of a remote broker before the attach, the cgroup being empty.     *)
(***************************************************************************)
Overlooked(b) ==
  \/ proc[b] = "orphans"
  \/ proc[b] = "running" /\ b \in Delegated
  \/ b \in early

ChargedUnlessOverlooked ==
  \A b \in Brokers :
    Executing(b) /\ ~Overlooked(b) => Active(held[b].claim)

(***************************************************************************)
(* What reserveFresh guards: the claims handed out never exceed the        *)
(* capacity (rows charged by recovery are not handed out).                 *)
(***************************************************************************)
ChargedWithinCapacity ==
  Cardinality({i \in Charged : claims[i].recovered = None}) <= Capacity

(***************************************************************************)
(* Claims that no session uses and whose processes are provably gone, or   *)
(* were never spawned, are freed by some later cycle: a crash between the  *)
(* reserve and the spawn leaks nothing (host-capacity.ts:642-647).         *)
(***************************************************************************)
InSession(i) ==
  \E c \in Clients :
    /\ held[c] = [claim |-> i, token |-> claims[i].token]
    /\ pc[c] \in Steps \ {"idle", "done", "crashed", "cleanup", "releasing"}

Abandoned(i) ==
  /\ Active(i)
  /\ ~InSession(i)
  /\ IF claims[i].pid = None THEN claims[i].phase \in {"RESERVED", "PRE_SPAWN"}
                             ELSE proc[claims[i].pid] = "gone"

AbandonedClaimFreed ==
  \A i \in ClaimId : Abandoned(i) ~> claims[i].phase = "RELEASED"
=============================================================================
