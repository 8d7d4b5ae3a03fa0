------------------------------ MODULE ExecdCells ------------------------------
(***************************************************************************)
(* The cells of the execution daemon: submission, execution, cancellation, *)
(* clean-up and the recovery after a restart                               *)
(* (src/execd/cell-manager.ts, src/execd/recovery.ts, src/execd/handle.ts, *)
(* src/execd/state/store.ts), with the part of the execution broker a cell *)
(* goes through (src/runtime/linux/broker.ts, execute and cleanupAcquired),*)
(* the process supervisor (src/runtime/linux/process/supervisor.ts) and    *)
(* the cgroup directory of each cell (src/runtime/linux/cgroup/manager.ts).*)
(*                                                                         *)
(* Three kinds of state: what SQLite keeps (st, idem, handle, receipts,    *)
(* runStatus), what the daemon's memory holds and a crash loses (exec,     *)
(* aborted, lock, cancel, scan), and what the kernel keeps whatever        *)
(* happens to the daemon (proc, cgroup).  The daemon runs on one           *)
(* thread: a step is the code between two awaits, and requests interleave  *)
(* at the awaits.  The stretch of submit and runCell before the first      *)
(* await is cut only where a crash can fall between two commits.           *)
(*                                                                         *)
(* A process tree is "launcher" (waiting for its token), "attached" (runs  *)
(* inside its cgroup), "stray" (runs outside it), "dying" (inside, killed, *)
(* not yet gone) or "none".                                                *)
(***************************************************************************)
EXTENDS Naturals, FiniteSets

CONSTANTS
  MaxCells,   \* bound: cells submitted
  Keys,       \* idempotency keys of the clients
  Runs,       \* run identifiers
  RunOf,      \* the run each cell is submitted for
  Delegated,  \* TRUE on a host with a delegated cgroup
  MaxCrash,   \* bound: crashes of the daemon
  None        \* "no entry"

\* cell identifiers, in the order they are drawn
Cells == 1..MaxCells

ASSUME CellsAssumption ==
  /\ MaxCells \in Nat
  /\ RunOf \in [Cells -> Runs]
  /\ Delegated \in BOOLEAN
  /\ MaxCrash \in Nat
  /\ None \notin Cells \cup Runs /\ None \notin [cell : Cells, rejected : BOOLEAN]

VARIABLES
  st,         \* cells.current_state, "none" before the row exists
  idem,       \* idempotency table: the response kept for each key, or None
  handle,     \* cells with a row in execution_handles
  receipts,   \* origin of the receipts committed for each cell
  runStatus,  \* runs.status
  daemon,     \* "down", "recovering", "up"
  scan,       \* cells the running recovery has still to visit
  exec,       \* where runCell and broker.execute are for each cell
  aborted,    \* cells whose AbortController has fired
  lock,       \* holder of the isolation lock on the daemon's workspace
  cancel,     \* the cancelCell call in flight, with the state it read, or
              \* the run of the cancelRun call in flight
  proc,       \* the process tree of each cell
  cgroup,     \* cells whose cgroup directory exists
  crashes,    \* crashes so far
  outlived    \* history: cells whose processes a clean-up failed to kill

durable == <<st, idem, handle, receipts, runStatus>>
memory  == <<daemon, scan, exec, aborted, lock, cancel>>
kernel  == <<proc, cgroup>>
history == <<crashes, outlived>>
vars    == <<durable, memory, kernel, history>>

CellState ==
  {"none", "ACCEPTED", "POLICY_COMPILED", "RUNNING", "EXIT_OBSERVED",
   "RECEIPT_COMMITTED", "EVIDENCE_BOUND", "CLEANED", "REJECTED_POLICY",
   "START_FAILED", "CANCELLED", "LOST"}

\* run identifiers are not mistaken for a cancelCell call in flight
ASSUME RunsAssumption ==
  \A x \in Runs \cup {None} : x \notin [cell : Cells, seen : CellState]

\* TERMINAL_CELL_STATES, the ones this code path writes
Terminal == {"CLEANED", "REJECTED_POLICY", "START_FAILED", "CANCELLED", "LOST"}

Phase ==
  {"idle", "submitted", "started", "acquire", "spawned",
   "go", "settled", "exited", "receipted", "failing", "broken", "closing",
   "aborting"}

\* phases in which acquired.cgroupCellPath has been recorded
PathKnown ==
  {"spawned", "go", "settled", "exited", "receipted", "broken"}

\* phases in which the broker's cellRuns holds the cell
Registered == PathKnown \cup {"acquire", "failing"}

Process == {"none", "launcher", "attached", "stray", "dying"}

TypeOK ==
  /\ st \in [Cells -> CellState]
  /\ idem \in [Keys -> [cell : Cells, rejected : BOOLEAN] \cup {None}]
  /\ handle \subseteq Cells
  /\ receipts \in [Cells -> SUBSET {"broker", "recovery"}]
  /\ runStatus \in [Runs -> {"none", "active", "cleaned"}]
  /\ daemon \in {"down", "recovering", "up"}
  /\ scan \subseteq Cells
  /\ exec \in [Cells -> Phase]
  /\ aborted \subseteq Cells
  /\ lock \in Cells \cup {None}
  /\ cancel \in [cell : Cells, seen : CellState] \cup Runs \cup {None}
  /\ proc \in [Cells -> Process]
  /\ cgroup \subseteq Cells
  /\ crashes \in 0..MaxCrash
  /\ outlived \subseteq Cells

Init ==
  /\ st = [c \in Cells |-> "none"]
  /\ idem = [k \in Keys |-> None]
  /\ handle = {}
  /\ receipts = [c \in Cells |-> {}]
  /\ runStatus = [r \in Runs |-> "none"]
  /\ daemon = "up"
  /\ scan = {}
  /\ exec = [c \in Cells |-> "idle"]
  /\ aborted = {}
  /\ lock = None
  /\ cancel = None
  /\ proc = [c \in Cells |-> "none"]
  /\ cgroup = {}
  /\ crashes = 0
  /\ outlived = {}

\* Faulty variant: only CLEANED is final.
TransitionRevives(table, c, to, from) ==
  IF table[c] \in {"none", "CLEANED"} THEN table ELSE [table EXCEPT ![c] = to]

(***************************************************************************)
(* The store's guarded transition, as the new table of states: nothing     *)
(* leaves CLEANED, a terminal state only goes to CLEANED, and the caller's *)
(* "from" must still be the current state.                                 *)
(***************************************************************************)
Transition(table, c, to, from) ==
  IF \/ table[c] \in {"none", "CLEANED"}
     \/ table[c] \in Terminal /\ to # "CLEANED"
     \/ table[c] # from
  THEN table
  ELSE [table EXCEPT ![c] = to]

\* Between the first commit of submit and runCell's first await nothing else
\* of the daemon runs.
Turn == \A c \in Cells : exec[c] \notin {"submitted", "started"}

Serving == daemon = "up" /\ Turn

Populated(c) == proc[c] \in {"attached", "dying"}

\* cellId: a fresh identifier
Fresh(c) == st[c] = "none" /\ \A d \in Cells : d < c => st[d] # "none"

Known(r) == {c \in Cells : RunOf[c] = r /\ st[c] # "none"}

---------------------------------------------------------------------------
(* Submission. *)

\* A key that has a response returns it and changes nothing: the two actions
\* below are the first request of a key.
SubmitRejected(k, c) ==
  /\ Serving
  /\ idem[k] = None
  /\ Fresh(c)
  /\ st' = [st EXCEPT ![c] = "REJECTED_POLICY"]
  /\ idem' = [idem EXCEPT ![k] = [cell |-> c, rejected |-> TRUE]]
  /\ UNCHANGED <<handle, receipts, runStatus, memory, kernel, history>>

\* Faulty variant: the response is not stored with the cell.
SubmitForgetsKey(k, c) ==
  /\ Serving
  /\ idem[k] = None
  /\ Fresh(c)
  /\ st' = [st EXCEPT ![c] = "ACCEPTED"]
  /\ exec' = [exec EXCEPT ![c] = "submitted"]
  /\ UNCHANGED <<idem, runStatus, handle, receipts, daemon, scan, aborted, lock,
                 cancel, kernel, history>>

SubmitAccepted(k, c) ==
  /\ Serving
  /\ idem[k] = None
  /\ Fresh(c)
  /\ st' = [st EXCEPT ![c] = "ACCEPTED"]
  /\ runStatus' = [runStatus EXCEPT ![RunOf[c]] = "active"]
  /\ idem' = [idem EXCEPT ![k] = [cell |-> c, rejected |-> FALSE]]
  /\ exec' = [exec EXCEPT ![c] = "submitted"]
  /\ UNCHANGED <<handle, receipts, daemon, scan, aborted, lock,
                 cancel, kernel, history>>

RunCellStart(c) ==
  /\ daemon = "up"
  /\ exec[c] = "submitted"
  /\ st' = LET compiled == Transition(st, c, "POLICY_COMPILED", "ACCEPTED")
           IN  Transition(compiled, c, "RUNNING", "POLICY_COMPILED")
  /\ exec' = [exec EXCEPT ![c] = "started"]
  /\ UNCHANGED <<idem, handle, receipts, runStatus, daemon, scan,
                 aborted, lock, cancel, kernel, history>>

\* The handle is stored before the broker is asked to execute.
RecordHandle(c) ==
  /\ daemon = "up"
  /\ exec[c] = "started"
  /\ handle' = IF Delegated THEN handle \cup {c} ELSE handle
  /\ exec' = [exec EXCEPT ![c] = "acquire"]
  /\ UNCHANGED <<st, idem, receipts, runStatus, daemon, scan,
                 aborted, lock, cancel, kernel, history>>

---------------------------------------------------------------------------
(* broker.execute: acquisition, spawn behind the launcher, supervision. *)

\* All cells of the daemon name the same workspace: the lock is refused, not
\* waited for, while another execution holds it.  The launcher is spawned and
\* waits for its token whether or not the execution was cancelled meanwhile.
AcquireAndSpawn(c) ==
  /\ Serving
  /\ exec[c] = "acquire"
  /\ lock = None
  /\ lock' = c
  /\ cgroup' = IF Delegated THEN cgroup \cup {c} ELSE cgroup
  /\ proc' = [proc EXCEPT ![c] = "launcher"]
  /\ exec' = [exec EXCEPT ![c] = "spawned"]
  /\ UNCHANGED <<durable, daemon, scan, aborted, cancel, history>>

\* A refused reservation, lock or lease, before any cgroup path is recorded.
AcquireFails(c) ==
  /\ Serving
  /\ exec[c] = "acquire"
  /\ exec' = [exec EXCEPT ![c] = "failing"]
  /\ UNCHANGED <<durable, daemon, scan, aborted, lock, cancel,
                 kernel, history>>

\* The hierarchy was created in part, or the phase report before the spawn
\* failed.
PrepareFails(c) ==
  /\ Serving
  /\ exec[c] = "acquire"
  /\ lock = None
  /\ lock' = c
  /\ cgroup' = IF Delegated THEN cgroup \cup {c} ELSE cgroup
  /\ exec' = [exec EXCEPT ![c] = "broken"]
  /\ UNCHANGED <<durable, daemon, scan, aborted, cancel, proc, history>>

\* The identity of the process could not be committed: attachCell aborts and
\* returns false, so the token is never written.
AttachRefused(c) ==
  /\ Serving
  /\ exec[c] = "spawned"
  /\ aborted' = aborted \cup {c}
  /\ proc' = [proc EXCEPT ![c] = "none"]
  /\ exec' = [exec EXCEPT ![c] = "settled"]
  /\ UNCHANGED <<durable, daemon, scan, lock, cancel, cgroup, history>>

\* attachCell, then the go token.  Profile "build" tolerates a failed attach:
\* the process then runs outside its cgroup.
AttachAndGo(c) ==
  /\ Serving
  /\ exec[c] = "spawned"
  /\ \E p \in {"stray"} \cup (IF c \in cgroup THEN {"attached"} ELSE {}) :
       proc' = [proc EXCEPT ![c] = p]
  /\ exec' = [exec EXCEPT ![c] = "go"]
  /\ UNCHANGED <<durable, daemon, scan, aborted, lock, cancel,
                 cgroup, history>>

\* terminateTree signals the process group: a descendant with a session of
\* its own escapes it.
Terminated(p) ==
  CASE p = "attached" -> {"attached", "dying"}
    [] p = "stray"    -> {"stray", "none"}
    [] p = "launcher" -> {"none"}
    [] OTHER          -> {p}

\* runSupervised's promise resolves: the leader exited, perhaps before its
\* descendants, or the wall time or the abort ended it.
LeaderExit(c) ==
  /\ Serving
  /\ exec[c] = "go"
  /\ \E p \in {proc[c], "none"} : proc' = [proc EXCEPT ![c] = p]
  /\ exec' = [exec EXCEPT ![c] = "settled"]
  /\ UNCHANGED <<durable, daemon, scan, aborted, lock, cancel,
                 cgroup, history>>

WallTimeout(c) ==
  /\ Serving
  /\ exec[c] = "go"
  /\ \E p \in Terminated(proc[c]) : proc' = [proc EXCEPT ![c] = p]
  /\ exec' = [exec EXCEPT ![c] = "settled"]
  /\ UNCHANGED <<durable, daemon, scan, aborted, lock, cancel,
                 cgroup, history>>

ExitEvent(c) ==
  /\ Serving
  /\ exec[c] = "settled"
  /\ st' = Transition(st, c, "EXIT_OBSERVED", "RUNNING")
  /\ exec' = [exec EXCEPT ![c] = "exited"]
  /\ UNCHANGED <<idem, handle, receipts, runStatus, daemon, scan,
                 aborted, lock, cancel, kernel, history>>

ReceiptEvent(c) ==
  /\ Serving
  /\ exec[c] = "exited"
  /\ receipts' = [receipts EXCEPT ![c] = @ \cup {"broker"}]
  /\ st' = Transition(st, c, "RECEIPT_COMMITTED", "EXIT_OBSERVED")
  /\ exec' = [exec EXCEPT ![c] = "receipted"]
  /\ UNCHANGED <<idem, handle, runStatus, daemon, scan, aborted,
                 lock, cancel, kernel, history>>

\* The receipt is built after the exit event was delivered, and may throw.
ReceiptFails(c) ==
  /\ Serving
  /\ exec[c] = "exited"
  /\ exec' = [exec EXCEPT ![c] = "broken"]
  /\ UNCHANGED <<durable, daemon, scan, aborted, lock, cancel,
                 kernel, history>>

(***************************************************************************)
(* kill, wait for an empty cgroup, rmdir, over a set of cell directories:  *)
(* the outcomes, each a process table and the directories that are left.   *)
(* kill may come back with killed: false, which nobody looks at, and the   *)
(* wait is bounded: processes may run on or be slow to die.  A directory   *)
(* that holds one is kept, and so are those the removal no longer reaches. *)
(***************************************************************************)
Removal(procs, dirs) ==
  LET full == {d \in dirs : procs[d] \in {"attached", "dying"}}
  IN  {out \in [proc : [Cells -> Process], cgroup : SUBSET cgroup] :
         /\ \A d \in full : out.proc[d] \in {procs[d], "dying", "none"}
         /\ \A d \in Cells \ full : out.proc[d] = procs[d]
         /\ \A d \in cgroup \ out.cgroup :
              d \in dirs /\ out.proc[d] \notin {"attached", "dying"}}

\* The directories cleanupAcquired removes: the cell's own, and the whole run
\* when no other registered execution has a path in it.
CleanupDirs(c) ==
  IF exec[c] \notin PathKnown \/ ~Delegated THEN {}
  ELSE IF \E d \in Cells \ {c} : RunOf[d] = RunOf[c] /\ exec[d] \in PathKnown
       THEN {c}
       ELSE {d \in Cells : RunOf[d] = RunOf[c]}

\* Faulty variant: the lock is released and the processes are left alone.
CleanupWithoutRemoval(c) ==
  /\ Serving
  /\ exec[c] \in {"receipted", "failing", "broken"}
  /\ lock' = IF lock = c THEN None ELSE lock
  /\ aborted' = aborted \ {c}
  /\ exec' = [exec EXCEPT ![c] = IF @ = "receipted" THEN "closing" ELSE "aborting"]
  /\ UNCHANGED <<durable, daemon, scan, cancel, kernel, history>>

\* The lock is released whatever became of the processes.
cleanupAcquired(c) ==
  /\ Serving
  /\ exec[c] \in {"receipted", "failing", "broken"}
  /\ \E out \in Removal(proc, CleanupDirs(c)) :
       /\ proc' = out.proc
       /\ cgroup' = out.cgroup
       /\ outlived' = outlived \cup {d \in CleanupDirs(c) : out.proc[d] = "attached"}
  /\ lock' = IF lock = c THEN None ELSE lock
  /\ aborted' = aborted \ {c}
  /\ exec' = [exec EXCEPT ![c] = IF @ = "receipted" THEN "closing" ELSE "aborting"]
  /\ UNCHANGED <<durable, daemon, scan, cancel, crashes>>

\* The end of runCell after the broker's iterator returned.
FinishCell(c) ==
  /\ Serving
  /\ exec[c] = "closing"
  /\ IF st[c] = "RECEIPT_COMMITTED"
     THEN /\ st' = LET bound == Transition(st, c, "EVIDENCE_BOUND", "RECEIPT_COMMITTED")
                   IN  Transition(bound, c, "CLEANED", "EVIDENCE_BOUND")
          /\ handle' = handle \ {c}
     ELSE UNCHANGED <<st, handle>>
  /\ exec' = [exec EXCEPT ![c] = "idle"]
  /\ UNCHANGED <<idem, receipts, runStatus, daemon, scan, aborted,
                 lock, cancel, kernel, history>>

\* The catch branch of runCell after the iterator threw.
FailCell(c) ==
  /\ Serving
  /\ exec[c] = "aborting"
  /\ st' = IF st[c] = "RUNNING" THEN Transition(st, c, "START_FAILED", "RUNNING") ELSE st
  /\ exec' = [exec EXCEPT ![c] = "idle"]
  /\ UNCHANGED <<idem, handle, receipts, runStatus, daemon, scan,
                 aborted, lock, cancel, kernel, history>>

---------------------------------------------------------------------------
(* Cancellation. *)

(***************************************************************************)
(* broker.cancelCell over a set of registered cells: the controller fires, *)
(* a supervised process group is terminated on the spot, and the cgroup is *)
(* killed where one exists, unless the kill fails, which is not noticed.   *)
(* The outcomes are process tables.                                        *)
(***************************************************************************)
BrokerCancel(S) ==
  LET supervised == {c \in S : exec[c] = "go"}
      killed     == {c \in S : exec[c] \in PathKnown /\ Populated(c)}
      signalled(c) == IF c \in supervised THEN Terminated(proc[c]) ELSE {proc[c]}
      outcome(c) == signalled(c) \cup (IF c \in killed THEN {"dying"} ELSE {})
  IN  {p \in [Cells -> Process] :
         \A c \in Cells : p[c] \in outcome(c)}

AbortSettles(S) ==
  [c \in Cells |-> IF c \in S /\ exec[c] = "go" THEN "settled" ELSE exec[c]]

\* The abort fired before the supervisor listened: it is seen after the token
\* was written.
AbortSeen(c) ==
  /\ Serving
  /\ exec[c] = "go"
  /\ c \in aborted
  /\ \E p \in Terminated(proc[c]) : proc' = [proc EXCEPT ![c] = p]
  /\ exec' = [exec EXCEPT ![c] = "settled"]
  /\ UNCHANGED <<durable, daemon, scan, aborted, lock, cancel,
                 cgroup, history>>

\* cancelCell of a cell whose broker execution is in this daemon's memory.
CancelViaBroker(c) ==
  /\ Serving
  /\ st[c] # "none"
  /\ cancel = None
  /\ exec[c] # "idle"
  /\ LET S == {c} \cap {d \in Cells : exec[d] \in Registered}
     IN  /\ aborted' = aborted \cup S
         /\ proc' \in BrokerCancel(S)
         /\ exec' = AbortSettles(S)
  /\ cancel' = [cell |-> c, seen |-> st[c]]
  /\ UNCHANGED <<durable, daemon, scan, lock, cgroup, history>>

\* cancelCell after a restart: cgroup.kill through the stored handle.  With no
\* handle, no directory to kill or a failed kill, the call ends without a proof
\* and changes nothing.
killViaHandle(c) ==
  /\ Serving
  /\ st[c] # "none"
  /\ cancel = None
  /\ exec[c] = "idle"
  /\ c \in handle
  /\ c \in cgroup
  /\ proc' = [proc EXCEPT ![c] = IF Populated(c) THEN "dying" ELSE @]
  /\ cancel' = [cell |-> c, seen |-> st[c]]
  /\ UNCHANGED <<durable, daemon, scan, exec, aborted, lock, cgroup, history>>

\* No handle, no directory or an empty directory is the termination proof.
cgroupTerminationProven(c) == c \in handle => ~Populated(c)

\* Faulty variant: the handle goes without a proof.
CancelPendingDropsHandle ==
  /\ Serving
  /\ cancel \in [cell : Cells, seen : CellState]
  /\ handle' = handle \ {cancel.cell}
  /\ cancel' = None
  /\ UNCHANGED <<st, idem, receipts, runStatus, daemon, scan, exec, aborted,
                 lock, kernel, history>>

\* No proof, or its files could not be read: state and handle are kept.
CancelPending ==
  /\ Serving
  /\ cancel \in [cell : Cells, seen : CellState]
  /\ cancel.cell \in handle /\ cancel.cell \in cgroup
  /\ cancel' = None
  /\ UNCHANGED <<durable, daemon, scan, exec, aborted, lock, kernel,
                 history>>

\* The state read before the awaits is the "from" of the transition; the
\* handle goes whether or not the transition was accepted.
CancelCommit ==
  /\ Serving
  /\ cancel \in [cell : Cells, seen : CellState]
  /\ cgroupTerminationProven(cancel.cell)
  /\ st' = Transition(st, cancel.cell, "CANCELLED", cancel.seen)
  /\ handle' = handle \ {cancel.cell}
  /\ cancel' = None
  /\ UNCHANGED <<idem, receipts, runStatus, daemon, scan, exec,
                 aborted, lock, kernel, history>>

\* broker.cancelRun: every registered cell of the run, then the run's cgroup.
CancelRun(r) ==
  /\ Serving
  /\ cancel = None
  /\ Known(r) # {}
  /\ LET S == {c \in Cells : RunOf[c] = r /\ exec[c] \in Registered}
     IN  /\ aborted' = aborted \cup S
         /\ \E p \in BrokerCancel(S) :
              \E out \in Removal(p, {c \in Cells : RunOf[c] = r}) :
                /\ proc' = out.proc
                /\ cgroup' = out.cgroup
         /\ exec' = AbortSettles(S)
  /\ cancel' = r
  /\ UNCHANGED <<durable, daemon, scan, lock, history>>

\* The loop of cancelRun over the cells it lists after the broker returned.
CancelRunCommit(r) ==
  /\ Serving
  /\ cancel = r
  /\ st' = [c \in Cells |->
              IF c \in Known(r) THEN Transition(st, c, "CANCELLED", st[c])[c] ELSE st[c]]
  /\ cancel' = None
  /\ UNCHANGED <<idem, handle, receipts, runStatus, daemon, scan,
                 exec, aborted, lock, kernel, history>>

\* The run is marked with the states listed before this call changed them.
CleanupRun(r) ==
  /\ Serving
  /\ st' = [c \in Cells |-> IF RunOf[c] = r
                            THEN Transition(st, c, "CLEANED", "CANCELLED")[c]
                            ELSE st[c]]
  /\ runStatus' = [runStatus EXCEPT ![r] =
       IF \E c \in Known(r) : st[c] \in {"RUNNING", "CANCELLED"} THEN @ ELSE "cleaned"]
  /\ UNCHANGED <<idem, handle, receipts, memory, kernel, history>>

---------------------------------------------------------------------------
(* Crash, restart, recovery; the processes. *)

\* The daemon dies: its memory is gone, the store and the processes stay.
Crash ==
  /\ daemon # "down"
  /\ crashes < MaxCrash
  /\ crashes' = crashes + 1
  /\ daemon' = "down"
  /\ scan' = {}
  /\ exec' = [c \in Cells |-> "idle"]
  /\ aborted' = {}
  /\ lock' = None
  /\ cancel' = None
  /\ UNCHANGED <<durable, kernel, outlived>>

Restart ==
  /\ daemon = "down"
  /\ daemon' = "recovering"
  /\ scan' = {c \in Cells : st[c] \notin Terminal \cup {"none"}}
  /\ UNCHANGED <<durable, exec, aborted, lock, cancel, kernel, history>>

\* Faulty variant: an unreadable cgroup counts as a missing one.
TakeoverGuess(c) ==
  IF c \notin cgroup THEN {"ABSENT"}
  ELSE {"ABSENT", IF Populated(c) THEN "RECOVERED" ELSE "EXITED"}

\* The verdicts a probe of the handle's cgroup can give.
determineTakeover(c) ==
  IF c \notin cgroup THEN {"ABSENT"}
  ELSE {"UNKNOWN", IF Populated(c) THEN "RECOVERED" ELSE "EXITED"}

\* Faulty variant: the verdict is stored as the state.
AfterTakeoverVerdict(verdict) == verdict

AfterTakeover(verdict) ==
  CASE verdict = "ABSENT" -> "START_FAILED"
    [] verdict = "EXITED" -> "EXIT_OBSERVED"
    [] OTHER              -> "RUNNING"

RecoverCell(c) ==
  /\ daemon = "recovering"
  /\ c \in scan
  /\ scan' = scan \ {c}
  /\ \/ /\ st[c] \in {"ACCEPTED", "POLICY_COMPILED"}
        /\ st' = Transition(st, c, "LOST", st[c])
        /\ UNCHANGED receipts
     \/ /\ st[c] = "RUNNING" /\ c \notin handle
        /\ st' = Transition(st, c, "LOST", "RUNNING")
        /\ UNCHANGED receipts
     \/ /\ st[c] = "RUNNING" /\ c \in handle
        /\ \E v \in determineTakeover(c) :
             st' = Transition(st, c, AfterTakeover(v), "RUNNING")
        /\ UNCHANGED receipts
     \/ /\ st[c] = "EXIT_OBSERVED"
        /\ receipts' = [receipts EXCEPT ![c] = @ \cup {"recovery"}]
        /\ st' = Transition(st, c, "RECEIPT_COMMITTED", "EXIT_OBSERVED")
     \/ /\ st[c] = "RECEIPT_COMMITTED"
        /\ UNCHANGED <<st, receipts>>
  /\ UNCHANGED <<idem, handle, runStatus, daemon, exec, aborted,
                 lock, cancel, kernel, history>>

OpenAdmission ==
  /\ daemon = "recovering"
  /\ scan = {}
  /\ daemon' = "up"
  /\ UNCHANGED <<durable, scan, exec, aborted, lock, cancel, kernel, history>>

\* The process tree ends by itself or by the signal it was sent; a launcher
\* whose daemon died reads end of file and exits with status 127.
ProcessEnds(c) ==
  /\ proc[c] # "none"
  /\ proc[c] = "launcher" => exec[c] = "idle"
  /\ proc' = [proc EXCEPT ![c] = "none"]
  /\ UNCHANGED <<durable, memory, cgroup, history>>

ExecuteStep(c) ==
  \/ RunCellStart(c) \/ RecordHandle(c)
  \/ AcquireAndSpawn(c) \/ AcquireFails(c) \/ PrepareFails(c)
  \/ AttachRefused(c) \/ AttachAndGo(c)
  \/ LeaderExit(c) \/ WallTimeout(c) \/ AbortSeen(c)
  \/ ExitEvent(c) \/ ReceiptEvent(c) \/ ReceiptFails(c)
  \/ cleanupAcquired(c) \/ FinishCell(c) \/ FailCell(c)

Next ==
  \/ \E k \in Keys, c \in Cells : SubmitRejected(k, c) \/ SubmitAccepted(k, c)
  \/ \E c \in Cells :
       \/ ExecuteStep(c) \/ CancelViaBroker(c) \/ killViaHandle(c)
       \/ RecoverCell(c) \/ ProcessEnds(c)
  \/ CancelPending \/ CancelCommit
  \/ \E r \in Runs : CancelRun(r) \/ CancelRunCommit(r) \/ CleanupRun(r)
  \/ Crash \/ Restart \/ OpenAdmission

Spec == Init /\ [][Next]_vars

---------------------------------------------------------------------------
(***************************************************************************)
(* A retried submission never starts a second cell: a cell exists exactly  *)
(* when one key answers with it, and never under two keys, although the    *)
(* daemon may die between any two commits of submit and runCell            *)
(* (cell-manager.ts:134-141).                                              *)
(***************************************************************************)
OneCellPerKey ==
  /\ \A c \in Cells : st[c] # "none" <=> \E k \in Keys : idem[k] # None /\ idem[k].cell = c
  /\ \A j, k \in Keys : idem[j] # None /\ idem[j] = idem[k] => j = k

(***************************************************************************)
(* A verdict that says the process never ran, or is lost, is true: no      *)
(* process lives in the cgroup of a cell recorded START_FAILED or LOST     *)
(* (recovery.ts:66-83 and :128-134, handle.ts:70-72).                      *)
(***************************************************************************)
VerdictIsTrue ==
  \A c \in Cells :
    st[c] \in {"START_FAILED", "LOST"} => proc[c] # "attached"

(***************************************************************************)
(* What lets a restart find a running cell (recovery.ts:5-8): while a      *)
(* process lives in the cgroup of a RUNNING cell, its handle is stored,    *)
(* whatever cancellations raced with the execution.                        *)
(***************************************************************************)
RunningCellIsAnchored ==
  \A c \in Cells : st[c] = "RUNNING" /\ Populated(c) => c \in handle

(***************************************************************************)
(* The workspace has one writer (isolation-lock.ts:3-8), as far as the     *)
(* code secures it: as long as the daemon has not crashed, two attached    *)
(* processes run at once only when a clean-up tried to kill one of them    *)
(* and failed (broker.ts:573-614 releases the lock all the same).  Not     *)
(* because a leader exits before its descendants, a cancelled execution is *)
(* still winding down or a kill of the cancellation failed.                *)
(***************************************************************************)
OneWriterUntilCrash ==
  crashes = 0 =>
    \A c, d \in Cells \ outlived :
      proc[c] = "attached" /\ proc[d] = "attached" => c = d

(***************************************************************************)
(* Terminal states are final, and CLEANED is reached only from a cancelled *)
(* cell or over a receipt the broker produced: neither a late exit, a late *)
(* receipt nor a recovery revives a cell or closes one without evidence    *)
(* (store.ts:374-378, cell-manager.ts:280-287).                            *)
(***************************************************************************)
VerdictsAreFinal ==
  [][\A c \in Cells : st'[c] # st[c] =>
       /\ st[c] \notin Terminal \/ (st[c] = "CANCELLED" /\ st'[c] = "CLEANED")
       /\ st'[c] = "CLEANED" => st[c] = "CANCELLED" \/ "broker" \in receipts[c]]_vars
=============================================================================
