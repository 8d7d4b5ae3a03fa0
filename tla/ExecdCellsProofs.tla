-------------------------- MODULE ExecdCellsProofs --------------------------
(***************************************************************************)
(* TLAPS proofs about ExecdCells: for any number of cells, keys, runs and  *)
(* crashes, with and without a delegated cgroup.                           *)
(***************************************************************************)
EXTENDS ExecdCells, TLAPS

USE DEF history

(***************************************************************************)
(* The inductive invariant.                                                *)
(***************************************************************************)

\* The states of a cell before runCell has moved it to RUNNING.
Early == {"none", "ACCEPTED", "POLICY_COMPILED"}

\* The phases before the broker has made anything for the cell.
Unacquired == {"submitted", "started", "acquire", "failing"}

Calls == [cell : Cells, seen : CellState]

\* A daemon that is down or recovering executes nothing.
Quiet == daemon # "up" => \A c \in Cells : exec[c] = "idle"

\* The durable state of a cell keeps step with its execution.
InStep ==
  \A c \in Cells :
    /\ exec[c] = "submitted" => st[c] = "ACCEPTED"
    /\ exec[c] = "started" => st[c] = "RUNNING"
    /\ exec[c] \notin {"idle", "submitted"} => st[c] \notin Early \cup {"START_FAILED", "LOST"}

\* Nothing exists in the kernel for a cell the broker has not acquired.
NothingYet ==
  \A c \in Cells : st[c] \in Early \/ exec[c] \in Unacquired => c \notin cgroup /\ proc[c] = "none"

\* A process inside a cgroup keeps the directory.
InGroup ==
  /\ \A c \in Cells : Populated(c) => c \in cgroup
  /\ cgroup # {} => Delegated

\* From the spawn to the clean-up the execution holds the workspace lock.
Locked == \A c \in Cells : exec[c] \in PathKnown => lock = c

\* A cell is RUNNING after its execution broke off only if nothing was started:
\* the exit is recorded before anything that can throw.
ExitFirst ==
  \A c \in Cells :
    /\ exec[c] \in {"exited", "receipted", "closing"} => st[c] # "RUNNING"
    /\ exec[c] \in {"broken", "aborting"} => st[c] # "RUNNING" \/ proc[c] # "attached"

\* The handle is stored before there is a cgroup to find.
HandleFirst ==
  \A c \in Cells :
    st[c] = "RUNNING" /\ Delegated /\ (exec[c] = "acquire" \/ c \in cgroup) => c \in handle

\* A cancelCell call that did not see RUNNING never meets it later.
CancelSeen ==
  cancel \in Calls =>
    /\ st[cancel.cell] # "none" /\ exec[cancel.cell] \notin {"submitted", "started"}
    /\ cancel.seen # "RUNNING" => st[cancel.cell] # "RUNNING"

\* What the broker's iterator returned after is a committed receipt.
Evidence == \A c \in Cells : exec[c] \in {"receipted", "closing"} => "broker" \in receipts[c]

\* Without a crash an attached process belongs to an execution in progress, or
\* the clean-up of its execution tried to kill it and failed.
Supervised ==
  crashes = 0 =>
    \A c \in Cells : proc[c] = "attached" => exec[c] \in PathKnown \/ c \in outlived

IInv ==
  /\ TypeOK
  /\ Quiet
  /\ InStep
  /\ NothingYet
  /\ InGroup
  /\ Locked
  /\ ExitFirst
  /\ HandleFirst
  /\ CancelSeen
  /\ Evidence
  /\ Supervised
  /\ VerdictIsTrue
  /\ OneCellPerKey

(***************************************************************************)
(* The operators the steps are built from.                                 *)
(***************************************************************************)

\* The store's transition changes one cell, from the state the caller names,
\* and no terminal state but into CLEANED.
LEMMA TransitionFacts ==
  ASSUME NEW table \in [Cells -> CellState], NEW c \in Cells, NEW to \in CellState, NEW from
  PROVE  /\ Transition(table, c, to, from) \in [Cells -> CellState]
         /\ \A d \in Cells : d # c => Transition(table, c, to, from)[d] = table[d]
         /\ \/ Transition(table, c, to, from)[c] = table[c]
            \/ /\ Transition(table, c, to, from)[c] = to
               /\ table[c] = from /\ table[c] \notin {"none", "CLEANED"}
               /\ table[c] \in Terminal => to = "CLEANED"
         /\ table[c] = from /\ table[c] \notin Terminal \cup {"none"}
              => Transition(table, c, to, from)[c] = to
  BY DEF Transition, Terminal

\* kill and rmdir: no process appears, and the directory of a process that is
\* still there is kept.
LEMMA RemovalFacts ==
  ASSUME NEW procs \in [Cells -> Process], NEW dirs \in SUBSET Cells, cgroup \subseteq Cells,
         NEW out \in Removal(procs, dirs)
  PROVE  /\ out.proc \in [Cells -> Process] /\ out.cgroup \subseteq cgroup
         /\ \A d \in Cells :
              /\ out.proc[d] = "attached" => procs[d] = "attached"
              /\ out.proc[d] \in {"attached", "dying"} =>
                   procs[d] \in {"attached", "dying"} /\ (d \in cgroup => d \in out.cgroup)
              /\ procs[d] = "none" => out.proc[d] = "none"
  BY DEF Removal

\* broker.cancelCell: no process appears and none enters a cgroup.
LEMMA BrokerCancelFacts ==
  ASSUME TypeOK, NEW S \in SUBSET Cells, NEW p \in BrokerCancel(S)
  PROVE  /\ p \in [Cells -> Process]
         /\ \A c \in Cells :
              /\ p[c] = "attached" => proc[c] = "attached"
              /\ p[c] \in {"attached", "dying"} => Populated(c)
              /\ proc[c] = "none" => p[c] = "none"
  BY DEF BrokerCancel, Terminated, Populated, TypeOK, Process

\* An abort settles the executions that were running, and moves no other.
LEMMA AbortSettlesFacts ==
  ASSUME TypeOK, NEW S \in SUBSET Cells
  PROVE  /\ AbortSettles(S) \in [Cells -> Phase]
         /\ \A c \in Cells : \/ AbortSettles(S)[c] = exec[c]
                             \/ exec[c] = "go" /\ AbortSettles(S)[c] = "settled"
  BY DEF AbortSettles, TypeOK, Phase

(***************************************************************************)
(* Steps that start nothing: what such a step does to a cell.              *)
(***************************************************************************)
Calm(c) ==
  /\ exec'[c] # exec[c] => /\ exec[c] \notin {"idle", "submitted", "started"}
                           /\ exec'[c] \notin {"submitted", "started", "acquire"}
                           /\ exec'[c] = "failing" => exec[c] = "acquire"
                           /\ exec'[c] \in PathKnown <=> exec[c] \in PathKnown /\ exec'[c] \notin {"idle", "closing", "aborting"}
                           /\ exec[c] \in PathKnown /\ exec'[c] \notin PathKnown /\ proc'[c] = "attached"
                                => c \in outlived'
                           /\ exec'[c] \in {"exited", "receipted", "closing"} => st'[c] # "RUNNING"
                           /\ exec'[c] \in {"broken", "aborting"} => st'[c] # "RUNNING" \/ proc'[c] # "attached"
                           /\ exec'[c] \in {"receipted", "closing"} => "broker" \in receipts'[c]
  /\ proc'[c] = "attached" => proc[c] = "attached"
  /\ Populated(c)' => Populated(c) /\ (c \in cgroup => c \in cgroup')
  /\ proc[c] = "none" => proc'[c] = "none"
  /\ st'[c] # st[c] => /\ st[c] # "none" /\ exec[c] \notin {"submitted", "started"}
                       /\ st'[c] \notin Early \cup {"RUNNING"}
                       /\ st'[c] \in {"START_FAILED", "LOST"} => proc'[c] # "attached" /\ exec'[c] = "idle"
  /\ c \in handle /\ c \notin handle' => st'[c] # "RUNNING"
  /\ receipts[c] \subseteq receipts'[c]
  /\ c \in outlived => c \in outlived'

LEMMA CalmStep ==
  ASSUME IInv, TypeOK', \A c \in Cells : Calm(c),
         idem' = idem, crashes' = crashes, cgroup' \subseteq cgroup,
         Quiet', Locked', CancelSeen'
  PROVE  IInv'
  <1>1. InStep'
    <2> SUFFICES ASSUME NEW c \in Cells
                 PROVE  /\ exec'[c] = "submitted" => st'[c] = "ACCEPTED"
                        /\ exec'[c] = "started" => st'[c] = "RUNNING"
                        /\ exec'[c] \notin {"idle", "submitted"}
                             => st'[c] \notin Early \cup {"START_FAILED", "LOST"}
      BY DEF InStep
    <2>1. Calm(c)
      OBVIOUS
    <2> QED BY <2>1 DEF Calm, IInv, InStep
  <1>2. NothingYet'
    <2> SUFFICES ASSUME NEW c \in Cells, st'[c] \in Early \/ exec'[c] \in Unacquired
                 PROVE  c \notin cgroup' /\ proc'[c] = "none"
      BY DEF NothingYet
    <2>1. Calm(c)
      OBVIOUS
    <2>2. st[c] \in Early \/ exec[c] \in Unacquired
      BY <2>1 DEF Calm, Unacquired
    <2> QED BY <2>1, <2>2 DEF Calm, IInv, NothingYet
  <1>3. InGroup'
    BY DEF Calm, IInv, InGroup
  <1>4. ExitFirst'
    BY DEF Calm, IInv, ExitFirst
  <1>5. HandleFirst'
    <2> SUFFICES ASSUME NEW c \in Cells, st'[c] = "RUNNING", Delegated, exec'[c] = "acquire" \/ c \in cgroup'
                 PROVE  c \in handle'
      BY DEF HandleFirst
    <2>1. Calm(c)
      OBVIOUS
    <2>2. st[c] = "RUNNING" /\ (exec[c] = "acquire" \/ c \in cgroup)
      BY <2>1 DEF Calm
    <2> QED BY <2>1, <2>2 DEF Calm, IInv, HandleFirst
  <1>6. Evidence'
    BY DEF Calm, IInv, Evidence
  <1>7. Supervised'
    <2> SUFFICES ASSUME NEW c \in Cells, crashes = 0, proc'[c] = "attached"
                 PROVE  exec'[c] \in PathKnown \/ c \in outlived'
      BY DEF Supervised
    <2>1. Calm(c)
      OBVIOUS
    <2>2. exec[c] \in PathKnown \/ c \in outlived
      BY <2>1 DEF Calm, IInv, Supervised
    <2> QED BY <2>1, <2>2 DEF Calm, PathKnown
  <1>8. VerdictIsTrue'
    BY DEF Calm, IInv, VerdictIsTrue
  <1>9. OneCellPerKey'
    <2>1. \A c \in Cells : st'[c] # "none" <=> st[c] # "none"
      <3> SUFFICES ASSUME NEW c \in Cells PROVE st'[c] # "none" <=> st[c] # "none"
        OBVIOUS
      <3>1. Calm(c)
        OBVIOUS
      <3> QED BY <3>1 DEF Calm, Early
    <2> QED BY <2>1 DEF IInv, OneCellPerKey
  <1> QED BY <1>1, <1>2, <1>3, <1>4, <1>5, <1>6, <1>7, <1>8, <1>9 DEF IInv

\* A calm step keeps what a cancelCell call in flight relies on.
LEMMA CancelKept ==
  ASSUME IInv, \A c \in Cells : Calm(c), cancel' = cancel
  PROVE  CancelSeen'
  <1> SUFFICES ASSUME cancel \in Calls
               PROVE  /\ st'[cancel.cell] # "none" /\ exec'[cancel.cell] \notin {"submitted", "started"}
                      /\ cancel.seen # "RUNNING" => st'[cancel.cell] # "RUNNING"
    BY DEF CancelSeen
  <1>1. cancel.cell \in Cells /\ Calm(cancel.cell)
    BY DEF Calls
  <1> QED BY <1>1 DEF Calm, IInv, CancelSeen, Early

LEMMA CalmWhileUp ==
  ASSUME IInv, TypeOK', \A c \in Cells : Calm(c), daemon = "up",
         idem' = idem, crashes' = crashes, cgroup' \subseteq cgroup,
         daemon' = daemon, lock' = lock, cancel' = cancel
  PROVE  IInv'
  <1>1. Quiet'
    BY DEF Quiet
  <1>2. Locked'
    BY DEF Calm, IInv, Locked
  <1> QED BY <1>1, <1>2, CancelKept, CalmStep

\* The execution of one cell moves on and its process may end.
LEMMA ExecMoves ==
  ASSUME TypeOK, NEW c \in Cells, NEW ph \in Phase, exec' = [exec EXCEPT ![c] = ph]
  PROVE  /\ exec' \in [Cells -> Phase] /\ exec'[c] = ph
         /\ \A d \in Cells : d # c => exec'[d] = exec[d]
  BY DEF TypeOK

LEMMA ProcChanges ==
  ASSUME TypeOK, NEW c \in Cells, NEW p \in Process, proc' = [proc EXCEPT ![c] = p]
  PROVE  /\ proc' \in [Cells -> Process] /\ proc'[c] = p
         /\ \A d \in Cells : d # c => proc'[d] = proc[d]
  BY DEF TypeOK

(***************************************************************************)
(* Supervision and the exit.                                               *)
(***************************************************************************)
LEMMA AcquireFailsStep ==
  ASSUME IInv, NEW c \in Cells, AcquireFails(c)
  PROVE  IInv'
  <1>1. /\ exec' \in [Cells -> Phase] /\ exec'[c] = "failing"
        /\ \A d \in Cells : d # c => exec'[d] = exec[d]
    BY ExecMoves DEF IInv, AcquireFails, Phase
  <1>2. TypeOK'
    BY <1>1 DEF IInv, TypeOK, AcquireFails, durable, kernel
  <1>3. \A d \in Cells : Calm(d)
    BY <1>1 DEF Calm, AcquireFails, durable, kernel, PathKnown, Populated
  <1> QED BY <1>2, <1>3, CalmWhileUp DEF AcquireFails, Serving, durable, kernel

\* The process of c ends, is terminated or stays as it is, and its execution
\* is settled.
LEMMA SettledStep ==
  ASSUME IInv, NEW c \in Cells, daemon = "up", exec[c] \in {"spawned", "go"},
         NEW p \in Process, proc' = [proc EXCEPT ![c] = p],
         p = "attached" => proc[c] = "attached",
         p \in {"attached", "dying"} => Populated(c),
         proc[c] = "none" => p = "none",
         exec' = [exec EXCEPT ![c] = "settled"],
         aborted' \in SUBSET Cells,
         UNCHANGED <<durable, daemon, scan, lock, cancel, cgroup, history>>
  PROVE  IInv'
  <1>1. /\ exec' \in [Cells -> Phase] /\ exec'[c] = "settled"
        /\ \A d \in Cells : d # c => exec'[d] = exec[d]
    BY ExecMoves DEF IInv, Phase
  <1>2. /\ proc' \in [Cells -> Process] /\ proc'[c] = p
        /\ \A d \in Cells : d # c => proc'[d] = proc[d]
    BY ProcChanges DEF IInv
  <1>3. TypeOK'
    BY <1>1, <1>2 DEF IInv, TypeOK, durable
  <1>4. \A d \in Cells : Calm(d)
    BY <1>1, <1>2 DEF Calm, durable, PathKnown, Populated
  <1> QED BY <1>3, <1>4, CalmWhileUp DEF durable

LEMMA AttachRefusedStep ==
  ASSUME IInv, NEW c \in Cells, AttachRefused(c)
  PROVE  IInv'
  BY SettledStep DEF AttachRefused, Serving, Process, IInv, TypeOK

\* What a signalled process tree can be afterwards.
LEMMA TerminatedFacts ==
  ASSUME NEW q \in Process, NEW p \in Terminated(q)
  PROVE  /\ p \in Process
         /\ p = "attached" => q = "attached"
         /\ p \in {"attached", "dying"} => q \in {"attached", "dying"}
         /\ q = "none" => p = "none"
  BY DEF Terminated, Process

LEMMA SupervisionSteps ==
  ASSUME IInv, NEW c \in Cells, LeaderExit(c) \/ WallTimeout(c) \/ AbortSeen(c)
  PROVE  IInv'
  <1>1. proc[c] \in Process /\ aborted \in SUBSET Cells
    BY DEF IInv, TypeOK
  <1>2. CASE LeaderExit(c)
    <2>1. PICK p \in {proc[c], "none"} : proc' = [proc EXCEPT ![c] = p]
      BY <1>2 DEF LeaderExit
    <2> QED BY <1>1, <1>2, <2>1, SettledStep DEF LeaderExit, Serving, Process, Populated
  <1>3. CASE WallTimeout(c) \/ AbortSeen(c)
    <2>1. PICK p \in Terminated(proc[c]) : proc' = [proc EXCEPT ![c] = p]
      BY <1>3 DEF WallTimeout, AbortSeen
    <2>2. /\ p \in Process
          /\ p = "attached" => proc[c] = "attached"
          /\ p \in {"attached", "dying"} => Populated(c)
          /\ proc[c] = "none" => p = "none"
      BY <1>1, <2>1, TerminatedFacts DEF Populated
    <2>3. /\ daemon = "up" /\ exec[c] \in {"spawned", "go"} /\ exec' = [exec EXCEPT ![c] = "settled"]
          /\ aborted' = aborted
          /\ UNCHANGED <<durable, daemon, scan, lock, cancel, cgroup, history>>
      BY <1>3 DEF WallTimeout, AbortSeen, Serving
    <2> QED BY <1>1, <2>1, <2>2, <2>3, SettledStep
  <1> QED BY <1>2, <1>3

LEMMA ExitEventStep ==
  ASSUME IInv, NEW c \in Cells, ExitEvent(c)
  PROVE  IInv'
  <1>1. /\ exec' \in [Cells -> Phase] /\ exec'[c] = "exited"
        /\ \A d \in Cells : d # c => exec'[d] = exec[d]
    BY ExecMoves DEF IInv, ExitEvent, Phase
  <1>2. /\ st' \in [Cells -> CellState]
        /\ \A d \in Cells : d # c => st'[d] = st[d]
        /\ st'[c] = st[c] \/ (st'[c] = "EXIT_OBSERVED" /\ st[c] \notin {"none", "CLEANED"})
        /\ st'[c] # "RUNNING"
    BY TransitionFacts DEF IInv, TypeOK, ExitEvent, CellState, Terminal
  <1>3. TypeOK'
    BY <1>1, <1>2 DEF IInv, TypeOK, ExitEvent, kernel
  <1>4. \A d \in Cells : Calm(d)
    BY <1>1, <1>2 DEF Calm, ExitEvent, kernel, PathKnown, Populated, Early
  <1> QED BY <1>3, <1>4, CalmWhileUp DEF ExitEvent, Serving, kernel

LEMMA ReceiptEventStep ==
  ASSUME IInv, NEW c \in Cells, ReceiptEvent(c)
  PROVE  IInv'
  <1>1. /\ exec' \in [Cells -> Phase] /\ exec'[c] = "receipted"
        /\ \A d \in Cells : d # c => exec'[d] = exec[d]
    BY ExecMoves DEF IInv, ReceiptEvent, Phase
  <1>2. /\ st' \in [Cells -> CellState]
        /\ \A d \in Cells : d # c => st'[d] = st[d]
        /\ st'[c] = st[c] \/ (st'[c] = "RECEIPT_COMMITTED" /\ st[c] \notin {"none", "CLEANED"})
    BY TransitionFacts DEF IInv, TypeOK, ReceiptEvent, CellState
  <1>3. /\ receipts' \in [Cells -> SUBSET {"broker", "recovery"}]
        /\ "broker" \in receipts'[c] /\ \A d \in Cells : receipts[d] \subseteq receipts'[d]
    BY DEF IInv, TypeOK, ReceiptEvent
  <1>4. TypeOK'
    BY <1>1, <1>2, <1>3 DEF IInv, TypeOK, ReceiptEvent, kernel
  <1>5. \A d \in Cells : Calm(d)
    <2>1. st[c] # "RUNNING" /\ exec[c] = "exited"
      BY DEF IInv, ExitFirst, ReceiptEvent
    <2> QED BY <2>1, <1>1, <1>2, <1>3 DEF Calm, ReceiptEvent, kernel, PathKnown, Populated, Early
  <1> QED BY <1>4, <1>5, CalmWhileUp DEF ReceiptEvent, Serving, kernel

LEMMA ReceiptFailsStep ==
  ASSUME IInv, NEW c \in Cells, ReceiptFails(c)
  PROVE  IInv'
  <1>1. /\ exec' \in [Cells -> Phase] /\ exec'[c] = "broken"
        /\ \A d \in Cells : d # c => exec'[d] = exec[d]
    BY ExecMoves DEF IInv, ReceiptFails, Phase
  <1>2. TypeOK'
    BY <1>1 DEF IInv, TypeOK, ReceiptFails, durable, kernel
  <1>3. \A d \in Cells : Calm(d)
    <2>1. st[c] # "RUNNING" /\ exec[c] = "exited"
      BY DEF IInv, ExitFirst, ReceiptFails
    <2> QED BY <2>1, <1>1 DEF Calm, ReceiptFails, durable, kernel, PathKnown, Populated
  <1> QED BY <1>2, <1>3, CalmWhileUp DEF ReceiptFails, Serving, durable, kernel

\* Processes go before the lock, or the clean-up has failed to kill them.
LEMMA CleanupAcquiredStep ==
  ASSUME IInv, NEW c \in Cells, cleanupAcquired(c)
  PROVE  IInv'
  <1> DEFINE ph == IF exec[c] = "receipted" THEN "closing" ELSE "aborting"
  <1>1. PICK out \in Removal(proc, CleanupDirs(c)) :
          /\ proc' = out.proc /\ cgroup' = out.cgroup
          /\ outlived' = outlived \cup {d \in CleanupDirs(c) : out.proc[d] = "attached"}
    BY DEF cleanupAcquired
  <1>2. /\ exec[c] \in {"receipted", "failing", "broken"} /\ daemon = "up"
        /\ lock' = (IF lock = c THEN None ELSE lock) /\ aborted' = aborted \ {c}
        /\ exec' = [exec EXCEPT ![c] = ph]
        /\ UNCHANGED <<durable, daemon, scan, cancel, crashes>>
    BY DEF cleanupAcquired, Serving
  <1>3. /\ exec' \in [Cells -> Phase] /\ exec'[c] = ph
        /\ \A d \in Cells : d # c => exec'[d] = exec[d]
    BY <1>2, ExecMoves DEF IInv, Phase
  <1>4. proc \in [Cells -> Process] /\ CleanupDirs(c) \in SUBSET Cells /\ cgroup \subseteq Cells
    BY DEF IInv, TypeOK, CleanupDirs
  <1>5. /\ proc' \in [Cells -> Process] /\ cgroup' \subseteq cgroup
        /\ \A d \in Cells :
             /\ proc'[d] = "attached" => proc[d] = "attached"
             /\ proc'[d] \in {"attached", "dying"} =>
                  proc[d] \in {"attached", "dying"} /\ (d \in cgroup => d \in cgroup')
             /\ proc[d] = "none" => proc'[d] = "none"
    BY <1>1, <1>4, RemovalFacts
  <1>6. proc'[c] = "attached" => c \in outlived'
    <2>1. CASE exec[c] = "failing" \/ ~Delegated
      <3>1. proc[c] # "attached"
        BY <2>1 DEF IInv, NothingYet, Unacquired, InGroup, Populated
      <3> QED BY <3>1, <1>5
    <2>2. CASE exec[c] # "failing" /\ Delegated
      <3>1. c \in CleanupDirs(c)
        BY <2>2, <1>2 DEF CleanupDirs, PathKnown
      <3> QED BY <3>1, <1>1
    <2> QED BY <2>1, <2>2
  <1>7. TypeOK'
    BY <1>1, <1>2, <1>3, <1>4, <1>5 DEF IInv, TypeOK, durable
  <1>8. \A d \in Cells : Calm(d)
    <2> SUFFICES ASSUME NEW d \in Cells PROVE Calm(d)
      OBVIOUS
    <2>1. CASE d # c
      BY <2>1, <1>1, <1>2, <1>3, <1>5 DEF Calm, durable, Populated
    <2>2. CASE d = c
      <3>1. ph = "closing" => "broker" \in receipts[c]
        BY <1>2 DEF IInv, Evidence
      <3>2. /\ ph = "closing" => st[c] # "RUNNING"
            /\ ph = "aborting" => st[c] # "RUNNING" \/ proc[c] # "attached"
        BY <1>2 DEF IInv, ExitFirst, NothingYet, Unacquired
      <3> QED BY <2>2, <3>1, <3>2, <1>1, <1>2, <1>3, <1>5, <1>6 DEF Calm, durable, Populated, PathKnown
    <2> QED BY <2>1, <2>2
  <1>9. Locked'
    BY <1>2, <1>3 DEF IInv, Locked, PathKnown
  <1>10. Quiet'
    BY <1>2 DEF Quiet
  <1> QED BY <1>2, <1>5, <1>7, <1>8, <1>9, <1>10, CancelKept, CalmStep DEF durable

\* The end of runCell: a receipt closes the cell and its handle goes.
LEMMA FinishCellStep ==
  ASSUME IInv, NEW c \in Cells, FinishCell(c)
  PROVE  IInv'
  <1>1. /\ exec' \in [Cells -> Phase] /\ exec'[c] = "idle"
        /\ \A d \in Cells : d # c => exec'[d] = exec[d]
    BY ExecMoves DEF IInv, FinishCell, Phase
  <1>2. /\ st' \in [Cells -> CellState] /\ handle' \subseteq handle
        /\ \A d \in Cells : d # c => st'[d] = st[d] /\ (d \in handle => d \in handle')
        /\ \/ st'[c] = st[c] /\ handle' = handle
           \/ st[c] = "RECEIPT_COMMITTED" /\ st'[c] = "CLEANED"
    <2>1. CASE st[c] # "RECEIPT_COMMITTED"
      BY <2>1 DEF IInv, TypeOK, FinishCell
    <2>2. CASE st[c] = "RECEIPT_COMMITTED"
      <3> DEFINE bound == Transition(st, c, "EVIDENCE_BOUND", "RECEIPT_COMMITTED")
      <3>1. /\ bound \in [Cells -> CellState] /\ bound[c] = "EVIDENCE_BOUND"
            /\ \A d \in Cells : d # c => bound[d] = st[d]
        BY <2>2, TransitionFacts DEF IInv, TypeOK, CellState, Terminal
      <3>2. st' = Transition(bound, c, "CLEANED", "EVIDENCE_BOUND") /\ handle' = handle \ {c}
        BY <2>2 DEF FinishCell
      <3> HIDE DEF bound
      <3>3. /\ st' \in [Cells -> CellState] /\ st'[c] = "CLEANED"
            /\ \A d \in Cells : d # c => st'[d] = bound[d]
        BY <3>1, <3>2, TransitionFacts DEF CellState, Terminal
      <3> QED BY <2>2, <3>1, <3>2, <3>3
    <2> QED BY <2>1, <2>2
  <1>3. TypeOK'
    BY <1>1, <1>2 DEF IInv, TypeOK, FinishCell, kernel
  <1>4. exec[c] = "closing"
    BY DEF FinishCell
  <1>5. \A d \in Cells : Calm(d)
    BY <1>1, <1>2, <1>4 DEF Calm, FinishCell, kernel, PathKnown, Populated, Early
  <1> QED BY <1>3, <1>5, CalmWhileUp DEF FinishCell, Serving, kernel

LEMMA FailCellStep ==
  ASSUME IInv, NEW c \in Cells, FailCell(c)
  PROVE  IInv'
  <1>1. /\ exec' \in [Cells -> Phase] /\ exec'[c] = "idle"
        /\ \A d \in Cells : d # c => exec'[d] = exec[d]
    BY ExecMoves DEF IInv, FailCell, Phase
  <1>2. /\ st' \in [Cells -> CellState]
        /\ \A d \in Cells : d # c => st'[d] = st[d]
        /\ st'[c] = st[c] \/ (st'[c] = "START_FAILED" /\ st[c] = "RUNNING")
    BY TransitionFacts DEF IInv, TypeOK, FailCell, CellState
  <1>3. TypeOK'
    BY <1>1, <1>2 DEF IInv, TypeOK, FailCell, kernel
  <1>4. exec[c] = "aborting" /\ (st[c] = "RUNNING" => proc[c] # "attached")
    BY DEF IInv, ExitFirst, FailCell
  <1>5. \A d \in Cells : Calm(d)
    BY <1>1, <1>2, <1>4 DEF Calm, FailCell, kernel, PathKnown, Populated, Early
  <1> QED BY <1>3, <1>5, CalmWhileUp DEF FailCell, Serving, kernel

(***************************************************************************)
(* Cancellation.                                                           *)
(***************************************************************************)

\* A cancellation that goes through the broker: processes may only end, and
\* the executions that ran are settled.
LEMMA BrokerCancelStep ==
  ASSUME IInv, daemon = "up", NEW S \in SUBSET Cells,
         exec' = AbortSettles(S), aborted' \in SUBSET Cells,
         proc' \in [Cells -> Process], cgroup' \subseteq cgroup,
         \A d \in Cells :
           /\ proc'[d] = "attached" => proc[d] = "attached"
           /\ proc'[d] \in {"attached", "dying"} => Populated(d) /\ (d \in cgroup => d \in cgroup')
           /\ proc[d] = "none" => proc'[d] = "none",
         cancel' \in Calls \cup Runs \cup {None}, CancelSeen',
         UNCHANGED <<durable, daemon, scan, lock, history>>
  PROVE  IInv'
  <1>1. /\ exec' \in [Cells -> Phase]
        /\ \A d \in Cells : exec'[d] = exec[d] \/ (exec[d] = "go" /\ exec'[d] = "settled")
    BY AbortSettlesFacts DEF IInv
  <1>2. TypeOK'
    BY <1>1 DEF IInv, TypeOK, durable, Calls
  <1>3. \A d \in Cells : Calm(d)
    BY <1>1 DEF Calm, durable, PathKnown, Populated
  <1>4. Quiet'
    BY DEF Quiet
  <1>5. Locked'
    BY <1>1 DEF IInv, Locked, PathKnown
  <1> QED BY <1>2, <1>3, <1>4, <1>5, CalmStep DEF durable

\* The state a cancelCell call keeps for its transition.
LEMMA CallInFlight ==
  ASSUME IInv, NEW c \in Cells, Turn, st[c] # "none", exec' \in [Cells -> Phase],
         exec'[c] \notin {"submitted", "started"},
         st' = st, cancel' = [cell |-> c, seen |-> st[c]]
  PROVE  cancel' \in Calls /\ CancelSeen'
  BY DEF IInv, TypeOK, Calls, CancelSeen

LEMMA CancelViaBrokerStep ==
  ASSUME IInv, NEW c \in Cells, CancelViaBroker(c)
  PROVE  IInv'
  <1> DEFINE S == {c} \cap {d \in Cells : exec[d] \in Registered}
  <1>1. /\ daemon = "up" /\ Turn /\ st[c] # "none"
        /\ aborted' = aborted \cup S /\ proc' \in BrokerCancel(S) /\ exec' = AbortSettles(S)
        /\ cancel' = [cell |-> c, seen |-> st[c]]
        /\ UNCHANGED <<durable, daemon, scan, lock, cgroup, history>>
    BY DEF CancelViaBroker, Serving
  <1>2. S \in SUBSET Cells
    OBVIOUS
  <1> HIDE DEF S
  <1>3. /\ proc' \in [Cells -> Process]
        /\ \A d \in Cells :
             /\ proc'[d] = "attached" => proc[d] = "attached"
             /\ proc'[d] \in {"attached", "dying"} => Populated(d)
             /\ proc[d] = "none" => proc'[d] = "none"
    BY <1>1, <1>2, BrokerCancelFacts DEF IInv
  <1>4. /\ exec' \in [Cells -> Phase]
        /\ exec'[c] \notin {"submitted", "started"}
    BY <1>1, <1>2, AbortSettlesFacts DEF IInv, Turn
  <1>5. cancel' \in Calls /\ CancelSeen'
    BY <1>1, <1>4, CallInFlight DEF durable
  <1>6. aborted' \in SUBSET Cells
    BY <1>1, <1>2 DEF IInv, TypeOK
  <1> QED BY <1>1, <1>2, <1>3, <1>5, <1>6, BrokerCancelStep

LEMMA KillViaHandleStep ==
  ASSUME IInv, NEW c \in Cells, killViaHandle(c)
  PROVE  IInv'
  <1>1. /\ daemon = "up" /\ Turn /\ st[c] # "none" /\ exec[c] = "idle"
        /\ proc' = [proc EXCEPT ![c] = IF Populated(c) THEN "dying" ELSE proc[c]]
        /\ cancel' = [cell |-> c, seen |-> st[c]]
        /\ UNCHANGED <<durable, daemon, scan, exec, aborted, lock, cgroup, history>>
    BY DEF killViaHandle, Serving
  <1>2. /\ proc' \in [Cells -> Process]
        /\ \A d \in Cells : proc'[d] = proc[d] \/ (Populated(d) /\ proc'[d] = "dying")
    BY <1>1 DEF IInv, TypeOK, Process
  <1>3. cancel' \in Calls /\ CancelSeen'
    BY <1>1, CallInFlight DEF durable, IInv, TypeOK
  <1>4. TypeOK'
    BY <1>1, <1>2, <1>3 DEF IInv, TypeOK, durable, Calls
  <1>5. \A d \in Cells : Calm(d)
    BY <1>1, <1>2 DEF Calm, durable, Populated
  <1>6. Quiet' /\ Locked'
    BY <1>1 DEF IInv, Quiet, Locked
  <1> QED BY <1>1, <1>3, <1>4, <1>5, <1>6, CalmStep DEF durable

LEMMA CancelPendingStep ==
  ASSUME IInv, CancelPending
  PROVE  IInv'
  <1>1. /\ daemon = "up" /\ cancel' = None
        /\ UNCHANGED <<durable, daemon, scan, exec, aborted, lock, kernel, history>>
    BY DEF CancelPending, Serving
  <1>2. CancelSeen'
    BY <1>1, RunsAssumption DEF CancelSeen, Calls
  <1>3. TypeOK'
    BY <1>1 DEF IInv, TypeOK, durable, kernel
  <1>4. \A d \in Cells : Calm(d)
    BY <1>1 DEF Calm, durable, kernel, Populated
  <1>5. Quiet' /\ Locked'
    BY <1>1 DEF IInv, Quiet, Locked
  <1> QED BY <1>1, <1>2, <1>3, <1>4, <1>5, CalmStep DEF durable, kernel

\* The handle goes with a proof of termination, and what is not RUNNING any
\* more needs no handle.
LEMMA CancelCommitStep ==
  ASSUME IInv, CancelCommit
  PROVE  IInv'
  <1> DEFINE c == cancel.cell
  <1>1. /\ daemon = "up" /\ Turn /\ cancel \in Calls /\ cancel' = None
        /\ st' = Transition(st, c, "CANCELLED", cancel.seen) /\ handle' = handle \ {c}
        /\ UNCHANGED <<idem, receipts, runStatus, daemon, scan, exec, aborted, lock, kernel, history>>
    BY DEF CancelCommit, Serving, Calls
  <1>2. c \in Cells
    BY <1>1 DEF Calls
  <1>3. /\ st' \in [Cells -> CellState]
        /\ \A d \in Cells : d # c => st'[d] = st[d]
        /\ st'[c] = st[c] \/ (st'[c] = "CANCELLED" /\ st[c] # "none")
        /\ st[c] = cancel.seen /\ st[c] \notin Terminal \cup {"none"} => st'[c] = "CANCELLED"
    BY <1>1, <1>2, TransitionFacts DEF IInv, TypeOK, CellState
  <1>4. st'[c] # "RUNNING" /\ exec[c] \notin {"submitted", "started"}
    BY <1>1, <1>3 DEF IInv, CancelSeen, Terminal
  <1>5. CancelSeen'
    BY <1>1, RunsAssumption DEF CancelSeen, Calls
  <1>6. TypeOK'
    BY <1>1, <1>3 DEF IInv, TypeOK, kernel
  <1>7. \A d \in Cells : Calm(d)
    BY <1>1, <1>3, <1>4 DEF Calm, kernel, Populated, Early
  <1>8. Quiet' /\ Locked'
    BY <1>1 DEF IInv, Quiet, Locked
  <1> QED BY <1>1, <1>5, <1>6, <1>7, <1>8, CalmStep DEF kernel

LEMMA CancelRunStep ==
  ASSUME IInv, NEW r \in Runs, CancelRun(r)
  PROVE  IInv'
  <1> DEFINE S == {c \in Cells : RunOf[c] = r /\ exec[c] \in Registered}
             dirs == {c \in Cells : RunOf[c] = r}
  <1>1. /\ daemon = "up" /\ aborted' = aborted \cup S /\ exec' = AbortSettles(S)
        /\ cancel' = r
        /\ UNCHANGED <<durable, daemon, scan, lock, history>>
    BY DEF CancelRun, Serving
  <1>2. PICK p \in BrokerCancel(S) : \E out \in Removal(p, dirs) : proc' = out.proc /\ cgroup' = out.cgroup
    BY DEF CancelRun
  <1>3. PICK out \in Removal(p, dirs) : proc' = out.proc /\ cgroup' = out.cgroup
    BY <1>2
  <1>4. S \in SUBSET Cells /\ dirs \in SUBSET Cells /\ cgroup \subseteq Cells
    BY DEF IInv, TypeOK
  <1> HIDE DEF S, dirs
  <1>5. /\ p \in [Cells -> Process]
        /\ \A d \in Cells :
             /\ p[d] = "attached" => proc[d] = "attached"
             /\ p[d] \in {"attached", "dying"} => Populated(d)
             /\ proc[d] = "none" => p[d] = "none"
    BY <1>2, <1>4, BrokerCancelFacts DEF IInv
  <1>6. /\ proc' \in [Cells -> Process] /\ cgroup' \subseteq cgroup
        /\ \A d \in Cells :
             /\ proc'[d] = "attached" => p[d] = "attached"
             /\ proc'[d] \in {"attached", "dying"} =>
                  p[d] \in {"attached", "dying"} /\ (d \in cgroup => d \in cgroup')
             /\ p[d] = "none" => proc'[d] = "none"
    BY <1>3, <1>4, <1>5, RemovalFacts
  <1>7. aborted' \in SUBSET Cells /\ cancel' \in Calls \cup Runs \cup {None}
    BY <1>1, <1>4 DEF IInv, TypeOK
  <1>8. CancelSeen'
    BY <1>1, RunsAssumption DEF CancelSeen, Calls
  <1>9. \A d \in Cells :
          /\ proc'[d] = "attached" => proc[d] = "attached"
          /\ proc'[d] \in {"attached", "dying"} => Populated(d) /\ (d \in cgroup => d \in cgroup')
          /\ proc[d] = "none" => proc'[d] = "none"
    BY <1>5, <1>6
  <1> QED BY <1>1, <1>4, <1>6, <1>7, <1>8, <1>9, BrokerCancelStep

LEMMA CancelRunCommitStep ==
  ASSUME IInv, NEW r \in Runs, CancelRunCommit(r)
  PROVE  IInv'
  <1>1. /\ daemon = "up" /\ Turn /\ cancel' = None
        /\ st' = [c \in Cells |->
                   IF c \in Known(r) THEN Transition(st, c, "CANCELLED", st[c])[c] ELSE st[c]]
        /\ UNCHANGED <<idem, handle, receipts, runStatus, daemon, scan, exec, aborted, lock, kernel, history>>
    BY DEF CancelRunCommit, Serving
  <1>2. \A c \in Cells : /\ Transition(st, c, "CANCELLED", st[c])[c] \in CellState
                         /\ \/ Transition(st, c, "CANCELLED", st[c])[c] = st[c]
                            \/ Transition(st, c, "CANCELLED", st[c])[c] = "CANCELLED" /\ st[c] # "none"
    BY TransitionFacts DEF IInv, TypeOK, CellState
  <1>3. /\ st' \in [Cells -> CellState]
        /\ \A c \in Cells : st'[c] = st[c] \/ (st'[c] = "CANCELLED" /\ st[c] # "none")
    BY <1>1, <1>2 DEF IInv, TypeOK
  <1>4. CancelSeen'
    BY <1>1, RunsAssumption DEF CancelSeen, Calls
  <1>5. TypeOK'
    BY <1>1, <1>3 DEF IInv, TypeOK, kernel
  <1>6. \A d \in Cells : Calm(d)
    BY <1>1, <1>3 DEF Calm, kernel, Populated, Early, Turn
  <1>7. Quiet' /\ Locked'
    BY <1>1 DEF IInv, Quiet, Locked
  <1> QED BY <1>1, <1>4, <1>5, <1>6, <1>7, CalmStep DEF kernel

LEMMA CleanupRunStep ==
  ASSUME IInv, NEW r \in Runs, CleanupRun(r)
  PROVE  IInv'
  <1>1. /\ daemon = "up" /\ Turn
        /\ st' = [c \in Cells |-> IF RunOf[c] = r THEN Transition(st, c, "CLEANED", "CANCELLED")[c] ELSE st[c]]
        /\ UNCHANGED <<idem, handle, receipts, memory, kernel, history>>
    BY DEF CleanupRun, Serving
  <1>2. \A c \in Cells : /\ Transition(st, c, "CLEANED", "CANCELLED")[c] \in CellState
                         /\ \/ Transition(st, c, "CLEANED", "CANCELLED")[c] = st[c]
                            \/ Transition(st, c, "CLEANED", "CANCELLED")[c] = "CLEANED" /\ st[c] # "none"
    BY TransitionFacts DEF IInv, TypeOK, CellState
  <1>3. /\ st' \in [Cells -> CellState]
        /\ \A c \in Cells : st'[c] = st[c] \/ (st'[c] = "CLEANED" /\ st[c] # "none")
    BY <1>1, <1>2 DEF IInv, TypeOK
  <1>4. runStatus' \in [Runs -> {"none", "active", "cleaned"}]
    BY DEF IInv, TypeOK, CleanupRun
  <1>5. TypeOK'
    BY <1>1, <1>3, <1>4 DEF IInv, TypeOK, kernel, memory
  <1>6. \A d \in Cells : Calm(d)
    BY <1>1, <1>3 DEF Calm, kernel, memory, Populated, Early, Turn
  <1> QED BY <1>1, <1>5, <1>6, CalmWhileUp DEF kernel, memory

(***************************************************************************)
(* Submission and the start of an execution.                               *)
(***************************************************************************)

\* The first request of a key draws a cell nothing knows of.
LEMMA SubmitStep ==
  ASSUME IInv, NEW k \in Keys, NEW c \in Cells, SubmitRejected(k, c) \/ SubmitAccepted(k, c)
  PROVE  IInv'
  <1>1. /\ daemon = "up" /\ idem[k] = None /\ st[c] = "none"
        /\ UNCHANGED <<handle, receipts, daemon, scan, aborted, lock, cancel, kernel, history>>
    BY DEF SubmitRejected, SubmitAccepted, Serving, Fresh, memory
  <1>2. PICK to \in {"REJECTED_POLICY", "ACCEPTED"}, ph \in {"idle", "submitted"}, b \in BOOLEAN :
          /\ st' = [st EXCEPT ![c] = to] /\ exec' = [exec EXCEPT ![c] = ph]
          /\ idem' = [idem EXCEPT ![k] = [cell |-> c, rejected |-> b]]
          /\ ph = "submitted" => to = "ACCEPTED"
    <2>1. exec[c] = "idle" /\ exec \in [Cells -> Phase]
      BY <1>1 DEF IInv, InStep, Early, TypeOK
    <2>2. CASE SubmitRejected(k, c)
      <3>1. exec' = [exec EXCEPT ![c] = "idle"]
        BY <2>1, <2>2 DEF SubmitRejected, memory
      <3> QED BY <3>1, <2>2 DEF SubmitRejected
    <2>3. CASE SubmitAccepted(k, c)
      BY <2>3 DEF SubmitAccepted
    <2> QED BY <2>2, <2>3
  <1>3. runStatus' \in [Runs -> {"none", "active", "cleaned"}]
    BY CellsAssumption DEF SubmitRejected, SubmitAccepted, IInv, TypeOK
  <1>4. /\ exec' \in [Cells -> Phase] /\ exec'[c] = ph
        /\ \A d \in Cells : d # c => exec'[d] = exec[d]
    BY <1>2 DEF IInv, TypeOK, Phase
  <1>5. /\ st' \in [Cells -> CellState] /\ st'[c] = to
        /\ \A d \in Cells : d # c => st'[d] = st[d]
    BY <1>2 DEF IInv, TypeOK, CellState
  <1>6. /\ idem' \in [Keys -> [cell : Cells, rejected : BOOLEAN] \cup {None}]
        /\ idem'[k] = [cell |-> c, rejected |-> b] /\ idem'[k] # None /\ idem'[k].cell = c
        /\ \A j \in Keys : j # k => idem'[j] = idem[j]
    BY <1>2, CellsAssumption DEF IInv, TypeOK
  <1>7. c \notin cgroup /\ proc[c] = "none"
    BY <1>1 DEF IInv, NothingYet, Early
  <1>8. TypeOK'
    BY <1>1, <1>3, <1>4, <1>5, <1>6 DEF IInv, TypeOK, kernel
  <1>9. InStep' /\ NothingYet'
    BY <1>1, <1>2, <1>4, <1>5, <1>7 DEF IInv, InStep, NothingYet, kernel
  <1>10. InGroup' /\ ExitFirst' /\ VerdictIsTrue'
    BY <1>1, <1>2, <1>4, <1>5, <1>7 DEF IInv, InGroup, ExitFirst, VerdictIsTrue, kernel, Populated
  <1>11. Quiet' /\ Locked' /\ Evidence'
    BY <1>1, <1>2, <1>4 DEF IInv, Quiet, Locked, PathKnown, Evidence
  <1>12. HandleFirst' /\ Supervised'
    BY <1>1, <1>2, <1>4, <1>5, <1>7 DEF IInv, HandleFirst, Supervised, kernel
  <1>13. CancelSeen'
    BY <1>1, <1>4, <1>5 DEF IInv, CancelSeen, Calls
  <1>14. OneCellPerKey'
    <2>1. \A j \in Keys : idem[j] # None => idem[j].cell # c
      BY <1>1 DEF IInv, OneCellPerKey
    <2>2. \A d \in Cells : st'[d] # "none" <=> \E j \in Keys : idem'[j] # None /\ idem'[j].cell = d
      <3> SUFFICES ASSUME NEW d \in Cells
                   PROVE  st'[d] # "none" <=> \E j \in Keys : idem'[j] # None /\ idem'[j].cell = d
        OBVIOUS
      <3>1. CASE d = c
        BY <3>1, <1>2, <1>5, <1>6
      <3>2. CASE d # c
        BY <3>2, <1>1, <1>5, <1>6 DEF IInv, OneCellPerKey
      <3> QED BY <3>1, <3>2
    <2>3. \A i, j \in Keys : idem'[i] # None /\ idem'[i] = idem'[j] => i = j
      BY <2>1, <1>6 DEF IInv, OneCellPerKey
    <2> QED BY <2>2, <2>3 DEF OneCellPerKey
  <1> QED BY <1>8, <1>9, <1>10, <1>11, <1>12, <1>13, <1>14 DEF IInv

LEMMA RunCellStartStep ==
  ASSUME IInv, NEW c \in Cells, RunCellStart(c)
  PROVE  IInv'
  <1>1. /\ daemon = "up" /\ exec[c] = "submitted" /\ st[c] = "ACCEPTED"
        /\ UNCHANGED <<idem, handle, receipts, runStatus, daemon, scan, aborted, lock, cancel, kernel, history>>
    BY DEF RunCellStart, IInv, InStep
  <1>2. /\ exec' \in [Cells -> Phase] /\ exec'[c] = "started"
        /\ \A d \in Cells : d # c => exec'[d] = exec[d]
    BY ExecMoves DEF RunCellStart, IInv, Phase
  <1>3. /\ st' \in [Cells -> CellState] /\ st'[c] = "RUNNING"
        /\ \A d \in Cells : d # c => st'[d] = st[d]
    <2> DEFINE compiled == Transition(st, c, "POLICY_COMPILED", "ACCEPTED")
    <2>1. /\ compiled \in [Cells -> CellState] /\ compiled[c] = "POLICY_COMPILED"
          /\ \A d \in Cells : d # c => compiled[d] = st[d]
      BY <1>1, TransitionFacts DEF IInv, TypeOK, CellState, Terminal
    <2>2. st' = Transition(compiled, c, "RUNNING", "POLICY_COMPILED")
      BY DEF RunCellStart
    <2> HIDE DEF compiled
    <2>3. /\ st' \in [Cells -> CellState] /\ st'[c] = "RUNNING"
          /\ \A d \in Cells : d # c => st'[d] = compiled[d]
      BY <2>1, <2>2, TransitionFacts DEF CellState, Terminal
    <2> QED BY <2>1, <2>3
  <1>4. c \notin cgroup /\ proc[c] = "none"
    BY <1>1 DEF IInv, NothingYet, Early
  <1>5. TypeOK'
    BY <1>1, <1>2, <1>3 DEF IInv, TypeOK, kernel
  <1>6. InStep' /\ NothingYet'
    BY <1>1, <1>2, <1>3, <1>4 DEF IInv, InStep, NothingYet, Early, Unacquired, kernel
  <1>7. InGroup' /\ ExitFirst' /\ VerdictIsTrue'
    BY <1>1, <1>2, <1>3, <1>4 DEF IInv, InGroup, ExitFirst, VerdictIsTrue, kernel, Populated
  <1>8. Quiet' /\ Locked' /\ Evidence'
    BY <1>1, <1>2 DEF IInv, Quiet, Locked, PathKnown, Evidence
  <1>9. HandleFirst' /\ Supervised'
    BY <1>1, <1>2, <1>3, <1>4 DEF IInv, HandleFirst, Supervised, kernel
  <1>10. CancelSeen'
    BY <1>1, <1>2, <1>3 DEF IInv, CancelSeen, Calls
  <1>11. OneCellPerKey'
    BY <1>1, <1>3 DEF IInv, OneCellPerKey
  <1> QED BY <1>5, <1>6, <1>7, <1>8, <1>9, <1>10, <1>11 DEF IInv

LEMMA RecordHandleStep ==
  ASSUME IInv, NEW c \in Cells, RecordHandle(c)
  PROVE  IInv'
  <1>1. /\ daemon = "up" /\ exec[c] = "started" /\ st[c] = "RUNNING"
        /\ handle \subseteq handle' /\ handle' \subseteq Cells /\ (Delegated => c \in handle')
        /\ UNCHANGED <<st, idem, receipts, runStatus, daemon, scan, aborted, lock, cancel, kernel, history>>
    BY DEF RecordHandle, IInv, InStep, TypeOK
  <1>2. /\ exec' \in [Cells -> Phase] /\ exec'[c] = "acquire"
        /\ \A d \in Cells : d # c => exec'[d] = exec[d]
    BY ExecMoves DEF RecordHandle, IInv, Phase
  <1>3. c \notin cgroup /\ proc[c] = "none"
    BY <1>1 DEF IInv, NothingYet, Unacquired
  <1>4. TypeOK'
    BY <1>1, <1>2 DEF IInv, TypeOK, kernel
  <1>5. InStep' /\ NothingYet'
    BY <1>1, <1>2, <1>3 DEF IInv, InStep, NothingYet, Early, Unacquired, kernel
  <1>6. InGroup' /\ ExitFirst' /\ VerdictIsTrue'
    BY <1>1, <1>2, <1>3 DEF IInv, InGroup, ExitFirst, VerdictIsTrue, kernel, Populated
  <1>7. Quiet' /\ Locked' /\ Evidence'
    BY <1>1, <1>2 DEF IInv, Quiet, Locked, PathKnown, Evidence
  <1>8. HandleFirst' /\ Supervised'
    BY <1>1, <1>2, <1>3 DEF IInv, HandleFirst, Supervised, kernel
  <1>9. CancelSeen'
    BY <1>1, <1>2 DEF IInv, CancelSeen, Calls
  <1>10. OneCellPerKey'
    BY <1>1 DEF IInv, OneCellPerKey
  <1> QED BY <1>4, <1>5, <1>6, <1>7, <1>8, <1>9, <1>10 DEF IInv

\* The lock is taken and the cgroup made; at most a launcher exists.
LEMMA AcquiredStep ==
  ASSUME IInv, NEW c \in Cells, AcquireAndSpawn(c) \/ PrepareFails(c)
  PROVE  IInv'
  <1>1. /\ daemon = "up" /\ Turn /\ exec[c] = "acquire" /\ lock = None /\ lock' = c
        /\ cgroup' = (IF Delegated THEN cgroup \cup {c} ELSE cgroup)
        /\ UNCHANGED <<durable, daemon, scan, aborted, cancel, history>>
    BY DEF AcquireAndSpawn, PrepareFails, Serving
  <1>2. PICK ph \in {"spawned", "broken"} : exec' = [exec EXCEPT ![c] = ph]
    BY DEF AcquireAndSpawn, PrepareFails
  <1>3. /\ exec' \in [Cells -> Phase] /\ exec'[c] = ph
        /\ \A d \in Cells : d # c => exec'[d] = exec[d]
    BY <1>2, ExecMoves DEF IInv, Phase
  <1>4. proc[c] = "none"
    BY <1>1 DEF IInv, NothingYet, Unacquired
  <1>5. /\ proc' \in [Cells -> Process] /\ proc'[c] \in {"none", "launcher"}
        /\ \A d \in Cells : d # c => proc'[d] = proc[d]
    <2>1. CASE AcquireAndSpawn(c)
      BY <2>1, ProcChanges DEF AcquireAndSpawn, IInv, Process
    <2>2. CASE PrepareFails(c)
      BY <2>2, <1>4 DEF PrepareFails, IInv, TypeOK
    <2> QED BY <2>1, <2>2
  <1>6. TypeOK'
    BY <1>1, <1>3, <1>5 DEF IInv, TypeOK, durable
  <1>7. st[c] \notin Early \cup {"START_FAILED", "LOST"}
    BY <1>1 DEF IInv, InStep
  <1>8. \A d \in Cells : exec[d] \notin PathKnown
    BY <1>1, CellsAssumption DEF IInv, Locked
  <1>9. InStep' /\ NothingYet'
    BY <1>1, <1>2, <1>3, <1>5, <1>7 DEF IInv, InStep, NothingYet, Unacquired, durable
  <1>10. InGroup' /\ ExitFirst' /\ VerdictIsTrue'
    BY <1>1, <1>2, <1>3, <1>5 DEF IInv, InGroup, ExitFirst, VerdictIsTrue, durable, Populated
  <1>11. Quiet' /\ Locked' /\ Evidence'
    BY <1>1, <1>2, <1>3, <1>8 DEF IInv, Quiet, Locked, Evidence, durable
  <1>12. HandleFirst' /\ Supervised'
    BY <1>1, <1>2, <1>3, <1>5 DEF IInv, HandleFirst, Supervised, durable
  <1>13. CancelSeen'
    BY <1>1, <1>2, <1>3 DEF IInv, CancelSeen, Calls, durable
  <1>14. OneCellPerKey'
    BY <1>1 DEF IInv, OneCellPerKey, durable
  <1> QED BY <1>6, <1>9, <1>10, <1>11, <1>12, <1>13, <1>14 DEF IInv

\* The process starts, inside its cgroup where there is one, or outside.
LEMMA AttachAndGoStep ==
  ASSUME IInv, NEW c \in Cells, AttachAndGo(c)
  PROVE  IInv'
  <1>1. /\ daemon = "up" /\ exec[c] = "spawned"
        /\ UNCHANGED <<durable, daemon, scan, aborted, lock, cancel, cgroup, history>>
    BY DEF AttachAndGo, Serving
  <1>2. /\ exec' \in [Cells -> Phase] /\ exec'[c] = "go"
        /\ \A d \in Cells : d # c => exec'[d] = exec[d]
    BY ExecMoves DEF AttachAndGo, IInv, Phase
  <1>3. PICK p \in {"stray", "attached"} :
          proc' = [proc EXCEPT ![c] = p] /\ (p = "attached" => c \in cgroup)
    BY DEF AttachAndGo
  <1>4. /\ proc' \in [Cells -> Process] /\ proc'[c] = p
        /\ \A d \in Cells : d # c => proc'[d] = proc[d]
    BY <1>3, ProcChanges DEF IInv, Process
  <1>5. TypeOK'
    BY <1>1, <1>2, <1>4 DEF IInv, TypeOK, durable
  <1>6. st[c] \notin Early \cup {"START_FAILED", "LOST"}
    BY <1>1 DEF IInv, InStep
  <1>7. InStep' /\ NothingYet'
    BY <1>1, <1>2, <1>4, <1>6 DEF IInv, InStep, NothingYet, Unacquired, durable
  <1>8. InGroup' /\ ExitFirst' /\ VerdictIsTrue'
    BY <1>1, <1>2, <1>3, <1>4, <1>6 DEF IInv, InGroup, ExitFirst, VerdictIsTrue, durable, Populated
  <1>9. Quiet' /\ Locked' /\ Evidence'
    BY <1>1, <1>2 DEF IInv, Quiet, Locked, PathKnown, Evidence, durable
  <1>10. HandleFirst' /\ Supervised'
    BY <1>1, <1>2, <1>4 DEF IInv, HandleFirst, Supervised, PathKnown, durable
  <1>11. CancelSeen'
    BY <1>1, <1>2 DEF IInv, CancelSeen, Calls, durable
  <1>12. OneCellPerKey'
    BY <1>1 DEF IInv, OneCellPerKey, durable
  <1> QED BY <1>5, <1>7, <1>8, <1>9, <1>10, <1>11, <1>12 DEF IInv

(***************************************************************************)
(* Crash, restart, recovery.                                               *)
(***************************************************************************)

\* A recovery gives a cell up only where nothing can live in its cgroup.
LEMMA RecoverCellStep ==
  ASSUME IInv, NEW c \in Cells, RecoverCell(c)
  PROVE  IInv'
  <1>1. /\ daemon = "recovering" /\ scan' \subseteq Cells
        /\ UNCHANGED <<idem, handle, runStatus, daemon, exec, aborted, lock, cancel, kernel, history>>
    BY DEF RecoverCell, IInv, TypeOK
  <1>2. \A d \in Cells : exec[d] = "idle"
    BY <1>1 DEF IInv, Quiet
  <1>3. /\ st' \in [Cells -> CellState]
        /\ \A d \in Cells : d # c => st'[d] = st[d]
        /\ st'[c] # st[c] => /\ st[c] # "none"
                             /\ st'[c] \notin Early \cup {"RUNNING"}
                             /\ st'[c] \in {"START_FAILED", "LOST"} => proc[c] # "attached"
        /\ receipts' \in [Cells -> SUBSET {"broker", "recovery"}]
        /\ \A d \in Cells : receipts[d] \subseteq receipts'[d]
    <2>0. st \in [Cells -> CellState] /\ receipts \in [Cells -> SUBSET {"broker", "recovery"}]
      BY DEF IInv, TypeOK
    <2>1. CASE /\ st[c] \in {"ACCEPTED", "POLICY_COMPILED"}
               /\ st' = Transition(st, c, "LOST", st[c]) /\ receipts' = receipts
      <3>1. proc[c] = "none"
        BY <2>1 DEF IInv, NothingYet, Early
      <3> QED BY <2>0, <2>1, <3>1, TransitionFacts DEF CellState, Early
    <2>2. CASE /\ st[c] = "RUNNING" /\ c \notin handle
               /\ st' = Transition(st, c, "LOST", "RUNNING") /\ receipts' = receipts
      <3>1. proc[c] # "attached"
        BY <2>2 DEF IInv, HandleFirst, InGroup, Populated
      <3> QED BY <2>0, <2>2, <3>1, TransitionFacts DEF CellState, Early
    <2>3. CASE /\ st[c] = "RUNNING" /\ c \in handle
               /\ \E v \in determineTakeover(c) : st' = Transition(st, c, AfterTakeover(v), "RUNNING")
               /\ receipts' = receipts
      <3>1. PICK v \in determineTakeover(c) : st' = Transition(st, c, AfterTakeover(v), "RUNNING")
        BY <2>3
      <3>2. /\ AfterTakeover(v) \in {"START_FAILED", "EXIT_OBSERVED", "RUNNING"}
            /\ AfterTakeover(v) = "START_FAILED" => c \notin cgroup
        BY <3>1 DEF determineTakeover, AfterTakeover
      <3>3. c \notin cgroup => proc[c] # "attached"
        BY DEF IInv, InGroup, Populated
      <3> QED BY <2>0, <2>3, <3>1, <3>2, <3>3, TransitionFacts DEF CellState, Early
    <2>4. CASE /\ st[c] = "EXIT_OBSERVED"
               /\ receipts' = [receipts EXCEPT ![c] = @ \cup {"recovery"}]
               /\ st' = Transition(st, c, "RECEIPT_COMMITTED", "EXIT_OBSERVED")
      BY <2>0, <2>4, TransitionFacts DEF CellState, Early
    <2>5. CASE st' = st /\ receipts' = receipts
      BY <2>0, <2>5
    <2> QED BY <2>1, <2>2, <2>3, <2>4, <2>5 DEF RecoverCell
  <1>4. TypeOK'
    BY <1>1, <1>3 DEF IInv, TypeOK, kernel
  <1>5. \A d \in Cells : Calm(d)
    BY <1>1, <1>2, <1>3 DEF Calm, kernel, Populated
  <1>6. Quiet' /\ Locked'
    BY <1>1 DEF IInv, Quiet, Locked
  <1> QED BY <1>1, <1>4, <1>5, <1>6, CancelKept, CalmStep DEF kernel

LEMMA ProcessEndsStep ==
  ASSUME IInv, NEW c \in Cells, ProcessEnds(c)
  PROVE  IInv'
  <1>1. UNCHANGED <<durable, memory, cgroup, history>>
    BY DEF ProcessEnds
  <1>2. /\ proc' \in [Cells -> Process] /\ proc'[c] = "none"
        /\ \A d \in Cells : d # c => proc'[d] = proc[d]
    BY ProcChanges DEF ProcessEnds, IInv, Process
  <1>3. TypeOK'
    BY <1>1, <1>2 DEF IInv, TypeOK, durable, memory
  <1>4. \A d \in Cells : Calm(d)
    BY <1>1, <1>2 DEF Calm, durable, memory, Populated
  <1>5. Quiet' /\ Locked'
    BY <1>1 DEF IInv, Quiet, Locked, memory
  <1> QED BY <1>1, <1>3, <1>4, <1>5, CancelKept, CalmStep DEF durable, memory

\* A crash forgets the executions, and with them who supervises whom.
LEMMA CrashStep ==
  ASSUME IInv, Crash
  PROVE  IInv'
  <1>1. /\ crashes' = crashes + 1 /\ crashes' \in 0..MaxCrash /\ crashes' # 0
        /\ daemon' = "down" /\ scan' = {} /\ exec' = [c \in Cells |-> "idle"]
        /\ aborted' = {} /\ lock' = None /\ cancel' = None
        /\ UNCHANGED <<durable, kernel, outlived>>
    BY CellsAssumption DEF Crash, IInv, TypeOK
  <1>2. exec' \in [Cells -> Phase] /\ \A c \in Cells : exec'[c] = "idle"
    BY <1>1 DEF Phase
  <1>3. TypeOK'
    BY <1>1, <1>2 DEF IInv, TypeOK, durable, kernel
  <1>4. Quiet' /\ Locked' /\ ExitFirst' /\ Evidence' /\ Supervised'
    BY <1>1, <1>2 DEF Quiet, Locked, ExitFirst, Evidence, Supervised, PathKnown
  <1>5. InStep' /\ NothingYet'
    BY <1>1, <1>2 DEF IInv, InStep, NothingYet, Unacquired, durable, kernel
  <1>6. InGroup' /\ HandleFirst' /\ VerdictIsTrue' /\ OneCellPerKey'
    BY <1>1, <1>2 DEF IInv, InGroup, HandleFirst, VerdictIsTrue, OneCellPerKey, Populated, durable, kernel
  <1>7. CancelSeen'
    BY <1>1, RunsAssumption DEF CancelSeen, Calls
  <1> QED BY <1>3, <1>4, <1>5, <1>6, <1>7 DEF IInv

\* Start-up and the opening of admission change no cell.
LEMMA DaemonStep ==
  ASSUME IInv, Restart \/ OpenAdmission \/ UNCHANGED vars
  PROVE  IInv'
  <1>1. UNCHANGED <<durable, exec, aborted, lock, cancel, kernel, history>>
    BY DEF Restart, OpenAdmission, vars, memory
  <1>2. /\ daemon' \in {"recovering", "up", daemon} /\ scan' \subseteq Cells
        /\ daemon' # "up" => daemon # "up"
    BY DEF Restart, OpenAdmission, vars, memory, IInv, TypeOK
  <1>3. TypeOK'
    BY <1>1, <1>2 DEF IInv, TypeOK, durable, kernel
  <1>4. \A c \in Cells : Calm(c)
    BY <1>1 DEF Calm, durable, kernel, Populated
  <1>5. Quiet'
    <2>1. CASE Restart \/ OpenAdmission
      BY <1>1, <1>2, <2>1 DEF IInv, Quiet, Restart, OpenAdmission
    <2>2. CASE UNCHANGED vars
      BY <1>1, <2>2 DEF IInv, Quiet, vars, memory
    <2> QED BY <2>1, <2>2
  <1>6. Locked'
    BY <1>1 DEF IInv, Locked
  <1> QED BY <1>1, <1>3, <1>4, <1>5, <1>6, CancelKept, CalmStep DEF durable, kernel

(***************************************************************************)
(* The invariant.                                                          *)
(***************************************************************************)
LEMMA InitInv ==
  ASSUME Init
  PROVE  IInv
  <1>1. TypeOK
    BY CellsAssumption DEF Init, TypeOK, CellState, Phase, Process
  <1>2. Quiet /\ InStep /\ Locked /\ ExitFirst /\ Evidence /\ Supervised
    BY DEF Init, Quiet, InStep, Locked, ExitFirst, Evidence, Supervised, PathKnown
  <1>3. NothingYet /\ InGroup /\ HandleFirst /\ VerdictIsTrue
    BY DEF Init, NothingYet, InGroup, HandleFirst, VerdictIsTrue, Populated
  <1>4. CancelSeen
    BY RunsAssumption DEF Init, CancelSeen, Calls
  <1>5. OneCellPerKey
    BY DEF Init, OneCellPerKey
  <1> QED BY <1>1, <1>2, <1>3, <1>4, <1>5 DEF IInv

LEMMA ExecuteStepInv ==
  ASSUME IInv, NEW c \in Cells, ExecuteStep(c)
  PROVE  IInv'
  BY RunCellStartStep, RecordHandleStep, AcquiredStep, AcquireFailsStep, AttachRefusedStep,
     AttachAndGoStep, SupervisionSteps, ExitEventStep, ReceiptEventStep, ReceiptFailsStep,
     CleanupAcquiredStep, FinishCellStep, FailCellStep, Zenon DEF ExecuteStep

LEMMA NextInv ==
  ASSUME IInv, [Next]_vars
  PROVE  IInv'
  <1>1. ASSUME NEW k \in Keys, NEW c \in Cells, SubmitRejected(k, c) \/ SubmitAccepted(k, c)
        PROVE  IInv'
    BY <1>1, SubmitStep
  <1>2. ASSUME NEW c \in Cells,
               \/ ExecuteStep(c) \/ CancelViaBroker(c) \/ killViaHandle(c)
               \/ RecoverCell(c) \/ ProcessEnds(c)
        PROVE  IInv'
    BY <1>2, ExecuteStepInv, CancelViaBrokerStep, KillViaHandleStep, RecoverCellStep, ProcessEndsStep, Zenon
  <1>3. ASSUME NEW r \in Runs, CancelRun(r) \/ CancelRunCommit(r) \/ CleanupRun(r)
        PROVE  IInv'
    BY <1>3, CancelRunStep, CancelRunCommitStep, CleanupRunStep, Zenon
  <1>4. CASE CancelPending \/ CancelCommit \/ Crash \/ Restart \/ OpenAdmission \/ UNCHANGED vars
    BY <1>4, CancelPendingStep, CancelCommitStep, CrashStep, DaemonStep, Zenon
  <1> QED BY <1>1, <1>2, <1>3, <1>4, Zenon DEF Next

LEMMA Invariant == Spec => []IInv
  BY InitInv, NextInv, PTL DEF Spec

(***************************************************************************)
(* Every state of the daemon, the store and the kernel is well formed.     *)
(***************************************************************************)
THEOREM TypeCorrect == Spec => []TypeOK
  <1>1. IInv => TypeOK
    BY DEF IInv
  <1> QED BY <1>1, Invariant, PTL

(***************************************************************************)
(* Idempotent submission (cell-manager.ts:134-141), for any number of      *)
(* keys, cells and crashes: a cell exists exactly when one key answers     *)
(* with it.                                                                *)
(***************************************************************************)
THEOREM Idempotent == Spec => []OneCellPerKey
  <1>1. IInv => OneCellPerKey
    BY DEF IInv
  <1> QED BY <1>1, Invariant, PTL

(***************************************************************************)
(* Honest verdicts (recovery.ts:66-83, handle.ts:70-72): no process runs   *)
(* in the cgroup of a cell recorded START_FAILED or LOST.                  *)
(***************************************************************************)
THEOREM HonestVerdicts == Spec => []VerdictIsTrue
  <1>1. IInv => VerdictIsTrue
    BY DEF IInv
  <1> QED BY <1>1, Invariant, PTL

(***************************************************************************)
(* A restart can find every running cell (recovery.ts:5-8): a process in   *)
(* the cgroup of a RUNNING cell has its handle stored.                     *)
(***************************************************************************)
THEOREM Anchored == Spec => []RunningCellIsAnchored
  <1>1. IInv => RunningCellIsAnchored
    BY DEF IInv, InGroup, HandleFirst, RunningCellIsAnchored
  <1> QED BY <1>1, Invariant, PTL

(***************************************************************************)
(* One writer (isolation-lock.ts:3-8, broker.ts:573-614): until a crash    *)
(* two processes run attached only if a clean-up tried to kill one of them *)
(* and failed, whatever the order of exits, cancellations and clean-ups    *)
(* and whichever other kills failed.                                       *)
(***************************************************************************)
THEOREM OneWriter == Spec => []OneWriterUntilCrash
  <1>1. IInv => OneWriterUntilCrash
    BY DEF IInv, Supervised, Locked, OneWriterUntilCrash
  <1> QED BY <1>1, Invariant, PTL

(***************************************************************************)
(* Verdicts are final: a property of steps.                                *)
(***************************************************************************)

\* What a step may do to the state of a cell.
Final(c) ==
  st'[c] # st[c] =>
    /\ st[c] \notin Terminal \/ (st[c] = "CANCELLED" /\ st'[c] = "CLEANED")
    /\ st'[c] = "CLEANED" => st[c] = "CANCELLED" \/ "broker" \in receipts[c]

\* A transition of the store to anything but CLEANED.
LEMMA TransitionIsFinal ==
  ASSUME IInv, NEW c \in Cells, NEW to \in CellState \ {"CLEANED"}, NEW from,
         st' = Transition(st, c, to, from)
  PROVE  \A d \in Cells : Final(d)
  <1>1. /\ \A d \in Cells : d # c => st'[d] = st[d]
        /\ st'[c] = st[c] \/ (st'[c] = to /\ st[c] \notin Terminal)
    BY TransitionFacts DEF IInv, TypeOK
  <1> QED BY <1>1 DEF Final

LEMMA ExecutionIsFinal ==
  ASSUME IInv, NEW c \in Cells, ExecuteStep(c)
  PROVE  \A d \in Cells : Final(d)
  <1>1. CASE RunCellStart(c)
    <2>1. st[c] = "ACCEPTED"
      BY <1>1 DEF RunCellStart, IInv, InStep
    <2> DEFINE compiled == Transition(st, c, "POLICY_COMPILED", "ACCEPTED")
    <2>2. /\ compiled \in [Cells -> CellState]
          /\ \A d \in Cells : d # c => compiled[d] = st[d]
          /\ compiled[c] = "POLICY_COMPILED"
      BY <2>1, TransitionFacts DEF IInv, TypeOK, CellState, Terminal
    <2>3. st' = Transition(compiled, c, "RUNNING", "POLICY_COMPILED")
      BY <1>1 DEF RunCellStart
    <2> HIDE DEF compiled
    <2>4. st'[c] = "RUNNING" /\ \A d \in Cells : d # c => st'[d] = compiled[d]
      BY <2>2, <2>3, TransitionFacts DEF CellState, Terminal
    <2> QED BY <2>1, <2>2, <2>4 DEF Final, Terminal
  <1>2. CASE ExitEvent(c) \/ ReceiptEvent(c)
    BY <1>2, TransitionIsFinal DEF ExitEvent, ReceiptEvent, CellState
  <1>3. CASE FinishCell(c)
    <2>1. CASE st[c] # "RECEIPT_COMMITTED"
      BY <1>3, <2>1 DEF FinishCell, Final
    <2>2. CASE st[c] = "RECEIPT_COMMITTED"
      <3>1. "broker" \in receipts[c]
        BY <1>3 DEF FinishCell, IInv, Evidence
      <3>2. \A d \in Cells : d # c => st'[d] = st[d]
        BY <1>3, <2>2 DEF FinishCell, Transition, IInv, TypeOK
      <3> QED BY <2>2, <3>1, <3>2 DEF Final, Terminal
    <2> QED BY <2>1, <2>2
  <1>4. CASE FailCell(c)
    <2>1. CASE st[c] = "RUNNING"
      BY <1>4, <2>1, TransitionIsFinal DEF FailCell, CellState
    <2>2. CASE st[c] # "RUNNING"
      BY <1>4, <2>2 DEF FailCell, Final
    <2> QED BY <2>1, <2>2
  <1>5. CASE st' = st
    BY <1>5 DEF Final
  <1>6. ~(RunCellStart(c) \/ ExitEvent(c) \/ ReceiptEvent(c) \/ FinishCell(c) \/ FailCell(c)) => st' = st
    BY DEF ExecuteStep, RecordHandle, AcquireAndSpawn, AcquireFails, PrepareFails, AttachRefused,
           AttachAndGo, LeaderExit, WallTimeout, AbortSeen, ReceiptFails, cleanupAcquired, durable
  <1> QED BY <1>1, <1>2, <1>3, <1>4, <1>5, <1>6

LEMMA RecoveryIsFinal ==
  ASSUME IInv, NEW c \in Cells, RecoverCell(c)
  PROVE  \A d \in Cells : Final(d)
  <1>1. CASE st' = st
    BY <1>1 DEF Final
  <1>2. CASE \E v \in determineTakeover(c) : st' = Transition(st, c, AfterTakeover(v), "RUNNING")
    <2>1. PICK v \in determineTakeover(c) : st' = Transition(st, c, AfterTakeover(v), "RUNNING")
      BY <1>2
    <2>2. AfterTakeover(v) \in CellState \ {"CLEANED"}
      BY DEF AfterTakeover, CellState
    <2> QED BY <2>1, <2>2, TransitionIsFinal
  <1>3. CASE \E to \in {"LOST", "RECEIPT_COMMITTED"}, from \in CellState : st' = Transition(st, c, to, from)
    BY <1>3, TransitionIsFinal DEF CellState
  <1>4. st[c] \in CellState
    BY DEF IInv, TypeOK
  <1> QED BY <1>1, <1>2, <1>3, <1>4 DEF RecoverCell, CellState

LEMMA CancellationIsFinal ==
  ASSUME IInv, CancelCommit \/ \E r \in Runs : CancelRunCommit(r) \/ CleanupRun(r)
  PROVE  \A d \in Cells : Final(d)
  <1>1. CASE CancelCommit
    <2>1. cancel.cell \in Cells
      BY <1>1 DEF CancelCommit
    <2> QED BY <1>1, <2>1, TransitionIsFinal DEF CancelCommit, CellState
  <1>2. ASSUME NEW r \in Runs, CancelRunCommit(r)
        PROVE  \A d \in Cells : Final(d)
    <2>1. \A c \in Cells : \/ Transition(st, c, "CANCELLED", st[c])[c] = st[c]
                           \/ /\ Transition(st, c, "CANCELLED", st[c])[c] = "CANCELLED"
                              /\ st[c] \notin Terminal
      BY TransitionFacts DEF IInv, TypeOK, CellState
    <2>2. st' = [c \in Cells |->
                   IF c \in Known(r) THEN Transition(st, c, "CANCELLED", st[c])[c] ELSE st[c]]
      BY <1>2 DEF CancelRunCommit
    <2> QED BY <2>1, <2>2 DEF Final
  <1>3. ASSUME NEW r \in Runs, CleanupRun(r)
        PROVE  \A d \in Cells : Final(d)
    <2>1. \A c \in Cells : \/ Transition(st, c, "CLEANED", "CANCELLED")[c] = st[c]
                           \/ /\ Transition(st, c, "CLEANED", "CANCELLED")[c] = "CLEANED"
                              /\ st[c] = "CANCELLED"
      BY TransitionFacts DEF IInv, TypeOK, CellState
    <2>2. st' = [c \in Cells |-> IF RunOf[c] = r THEN Transition(st, c, "CLEANED", "CANCELLED")[c] ELSE st[c]]
      BY <1>3 DEF CleanupRun
    <2> QED BY <2>1, <2>2 DEF Final
  <1> QED BY <1>1, <1>2, <1>3

LEMMA StepIsFinal ==
  ASSUME IInv, [Next]_vars
  PROVE  \A d \in Cells : Final(d)
  <1>1. ASSUME NEW k \in Keys, NEW c \in Cells, SubmitRejected(k, c) \/ SubmitAccepted(k, c)
        PROVE  \A d \in Cells : Final(d)
    BY <1>1 DEF SubmitRejected, SubmitAccepted, Fresh, Final, Terminal, IInv, TypeOK
  <1>2. ASSUME NEW c \in Cells, CancelViaBroker(c) \/ killViaHandle(c) \/ ProcessEnds(c)
        PROVE  \A d \in Cells : Final(d)
    BY <1>2 DEF CancelViaBroker, killViaHandle, ProcessEnds, durable, Final
  <1>3. CASE CancelPending \/ Crash \/ Restart \/ OpenAdmission \/ UNCHANGED vars \/ \E r \in Runs : CancelRun(r)
    BY <1>3 DEF CancelPending, Crash, Restart, OpenAdmission, CancelRun, vars, durable, Final
  <1> QED BY <1>1, <1>2, <1>3, ExecutionIsFinal, RecoveryIsFinal, CancellationIsFinal, Zenon DEF Next

(***************************************************************************)
(* Terminal states are final and CLEANED needs a cancellation or a receipt *)
(* of the broker (store.ts:374-378, cell-manager.ts:280-287), in every     *)
(* step of the daemon and of its recovery.                                 *)
(***************************************************************************)
THEOREM FinalVerdicts == Spec => VerdictsAreFinal
  <1>1. IInv /\ [Next]_vars => [\A c \in Cells : Final(c)]_vars
    BY StepIsFinal
  <1>2. Spec => [][\A c \in Cells : Final(c)]_vars
    BY <1>1, Invariant, PTL DEF Spec
  <1> QED BY <1>2 DEF VerdictsAreFinal, Final

=============================================================================
