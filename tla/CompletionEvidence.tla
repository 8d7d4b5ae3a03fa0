------------------------- MODULE CompletionEvidence -------------------------
(***************************************************************************)
(* When may an agent run claim that its work is done?  The state of one    *)
(* run that decides it: the write generation and the unmanaged writes      *)
(* (file-state/runtime-file-state.ts), the committed-transaction binding   *)
(* (agent/patch-transaction.ts), the tool batch that stamps verification   *)
(* results (agent/tool-execution/batch-executor.ts), the evidence ledger   *)
(* and the completion gates (agent/evidence-ledger.ts,                     *)
(* agent/completion-orchestrator.ts).  The tools of a run are executed one *)
(* after the other; what a write transaction does to the files is the      *)
(* subject of PatchTransaction, here only its outcomes count.              *)
(*                                                                         *)
(* One evidence kind, typecheck, is modelled: it is the one a run without  *)
(* a tracker needs and the one the batch tsc also produces.  A tracker may *)
(* require typecheck, other kinds only, or none at all; what the gate asks *)
(* of the other kinds is left open.  Of the ledger only the latest entry   *)
(* of a kind is ever consulted, so that entry is kept; entries are never   *)
(* marked stale, since nothing in a run calls refreshArtifactFreshness.    *)
(* The hash chain that names a transaction history is injective  *)
(* and grows by one link at a time: a history is named by the session of   *)
(* the run and the number of links.                                        *)
(***************************************************************************)
EXTENDS Integers, FiniteSets

CONSTANTS Files,
          MaxGen,      \* bound on the write generation at which calls start
          MaxResume    \* bound on the resumptions of the run

ASSUME BoundAssumption == MaxGen \in Nat /\ MaxResume \in Nat

\* the files of a workspace
ASSUME FilesAssumption == IsFiniteSet(Files)

VARIABLES
  tracker,    \* the TaskTracker: none, or does it require typecheck evidence?
  undone,     \* it has steps not done, or required files missing
  call,       \* the paths of the open write transaction, {} between calls
  renamed,    \* how many of them are renamed into place
  gen,        \* writeGeneration
  session,    \* how often the run was resumed
  count,      \* transactionCount of the committed-transaction history
  unmanaged,  \* unmanagedWriteObserved
  uncovered,  \* unmanagedWritePaths
  covered,    \* unmanagedWritesCovered
  hadWrite,   \* execution.taskHadWrite
  modified,   \* modifiedFilesThisRound is not empty
  pending,    \* the last verification result of the round, stamped
  latest,     \* the latest typecheck entry of the evidence ledger
  done,       \* the run has claimed completion and a gate let it
  accepted,   \* history: the latest entry when the gate let it
  wrote,      \* history: the run changed a file
  blind       \* history: a change that the counters do not count, or entries
              \* and changes of an earlier session

task == <<tracker, undone>>
outcome == <<done, accepted>>
fileState == <<gen, unmanaged, uncovered, covered>>
history == <<session, count>>
round == <<hadWrite, modified>>
ghosts == <<wrote, blind>>
vars == <<task, call, renamed, fileState, history, round, pending, latest, outcome, ghosts>>

NoBinding == <<0, 0>>

\* `clean' is history: the run has not changed a file since the entry was
\* collected.  `tool': collected by a verification tool, not the batch tsc.
Entries == [passed : BOOLEAN, gen : Int, bind : Nat \X Nat, clean : BOOLEAN, tool : BOOLEAN]

NoEntry == [passed |-> FALSE, gen |-> -1, bind |-> NoBinding, clean |-> FALSE, tool |-> FALSE]

\* Nothing but its failure is ever asked of an entry that did not pass: when
\* the batch tsc fails it is as if there were no entry.
Entry(passed, bind, tool) ==
  IF passed THEN [passed |-> TRUE, gen |-> gen, bind |-> bind, clean |-> TRUE, tool |-> tool]
  ELSE [NoEntry EXCEPT !.tool = tool]

Trackers == {"none", "typecheck", "other"}

\* Whether the steps of a tracker may be undone.
Undone(t) == IF t = "none" THEN {FALSE} ELSE BOOLEAN

TypeOK ==
  /\ tracker \in Trackers /\ undone \in Undone(tracker)
  /\ call \subseteq Files /\ renamed \in 0..Cardinality(call)
  /\ gen \in Nat /\ session \in 0..MaxResume /\ count \in Nat
  /\ uncovered \subseteq Files
  /\ unmanaged \in BOOLEAN /\ covered \in BOOLEAN
  /\ hadWrite \in BOOLEAN /\ modified \in BOOLEAN /\ done \in BOOLEAN
  /\ wrote \in BOOLEAN /\ blind \in BOOLEAN
  /\ pending \in Entries /\ latest \in Entries /\ accepted \in Entries
  /\ uncovered # {} => unmanaged

Init ==
  /\ tracker \in Trackers /\ undone \in Undone(tracker)
  /\ call = {} /\ renamed = 0
  /\ gen = 0 /\ session = 0 /\ count = 0
  /\ unmanaged = FALSE /\ uncovered = {} /\ covered = FALSE
  /\ hadWrite = FALSE /\ modified = FALSE
  /\ pending = NoEntry /\ latest = NoEntry
  /\ done = FALSE /\ accepted = NoEntry
  /\ wrote = FALSE /\ blind = FALSE

\* currentTransactionEvidenceBinding: none once an unmanaged write was seen.
Binding == IF unmanaged \/ count = 0 THEN NoBinding ELSE <<session, count>>

\* History: this step changes the workspace, or is recorded as if it did.
Unclean ==
  /\ pending' = [pending EXCEPT !.clean = FALSE]
  /\ latest' = [latest EXCEPT !.clean = FALSE]

Changed == Unclean /\ wrote' = TRUE

BetweenCalls == ~done /\ call = {}

\* A call that writes may start.
MayWrite == BetweenCalls /\ gen < MaxGen

(***************************************************************************)
(* write_file, edit_file, multi_edit: one write transaction.               *)
(***************************************************************************)

\* The transaction is staged and verified.
BeginCommit ==
  /\ MayWrite
  /\ \E fs \in (SUBSET Files) \ {{}} : call' = fs
  /\ renamed' = 0
  /\ UNCHANGED <<task, fileState, history, round, pending, latest, outcome, ghosts>>

\* One rename; the last one appends the transaction to the history.
RenameOne ==
  /\ renamed < Cardinality(call)
  /\ renamed' = renamed + 1
  /\ count' = IF renamed' = Cardinality(call) THEN count + 1 ELSE count
  /\ Changed
  /\ UNCHANGED <<task, call, session, fileState, round, outcome, blind>>

\* The tool returns: recordRuntimeFileWrite for every path, then the batch
\* executor's flags; when the binding could not advance because the run has
\* unmanaged writes, the write is one more of those.
FinishWrite ==
  /\ call # {} /\ renamed = Cardinality(call)
  /\ call' = {} /\ renamed' = 0
  /\ hadWrite' = TRUE /\ modified' = TRUE
  /\ gen' = gen + renamed + (IF unmanaged THEN 1 ELSE 0)
  /\ uncovered' = IF unmanaged THEN uncovered \cup call ELSE uncovered
  /\ covered' = (covered /\ ~unmanaged)
  /\ UNCHANGED <<task, unmanaged, history, pending, latest, outcome, ghosts>>

\* rollbackCommittedTransaction(Paths): the generation and the history move.
Reverted ==
  /\ Changed
  /\ gen' = gen + 1 /\ count' = count + 1
  /\ UNCHANGED blind

\* The revert throws: applyAndCommit swallows that and nothing is recorded.
RevertThrows ==
  /\ Changed
  /\ blind' = TRUE
  /\ UNCHANGED <<gen, count>>

\* The commit throws before its last rename.  A conflict with no file renamed
\* reverts nothing; after a rename, or for any other error, files are reverted.
CommitFails ==
  /\ renamed < Cardinality(call)
  /\ \/ renamed = 0 /\ UNCHANGED <<gen, count, pending, latest, ghosts>>
     \/ Reverted
     \/ RevertThrows
  /\ call' = {} /\ renamed' = 0
  /\ UNCHANGED <<task, unmanaged, uncovered, covered, session, round, outcome>>

(***************************************************************************)
(* The other calls that write.                                             *)
(***************************************************************************)

\* rollback_transaction: it reports the paths it changed as written; it is
\* recorded even when there is nothing to restore or delete.
RollbackTool ==
  /\ MayWrite
  /\ \/ Reverted /\ hadWrite' = TRUE /\ modified' = TRUE
     \/ Unclean /\ gen' = gen + 1 /\ count' = count + 1 /\ UNCHANGED <<round, ghosts>>
     \/ RevertThrows /\ UNCHANGED round
  /\ UNCHANGED <<task, call, renamed, unmanaged, uncovered, covered, session, outcome>>

\* A shell command writes files and the sandbox diff sees them:
\* recordRuntimeObservedWrites.
Shell ==
  /\ MayWrite
  /\ \E fs \in (SUBSET Files) \ {{}} : uncovered' = uncovered \cup fs
  /\ gen' = gen + 1
  /\ unmanaged' = TRUE
  /\ covered' = FALSE
  /\ Changed
  /\ UNCHANGED <<task, call, renamed, history, round, outcome, blind>>

\* apply_patch writes a file and tells nobody: no generation, no history, and
\* its result has no path that the batch executor looks at.
ApplyPatch ==
  /\ MayWrite
  /\ Changed
  /\ blind' = TRUE
  /\ UNCHANGED <<task, call, renamed, fileState, history, round, outcome>>

(***************************************************************************)
(* Verification and the round.                                             *)
(***************************************************************************)

\* A verification tool ran: the batch executor stamps its result with the
\* generation and the binding of that moment.
Verify ==
  /\ BetweenCalls
  /\ \E ok \in BOOLEAN : pending' = Entry(ok, Binding, TRUE)
  /\ UNCHANGED <<task, call, renamed, fileState, history, round, latest, outcome, ghosts>>

\* recordVerificationCoverage after a passing run_targeted_verification.
Cover ==
  /\ BetweenCalls
  /\ uncovered # {}
  /\ \E fs \in (SUBSET Files) \ {{}} : uncovered' = uncovered \ fs
  /\ covered' = (covered \/ uncovered' = {})
  /\ UNCHANGED <<task, call, renamed, gen, unmanaged, history, round, pending, latest, outcome, ghosts>>

\* Fault: results are stamped when they are ingested.
IngestedStampedLate ==
  IF pending = NoEntry THEN latest
  ELSE [pending EXCEPT !.gen = gen, !.bind = Binding]

\* Fault: the binding of the results is lost on the way into the ledger.
IngestedUnbound ==
  IF pending = NoEntry THEN latest ELSE [pending EXCEPT !.bind = NoBinding]

\* bindVerificationToLedger: the round's last result is the latest entry.
Ingested == IF pending = NoEntry THEN latest ELSE pending

\* hasFreshPassingEvidence on the latest entry.
hasFreshPassingEvidence(entry, required) ==
  /\ entry.passed
  /\ entry.gen = gen
  /\ required => Binding # NoBinding
  /\ Binding # NoBinding => entry.bind = Binding

\* shouldRequireEvidenceBinding.
RequireBinding == (hadWrite \/ gen > 0) /\ ~(covered /\ uncovered = {})

\* evaluateEvidenceGate: a run without a tracker needs evidence only when the
\* batch executor saw it write, a tracked one only what its tracker names.
NeedsTypecheck == tracker = "typecheck" \/ (tracker = "none" /\ hadWrite)

\* canClaimDone.
EvidenceGate ==
  /\ ~undone
  /\ NeedsTypecheck => hasFreshPassingEvidence(latest, RequireBinding)

\* After the last tool of a round the results are ingested; after writes of
\* TypeScript the batch tsc runs, stamped with a generation but no binding.
AfterTools ==
  \/ latest' = Ingested
  \/ modified /\ \E ok \in BOOLEAN : latest' = Entry(ok, NoBinding, FALSE)

\* The round ends with updateTaskTrackerAfterTools and another one follows.
EndRound ==
  /\ BetweenCalls
  /\ pending # NoEntry \/ modified
  /\ AfterTools
  /\ pending' = NoEntry
  /\ modified' = FALSE
  /\ undone' \in Undone(tracker)
  /\ UNCHANGED <<tracker, call, renamed, fileState, history, hadWrite, outcome, ghosts>>

\* checkNarrowEditCompletion accepts what was ingested and leaves a completion
\* text; the batch tsc still runs, and whatever it says the text ends the run
\* unless the tracker misses something.
NarrowFinish ==
  /\ BetweenCalls
  /\ modified /\ ~undone
  /\ hasFreshPassingEvidence(Ingested, hadWrite \/ gen > 0)
  /\ accepted' = Ingested
  /\ AfterTools
  /\ pending' = NoEntry
  /\ done' = TRUE
  /\ UNCHANGED <<task, call, renamed, fileState, history, round, ghosts>>

\* The model ends its turn without a tool call and the gate lets it.
Claim ==
  /\ BetweenCalls
  /\ pending = NoEntry /\ ~modified
  /\ EvidenceGate
  /\ accepted' = latest
  /\ done' = TRUE
  /\ UNCHANGED <<task, call, renamed, fileState, history, round, pending, latest, ghosts>>

\* A master plan is opened, or its next node becomes the current one: the
\* tracker is the node's, with its own steps and kinds.
SwapTracker ==
  /\ BetweenCalls
  /\ pending = NoEntry /\ ~modified
  /\ tracker # "none"
  /\ tracker' \in {"typecheck", "other"}
  /\ undone' = TRUE
  /\ UNCHANGED <<call, renamed, fileState, history, round, pending, latest, outcome, ghosts>>

\* Fault: the paths of the unmanaged writes outlive their context.
NewFileStateKeepsPaths ==
  gen' = 0 /\ unmanaged' = FALSE /\ UNCHANGED uncovered /\ covered' = FALSE

\* createRuntimeFileStateContext.
NewFileState ==
  gen' = 0 /\ unmanaged' = FALSE /\ uncovered' = {} /\ covered' = FALSE

\* The run waits for an answer and is resumed.  The new loop has a new file
\* state, transaction history and task state; the evidence ledger is the run's.
\* A tracker rebuilt from a checkpoint may have lost its kinds.
Resume ==
  /\ BetweenCalls
  /\ pending = NoEntry /\ ~modified
  /\ session < MaxResume
  /\ session' = session + 1
  /\ NewFileState
  /\ count' = 0
  /\ hadWrite' = FALSE
  /\ blind' = (blind \/ wrote \/ latest # NoEntry)
  /\ tracker' \in {tracker, IF tracker = "none" THEN "none" ELSE "other"}
  /\ undone' \in Undone(tracker')
  /\ UNCHANGED <<call, renamed, modified, pending, latest, outcome, wrote>>

Next ==
  \/ Shell \/ ApplyPatch \/ RollbackTool
  \/ BeginCommit \/ RenameOne \/ FinishWrite \/ CommitFails
  \/ Verify \/ Cover \/ EndRound \/ NarrowFinish \/ Claim \/ SwapTracker \/ Resume

Spec == Init /\ [][Next]_vars

(***************************************************************************)
(* Properties.                                                             *)
(***************************************************************************)

\* A run whose gate needs typecheck evidence is done only after a gate accepted
\* a passing verification collected after the run's last own change of a file:
\* commit, partial commit, revert, rollback or shell write (canClaimDone).  That
\* is still the latest word on the files, except that a narrow edit also ends
\* when the batch tsc of its last round fails (checkNarrowEditCompletion).  Not
\* covered are changes that no counter sees and the evidence of an earlier
\* session (`blind').
DoneIsVerified ==
  done /\ NeedsTypecheck /\ ~blind =>
    /\ accepted.passed /\ accepted.clean
    /\ latest = accepted \/ (modified /\ ~latest.tool)

\* The gate is not stricter than the work: in a run without unmanaged writes a
\* passing verification with no change after it opens the gate, whatever
\* conflicts, reverts and rollbacks came before, unless the tracker's steps or
\* files are missing (evaluateEvidenceGate).
FreshVerificationSuffices ==
  call = {} /\ ~undone /\ ~unmanaged /\ ~blind /\ latest.passed /\ latest.clean /\ latest.tool
    => EvidenceGate
=============================================================================
