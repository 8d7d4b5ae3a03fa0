-------------------------- MODULE PatchTransaction --------------------------
(***************************************************************************)
(* The transactional write layer of the file tools (write_file, edit_file, *)
(* multi_edit): agent/patch-transaction.ts, tools/transaction.ts, the      *)
(* freshness approval in front of it (file-state/) and the ways around it  *)
(* (apply_patch, shell commands, writes from outside the process).         *)
(*                                                                         *)
(* Several agent runs of one process share the workspace.  JavaScript runs *)
(* one of them at a time: `loop' is the run inside a synchronous section,  *)
(* and nothing of the process interleaves with it, but other processes do. *)
(* The runs in `Runs' are followed step by step; all that a followed run   *)
(* can notice of another one is that files change outside its own          *)
(* synchronous sections, which is what Peer does.                          *)
(* File contents are version numbers: two contents are equal when their    *)
(* numbers are, and so are their hashes.                                   *)
(***************************************************************************)
EXTENDS Integers, Sequences, FiniteSets

CONSTANTS Runs, Files,
          NoOne,        \* nobody of this process: the user, another program
          Peer,         \* runs of this process whose own steps are not followed
          MaxVersion    \* bound on the contents ever written

ASSUME NoOneAssumption == NoOne \notin Runs /\ Peer \notin Runs /\ NoOne # Peer
ASSUME MaxVersionAssumption == MaxVersion \in Nat /\ MaxVersion >= 1

Absent == 0
Content == 0..MaxVersion

(***************************************************************************)
(* What the file-state ledger of a run knows of a file: nothing, a part of *)
(* it (a ranged read, or one cut at the byte limit), or a record of the    *)
(* whole range with the hash of the content: "full" (read in full, or      *)
(* written), "truncated" (a long file, answered with an analysis of its    *)
(* structure) or "unmarked": truncated, until a failed check overwrote the *)
(* status.                                                                 *)
(***************************************************************************)
NoRecord == [kind |-> "none", hash |-> Absent]
Part == [kind |-> "part", hash |-> Absent]
Record(kind, content) == [kind |-> kind, hash |-> content]
Baseline == {NoRecord, Part} \cup [kind : {"full", "truncated", "unmarked"}, hash : Content \ {Absent}]

\* write_file and edit_file name one path, multi_edit may name several.
Targets == {<<f>> : f \in Files} \cup {<<p[1], p[2]>> : p \in {q \in Files \X Files : q[1] # q[2]}}

\* Phases of a file tool call; the PatchState of the transaction is proposed
\* until "staged" (verified), and committed or rolled_back after it.
Phase == {"idle", "approving", "approved", "staged", "checked", "restoring", "committed"}

VARIABLES
  disk,       \* the workspace: the content of every file
  ver,        \* the last version number given out
  baseline,   \* FileStateLedger of each run
  phase,      \* where each run is in its tool call
  tx,         \* the tool call's transaction
  temp,       \* runs whose .orcana/patches/<txId> directory exists
  store,      \* .orcana/transactions: the snapshot of each run's last transaction
              \* (bound: the older ones, which no step deletes, are left out)
  loop,       \* the run in a synchronous section, or NoOne
  owner       \* history: which run wrote the content of a file

vars == <<disk, ver, baseline, phase, tx, temp, store, loop, owner>>

NoTx == [tool |-> "edit", paths |-> <<>>, base |-> [f \in Files |-> Absent],
         version |-> 0, seen |-> {}, done |-> 0, undo |-> {}, why |-> "none"]

NoSnapshot == [paths |-> <<>>, base |-> [f \in Files |-> Absent]]

PathsOf(t) == {t.paths[i] : i \in 1..Len(t.paths)}
Prefix(paths, n) == {paths[i] : i \in 1..n}

Init ==
  /\ disk \in [Files -> {Absent, 1}]
  /\ ver = 1
  /\ baseline = [r \in Runs |-> [f \in Files |-> NoRecord]]
  /\ phase = [r \in Runs |-> "idle"]
  /\ tx = [r \in Runs |-> NoTx]
  /\ temp = {}
  /\ store = [r \in Runs |-> NoSnapshot]
  /\ loop = NoOne
  /\ owner = [f \in Files |-> NoOne]

\* r may run: no other run is inside a synchronous section.
MayRun(r) == loop \in {r, NoOne}

(***************************************************************************)
(* Reading and approval.                                                   *)
(***************************************************************************)

\* Fault: a read that found no file is recorded.
ReadFileMissing(r, f, kind) ==
  /\ phase[r] = "idle"
  /\ MayRun(r)
  /\ baseline' = [baseline EXCEPT ![r][f] = IF kind = "part" THEN Part ELSE Record(kind, disk[f])]
  /\ UNCHANGED <<disk, ver, phase, tx, temp, store, loop, owner>>

\* read_file: a full read is a baseline for edits, a ranged one and the analysis
\* of a long file are not.
ReadFile(r, f, kind) ==
  /\ phase[r] = "idle"
  /\ MayRun(r)
  /\ disk[f] # Absent
  /\ baseline' = [baseline EXCEPT ![r][f] = IF kind = "part" THEN Part ELSE Record(kind, disk[f])]
  /\ UNCHANGED <<disk, ver, phase, tx, temp, store, loop, owner>>

\* The model calls a file tool: the contract's freshness check begins.
BeginWrite(r, tool, paths) ==
  /\ phase[r] = "idle"
  /\ MayRun(r)
  /\ tool = "write" => Len(paths) = 1
  /\ phase' = [phase EXCEPT ![r] = "approving"]
  /\ tx' = [tx EXCEPT ![r] = [NoTx EXCEPT !.tool = tool, !.paths = paths]]
  /\ UNCHANGED <<disk, ver, baseline, temp, store, loop, owner>>

\* A target is created only when the ledger knows nothing of it.
Creates(r, f) == tx[r].tool = "write" /\ disk[f] = Absent /\ baseline[r][f] = NoRecord

\* checkFresh of a record against the content on disk, as the record it writes
\* back: a mismatch turns any status into stale or deleted, a later match turns
\* these into fresh, and so the mark of a truncated read is lost.
checkFresh(record, content) ==
  IF record.kind = "truncated" /\ record.hash # content
  THEN Record("unmarked", record.hash)
  ELSE record

\* Fault: the baseline is not compared with what is on disk.
validateFreshnessUnchecked(r, f) ==
  \/ Creates(r, f)
  \/ disk[f] # Absent /\ baseline[r][f].kind \in {"full", "unmarked"}

\* validateFreshnessForEdit: what is not created needs a record of the whole
\* range that is not marked truncated, with the hash of the content on disk.
validateFreshness(r, f) ==
  \/ Creates(r, f)
  \/ disk[f] # Absent /\ baseline[r][f].kind \in {"full", "unmarked"} /\ baseline[r][f].hash = disk[f]

\* One target of validateToolContractFreshness, which reads them in parallel:
\* its content is snapshotted and becomes the approved base of the write, or the
\* call is refused.  The check is written back to the ledger either way.
Snapshot(r, f) ==
  /\ phase[r] = "approving"
  /\ MayRun(r)
  /\ f \in PathsOf(tx[r]) \ tx[r].seen
  /\ IF validateFreshness(r, f)
     THEN LET all == tx[r].seen \cup {f} = PathsOf(tx[r]) IN
          /\ tx' = [tx EXCEPT ![r].base[f] = disk[f],
                              ![r].seen = IF all THEN {} ELSE @ \cup {f}]
          /\ phase' = [phase EXCEPT ![r] = IF all THEN "approved" ELSE @]
     ELSE /\ phase' = [phase EXCEPT ![r] = "idle"]
          /\ tx' = [tx EXCEPT ![r] = NoTx]
  /\ baseline' = [baseline EXCEPT ![r][f] = checkFresh(@, disk[f])]
  /\ UNCHANGED <<disk, ver, temp, store, loop, owner>>

(***************************************************************************)
(* The transaction.                                                        *)
(***************************************************************************)

\* The tool refuses after the approval: old_string not found, a ripple block,
\* a forbidden path, or a target of a create that exists by now.
Refuse(r) ==
  /\ phase[r] = "approved"
  /\ MayRun(r)
  /\ phase' = [phase EXCEPT ![r] = "idle"]
  /\ tx' = [tx EXCEPT ![r] = NoTx]
  /\ UNCHANGED <<disk, ver, baseline, temp, store, loop, owner>>

\* initManagedTransaction persists the approved contents as the rollback
\* snapshot of the transaction.
SavedSnapshot(r) == [paths |-> tx[r].paths, base |-> tx[r].base]

\* revalidateApprovedSnapshot: a created file must still be absent.
StillAbsent(r) ==
  \A f \in PathsOf(tx[r]) : tx[r].base[f] = Absent => disk[f] = Absent

\* initManagedTransaction and applyToTemp, up to the await of verify (which
\* every file tool answers with true).
Stage(r) ==
  /\ phase[r] = "approved"
  /\ MayRun(r)
  /\ ver < MaxVersion
  /\ StillAbsent(r)
  /\ ver' = ver + 1
  /\ tx' = [tx EXCEPT ![r].version = ver + 1]
  /\ store' = [store EXCEPT ![r] = SavedSnapshot(r)]
  /\ temp' = temp \cup {r}
  /\ phase' = [phase EXCEPT ![r] = "staged"]
  /\ UNCHANGED <<disk, baseline, loop, owner>>

\* applyToTemp throws: applyAndCommit reverts every path of the transaction.
StageFails(r) ==
  /\ phase[r] = "approved"
  /\ MayRun(r)
  /\ StillAbsent(r)
  /\ store' = [store EXCEPT ![r] = SavedSnapshot(r)]
  /\ temp' = temp \cup {r}
  /\ tx' = [tx EXCEPT ![r].undo = PathsOf(tx[r]), ![r].why = "error"]
  /\ loop' = r
  /\ phase' = [phase EXCEPT ![r] = "restoring"]
  /\ UNCHANGED <<disk, ver, baseline, owner>>

\* Fault: a conflict undoes every path, the ones not yet committed too.
UndoAfterConflictAll(r) == PathsOf(tx[r])

\* applyAndCommit after a conflict error: the first committedCount paths.
UndoAfterConflict(r) == Prefix(tx[r].paths, tx[r].done)

\* The rest of applyAndCommit for a transaction that does not commit: with
\* nothing to revert, rollbackManagedTransaction removes the temp directory
\* and the error reaches the tool's caller.
Abandon(r, undo, why) ==
  IF undo = {}
  THEN /\ temp' = temp \ {r}
       /\ phase' = [phase EXCEPT ![r] = "idle"]
       /\ tx' = [tx EXCEPT ![r] = NoTx]
       /\ loop' = NoOne
  ELSE /\ tx' = [tx EXCEPT ![r].undo = undo, ![r].why = why]
       /\ phase' = [phase EXCEPT ![r] = "restoring"]
       /\ loop' = r
       /\ UNCHANGED temp

\* Fault: the synchronous section ends between the check and the rename.
CheckYields(r) ==
  LET f == tx[r].paths[tx[r].done + 1] IN
  /\ phase[r] = "staged"
  /\ MayRun(r)
  /\ IF disk[f] = tx[r].base[f]
     THEN /\ phase' = [phase EXCEPT ![r] = "checked"]
          /\ loop' = NoOne
          /\ UNCHANGED <<tx, temp>>
     ELSE Abandon(r, UndoAfterConflict(r), "conflict")
  /\ UNCHANGED <<disk, ver, baseline, store, owner>>

\* checkBaseHash of the next file, the last check before its rename.
Check(r) ==
  LET f == tx[r].paths[tx[r].done + 1] IN
  /\ phase[r] = "staged"
  /\ MayRun(r)
  /\ IF disk[f] = tx[r].base[f]
     THEN /\ phase' = [phase EXCEPT ![r] = "checked"]
          /\ loop' = r
          /\ UNCHANGED <<tx, temp>>
     ELSE Abandon(r, UndoAfterConflict(r), "conflict")
  /\ UNCHANGED <<disk, ver, baseline, store, owner>>

\* PatchPathConflictError: the path boundary of the next file changed.
PathConflict(r) ==
  /\ phase[r] = "staged"
  /\ MayRun(r)
  /\ Abandon(r, UndoAfterConflict(r), "conflict")
  /\ UNCHANGED <<disk, ver, baseline, store, owner>>

\* Any other error of the commit (temp file missing, mkdir or rename fails):
\* applyAndCommit reverts every path of the transaction.
CommitFails(r) ==
  /\ phase[r] \in {"staged", "checked"}
  /\ MayRun(r)
  /\ Abandon(r, PathsOf(tx[r]), "error")
  /\ UNCHANGED <<disk, ver, baseline, store, owner>>

\* Rename is the last one of the commit.
LastRename(r) == tx[r].done + 1 = Len(tx[r].paths)

\* renameSync of one file; after the last one the temp directory is removed
\* and the transaction is committed.
Rename(r) ==
  LET f == tx[r].paths[tx[r].done + 1] IN
  /\ phase[r] = "checked"
  /\ MayRun(r)
  /\ disk' = [disk EXCEPT ![f] = tx[r].version]
  /\ owner' = [owner EXCEPT ![f] = r]
  /\ tx' = [tx EXCEPT ![r].done = @ + 1]
  /\ IF LastRename(r)
     THEN /\ phase' = [phase EXCEPT ![r] = "committed"]
          /\ temp' = temp \ {r}
          /\ loop' = NoOne
     ELSE /\ phase' = [phase EXCEPT ![r] = "staged"]
          /\ UNCHANGED <<temp, loop>>
  /\ UNCHANGED <<ver, baseline, store>>

\* recordRuntimeFileWrite for every path: what was written is the baseline.
RecordWrite(r) ==
  /\ phase[r] = "committed"
  /\ MayRun(r)
  /\ baseline' = [baseline EXCEPT ![r] =
                    [f \in Files |-> IF f \in PathsOf(tx[r]) THEN Record("full", tx[r].version) ELSE @[f]]]
  /\ phase' = [phase EXCEPT ![r] = "idle"]
  /\ tx' = [tx EXCEPT ![r] = NoTx]
  /\ UNCHANGED <<disk, ver, temp, store, loop, owner>>

(***************************************************************************)
(* Reverting.                                                              *)
(***************************************************************************)

\* rollbackSnapshots: write the saved content back, or delete what did not
\* exist; no look at what the file holds now.
rollbackSnapshots(r, base, fs) ==
  /\ disk' = [f \in Files |-> IF f \in fs THEN base[f] ELSE disk[f]]
  /\ owner' = [f \in Files |-> IF f \in fs THEN r ELSE owner[f]]

\* The catch block of applyAndCommit: revert, then rollbackManagedTransaction.
Restore(r) ==
  /\ phase[r] = "restoring"
  /\ MayRun(r)
  /\ rollbackSnapshots(r, tx[r].base, tx[r].undo)
  /\ temp' = temp \ {r}
  /\ phase' = [phase EXCEPT ![r] = "idle"]
  /\ tx' = [tx EXCEPT ![r] = NoTx]
  /\ loop' = NoOne
  /\ UNCHANGED <<ver, baseline, store>>

\* The revert throws after n of the paths and the error is swallowed.
RestoreFails(r, n) ==
  /\ phase[r] = "restoring"
  /\ MayRun(r)
  /\ n < Len(tx[r].paths)
  /\ ~(tx[r].undo \subseteq Prefix(tx[r].paths, n))
  /\ rollbackSnapshots(r, tx[r].base, tx[r].undo \cap Prefix(tx[r].paths, n))
  /\ temp' = temp \ {r}
  /\ phase' = [phase EXCEPT ![r] = "idle"]
  /\ tx' = [tx EXCEPT ![r] = NoTx]
  /\ loop' = NoOne
  /\ UNCHANGED <<ver, baseline, store>>

\* The rollback_transaction tool: a stored transaction, the first n of its
\* paths when the revert throws there.  The ledger is not told.
RollbackTool(r, s, n) ==
  /\ phase[r] = "idle"
  /\ MayRun(r)
  /\ rollbackSnapshots(r, s.base, Prefix(s.paths, n))
  /\ UNCHANGED <<ver, baseline, phase, tx, temp, store, loop>>

(***************************************************************************)
(* Writes that bypass the transaction.                                     *)
(***************************************************************************)

\* apply_patch: hunks are applied to what is on disk and renamed over it; a
\* shell command of the run writes in the same way, without a transaction.
DirectWrite(r, fs) ==
  /\ phase[r] = "idle"
  /\ MayRun(r)
  /\ ver < MaxVersion
  /\ ver' = ver + 1
  /\ disk' = [f \in Files |-> IF f \in fs THEN ver + 1 ELSE disk[f]]
  /\ owner' = [f \in Files |-> IF f \in fs THEN r ELSE owner[f]]
  /\ UNCHANGED <<baseline, phase, tx, temp, store, loop>>

\* A file is written or deleted elsewhere: by another process at any moment,
\* by a run that is not followed while no synchronous section is open.
Elsewhere(f, who) ==
  /\ who = Peer => loop = NoOne
  /\ \/ ver < MaxVersion /\ ver' = ver + 1 /\ disk' = [disk EXCEPT ![f] = ver + 1]
     \/ disk[f] # Absent /\ disk' = [disk EXCEPT ![f] = Absent] /\ UNCHANGED ver
  /\ owner' = [owner EXCEPT ![f] = who]
  /\ UNCHANGED <<baseline, phase, tx, temp, store, loop>>

\* A run is suspended and resumed: its loop starts with an empty ledger.
FreshLedger(r) ==
  /\ phase[r] = "idle"
  /\ MayRun(r)
  /\ baseline' = [baseline EXCEPT ![r] = [f \in Files |-> NoRecord]]
  /\ UNCHANGED <<disk, ver, phase, tx, temp, store, loop, owner>>

RunStep(r) ==
  \/ \E f \in Files, kind \in {"full", "truncated", "part"} : ReadFile(r, f, kind)
  \/ \E tool \in {"write", "edit"}, paths \in Targets : BeginWrite(r, tool, paths)
  \/ (\E f \in Files : Snapshot(r, f)) \/ Refuse(r)
  \/ Stage(r) \/ StageFails(r)
  \/ Check(r) \/ PathConflict(r) \/ CommitFails(r) \/ Rename(r) \/ RecordWrite(r)
  \/ Restore(r) \/ (\E n \in 0..1 : RestoreFails(r, n))
  \/ (\E q \in Runs : \E n \in 1..Len(store[q].paths) : RollbackTool(r, store[q], n))
  \/ (\E fs \in (SUBSET Files) \ {{}} : DirectWrite(r, fs))
  \/ FreshLedger(r)

Next == (\E r \in Runs : RunStep(r)) \/ (\E f \in Files, who \in {NoOne, Peer} : Elsewhere(f, who))

Spec == Init /\ [][Next]_vars

(***************************************************************************)
(* Properties.                                                             *)
(***************************************************************************)

\* A tool call's transaction, and the rollback snapshot kept of it.
Transaction == [tool : {"write", "edit"}, paths : Targets \cup {<<>>},
                base : [Files -> Content], version : Content, seen : SUBSET Files,
                done : 0..2, undo : SUBSET Files, why : {"none", "conflict", "error"}]

StoredSnapshot == [paths : Targets \cup {<<>>}, base : [Files -> Content]]

\* The workspace, the ledgers and the transactions have their types.
TypeOK ==
  /\ disk \in [Files -> Content]
  /\ ver \in 1..MaxVersion
  /\ baseline \in [Runs -> [Files -> Baseline]]
  /\ phase \in [Runs -> Phase]
  /\ tx \in [Runs -> Transaction]
  /\ \A r \in Runs :
       /\ tx[r].done <= Len(tx[r].paths)
       /\ tx[r].seen \subseteq PathsOf(tx[r]) /\ tx[r].undo \subseteq PathsOf(tx[r])
  /\ temp \subseteq Runs
  /\ store \in [Runs -> StoredSnapshot]
  /\ loop \in Runs \cup {NoOne}
  /\ owner \in [Files -> Runs \cup {NoOne, Peer}]

\* The files of a transaction that its commit has not renamed yet.
Remaining(r) == PathsOf(tx[r]) \ Prefix(tx[r].paths, tx[r].done)

\* A commit is built only on contents the ledger of its own run vouches for:
\* what validateToolContractFreshness approved is still the recorded content when
\* commitManagedTransaction renames, whatever happened between, and the run has
\* read it in full or written it.  One exception, against freshness-gate.ts:40
\* ("truncated baseline cannot authorize edits"): a long file of which the run
\* has only seen an analysis, once a failed check has taken the truncated mark
\* and the file is back at the analysed content (file-state-ledger.ts:115-127).
CommitsFromWhatItRead ==
  \A r \in Runs : phase[r] \in {"staged", "checked"} =>
    \A f \in Remaining(r) :
      \/ baseline[r][f] \in {Record("full", tx[r].base[f]), Record("unmarked", tx[r].base[f])}
      \/ tx[r].base[f] = Absent /\ baseline[r][f] = NoRecord

\* No lost update between the runs of a process: when commitManagedTransaction
\* is about to rename over a file, the file holds the approved base.  Only a
\* process outside can slip in between checkBaseHash and renameSync.
NoCommitIsOverwritten ==
  \A r \in Runs : phase[r] = "checked" =>
    LET f == tx[r].paths[tx[r].done + 1] IN disk[f] = tx[r].base[f] \/ owner[f] = NoOne

\* The revert that applyAndCommit makes after a conflict touches only files
\* this transaction renamed: no other run's write is among them.
ConflictKeepsOthers ==
  \A r \in Runs : phase[r] = "restoring" /\ tx[r].why = "conflict" =>
    \A f \in tx[r].undo : owner[f] \in {r, NoOne}
=============================================================================
