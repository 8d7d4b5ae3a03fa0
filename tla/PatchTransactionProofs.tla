----------------------- MODULE PatchTransactionProofs -----------------------
(***************************************************************************)
(* TLAPS proofs about PatchTransaction: for any set of runs and of files   *)
(* and any number of contents.                                             *)
(***************************************************************************)
EXTENDS PatchTransaction, TLAPS

(***************************************************************************)
(* The inductive invariant.  What a run relies on between its steps is its *)
(* own transaction and, from the first check to the end of the commit, the *)
(* synchronous section: as long as loop = r no other run writes a file.    *)
(***************************************************************************)

\* How far the transaction of r is, by phase.
Progress(r) ==
  /\ phase[r] \in {"approving", "approved"} => tx[r].done = 0
  /\ phase[r] \in {"approving", "approved", "staged", "checked"}
       => tx[r].done < Len(tx[r].paths)
  /\ phase[r] \in {"staged", "checked", "committed"} => tx[r].version # Absent

\* Once a file is checked or renamed, and while a revert is due, r is inside
\* its synchronous section.
InSection(r) ==
  (\/ phase[r] \in {"checked", "restoring"}
   \/ phase[r] = "staged" /\ tx[r].done > 0) => loop = r

\* The approved base of f is what r has read or written, or has lost the mark of
\* a truncated read.
WasRead(r, f) ==
  \/ baseline[r][f] \in {Record("full", tx[r].base[f]), Record("unmarked", tx[r].base[f])}
  \/ tx[r].base[f] = Absent /\ baseline[r][f] = NoRecord

ApprovedWasRead(r) ==
  /\ phase[r] = "approving" => \A f \in tx[r].seen : WasRead(r, f)
  /\ phase[r] \in {"approved", "staged", "checked"} => \A f \in PathsOf(tx[r]) : WasRead(r, f)

\* What the commit renamed is still r's, or was written by another process.
RenamedIsOwn(r) ==
  phase[r] \in {"staged", "checked"} =>
    \A f \in Prefix(tx[r].paths, tx[r].done) : owner[f] \in {r, NoOne}

NextFile(r) == tx[r].paths[tx[r].done + 1]

CheckedIsBase(r) ==
  phase[r] = "checked" => disk[NextFile(r)] = tx[r].base[NextFile(r)] \/ owner[NextFile(r)] = NoOne

UndoIsOwn(r) ==
  phase[r] = "restoring" /\ tx[r].why = "conflict" => \A f \in tx[r].undo : owner[f] \in {r, NoOne}

RunInv(r) ==
  /\ Progress(r)
  /\ InSection(r)
  /\ ApprovedWasRead(r)
  /\ RenamedIsOwn(r)
  /\ CheckedIsBase(r)
  /\ UndoIsOwn(r)

IInv == TypeOK /\ \A r \in Runs : RunInv(r)

(***************************************************************************)
(* The paths of a transaction.                                             *)
(***************************************************************************)

\* The targets of a file tool are a sequence of one or two files.
LEMMA TargetsType ==
  ASSUME NEW p \in Targets \cup {<<>>}
  PROVE  /\ p \in Seq(Files)
         /\ Len(p) \in 0..2
         /\ p # <<>> => Len(p) > 0
         /\ \A i \in 1..Len(p) : p[i] \in Files
  <1>1. CASE p = <<>>
    BY <1>1
  <1>2. CASE \E f \in Files : p = <<f>>
    BY <1>2
  <1>3. CASE \E f, g \in Files : p = <<f, g>>
    BY <1>3
  <1>4. p = <<>> \/ (\E f \in Files : p = <<f>>) \/ (\E f, g \in Files : p = <<f, g>>)
    BY DEF Targets
  <1> QED BY <1>1, <1>2, <1>3, <1>4

\* The paths of a transaction are files, and so is every prefix of them.
LEMMA PathsAreFiles ==
  ASSUME TypeOK, NEW r \in Runs
  PROVE  /\ tx[r] \in Transaction
         /\ tx[r].paths \in Targets \cup {<<>>}
         /\ tx[r].paths \in Seq(Files)
         /\ Len(tx[r].paths) \in 0..2
         /\ PathsOf(tx[r]) \subseteq Files
         /\ \A n \in 0..Len(tx[r].paths) : Prefix(tx[r].paths, n) \subseteq PathsOf(tx[r])
         /\ tx[r].done < Len(tx[r].paths) => NextFile(r) \in Files
  <1>1. tx[r] \in Transaction /\ tx[r].paths \in Targets \cup {<<>>} /\ tx[r].done \in 0..2
    BY DEF TypeOK, Transaction
  <1>2. /\ tx[r].paths \in Seq(Files) /\ Len(tx[r].paths) \in 0..2
        /\ \A i \in 1..Len(tx[r].paths) : tx[r].paths[i] \in Files
    BY <1>1, TargetsType
  <1> QED BY <1>1, <1>2 DEF PathsOf, Prefix, NextFile

\* The empty transaction of an idle run.
LEMMA NoTxType ==
  /\ NoTx \in Transaction
  /\ NoTx.paths = <<>> /\ NoTx.done = 0 /\ NoTx.seen = {} /\ NoTx.undo = {} /\ NoTx.why = "none"
  /\ Len(NoTx.paths) = 0
  BY MaxVersionAssumption DEF NoTx, Transaction, Content, Absent

(***************************************************************************)
(* A step of one run and the others: what another run relies on survives,  *)
(* because a run that may take a step is the only one inside a section.    *)
(***************************************************************************)
LEMMA OtherRun ==
  ASSUME IInv, NEW r \in Runs, NEW s \in Runs, r # s, MayRun(r),
         phase'[s] = phase[s], tx'[s] = tx[s], baseline'[s] = baseline[s]
  PROVE  RunInv(s)'
  <1>1. loop # s
    BY NoOneAssumption DEF MayRun
  <1>2. RunInv(s) /\ phase[s] \notin {"checked", "restoring"} /\ ~(phase[s] = "staged" /\ tx[s].done > 0)
    BY <1>1 DEF IInv, RunInv, InSection
  <1>3. tx[s].done \in 0..2
    BY DEF IInv, TypeOK, Transaction
  <1>4. Progress(s)' /\ InSection(s)'
    BY <1>2 DEF RunInv, Progress, InSection
  <1>5. ApprovedWasRead(s)'
    BY <1>2 DEF RunInv, ApprovedWasRead, WasRead, PathsOf
  <1>6. CheckedIsBase(s)' /\ UndoIsOwn(s)'
    BY <1>2 DEF CheckedIsBase, UndoIsOwn
  <1>7. RenamedIsOwn(s)'
    <2>1. phase[s] = "staged" => Prefix(tx[s].paths, tx[s].done) = {}
      BY <1>2, <1>3 DEF Prefix
    <2> QED BY <2>1, <1>2 DEF RenamedIsOwn
  <1> QED BY <1>4, <1>5, <1>6, <1>7 DEF RunInv

\* A run that is idle with the empty transaction needs nothing.
LEMMA IdleRun ==
  ASSUME NEW r \in Runs, phase'[r] = "idle"
  PROVE  RunInv(r)'
  BY DEF RunInv, Progress, InSection, ApprovedWasRead, RenamedIsOwn, CheckedIsBase, UndoIsOwn

(***************************************************************************)
(* Reads, approval and the steps outside a transaction.                    *)
(***************************************************************************)
LEMMA ReadFileStep ==
  ASSUME IInv, NEW r \in Runs, NEW f \in Files, NEW kind \in {"full", "truncated", "part"},
         ReadFile(r, f, kind)
  PROVE  IInv'
  <1>1. disk[f] \in Content \ {Absent}
    BY DEF IInv, TypeOK, ReadFile
  <1> DEFINE entry == IF kind = "part" THEN Part ELSE Record(kind, disk[f])
  <1>2. TypeOK'
    <2>1. entry \in Baseline
      BY <1>1 DEF Baseline, Record
    <2>2. baseline' = [baseline EXCEPT ![r][f] = entry]
      BY DEF ReadFile
    <2> HIDE DEF entry
    <2>3. baseline' \in [Runs -> [Files -> Baseline]]
      BY <2>1, <2>2 DEF IInv, TypeOK
    <2> QED BY <2>3 DEF IInv, TypeOK, ReadFile, PathsOf
  <1>3. ASSUME NEW s \in Runs, s # r PROVE baseline'[s] = baseline[s]
    BY <1>3 DEF IInv, TypeOK, ReadFile
  <1>4. \A s \in Runs : RunInv(s)'
    BY <1>3, OtherRun, IdleRun DEF ReadFile
  <1> QED BY <1>2, <1>4 DEF IInv

LEMMA FreshLedgerStep ==
  ASSUME IInv, NEW r \in Runs, FreshLedger(r)
  PROVE  IInv'
  <1>1. TypeOK'
    BY DEF IInv, TypeOK, FreshLedger, Baseline, PathsOf
  <1>2. ASSUME NEW s \in Runs, s # r PROVE baseline'[s] = baseline[s]
    BY <1>2 DEF IInv, TypeOK, FreshLedger
  <1>3. \A s \in Runs : RunInv(s)'
    BY <1>2, OtherRun, IdleRun DEF FreshLedger
  <1> QED BY <1>1, <1>3 DEF IInv

LEMMA DirectWriteStep ==
  ASSUME IInv, NEW r \in Runs, NEW fs \in SUBSET Files, DirectWrite(r, fs)
  PROVE  IInv'
  <1>1. ver + 1 \in Content /\ ver + 1 \in 1..MaxVersion
    BY MaxVersionAssumption DEF IInv, TypeOK, DirectWrite, Content
  <1>2. TypeOK'
    BY <1>1 DEF IInv, TypeOK, DirectWrite, PathsOf
  <1>3. \A s \in Runs : RunInv(s)'
    BY OtherRun, IdleRun DEF DirectWrite
  <1> QED BY <1>2, <1>3 DEF IInv

\* What a revert leaves on disk is of the right type.
LEMMA RollbackType ==
  ASSUME TypeOK, NEW r \in Runs, NEW base \in [Files -> Content], NEW fs,
         rollbackSnapshots(r, base, fs)
  PROVE  disk' \in [Files -> Content] /\ owner' \in [Files -> Runs \cup {NoOne, Peer}]
  BY DEF TypeOK, rollbackSnapshots

LEMMA RollbackToolStep ==
  ASSUME IInv, NEW r \in Runs, NEW q \in Runs, NEW n, RollbackTool(r, store[q], n)
  PROVE  IInv'
  <1>1. store[q].base \in [Files -> Content]
    BY DEF IInv, TypeOK, StoredSnapshot
  <1>2. disk' \in [Files -> Content] /\ owner' \in [Files -> Runs \cup {NoOne, Peer}]
    BY <1>1, RollbackType DEF IInv, RollbackTool
  <1>3. TypeOK'
    BY <1>2 DEF IInv, TypeOK, RollbackTool, PathsOf
  <1>4. \A s \in Runs : RunInv(s)'
    BY OtherRun, IdleRun DEF RollbackTool
  <1> QED BY <1>3, <1>4 DEF IInv

\* A write outside the followed runs: a peer cannot come in while a section is
\* open, another process can and is then the owner.
LEMMA ElsewhereStep ==
  ASSUME IInv, NEW f \in Files, NEW who \in {NoOne, Peer}, Elsewhere(f, who)
  PROVE  IInv'
  <1>1. ver' \in 1..MaxVersion /\ disk' \in [Files -> Content]
    BY MaxVersionAssumption DEF IInv, TypeOK, Elsewhere, Content, Absent
  <1>2. TypeOK'
    BY <1>1 DEF IInv, TypeOK, Elsewhere, PathsOf
  <1>3. ASSUME NEW s \in Runs PROVE RunInv(s)'
    <2>1. RunInv(s) /\ phase'[s] = phase[s] /\ tx'[s] = tx[s] /\ baseline'[s] = baseline[s] /\ loop' = loop
      BY DEF IInv, Elsewhere
    <2>2. /\ \A g \in Files : g # f => disk'[g] = disk[g] /\ owner'[g] = owner[g]
          /\ owner'[f] = who
      BY DEF IInv, TypeOK, Elsewhere
    <2>3. loop = s => who = NoOne
      BY NoOneAssumption DEF Elsewhere
    <2>4. /\ tx[s].done \in 0..2 /\ tx[s].undo \subseteq Files
          /\ tx[s].done <= Len(tx[s].paths)
          /\ Prefix(tx[s].paths, tx[s].done) \subseteq Files
          /\ tx[s].done < Len(tx[s].paths) => NextFile(s) \in Files
      BY PathsAreFiles DEF IInv, TypeOK, Transaction
    <2>5. Progress(s)' /\ InSection(s)' /\ ApprovedWasRead(s)'
      BY <2>1 DEF RunInv, Progress, InSection, ApprovedWasRead, WasRead, PathsOf
    <2>6. RenamedIsOwn(s)'
      <3>1. CASE tx[s].done = 0
        BY <3>1, <2>1 DEF RenamedIsOwn, Prefix
      <3>2. CASE tx[s].done > 0
        <4>1. SUFFICES ASSUME phase[s] \in {"staged", "checked"}
                       PROVE  \A g \in Prefix(tx[s].paths, tx[s].done) : owner'[g] \in {s, NoOne}
          BY <2>1 DEF RenamedIsOwn
        <4>2. who = NoOne
          BY <4>1, <3>2, <2>1, <2>3 DEF RunInv, InSection
        <4>3. \A g \in Prefix(tx[s].paths, tx[s].done) : owner[g] \in {s, NoOne}
          BY <4>1, <2>1 DEF RunInv, RenamedIsOwn
        <4> QED BY <4>2, <4>3, <2>2, <2>4
      <3> QED BY <3>1, <3>2, <2>4
    <2>7. CheckedIsBase(s)'
      <3>1. SUFFICES ASSUME phase[s] = "checked"
                     PROVE  disk'[NextFile(s)] = tx[s].base[NextFile(s)] \/ owner'[NextFile(s)] = NoOne
        BY <2>1 DEF CheckedIsBase, NextFile
      <3>2. who = NoOne /\ NextFile(s) \in Files
        BY <3>1, <2>1, <2>3, <2>4 DEF RunInv, InSection, Progress
      <3> QED BY <3>1, <3>2, <2>1, <2>2 DEF RunInv, CheckedIsBase
    <2>8. UndoIsOwn(s)'
      <3>1. SUFFICES ASSUME phase[s] = "restoring", tx[s].why = "conflict"
                     PROVE  \A g \in tx[s].undo : owner'[g] \in {s, NoOne}
        BY <2>1 DEF UndoIsOwn
      <3>2. who = NoOne
        BY <3>1, <2>1, <2>3 DEF RunInv, InSection
      <3> QED BY <3>1, <3>2, <2>1, <2>2, <2>4 DEF RunInv, UndoIsOwn
    <2> QED BY <2>5, <2>6, <2>7, <2>8 DEF RunInv
  <1> QED BY <1>2, <1>3 DEF IInv

(***************************************************************************)
(* Steps of a transaction.  Each replaces the phase and the transaction of *)
(* its run and leaves those of the others.                                 *)
(***************************************************************************)
TxOK(t) ==
  /\ t \in Transaction
  /\ t.done <= Len(t.paths)
  /\ t.seen \subseteq PathsOf(t) /\ t.undo \subseteq PathsOf(t)

LEMMA TxUpdate ==
  ASSUME TypeOK, NEW r \in Runs, NEW t, TxOK(t), NEW ph \in Phase,
         tx' = [tx EXCEPT ![r] = t], phase' = [phase EXCEPT ![r] = ph]
  PROVE  /\ tx' \in [Runs -> Transaction] /\ phase' \in [Runs -> Phase]
         /\ \A s \in Runs : TxOK(tx'[s])
         /\ tx'[r] = t /\ phase'[r] = ph
         /\ \A s \in Runs : s # r => tx'[s] = tx[s] /\ phase'[s] = phase[s]
  <1>1. /\ tx' \in [Runs -> Transaction] /\ phase' \in [Runs -> Phase]
        /\ tx'[r] = t /\ phase'[r] = ph
        /\ \A s \in Runs : s # r => tx'[s] = tx[s] /\ phase'[s] = phase[s]
    BY DEF TypeOK, TxOK
  <1>2. \A s \in Runs : TxOK(tx[s])
    BY DEF TypeOK, TxOK
  <1> QED BY <1>1, <1>2

LEMMA NoTxOK == TxOK(NoTx)
  BY NoTxType DEF TxOK

LEMMA CurrentTxOK ==
  ASSUME TypeOK, NEW r \in Runs
  PROVE  TxOK(tx[r])
  BY DEF TypeOK, TxOK

\* The call ends and the run is idle again.
LEMMA BackToIdle ==
  ASSUME IInv, NEW r \in Runs, MayRun(r),
         tx' = [tx EXCEPT ![r] = NoTx], phase' = [phase EXCEPT ![r] = "idle"],
         disk' \in [Files -> Content], owner' \in [Files -> Runs \cup {NoOne, Peer}],
         ver' = ver, baseline' \in [Runs -> [Files -> Baseline]],
         \A s \in Runs : s # r => baseline'[s] = baseline[s],
         temp' \subseteq Runs, store' = store, loop' \in Runs \cup {NoOne}
  PROVE  IInv'
  <1>1. /\ tx' \in [Runs -> Transaction] /\ phase' \in [Runs -> Phase]
        /\ \A s \in Runs : TxOK(tx'[s])
        /\ phase'[r] = "idle"
        /\ \A s \in Runs : s # r => tx'[s] = tx[s] /\ phase'[s] = phase[s]
    BY TxUpdate, NoTxOK, Zenon DEF IInv, Phase
  <1>2. TypeOK'
    BY <1>1 DEF IInv, TypeOK, TxOK
  <1>3. \A s \in Runs : RunInv(s)'
    BY <1>1, OtherRun, IdleRun
  <1> QED BY <1>2, <1>3 DEF IInv

LEMMA BeginWriteStep ==
  ASSUME IInv, NEW r \in Runs, NEW tool \in {"write", "edit"}, NEW paths \in Targets,
         BeginWrite(r, tool, paths)
  PROVE  IInv'
  <1> DEFINE t == [NoTx EXCEPT !.tool = tool, !.paths = paths]
  <1>1. paths \in Seq(Files) /\ Len(paths) > 0
    <2>1. paths # <<>>
      BY DEF Targets
    <2> QED BY <2>1, TargetsType
  <1>2. t \in Transaction /\ t.paths = paths /\ t.done = 0 /\ t.seen = {} /\ t.undo = {}
    BY NoTxType DEF NoTx, Transaction
  <1>3. TxOK(t)
    BY <1>1, <1>2 DEF TxOK
  <1> HIDE DEF t
  <1>4. tx' = [tx EXCEPT ![r] = t] /\ phase' = [phase EXCEPT ![r] = "approving"]
    BY DEF BeginWrite, t
  <1>5. /\ tx' \in [Runs -> Transaction] /\ phase' \in [Runs -> Phase]
        /\ \A s \in Runs : TxOK(tx'[s])
        /\ tx'[r] = t /\ phase'[r] = "approving"
        /\ \A s \in Runs : s # r => tx'[s] = tx[s] /\ phase'[s] = phase[s]
    BY <1>3, <1>4, TxUpdate, Zenon DEF IInv, Phase
  <1>6. TypeOK'
    BY <1>5 DEF IInv, TypeOK, TxOK, BeginWrite
  <1>7. RunInv(r)'
    BY <1>1, <1>2, <1>5 DEF RunInv, Progress, InSection, ApprovedWasRead, RenamedIsOwn, CheckedIsBase, UndoIsOwn
  <1>8. \A s \in Runs : s # r => RunInv(s)'
    BY <1>5, OtherRun DEF BeginWrite
  <1> QED BY <1>6, <1>7, <1>8 DEF IInv

\* A check writes a record of the ledger back, and an approved one unchanged.
LEMMA CheckedRecord ==
  ASSUME NEW record \in Baseline, NEW content
  PROVE  /\ checkFresh(record, content) \in Baseline
         /\ record.kind # "truncated" => checkFresh(record, content) = record
  BY DEF checkFresh, Baseline, Record, NoRecord, Part

\* An approval: the snapshotted content is the run's baseline, or there is none.
LEMMA SnapshotStep ==
  ASSUME IInv, NEW r \in Runs, NEW f \in Files, Snapshot(r, f)
  PROVE  IInv'
  <1>0. /\ baseline' \in [Runs -> [Files -> Baseline]]
        /\ \A s \in Runs : s # r => baseline'[s] = baseline[s]
        /\ \A g \in Files : g # f => baseline'[r][g] = baseline[r][g]
        /\ baseline'[r][f] = checkFresh(baseline[r][f], disk[f])
    <2>1. baseline[r][f] \in Baseline
      BY DEF IInv, TypeOK
    <2>2. checkFresh(baseline[r][f], disk[f]) \in Baseline
      BY <2>1, CheckedRecord
    <2> QED BY <2>2 DEF Snapshot, IInv, TypeOK
  <1>1. CASE ~validateFreshness(r, f)
    BY <1>0, <1>1, BackToIdle DEF Snapshot, IInv, TypeOK
  <1>2. CASE validateFreshness(r, f)
    <2> DEFINE all == tx[r].seen \cup {f} = PathsOf(tx[r])
               seen == IF all THEN {} ELSE tx[r].seen \cup {f}
               t == [tx[r] EXCEPT !.base[f] = disk[f], !.seen = seen]
               ph == IF all THEN "approved" ELSE "approving"
    <2>1. tx[r] \in Transaction /\ TxOK(tx[r]) /\ disk[f] \in Content
      BY CurrentTxOK, PathsAreFiles DEF IInv, TypeOK
    <2>2. /\ t \in Transaction
          /\ t.paths = tx[r].paths /\ t.done = tx[r].done /\ t.undo = tx[r].undo /\ t.seen = seen
          /\ t.base = [tx[r].base EXCEPT ![f] = disk[f]]
      <3>1. seen \in SUBSET Files
        BY <2>1 DEF Transaction
      <3>2. [tx[r].base EXCEPT ![f] = disk[f]] \in [Files -> Content]
        BY <2>1 DEF Transaction
      <3> HIDE DEF seen
      <3> QED BY <3>1, <3>2, <2>1 DEF Transaction
    <2>3. f \in PathsOf(tx[r])
      BY DEF Snapshot
    <2>4. TxOK(t)
      BY <2>1, <2>2, <2>3 DEF TxOK, PathsOf
    <2>5. tx' = [tx EXCEPT ![r] = t]
      BY <1>2 DEF Snapshot
    <2>6. phase' = [phase EXCEPT ![r] = ph]
      BY <1>2 DEF Snapshot, IInv, TypeOK
    <2>7. /\ phase[r] = "approving"
          /\ tx[r].base \in [Files -> Content]
      BY <2>1 DEF Snapshot, Transaction
    <2>8. \A g \in Files : t.base[g] = IF g = f THEN disk[f] ELSE tx[r].base[g]
      BY <2>2, <2>7
    <2> HIDE DEF t
    <2>9. /\ tx' \in [Runs -> Transaction] /\ phase' \in [Runs -> Phase]
          /\ \A s \in Runs : TxOK(tx'[s])
          /\ tx'[r] = t /\ phase'[r] = ph
          /\ \A s \in Runs : s # r => tx'[s] = tx[s] /\ phase'[s] = phase[s]
      <3>1. ph \in Phase
        BY DEF Phase
      <3> HIDE DEF ph
      <3> QED BY <3>1, <2>4, <2>5, <2>6, TxUpdate, Zenon DEF IInv
    <2>10. TypeOK'
      BY <1>0, <2>9 DEF IInv, TypeOK, TxOK, Snapshot
    <2>11. ApprovedWasRead(r)'
      <3>1. \A g \in tx[r].seen : WasRead(r, g)
        BY <2>7 DEF IInv, RunInv, ApprovedWasRead
      <3>2. WasRead(r, f)'
        <4>1. tx'[r].base[f] = disk[f]
          BY <2>8, <2>9
        <4>2. baseline[r][f] \in Baseline
          BY DEF IInv, TypeOK
        <4>3. CASE Creates(r, f)
          <5>1. checkFresh(baseline[r][f], disk[f]) = baseline[r][f]
            BY <4>3, <4>2, CheckedRecord DEF Creates, NoRecord
          <5> QED BY <1>0, <4>1, <4>3, <5>1 DEF Creates, WasRead
        <4>4. CASE baseline[r][f].kind \in {"full", "unmarked"} /\ baseline[r][f].hash = disk[f]
          <5>1. checkFresh(baseline[r][f], disk[f]) = baseline[r][f]
            BY <4>4, <4>2, CheckedRecord
          <5>2. baseline[r][f] \in {Record("full", disk[f]), Record("unmarked", disk[f])}
            BY <4>2, <4>4 DEF Baseline, Record, NoRecord, Part
          <5> QED BY <1>0, <4>1, <5>1, <5>2 DEF WasRead
        <4> QED BY <1>2, <4>3, <4>4 DEF validateFreshness
      <3>3. \A g \in tx[r].seen : WasRead(r, g)'
        BY <1>0, <3>1, <3>2, <2>1, <2>7, <2>8, <2>9 DEF WasRead, Transaction
      <3> QED BY <3>2, <3>3, <2>2, <2>9 DEF ApprovedWasRead, PathsOf
    <2>12. RunInv(r)'
      BY <2>2, <2>7, <2>9, <2>11 DEF IInv, RunInv, Progress, InSection, ApprovedWasRead, RenamedIsOwn, CheckedIsBase, UndoIsOwn
    <2>13. \A s \in Runs : s # r => RunInv(s)'
      BY <2>9, OtherRun DEF Snapshot
    <2> QED BY <2>10, <2>12, <2>13 DEF IInv
  <1> QED BY <1>1, <1>2

LEMMA RefuseStep ==
  ASSUME IInv, NEW r \in Runs, Refuse(r)
  PROVE  IInv'
  BY BackToIdle DEF Refuse, IInv, TypeOK

LEMMA StageStep ==
  ASSUME IInv, NEW r \in Runs, Stage(r)
  PROVE  IInv'
  <1> DEFINE t == [tx[r] EXCEPT !.version = ver + 1]
  <1>1. /\ tx[r] \in Transaction /\ TxOK(tx[r])
        /\ ver + 1 \in Content \ {Absent} /\ ver + 1 \in 1..MaxVersion
    BY CurrentTxOK, MaxVersionAssumption DEF IInv, TypeOK, Stage, Content, Absent
  <1>2. /\ t \in Transaction
        /\ t.paths = tx[r].paths /\ t.done = tx[r].done /\ t.undo = tx[r].undo /\ t.seen = tx[r].seen
        /\ t.base = tx[r].base /\ t.version = ver + 1
    BY <1>1 DEF Transaction
  <1>3. TxOK(t)
    BY <1>1, <1>2 DEF TxOK, PathsOf
  <1>4. tx' = [tx EXCEPT ![r] = t] /\ phase' = [phase EXCEPT ![r] = "staged"]
    BY DEF Stage
  <1> HIDE DEF t
  <1>5. /\ tx' \in [Runs -> Transaction] /\ phase' \in [Runs -> Phase]
        /\ \A s \in Runs : TxOK(tx'[s])
        /\ tx'[r] = t /\ phase'[r] = "staged"
        /\ \A s \in Runs : s # r => tx'[s] = tx[s] /\ phase'[s] = phase[s]
    BY <1>3, <1>4, TxUpdate, Zenon DEF IInv, Phase
  <1>6. store' \in [Runs -> StoredSnapshot]
    BY <1>1 DEF IInv, TypeOK, Stage, SavedSnapshot, StoredSnapshot, Transaction
  <1>7. TypeOK'
    BY <1>1, <1>5, <1>6 DEF IInv, TypeOK, TxOK, Stage
  <1>8. tx[r].done = 0 /\ phase[r] = "approved" /\ RunInv(r)
    BY DEF IInv, RunInv, Progress, Stage
  <1>9. RunInv(r)'
    <2>1. Progress(r)' /\ InSection(r)' /\ CheckedIsBase(r)' /\ UndoIsOwn(r)'
      BY <1>1, <1>2, <1>5, <1>8 DEF RunInv, Progress, InSection, CheckedIsBase, UndoIsOwn
    <2>2. ApprovedWasRead(r)'
      BY <1>2, <1>5, <1>8 DEF RunInv, ApprovedWasRead, WasRead, PathsOf, Stage
    <2>3. RenamedIsOwn(r)'
      BY <1>2, <1>5, <1>8 DEF RenamedIsOwn, Prefix
    <2> QED BY <2>1, <2>2, <2>3 DEF RunInv
  <1>10. \A s \in Runs : s # r => RunInv(s)'
    BY <1>5, OtherRun DEF Stage
  <1> QED BY <1>7, <1>9, <1>10 DEF IInv

\* A revert is due: the section is open and what it will undo is known.
LEMMA RestoreDue ==
  ASSUME IInv, NEW r \in Runs, MayRun(r), NEW undo \in SUBSET PathsOf(tx[r]),
         NEW why \in {"conflict", "error"},
         why = "conflict" => \A f \in undo : owner[f] \in {r, NoOne},
         tx' = [tx EXCEPT ![r].undo = undo, ![r].why = why],
         phase' = [phase EXCEPT ![r] = "restoring"], loop' = r,
         UNCHANGED <<disk, ver, baseline, owner>>,
         temp' \subseteq Runs, store' \in [Runs -> StoredSnapshot]
  PROVE  IInv'
  <1> DEFINE t == [tx[r] EXCEPT !.undo = undo, !.why = why]
  <1>1. tx[r] \in Transaction /\ TxOK(tx[r]) /\ undo \subseteq Files
    BY CurrentTxOK, PathsAreFiles DEF IInv, TypeOK
  <1>2. /\ t \in Transaction
        /\ t.paths = tx[r].paths /\ t.done = tx[r].done /\ t.seen = tx[r].seen
        /\ t.undo = undo /\ t.why = why
    BY <1>1 DEF Transaction
  <1>3. TxOK(t)
    BY <1>1, <1>2 DEF TxOK, PathsOf
  <1>4. tx' = [tx EXCEPT ![r] = t]
    OBVIOUS
  <1> HIDE DEF t
  <1>5. /\ tx' \in [Runs -> Transaction] /\ phase' \in [Runs -> Phase]
        /\ \A s \in Runs : TxOK(tx'[s])
        /\ tx'[r] = t /\ phase'[r] = "restoring"
        /\ \A s \in Runs : s # r => tx'[s] = tx[s] /\ phase'[s] = phase[s]
    BY <1>3, <1>4, TxUpdate, Zenon DEF IInv, Phase
  <1>6. TypeOK'
    BY <1>5 DEF IInv, TypeOK, TxOK
  <1>7. RunInv(r)'
    BY <1>2, <1>5 DEF RunInv, Progress, InSection, ApprovedWasRead, RenamedIsOwn, CheckedIsBase, UndoIsOwn
  <1>8. \A s \in Runs : s # r => RunInv(s)'
    BY <1>5, OtherRun
  <1> QED BY <1>6, <1>7, <1>8 DEF IInv

LEMMA StageFailsStep ==
  ASSUME IInv, NEW r \in Runs, StageFails(r)
  PROVE  IInv'
  <1>1. store' \in [Runs -> StoredSnapshot] /\ temp' \subseteq Runs
    <2>1. tx[r] \in Transaction
      BY PathsAreFiles DEF IInv
    <2> QED BY <2>1 DEF IInv, TypeOK, StageFails, SavedSnapshot, StoredSnapshot, Transaction
  <1> QED BY <1>1, RestoreDue DEF StageFails

\* A transaction that does not commit ends at once or is due for a revert.
LEMMA AbandonStep ==
  ASSUME IInv, NEW r \in Runs, MayRun(r), NEW undo \in SUBSET PathsOf(tx[r]),
         NEW why \in {"conflict", "error"},
         why = "conflict" => \A f \in undo : owner[f] \in {r, NoOne},
         Abandon(r, undo, why), UNCHANGED <<disk, ver, baseline, store, owner>>
  PROVE  IInv'
  <1>1. CASE undo = {}
    BY <1>1, BackToIdle DEF Abandon, IInv, TypeOK
  <1>2. CASE undo # {}
    BY <1>2, RestoreDue DEF Abandon, IInv, TypeOK
  <1> QED BY <1>1, <1>2

\* The files a conflict undoes are the ones this commit renamed.
LEMMA UndoAfterConflictIsOwn ==
  ASSUME IInv, NEW r \in Runs, phase[r] = "staged"
  PROVE  /\ UndoAfterConflict(r) \in SUBSET PathsOf(tx[r])
         /\ \A f \in UndoAfterConflict(r) : owner[f] \in {r, NoOne}
  <1>1. tx[r].done \in 0..Len(tx[r].paths)
    <2>1. Len(tx[r].paths) \in 0..2
      BY PathsAreFiles DEF IInv
    <2>2. tx[r].done \in 0..2 /\ tx[r].done <= Len(tx[r].paths)
      BY DEF IInv, TypeOK, Transaction
    <2> QED BY <2>1, <2>2
  <1>2. UndoAfterConflict(r) \subseteq PathsOf(tx[r])
    BY <1>1, PathsAreFiles DEF IInv, UndoAfterConflict
  <1> QED BY <1>2 DEF IInv, RunInv, RenamedIsOwn, UndoAfterConflict

LEMMA CheckStep ==
  ASSUME IInv, NEW r \in Runs, Check(r)
  PROVE  IInv'
  <1>1. CASE disk[NextFile(r)] # tx[r].base[NextFile(r)]
    <2>1. Abandon(r, UndoAfterConflict(r), "conflict") /\ UNCHANGED <<disk, ver, baseline, store, owner>>
      BY <1>1 DEF Check, NextFile
    <2> QED BY <2>1, AbandonStep, UndoAfterConflictIsOwn DEF Check
  <1>2. CASE disk[NextFile(r)] = tx[r].base[NextFile(r)]
    <2>1. /\ phase[r] = "staged" /\ MayRun(r)
          /\ phase' = [phase EXCEPT ![r] = "checked"] /\ loop' = r
          /\ UNCHANGED <<tx, temp, disk, ver, baseline, store, owner>>
      BY <1>2 DEF Check, NextFile
    <2>2. /\ phase' \in [Runs -> Phase] /\ phase'[r] = "checked"
          /\ \A s \in Runs : s # r => phase'[s] = phase[s]
      BY <2>1 DEF IInv, TypeOK, Phase
    <2>3. TypeOK'
      BY <2>1, <2>2 DEF IInv, TypeOK, PathsOf
    <2>4. RunInv(r)'
      BY <1>2, <2>1, <2>2 DEF IInv, RunInv, Progress, InSection, ApprovedWasRead, WasRead, PathsOf, RenamedIsOwn, CheckedIsBase, NextFile, UndoIsOwn
    <2>5. \A s \in Runs : s # r => RunInv(s)'
      BY <2>1, <2>2, OtherRun
    <2> QED BY <2>3, <2>4, <2>5 DEF IInv
  <1> QED BY <1>1, <1>2

LEMMA PathConflictStep ==
  ASSUME IInv, NEW r \in Runs, PathConflict(r)
  PROVE  IInv'
  BY AbandonStep, UndoAfterConflictIsOwn DEF PathConflict

LEMMA CommitFailsStep ==
  ASSUME IInv, NEW r \in Runs, CommitFails(r)
  PROVE  IInv'
  BY AbandonStep DEF CommitFails

\* A rename: the file is r's from now on, and r stays in its section until the
\* last one.
LEMMA RenameStep ==
  ASSUME IInv, NEW r \in Runs, Rename(r)
  PROVE  IInv'
  <1> DEFINE t == [tx[r] EXCEPT !.done = @ + 1]
             ph == IF LastRename(r) THEN "committed" ELSE "staged"
             f == NextFile(r)
  <1>1. /\ tx[r] \in Transaction /\ TxOK(tx[r])
        /\ tx[r].done \in 0..2 /\ tx[r].version \in Content
        /\ Len(tx[r].paths) \in 0..2 /\ tx[r].paths \in Seq(Files)
    BY CurrentTxOK, PathsAreFiles DEF IInv, Transaction
  <1>2. phase[r] = "checked" /\ RunInv(r) /\ loop = r /\ tx[r].done < Len(tx[r].paths)
    BY DEF IInv, RunInv, InSection, Progress, Rename
  <1>3. f \in Files
    BY <1>2, PathsAreFiles DEF IInv
  <1>4. /\ t \in Transaction
        /\ t.paths = tx[r].paths /\ t.done = tx[r].done + 1 /\ t.undo = tx[r].undo /\ t.seen = tx[r].seen
        /\ t.base = tx[r].base /\ t.version = tx[r].version
    <2>1. tx[r].done + 1 \in 0..2
      <3>1. \A d, n \in 0..2 : d < n => d + 1 \in 0..2
        OBVIOUS
      <3> QED BY <3>1, <1>1, <1>2, Zenon
    <2> QED BY <2>1, <1>1 DEF Transaction
  <1>5. TxOK(t)
    BY <1>1, <1>2, <1>4 DEF TxOK, PathsOf
  <1>6. tx' = [tx EXCEPT ![r] = t] /\ phase' = [phase EXCEPT ![r] = ph]
    BY DEF Rename
  <1>7. /\ disk' = [disk EXCEPT ![f] = tx[r].version] /\ owner' = [owner EXCEPT ![f] = r]
        /\ MayRun(r) /\ temp' \subseteq temp
        /\ loop' = IF LastRename(r) THEN NoOne ELSE loop
        /\ UNCHANGED <<ver, baseline, store>>
    BY DEF Rename, NextFile
  <1> HIDE DEF t
  <1>8. /\ tx' \in [Runs -> Transaction] /\ phase' \in [Runs -> Phase]
        /\ \A s \in Runs : TxOK(tx'[s])
        /\ tx'[r] = t /\ phase'[r] = ph
        /\ \A s \in Runs : s # r => tx'[s] = tx[s] /\ phase'[s] = phase[s]
    <2>1. ph \in Phase
      BY DEF Phase
    <2> HIDE DEF ph
    <2> QED BY <2>1, <1>5, <1>6, TxUpdate, Zenon DEF IInv
  <1>9. TypeOK'
    BY <1>1, <1>3, <1>7, <1>8 DEF IInv, TypeOK, TxOK
  <1>10. RunInv(r)'
    <2>1. Progress(r)'
      BY <1>1, <1>2, <1>4, <1>8 DEF RunInv, Progress, LastRename
    <2>2. InSection(r)' /\ CheckedIsBase(r)' /\ UndoIsOwn(r)'
      BY <1>2, <1>7, <1>8 DEF InSection, CheckedIsBase, UndoIsOwn
    <2>3. ApprovedWasRead(r)'
      BY <1>2, <1>4, <1>7, <1>8 DEF RunInv, ApprovedWasRead, WasRead, PathsOf
    <2>4. RenamedIsOwn(r)'
      <3>1. \A g \in Prefix(t.paths, t.done) : g = f \/ g \in Prefix(tx[r].paths, tx[r].done)
        BY <1>1, <1>4 DEF Prefix, NextFile
      <3>2. Prefix(tx[r].paths, tx[r].done) \subseteq Files
        BY <1>1, <1>2 DEF Prefix
      <3>3. \A g \in Prefix(tx[r].paths, tx[r].done) : owner[g] \in {r, NoOne}
        BY <1>2 DEF RunInv, RenamedIsOwn
      <3>4. \A g \in Files : owner'[g] = IF g = f THEN r ELSE owner[g]
        BY <1>7 DEF IInv, TypeOK
      <3>5. \A g \in Prefix(t.paths, t.done) : owner'[g] \in {r, NoOne}
        BY <3>1, <3>2, <3>3, <3>4, <1>3
      <3> QED BY <3>5, <1>8 DEF RenamedIsOwn
    <2> QED BY <2>1, <2>2, <2>3, <2>4 DEF RunInv
  <1>11. \A s \in Runs : s # r => RunInv(s)'
    BY <1>7, <1>8, OtherRun
  <1> QED BY <1>9, <1>10, <1>11 DEF IInv

LEMMA RecordWriteStep ==
  ASSUME IInv, NEW r \in Runs, RecordWrite(r)
  PROVE  IInv'
  <1>1. tx[r].version \in Content \ {Absent}
    BY DEF IInv, TypeOK, Transaction, RunInv, Progress, RecordWrite
  <1>2. baseline' \in [Runs -> [Files -> Baseline]] /\ \A s \in Runs : s # r => baseline'[s] = baseline[s]
    <2>1. Record("full", tx[r].version) \in Baseline
      BY <1>1 DEF Baseline, Record
    <2> QED BY <2>1 DEF IInv, TypeOK, RecordWrite
  <1> QED BY <1>2, BackToIdle DEF RecordWrite, IInv, TypeOK

LEMMA RestoreStep ==
  ASSUME IInv, NEW r \in Runs, Restore(r)
  PROVE  IInv'
  <1>1. tx[r].base \in [Files -> Content]
    BY DEF IInv, TypeOK, Transaction
  <1>2. disk' \in [Files -> Content] /\ owner' \in [Files -> Runs \cup {NoOne, Peer}]
    BY <1>1, RollbackType DEF IInv, Restore
  <1> QED BY <1>2, BackToIdle DEF Restore, IInv, TypeOK

LEMMA RestoreFailsStep ==
  ASSUME IInv, NEW r \in Runs, NEW n, RestoreFails(r, n)
  PROVE  IInv'
  <1>1. tx[r].base \in [Files -> Content]
    BY DEF IInv, TypeOK, Transaction
  <1>2. disk' \in [Files -> Content] /\ owner' \in [Files -> Runs \cup {NoOne, Peer}]
    BY <1>1, RollbackType DEF IInv, RestoreFails
  <1> QED BY <1>2, BackToIdle DEF RestoreFails, IInv, TypeOK

(***************************************************************************)
(* The invariant, and what follows from it.                                *)
(***************************************************************************)
LEMMA InitInv == Init => IInv
  <1> SUFFICES ASSUME Init PROVE IInv
    OBVIOUS
  <1>1. NoSnapshot \in StoredSnapshot
    BY MaxVersionAssumption DEF NoSnapshot, StoredSnapshot, Content, Absent
  <1>2. \A r \in Runs : TxOK(tx[r]) /\ tx[r] \in Transaction
    BY NoTxOK, NoTxType DEF Init
  <1>3. disk \in [Files -> Content] /\ ver \in 1..MaxVersion
    BY MaxVersionAssumption DEF Init, Content, Absent
  <1>4. phase \in [Runs -> Phase] /\ baseline \in [Runs -> [Files -> Baseline]]
    BY DEF Init, Phase, Baseline
  <1>5. TypeOK
    BY <1>1, <1>2, <1>3, <1>4 DEF Init, TypeOK, TxOK
  <1>6. \A r \in Runs : RunInv(r)
    BY DEF Init, RunInv, Progress, InSection, ApprovedWasRead, RenamedIsOwn, CheckedIsBase, UndoIsOwn
  <1> QED BY <1>5, <1>6 DEF IInv

LEMMA RunStepInv ==
  ASSUME IInv, NEW r \in Runs, RunStep(r)
  PROVE  IInv'
  <1>1. CASE \E f \in Files, kind \in {"full", "truncated", "part"} : ReadFile(r, f, kind)
    BY <1>1, ReadFileStep
  <1>2. CASE \E tool \in {"write", "edit"}, paths \in Targets : BeginWrite(r, tool, paths)
    BY <1>2, BeginWriteStep
  <1>3. CASE \E f \in Files : Snapshot(r, f)
    BY <1>3, SnapshotStep
  <1>4. CASE Refuse(r) \/ Stage(r) \/ StageFails(r)
    BY <1>4, RefuseStep, StageStep, StageFailsStep
  <1>5. CASE Check(r) \/ PathConflict(r) \/ CommitFails(r)
    BY <1>5, CheckStep, PathConflictStep, CommitFailsStep
  <1>6. CASE Rename(r) \/ RecordWrite(r)
    BY <1>6, RenameStep, RecordWriteStep
  <1>7. CASE Restore(r) \/ \E n \in 0..1 : RestoreFails(r, n)
    BY <1>7, RestoreStep, RestoreFailsStep
  <1>8. CASE \E q \in Runs : \E n \in 1..Len(store[q].paths) : RollbackTool(r, store[q], n)
    BY <1>8, RollbackToolStep
  <1>9. CASE \E fs \in (SUBSET Files) \ {{}} : DirectWrite(r, fs)
    BY <1>9, DirectWriteStep
  <1>10. CASE FreshLedger(r)
    BY <1>10, FreshLedgerStep
  <1> QED BY <1>1, <1>2, <1>3, <1>4, <1>5, <1>6, <1>7, <1>8, <1>9, <1>10 DEF RunStep

LEMMA NextInv == IInv /\ [Next]_vars => IInv'
  <1> SUFFICES ASSUME IInv, [Next]_vars PROVE IInv'
    OBVIOUS
  <1>1. ASSUME NEW r \in Runs, RunStep(r) PROVE IInv'
    BY <1>1, RunStepInv
  <1>2. ASSUME NEW f \in Files, NEW who \in {NoOne, Peer}, Elsewhere(f, who) PROVE IInv'
    BY <1>2, ElsewhereStep
  <1>3. CASE UNCHANGED vars
    <2>1. TypeOK'
      <3>1. /\ disk' = disk /\ ver' = ver /\ baseline' = baseline /\ phase' = phase /\ tx' = tx
            /\ temp' = temp /\ store' = store /\ loop' = loop /\ owner' = owner
        BY <1>3 DEF vars
      <3>2. TypeOK
        BY DEF IInv
      <3>3. \A r \in Runs : TxOK(tx[r])
        BY <3>2 DEF TypeOK, TxOK
      <3>4. \A r \in Runs : TxOK(tx'[r])
        BY <3>1, <3>3
      <3>5. /\ disk' \in [Files -> Content] /\ ver' \in 1..MaxVersion
            /\ baseline' \in [Runs -> [Files -> Baseline]] /\ phase' \in [Runs -> Phase]
            /\ tx' \in [Runs -> Transaction]
            /\ temp' \subseteq Runs /\ store' \in [Runs -> StoredSnapshot]
            /\ loop' \in Runs \cup {NoOne} /\ owner' \in [Files -> Runs \cup {NoOne, Peer}]
        BY <3>1, <3>2 DEF TypeOK
      <3> QED BY <3>4, <3>5 DEF TypeOK, TxOK
    <2>2. \A r \in Runs : RunInv(r)'
      BY <1>3 DEF vars, IInv, RunInv, Progress, InSection, ApprovedWasRead, WasRead, PathsOf, RenamedIsOwn, Prefix, CheckedIsBase, NextFile, UndoIsOwn
    <2> QED BY <2>1, <2>2 DEF IInv
  <1> QED BY <1>1, <1>2, <1>3 DEF Next

\* Every reachable state satisfies the inductive invariant.
LEMMA Invariant == Spec => []IInv
  BY InitInv, NextInv, PTL DEF Spec

\* The workspace, the ledgers and the transactions always have their types,
\* whatever the runs, the reverts and the writers around them do.
THEOREM TypeCorrect == Spec => []TypeOK
  BY Invariant, PTL DEF IInv

\* commitManagedTransaction renames only files whose approved content the ledger of
\* its own run records as read in full or written, for any number of runs and
\* files, with every check writing its verdict back to the ledger; the record of
\* an analysed file that lost its truncated mark is the one exception.
THEOREM CommitReads == Spec => []CommitsFromWhatItRead
  <1>1. IInv => CommitsFromWhatItRead
    <2> SUFFICES ASSUME IInv, NEW r \in Runs, phase[r] \in {"staged", "checked"}, NEW f \in Remaining(r)
                 PROVE  WasRead(r, f)
      BY DEF CommitsFromWhatItRead, WasRead
    <2> QED BY DEF IInv, RunInv, ApprovedWasRead, Remaining
  <1> QED BY <1>1, Invariant, PTL

\* No lost update between the runs of a process: between checkBaseHash and
\* renameSync only another process can have changed the file.
THEOREM NoLostUpdate == Spec => []NoCommitIsOverwritten
  <1>1. IInv => NoCommitIsOverwritten
    BY DEF IInv, RunInv, CheckedIsBase, NextFile, NoCommitIsOverwritten
  <1> QED BY <1>1, Invariant, PTL

\* A revert after a conflict never undoes the write of another run.
THEOREM ConflictRevertIsOwn == Spec => []ConflictKeepsOthers
  <1>1. IInv => ConflictKeepsOthers
    BY DEF IInv, RunInv, UndoIsOwn, ConflictKeepsOthers
  <1> QED BY <1>1, Invariant, PTL

=============================================================================
