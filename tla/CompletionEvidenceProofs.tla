---------------------- MODULE CompletionEvidenceProofs ----------------------
(***************************************************************************)
(* TLAPS proofs about CompletionEvidence: for any finite set of files, any *)
(* write generation and any number of resumptions.                         *)
(***************************************************************************)
EXTENDS CompletionEvidence, FiniteSetTheorems, TLAPS

USE DEF task, outcome

(***************************************************************************)
(* The inductive invariant.                                                *)
(***************************************************************************)

\* What the stamp of a passing entry tells: the generation is an old one once
\* the run has changed a file and the call that did it is over; without a
\* change the stamp is the present.
StampIsHonest(e) ==
  ~blind /\ e.passed =>
    /\ e.gen <= gen
    /\ ~e.clean => e.gen < gen \/ renamed > 0
    /\ e.clean => e.gen = gen /\ renamed = 0
    /\ e.clean /\ e.tool /\ ~unmanaged => e.bind = Binding

\* What the counters count has an entry in the transaction history.
Counted ==
  /\ hadWrite \/ gen > 0 => count > 0 \/ unmanaged
  /\ call # {} /\ renamed = Cardinality(call) => count > 0

\* A run that is done has no call open.
NoCallWhenDone == done => call = {}

IInv ==
  /\ TypeOK
  /\ StampIsHonest(pending)
  /\ StampIsHonest(latest)
  /\ Counted
  /\ NoCallWhenDone
  /\ DoneIsVerified

(***************************************************************************)
(* Facts about the paths of a call and about entries.                      *)
(***************************************************************************)

\* A call has as many renames to make as it has paths.
LEMMA CallFacts ==
  ASSUME TypeOK
  PROVE  /\ Cardinality(call) \in Nat
         /\ call # {} => Cardinality(call) > 0
         /\ call = {} => Cardinality(call) = 0
  <1>1. IsFiniteSet(call)
    BY FilesAssumption, FS_Subset DEF TypeOK
  <1> QED BY <1>1, FS_CardinalityType, FS_EmptySet

\* A change makes every entry unclean and leaves the rest of its stamp.
LEMMA UncleanFacts ==
  ASSUME TypeOK, Unclean
  PROVE  /\ pending' \in Entries /\ latest' \in Entries
         /\ ~pending'.clean /\ ~latest'.clean
         /\ pending'.passed = pending.passed /\ pending'.gen = pending.gen
         /\ latest'.passed = latest.passed /\ latest'.gen = latest.gen
  BY DEF TypeOK, Unclean, Entries

\* A new entry carries the present generation.
LEMMA EntryFacts ==
  ASSUME TypeOK, NEW ok \in BOOLEAN, NEW b \in Nat \X Nat, NEW tool \in BOOLEAN
  PROVE  /\ Entry(ok, b, tool) \in Entries
         /\ Entry(ok, b, tool).passed =>
              /\ Entry(ok, b, tool).gen = gen /\ Entry(ok, b, tool).clean
              /\ Entry(ok, b, tool).tool = tool /\ Entry(ok, b, tool).bind = b
  <1>1. CASE ok
    <2>1. Entry(ok, b, tool) = [passed |-> TRUE, gen |-> gen, bind |-> b, clean |-> TRUE, tool |-> tool]
      BY <1>1 DEF Entry
    <2>2. gen \in Int
      BY DEF TypeOK
    <2> QED BY <2>1, <2>2 DEF Entries
  <1>2. CASE ~ok
    <2>1. Entry(ok, b, tool) = [passed |-> FALSE, gen |-> -1, bind |-> <<0, 0>>, clean |-> FALSE, tool |-> tool]
      BY <1>2 DEF Entry, NoEntry, NoBinding
    <2> QED BY <2>1 DEF Entries
  <1> QED BY <1>1, <1>2

LEMMA NoEntryFacts == NoEntry \in Entries /\ ~NoEntry.passed
  BY DEF NoEntry, Entries, NoBinding

LEMMA NoBindingType == NoBinding \in Nat \X Nat
  BY DEF NoBinding

LEMMA BindingType ==
  ASSUME TypeOK
  PROVE  Binding \in Nat \X Nat
  BY BoundAssumption DEF TypeOK, Binding, NoBinding

(***************************************************************************)
(* Steps that change files: the entries become unclean and either a rename *)
(* is open, the generation moves, or the change is a blind one.            *)
(***************************************************************************)
LEMMA UncleanStep ==
  ASSUME IInv, TypeOK', Unclean, blind => blind',
         ~blind' => gen' >= gen /\ (renamed' > 0 \/ (gen' > gen /\ renamed' = 0))
  PROVE  StampIsHonest(pending)' /\ StampIsHonest(latest)'
  <1>1. /\ pending.gen \in Int /\ latest.gen \in Int /\ gen \in Nat /\ gen' \in Nat
    BY DEF IInv, TypeOK, Entries
  <1>2. /\ ~pending'.clean /\ ~latest'.clean
        /\ pending'.passed = pending.passed /\ pending'.gen = pending.gen
        /\ latest'.passed = latest.passed /\ latest'.gen = latest.gen
    BY UncleanFacts DEF IInv
  <1> QED BY <1>1, <1>2 DEF IInv, StampIsHonest

LEMMA ShellStep ==
  ASSUME IInv, Shell
  PROVE  IInv'
  <1>1. /\ ~done /\ call = {} /\ gen' = gen + 1 /\ unmanaged' = TRUE /\ covered' = FALSE
        /\ Unclean /\ wrote' = TRUE /\ uncovered' \subseteq Files
        /\ UNCHANGED <<task, call, renamed, history, round, outcome, blind>>
    BY DEF Shell, MayWrite, BetweenCalls, Changed, IInv, TypeOK
  <1>2. pending' \in Entries /\ latest' \in Entries
    BY <1>1, UncleanFacts DEF IInv
  <1>3. TypeOK'
    <2>1. /\ undone' \in Undone(tracker') /\ unmanaged' \in BOOLEAN /\ covered' \in BOOLEAN
          /\ hadWrite' \in BOOLEAN /\ modified' \in BOOLEAN /\ done' \in BOOLEAN
          /\ wrote' \in BOOLEAN /\ blind' \in BOOLEAN
      BY <1>1, Zenon DEF IInv, TypeOK, round
    <2> QED BY <1>1, <1>2, <2>1 DEF IInv, TypeOK, history
  <1>4. StampIsHonest(pending)' /\ StampIsHonest(latest)'
    BY <1>1, <1>3, UncleanStep, CallFacts DEF IInv, TypeOK
  <1>5. Counted'
    BY <1>1 DEF Counted
  <1> QED BY <1>1, <1>3, <1>4, <1>5 DEF IInv, NoCallWhenDone, DoneIsVerified

LEMMA ApplyPatchStep ==
  ASSUME IInv, ApplyPatch
  PROVE  IInv'
  <1>1. /\ ~done /\ Unclean /\ wrote' = TRUE /\ blind' = TRUE
        /\ UNCHANGED <<task, call, renamed, fileState, history, round, outcome>>
    BY DEF ApplyPatch, MayWrite, BetweenCalls, Changed
  <1>2. pending' \in Entries /\ latest' \in Entries
    BY <1>1, UncleanFacts DEF IInv
  <1>3. TypeOK'
    BY <1>1, <1>2 DEF IInv, TypeOK, fileState, history, round
  <1>4. StampIsHonest(pending)' /\ StampIsHonest(latest)'
    BY <1>1 DEF StampIsHonest
  <1>5. Counted'
    BY <1>1 DEF IInv, Counted, fileState, history, round
  <1> QED BY <1>1, <1>3, <1>4, <1>5 DEF IInv, NoCallWhenDone, DoneIsVerified

\* The outcomes of a revert, for the tool and for a commit that failed.
LEMMA RevertStep ==
  ASSUME IInv, ~done, renamed' = 0, call' = {},
         \/ Reverted
         \/ RevertThrows
         \/ Unclean /\ gen' = gen + 1 /\ count' = count + 1 /\ UNCHANGED <<wrote, blind>>,
         hadWrite' \in {hadWrite, TRUE}, modified' \in {modified, TRUE},
         count' # count \/ UNCHANGED hadWrite,
         UNCHANGED <<task, unmanaged, uncovered, covered, session, outcome>>
  PROVE  IInv'
  <1>1. Unclean /\ (blind => blind') /\ wrote' \in BOOLEAN /\ blind' \in BOOLEAN
    BY DEF Reverted, RevertThrows, Changed, IInv, TypeOK
  <1>2. /\ gen' \in Nat /\ count' \in Nat
        /\ ~blind' => gen' > gen
        /\ count' # count => count' > 0
        /\ gen' # gen => count' > 0
    BY DEF Reverted, RevertThrows, IInv, TypeOK
  <1>3. pending' \in Entries /\ latest' \in Entries
    BY <1>1, UncleanFacts DEF IInv
  <1>4. TypeOK'
    <2>1. /\ undone' \in Undone(tracker') /\ unmanaged' \in BOOLEAN /\ covered' \in BOOLEAN
          /\ hadWrite' \in BOOLEAN /\ modified' \in BOOLEAN /\ done' \in BOOLEAN
          /\ wrote' \in BOOLEAN /\ blind' \in BOOLEAN
      BY <1>1, Zenon DEF IInv, TypeOK
    <2> QED BY <1>2, <1>3, <2>1, FS_EmptySet DEF IInv, TypeOK
  <1>5. StampIsHonest(pending)' /\ StampIsHonest(latest)'
    BY <1>1, <1>2, <1>4, UncleanStep DEF IInv, TypeOK
  <1>6. Counted'
    BY <1>2 DEF IInv, Counted, TypeOK
  <1> QED BY <1>4, <1>5, <1>6 DEF IInv, NoCallWhenDone, DoneIsVerified

LEMMA RollbackToolStep ==
  ASSUME IInv, RollbackTool
  PROVE  IInv'
  <1>1. /\ ~done /\ call = {} /\ renamed = 0
        /\ UNCHANGED <<task, call, renamed, unmanaged, uncovered, covered, session, outcome>>
    BY CallFacts DEF RollbackTool, MayWrite, BetweenCalls, IInv, TypeOK
  <1>2. /\ \/ Reverted
           \/ RevertThrows
           \/ Unclean /\ gen' = gen + 1 /\ count' = count + 1 /\ UNCHANGED <<wrote, blind>>
        /\ hadWrite' \in {hadWrite, TRUE} /\ modified' \in {modified, TRUE}
        /\ count' # count \/ UNCHANGED hadWrite
    <2>1. count + 1 # count
      BY DEF IInv, TypeOK
    <2> QED BY <2>1, Zenon DEF RollbackTool, Reverted, round, ghosts
  <1> QED BY <1>1, <1>2, RevertStep

LEMMA CommitFailsStep ==
  ASSUME IInv, CommitFails
  PROVE  IInv'
  <1>1. /\ renamed < Cardinality(call) /\ call' = {} /\ renamed' = 0
        /\ UNCHANGED <<task, unmanaged, uncovered, covered, session, round, outcome>>
    BY DEF CommitFails
  <1>2. ~done
    BY <1>1, CallFacts DEF IInv, NoCallWhenDone, TypeOK
  <1>3. CASE renamed = 0 /\ UNCHANGED <<gen, count, pending, latest, ghosts>>
    <2>1. TypeOK'
      BY <1>1, <1>3, FS_EmptySet DEF IInv, TypeOK, round, ghosts
    <2>2. Binding' = Binding
      BY <1>1, <1>3 DEF Binding
    <2>3. StampIsHonest(pending)' /\ StampIsHonest(latest)'
      BY <1>1, <1>3, <2>2 DEF IInv, StampIsHonest, ghosts
    <2>4. Counted'
      BY <1>1, <1>3 DEF IInv, Counted, round
    <2> QED BY <1>1, <1>2, <2>1, <2>3, <2>4 DEF IInv, NoCallWhenDone, DoneIsVerified
  <1>4. CASE Reverted \/ RevertThrows
    BY <1>1, <1>2, <1>4, RevertStep DEF round, IInv, TypeOK
  <1> QED BY <1>3, <1>4 DEF CommitFails

(***************************************************************************)
(* The write transaction.                                                  *)
(***************************************************************************)
LEMMA BeginCommitStep ==
  ASSUME IInv, BeginCommit
  PROVE  IInv'
  <1>1. /\ ~done /\ call = {} /\ renamed = 0 /\ renamed' = 0
        /\ UNCHANGED <<task, fileState, history, round, pending, latest, outcome, ghosts>>
    BY CallFacts DEF BeginCommit, MayWrite, BetweenCalls, IInv, TypeOK
  <1>2. call' \in SUBSET Files /\ call' # {}
    BY DEF BeginCommit
  <1>3. IsFiniteSet(call')
    BY <1>2, FilesAssumption, FS_Subset
  <1>4. Cardinality(call') \in Nat \ {0}
    BY <1>2, <1>3, FS_CardinalityType, FS_EmptySet
  <1>5. TypeOK'
    BY <1>1, <1>2, <1>4 DEF IInv, TypeOK, fileState, history, round, ghosts
  <1>6. Binding' = Binding
    BY <1>1 DEF Binding, fileState, history
  <1>7. StampIsHonest(pending)' /\ StampIsHonest(latest)'
    BY <1>1, <1>6 DEF IInv, StampIsHonest, fileState, ghosts
  <1>8. Counted'
    BY <1>1, <1>4 DEF IInv, Counted, fileState, history, round
  <1> QED BY <1>1, <1>5, <1>7, <1>8 DEF IInv, NoCallWhenDone, DoneIsVerified

LEMMA RenameOneStep ==
  ASSUME IInv, RenameOne
  PROVE  IInv'
  <1>1. /\ renamed < Cardinality(call) /\ renamed' = renamed + 1
        /\ count' = (IF renamed' = Cardinality(call) THEN count + 1 ELSE count)
        /\ Unclean /\ wrote' = TRUE
        /\ UNCHANGED <<task, call, session, fileState, round, outcome, blind>>
    BY DEF RenameOne, Changed
  <1>2. renamed \in Nat /\ Cardinality(call) \in Nat /\ count \in Nat /\ call # {}
    BY <1>1, CallFacts DEF IInv, TypeOK
  <1>3. pending' \in Entries /\ latest' \in Entries
    BY <1>1, UncleanFacts DEF IInv
  <1>4. TypeOK'
    BY <1>1, <1>2, <1>3 DEF IInv, TypeOK, fileState, round
  <1>5. StampIsHonest(pending)' /\ StampIsHonest(latest)'
    BY <1>1, <1>2, <1>4, UncleanStep DEF IInv, TypeOK, fileState
  <1>6. Counted'
    BY <1>1, <1>2 DEF IInv, Counted, fileState, round
  <1> QED BY <1>1, <1>2, <1>4, <1>5, <1>6 DEF IInv, NoCallWhenDone, DoneIsVerified

LEMMA FinishWriteStep ==
  ASSUME IInv, FinishWrite
  PROVE  IInv'
  <1>1. /\ call # {} /\ renamed = Cardinality(call) /\ call' = {} /\ renamed' = 0
        /\ hadWrite' = TRUE /\ modified' = TRUE
        /\ uncovered' = (IF unmanaged THEN uncovered \cup call ELSE uncovered)
        /\ covered' = (covered /\ ~unmanaged)
        /\ UNCHANGED <<task, unmanaged, history, pending, latest, outcome, ghosts>>
    BY DEF FinishWrite
  <1>2. renamed \in Nat /\ renamed > 0 /\ gen \in Nat /\ count \in Nat
    BY <1>1, CallFacts DEF IInv, TypeOK
  <1>3. gen' \in Nat /\ gen' > gen
    BY <1>2 DEF FinishWrite
  <1>4. TypeOK'
    BY <1>1, <1>3, FS_EmptySet DEF IInv, TypeOK, history, ghosts
  <1>5. StampIsHonest(pending)' /\ StampIsHonest(latest)'
    <2>1. pending.gen \in Int /\ latest.gen \in Int
      BY DEF IInv, TypeOK, Entries
    <2> QED BY <1>1, <1>2, <1>3, <2>1 DEF IInv, StampIsHonest, ghosts
  <1>6. Counted'
    BY <1>1 DEF IInv, Counted, history
  <1> QED BY <1>1, <1>4, <1>5, <1>6 DEF IInv, NoCallWhenDone, DoneIsVerified

(***************************************************************************)
(* Verification, the round and the claim.                                  *)
(***************************************************************************)
LEMMA VerifyStep ==
  ASSUME IInv, Verify
  PROVE  IInv'
  <1>1. /\ ~done /\ call = {} /\ renamed = 0
        /\ UNCHANGED <<task, call, renamed, fileState, history, round, latest, outcome, ghosts>>
    BY CallFacts DEF Verify, BetweenCalls, IInv, TypeOK
  <1>2. PICK ok \in BOOLEAN : pending' = Entry(ok, Binding, TRUE)
    BY DEF Verify
  <1>3. /\ pending' \in Entries
        /\ pending'.passed => /\ pending'.gen = gen /\ pending'.clean /\ pending'.bind = Binding
    BY <1>2, EntryFacts, BindingType DEF IInv
  <1>4. TypeOK'
    BY <1>1, <1>3 DEF IInv, TypeOK, fileState, history, round, ghosts
  <1>5. Binding' = Binding
    BY <1>1 DEF Binding, fileState, history
  <1>6. StampIsHonest(pending)' /\ StampIsHonest(latest)'
    <2>1. gen \in Nat
      BY DEF IInv, TypeOK
    <2> QED BY <1>1, <1>3, <1>5, <2>1 DEF IInv, StampIsHonest, fileState, ghosts
  <1>7. Counted'
    BY <1>1 DEF IInv, Counted, fileState, history, round
  <1> QED BY <1>1, <1>4, <1>6, <1>7 DEF IInv, NoCallWhenDone, DoneIsVerified

LEMMA CoverStep ==
  ASSUME IInv, Cover
  PROVE  IInv'
  <1>1. /\ ~done /\ uncovered # {} /\ uncovered' \subseteq uncovered
        /\ covered' = (covered \/ uncovered' = {})
        /\ UNCHANGED <<task, call, renamed, gen, unmanaged, history, round, pending, latest, outcome, ghosts>>
    BY DEF Cover, BetweenCalls
  <1>2. TypeOK'
    BY <1>1 DEF IInv, TypeOK, history, round, ghosts
  <1>3. Binding' = Binding
    BY <1>1 DEF Binding, history
  <1>4. StampIsHonest(pending)' /\ StampIsHonest(latest)'
    BY <1>1, <1>3 DEF IInv, StampIsHonest, ghosts
  <1>5. Counted'
    BY <1>1 DEF IInv, Counted, history, round
  <1> QED BY <1>1, <1>2, <1>4, <1>5 DEF IInv, NoCallWhenDone, DoneIsVerified

\* What is ingested is an entry of the invariant.
LEMMA IngestedFacts ==
  ASSUME IInv
  PROVE  Ingested \in Entries /\ StampIsHonest(Ingested)
  BY DEF IInv, TypeOK, Ingested

\* So is what the end of a round leaves as the latest entry, which is what was
\* ingested or, after writes, the work of the batch tsc and not of a tool.
LEMMA AfterToolsFacts ==
  ASSUME IInv, AfterTools, call = {}, UNCHANGED <<renamed, fileState, history, ghosts>>
  PROVE  /\ latest' \in Entries /\ StampIsHonest(latest)'
         /\ latest' = Ingested \/ (modified /\ ~latest'.tool)
  <1>1. renamed = 0 /\ Binding' = Binding
    BY CallFacts DEF IInv, TypeOK, Binding, fileState, history
  <1>2. latest' \in Entries /\ StampIsHonest(latest)'
    <2>1. CASE latest' = Ingested
      <3>1. latest' \in Entries /\ StampIsHonest(latest')
        BY <2>1, IngestedFacts
      <3> QED BY <1>1, <3>1 DEF StampIsHonest, fileState, ghosts
    <2>2. CASE \E ok \in BOOLEAN : latest' = Entry(ok, NoBinding, FALSE)
      <3> PICK ok \in BOOLEAN : latest' = Entry(ok, NoBinding, FALSE)
        BY <2>2
      <3>0. TypeOK /\ FALSE \in BOOLEAN
        BY DEF IInv
      <3>1. /\ latest' \in Entries
            /\ latest'.passed => latest'.gen = gen /\ latest'.clean /\ latest'.tool = FALSE
        BY <3>0, EntryFacts, NoBindingType, Zenon
      <3>2. gen \in Nat
        BY DEF IInv, TypeOK
      <3>3. latest'.passed => ~latest'.tool
        BY <3>1
      <3>4. gen' = gen /\ renamed' = 0
        BY <1>1 DEF fileState
      <3>5. gen' <= gen'
        BY <3>2, <3>4
      <3>6. latest'.passed => latest'.gen = gen' /\ latest'.clean
        BY <3>1, <3>4
      <3> QED BY <3>1, <3>3, <3>4, <3>5, <3>6, Zenon DEF StampIsHonest
    <2> QED BY <2>1, <2>2 DEF AfterTools
  <1>3. latest' = Ingested \/ (modified /\ ~latest'.tool)
    BY DEF AfterTools, Entry, NoEntry
  <1> QED BY <1>2, <1>3

LEMMA EndRoundStep ==
  ASSUME IInv, EndRound
  PROVE  IInv'
  <1>1. /\ ~done /\ call = {} /\ renamed = 0 /\ pending' = NoEntry /\ modified' = FALSE
        /\ UNCHANGED <<tracker, call, renamed, fileState, history, hadWrite, outcome, ghosts>>
        /\ undone' \in Undone(tracker) /\ AfterTools
    BY CallFacts DEF EndRound, BetweenCalls, IInv, TypeOK
  <1>2. Binding' = Binding
    BY <1>1 DEF Binding, fileState, history
  <1>3. latest' \in Entries /\ StampIsHonest(latest)'
    BY <1>1, AfterToolsFacts
  <1>4. StampIsHonest(pending)'
    BY <1>1, NoEntryFacts DEF StampIsHonest
  <1>5. TypeOK'
    BY <1>1, <1>3, NoEntryFacts DEF IInv, TypeOK, fileState, history, ghosts
  <1>6. Counted'
    BY <1>1 DEF IInv, Counted, fileState, history
  <1> QED BY <1>1, <1>3, <1>4, <1>5, <1>6 DEF IInv, NoCallWhenDone, DoneIsVerified

\* Between calls, fresh evidence is clean evidence.
LEMMA FreshIsClean ==
  ASSUME IInv, call = {}, NEW e \in Entries, StampIsHonest(e), NEW required,
         hasFreshPassingEvidence(e, required), ~blind
  PROVE  e.passed /\ e.clean
  <1>1. renamed = 0 /\ gen \in Nat
    BY CallFacts DEF IInv, TypeOK
  <1> QED BY <1>1 DEF hasFreshPassingEvidence, StampIsHonest, Entries

LEMMA NarrowFinishStep ==
  ASSUME IInv, NarrowFinish
  PROVE  IInv'
  <1>1. /\ call = {} /\ modified /\ AfterTools /\ accepted' = Ingested /\ pending' = NoEntry /\ done' = TRUE
        /\ hasFreshPassingEvidence(Ingested, hadWrite \/ gen > 0)
        /\ UNCHANGED <<task, call, renamed, fileState, history, round, ghosts>>
    BY DEF NarrowFinish, BetweenCalls
  <1>2. accepted' \in Entries
    BY <1>1, IngestedFacts
  <1>3. /\ latest' \in Entries /\ StampIsHonest(latest)'
        /\ latest' = Ingested \/ ~latest'.tool
    BY <1>1, AfterToolsFacts
  <1>4. StampIsHonest(pending)'
    BY <1>1, NoEntryFacts DEF StampIsHonest
  <1>5. TypeOK'
    BY <1>1, <1>2, <1>3, NoEntryFacts DEF IInv, TypeOK, fileState, history, round, ghosts
  <1>6. Counted' /\ NoCallWhenDone'
    BY <1>1 DEF IInv, Counted, NoCallWhenDone, fileState, history, round
  <1>7. DoneIsVerified'
    <2>1. ~blind => accepted'.passed /\ accepted'.clean
      BY <1>1, IngestedFacts, FreshIsClean
    <2> QED BY <1>1, <1>3, <2>1 DEF DoneIsVerified, round, ghosts
  <1> QED BY <1>3, <1>4, <1>5, <1>6, <1>7 DEF IInv

LEMMA ClaimStep ==
  ASSUME IInv, Claim
  PROVE  IInv'
  <1>1. /\ call = {} /\ EvidenceGate /\ accepted' = latest /\ done' = TRUE
        /\ UNCHANGED <<task, call, renamed, fileState, history, round, pending, latest, ghosts>>
    BY DEF Claim, BetweenCalls
  <1>2. Binding' = Binding
    BY <1>1 DEF Binding, fileState, history
  <1>3. TypeOK'
    BY <1>1 DEF IInv, TypeOK, fileState, history, round, ghosts
  <1>4. StampIsHonest(pending)' /\ StampIsHonest(latest)'
    BY <1>1, <1>2 DEF IInv, StampIsHonest, fileState, ghosts
  <1>5. Counted' /\ NoCallWhenDone'
    BY <1>1 DEF IInv, Counted, NoCallWhenDone, fileState, history, round
  <1>6. DoneIsVerified'
    <2>1. NeedsTypecheck /\ ~blind => latest.passed /\ latest.clean
      BY <1>1, FreshIsClean DEF EvidenceGate, IInv, TypeOK
    <2> QED BY <1>1, <2>1 DEF DoneIsVerified, NeedsTypecheck, round, ghosts
  <1> QED BY <1>3, <1>4, <1>5, <1>6 DEF IInv

LEMMA SwapTrackerStep ==
  ASSUME IInv, SwapTracker
  PROVE  IInv'
  <1>1. /\ ~done /\ tracker' \in Trackers /\ undone' \in Undone(tracker')
        /\ UNCHANGED <<call, renamed, fileState, history, round, pending, latest, outcome, ghosts>>
    BY DEF SwapTracker, BetweenCalls, Trackers, Undone
  <1>2. Binding' = Binding
    BY <1>1 DEF Binding, fileState, history
  <1>3. TypeOK'
    BY <1>1 DEF IInv, TypeOK, fileState, history, round, ghosts
  <1>4. StampIsHonest(pending)' /\ StampIsHonest(latest)'
    BY <1>1, <1>2 DEF IInv, StampIsHonest, fileState, ghosts
  <1>5. Counted'
    BY <1>1 DEF IInv, Counted, fileState, history, round
  <1> QED BY <1>1, <1>3, <1>4, <1>5 DEF IInv, NoCallWhenDone, DoneIsVerified

LEMMA ResumeStep ==
  ASSUME IInv, Resume
  PROVE  IInv'
  <1>1. /\ ~done /\ pending = NoEntry
        /\ session' = session + 1 /\ session' \in 0 .. MaxResume /\ gen' = 0 /\ unmanaged' = FALSE /\ uncovered' = {}
        /\ covered' = FALSE /\ count' = 0 /\ hadWrite' = FALSE
        /\ blind' = (blind \/ wrote \/ latest # NoEntry)
        /\ tracker' \in Trackers /\ undone' \in Undone(tracker')
        /\ UNCHANGED <<call, renamed, modified, pending, latest, outcome, wrote>>
    BY BoundAssumption DEF Resume, BetweenCalls, NewFileState, IInv, TypeOK, Trackers
  <1>2. call = {} /\ renamed = 0
    BY CallFacts DEF Resume, BetweenCalls, IInv, TypeOK
  <1>3. TypeOK'
    BY <1>1 DEF IInv, TypeOK
  <1>4. StampIsHonest(pending)' /\ StampIsHonest(latest)'
    BY <1>1, NoEntryFacts DEF StampIsHonest
  <1>5. Counted'
    BY <1>1, <1>2 DEF Counted
  <1> QED BY <1>1, <1>3, <1>4, <1>5 DEF IInv, NoCallWhenDone, DoneIsVerified

(***************************************************************************)
(* The invariant.                                                          *)
(***************************************************************************)
LEMMA InitInv ==
  ASSUME Init
  PROVE  IInv
  <1>1. TypeOK
    <2>1. /\ undone \in Undone(tracker) /\ unmanaged \in BOOLEAN /\ covered \in BOOLEAN
          /\ hadWrite \in BOOLEAN /\ modified \in BOOLEAN /\ done \in BOOLEAN
          /\ wrote \in BOOLEAN /\ blind \in BOOLEAN
      BY Zenon DEF Init
    <2> QED BY <2>1, BoundAssumption, NoEntryFacts, FS_EmptySet DEF Init, TypeOK
  <1> QED BY <1>1, NoEntryFacts DEF Init, IInv, StampIsHonest, Counted, NoCallWhenDone, DoneIsVerified

LEMMA StutterStep ==
  ASSUME IInv, UNCHANGED vars
  PROVE  IInv'
  <1>1. Binding' = Binding
    BY DEF Binding, vars, fileState, history
  <1> QED BY <1>1 DEF IInv, TypeOK, StampIsHonest, Counted, NoCallWhenDone, DoneIsVerified, NeedsTypecheck,
                      vars, fileState, history, round, ghosts

LEMMA NextInv ==
  ASSUME IInv, [Next]_vars
  PROVE  IInv'
  BY ShellStep, ApplyPatchStep, RollbackToolStep, BeginCommitStep, RenameOneStep, FinishWriteStep,
     CommitFailsStep, VerifyStep, CoverStep, EndRoundStep, NarrowFinishStep, ClaimStep, SwapTrackerStep,
     ResumeStep,
     StutterStep, Zenon DEF Next

LEMMA Invariant == Spec => []IInv
  BY InitInv, NextInv, PTL DEF Spec

(***************************************************************************)
(* The state that decides a claim is well formed in every run.             *)
(***************************************************************************)
THEOREM TypeCorrect == Spec => []TypeOK
  <1>1. IInv => TypeOK
    BY DEF IInv
  <1> QED BY <1>1, Invariant, PTL

(***************************************************************************)
(* A run whose gate needs typecheck evidence is done only when a gate      *)
(* accepted a passing verification collected after its last change         *)
(* (canClaimDone, evaluateEvidenceGate, checkNarrowEditCompletion), and    *)
(* only the batch tsc of a narrow edit may have the last word instead, for *)
(* any number of files, writes, trackers and resumptions.                  *)
(***************************************************************************)
THEOREM Verified == Spec => []DoneIsVerified
  <1>1. IInv => DoneIsVerified
    BY DEF IInv
  <1> QED BY <1>1, Invariant, PTL

(***************************************************************************)
(* The gate asks for no more than a verification after the last change,    *)
(* however many conflicts, reverts and rollbacks came before               *)
(* (evaluateEvidenceGate, shouldRequireEvidenceBinding).                   *)
(***************************************************************************)
THEOREM GateOpens == Spec => []FreshVerificationSuffices
  <1>1. IInv => FreshVerificationSuffices
    <2> SUFFICES ASSUME IInv, call = {}, ~undone, ~unmanaged, ~blind,
                        latest.passed, latest.clean, latest.tool
                 PROVE  hasFreshPassingEvidence(latest, RequireBinding)
      BY DEF FreshVerificationSuffices, EvidenceGate
    <2>1. latest.gen = gen /\ latest.bind = Binding
      BY DEF IInv, StampIsHonest
    <2>2. RequireBinding => Binding # NoBinding
      <3>1. count \in Nat /\ session \in Nat
        BY BoundAssumption DEF IInv, TypeOK
      <3>2. RequireBinding => count > 0
        BY DEF IInv, Counted, RequireBinding
      <3> QED BY <3>1, <3>2 DEF Binding, NoBinding
    <2> QED BY <2>1, <2>2 DEF hasFreshPassingEvidence
  <1> QED BY <1>1, Invariant, PTL

=============================================================================
