-------------------------- MODULE HostCapacityProofs --------------------------
(***************************************************************************)
(* TLAPS proofs about HostCapacity: for any sets of brokers, scheduler     *)
(* nodes and (run, cell) pairs, any capacity and any number of rows.       *)
(***************************************************************************)
EXTENDS HostCapacity, TLAPS, FiniteSetTheorems

(***************************************************************************)
(* The inductive invariant.  OneActiveClaimPerCell is inductive given the  *)
(* types.  ExecOnlyWithIdentity is not: a step of another client, a rekey  *)
(* or a row inserted by recovery could overwrite the row.  It takes that   *)
(* a record a client's idempotency key points at is the one it holds,      *)
(* that no two clients share a row, that a row once pointed at is never    *)
(* inserted again, and that nothing is spawned before the identity step.   *)
(***************************************************************************)
HeldIsIdem == \A c \in Clients : idem[c] # 0 => held[c].claim = idem[c]

IdemInserted == \A c \in Clients : idem[c] <= inserted

IdemDistinct ==
  \A c, d \in Clients : idem[c] # 0 /\ idem[c] = idem[d] => c = d

HasClaim ==
  \A c \in Clients : pc[c] \in Steps \ {"idle", "done", "crashed"} => idem[c] # 0

NotSpawned ==
  \A b \in Brokers :
    /\ pc[b] = "idle" => idem[b] = 0
    /\ pc[b] \in {"idle", "reserved", "preSpawn", "attempting"}
         => proc[b] = "none"

IdentityDurable ==
  \A b \in Brokers : pc[b] = "identified" \/ Executing(b)
                       => idem[b] # 0 /\ claims[idem[b]].pid = b

Ownership ==
  /\ HeldIsIdem
  /\ IdemInserted
  /\ IdemDistinct
  /\ HasClaim
  /\ NotSpawned

IInv ==
  /\ TypeOK
  /\ OneActiveClaimPerCell
  /\ Ownership
  /\ IdentityDurable

(***************************************************************************)
(* The strengthening for ChargedUnlessOverlooked.  Between the identity    *)
(* commit and the attach a delegated broker's launcher is outside its      *)
(* cgroup, and a reconcile or a release in that window frees its claim.    *)
(* No release falls into it; a pass does only for a remote broker, which   *)
(* is then in `early'.                                                     *)
(***************************************************************************)
ReleaseAfterCleanup ==
  \A h \in releases :
    /\ h.claim <= inserted
    /\ \A b \in Brokers : h.claim # 0 /\ h.claim = idem[b]
                            => pc[b] \in {"releasing", "done", "crashed"}

Watched(b) ==
  \/ Executing(b) /\ ~Overlooked(b)
  \/ pc[b] = "identified" /\ b \in Delegated /\ b \notin early

ChargedFromIdentity == \A b \in Brokers : Watched(b) => Active(idem[b])

CInv ==
  /\ IInv
  /\ ReleaseAfterCleanup
  /\ ChargedFromIdentity
-----------------------------------------------------------------------------
(* A verdict is always a phase the table knows.                            *)
LEMMA VerdictType == ASSUME NEW r PROVE Verdict(r) \in Phases
  BY DEF Verdict, Phases, ActivePhases

(* A row inserted empty is a row.                                          *)
LEMMA NoRowType == NoRow \in Row
  BY CapacityAssumption DEF NoRow, Row, Phases, ActivePhases, Token

(* What updatePhase does to the table: the caller's row gets the phase and *)
(* the identity, every other row is kept, and no pair gets a second active *)
(* claim, because the unique index refuses the write.                      *)
LEMMA UpdatePhaseRows ==
  ASSUME TypeOK, OneActiveClaimPerCell,
         NEW h \in Handle, h.claim # 0,
         NEW phase \in ActivePhases, NEW pid \in Brokers \cup {None},
         UpdatePhase(h, phase, pid)
  PROVE  /\ claims' \in [ClaimId -> Row]
         /\ \A i \in ClaimId : i # h.claim => claims'[i] = claims[i]
         /\ claims'[h.claim].phase = phase
         /\ pid # None => claims'[h.claim].pid = pid
         /\ pid = None => claims'[h.claim].pid = claims[h.claim].pid
         /\ OneActiveClaimPerCell'
  <1> DEFINE r == claims[h.claim]
             s == claims'[h.claim]
  <1>1. h.claim \in ClaimId
    BY CapacityAssumption DEF Handle, ClaimId
  <1>2. r \in Row
    BY <1>1 DEF TypeOK
  <1>3. /\ s = [r EXCEPT !.phase = phase, !.pid = IF pid = None THEN @ ELSE pid]
        /\ \A i \in ClaimId : i # h.claim => claims'[i] = claims[i]
        /\ DOMAIN claims' = ClaimId
        /\ claims' = [i \in ClaimId |-> claims'[i]]
    BY <1>1 DEF TypeOK, UpdatePhase
  <1>4. /\ s \in Row
        /\ s.phase = phase
        /\ s.key = r.key
        /\ s.recovered = r.recovered
        /\ pid # None => s.pid = pid
        /\ pid = None => s.pid = r.pid
    BY <1>2, <1>3 DEF Row, Phases
  <1>5. claims' \in [ClaimId -> Row]
    BY <1>3, <1>4 DEF TypeOK
  <1>6. ASSUME NEW i \in ClaimId, i # h.claim, Active(i),
               claims[i].key = r.key, claims[i].recovered = r.recovered
        PROVE  FALSE
    BY <1>6 DEF UpdatePhase, IndexAllows, ActiveFor
  <1>7. OneActiveClaimPerCell'
    <2> SUFFICES ASSUME NEW i \in ClaimId, NEW j \in ClaimId,
                        claims'[i].phase \in ActivePhases,
                        claims'[j].phase \in ActivePhases,
                        claims'[i].key = claims'[j].key,
                        claims'[i].recovered = claims'[j].recovered,
                        i # j
                 PROVE  FALSE
      BY DEF OneActiveClaimPerCell, Charged, Active
    <2>1. CASE i = h.claim
      BY <1>3, <1>4, <1>6, <2>1 DEF Active
    <2>2. CASE j = h.claim
      BY <1>3, <1>4, <1>6, <2>2 DEF Active
    <2>3. CASE i # h.claim /\ j # h.claim
      BY <1>3, <2>3 DEF OneActiveClaimPerCell, Charged, Active
    <2>4. QED
      BY <2>1, <2>2, <2>3
  <1>8. QED
    BY <1>3, <1>4, <1>5, <1>7

(* What reconcile does to a row: it keeps everything but the phase, and    *)
(* makes no released row active.                                           *)
LEMMA ReconciledRows ==
  ASSUME TypeOK
  PROVE  /\ Reconciled \in [ClaimId -> Row]
         /\ \A i \in ClaimId :
              /\ Reconciled[i].key = claims[i].key
              /\ Reconciled[i].recovered = claims[i].recovered
              /\ Reconciled[i].pid = claims[i].pid
              /\ Active(i) => Reconciled[i].phase = Verdict(claims[i])
              /\ Reconciled[i].phase \in ActivePhases => Active(i)
  <1>1. ASSUME NEW i \in ClaimId
        PROVE  /\ Reconciled[i] \in Row
               /\ Reconciled[i].key = claims[i].key
               /\ Reconciled[i].recovered = claims[i].recovered
               /\ Reconciled[i].pid = claims[i].pid
               /\ Active(i) => Reconciled[i].phase = Verdict(claims[i])
               /\ Reconciled[i].phase \in ActivePhases => Active(i)
    <2>1. claims[i] \in Row
      BY DEF TypeOK
    <2>2. CASE Active(i)
      <3>1. Reconciled[i] = [claims[i] EXCEPT !.phase = Verdict(claims[i])]
        BY <2>2 DEF Reconciled
      <3>2. Verdict(claims[i]) \in Phases
        BY VerdictType
      <3>3. QED
        BY <2>1, <2>2, <3>1, <3>2 DEF Row
    <2>3. CASE ~Active(i)
      BY <2>1, <2>3 DEF Reconciled, Active
    <2>4. QED
      BY <2>2, <2>3
  <1>2. QED
    BY <1>1 DEF Reconciled
(* What the caller's step leaves behind: only its own pc moves.            *)
LEMMA AfterPc ==
  ASSUME TypeOK, NEW c \in Clients, NEW reply \in Steps, NEW lost \in Steps,
         After(c, reply, lost)
  PROVE  /\ pc' \in [Clients -> Steps]
         /\ pc'[c] \in {reply, lost}
         /\ \A d \in Clients : d # c => pc'[d] = pc[d]
  <1>1. PICK next \in {reply, lost} : pc' = [pc EXCEPT ![c] = next]
    BY DEF After
  <1>2. QED
    BY <1>1 DEF TypeOK
-----------------------------------------------------------------------------
(* The inductive invariant holds at startup with an empty table.           *)
LEMMA InitCInv == Init => CInv
  <1> SUFFICES ASSUME Init PROVE CInv
    OBVIOUS
  <1> USE CapacityAssumption DEF Init
  <1>1. TypeOK
    <2>1. claims \in [ClaimId -> Row]
      BY NoRowType
    <2>2. conn \in [Clients -> BOOLEAN]
      BY Zenon
    <2>3. /\ inserted \in 0 .. MaxClaims
          /\ idem \in [Clients -> 0 .. MaxClaims]
          /\ pc \in [Clients -> Steps]
          /\ proc \in [Brokers -> ProcStates]
          /\ releases \subseteq Handle
          /\ early \subseteq Brokers
      BY DEF Steps, ProcStates
    <2>4. held \in [Clients -> Handle]
      BY DEF NoHandle, Handle, Token
    <2>5. QED
      BY <2>1, <2>2, <2>3, <2>4 DEF TypeOK
  <1>2. OneActiveClaimPerCell
    BY DEF OneActiveClaimPerCell, Charged, Active, NoRow, ActivePhases
  <1>3. Ownership
    BY DEF Ownership, HeldIsIdem, IdemInserted, IdemDistinct, HasClaim,
           NotSpawned, NoHandle, Clients, Steps
  <1>4. IdentityDurable /\ ChargedFromIdentity
    BY DEF IdentityDurable, ChargedFromIdentity, Watched, Executing, Clients
  <1>5. ReleaseAfterCleanup
    BY DEF ReleaseAfterCleanup
  <1>6. QED
    BY <1>1, <1>2, <1>3, <1>4, <1>5 DEF IInv, CInv

(* A client that only moves on, without a request that touches the table.  *)
LEMMA PcMovesIInv ==
  ASSUME IInv, NEW c \in Clients, NEW next \in Steps \ {"identified"},
         pc' = [pc EXCEPT ![c] = next],
         UNCHANGED <<claims, inserted, idem, held, conn, proc, early>>,
         releases' \subseteq Handle,
         next \in {"idle", "done", "crashed"} \/ idem[c] # 0,
         c \in Brokers =>
           next \notin {"idle", "reserved", "preSpawn", "attempting"}
  PROVE  IInv'
  <1>1. TypeOK'
    BY DEF IInv, TypeOK
  <1>2. OneActiveClaimPerCell'
    BY DEF IInv, OneActiveClaimPerCell, Charged, Active
  <1>3. HeldIsIdem' /\ IdemInserted' /\ IdemDistinct'
    BY DEF IInv, Ownership, HeldIsIdem, IdemInserted, IdemDistinct
  <1>4. HasClaim'
    BY DEF IInv, TypeOK, Ownership, HasClaim
  <1>5. NotSpawned'
    BY DEF IInv, TypeOK, Ownership, NotSpawned, Clients
  <1>6. IdentityDurable'
    BY DEF IInv, TypeOK, IdentityDurable, Executing, Clients
  <1>7. QED
    BY <1>1, <1>2, <1>3, <1>4, <1>5, <1>6 DEF IInv, Ownership

(* A refused reservation may drop the caller's record, which no session of *)
(* the caller needs: a broker has none yet, a node's session has ended.    *)
LEMMA ReserveRefusedIInv ==
  ASSUME IInv, NEW c \in Clients, ReserveRefused(c) PROVE IInv'
  <1> USE DEF IInv
  <1>1. /\ UNCHANGED <<claims, inserted, held, conn, proc, releases, early>>
        /\ pc[c] = "idle"
    BY DEF ReserveRefused
  <1>2. /\ pc' \in [Clients -> Steps]
        /\ pc'[c] \in {"idle", "done"}
        /\ c \in Brokers => pc'[c] = "done"
        /\ \A d \in Clients : d # c => pc'[d] = pc[d]
    BY DEF ReserveRefused, TypeOK, Steps
  <1>3. /\ idem' \in [Clients -> 0 .. MaxClaims]
        /\ \A d \in Clients : idem'[d] = idem[d] \/ idem'[d] = 0
        /\ \A d \in Clients : d # c => idem'[d] = idem[d]
    BY CapacityAssumption DEF ReserveRefused, TypeOK
  <1>4. TypeOK'
    BY <1>1, <1>2, <1>3 DEF TypeOK
  <1>5. OneActiveClaimPerCell'
    BY <1>1 DEF OneActiveClaimPerCell, Charged, Active
  <1>6. HeldIsIdem' /\ IdemInserted' /\ IdemDistinct'
    BY <1>1, <1>3 DEF TypeOK, Ownership, HeldIsIdem, IdemInserted, IdemDistinct
  <1>7. HasClaim' /\ NotSpawned'
    BY <1>1, <1>2, <1>3 DEF Ownership, HasClaim, NotSpawned, Clients
  <1>8. IdentityDurable'
    <2> SUFFICES ASSUME NEW b \in Brokers,
                        pc'[b] = "identified" \/ Executing(b)'
                 PROVE  idem'[b] # 0 /\ claims'[idem'[b]].pid = b
      BY DEF IdentityDurable
    <2>1. b # c
      BY <1>1, <1>2 DEF Ownership, NotSpawned, Executing
    <2>2. QED
      BY <1>1, <1>2, <1>3, <2>1 DEF IdentityDurable, Executing, Clients
  <1>9. QED
    BY <1>4, <1>5, <1>6, <1>7, <1>8 DEF Ownership

(* The outer finally begins.  Finish, SendRelease, ReleaseTimeout,         *)
(* ClientCrash and Rerun only move the caller on.                          *)
LEMMA FinishIInv ==
  ASSUME IInv, NEW c \in Clients, Finish(c) PROVE IInv'
  BY PcMovesIInv DEF Finish, IInv, TypeOK, Steps, Ownership, HasClaim

(* The release request leaves.                                             *)
LEMMA SendReleaseIInv ==
  ASSUME IInv, NEW c \in Clients, SendRelease(c) PROVE IInv'
  <1> DEFINE next == IF conn[c] THEN "releasing" ELSE "done"
  <1>1. releases' \subseteq Handle
    BY DEF SendRelease, IInv, TypeOK
  <1>2. next \in Steps \ {"identified"} /\ idem[c] # 0
    BY DEF SendRelease, IInv, Ownership, HasClaim, Steps
  <1>3. pc' = [pc EXCEPT ![c] = next]
    BY DEF SendRelease
  <1>4. QED
    BY <1>1, <1>2, <1>3, PcMovesIInv DEF SendRelease

(* The caller of a release gives up waiting.                               *)
LEMMA ReleaseTimeoutIInv ==
  ASSUME IInv, NEW c \in Clients, ReleaseTimeout(c) PROVE IInv'
  BY PcMovesIInv DEF ReleaseTimeout, IInv, TypeOK, Steps

(* A client process dies.                                                  *)
LEMMA ClientCrashIInv ==
  ASSUME IInv, NEW c \in Clients, ClientCrash(c) PROVE IInv'
  BY PcMovesIInv DEF ClientCrash, IInv, TypeOK, Steps

(* A node is run again under its old idempotency key.                      *)
LEMMA RerunIInv ==
  ASSUME IInv, NEW s \in Schedulers, Rerun(s) PROVE IInv'
  BY PcMovesIInv, CapacityAssumption DEF Rerun, IInv, TypeOK, Steps, Clients
(* The launcher starts: no go token yet, so nothing executes.              *)
LEMMA SpawnLauncherIInv ==
  ASSUME IInv, NEW b \in Brokers, SpawnLauncher(b) PROVE IInv'
  <1> USE DEF IInv, SpawnLauncher, Clients
  <1>1. TypeOK'
    BY DEF TypeOK, Steps, ProcStates
  <1>2. OneActiveClaimPerCell'
    BY DEF OneActiveClaimPerCell, Charged, Active
  <1>3. HeldIsIdem' /\ IdemInserted' /\ IdemDistinct'
    BY DEF Ownership, HeldIsIdem, IdemInserted, IdemDistinct
  <1>4. HasClaim' /\ NotSpawned'
    BY DEF TypeOK, Ownership, HasClaim, NotSpawned, Steps
  <1>5. IdentityDurable'
    BY DEF TypeOK, IdentityDurable, Executing
  <1>6. QED
    BY <1>1, <1>2, <1>3, <1>4, <1>5 DEF Ownership

(* The go token after the attach: the identity was committed before.       *)
LEMMA AttachAndGoIInv ==
  ASSUME IInv, NEW b \in Brokers, AttachAndGo(b) PROVE IInv'
  <1> USE DEF IInv, AttachAndGo, Clients
  <1>1. TypeOK'
    BY DEF TypeOK, Steps, ProcStates
  <1>2. OneActiveClaimPerCell'
    BY DEF OneActiveClaimPerCell, Charged, Active
  <1>3. HeldIsIdem' /\ IdemInserted' /\ IdemDistinct'
    BY DEF Ownership, HeldIsIdem, IdemInserted, IdemDistinct
  <1>4. HasClaim' /\ NotSpawned'
    BY DEF TypeOK, Ownership, HasClaim, NotSpawned, Steps
  <1>5. IdentityDurable'
    BY DEF TypeOK, IdentityDurable, Executing
  <1>6. QED
    BY <1>1, <1>2, <1>3, <1>4, <1>5 DEF Ownership

(* A process exits, or leaves orphans where it ran before.                 *)
LEMMA ProcessExitIInv ==
  ASSUME IInv, NEW b \in Brokers, ProcessExit(b) PROVE IInv'
  <1> USE DEF IInv, ProcessExit, Clients
  <1>1. TypeOK'
    BY DEF TypeOK, Steps, ProcStates
  <1>2. OneActiveClaimPerCell'
    BY DEF OneActiveClaimPerCell, Charged, Active
  <1>3. HeldIsIdem' /\ IdemInserted' /\ IdemDistinct'
    BY DEF Ownership, HeldIsIdem, IdemInserted, IdemDistinct
  <1>4. HasClaim' /\ NotSpawned'
    BY DEF TypeOK, Ownership, HasClaim, NotSpawned, Steps
  <1>5. IdentityDurable'
    BY DEF TypeOK, IdentityDurable, Executing
  <1>6. QED
    BY <1>1, <1>2, <1>3, <1>4, <1>5 DEF Ownership

(* reportPhase for the two phases before the spawn.                        *)
LEMMA ReportIInv ==
  ASSUME IInv, NEW b \in Brokers,
         NEW from \in {"reserved", "preSpawn"},
         NEW to \in {"preSpawn", "attempting"},
         NEW phase \in ActivePhases,
         Report(b, from, to, phase)
  PROVE  IInv'
  <1> USE DEF IInv, Report, Clients
  <1>1. held[b] \in Handle /\ held[b].claim = idem[b] /\ idem[b] # 0
    BY DEF TypeOK, Ownership, HeldIsIdem, HasClaim, Steps
  <1>2. /\ claims' \in [ClaimId -> Row]
        /\ \A i \in ClaimId : i # idem[b] => claims'[i] = claims[i]
        /\ claims'[idem[b]].pid = claims[idem[b]].pid
        /\ OneActiveClaimPerCell'
    BY <1>1, UpdatePhaseRows
  <1>3. /\ pc' \in [Clients -> Steps]
        /\ pc'[b] \in {to, "cleanup"}
        /\ \A d \in Clients : d # b => pc'[d] = pc[d]
    BY AfterPc DEF Steps
  <1>4. TypeOK'
    BY <1>2, <1>3 DEF TypeOK
  <1>5. Ownership'
    BY <1>1, <1>3 DEF TypeOK, Ownership, HeldIsIdem, IdemInserted,
       IdemDistinct, HasClaim, NotSpawned, Steps
  <1>6. IdentityDurable'
    BY <1>2, <1>3 DEF TypeOK, IdentityDurable, Executing, ClaimId
  <1>7. QED
    BY <1>2, <1>4, <1>5, <1>6

(* The identity commit writes the broker's own row and no other.           *)
LEMMA CommitIdentityIInv ==
  ASSUME IInv, NEW b \in Brokers, CommitIdentity(b) PROVE IInv'
  <1> USE DEF IInv, CommitIdentity, Clients
  <1>1. held[b] \in Handle /\ held[b].claim = idem[b] /\ idem[b] # 0
    BY DEF TypeOK, Ownership, HeldIsIdem, HasClaim, Steps
  <1>2. /\ claims' \in [ClaimId -> Row]
        /\ \A i \in ClaimId : i # idem[b] => claims'[i] = claims[i]
        /\ claims'[idem[b]].pid = b
        /\ OneActiveClaimPerCell'
    BY <1>1, UpdatePhaseRows, CapacityAssumption DEF ActivePhases
  <1>3. /\ pc' \in [Clients -> Steps]
        /\ pc'[b] \in {"identified", "cleanup"}
        /\ \A d \in Clients : d # b => pc'[d] = pc[d]
    BY AfterPc DEF Steps
  <1>4. TypeOK'
    BY <1>2, <1>3 DEF TypeOK
  <1>5. Ownership'
    BY <1>1, <1>3 DEF TypeOK, Ownership, HeldIsIdem, IdemInserted,
       IdemDistinct, HasClaim, NotSpawned, Steps
  <1>6. ASSUME NEW d \in Brokers, d # b, idem[d] # 0
        PROVE  claims'[idem[d]] = claims[idem[d]]
    BY <1>1, <1>2, <1>6 DEF TypeOK, Ownership, IdemDistinct, ClaimId
  <1>7. IdentityDurable'
    BY <1>1, <1>2, <1>3, <1>6 DEF TypeOK, IdentityDurable, Executing
  <1>8. QED
    BY <1>2, <1>4, <1>5, <1>7

(* The go token of a broker without a cgroup.                              *)
LEMMA ExecuteAndGoIInv ==
  ASSUME IInv, NEW b \in Brokers, ExecuteAndGo(b) PROVE IInv'
  <1> USE DEF IInv, ExecuteAndGo, Clients
  <1>1. held[b] \in Handle /\ held[b].claim = idem[b] /\ idem[b] # 0
    BY DEF TypeOK, Ownership, HeldIsIdem, HasClaim, Steps
  <1>2. /\ claims' \in [ClaimId -> Row]
        /\ \A i \in ClaimId : i # idem[b] => claims'[i] = claims[i]
        /\ claims'[idem[b]].pid = claims[idem[b]].pid
        /\ OneActiveClaimPerCell'
    BY <1>1, UpdatePhaseRows DEF ActivePhases
  <1>3. /\ pc' \in [Clients -> Steps]
        /\ pc'[b] \in {"executing", "cleanup"}
        /\ \A d \in Clients : d # b => pc'[d] = pc[d]
    BY AfterPc DEF Steps
  <1>4. /\ proc' \in [Brokers -> ProcStates]
        /\ proc'[b] \in {"launcher", "running"}
        /\ \A d \in Brokers : d # b => proc'[d] = proc[d]
    BY DEF TypeOK, ProcStates
  <1>5. TypeOK'
    BY <1>2, <1>3, <1>4 DEF TypeOK
  <1>6. Ownership'
    BY <1>1, <1>3, <1>4 DEF TypeOK, Ownership, HeldIsIdem, IdemInserted,
       IdemDistinct, HasClaim, NotSpawned, Steps
  <1>7. IdentityDurable'
    BY <1>1, <1>2, <1>3, <1>4 DEF TypeOK, IdentityDurable, Executing, ClaimId
  <1>8. QED
    BY <1>2, <1>5, <1>6, <1>7
(* A rekey rotates the token of the caller's own active row.               *)
LEMMA RekeyIInv ==
  ASSUME IInv, NEW c \in Clients, Reserve(c), Rekey(c) PROVE IInv'
  <1> USE DEF IInv, Reserve, Rekey, Rekeyable
  <1> DEFINE k == idem[c]
  <1>1. k \in ClaimId /\ claims[k] \in Row /\ claims[k].token + 1 \in Token
    BY CapacityAssumption DEF TypeOK, ClaimId, Row, Token
  <1>2. /\ claims'[k] = [claims[k] EXCEPT !.token = claims[k].token + 1]
        /\ \A i \in ClaimId : i # k => claims'[i] = claims[i]
        /\ claims' = [i \in ClaimId |-> claims'[i]]
    BY <1>1 DEF TypeOK
  <1>3. \A i \in ClaimId : /\ claims'[i] \in Row
                           /\ claims'[i].phase = claims[i].phase
                           /\ claims'[i].key = claims[i].key
                           /\ claims'[i].recovered = claims[i].recovered
                           /\ claims'[i].pid = claims[i].pid
    BY <1>1, <1>2 DEF TypeOK, Row
  <1>4. /\ pc' \in [Clients -> Steps]
        /\ pc'[c] \in {"reserved", "done"}
        /\ \A d \in Clients : d # c => pc'[d] = pc[d]
    BY AfterPc DEF Steps
  <1>5. /\ held' \in [Clients -> Handle]
        /\ held'[c].claim = k
        /\ \A d \in Clients : d # c => held'[d] = held[d]
    BY <1>1 DEF TypeOK, Handle
  <1>6. TypeOK'
    BY <1>2, <1>3, <1>4, <1>5 DEF TypeOK
  <1>7. OneActiveClaimPerCell'
    BY <1>3 DEF OneActiveClaimPerCell, Charged, Active
  <1>8. HeldIsIdem' /\ IdemInserted' /\ IdemDistinct'
    BY <1>5 DEF Ownership, HeldIsIdem, IdemInserted, IdemDistinct
  <1>9. HasClaim' /\ NotSpawned'
    BY <1>1, <1>4 DEF TypeOK, Ownership, HasClaim, NotSpawned, Steps, Clients
  <1>10. IdentityDurable'
    BY <1>3, <1>4 DEF TypeOK, IdentityDurable, Executing, ClaimId, Clients
  <1>11. QED
    BY <1>6, <1>7, <1>8, <1>9, <1>10 DEF Ownership

(* A fresh row lies above every row a client points at, and its pair has   *)
(* no active claim: a claim of the caller's own would have been rekeyed.   *)
LEMMA ReserveFreshIInv ==
  ASSUME IInv, NEW c \in Clients, Reserve(c), ReserveFresh(c) PROVE IInv'
  <1> USE DEF IInv, Reserve, ReserveFresh
  <1> DEFINE k == inserted + 1
             row == [key |-> Key[c], recovered |-> None, phase |-> "RESERVED",
                     token |-> 1, pid |-> None]
  <1>1. k \in ClaimId /\ k \in 0 .. MaxClaims /\ row \in Row
    <2>1. k \in ClaimId /\ k \in 0 .. MaxClaims /\ 1 \in Token
      BY CapacityAssumption DEF TypeOK, ClaimId, Token
    <2>2. Key[c] \in Keys
      BY CapacityAssumption
    <2>3. QED
      BY <2>1, <2>2 DEF Row, Phases, ActivePhases
  <1>2. /\ claims'[k] = row
        /\ \A i \in ClaimId : i # k => claims'[i] = claims[i]
        /\ claims' = [i \in ClaimId |-> claims'[i]]
    BY <1>1 DEF TypeOK
  <1>3. /\ pc' \in [Clients -> Steps]
        /\ pc'[c] \in {"reserved", "done"}
        /\ \A d \in Clients : d # c => pc'[d] = pc[d]
    BY AfterPc DEF Steps
  <1>4. /\ held' \in [Clients -> Handle]
        /\ held'[c].claim = k
        /\ \A d \in Clients : d # c => held'[d] = held[d]
    BY <1>1, CapacityAssumption DEF TypeOK, Handle, Token
  <1>5. /\ idem' \in [Clients -> 0 .. MaxClaims]
        /\ idem'[c] = k
        /\ \A d \in Clients : d # c => idem'[d] = idem[d]
        /\ \A d \in Clients : idem[d] # k
    BY <1>1 DEF TypeOK, Ownership, IdemInserted
  <1>6. TypeOK'
    BY <1>1, <1>2, <1>3, <1>4, <1>5 DEF TypeOK
  <1>7. \A i \in ClaimId : ~(/\ Active(i)
                             /\ claims[i].key = Key[c]
                             /\ claims[i].recovered = None)
    BY DEF DoubleAcquire, Rekeyable, ActiveFor, ClaimId
  <1>8. OneActiveClaimPerCell'
    <2> SUFFICES ASSUME NEW i \in ClaimId, NEW j \in ClaimId,
                        claims'[i].phase \in ActivePhases,
                        claims'[j].phase \in ActivePhases,
                        claims'[i].key = claims'[j].key,
                        claims'[i].recovered = claims'[j].recovered,
                        i # j
                 PROVE  FALSE
      BY DEF OneActiveClaimPerCell, Charged, Active
    <2>1. CASE i = k
      BY <1>2, <1>7, <2>1 DEF Active
    <2>2. CASE j = k
      BY <1>2, <1>7, <2>2 DEF Active
    <2>3. CASE i # k /\ j # k
      BY <1>2, <2>3 DEF OneActiveClaimPerCell, Charged, Active
    <2>4. QED
      BY <2>1, <2>2, <2>3
  <1>9. HeldIsIdem' /\ IdemInserted' /\ IdemDistinct'
    BY <1>4, <1>5 DEF TypeOK, Ownership, HeldIsIdem, IdemInserted, IdemDistinct
  <1>10. HasClaim' /\ NotSpawned'
    BY <1>1, <1>3, <1>5 DEF TypeOK, Ownership, HasClaim, NotSpawned, Steps,
       Clients, ClaimId
  <1>11. IdentityDurable'
    <2> SUFFICES ASSUME NEW b \in Brokers,
                        pc'[b] = "identified" \/ Executing(b)'
                 PROVE  idem'[b] # 0 /\ claims'[idem'[b]].pid = b
      BY DEF IdentityDurable
    <2>1. b # c
      BY <1>3 DEF Ownership, NotSpawned, Executing
    <2>2. idem[b] # 0 /\ claims[idem[b]].pid = b
      BY <1>3, <2>1 DEF IdentityDurable, Executing, Clients
    <2>3. QED
      BY <1>2, <1>5, <2>1, <2>2 DEF TypeOK, ClaimId, Clients
  <1>12. QED
    BY <1>6, <1>8, <1>9, <1>10, <1>11 DEF Ownership

(* What a release does to the table: at most one phase changes, and only   *)
(* the unique index lets it become active.                                 *)
LEMMA ReleaseRows ==
  ASSUME TypeOK, OneActiveClaimPerCell,
         NEW h \in releases, ReleaseRequested(h)
  PROVE  /\ claims' \in [ClaimId -> Row]
         /\ \A i \in ClaimId : claims'[i].pid = claims[i].pid
         /\ \A i \in ClaimId :
              \/ claims'[i] = claims[i]
              \/ i = h.claim /\ claims'[i].phase = Verdict(claims[i])
         /\ OneActiveClaimPerCell'
  <1> DEFINE r == claims[h.claim]
  <1>1. CASE claims' = claims
    BY <1>1 DEF TypeOK, OneActiveClaimPerCell, Charged, Active
  <1>2. CASE h.claim \notin ClaimId
    BY <1>1, <1>2 DEF TypeOK, ReleaseRequested
  <1>3. CASE claims' # claims /\ h.claim \in ClaimId
    <2>1. /\ claims' = [claims EXCEPT ![h.claim].phase = Verdict(r)]
          /\ Verdict(r) = "RELEASED" \/ IndexAllows(h.claim)
      BY <1>3 DEF ReleaseRequested
    <2>2. r \in Row /\ Verdict(r) \in Phases
      BY <1>3, VerdictType DEF TypeOK
    <2>3. /\ claims'[h.claim] = [r EXCEPT !.phase = Verdict(r)]
          /\ \A i \in ClaimId : i # h.claim => claims'[i] = claims[i]
          /\ claims' = [i \in ClaimId |-> claims'[i]]
      BY <1>3, <2>1 DEF TypeOK
    <2>4. /\ claims'[h.claim] \in Row
          /\ claims'[h.claim].key = r.key
          /\ claims'[h.claim].recovered = r.recovered
          /\ claims'[h.claim].pid = r.pid
          /\ claims'[h.claim].phase = Verdict(r)
      BY <2>2, <2>3 DEF Row
    <2>5. claims' \in [ClaimId -> Row]
      BY <2>3, <2>4 DEF TypeOK
    <2>6. OneActiveClaimPerCell'
      <3> SUFFICES ASSUME NEW i \in ClaimId, NEW j \in ClaimId,
                          claims'[i].phase \in ActivePhases,
                          claims'[j].phase \in ActivePhases,
                          claims'[i].key = claims'[j].key,
                          claims'[i].recovered = claims'[j].recovered,
                          i # j
                   PROVE  FALSE
        BY DEF OneActiveClaimPerCell, Charged, Active
      <3>1. ASSUME NEW m \in ClaimId, m # h.claim, Active(m),
                   claims[m].key = r.key, claims[m].recovered = r.recovered,
                   Verdict(r) # "RELEASED"
            PROVE  FALSE
        BY <2>1, <3>1 DEF IndexAllows, ActiveFor
      <3>2. CASE i = h.claim
        BY <2>3, <2>4, <3>1, <3>2 DEF Active, ActivePhases
      <3>3. CASE j = h.claim
        BY <2>3, <2>4, <3>1, <3>3 DEF Active, ActivePhases
      <3>4. CASE i # h.claim /\ j # h.claim
        BY <2>3, <3>4 DEF OneActiveClaimPerCell, Charged, Active
      <3>5. QED
        BY <3>2, <3>3, <3>4
    <2>7. QED
      BY <2>3, <2>4, <2>5, <2>6
  <1>4. QED
    BY <1>1, <1>2, <1>3

(* A release that arrives, in time or late.                                *)
LEMMA ReleaseRequestedIInv ==
  ASSUME IInv, NEW h \in releases, ReleaseRequested(h) PROVE IInv'
  <1> USE DEF IInv
  <1>1. /\ claims' \in [ClaimId -> Row]
        /\ \A i \in ClaimId : claims'[i].pid = claims[i].pid
        /\ OneActiveClaimPerCell'
    BY ReleaseRows
  <1>2. /\ pc' \in [Clients -> Steps]
        /\ \A c \in Clients : pc'[c] # pc[c] => pc'[c] = "done"
    BY DEF ReleaseRequested, TypeOK, Steps
  <1>3. TypeOK'
    BY <1>1, <1>2 DEF ReleaseRequested, TypeOK
  <1>4. HeldIsIdem' /\ IdemInserted' /\ IdemDistinct'
    BY DEF ReleaseRequested, Ownership, HeldIsIdem, IdemInserted, IdemDistinct
  <1>5. HasClaim' /\ NotSpawned'
    BY <1>2 DEF ReleaseRequested, Ownership, HasClaim, NotSpawned, Steps, Clients
  <1>6. IdentityDurable'
    BY <1>1, <1>2 DEF ReleaseRequested, TypeOK, IdentityDurable, Executing,
       ClaimId, Clients
  <1>7. QED
    BY <1>1, <1>3, <1>4, <1>5, <1>6 DEF Ownership

(* A reconcile pass keeps the identities and activates nothing.            *)
LEMMA ReconcileIInv == ASSUME IInv, Reconcile PROVE IInv'
  <1> USE DEF IInv
  <1>1. /\ claims' \in [ClaimId -> Row]
        /\ \A i \in ClaimId :
             /\ claims'[i].key = claims[i].key
             /\ claims'[i].recovered = claims[i].recovered
             /\ claims'[i].pid = claims[i].pid
             /\ claims'[i].phase \in ActivePhases => Active(i)
    BY ReconciledRows DEF Reconcile
  <1>2. TypeOK'
    BY <1>1, CapacityAssumption DEF Reconcile, Unattached, TypeOK
  <1>3. OneActiveClaimPerCell'
    BY <1>1 DEF OneActiveClaimPerCell, Charged, Active
  <1>4. Ownership'
    BY DEF Reconcile, Ownership, HeldIsIdem, IdemInserted, IdemDistinct,
       HasClaim, NotSpawned
  <1>5. IdentityDurable'
    BY <1>1 DEF Reconcile, TypeOK, IdentityDurable, Executing, ClaimId, Clients
  <1>6. QED
    BY <1>2, <1>3, <1>4, <1>5
(* What a restart does to the table: rows that existed are reconciled, and *)
(* a row charged by recovery is the first active one of its cell.          *)
LEMMA RestartRows ==
  ASSUME TypeOK, OneActiveClaimPerCell, Restart
  PROVE  /\ claims' \in [ClaimId -> Row]
         /\ inserted' \in 0 .. MaxClaims /\ inserted <= inserted'
         /\ \A i \in ClaimId : i <= inserted => claims'[i] = Reconciled[i]
         /\ OneActiveClaimPerCell'
  <1>1. PICK cells \in SUBSET {b \in Local \cap Delegated :
                                 proc[b] \in {"attached", "orphans"}} :
          LET n == Cardinality(Recoverable(cells)) IN
          /\ inserted + n <= MaxClaims
          /\ inserted' = inserted + n
          /\ \E order \in [Recoverable(cells) -> 1 .. n] :
               /\ \A x, y \in Recoverable(cells) : order[x] = order[y] => x = y
               /\ claims' = [i \in ClaimId |->
                    IF \E b \in Recoverable(cells) : i = inserted + order[b]
                    THEN LET b == CHOOSE x \in Recoverable(cells) :
                                           i = inserted + order[x]
                         IN [key |-> Key[b], recovered |-> b,
                             phase |-> "QUARANTINED", token |-> 0, pid |-> None]
                    ELSE Reconciled[i]]
    BY Zenon DEF Restart
  <1> DEFINE R == Recoverable(cells)
             n == Cardinality(R)
             New(b) == [key |-> Key[b], recovered |-> b,
                        phase |-> "QUARANTINED", token |-> 0, pid |-> None]
  <1>2. R \subseteq Brokers
    BY CapacityAssumption DEF Recoverable
  <1>3. n \in Nat
    <2>1. IsFiniteSet(R)
      BY <1>2, CapacityAssumption, FS_Subset
    <2>2. QED
      BY <2>1, FS_CardinalityType
  <1>4. inserted' \in 0 .. MaxClaims /\ inserted <= inserted'
    BY <1>1, <1>3, CapacityAssumption DEF TypeOK
  <1>5. PICK order \in [R -> 1 .. n] :
          claims' = [i \in ClaimId |->
                       IF \E b \in R : i = inserted + order[b]
                       THEN New(CHOOSE x \in R : i = inserted + order[x])
                       ELSE Reconciled[i]]
    BY <1>1
  <1>6. ASSUME NEW i \in ClaimId
        PROVE  \/ claims'[i] = Reconciled[i]
               \/ \E b \in R : i = inserted + order[b] /\ claims'[i] = New(b)
    <2>1. CASE \E b \in R : i = inserted + order[b]
      <3> DEFINE d == CHOOSE x \in R : i = inserted + order[x]
      <3>1. d \in R /\ i = inserted + order[d]
        BY <2>1
      <3>2. claims'[i] = New(d)
        BY <1>5, <2>1
      <3> HIDE DEF d
      <3>3. QED
        BY <3>1, <3>2
    <2>2. CASE ~\E b \in R : i = inserted + order[b]
      BY <1>5, <2>2
    <2>3. QED
      BY <2>1, <2>2
  <1>7. \A i \in ClaimId : i <= inserted => claims'[i] = Reconciled[i]
    <2> SUFFICES ASSUME NEW i \in ClaimId, i <= inserted,
                        NEW b \in R, i = inserted + order[b]
                 PROVE  FALSE
      BY <1>6
    <2>1. order[b] \in 1 .. n
      BY <1>5
    <2>2. QED
      BY <1>3, <2>1 DEF TypeOK
  <1>8. \A b \in R : New(b) \in Row
    <2> TAKE b \in R
    <2>1. b \in Brokers /\ Key[b] \in Keys
      BY <1>2, CapacityAssumption DEF Clients
    <2>2. 0 \in Token
      BY CapacityAssumption DEF Token
    <2>3. QED
      BY <2>1, <2>2 DEF Row, Phases, ActivePhases
  <1>9. claims' \in [ClaimId -> Row]
    <2>1. \A i \in ClaimId : claims'[i] \in Row
      BY <1>6, <1>8, ReconciledRows
    <2>2. claims' = [i \in ClaimId |-> claims'[i]]
      BY <1>5
    <2>3. QED
      BY <2>1, <2>2
  <1>10. \A b \in R : \A i \in ClaimId :
           ~(Active(i) /\ claims[i].key = Key[b] /\ claims[i].recovered = b)
    BY DEF Recoverable, ActiveFor
  <1>11. OneActiveClaimPerCell'
    <2> SUFFICES ASSUME NEW i \in ClaimId, NEW j \in ClaimId,
                        claims'[i].phase \in ActivePhases,
                        claims'[j].phase \in ActivePhases,
                        claims'[i].key = claims'[j].key,
                        claims'[i].recovered = claims'[j].recovered,
                        i # j
                 PROVE  FALSE
      BY DEF OneActiveClaimPerCell, Charged, Active
    <2>1. CASE claims'[i] = Reconciled[i] /\ claims'[j] = Reconciled[j]
      BY <2>1, ReconciledRows DEF OneActiveClaimPerCell, Charged
    <2>2. ASSUME NEW b \in R, i = inserted + order[b], claims'[i] = New(b),
                 claims'[j] = Reconciled[j]
          PROVE  FALSE
      BY <1>10, <2>2, ReconciledRows
    <2>3. ASSUME NEW b \in R, j = inserted + order[b], claims'[j] = New(b),
                 claims'[i] = Reconciled[i]
          PROVE  FALSE
      BY <1>10, <2>3, ReconciledRows
    <2>4. ASSUME NEW b \in R, i = inserted + order[b], claims'[i] = New(b),
                 NEW d \in R, j = inserted + order[d], claims'[j] = New(d)
          PROVE  FALSE
      BY <2>4
    <2>5. QED
      BY <1>6, <2>1, <2>2, <2>3, <2>4
  <1>12. QED
    BY <1>4, <1>7, <1>9, <1>11

(* The daemon restarts: the rows clients point at keep their identity.     *)
LEMMA RestartIInv == ASSUME IInv, Restart PROVE IInv'
  <1> USE DEF IInv
  <1>1. /\ claims' \in [ClaimId -> Row]
        /\ inserted' \in 0 .. MaxClaims /\ inserted <= inserted'
        /\ \A i \in ClaimId : i <= inserted => claims'[i] = Reconciled[i]
        /\ OneActiveClaimPerCell'
    BY RestartRows
  <1>2. /\ pc' \in [Clients -> Steps]
        /\ \A c \in Clients : pc'[c] # pc[c] => pc'[c] = "crashed"
        /\ releases' \subseteq Handle
    BY DEF Restart, TypeOK, Steps
  <1>3. conn' \in [Clients -> BOOLEAN]
    BY Zenon DEF Restart
  <1>4. UNCHANGED <<idem, held, proc>>
    BY DEF Restart
  <1>5. TypeOK'
    <2>1. early' \subseteq Brokers
      BY CapacityAssumption DEF Restart, Unattached, TypeOK
    <2>2. QED
      BY <1>1, <1>2, <1>3, <1>4, <2>1 DEF TypeOK
  <1>6. HeldIsIdem' /\ IdemInserted' /\ IdemDistinct'
    BY <1>1, <1>4 DEF TypeOK, Ownership, HeldIsIdem, IdemInserted, IdemDistinct
  <1>7. HasClaim' /\ NotSpawned'
    BY <1>2, <1>4 DEF Ownership, HasClaim, NotSpawned, Steps, Clients
  <1>8. IdentityDurable'
    <2> SUFFICES ASSUME NEW b \in Brokers,
                        pc'[b] = "identified" \/ Executing(b)'
                 PROVE  idem'[b] # 0 /\ claims'[idem'[b]].pid = b
      BY DEF IdentityDurable
    <2>1. idem[b] # 0 /\ claims[idem[b]].pid = b
      BY <1>2, <1>4 DEF IdentityDurable, Executing, Clients
    <2>2. idem[b] \in ClaimId /\ idem[b] <= inserted
      BY <2>1 DEF TypeOK, Ownership, IdemInserted, ClaimId, Clients
    <2>3. QED
      BY <1>1, <1>4, <2>1, <2>2, ReconciledRows
  <1>9. QED
    BY <1>1, <1>5, <1>6, <1>7, <1>8 DEF Ownership
(* Every step, and stuttering, preserves the inductive invariant.          *)
LEMMA NextIInv == IInv /\ [Next]_vars => IInv'
  <1> SUFFICES ASSUME IInv, [Next]_vars PROVE IInv'
    OBVIOUS
  <1>1. ASSUME NEW b \in Brokers, BrokerStep(b) PROVE IInv'
    <2>1. CASE PreSpawn(b)
      BY <2>1, ReportIInv DEF PreSpawn, ActivePhases
    <2>2. CASE SpawnAttempting(b)
      BY <2>2, ReportIInv DEF SpawnAttempting, ActivePhases
    <2>3. QED
      BY <1>1, <2>1, <2>2, SpawnLauncherIInv, CommitIdentityIInv,
         AttachAndGoIInv, ExecuteAndGoIInv, ProcessExitIInv DEF BrokerStep
  <1>2. ASSUME NEW c \in Clients, ClientStep(c) PROVE IInv'
    <2>1. CASE Reserve(c)
      BY <2>1, RekeyIInv, ReserveFreshIInv DEF Reserve
    <2>2. QED
      BY <1>2, <2>1, ReserveRefusedIInv, FinishIInv, SendReleaseIInv,
         ReleaseTimeoutIInv, ClientCrashIInv DEF ClientStep
  <1>3. CASE UNCHANGED vars
    BY <1>3 DEF vars, IInv, TypeOK, OneActiveClaimPerCell, Charged, Active,
       Ownership, HeldIsIdem, IdemInserted, IdemDistinct, HasClaim, NotSpawned,
       IdentityDurable, Executing
  <1>4. QED
    BY <1>1, <1>2, <1>3, RerunIInv, ReleaseRequestedIInv, ReconcileIInv,
       RestartIInv DEF Next

(* The inductive invariant holds in every state.                           *)
LEMMA AlwaysIInv == Spec => []IInv
  <1>1. Init => IInv
    BY InitCInv DEF CInv
  <1>2. QED
    BY <1>1, NextIInv, PTL DEF Spec

(***************************************************************************)
(* Every row, record, phase and request keeps its type, whatever is        *)
(* rekeyed, reconciled, released late or charged by recovery.              *)
(***************************************************************************)
THEOREM TypeCorrect == Spec => []TypeOK
  <1>1. IInv => TypeOK
    BY DEF IInv
  <1>2. QED
    BY <1>1, AlwaysIInv, PTL

(***************************************************************************)
(* For any number of clients of the same (run, cell) pair, reserve, rekey, *)
(* updatePhase, late releases, reconcile and startup recovery never leave  *)
(* the pair with two active claims.                                        *)
(***************************************************************************)
THEOREM NoDoubleAcquire == Spec => []OneActiveClaimPerCell
  <1>1. IInv => OneActiveClaimPerCell
    BY DEF IInv
  <1>2. QED
    BY <1>1, AlwaysIInv, PTL

(***************************************************************************)
(* No process runs past its go token unless its pid is durable in the very *)
(* claim its broker holds, through lost replies, crashes and restarts.     *)
(***************************************************************************)
THEOREM IdentityBeforeExec == Spec => []ExecOnlyWithIdentity
  <1>1. IInv => ExecOnlyWithIdentity
    BY DEF IInv, ExecOnlyWithIdentity, IdentityDurable, Ownership, HeldIsIdem,
       Clients
  <1>2. QED
    BY <1>1, AlwaysIInv, PTL
-----------------------------------------------------------------------------
(* A release request on its way belongs to a session that has ended.       *)
LEMMA ReleaseAfterCleanupNext ==
  ASSUME CInv, Next PROVE ReleaseAfterCleanup'
  <1> USE DEF CInv, IInv, ReleaseAfterCleanup, Ownership
  <1>1. ASSUME NEW b \in Brokers, BrokerStep(b) PROVE ReleaseAfterCleanup'
    <2>1. /\ UNCHANGED <<inserted, idem, releases>>
          /\ \A d \in Brokers :
               pc[d] \in {"releasing", "done", "crashed"} => pc'[d] = pc[d]
      <3> USE DEF TypeOK, Clients
      <3>1. CASE PreSpawn(b) \/ SpawnAttempting(b)
        BY <3>1, AfterPc DEF PreSpawn, SpawnAttempting, Report, Steps
      <3>2. CASE CommitIdentity(b)
        BY <3>2, AfterPc DEF CommitIdentity, Steps
      <3>3. CASE ExecuteAndGo(b)
        BY <3>3, AfterPc DEF ExecuteAndGo, Steps
      <3>4. CASE SpawnLauncher(b) \/ AttachAndGo(b) \/ ProcessExit(b)
        BY <3>4 DEF SpawnLauncher, AttachAndGo, ProcessExit
      <3>5. QED
        BY <1>1, <3>1, <3>2, <3>3, <3>4 DEF BrokerStep
    <2>2. QED
      BY <2>1
  <1>2. ASSUME NEW c \in Clients, Reserve(c) PROVE ReleaseAfterCleanup'
    <2>1. \A d \in Clients : d # c => pc'[d] = pc[d] /\ idem'[d] = idem[d]
      BY <1>2, AfterPc DEF Reserve, Rekey, ReserveFresh, Steps, TypeOK
    <2>2. CASE Rekey(c)
      BY <1>2, <2>1, <2>2 DEF Reserve, Rekey, Rekeyable, NotSpawned, Clients
    <2>3. CASE ReserveFresh(c)
      <3>1. idem'[c] = inserted + 1 /\ inserted' = inserted + 1
        BY <2>3 DEF ReserveFresh, TypeOK
      <3>2. \A h \in releases : h.claim <= inserted /\ h.claim \in Nat
        BY DEF TypeOK, Handle
      <3>3. QED
        BY <1>2, <2>1, <3>1, <3>2 DEF Reserve, TypeOK, Clients
    <2>4. QED
      BY <1>2, <2>2, <2>3 DEF Reserve
  <1>3. ASSUME NEW c \in Clients, SendRelease(c) PROVE ReleaseAfterCleanup'
    <2>1. held[c].claim = idem[c] /\ idem[c] <= inserted /\ idem[c] # 0
      BY <1>3 DEF SendRelease, HeldIsIdem, IdemInserted, HasClaim, Steps
    <2>2. \A b \in Brokers : idem[b] = idem[c] => b = c
      BY <2>1 DEF IdemDistinct, Clients
    <2>3. QED
      BY <1>3, <2>1, <2>2 DEF SendRelease, TypeOK, Clients
  <1>4. ASSUME NEW c \in Clients,
               Finish(c) \/ ReleaseTimeout(c) \/ ClientCrash(c)
        PROVE  ReleaseAfterCleanup'
    BY <1>4 DEF Finish, ReleaseTimeout, ClientCrash, TypeOK, Clients
  <1>5. ASSUME NEW c \in Clients, ReserveRefused(c) PROVE ReleaseAfterCleanup'
    <2>1. \A d \in Clients : idem'[d] # 0 => idem'[d] = idem[d]
      BY <1>5, CapacityAssumption DEF ReserveRefused, TypeOK
    <2>2. \A d \in Brokers : pc'[d] # pc[d] => pc'[d] = "done"
      BY <1>5 DEF ReserveRefused, TypeOK, Clients
    <2>3. QED
      BY <1>5, <2>1, <2>2 DEF ReserveRefused, Clients
  <1>6. ASSUME NEW s \in Schedulers, Rerun(s) PROVE ReleaseAfterCleanup'
    BY <1>6, CapacityAssumption DEF Rerun, TypeOK, Clients
  <1>7. ASSUME NEW h \in releases, ReleaseRequested(h)
        PROVE  ReleaseAfterCleanup'
    BY <1>7 DEF ReleaseRequested, TypeOK, Clients
  <1>8. CASE Reconcile
    BY <1>8 DEF Reconcile
  <1>9. CASE Restart
    BY <1>9 DEF Restart
  <1>10. QED
    BY <1>1, <1>2, <1>3, <1>4, <1>5, <1>6, <1>7, <1>8, <1>9
       DEF Next, ClientStep

(* The built-in reality provider finds a process alive that is not among   *)
(* those it overlooks.                                                     *)
LEMMA ExecutingIsLive ==
  ASSUME NEW b \in Brokers, Executing(b), ~Overlooked(b), NEW r, r.pid = b
  PROVE  Verdict(r) = "QUARANTINED"
  BY CapacityAssumption DEF Executing, Overlooked, Verdict, Reality, LeaderLives

(* Steps that touch neither the table nor the keys let no broker past its  *)
(* identity commit: only AttachAndGo passes the go token, after it.        *)
LEMMA QuietCharged ==
  ASSUME CInv, UNCHANGED <<claims, idem>>,
         \A b \in Brokers : Watched(b)' => Watched(b)
  PROVE  ChargedFromIdentity'
  BY DEF CInv, ChargedFromIdentity, Active

(* A phase report leaves its own row active and every other row alone.     *)
LEMMA ReportCharged ==
  ASSUME CInv, NEW b \in Brokers, UNCHANGED <<idem, early>>,
         idem[b] # 0,
         NEW phase \in ActivePhases, NEW pid \in Brokers \cup {None},
         UpdatePhase(held[b], phase, pid),
         \A d \in Brokers : d # b => pc'[d] = pc[d] /\ proc'[d] = proc[d]
  PROVE  ChargedFromIdentity'
  <1> USE DEF CInv, IInv, Clients
  <1>1. held[b] \in Handle /\ held[b].claim = idem[b]
    BY DEF TypeOK, Ownership, HeldIsIdem
  <1>2. /\ \A i \in ClaimId : i # idem[b] => claims'[i] = claims[i]
        /\ claims'[idem[b]].phase = phase
    BY <1>1, UpdatePhaseRows
  <1>3. ASSUME NEW d \in Brokers, d # b, Executing(d) \/ pc[d] = "identified"
        PROVE  claims'[idem[d]] = claims[idem[d]]
    <2>1. idem[d] \in ClaimId
      BY <1>3 DEF TypeOK, IdentityDurable, ClaimId
    <2>2. idem[d] # idem[b]
      BY <1>3 DEF Ownership, IdemDistinct
    <2>3. QED
      BY <1>2, <2>1, <2>2
  <1>4. QED
    BY <1>2, <1>3 DEF ChargedFromIdentity, Watched, Overlooked, Active, Executing

(* The claim of a watched process stays active through every step.         *)
LEMMA ChargedFromIdentityNext ==
  ASSUME CInv, Next PROVE ChargedFromIdentity'
  <1> USE DEF CInv, IInv, Clients
  <1>1. ASSUME NEW b \in Brokers, BrokerStep(b) PROVE ChargedFromIdentity'
    <2> USE DEF TypeOK
    <2>1. CASE PreSpawn(b) \/ SpawnAttempting(b)
      <3>1. idem[b] # 0 /\ UNCHANGED <<idem, proc, early>>
        BY <2>1 DEF PreSpawn, SpawnAttempting, Report, Ownership, HasClaim, Steps
      <3>2. \A d \in Brokers : d # b => pc'[d] = pc[d]
        BY <2>1, AfterPc DEF PreSpawn, SpawnAttempting, Report, Steps
      <3>3. QED
        BY <2>1, <3>1, <3>2, ReportCharged
           DEF PreSpawn, SpawnAttempting, Report, ActivePhases
    <2>2. CASE CommitIdentity(b)
      <3>1. idem[b] # 0 /\ UNCHANGED <<idem, proc, early>>
        BY <2>2 DEF CommitIdentity, Ownership, HasClaim, Steps
      <3>2. \A d \in Brokers : d # b => pc'[d] = pc[d]
        BY <2>2, AfterPc DEF CommitIdentity, Steps
      <3>3. QED
        BY <2>2, <3>1, <3>2, ReportCharged DEF CommitIdentity, ActivePhases
    <2>3. CASE ExecuteAndGo(b)
      <3>1. idem[b] # 0 /\ UNCHANGED <<idem, early>>
        BY <2>3 DEF ExecuteAndGo, Ownership, HasClaim, Steps
      <3>2. \A d \in Brokers : d # b => pc'[d] = pc[d] /\ proc'[d] = proc[d]
        BY <2>3, AfterPc DEF ExecuteAndGo, Steps
      <3>3. QED
        BY <2>3, <3>1, <3>2, ReportCharged DEF ExecuteAndGo, ActivePhases
    <2>4. CASE SpawnLauncher(b) \/ AttachAndGo(b) \/ ProcessExit(b)
      BY <2>4, QuietCharged DEF SpawnLauncher, AttachAndGo, ProcessExit,
         Executing, Watched, Overlooked
    <2>5. QED
      BY <1>1, <2>1, <2>2, <2>3, <2>4 DEF BrokerStep
  <1>2. ASSUME NEW c \in Clients, Reserve(c) PROVE ChargedFromIdentity'
    <2>1. /\ UNCHANGED <<proc, early>>
          /\ pc'[c] # "identified"
          /\ \A d \in Clients : d # c => pc'[d] = pc[d] /\ idem'[d] = idem[d]
      BY <1>2, AfterPc DEF Reserve, Rekey, ReserveFresh, Steps, TypeOK
    <2>2. c \in Brokers => ~Executing(c)
      BY <1>2 DEF Reserve, Ownership, NotSpawned, Executing
    <2> SUFFICES ASSUME NEW b \in Brokers, b # c, Watched(b)
                 PROVE  claims'[idem[b]].phase \in ActivePhases
      BY <2>1, <2>2 DEF ChargedFromIdentity, Watched, Overlooked, Active,
         Executing
    <2>3. /\ idem[b] \in ClaimId
          /\ idem[b] <= inserted
          /\ claims[idem[b]].phase \in ActivePhases
      BY DEF TypeOK, IdentityDurable, Ownership, IdemInserted, ClaimId,
         ChargedFromIdentity, Watched, Active
    <2>4. CASE Rekey(c)
      BY <1>2, <2>3, <2>4 DEF Rekey, Rekeyable, Ownership, IdemDistinct, TypeOK
    <2>5. CASE ReserveFresh(c)
      BY <1>2, <2>3, <2>5 DEF ReserveFresh, TypeOK
    <2>6. QED
      BY <1>2, <2>4, <2>5 DEF Reserve
  <1>3. ASSUME NEW c \in Clients,
               \/ Finish(c) \/ SendRelease(c)
               \/ ReleaseTimeout(c) \/ ClientCrash(c)
        PROVE  ChargedFromIdentity'
    BY <1>3, QuietCharged DEF Finish, SendRelease, ReleaseTimeout, ClientCrash,
       Executing, Watched, Overlooked, TypeOK
  <1>4. ASSUME NEW s \in Schedulers, Rerun(s) PROVE ChargedFromIdentity'
    BY <1>4, QuietCharged DEF Rerun, Executing, Watched, Overlooked, TypeOK
  <1>5. ASSUME NEW h \in releases, ReleaseRequested(h)
        PROVE  ChargedFromIdentity'
    <2>1. /\ UNCHANGED <<idem, proc, early>>
          /\ \A c \in Clients : pc'[c] = "identified" => pc[c] = "identified"
      BY <1>5 DEF ReleaseRequested
    <2> SUFFICES ASSUME NEW b \in Brokers, Watched(b)
                 PROVE  claims'[idem[b]].phase \in ActivePhases
      BY <2>1 DEF ChargedFromIdentity, Watched, Overlooked, Active, Executing
    <2>2. /\ idem[b] \in ClaimId
          /\ claims[idem[b]].pid = b
          /\ claims[idem[b]].phase \in ActivePhases
      BY DEF TypeOK, IdentityDurable, ClaimId, ChargedFromIdentity, Watched,
         Active
    <2>3. CASE Executing(b) /\ ~Overlooked(b)
      <3>1. Verdict(claims[idem[b]]) = "QUARANTINED"
        BY <2>2, <2>3, ExecutingIsLive
      <3>2. \/ claims'[idem[b]] = claims[idem[b]]
            \/ claims'[idem[b]].phase = Verdict(claims[idem[b]])
        BY <1>5, <2>2, ReleaseRows
      <3>3. QED
        BY <2>2, <3>1, <3>2 DEF ActivePhases
    <2>4. CASE pc[b] = "identified"
      <3>1. h.claim # idem[b]
        BY <2>2, <2>4 DEF ReleaseAfterCleanup, ClaimId
      <3>2. claims'[idem[b]] = claims[idem[b]]
        BY <1>5, <2>2, <3>1, ReleaseRows
      <3>3. QED
        BY <2>2, <3>2
    <2>5. QED
      BY <2>3, <2>4 DEF Watched
  <1>6. ASSUME NEW b \in Brokers, Executing(b), ~Overlooked(b)
        PROVE  /\ idem[b] \in ClaimId
               /\ idem[b] <= inserted
               /\ Reconciled[idem[b]].phase \in ActivePhases
    <2>1. /\ idem[b] \in ClaimId
          /\ idem[b] <= inserted
          /\ claims[idem[b]].pid = b
          /\ Active(idem[b])
      BY <1>6 DEF TypeOK, IdentityDurable, Ownership, IdemInserted, ClaimId,
         ChargedFromIdentity, Watched
    <2>2. Verdict(claims[idem[b]]) = "QUARANTINED"
      BY <1>6, <2>1, ExecutingIsLive
    <2>3. QED
      BY <2>1, <2>2, ReconciledRows DEF ActivePhases
  <1>7. CASE Reconcile
    <2>1. \A b \in Delegated : pc'[b] = "identified" => b \in early'
      BY <1>7, CapacityAssumption DEF Reconcile, InMicrotask, Unattached
    <2>2. UNCHANGED <<idem, proc>> /\ early \subseteq early'
      BY <1>7 DEF Reconcile
    <2>3. QED
      BY <1>6, <1>7, <2>1, <2>2 DEF Reconcile, ChargedFromIdentity, Watched,
         Overlooked, Active, Executing
  <1>8. CASE Restart
    <2>1. \A b \in Delegated : pc'[b] = "identified" => b \in early'
      BY <1>8, CapacityAssumption DEF Restart, Unattached
    <2>2. \A i \in ClaimId : i <= inserted => claims'[i] = Reconciled[i]
      BY <1>8, RestartRows
    <2>3. UNCHANGED <<idem, proc>> /\ early \subseteq early'
      BY <1>8 DEF Restart
    <2>4. QED
      BY <1>6, <2>1, <2>2, <2>3 DEF ChargedFromIdentity, Watched, Overlooked,
         Active, Executing
  <1>9. ASSUME NEW c \in Clients, ReserveRefused(c) PROVE ChargedFromIdentity'
    <2>1. /\ UNCHANGED <<claims, proc, early>>
          /\ pc'[c] # "identified"
          /\ \A d \in Clients : d # c => pc'[d] = pc[d] /\ idem'[d] = idem[d]
      BY <1>9 DEF ReserveRefused, TypeOK
    <2>2. c \in Brokers => ~Executing(c)
      BY <1>9 DEF ReserveRefused, Ownership, NotSpawned, Executing
    <2>3. QED
      BY <2>1, <2>2 DEF ChargedFromIdentity, Watched, Overlooked, Active,
         Executing
  <1>10. QED
    BY <1>1, <1>2, <1>3, <1>4, <1>5, <1>7, <1>8, <1>9 DEF Next, ClientStep

(***************************************************************************)
(* "The only condition for freeing capacity is the server's independent    *)
(* positive reality proof": in every deployment, with or without cgroups   *)
(* and with brokers in the daemon or outside it, a running process that    *)
(* the reality provider does not overlook is charged in every state,       *)
(* whatever releases, reconciles, timeouts, crashes and restarts happened. *)
(***************************************************************************)
THEOREM RunningAlwaysCharged == Spec => []ChargedUnlessOverlooked
  <1>1. CInv /\ [Next]_vars => CInv'
    <2> SUFFICES ASSUME CInv, [Next]_vars PROVE CInv'
      OBVIOUS
    <2>1. IInv'
      BY NextIInv DEF CInv
    <2>2. CASE Next
      BY <2>1, <2>2, ReleaseAfterCleanupNext, ChargedFromIdentityNext DEF CInv
    <2>3. CASE UNCHANGED vars
      BY <2>1, <2>3 DEF vars, CInv, ReleaseAfterCleanup, ChargedFromIdentity,
         Watched, Overlooked, Active, Executing
    <2>4. QED
      BY <2>2, <2>3
  <1>2. CInv => ChargedUnlessOverlooked
    BY DEF CInv, IInv, ChargedUnlessOverlooked, ChargedFromIdentity, Watched,
       IdentityDurable, Ownership, HeldIsIdem, Clients
  <1>3. QED
    BY <1>1, <1>2, InitCInv, PTL DEF Spec
=============================================================================
