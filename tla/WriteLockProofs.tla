--------------------------- MODULE WriteLockProofs ---------------------------
(***************************************************************************)
(* TLAPS proofs about WriteLock: for any set of callers and any number of  *)
(* acquireWrite calls the slot has at most one holder, a held slot has a   *)
(* holder, and the controller implements the abstract mutex.               *)
(***************************************************************************)
EXTENDS WriteLock, TLAPS

(***************************************************************************)
(* The inductive invariant.  MutualExclusion alone is not inductive: it    *)
(* must be known that a holder's token is the owner token (so that a       *)
(* stale release is ignored), that the waiter in the slot is still waiting *)
(* (so that a handoff reaches somebody) and that tokens are never shared.  *)
(***************************************************************************)
HolderOwns ==
  \A c \in Callers : Holding(c) => writeHeld /\ call[c].token = writeOwnerToken

OwnerHolds ==
  writeHeld => \E c \in Callers : Holding(c)

HeldHasToken == writeHeld <=> writeOwnerToken # 0

WaiterWaits ==
  waiter # 0 =>
    /\ writeHeld
    /\ waiter \notin cancelled
    /\ \E c \in Callers : Waiting(c) /\ call[c].token = waiter

TokensDrawn ==
  /\ \A c \in Callers : call[c].token < nextToken
  /\ \A c \in Callers : Waiting(c) \/ Holding(c) => call[c].token # 0
  /\ \A t \in spent \cup cancelled : t < nextToken
  /\ writeOwnerToken < nextToken
  /\ waiter < nextToken

TokensDistinct ==
  /\ \A c, d \in Callers :
       call[c].token # 0 /\ call[c].token = call[d].token => c = d
  /\ \A c \in Callers : Waiting(c) => call[c].token \notin cancelled

SpentNotOwner == writeOwnerToken # 0 => writeOwnerToken \notin spent

SpentNotWaiting ==
  \A c \in Callers : Waiting(c) => call[c].token \notin spent

IInv ==
  /\ TypeOK
  /\ HolderOwns
  /\ OwnerHolds
  /\ HeldHasToken
  /\ WaiterWaits
  /\ TokensDrawn
  /\ TokensDistinct
  /\ SpentNotOwner
  /\ SpentNotWaiting
-----------------------------------------------------------------------------
(* The initial state satisfies the inductive invariant.                    *)
LEMMA InitIInv == Init => IInv
  <1> SUFFICES ASSUME Init PROVE IInv
    OBVIOUS
  <1> USE MaxTokenAssumption DEF Init, Token, CallStatus, NoCall, Holding, Waiting
  <1>1. TypeOK
    <2>1. writeHeld \in BOOLEAN /\ aborted \in BOOLEAN
      BY Zenon
    <2>2. /\ writeOwnerToken \in Token /\ waiter \in Token
          /\ nextToken \in 1 .. MaxToken + 1
      OBVIOUS
    <2>3. cancelled \subseteq Token /\ spent \subseteq Token
      OBVIOUS
    <2>4. call \in [Callers -> [status : CallStatus, token : Token]]
      OBVIOUS
    <2>5. QED
      BY <2>1, <2>2, <2>3, <2>4 DEF TypeOK
  <1>2. HolderOwns /\ OwnerHolds /\ HeldHasToken /\ WaiterWaits
    BY DEF HolderOwns, OwnerHolds, HeldHasToken, WaiterWaits
  <1>3. TokensDrawn /\ TokensDistinct
    BY DEF TokensDrawn, TokensDistinct
  <1>4. SpentNotOwner /\ SpentNotWaiting
    BY DEF SpentNotOwner, SpentNotWaiting
  <1>5. QED
    BY <1>1, <1>2, <1>3, <1>4 DEF IInv

(* AcquireFree preserves the inductive invariant.                    *)
LEMMA AcquireFreeIInv ==
  ASSUME IInv, NEW c \in Callers, AcquireFree(c)
  PROVE  IInv'
  <1> USE MaxTokenAssumption DEF IInv, Token, CallStatus, NoCall, Holding, Waiting
  <1>1. TypeOK'
    BY DEF AcquireFree, TypeOK
  <1>2. HolderOwns'
    BY DEF AcquireFree, HolderOwns, HeldHasToken, TypeOK
  <1>3. OwnerHolds'
    BY DEF AcquireFree, OwnerHolds, HolderOwns, TypeOK, WaiterWaits
  <1>4. HeldHasToken'
    BY DEF AcquireFree, HeldHasToken, TypeOK, TokensDrawn, WaiterWaits
  <1>5. WaiterWaits'
    BY DEF AcquireFree, WaiterWaits, HolderOwns, OwnerHolds, TokensDrawn, TokensDistinct, TypeOK
  <1>6. TokensDrawn'
    BY DEF AcquireFree, TokensDrawn, TypeOK
  <1>7. TokensDistinct'
    BY DEF AcquireFree, TokensDistinct, TokensDrawn, TypeOK
  <1>8. SpentNotOwner'
    BY DEF AcquireFree, SpentNotOwner, SpentNotWaiting, HolderOwns, HeldHasToken, TokensDrawn, WaiterWaits, TypeOK
  <1>9. SpentNotWaiting'
    BY DEF AcquireFree, SpentNotWaiting, TokensDrawn, TokensDistinct, TypeOK
  <1>10. QED
    BY <1>1, <1>2, <1>3, <1>4, <1>5, <1>6, <1>7, <1>8, <1>9

(* AcquirePreAborted preserves the inductive invariant.              *)
LEMMA AcquirePreAbortedIInv ==
  ASSUME IInv, NEW c \in Callers, AcquirePreAborted(c)
  PROVE  IInv'
  <1> USE MaxTokenAssumption DEF IInv, Token, CallStatus, NoCall, Holding, Waiting
  <1>1. TypeOK'
    BY DEF AcquirePreAborted, TypeOK
  <1>2. HolderOwns'
    BY DEF AcquirePreAborted, HolderOwns, HeldHasToken, TypeOK
  <1>3. OwnerHolds'
    BY DEF AcquirePreAborted, OwnerHolds, HolderOwns, TypeOK, WaiterWaits
  <1>4. HeldHasToken'
    BY DEF AcquirePreAborted, HeldHasToken, TypeOK, TokensDrawn, WaiterWaits
  <1>5. WaiterWaits'
    BY DEF AcquirePreAborted, WaiterWaits, HolderOwns, OwnerHolds, TokensDrawn, TokensDistinct, TypeOK
  <1>6. TokensDrawn'
    BY DEF AcquirePreAborted, TokensDrawn, TypeOK
  <1>7. TokensDistinct'
    BY DEF AcquirePreAborted, TokensDistinct, TokensDrawn, TypeOK
  <1>8. SpentNotOwner'
    BY DEF AcquirePreAborted, SpentNotOwner, SpentNotWaiting, HolderOwns, HeldHasToken, TokensDrawn, WaiterWaits, TypeOK
  <1>9. SpentNotWaiting'
    BY DEF AcquirePreAborted, SpentNotWaiting, TokensDrawn, TokensDistinct, TypeOK
  <1>10. QED
    BY <1>1, <1>2, <1>3, <1>4, <1>5, <1>6, <1>7, <1>8, <1>9

(* AcquireBusy preserves the inductive invariant.                    *)
LEMMA AcquireBusyIInv ==
  ASSUME IInv, NEW c \in Callers, AcquireBusy(c)
  PROVE  IInv'
  <1> USE MaxTokenAssumption DEF IInv, Token, CallStatus, NoCall, Holding, Waiting
  <1>1. TypeOK'
    BY DEF AcquireBusy, TypeOK
  <1>2. HolderOwns'
    BY DEF AcquireBusy, HolderOwns, HeldHasToken, TypeOK
  <1>3. OwnerHolds'
    BY DEF AcquireBusy, OwnerHolds, HolderOwns, TypeOK, WaiterWaits
  <1>4. HeldHasToken'
    BY DEF AcquireBusy, HeldHasToken, TypeOK, TokensDrawn, WaiterWaits
  <1>5. WaiterWaits'
    BY DEF AcquireBusy, WaiterWaits, HolderOwns, OwnerHolds, TokensDrawn, TokensDistinct, TypeOK
  <1>6. TokensDrawn'
    BY DEF AcquireBusy, TokensDrawn, TypeOK
  <1>7. TokensDistinct'
    BY DEF AcquireBusy, TokensDistinct, TokensDrawn, TypeOK
  <1>8. SpentNotOwner'
    BY DEF AcquireBusy, SpentNotOwner, SpentNotWaiting, HolderOwns, HeldHasToken, TokensDrawn, WaiterWaits, TypeOK
  <1>9. SpentNotWaiting'
    BY DEF AcquireBusy, SpentNotWaiting, TokensDrawn, TokensDistinct, TypeOK
  <1>10. QED
    BY <1>1, <1>2, <1>3, <1>4, <1>5, <1>6, <1>7, <1>8, <1>9

(* Deadline preserves the inductive invariant.                       *)
LEMMA DeadlineIInv ==
  ASSUME IInv, NEW c \in Callers, Deadline(c)
  PROVE  IInv'
  <1> USE MaxTokenAssumption DEF IInv, Token, CallStatus, NoCall, Holding, Waiting
  <1>1. TypeOK'
    BY DEF Deadline, CancelWaiting, TypeOK
  <1>2. HolderOwns'
    BY DEF Deadline, CancelWaiting, HolderOwns, HeldHasToken, TypeOK
  <1>3. OwnerHolds'
    BY DEF Deadline, CancelWaiting, OwnerHolds, HolderOwns, TypeOK, WaiterWaits
  <1>4. HeldHasToken'
    BY DEF Deadline, CancelWaiting, HeldHasToken, TypeOK, TokensDrawn, WaiterWaits
  <1>5. WaiterWaits'
    BY DEF Deadline, CancelWaiting, WaiterWaits, HolderOwns, OwnerHolds, TokensDrawn, TokensDistinct, TypeOK
  <1>6. TokensDrawn'
    BY DEF Deadline, CancelWaiting, TokensDrawn, TypeOK
  <1>7. TokensDistinct'
    BY DEF Deadline, CancelWaiting, TokensDistinct, TokensDrawn, TypeOK
  <1>8. SpentNotOwner'
    BY DEF Deadline, CancelWaiting, SpentNotOwner, SpentNotWaiting, HolderOwns, HeldHasToken, TokensDrawn, WaiterWaits, TypeOK
  <1>9. SpentNotWaiting'
    BY DEF Deadline, CancelWaiting, SpentNotWaiting, TokensDrawn, TokensDistinct, TypeOK
  <1>10. QED
    BY <1>1, <1>2, <1>3, <1>4, <1>5, <1>6, <1>7, <1>8, <1>9

(* Abort preserves the inductive invariant.                          *)
LEMMA AbortIInv ==
  ASSUME IInv, Abort
  PROVE  IInv'
  <1> USE MaxTokenAssumption DEF IInv, Token, CallStatus, NoCall, Holding, Waiting
  <1>1. TypeOK'
    BY DEF Abort, CancelWaiting, TypeOK
  <1>2. HolderOwns'
    BY DEF Abort, CancelWaiting, HolderOwns, HeldHasToken, TypeOK
  <1>3. OwnerHolds'
    BY DEF Abort, CancelWaiting, OwnerHolds, HolderOwns, TypeOK, WaiterWaits
  <1>4. HeldHasToken'
    BY DEF Abort, CancelWaiting, HeldHasToken, TypeOK, TokensDrawn, WaiterWaits
  <1>5. WaiterWaits'
    BY DEF Abort, CancelWaiting, WaiterWaits, HolderOwns, OwnerHolds, TokensDrawn, TokensDistinct, TypeOK
  <1>6. TokensDrawn'
    BY DEF Abort, CancelWaiting, TokensDrawn, TypeOK
  <1>7. TokensDistinct'
    BY DEF Abort, CancelWaiting, TokensDistinct, TokensDrawn, TypeOK
  <1>8. SpentNotOwner'
    BY DEF Abort, CancelWaiting, SpentNotOwner, SpentNotWaiting, HolderOwns, HeldHasToken, TokensDrawn, WaiterWaits, TypeOK
  <1>9. SpentNotWaiting'
    BY DEF Abort, CancelWaiting, SpentNotWaiting, TokensDrawn, TokensDistinct, TypeOK
  <1>10. QED
    BY <1>1, <1>2, <1>3, <1>4, <1>5, <1>6, <1>7, <1>8, <1>9

(* Release preserves the inductive invariant.                        *)
LEMMA ReleaseIInv ==
  ASSUME IInv, NEW c \in Callers, Release(c)
  PROVE  IInv'
  <1> USE MaxTokenAssumption DEF IInv, Token, CallStatus, NoCall, Holding, Waiting
  <1>1. TypeOK'
    <2>1. writeOwnerToken' \in Token /\ waiter' \in Token
      BY DEF Release, releaseWrite, TypeOK
    <2>7. spent' \subseteq Token
      BY DEF Release, TypeOK
    <2>6. writeHeld' \in BOOLEAN
      BY Zenon DEF Release, releaseWrite, TypeOK
    <2>2. [call EXCEPT ![c] = NoCall]
            \in [Callers -> [status : CallStatus, token : Token]]
      BY DEF TypeOK
    <2>3. \A f \in [Callers -> [status : CallStatus, token : Token]] :
            Grant(f, waiter) \in [Callers -> [status : CallStatus, token : Token]]
      BY DEF Grant
    <2>4. call' \in [Callers -> [status : CallStatus, token : Token]]
      BY <2>2, <2>3 DEF Release, releaseWrite
    <2>5. QED
      BY <2>1, <2>4, <2>6, <2>7 DEF Release, TypeOK
  <1>2. HolderOwns'
    BY DEF Release, releaseWrite, Grant, HolderOwns, HeldHasToken, WaiterWaits, TokensDistinct, TokensDrawn, TypeOK
  <1>3. OwnerHolds'
    BY DEF Release, releaseWrite, Grant, OwnerHolds, HolderOwns, TypeOK, WaiterWaits, TokensDistinct, TokensDrawn
  <1>4. HeldHasToken'
    BY DEF Release, releaseWrite, Grant, HeldHasToken, TypeOK, TokensDrawn, WaiterWaits
  <1>5. WaiterWaits'
    BY DEF Release, releaseWrite, Grant, WaiterWaits, HolderOwns, OwnerHolds, TokensDrawn, TokensDistinct, TypeOK
  <1>6. TokensDrawn'
    BY DEF Release, releaseWrite, Grant, TokensDrawn, TypeOK
  <1>7. TokensDistinct'
    BY DEF Release, releaseWrite, Grant, TokensDistinct, TokensDrawn, TypeOK
  <1>8. SpentNotOwner'
    BY DEF Release, releaseWrite, Grant, SpentNotOwner, SpentNotWaiting, HolderOwns,
           HeldHasToken, TokensDrawn, TokensDistinct, WaiterWaits, TypeOK
  <1>9. SpentNotWaiting'
    BY DEF Release, releaseWrite, Grant, SpentNotWaiting, TokensDrawn, TokensDistinct, HolderOwns, TypeOK
  <1>10. QED
    BY <1>1, <1>2, <1>3, <1>4, <1>5, <1>6, <1>7, <1>8, <1>9

(* Releasing a spent handle changes nothing (a double release is a no-op). *)
LEMMA ReleaseAgainIInv ==
  ASSUME IInv, NEW t \in Token, ReleaseAgain(t)
  PROVE  IInv' /\ UNCHANGED vars
  <1>1. ~writeHeld \/ t # writeOwnerToken
    BY DEF ReleaseAgain, IInv, SpentNotOwner, HeldHasToken
  <1>2. UNCHANGED vars
    BY <1>1 DEF ReleaseAgain, releaseWrite, vars
  <1>3. QED
    BY <1>2 DEF vars, IInv, TypeOK, HolderOwns, OwnerHolds, HeldHasToken,
       WaiterWaits, TokensDrawn, TokensDistinct, SpentNotOwner,
       SpentNotWaiting, Holding, Waiting

(* Every step, stuttering included, preserves the inductive invariant.     *)
LEMMA NextIInv == IInv /\ [Next]_vars => IInv'
  <1> SUFFICES ASSUME IInv, [Next]_vars PROVE IInv'
    OBVIOUS
  <1>1. CASE UNCHANGED vars
    BY <1>1 DEF vars, IInv, TypeOK, HolderOwns, OwnerHolds, HeldHasToken,
       WaiterWaits, TokensDrawn, TokensDistinct, SpentNotOwner,
       SpentNotWaiting, Holding, Waiting
  <1>2. CASE Next
    BY <1>2, AcquireFreeIInv, AcquirePreAbortedIInv, AcquireBusyIInv,
       DeadlineIInv, AbortIInv, ReleaseIInv, ReleaseAgainIInv DEF Next
  <1>3. QED
    BY <1>1, <1>2

(***************************************************************************)
(* Every reachable state satisfies the inductive invariant.                *)
(***************************************************************************)
THEOREM InvariantHolds == Spec => []IInv
  BY InitIInv, NextIInv, PTL DEF Spec

(***************************************************************************)
(* Type correctness of the controller's fields and of the callers' state.  *)
(***************************************************************************)
THEOREM TypeCorrect == Spec => []TypeOK
  <1>1. IInv => TypeOK
    BY DEF IInv
  <1>2. QED
    BY <1>1, InvariantHolds, PTL

(***************************************************************************)
(* Two callers never hold the write slot at the same time, for any number  *)
(* of callers and of acquireWrite calls.                                   *)
(***************************************************************************)
THEOREM MutualExclusionHolds == Spec => []MutualExclusion
  <1>1. IInv => MutualExclusion
    BY DEF IInv, HolderOwns, TokensDrawn, TokensDistinct, MutualExclusion,
       Holding, Waiting
  <1>2. QED
    BY <1>1, InvariantHolds, PTL

(***************************************************************************)
(* A held slot always has a live holder: no handoff, cancellation or       *)
(* double release leaves writeHeld set with nobody left to release it.     *)
(***************************************************************************)
THEOREM SlotHasHolderHolds == Spec => []SlotHasHolder
  <1>1. IInv => SlotHasHolder
    BY DEF IInv, OwnerHolds, HolderOwns, SlotHasHolder
  <1>2. QED
    BY <1>1, InvariantHolds, PTL

-----------------------------------------------------------------------------
(* The state of the abstract mutex: who is inside, who waits, and whom the *)
(* next release serves.                                                    *)
Inside == {c \in Callers : Holding(c)}

Asking == {c \in Callers : Waiting(c)}

Heir == {c \in Callers : Waiting(c) /\ call[c].token = waiter}

(* A release frees a slot without an heir and hands over one with an heir. *)
LEMMA ReleaseSimulation ==
  ASSUME IInv, NEW c \in Callers, Release(c)
  PROVE  Mutex!Leave(c) \/ \E d \in Callers : Mutex!HandOver(c, d)
  <1> USE DEF IInv, Holding, Waiting
  <1>1. Inside = {c}
    BY DEF Release, HolderOwns, TokensDrawn, TokensDistinct, Inside
  <1>2. writeHeld /\ call[c].token = writeOwnerToken
    BY DEF Release, HolderOwns
  <1>3. CASE waiter = 0
    <2>1. Heir = {} /\ Heir' = {}
      BY <1>2, <1>3 DEF Heir, TokensDrawn, Release, releaseWrite, TypeOK, NoCall
    <2>2. Inside' = {}
      BY <1>1, <1>2, <1>3 DEF Release, releaseWrite, TypeOK, NoCall, Inside
    <2>3. Asking' = Asking
      BY <1>2, <1>3 DEF Release, releaseWrite, TypeOK, NoCall, Asking
    <2>4. QED
      BY <1>1, <2>1, <2>2, <2>3 DEF Mutex!Leave, Inside, Asking, Heir
  <1>4. CASE waiter # 0
    <2>1. PICK d \in Callers : Waiting(d) /\ call[d].token = waiter
      BY <1>4 DEF WaiterWaits
    <2>2. waiter \notin cancelled /\ d # c
      BY <1>4, <2>1 DEF WaiterWaits, Release
    <2>3. Heir = {d}
      BY <1>4, <2>1 DEF Heir, TokensDistinct
    <2>4. call' = Grant([call EXCEPT ![c] = NoCall], waiter) /\ waiter' = 0
      BY <1>2, <1>4, <2>2 DEF Release, releaseWrite
    <2>5. \A e \in Callers : call'[e] =
            IF e = c THEN NoCall
            ELSE IF e = d THEN [call[d] EXCEPT !.status = "holding"]
            ELSE call[e]
      BY <1>4, <2>1, <2>2, <2>4 DEF Grant, NoCall, TypeOK, TokensDistinct
    <2>6. Inside' = {d}
      BY <1>1, <2>2, <2>5 DEF Inside, NoCall, TypeOK
    <2>7. Asking' = Asking \ {d}
      BY <2>2, <2>5 DEF Asking, NoCall, TypeOK, Release
    <2>8. Heir' = {}
      <3>1. \A e \in Callers : Waiting(e)' => Waiting(e) /\ call'[e] = call[e]
        BY <2>2, <2>5 DEF NoCall, TypeOK
      <3>2. \A e \in Callers : Waiting(e)' => call'[e].token # 0
        BY <3>1 DEF TokensDrawn
      <3>3. QED
        BY <2>4, <3>2 DEF Heir
    <2>9. QED
      BY <1>1, <2>3, <2>6, <2>7, <2>8 DEF Mutex!HandOver, Inside, Asking, Heir
  <1>5. QED
    BY <1>3, <1>4

(* A deadline or an abort takes the callers that give up out of the queue. *)
LEMMA CancelSimulation ==
  ASSUME IInv, NEW S \in SUBSET Asking, CancelWaiting(S)
  PROVE  Mutex!GiveUp(S)
  <1> USE DEF IInv, Holding, Waiting
  <1>1. \A e \in Callers : call'[e] =
          IF e \in S THEN [call[e] EXCEPT !.status = "rejected"] ELSE call[e]
    BY DEF CancelWaiting
  <1>2. Inside' = Inside
    BY <1>1 DEF Inside, Asking, TypeOK
  <1>3. Asking' = Asking \ S
    BY <1>1 DEF Asking, TypeOK
  <1>4. \A e \in Callers :
          Waiting(e)' /\ call'[e].token = waiter'
            <=> Waiting(e) /\ call[e].token = waiter /\ e \notin S
    <2> TAKE e \in Callers
    <2>1. CASE e \in S
      BY <1>1, <2>1 DEF TypeOK
    <2>2. CASE e \notin S /\ ~Waiting(e)
      BY <1>1, <2>2
    <2>3. CASE e \notin S /\ Waiting(e)
      <3>1. \A d \in S : call[d].token # call[e].token
        BY <2>3 DEF Asking, TokensDistinct, TokensDrawn
      <3>2. call[e].token # 0
        BY <2>3 DEF TokensDrawn
      <3>3. QED
        BY <1>1, <2>3, <3>1, <3>2 DEF CancelWaiting
    <2>4. QED
      BY <2>1, <2>2, <2>3
  <1>5. Heir' = Heir \ S
    BY <1>4 DEF Heir
  <1>6. QED
    BY <1>2, <1>3, <1>5 DEF Mutex!GiveUp, Inside, Asking, Heir

(* Under the invariant a step of the controller is a step of the mutex or  *)
(* leaves the mutex as it is.                                              *)
LEMMA StepSimulation ==
  ASSUME IInv, [Next]_vars
  PROVE  [Mutex!Next]_<<Inside, Asking, Heir>>
  <1> USE DEF IInv, Holding, Waiting
  <1>1. CASE UNCHANGED vars
    BY <1>1 DEF vars, Inside, Asking, Heir
  <1>2. ASSUME NEW c \in Callers, AcquireFree(c) PROVE Mutex!Enter(c)
    <2>1. Inside = {} /\ c \notin Asking
      BY <1>2 DEF AcquireFree, HolderOwns, Inside, Asking
    <2>2. Inside' = {c}
      BY <1>2, <2>1 DEF AcquireFree, TypeOK, Inside
    <2>3. Asking' = Asking
      BY <1>2 DEF AcquireFree, TypeOK, Asking
    <2>4. Heir' = Heir
      BY <1>2 DEF AcquireFree, TypeOK, Heir
    <2>5. QED
      BY <2>1, <2>2, <2>3, <2>4 DEF Mutex!Enter, Inside, Asking, Heir
  <1>3. ASSUME NEW c \in Callers, AcquirePreAborted(c)
        PROVE  UNCHANGED <<Inside, Asking, Heir>>
    BY <1>3 DEF AcquirePreAborted, TypeOK, Inside, Asking, Heir
  <1>4. ASSUME NEW c \in Callers, AcquireBusy(c) PROVE Mutex!Ask(c)
    <2>1. Inside # {} /\ c \notin Inside \cup Asking
      BY <1>4 DEF AcquireBusy, OwnerHolds, Inside, Asking
    <2>2. Inside' = Inside
      BY <1>4 DEF AcquireBusy, TypeOK, Inside
    <2>3. Asking' = Asking \cup {c}
      BY <1>4 DEF AcquireBusy, TypeOK, Asking
    <2>4. \A e \in Callers : call'[e].token = waiter' <=> e = c
      BY <1>4 DEF AcquireBusy, TypeOK, TokensDrawn, Token
    <2>5. Heir' = {c}
      BY <1>4, <2>4 DEF AcquireBusy, TypeOK, Heir
    <2>6. QED
      BY <2>1, <2>2, <2>3, <2>5 DEF Mutex!Ask, Inside, Asking, Heir
  <1>5. ASSUME NEW c \in Callers, Deadline(c) PROVE Mutex!GiveUp({c})
    BY <1>5, CancelSimulation DEF Deadline, Asking
  <1>6. ASSUME Abort PROVE \E S \in SUBSET Asking : Mutex!GiveUp(S)
    <2>1. PICK S : S = Asking
      OBVIOUS
    <2>2. S \in SUBSET Asking
      BY <2>1
    <2>3. CancelWaiting(S)
      BY <1>6, <2>1 DEF Abort, Asking
    <2>4. Mutex!GiveUp(S)
      BY <2>2, <2>3, CancelSimulation
    <2>5. QED
      BY <2>2, <2>4
  <1>7. ASSUME NEW c \in Callers, Release(c)
        PROVE  Mutex!Leave(c) \/ \E d \in Callers : Mutex!HandOver(c, d)
    BY <1>7, ReleaseSimulation
  <1>8. ASSUME NEW t \in Token, ReleaseAgain(t)
        PROVE  UNCHANGED <<Inside, Asking, Heir>>
    BY <1>8, ReleaseAgainIInv DEF vars, Inside, Asking, Heir
  <1>9. CASE Next
    <2>1. ASSUME NEW c \in Callers, Deadline(c) PROVE Mutex!Next
      <3>1. {c} \in SUBSET Asking
        BY <2>1 DEF Deadline, Asking
      <3>2. QED
        BY <1>5, <2>1, <3>1 DEF Mutex!Next, Asking
    <2>2. ASSUME Abort PROVE Mutex!Next
      BY <1>6, <2>2 DEF Mutex!Next, Asking
    <2>3. QED
      BY <1>9, <1>2, <1>3, <1>4, <1>7, <1>8, <2>1, <2>2 DEF Next, Mutex!Next
  <1>10. QED
    BY <1>1, <1>9

(***************************************************************************)
(* The controller implements the abstract mutex: for any number of callers *)
(* a release with a registered waiter hands the slot over without freeing  *)
(* it, and to nobody who has given up.                                     *)
(***************************************************************************)
THEOREM Refinement == Spec => ImplementsMutex
  <1>1. Init => Mutex!Init
    BY DEF Init, Mutex!Init, Holding, Waiting, NoCall
  <1>2. IInv /\ [Next]_vars => [Mutex!Next]_<<Inside, Asking, Heir>>
    BY StepSimulation
  <1>3. QED
    BY <1>1, <1>2, InvariantHolds, PTL
       DEF Spec, ImplementsMutex, Mutex!Spec, Inside, Asking, Heir
=============================================================================
