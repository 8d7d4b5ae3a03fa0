------------------------------ MODULE WriteLock ------------------------------
(***************************************************************************)
(* The single-writer slot of the workflow scheduler                        *)
(* (src/workflow/scheduler/concurrency-controller.ts).                     *)
(*                                                                         *)
(* JavaScript runs each method to completion, so a method call is one      *)
(* step.  What interleaves is the order of the calls: acquireWrite by      *)
(* different nodes, release of a handle (also of a handle released         *)
(* before), the abort of the run's signal and the deadline timer of a      *)
(* waiting call.                                                           *)
(*                                                                         *)
(* A WriteWaiter object is identified by its token, which is unique; the   *)
(* value 0 stands for "no token" and for the null waiter.                  *)
(***************************************************************************)
EXTENDS Naturals

CONSTANTS
  Callers,     \* the asynchronous callers (write nodes of a run)
  MaxToken     \* bound: calls of acquireWrite that draw a token

ASSUME MaxTokenAssumption == MaxToken \in Nat

VARIABLES
  writeHeld,        \* the field writeHeld
  writeOwnerToken,  \* the field writeOwnerToken
  waiter,           \* token of the object in the field waiter, or 0
  nextToken,        \* the field nextToken
  cancelled,        \* tokens of the WriteWaiters whose cancelled flag is set
  aborted,          \* options.signal.aborted: one run-wide signal
  call,             \* each caller's current acquireWrite call
  spent             \* tokens of handles that have been released

vars == <<writeHeld, writeOwnerToken, waiter, nextToken, cancelled, aborted,
          call, spent>>

-----------------------------------------------------------------------------
CallStatus == {"idle", "waiting", "holding", "rejected"}

Token == 0 .. MaxToken

NoCall == [status |-> "idle", token |-> 0]

Waiting(c) == call[c].status = "waiting"

Holding(c) == call[c].status = "holding"

TypeOK ==
  /\ writeHeld \in BOOLEAN
  /\ writeOwnerToken \in Token
  /\ waiter \in Token
  /\ nextToken \in 1 .. MaxToken + 1
  /\ cancelled \subseteq Token
  /\ aborted \in BOOLEAN
  /\ call \in [Callers -> [status : CallStatus, token : Token]]
  /\ spent \subseteq Token

Init ==
  /\ writeHeld = FALSE
  /\ writeOwnerToken = 0
  /\ waiter = 0
  /\ nextToken = 1
  /\ cancelled = {}
  /\ aborted = FALSE
  /\ call = [c \in Callers |-> NoCall]
  /\ spent = {}

-----------------------------------------------------------------------------
(***************************************************************************)
(* acquireWrite.  A free slot is taken at once, even when the signal is    *)
(* already aborted; only a busy slot looks at the signal.                  *)
(***************************************************************************)
(* Faulty variant: the token is drawn with ++nextToken.                    *)
AcquirePreIncrement(c) ==
  /\ call[c].status \in {"idle", "rejected"}
  /\ nextToken <= MaxToken
  /\ ~writeHeld
  /\ writeHeld' = TRUE
  /\ writeOwnerToken' = nextToken + 1
  /\ nextToken' = nextToken + 1
  /\ call' = [call EXCEPT ![c] = [status |-> "holding",
                                  token |-> nextToken + 1]]
  /\ UNCHANGED <<waiter, cancelled, aborted, spent>>

AcquireFree(c) ==
  /\ call[c].status \in {"idle", "rejected"}
  /\ nextToken <= MaxToken
  /\ ~writeHeld
  /\ writeHeld' = TRUE
  /\ writeOwnerToken' = nextToken
  /\ nextToken' = nextToken + 1
  /\ call' = [call EXCEPT ![c] = [status |-> "holding", token |-> nextToken]]
  /\ UNCHANGED <<waiter, cancelled, aborted, spent>>

AcquirePreAborted(c) ==
  /\ call[c].status \in {"idle", "rejected"}
  /\ writeHeld
  /\ aborted
  /\ call' = [call EXCEPT ![c] = [status |-> "rejected", token |-> 0]]
  /\ UNCHANGED <<writeHeld, writeOwnerToken, waiter, nextToken, cancelled,
                 aborted, spent>>

(* this.waiter = waiter: whatever the field held before is overwritten.    *)
AcquireBusy(c) ==
  /\ call[c].status \in {"idle", "rejected"}
  /\ nextToken <= MaxToken
  /\ writeHeld
  /\ ~aborted
  /\ waiter' = nextToken
  /\ nextToken' = nextToken + 1
  /\ call' = [call EXCEPT ![c] = [status |-> "waiting", token |-> nextToken]]
  /\ UNCHANGED <<writeHeld, writeOwnerToken, cancelled, aborted, spent>>

(***************************************************************************)
(* onSignal: the deadline of one call, or the abort of the shared signal,  *)
(* which reaches the listener of every waiting call in the same dispatch.  *)
(* waiter.reject clears the slot only when it still holds this waiter.     *)
(***************************************************************************)
(* Faulty variant: the call is rejected, its waiter object left as it is.  *)
CancelWaitingKeepsWaiter(S) ==
  /\ UNCHANGED <<cancelled, waiter>>
  /\ call' = [c \in Callers |-> IF c \in S
                                THEN [call[c] EXCEPT !.status = "rejected"]
                                ELSE call[c]]

CancelWaiting(S) ==
  LET tokens == {call[c].token : c \in S} IN
  /\ cancelled' = cancelled \cup tokens
  /\ waiter' = IF waiter \in tokens THEN 0 ELSE waiter
  /\ call' = [c \in Callers |-> IF c \in S
                                THEN [call[c] EXCEPT !.status = "rejected"]
                                ELSE call[c]]

Deadline(c) ==
  /\ Waiting(c)
  /\ CancelWaiting({c})
  /\ UNCHANGED <<writeHeld, writeOwnerToken, nextToken, aborted, spent>>

Abort ==
  /\ ~aborted
  /\ aborted' = TRUE
  /\ CancelWaiting({c \in Callers : Waiting(c)})
  /\ UNCHANGED <<writeHeld, writeOwnerToken, nextToken, spent>>

(***************************************************************************)
(* releaseWrite(token) for a caller set whose entry is already updated in  *)
(* calls: a no-op unless the token is the owner's; otherwise the slot goes *)
(* to the waiter in the same tick, or, when that waiter was cancelled      *)
(* (the late wake guard of waiter.resolve), is freed.                      *)
(***************************************************************************)
Grant(calls, token) ==
  [c \in Callers |->
     IF calls[c].token = token /\ calls[c].status = "waiting"
     THEN [calls[c] EXCEPT !.status = "holding"]
     ELSE calls[c]]

(* Faulty variant: the owner-token comparison is missing.                  *)
releaseWriteAnyToken(token, calls) ==
  IF ~writeHeld
  THEN /\ call' = calls
       /\ UNCHANGED <<writeHeld, writeOwnerToken, waiter>>
  ELSE /\ waiter' = 0
       /\ writeHeld' = (waiter # 0)
       /\ writeOwnerToken' = waiter
       /\ call' = Grant(calls, waiter)

(* Faulty variant: the slot is freed for the waiter to take it by itself.  *)
releaseWriteFreesFirst(token, calls) ==
  IF ~writeHeld \/ token # writeOwnerToken
  THEN /\ call' = calls
       /\ UNCHANGED <<writeHeld, writeOwnerToken, waiter>>
  ELSE /\ waiter' = 0
       /\ writeHeld' = FALSE
       /\ writeOwnerToken' = 0
       /\ call' = calls

releaseWrite(token, calls) ==
  IF ~writeHeld \/ token # writeOwnerToken
  THEN /\ call' = calls
       /\ UNCHANGED <<writeHeld, writeOwnerToken, waiter>>
  ELSE /\ waiter' = 0
       /\ IF waiter = 0 \/ waiter \in cancelled
          THEN /\ writeHeld' = FALSE
               /\ writeOwnerToken' = 0
               /\ call' = calls
          ELSE /\ writeHeld' = TRUE
               /\ writeOwnerToken' = waiter
               /\ call' = Grant(calls, waiter)

(* The owner calls release() on its handle.                                *)
Release(c) ==
  /\ Holding(c)
  /\ releaseWrite(call[c].token, [call EXCEPT ![c] = NoCall])
  /\ spent' = spent \cup {call[c].token}
  /\ UNCHANGED <<nextToken, cancelled, aborted>>

(* release() is called again on a handle that was already released.        *)
ReleaseAgain(t) ==
  /\ t \in spent
  /\ releaseWrite(t, call)
  /\ UNCHANGED <<nextToken, cancelled, aborted, spent>>

Next ==
  \/ \E c \in Callers :
       \/ AcquireFree(c)
       \/ AcquirePreAborted(c)
       \/ AcquireBusy(c)
       \/ Deadline(c)
       \/ Release(c)
  \/ \E t \in Token : ReleaseAgain(t)
  \/ Abort

Spec == Init /\ [][Next]_vars
-----------------------------------------------------------------------------
(***************************************************************************)
(* At most one write node is between the grant of its handle and its       *)
(* release: "exactly one write node in flight at any time", whatever the   *)
(* order of releases, double releases, aborts and deadlines                *)
(* (concurrency-controller.ts:3-5).                                        *)
(***************************************************************************)
MutualExclusion ==
  \A c, d \in Callers : Holding(c) /\ Holding(d) => c = d

(***************************************************************************)
(* A held slot is always held by a caller that will release it: no step,   *)
(* in particular no handoff racing a cancelled waiter, leaves writeHeld    *)
(* set for a caller that gave up, which would block every later write.     *)
(***************************************************************************)
SlotHasHolder ==
  writeHeld => \E c \in Callers : Holding(c) /\ call[c].token = writeOwnerToken

(***************************************************************************)
(* The slot implements the abstract mutex of WriteMutex.tla.  A release    *)
(* with a registered waiter never frees the slot on the way ("no window    *)
(* without an owner", concurrency-controller.ts:112-116); whoever gets it  *)
(* is the registered waiter and has not given up in the meantime (lines    *)
(* 13-15); a cancelled waiter is no longer the heir.                       *)
(***************************************************************************)
Mutex == INSTANCE WriteMutex
  WITH inside  <- {c \in Callers : Holding(c)},
       waiting <- {c \in Callers : Waiting(c)},
       heir    <- {c \in Callers : Waiting(c) /\ call[c].token = waiter}

ImplementsMutex == Mutex!Spec

(***************************************************************************)
(* "cancellable FIFO waiter" (line 8), "several writers wait serially in   *)
(* arrival order" (line 53): the waiter that the next release will serve   *)
(* is the oldest call still waiting.                                       *)
(***************************************************************************)
OldestWaiterIsServed ==
  \A c \in Callers : Waiting(c) => waiter # 0 /\ waiter <= call[c].token
=============================================================================
