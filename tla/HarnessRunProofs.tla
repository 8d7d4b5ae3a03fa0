-------------------------- MODULE HarnessRunProofs --------------------------
(***************************************************************************)
(* TLAPS proofs about HarnessRun: for any number of resume() calls and of  *)
(* interrupts.                                                             *)
(***************************************************************************)
EXTENDS HarnessRun, TLAPS

(***************************************************************************)
(* The inductive invariant.                                                *)
(***************************************************************************)

\* A call that has started to drive a run and has not saved it yet.
Driving == {"starting", "running", "stopping", "finishing", "saving"}

\* Before run() there is nothing to resume.
NothingBeforeRun ==
  pc[First] = "idle" =>
    /\ \A c \in Calls : pc[c] = "idle" /\ obj[c] = NoRun
    /\ record = NoRun /\ last = 0 /\ registered = NoOne

\* An object is registered, or driven, only after its call has made it.
ObjectsAreMade ==
  /\ \A c \in Calls : pc[c] \in Driving \union {"checking"} => at[c] \in Calls /\ registered # NoOne
  /\ \A c, d \in Calls : pc[d] \in {"idle", "loading"} => at[c] # d /\ registered # d
  /\ \A c \in Calls : pc[c] = "loading" => obj[c] # NoRun

\* The process of run() holds no restored copy.
OwnProcess ==
  obj[First] # NoRun => registered # NoOne /\ \A c \in Calls : c # First => obj[c] = NoRun

\* One call serves an object, and its status is running meanwhile.
OneServes ==
  /\ \A c \in Calls : Serving(c) => obj[at[c]].status = "running"
  /\ \A c, d \in Calls : Serving(c) /\ Serving(d) /\ at[c] = at[d] => c = d

\* Interrupts are numbered in the order of their creation.
Numbered ==
  /\ \A c \in Calls : obj[c].intr <= last /\ asked[c] <= last
  /\ record.intr <= last
  /\ \A i \in settled : i <= last
  /\ \A i \in Interrupts : accepted[i] # {} => i <= last

\* An interrupt pending on an object that a call drives is nobody else's: no
\* call in progress answers it, no save has settled it, no copy carries it.
PendingIsFresh ==
  \A c \in Calls : pc[c] \in Driving /\ obj[at[c]].answer = "pending" =>
    /\ obj[at[c]].intr \notin settled
    /\ \A d \in Calls : pc[d] \in Driving => asked[d] # obj[at[c]].intr
    /\ \A d \in Calls : d # at[c] => obj[d].intr # obj[at[c]].intr

\* An accepted answer stays on the object it was given to.
AcceptedIsAnswered ==
  \A i \in Interrupts : \A c \in accepted[i] :
    /\ pc[c] \in Driving \union {"done"} /\ at[c] \in Calls
    /\ obj[at[c]].intr >= i
    /\ obj[at[c]].intr = i => obj[at[c]].answer # "pending"

\* What a call holds, by phase.
Released ==
  \A c \in Calls :
    /\ pc[c] \in {"idle", "loading", "checking", "starting", "dead"} => kernel[c] = "none"
    /\ kernel[c] # "none" => at[c] \in Calls
    /\ pc[c] \in {"stopping", "finishing", "saving", "done"} /\ kernel[c] = "open"
         => obj[at[c]].status = "cancelled"
    /\ pc[c] \in {"finishing", "saving", "done"} /\ kernel[c] # "none" => c \notin timer
    /\ pc[c] \in {"saving", "done"} /\ kernel[c] # "none" => c \in aborted

\* The parts of the invariant that only say who drives which object.
DriveInv ==
  /\ NothingBeforeRun
  /\ ObjectsAreMade
  /\ OwnProcess
  /\ OneServes
  /\ Numbered
  /\ PendingIsFresh
  /\ AcceptedIsAnswered
  /\ CancelReachesLoop

IInv ==
  /\ TypeOK
  /\ DriveInv
  /\ Released
  /\ SavedAnswerIsFinal

(***************************************************************************)
(* Steps that move one call and leave the objects alone.                   *)
(***************************************************************************)
Untouched == <<obj, at, registered, handle, record, last, asked, accepted, settled>>

LEMMA GoesPhase ==
  ASSUME TypeOK, NEW c \in Calls, NEW ph \in Phases, Goes(c, ph)
  PROVE  /\ pc' \in [Calls -> Phases] /\ pc'[c] = ph
         /\ \A d \in Calls : d # c => pc'[d] = pc[d]
  BY DEF TypeOK, Goes

LEMMA MoveOn ==
  ASSUME TypeOK, DriveInv, NEW c \in Calls, NEW ph \in Driving \union {"done"}, Goes(c, ph),
         pc[c] \in Driving \union {"checking", "idle"},
         pc[First] # "idle",
         ph \in {"starting", "running"} => Serving(c),
         ph \in Driving => pc[c] \in Driving,
         UNCHANGED Untouched
  PROVE  DriveInv'
  <1>1. /\ pc' \in [Calls -> Phases] /\ pc'[c] = ph
        /\ \A d \in Calls : d # c => pc'[d] = pc[d]
    BY GoesPhase DEF Driving, Phases
  <1>2. /\ obj' = obj /\ at' = at /\ registered' = registered /\ handle' = handle /\ record' = record
        /\ last' = last /\ asked' = asked /\ accepted' = accepted /\ settled' = settled
    BY DEF Untouched
  <1>3. NothingBeforeRun'
    BY <1>1, FirstAssumption DEF NothingBeforeRun, Driving
  <1>4. ObjectsAreMade'
    BY <1>1, <1>2 DEF DriveInv, ObjectsAreMade, Driving
  <1>5. OwnProcess' /\ Numbered'
    BY <1>2 DEF DriveInv, OwnProcess, Numbered
  <1>6. \A d \in Calls : Serving(d)' => Serving(d)
    BY <1>1 DEF Serving
  <1>7. OneServes'
    BY <1>2, <1>6 DEF DriveInv, OneServes
  <1>8. CancelReachesLoop'
    BY <1>2, <1>6 DEF DriveInv, CancelReachesLoop
  <1>9. \A d \in Calls : pc'[d] \in Driving => pc[d] \in Driving
    BY <1>1
  <1>10. PendingIsFresh'
    BY <1>2, <1>9 DEF DriveInv, PendingIsFresh
  <1>11. \A d \in Calls : pc[d] \in Driving \union {"done"} => pc'[d] \in Driving \union {"done"}
    BY <1>1
  <1>12. AcceptedIsAnswered'
    <2>1. \A i \in Interrupts : accepted[i] \subseteq Calls
      BY DEF TypeOK
    <2> QED BY <2>1, <1>2, <1>11 DEF DriveInv, AcceptedIsAnswered
  <1> QED BY <1>3, <1>4, <1>5, <1>7, <1>8, <1>10, <1>12 DEF DriveInv

\* A step of no call: a watchdog, cancel() or a budget sets an abort signal.
LEMMA NobodyMoves ==
  ASSUME DriveInv, UNCHANGED Untouched, pc' = pc
  PROVE  DriveInv'
  BY DEF Untouched, DriveInv, NothingBeforeRun, ObjectsAreMade, OwnProcess, OneServes, Serving,
         Numbered, PendingIsFresh, AcceptedIsAnswered, CancelReachesLoop

\* A call that drives a run is not the first sign of life of run().
LEMMA DrivenAfterRun ==
  ASSUME DriveInv, NEW c \in Calls, pc[c] # "idle"
  PROVE  pc[First] # "idle"
  BY DEF DriveInv, NothingBeforeRun

LEMMA OpenLoopStep ==
  ASSUME IInv, NEW c \in Calls, OpenLoop(c)
  PROVE  IInv'
  <1>1. DriveInv'
    BY MoveOn, DrivenAfterRun DEF IInv, OpenLoop, Untouched, history, Driving, Serving
  <1>2. /\ pc' \in [Calls -> Phases] /\ pc'[c] = "running"
        /\ \A d \in Calls : d # c => pc'[d] = pc[d]
    BY GoesPhase DEF IInv, OpenLoop, Phases
  <1>3. TypeOK'
    BY <1>2 DEF IInv, TypeOK, OpenLoop, history
  <1>4. Released'
    BY <1>2 DEF IInv, TypeOK, DriveInv, ObjectsAreMade, Driving, Released, OpenLoop
  <1> QED BY <1>1, <1>3, <1>4 DEF IInv, SavedAnswerIsFinal, OpenLoop, history

LEMMA CloseAtStartStep ==
  ASSUME IInv, NEW c \in Calls, CloseAtStart(c)
  PROVE  IInv'
  <1>1. DriveInv'
    BY MoveOn, DrivenAfterRun DEF IInv, CloseAtStart, Untouched, history, memory, Driving, Serving
  <1>2. /\ pc' \in [Calls -> Phases] /\ pc'[c] = "saving"
        /\ \A d \in Calls : d # c => pc'[d] = pc[d]
    BY GoesPhase DEF IInv, CloseAtStart, Phases
  <1>3. TypeOK'
    BY <1>2 DEF IInv, TypeOK, CloseAtStart, memory, history
  <1>4. Released'
    BY <1>2 DEF IInv, Released, CloseAtStart, memory
  <1> QED BY <1>1, <1>3, <1>4 DEF IInv, SavedAnswerIsFinal, CloseAtStart, history

LEMMA CloseEarlyStep ==
  ASSUME IInv, NEW c \in Calls, CloseEarly(c)
  PROVE  IInv'
  <1>1. DriveInv'
    BY MoveOn, DrivenAfterRun DEF IInv, CloseEarly, LeaveTry, Untouched, history, Driving, Serving
  <1>2. /\ pc' \in [Calls -> Phases] /\ pc'[c] = "finishing"
        /\ \A d \in Calls : d # c => pc'[d] = pc[d]
    BY GoesPhase DEF IInv, CloseEarly, LeaveTry, Phases
  <1>3. TypeOK'
    BY <1>2 DEF IInv, TypeOK, CloseEarly, LeaveTry, history
  <1>4. Released'
    BY <1>2 DEF IInv, TypeOK, DriveInv, ObjectsAreMade, Driving, Released, CloseEarly, LeaveTry
  <1> QED BY <1>1, <1>3, <1>4 DEF IInv, SavedAnswerIsFinal, CloseEarly, history

LEMMA EventsYieldedStep ==
  ASSUME IInv, NEW c \in Calls, EventsYielded(c)
  PROVE  IInv'
  <1>1. DriveInv'
    BY MoveOn, DrivenAfterRun DEF IInv, EventsYielded, LeaveTry, Untouched, history, Driving, Serving
  <1>2. /\ pc' \in [Calls -> Phases] /\ pc'[c] = "finishing"
        /\ \A d \in Calls : d # c => pc'[d] = pc[d]
    BY GoesPhase DEF IInv, EventsYielded, LeaveTry, Phases
  <1>3. TypeOK'
    BY <1>2 DEF IInv, TypeOK, EventsYielded, LeaveTry, history
  <1>4. Released'
    BY <1>2 DEF IInv, Released, EventsYielded, LeaveTry
  <1> QED BY <1>1, <1>3, <1>4 DEF IInv, SavedAnswerIsFinal, EventsYielded, history

LEMMA CleanupRunStep ==
  ASSUME IInv, NEW c \in Calls, cleanupRun(c)
  PROVE  IInv'
  <1>1. DriveInv'
    BY MoveOn, DrivenAfterRun DEF IInv, cleanupRun, Untouched, history, Driving, Serving
  <1>2. /\ pc' \in [Calls -> Phases] /\ pc'[c] = "saving"
        /\ \A d \in Calls : d # c => pc'[d] = pc[d]
    BY GoesPhase DEF IInv, cleanupRun, Phases
  <1>3. TypeOK'
    BY <1>2 DEF IInv, TypeOK, cleanupRun, history
  <1>4. Released'
    BY <1>2 DEF IInv, Released, cleanupRun
  <1> QED BY <1>1, <1>3, <1>4 DEF IInv, SavedAnswerIsFinal, cleanupRun, history

LEMMA SaveFailsStep ==
  ASSUME IInv, NEW c \in Calls, SaveFails(c)
  PROVE  IInv'
  <1>1. DriveInv'
    BY MoveOn, DrivenAfterRun DEF IInv, SaveFails, Untouched, history, memory, Driving, Serving
  <1>2. /\ pc' \in [Calls -> Phases] /\ pc'[c] = "done"
        /\ \A d \in Calls : d # c => pc'[d] = pc[d]
    BY GoesPhase DEF IInv, SaveFails, Phases
  <1>3. TypeOK'
    BY <1>2 DEF IInv, TypeOK, SaveFails, memory, history
  <1>4. Released'
    BY <1>2 DEF IInv, Released, SaveFails, memory
  <1> QED BY <1>1, <1>3, <1>4 DEF IInv, SavedAnswerIsFinal, SaveFails, history

\* A call that ends without having driven anything.
LEMMA EndsUnserved ==
  ASSUME IInv, NEW c \in Calls, pc[c] \in {"idle", "checking"}, pc[First] # "idle",
         Goes(c, "done"), UNCHANGED <<memory, record, history>>
  PROVE  IInv'
  <1>1. DriveInv'
    BY MoveOn DEF IInv, Untouched, history, memory, Driving, Serving
  <1>2. /\ pc' \in [Calls -> Phases] /\ pc'[c] = "done"
        /\ \A d \in Calls : d # c => pc'[d] = pc[d]
    BY GoesPhase DEF IInv, Phases
  <1>3. TypeOK'
    BY <1>2 DEF IInv, TypeOK, memory, history
  <1>4. Released'
    BY <1>2 DEF IInv, Released, memory
  <1> QED BY <1>1, <1>3, <1>4 DEF IInv, SavedAnswerIsFinal, history

LEMMA RunNotFoundStep ==
  ASSUME IInv, NEW c \in Calls, RunNotFound(c)
  PROVE  IInv'
  <1>1. pc[First] # "idle"
    BY DEF IInv, DriveInv, NothingBeforeRun, RunNotFound
  <1> QED BY <1>1, EndsUnserved DEF RunNotFound

\* What a call validates exists, and so does run().
LEMMA ValidatingFacts ==
  ASSUME IInv, NEW c \in Calls, NEW o \in Calls, NEW i \in Interrupts, Validating(c, o, i)
  PROVE  /\ pc[c] \in {"idle", "checking"} /\ pc[First] # "idle"
         /\ registered # NoOne
         /\ pc[o] \notin {"idle", "loading"}
         /\ c # First \/ pc[c] = "checking"
  <1>1. CASE pc[c] = "checking" /\ o = at[c]
    BY <1>1, DrivenAfterRun DEF IInv, DriveInv, ObjectsAreMade, NothingBeforeRun
  <1>2. CASE c # First /\ pc[c] = "idle" /\ registered # NoOne /\ o = registered
    BY <1>2, FirstAssumption DEF IInv, DriveInv, ObjectsAreMade, NothingBeforeRun
  <1> QED BY <1>1, <1>2 DEF Validating

LEMMA ResumeRefusedStep ==
  ASSUME IInv, NEW c \in Calls, ResumeRefused(c)
  PROVE  IInv'
  BY EndsUnserved, ValidatingFacts DEF ResumeRefused

LEMMA AbortStep ==
  ASSUME IInv, UNCHANGED Untouched, pc' = pc, kernel' = kernel, active' = active,
         aborted' \in SUBSET Calls, aborted \subseteq aborted', timer' \subseteq timer
  PROVE  IInv'
  <1>1. DriveInv'
    BY NobodyMoves DEF IInv
  <1>2. TypeOK'
    BY DEF IInv, TypeOK, Untouched
  <1>3. Released'
    BY DEF IInv, Released, Untouched
  <1> QED BY <1>1, <1>2, <1>3 DEF IInv, SavedAnswerIsFinal, Untouched

LEMMA AbortSteps ==
  ASSUME IInv, NEW c \in Calls, WallTimeout(c) \/ Cancel \/ ModelCallBudget(c)
  PROVE  IInv'
  <1>1. CASE WallTimeout(c)
    BY <1>1, AbortStep DEF WallTimeout, Untouched, history, IInv, TypeOK
  <1>2. CASE Cancel
    BY <1>2, AbortStep DEF Cancel, Untouched, history, IInv, TypeOK
  <1>3. CASE ModelCallBudget(c)
    BY <1>3, AbortStep DEF ModelCallBudget, Untouched, history, IInv, TypeOK
  <1> QED BY <1>1, <1>2, <1>3

(***************************************************************************)
(* Saving, and the steps that make or change an object.                    *)
(***************************************************************************)
LEMMA SaveRunStep ==
  ASSUME IInv, NEW c \in Calls, SaveRun(c)
  PROVE  IInv'
  <1>1. /\ pc' \in [Calls -> Phases] /\ pc'[c] = "done"
        /\ \A d \in Calls : d # c => pc'[d] = pc[d]
    BY GoesPhase DEF IInv, SaveRun, Phases
  <1>2. pc[c] = "saving" /\ pc[c] \in Driving /\ at[c] \in Calls /\ registered # NoOne
    BY DEF IInv, DriveInv, ObjectsAreMade, SaveRun, Driving
  <1>3. /\ obj' = obj /\ at' = at /\ registered' = registered /\ handle' = handle /\ kernel' = kernel
        /\ timer' = timer /\ aborted' = aborted /\ active' = active
        /\ last' = last /\ asked' = asked /\ accepted' = accepted
        /\ record' = obj[at[c]] /\ settled' = settled \union ({asked[c]} \ {0})
    BY DEF SaveRun, memory
  <1>4. asked[c] \in 0 .. MaxInterrupts /\ obj[at[c]] \in Runs \union {NoRun}
    BY <1>2 DEF IInv, TypeOK
  <1>5. TypeOK'
    <2>1. settled' \subseteq Interrupts
      <3>1. {asked[c]} \ {0} \subseteq Interrupts
        BY <1>4, BoundAssumption DEF Interrupts
      <3> QED BY <3>1, <1>3 DEF IInv, TypeOK
    <2> QED BY <2>1, <1>1, <1>3, <1>4 DEF IInv, TypeOK
  <1>6. SavedAnswerIsFinal'
    BY <1>2, <1>3 DEF IInv, DriveInv, PendingIsFresh, SavedAnswerIsFinal
  <1>7. Released'
    BY <1>1, <1>2, <1>3 DEF IInv, Released
  <1>8. NothingBeforeRun'
    BY <1>1, <1>2, DrivenAfterRun, FirstAssumption DEF IInv, NothingBeforeRun
  <1>9. ObjectsAreMade' /\ OwnProcess'
    BY <1>1, <1>2, <1>3 DEF IInv, DriveInv, ObjectsAreMade, OwnProcess, Driving
  <1>10. OneServes' /\ CancelReachesLoop'
    <2>1. \A d \in Calls : Serving(d)' => Serving(d)
      BY <1>1 DEF Serving
    <2> QED BY <2>1, <1>3 DEF IInv, DriveInv, OneServes, CancelReachesLoop
  <1>11. Numbered'
    BY <1>2, <1>3 DEF IInv, DriveInv, Numbered
  <1>12. PendingIsFresh'
    <2>1. \A d \in Calls : pc'[d] \in Driving => pc[d] \in Driving
      BY <1>1, <1>2
    <2> QED BY <2>1, <1>2, <1>3 DEF IInv, DriveInv, PendingIsFresh
  <1>13. AcceptedIsAnswered'
    <2>1. \A d \in Calls : pc[d] \in Driving \union {"done"} => pc'[d] \in Driving \union {"done"}
      BY <1>1
    <2>2. \A i \in Interrupts : accepted[i] \subseteq Calls
      BY DEF IInv, TypeOK
    <2> QED BY <2>1, <2>2, <1>3 DEF IInv, DriveInv, AcceptedIsAnswered
  <1> QED BY <1>5, <1>6, <1>7, <1>8, <1>9, <1>10, <1>11, <1>12, <1>13 DEF IInv, DriveInv

LEMMA RunStart ==
  ASSUME IInv, NEW c \in Calls, Run(c)
  PROVE  IInv'
  <1> DEFINE new == [status |-> "running", intr |-> 0, answer |-> "none"]
  <1>1. new \in Runs /\ new # NoRun /\ new.intr = 0 /\ new.answer # "pending" /\ new.status = "running"
    BY BoundAssumption DEF Runs, NoRun, Status
  <1>2. c = First /\ pc[First] = "idle"
    BY DEF Run
  <1>3. /\ \A d \in Calls : pc[d] = "idle" /\ obj[d] = NoRun
        /\ record = NoRun /\ last = 0 /\ registered = NoOne
    BY <1>2 DEF IInv, DriveInv, NothingBeforeRun
  <1>4. /\ pc' \in [Calls -> Phases] /\ pc'[c] = "starting"
        /\ \A d \in Calls : d # c => pc'[d] = pc[d]
    BY GoesPhase DEF IInv, Run, Phases
  <1>5. /\ obj' = [obj EXCEPT ![c] = new] /\ at' = [at EXCEPT ![c] = c]
        /\ registered' = c /\ handle' = c /\ active' = TRUE /\ timer' = timer \union {c}
        /\ UNCHANGED <<kernel, aborted, record, last, asked, accepted, settled>>
    BY DEF Run, history
  <1> HIDE DEF new
  <1>6. /\ obj'[c] = new /\ \A d \in Calls : d # c => obj'[d] = NoRun
        /\ at'[c] = c /\ \A d \in Calls : d # c => at'[d] = at[d]
    BY <1>3, <1>5 DEF IInv, TypeOK
  <1>7. TypeOK'
    BY <1>1, <1>4, <1>5 DEF IInv, TypeOK
  <1>8. SavedAnswerIsFinal'
    BY <1>5 DEF IInv, SavedAnswerIsFinal
  <1>9. \A d \in Calls : kernel[d] = "none"
    BY <1>3 DEF IInv, Released
  <1>10. Released'
    BY <1>9, <1>5 DEF Released
  <1>11. NothingBeforeRun' /\ ObjectsAreMade' /\ OwnProcess'
    <2>1. NothingBeforeRun'
      BY <1>2, <1>4 DEF NothingBeforeRun
    <2>2. \A d, e \in Calls : pc[e] \in {"idle", "loading"} => at[d] # e
      BY DEF IInv, DriveInv, ObjectsAreMade
    <2>3. ObjectsAreMade'
      BY <2>2, <1>3, <1>4, <1>5, <1>6, FirstAssumption DEF ObjectsAreMade, Driving
    <2>4. OwnProcess'
      BY <1>2, <1>5, <1>6, FirstAssumption DEF OwnProcess
    <2> QED BY <2>1, <2>3, <2>4
  <1>12. OneServes' /\ CancelReachesLoop'
    BY <1>1, <1>3, <1>4, <1>5, <1>6 DEF OneServes, CancelReachesLoop, Serving
  <1>13. Numbered'
    <2>1. NoRun.intr = 0
      BY DEF NoRun
    <2> QED BY <2>1, <1>1, <1>3, <1>5, <1>6 DEF IInv, DriveInv, Numbered
  <1>14. PendingIsFresh'
    BY <1>1, <1>3, <1>4, <1>6 DEF PendingIsFresh, Driving
  <1>15. AcceptedIsAnswered'
    <2>1. \A i \in Interrupts : accepted[i] = {}
      BY <1>3, BoundAssumption DEF IInv, DriveInv, Numbered, Interrupts
    <2> QED BY <2>1, <1>5 DEF AcceptedIsAnswered
  <1> QED BY <1>7, <1>8, <1>10, <1>11, <1>12, <1>13, <1>14, <1>15 DEF IInv, DriveInv

\* A copy is restored only in a process that drives nothing yet.
LEMMA LoadRunStep ==
  ASSUME IInv, NEW c \in Calls, LoadRun(c)
  PROVE  IInv'
  <1>1. PICK i \in 1 .. last : asked' = [asked EXCEPT ![c] = i]
    BY DEF LoadRun
  <1>2. /\ pc' \in [Calls -> Phases] /\ pc'[c] = "loading"
        /\ \A d \in Calls : d # c => pc'[d] = pc[d]
    BY GoesPhase DEF IInv, LoadRun, Phases
  <1>3. /\ c # First /\ pc[c] = "idle" /\ registered = NoOne /\ record # NoRun
        /\ obj' = [obj EXCEPT ![c] = record]
        /\ UNCHANGED <<at, kernel, registered, handle, aborted, timer, active, record,
                       last, accepted, settled>>
    BY DEF LoadRun
  <1>4. /\ obj'[c] = record /\ \A d \in Calls : d # c => obj'[d] = obj[d]
        /\ asked'[c] = i /\ \A d \in Calls : d # c => asked'[d] = asked[d]
    BY <1>1, <1>3 DEF IInv, TypeOK
  <1>5. last \in 0 .. MaxInterrupts /\ i \in 0 .. MaxInterrupts /\ i <= last
    BY <1>1, BoundAssumption DEF IInv, TypeOK
  <1>6. \A d \in Calls : pc[d] \notin Driving /\ at[d] # c
    BY <1>3 DEF IInv, DriveInv, ObjectsAreMade
  <1>7. \A d \in Calls : pc'[d] \notin Driving
    BY <1>2, <1>6 DEF Driving
  <1>8. TypeOK'
    BY <1>1, <1>2, <1>3, <1>5 DEF IInv, TypeOK
  <1>9. SavedAnswerIsFinal'
    BY <1>3 DEF IInv, SavedAnswerIsFinal
  <1>10. Released'
    <2>1. \A d \in Calls : kernel[d] # "none" => obj'[at[d]] = obj[at[d]]
      BY <1>4, <1>6 DEF IInv, Released
    <2> QED BY <2>1, <1>2, <1>3 DEF IInv, Released
  <1>11. NothingBeforeRun'
    BY <1>2, <1>3, FirstAssumption DEF IInv, DriveInv, NothingBeforeRun
  <1>12. ObjectsAreMade'
    BY <1>2, <1>3, <1>4, <1>6, <1>7, FirstAssumption DEF IInv, DriveInv, ObjectsAreMade
  <1>13. OwnProcess'
    BY <1>3, <1>4, FirstAssumption DEF IInv, DriveInv, OwnProcess
  <1>14. OneServes' /\ CancelReachesLoop' /\ PendingIsFresh'
    <2>1. \A d \in Calls : ~Serving(d)'
      BY <1>7 DEF Serving, Driving
    <2> QED BY <2>1, <1>7 DEF OneServes, CancelReachesLoop, PendingIsFresh
  <1>15. Numbered'
    BY <1>3, <1>4, <1>5 DEF IInv, DriveInv, Numbered
  <1>16. AcceptedIsAnswered'
    <2>1. \A j \in Interrupts : \A d \in accepted[j] : d \in Calls /\ pc[d] = "done" /\ d # c
      BY <1>3, <1>6 DEF IInv, TypeOK, DriveInv, AcceptedIsAnswered, Driving
    <2>2. \A d \in Calls : at[d] \in Calls => obj'[at[d]] = obj[at[d]]
      BY <1>4, <1>6
    <2> QED BY <2>1, <2>2, <1>2, <1>3 DEF IInv, DriveInv, AcceptedIsAnswered
  <1> QED BY <1>8, <1>9, <1>10, <1>11, <1>12, <1>13, <1>14, <1>15, <1>16 DEF IInv, DriveInv

LEMMA RegisterRestoredStep ==
  ASSUME IInv, NEW c \in Calls, RegisterRestored(c)
  PROVE  IInv'
  <1>1. /\ pc' \in [Calls -> Phases] /\ pc'[c] = "checking"
        /\ \A d \in Calls : d # c => pc'[d] = pc[d]
    BY GoesPhase DEF IInv, RegisterRestored, Phases
  <1>2. /\ pc[c] = "loading" /\ at' = [at EXCEPT ![c] = c]
        /\ registered' = c /\ handle' = NoOne
        /\ UNCHANGED <<obj, kernel, aborted, timer, active, record, last, asked, accepted, settled>>
    BY DEF RegisterRestored, history
  <1>3. at'[c] = c /\ \A d \in Calls : d # c => at'[d] = at[d]
    BY <1>2 DEF IInv, TypeOK
  <1>4. /\ obj[c] # NoRun /\ kernel[c] = "none"
        /\ \A d \in Calls : at[d] # c
    BY <1>2 DEF IInv, DriveInv, ObjectsAreMade, Released
  <1>5. \A d \in Calls : (pc'[d] \in Driving <=> pc[d] \in Driving) /\ (Serving(d)' <=> Serving(d))
    BY <1>1, <1>2 DEF Driving, Serving
  <1>6. \A d \in Calls : Serving(d) => d # c
    BY <1>2 DEF Serving
  <1>7. TypeOK'
    BY <1>1, <1>2 DEF IInv, TypeOK
  <1>8. SavedAnswerIsFinal'
    BY <1>2 DEF IInv, SavedAnswerIsFinal
  <1>9. Released'
    BY <1>1, <1>2, <1>3, <1>4 DEF IInv, Released
  <1>10. NothingBeforeRun'
    BY <1>1, <1>2, DrivenAfterRun, FirstAssumption DEF IInv, NothingBeforeRun
  <1>11. ObjectsAreMade'
    BY <1>1, <1>2, <1>3, FirstAssumption DEF IInv, DriveInv, ObjectsAreMade, Driving
  <1>12. OwnProcess'
    BY <1>2, FirstAssumption DEF IInv, DriveInv, OwnProcess
  <1>13. OneServes'
    BY <1>2, <1>3, <1>5, <1>6 DEF IInv, DriveInv, OneServes
  <1>14. CancelReachesLoop'
    BY <1>2, <1>3, <1>4, <1>5, <1>6 DEF CancelReachesLoop
  <1>15. Numbered'
    BY <1>2 DEF IInv, DriveInv, Numbered
  <1>16. PendingIsFresh'
    <2>1. \A d \in Calls : pc[d] \in Driving => at'[d] = at[d]
      BY <1>2, <1>3 DEF Driving
    <2> QED BY <2>1, <1>2, <1>5 DEF IInv, DriveInv, PendingIsFresh
  <1>17. AcceptedIsAnswered'
    <2>1. \A i \in Interrupts : \A d \in accepted[i] : d \in Calls /\ d # c
      BY <1>2 DEF IInv, TypeOK, DriveInv, AcceptedIsAnswered, Driving
    <2> QED BY <2>1, <1>1, <1>2, <1>3 DEF IInv, DriveInv, AcceptedIsAnswered
  <1> QED BY <1>7, <1>8, <1>9, <1>10, <1>11, <1>12, <1>13, <1>14, <1>15, <1>16, <1>17 DEF IInv, DriveInv

\* The object a call answers, before the answer.
LEMMA AnsweredObject ==
  ASSUME IInv, NEW c \in Calls, NEW o \in Calls, NEW i \in Interrupts,
         Validating(c, o, i), validateResume(o, i)
  PROVE  /\ obj[o] \in Runs /\ obj[o] # NoRun
         /\ obj[o].status = "waiting" /\ obj[o].answer = "pending" /\ obj[o].intr = i
         /\ \A d \in Calls : Serving(d) => at[d] # o /\ d # c
         /\ \A d \in Calls : pc[d] \in Driving => d # c
         /\ \A j \in Interrupts : \A d \in accepted[j] : d \in Calls /\ d # c
         /\ kernel[c] = "none"
  <1>1. obj[o].status = "waiting" /\ obj[o].answer = "pending" /\ obj[o].intr = i
    BY DEF validateResume
  <1>2. obj[o] # NoRun
    BY <1>1 DEF NoRun
  <1>3. obj[o] \in Runs
    BY <1>2 DEF IInv, TypeOK
  <1>4. \A d \in Calls : Serving(d) => at[d] # o
    BY <1>1 DEF IInv, DriveInv, OneServes
  <1>5. pc[c] \in {"idle", "checking"}
    BY ValidatingFacts
  <1>6. \A j \in Interrupts : \A d \in accepted[j] : d \in Calls /\ d # c
    BY <1>5 DEF IInv, TypeOK, DriveInv, AcceptedIsAnswered, Driving
  <1>7. kernel[c] = "none"
    BY <1>5 DEF IInv, Released
  <1>8. \A d \in Calls : (Serving(d) \/ pc[d] \in Driving) => d # c
    BY <1>5 DEF Serving, Driving
  <1> QED BY <1>1, <1>2, <1>3, <1>4, <1>6, <1>7, <1>8

LEMMA RejectInterruptStep ==
  ASSUME IInv, NEW c \in Calls, RejectInterrupt(c)
  PROVE  IInv'
  <1>1. PICK o \in Calls, i \in Interrupts :
          /\ Validating(c, o, i) /\ validateResume(o, i)
          /\ obj' = [obj EXCEPT ![o].status = "cancelled", ![o].answer = "rejected"]
          /\ at' = [at EXCEPT ![c] = o] /\ asked' = [asked EXCEPT ![c] = i]
          /\ Goes(c, "saving")
          /\ UNCHANGED <<kernel, registered, handle, aborted, timer, active, record,
                         last, accepted, settled>>
    BY DEF RejectInterrupt
  <1>2. /\ obj[o] \in Runs /\ obj[o] # NoRun
        /\ obj[o].status = "waiting" /\ obj[o].answer = "pending" /\ obj[o].intr = i
        /\ \A d \in Calls : Serving(d) => at[d] # o /\ d # c
        /\ \A d \in Calls : pc[d] \in Driving => d # c
        /\ \A j \in Interrupts : \A d \in accepted[j] : d \in Calls /\ d # c
        /\ kernel[c] = "none"
    BY <1>1, AnsweredObject
  <1>3. /\ pc[c] \in {"idle", "checking"} /\ pc[First] # "idle" /\ registered # NoOne
        /\ pc[o] \notin {"idle", "loading"}
    BY <1>1, ValidatingFacts
  <1>4. /\ pc' \in [Calls -> Phases] /\ pc'[c] = "saving"
        /\ \A d \in Calls : d # c => pc'[d] = pc[d]
    BY <1>1, GoesPhase DEF IInv, Phases
  <1>5. /\ obj' \in [Calls -> Runs \union {NoRun}]
        /\ obj'[o].status = "cancelled" /\ obj'[o].answer = "rejected" /\ obj'[o].intr = i
        /\ \A d \in Calls : d # o => obj'[d] = obj[d]
    BY <1>1, <1>2 DEF IInv, TypeOK, Runs, Status, Terminal
  <1>6. /\ at'[c] = o /\ \A d \in Calls : d # c => at'[d] = at[d]
        /\ asked'[c] = i /\ \A d \in Calls : d # c => asked'[d] = asked[d]
        /\ i \in 0 .. MaxInterrupts /\ i <= last
    BY <1>1, <1>2, BoundAssumption DEF IInv, TypeOK, Interrupts, DriveInv, Numbered
  <1>7. obj'[o] # NoRun /\ \A d \in Calls : obj'[d] # NoRun <=> obj[d] # NoRun
    BY <1>2, <1>5 DEF NoRun
  <1>8. TypeOK'
    BY <1>1, <1>4, <1>5, <1>6 DEF IInv, TypeOK
  <1>9. SavedAnswerIsFinal'
    BY <1>1 DEF IInv, SavedAnswerIsFinal
  <1>10. Released'
    BY <1>1, <1>2, <1>4, <1>5, <1>6 DEF IInv, Released
  <1>11. NothingBeforeRun'
    BY <1>3, <1>4, FirstAssumption DEF NothingBeforeRun
  <1>12. ObjectsAreMade'
    <2>1. \A d \in Calls : pc'[d] \in Driving \union {"checking"} => at'[d] \in Calls /\ registered' # NoOne
      BY <1>1, <1>3, <1>4, <1>6 DEF IInv, DriveInv, ObjectsAreMade
    <2>2. \A e \in Calls : pc'[e] \in {"idle", "loading"} => pc[e] \in {"idle", "loading"} /\ e # o
      BY <1>3, <1>4
    <2>3. \A d, e \in Calls : pc'[e] \in {"idle", "loading"} => at'[d] # e /\ registered' # e
      BY <2>2, <1>1, <1>6 DEF IInv, DriveInv, ObjectsAreMade
    <2>4. \A d \in Calls : pc'[d] = "loading" => obj'[d] # NoRun
      BY <1>4, <1>7 DEF IInv, DriveInv, ObjectsAreMade
    <2> QED BY <2>1, <2>3, <2>4 DEF ObjectsAreMade
  <1>13. OwnProcess'
    BY <1>1, <1>7, FirstAssumption DEF IInv, DriveInv, OwnProcess
  <1>14. \A d \in Calls : Serving(d)' => Serving(d)
    BY <1>4 DEF Serving
  <1>15. OneServes'
    BY <1>2, <1>5, <1>6, <1>14 DEF IInv, TypeOK, DriveInv, OneServes, ObjectsAreMade, Serving, Driving
  <1>16. CancelReachesLoop'
    <2> SUFFICES ASSUME NEW d \in Calls, Serving(d)',
                        \A e \in Calls : obj'[e] # NoRun => e = at'[d]
                 PROVE  FALSE
      BY DEF CancelReachesLoop
    <2>1. Serving(d) /\ d # c /\ at[d] # o
      BY <1>2, <1>14
    <2> QED BY <2>1, <1>1, <1>6, <1>7
  <1>17. Numbered'
    BY <1>1, <1>2, <1>5, <1>6 DEF IInv, DriveInv, Numbered
  <1>18. PendingIsFresh'
    <2> SUFFICES ASSUME NEW d \in Calls, pc'[d] \in Driving, obj'[at'[d]].answer = "pending"
                 PROVE  /\ obj'[at'[d]].intr \notin settled'
                        /\ \A e \in Calls : pc'[e] \in Driving => asked'[e] # obj'[at'[d]].intr
                        /\ \A e \in Calls : e # at'[d] => obj'[e].intr # obj'[at'[d]].intr
      BY DEF PendingIsFresh
    <2>1. d # c /\ pc[d] \in Driving /\ at'[d] = at[d] /\ at[d] # o
      BY <1>4, <1>5, <1>6
    <2>2. at[d] \in Calls /\ obj'[at[d]] = obj[at[d]]
      BY <2>1, <1>5 DEF IInv, DriveInv, ObjectsAreMade
    <2>3. i # obj[at[d]].intr
      BY <2>1, <2>2, <1>2 DEF IInv, DriveInv, PendingIsFresh
    <2> QED BY <2>1, <2>2, <2>3, <1>1, <1>2, <1>4, <1>5, <1>6 DEF IInv, DriveInv, PendingIsFresh
  <1>19. AcceptedIsAnswered'
    BY <1>1, <1>2, <1>4, <1>5, <1>6 DEF IInv, DriveInv, AcceptedIsAnswered
  <1> QED BY <1>8, <1>9, <1>10, <1>11, <1>12, <1>13, <1>15, <1>16, <1>17, <1>18, <1>19 DEF IInv, DriveInv

LEMMA AcceptInterruptStep ==
  ASSUME IInv, NEW c \in Calls, AcceptInterrupt(c)
  PROVE  IInv'
  <1>1. PICK o \in Calls, i \in Interrupts :
          /\ Validating(c, o, i) /\ validateResume(o, i)
          /\ obj' = [obj EXCEPT ![o].status = "running", ![o].answer = "answered"]
          /\ at' = [at EXCEPT ![c] = o] /\ asked' = [asked EXCEPT ![c] = i]
          /\ accepted' = [accepted EXCEPT ![i] = @ \union {c}]
          /\ active' = TRUE
          /\ Goes(c, "starting") /\ handle' = c /\ timer' = timer \union {c}
          /\ UNCHANGED <<kernel, registered, aborted, record, last, settled>>
    BY DEF AcceptInterrupt, Accepts
  <1>2. /\ obj[o] \in Runs /\ obj[o] # NoRun
        /\ obj[o].status = "waiting" /\ obj[o].answer = "pending" /\ obj[o].intr = i
        /\ \A d \in Calls : Serving(d) => at[d] # o /\ d # c
        /\ \A d \in Calls : pc[d] \in Driving => d # c
        /\ \A j \in Interrupts : \A d \in accepted[j] : d \in Calls /\ d # c
        /\ kernel[c] = "none"
    BY <1>1, AnsweredObject
  <1>3. /\ pc[c] \in {"idle", "checking"} /\ pc[First] # "idle" /\ registered # NoOne
        /\ pc[o] \notin {"idle", "loading"}
    BY <1>1, ValidatingFacts
  <1>4. /\ pc' \in [Calls -> Phases] /\ pc'[c] = "starting"
        /\ \A d \in Calls : d # c => pc'[d] = pc[d]
    BY <1>1, GoesPhase DEF IInv, Phases
  <1>5. /\ obj' \in [Calls -> Runs \union {NoRun}]
        /\ obj'[o].status = "running" /\ obj'[o].answer = "answered" /\ obj'[o].intr = i
        /\ \A d \in Calls : d # o => obj'[d] = obj[d]
    BY <1>1, <1>2 DEF IInv, TypeOK, Runs, Status, Terminal
  <1>6. /\ at'[c] = o /\ \A d \in Calls : d # c => at'[d] = at[d]
        /\ asked'[c] = i /\ \A d \in Calls : d # c => asked'[d] = asked[d]
        /\ i \in 0 .. MaxInterrupts /\ i <= last
    BY <1>1, <1>2, BoundAssumption DEF IInv, TypeOK, Interrupts, DriveInv, Numbered
  <1>7. obj'[o] # NoRun /\ \A d \in Calls : obj'[d] # NoRun <=> obj[d] # NoRun
    BY <1>2, <1>5 DEF NoRun
  <1>8. \A j \in Interrupts : accepted'[j] = IF j = i THEN accepted[j] \union {c} ELSE accepted[j]
    BY <1>1 DEF IInv, TypeOK
  <1>9. TypeOK'
    BY <1>1, <1>4, <1>5, <1>6 DEF IInv, TypeOK
  <1>10. SavedAnswerIsFinal'
    BY <1>1 DEF IInv, SavedAnswerIsFinal
  <1>11. Released'
    BY <1>1, <1>2, <1>4, <1>5, <1>6 DEF IInv, Released
  <1>12. NothingBeforeRun'
    BY <1>3, <1>4, FirstAssumption DEF NothingBeforeRun
  <1>13. ObjectsAreMade'
    <2>1. \A d \in Calls : pc'[d] \in Driving \union {"checking"} => at'[d] \in Calls /\ registered' # NoOne
      BY <1>1, <1>3, <1>4, <1>6 DEF IInv, DriveInv, ObjectsAreMade
    <2>2. \A e \in Calls : pc'[e] \in {"idle", "loading"} => pc[e] \in {"idle", "loading"} /\ e # o
      BY <1>3, <1>4
    <2>3. \A d, e \in Calls : pc'[e] \in {"idle", "loading"} => at'[d] # e /\ registered' # e
      BY <2>2, <1>1, <1>6 DEF IInv, DriveInv, ObjectsAreMade
    <2>4. \A d \in Calls : pc'[d] = "loading" => obj'[d] # NoRun
      BY <1>4, <1>7 DEF IInv, DriveInv, ObjectsAreMade
    <2> QED BY <2>1, <2>3, <2>4 DEF ObjectsAreMade
  <1>14. OwnProcess'
    BY <1>1, <1>7, FirstAssumption DEF IInv, DriveInv, OwnProcess
  <1>15. Serving(c)' /\ \A d \in Calls : d # c => (Serving(d)' <=> Serving(d))
    BY <1>4 DEF Serving
  <1>16. OneServes'
    BY <1>2, <1>5, <1>6, <1>15 DEF IInv, TypeOK, DriveInv, OneServes, ObjectsAreMade, Serving, Driving
  <1>17. CancelReachesLoop'
    <2> SUFFICES ASSUME NEW d \in Calls, d # c, Serving(d)',
                        \A e \in Calls : obj'[e] # NoRun => e = at'[d]
                 PROVE  FALSE
      BY <1>1 DEF CancelReachesLoop
    <2>1. Serving(d) /\ at[d] # o
      BY <1>2, <1>15
    <2> QED BY <2>1, <1>1, <1>6, <1>7
  <1>18. Numbered'
    BY <1>1, <1>2, <1>5, <1>6, <1>8 DEF IInv, DriveInv, Numbered
  <1>19. PendingIsFresh'
    <2> SUFFICES ASSUME NEW d \in Calls, pc'[d] \in Driving, obj'[at'[d]].answer = "pending"
                 PROVE  /\ obj'[at'[d]].intr \notin settled'
                        /\ \A e \in Calls : pc'[e] \in Driving => asked'[e] # obj'[at'[d]].intr
                        /\ \A e \in Calls : e # at'[d] => obj'[e].intr # obj'[at'[d]].intr
      BY DEF PendingIsFresh
    <2>1. d # c /\ pc[d] \in Driving /\ at'[d] = at[d] /\ at[d] # o
      BY <1>4, <1>5, <1>6
    <2>2. at[d] \in Calls /\ obj'[at[d]] = obj[at[d]]
      BY <2>1, <1>5 DEF IInv, DriveInv, ObjectsAreMade
    <2>3. i # obj[at[d]].intr
      BY <2>1, <2>2, <1>2 DEF IInv, DriveInv, PendingIsFresh
    <2> QED BY <2>1, <2>2, <2>3, <1>1, <1>2, <1>4, <1>5, <1>6 DEF IInv, DriveInv, PendingIsFresh
  <1>20. AcceptedIsAnswered'
    <2> SUFFICES ASSUME NEW j \in Interrupts, NEW d \in accepted'[j]
                 PROVE  /\ pc'[d] \in Driving \union {"done"} /\ at'[d] \in Calls
                        /\ obj'[at'[d]].intr >= j
                        /\ obj'[at'[d]].intr = j => obj'[at'[d]].answer # "pending"
      BY DEF AcceptedIsAnswered
    <2>0. i \in Nat
      BY BoundAssumption DEF Interrupts
    <2>1. CASE d = c
      <3>1. j = i
        BY <2>1, <1>2, <1>8
      <3> QED BY <2>0, <2>1, <3>1, <1>1, <1>4, <1>5, <1>6 DEF Driving
    <2>2. CASE d # c
      <3>1. d \in accepted[j] /\ d \in Calls
        BY <2>2, <1>2, <1>8
      <3>2. /\ pc[d] \in Driving \union {"done"} /\ at[d] \in Calls
            /\ obj[at[d]].intr >= j
            /\ obj[at[d]].intr = j => obj[at[d]].answer # "pending"
        BY <3>1 DEF IInv, DriveInv, AcceptedIsAnswered
      <3> QED BY <2>2, <3>1, <3>2, <1>2, <1>4, <1>5, <1>6
    <2> QED BY <2>1, <2>2
  <1> QED BY <1>9, <1>10, <1>11, <1>12, <1>13, <1>14, <1>16, <1>17, <1>18, <1>19, <1>20 DEF IInv, DriveInv

\* The loop of c has ended and n is what its object holds from now on: the same
\* interrupt, or a new one.  No other call serves the object.
LEMMA LoopEnded ==
  ASSUME IInv, NEW c \in Calls, pc[c] = "running", Goes(c, "stopping"),
         NEW n \in Runs, obj' = [obj EXCEPT ![at[c]] = n],
         last' \in 0 .. MaxInterrupts,
         \/ last' = last /\ n.intr = obj[at[c]].intr /\ n.answer = obj[at[c]].answer
         \/ last' = last + 1 /\ n.intr = last + 1,
         kernel' \in [Calls -> {"none", "open", "closed"}],
         \A d \in Calls : d # c => kernel'[d] = kernel[d],
         kernel'[c] = "closed" \/ n.status = "cancelled",
         aborted' \in SUBSET Calls, aborted \subseteq aborted',
         UNCHANGED <<at, registered, handle, timer, active, record, asked, accepted, settled>>
  PROVE  IInv'
  <1> DEFINE o == at[c]
  <1>1. /\ pc' \in [Calls -> Phases] /\ pc'[c] = "stopping"
        /\ \A d \in Calls : d # c => pc'[d] = pc[d]
    BY GoesPhase DEF IInv, Phases
  <1>2. Serving(c) /\ pc[c] \in Driving
    BY DEF Serving, Driving
  <1>3. o \in Calls /\ registered # NoOne
    BY <1>2 DEF IInv, DriveInv, ObjectsAreMade
  <1>4. obj[o].status = "running" /\ obj[o] # NoRun /\ n # NoRun
    BY <1>2 DEF IInv, DriveInv, OneServes, NoRun, Runs, Status, Terminal
  <1>5. /\ obj'[o] = n /\ \A d \in Calls : d # o => obj'[d] = obj[d]
        /\ \A d \in Calls : obj'[d] # NoRun <=> obj[d] # NoRun
    BY <1>3, <1>4 DEF IInv, TypeOK
  <1>6. \A d \in Calls : Serving(d)' => Serving(d) /\ d # c /\ at[d] # o
    BY <1>1, <1>2 DEF IInv, DriveInv, OneServes, Serving
  <1>7. last \in Nat /\ last' \in Nat /\ last <= last' /\ n.intr <= last'
    BY <1>3 DEF IInv, TypeOK, DriveInv, Numbered
  <1>8. TypeOK'
    BY <1>1, <1>3 DEF IInv, TypeOK
  <1>9. SavedAnswerIsFinal'
    BY DEF IInv, SavedAnswerIsFinal
  <1>10. Released'
    <2>1. \A d \in Calls : d # c /\ kernel[d] = "open" /\ pc[d] \in {"stopping", "finishing", "saving", "done"}
             => at[d] \in Calls /\ at[d] # o
      BY <1>4 DEF IInv, Released
    <2> QED BY <2>1, <1>1, <1>3, <1>5 DEF IInv, Released
  <1>11. NothingBeforeRun'
    BY <1>1, DrivenAfterRun, FirstAssumption DEF IInv, NothingBeforeRun
  <1>12. ObjectsAreMade'
    <2>1. \A d \in Calls : pc'[d] \in Driving \union {"checking"} => at'[d] \in Calls /\ registered' # NoOne
      BY <1>1, <1>2 DEF IInv, DriveInv, ObjectsAreMade
    <2>2. \A d, e \in Calls : pc'[e] \in {"idle", "loading"} => at'[d] # e /\ registered' # e
      BY <1>1 DEF IInv, DriveInv, ObjectsAreMade
    <2>3. \A d \in Calls : pc'[d] = "loading" => obj'[d] # NoRun
      BY <1>1, <1>5 DEF IInv, DriveInv, ObjectsAreMade
    <2> QED BY <2>1, <2>2, <2>3 DEF ObjectsAreMade
  <1>13. OwnProcess'
    BY <1>3, <1>5, FirstAssumption DEF IInv, DriveInv, OwnProcess
  <1>14. OneServes'
    <2>1. \A d \in Calls : Serving(d) => at[d] \in Calls
      BY DEF IInv, DriveInv, ObjectsAreMade, Serving, Driving
    <2> QED BY <2>1, <1>5, <1>6 DEF IInv, DriveInv, OneServes
  <1>15. CancelReachesLoop'
    BY <1>5, <1>6 DEF IInv, DriveInv, CancelReachesLoop
  <1>16. Numbered'
    <2>1. \A d \in Calls : obj'[d].intr <= last'
      <3>1. \A d \in Calls : obj[d].intr \in Nat
        BY BoundAssumption DEF IInv, TypeOK, Runs, NoRun
      <3> QED BY <3>1, <1>5, <1>7 DEF IInv, DriveInv, Numbered
    <2>2. \A d \in Calls : asked[d] \in Nat
      BY BoundAssumption DEF IInv, TypeOK
    <2>3. record.intr \in Nat
      BY BoundAssumption DEF IInv, TypeOK, Runs, NoRun
    <2>4. \A j \in Interrupts : j \in Nat
      BY BoundAssumption DEF Interrupts
    <2>5. \A j \in settled : j \in Interrupts
      BY DEF IInv, TypeOK
    <2> QED BY <2>1, <2>2, <2>3, <2>4, <2>5, <1>7 DEF IInv, DriveInv, Numbered
  <1>17. PendingIsFresh'
    <2> SUFFICES ASSUME NEW d \in Calls, pc'[d] \in Driving, obj'[at[d]].answer = "pending"
                 PROVE  /\ obj'[at[d]].intr \notin settled
                        /\ \A e \in Calls : pc'[e] \in Driving => asked[e] # obj'[at[d]].intr
                        /\ \A e \in Calls : e # at[d] => obj'[e].intr # obj'[at[d]].intr
      BY DEF PendingIsFresh
    <2>1. \A e \in Calls : pc'[e] \in Driving => pc[e] \in Driving
      BY <1>1, <1>2
    <2>2. at[d] \in Calls /\ pc[d] \in Driving
      BY <2>1 DEF IInv, DriveInv, ObjectsAreMade
    <2>3. \A e \in Calls : obj[e].intr \in Nat /\ obj[e].intr <= last /\ asked[e] \in Nat /\ asked[e] <= last
      BY BoundAssumption DEF IInv, TypeOK, Runs, NoRun, DriveInv, Numbered
    <2>4. \A j \in settled : j \in Nat /\ j <= last
      BY BoundAssumption DEF IInv, TypeOK, Interrupts, DriveInv, Numbered
    <2>5. CASE at[d] = o /\ last' = last + 1
      <3>1. obj'[at[d]].intr = last + 1
        BY <2>5, <1>5, <1>7
      <3> QED BY <2>3, <2>4, <2>5, <3>1, <1>5, <1>7
    <2>6. CASE at[d] = o /\ last' = last
      <3>1. obj'[o].intr = obj[o].intr /\ obj[o].answer = "pending"
        BY <2>6, <1>5, <1>7
      <3> QED BY <2>1, <2>2, <2>6, <3>1, <1>5 DEF IInv, DriveInv, PendingIsFresh
    <2>7. CASE at[d] # o
      <3>1. obj'[at[d]] = obj[at[d]]
        BY <2>2, <2>7, <1>5
      <3>2. n.intr # obj[at[d]].intr
        <4>1. obj[o].intr # obj[at[d]].intr
          BY <2>2, <2>7, <3>1, <1>3 DEF IInv, DriveInv, PendingIsFresh
        <4>2. obj[at[d]].intr \in Nat /\ obj[at[d]].intr <= last
          BY <2>2, <2>3
        <4> QED BY <4>1, <4>2, <1>7
      <3> QED BY <2>1, <2>2, <2>7, <3>1, <3>2, <1>5 DEF IInv, DriveInv, PendingIsFresh
    <2> QED BY <2>5, <2>6, <2>7
  <1>18. AcceptedIsAnswered'
    <2> SUFFICES ASSUME NEW j \in Interrupts, NEW d \in accepted[j]
                 PROVE  /\ pc'[d] \in Driving \union {"done"} /\ at[d] \in Calls
                        /\ obj'[at[d]].intr >= j
                        /\ obj'[at[d]].intr = j => obj'[at[d]].answer # "pending"
      BY DEF AcceptedIsAnswered
    <2>1. d \in Calls /\ j \in Nat /\ j <= last
      BY BoundAssumption DEF IInv, TypeOK, Interrupts, DriveInv, Numbered
    <2>2. /\ pc[d] \in Driving \union {"done"} /\ at[d] \in Calls
          /\ obj[at[d]].intr >= j
          /\ obj[at[d]].intr = j => obj[at[d]].answer # "pending"
      BY DEF IInv, DriveInv, AcceptedIsAnswered
    <2>3. pc'[d] \in Driving \union {"done"}
      BY <2>1, <2>2, <1>1 DEF Driving
    <2> QED BY <2>1, <2>2, <2>3, <1>5, <1>7
  <1> QED BY <1>8, <1>9, <1>10, <1>11, <1>12, <1>13, <1>14, <1>15, <1>16, <1>17, <1>18 DEF IInv, DriveInv

\* What a serving call's object holds before its loop ends.
LEMMA ServedObject ==
  ASSUME IInv, NEW c \in Calls, pc[c] = "running"
  PROVE  /\ at[c] \in Calls /\ obj[at[c]] \in Runs
         /\ last \in 0 .. MaxInterrupts
         /\ \A s \in Status : [obj[at[c]] EXCEPT !.status = s] \in Runs
  <1>1. Serving(c) /\ at[c] \in Calls /\ obj[at[c]].status = "running"
    BY DEF IInv, DriveInv, ObjectsAreMade, OneServes, Serving, Driving
  <1>2. obj[at[c]] \in Runs
    BY <1>1 DEF IInv, TypeOK, NoRun
  <1> QED BY <1>1, <1>2 DEF IInv, TypeOK, Runs

LEMMA DecidedStep ==
  ASSUME IInv, NEW c \in Calls, pc[c] = "running", NEW s \in Status \ {"running"},
         s = "waiting" => last < MaxInterrupts,
         Decided(c, s), kernel' = [kernel EXCEPT ![c] = "closed"]
  PROVE  IInv'
  <1>1. /\ at[c] \in Calls /\ obj[at[c]] \in Runs /\ last \in 0 .. MaxInterrupts
        /\ \A st \in Status : [obj[at[c]] EXCEPT !.status = st] \in Runs
    BY ServedObject
  <1>2. /\ kernel' \in [Calls -> {"none", "open", "closed"}] /\ kernel'[c] = "closed"
        /\ \A d \in Calls : d # c => kernel'[d] = kernel[d]
        /\ aborted' \in SUBSET Calls /\ aborted \subseteq aborted'
        /\ UNCHANGED <<at, registered, handle, timer, active, record, asked, accepted, settled>>
        /\ Goes(c, "stopping")
    BY DEF IInv, TypeOK, Decided
  <1>3. CASE s = "waiting"
    <2> DEFINE n == [status |-> s, intr |-> last + 1, answer |-> "pending"]
    <2>1. last + 1 \in 0 .. MaxInterrupts
      BY <1>1, <1>3, BoundAssumption
    <2>2. n \in Runs /\ n.intr = last + 1
      BY <2>1 DEF Runs
    <2>3. obj' = [obj EXCEPT ![at[c]] = n] /\ last' = last + 1
      BY <1>3 DEF Decided
    <2> HIDE DEF n
    <2> QED BY <2>1, <2>2, <2>3, <1>2, LoopEnded
  <1>4. CASE s # "waiting"
    <2> DEFINE n == [obj[at[c]] EXCEPT !.status = s]
    <2>1. n \in Runs
      BY <1>1
    <2>2. n.intr = obj[at[c]].intr /\ n.answer = obj[at[c]].answer
      BY <1>1 DEF Runs
    <2>3. obj' = [obj EXCEPT ![at[c]] = n] /\ last' = last
      BY <1>4 DEF Decided
    <2> HIDE DEF n
    <2> QED BY <2>1, <2>2, <2>3, <1>1, <1>2, LoopEnded
  <1> QED BY <1>3, <1>4

LEMMA LoopReturnsStep ==
  ASSUME IInv, NEW c \in Calls, LoopReturns(c)
  PROVE  IInv'
  BY DecidedStep DEF LoopReturns, mapDecisionToOutcome

LEMMA LoopThrowsStep ==
  ASSUME IInv, NEW c \in Calls, LoopThrows(c)
  PROVE  IInv'
  BY DecidedStep DEF LoopThrows, Status, Terminal

LEMMA BudgetExhaustedStep ==
  ASSUME IInv, NEW c \in Calls, BudgetExhausted(c)
  PROVE  IInv'
  <1> DEFINE n == [obj[at[c]] EXCEPT !.status = "cancelled"]
  <1>1. /\ at[c] \in Calls /\ obj[at[c]] \in Runs /\ last \in 0 .. MaxInterrupts
        /\ n \in Runs
    BY ServedObject DEF BudgetExhausted, Status, Terminal
  <1>2. n.intr = obj[at[c]].intr /\ n.answer = obj[at[c]].answer /\ n.status = "cancelled"
    BY <1>1 DEF Runs
  <1>3. obj' = [obj EXCEPT ![at[c]] = n] /\ pc[c] = "running" /\ Goes(c, "stopping")
    BY DEF BudgetExhausted
  <1>4. /\ kernel' = kernel /\ kernel' \in [Calls -> {"none", "open", "closed"}]
        /\ aborted' \in SUBSET Calls /\ aborted \subseteq aborted' /\ last' = last
        /\ UNCHANGED <<at, registered, handle, timer, active, record, asked, accepted, settled>>
    BY DEF IInv, TypeOK, BudgetExhausted, history
  <1> HIDE DEF n
  <1> QED BY <1>1, <1>2, <1>3, <1>4, LoopEnded

\* The process dies: nothing of it is left, and the record is as saved or gone.
LEMMA CrashStep ==
  ASSUME IInv, Crash
  PROVE  IInv'
  <1>1. /\ obj' = [c \in Calls |-> NoRun] /\ at' = [c \in Calls |-> NoOne]
        /\ kernel' = [c \in Calls |-> "none"] /\ registered' = NoOne /\ handle' = NoOne
        /\ aborted' = {} /\ timer' = {} /\ active' = FALSE
        /\ pc' = [c \in Calls |-> IF pc[c] \in {"idle", "done"} THEN pc[c] ELSE "dead"]
        /\ accepted' = [i \in Interrupts |-> {}]
        /\ record' \in {record, NoRun}
        /\ UNCHANGED <<last, asked, settled>>
    BY DEF Crash
  <1>2. pc' \in [Calls -> Phases] /\ \A c \in Calls : pc'[c] \in {"idle", "done", "dead"}
    BY <1>1 DEF IInv, TypeOK, Phases
  <1>3. TypeOK'
    BY <1>1, <1>2 DEF IInv, TypeOK
  <1>4. NoRun.answer # "pending" /\ NoRun.intr = 0
    BY DEF NoRun
  <1>5. SavedAnswerIsFinal'
    BY <1>1, <1>4 DEF IInv, SavedAnswerIsFinal
  <1>6. Released'
    BY <1>1 DEF Released
  <1>7. NothingBeforeRun'
    <2>1. pc'[First] = "idle" => pc[First] = "idle"
      BY <1>1, FirstAssumption
    <2> QED BY <2>1, <1>1 DEF IInv, DriveInv, NothingBeforeRun
  <1>8. ObjectsAreMade' /\ OwnProcess' /\ OneServes' /\ PendingIsFresh' /\ CancelReachesLoop'
    BY <1>1, <1>2, FirstAssumption
       DEF ObjectsAreMade, OwnProcess, OneServes, PendingIsFresh, CancelReachesLoop, Serving, Driving
  <1>9. Numbered'
    BY <1>1, <1>4 DEF IInv, TypeOK, DriveInv, Numbered
  <1>10. AcceptedIsAnswered'
    BY <1>1 DEF AcceptedIsAnswered
  <1> QED BY <1>3, <1>5, <1>6, <1>7, <1>8, <1>9, <1>10 DEF IInv, DriveInv

(***************************************************************************)
(* The invariant, and what follows from it.                                *)
(***************************************************************************)
LEMMA InitInv == Init => IInv
  <1> SUFFICES ASSUME Init PROVE IInv
    OBVIOUS
  <1>1. TypeOK
    <2>1. /\ obj \in [Calls -> Runs \union {NoRun}] /\ at \in [Calls -> Calls \union {NoOne}]
          /\ pc \in [Calls -> Phases] /\ kernel \in [Calls -> {"none", "open", "closed"}]
      BY DEF Init, Phases
    <2>2. /\ last \in 0 .. MaxInterrupts /\ asked \in [Calls -> 0 .. MaxInterrupts]
          /\ accepted \in [Interrupts -> SUBSET Calls] /\ record \in Runs \union {NoRun}
      BY BoundAssumption DEF Init
    <2> QED BY <2>1, <2>2 DEF Init, TypeOK
  <1>2. NothingBeforeRun /\ ObjectsAreMade /\ OwnProcess
    BY FirstAssumption DEF Init, NothingBeforeRun, ObjectsAreMade, OwnProcess, Driving
  <1>3. OneServes /\ PendingIsFresh /\ CancelReachesLoop
    BY DEF Init, OneServes, PendingIsFresh, CancelReachesLoop, Serving, Driving
  <1>4. Numbered /\ AcceptedIsAnswered
    BY DEF Init, Numbered, AcceptedIsAnswered, NoRun
  <1>5. Released /\ SavedAnswerIsFinal
    BY DEF Init, Released, SavedAnswerIsFinal
  <1> QED BY <1>1, <1>2, <1>3, <1>4, <1>5 DEF IInv, DriveInv

LEMMA StepInv ==
  ASSUME IInv, NEW c \in Calls, Step(c)
  PROVE  IInv'
  <1>1. CASE LoadRun(c) \/ RegisterRestored(c) \/ OpenLoop(c) \/ CloseAtStart(c)
    BY <1>1, LoadRunStep, RegisterRestoredStep, OpenLoopStep, CloseAtStartStep
  <1>2. CASE LoopReturns(c) \/ LoopThrows(c) \/ BudgetExhausted(c) \/ ModelCallBudget(c)
    BY <1>2, LoopReturnsStep, LoopThrowsStep, BudgetExhaustedStep, AbortSteps
  <1>3. CASE CloseEarly(c) \/ EventsYielded(c) \/ cleanupRun(c) \/ SaveRun(c) \/ SaveFails(c)
    BY <1>3, CloseEarlyStep, EventsYieldedStep, CleanupRunStep, SaveRunStep, SaveFailsStep
  <1> QED BY <1>1, <1>2, <1>3 DEF Step

LEMMA NextInv == IInv /\ [Next]_vars => IInv'
  <1> SUFFICES ASSUME IInv, [Next]_vars PROVE IInv'
    OBVIOUS
  <1>1. ASSUME NEW c \in Calls, Run(c) \/ RunNotFound(c) \/ ResumeRefused(c) PROVE IInv'
    BY <1>1, RunStart, RunNotFoundStep, ResumeRefusedStep
  <1>2. ASSUME NEW c \in Calls, RejectInterrupt(c) \/ AcceptInterrupt(c) PROVE IInv'
    BY <1>2, RejectInterruptStep, AcceptInterruptStep
  <1>3. ASSUME NEW c \in Calls, WallTimeout(c) \/ Step(c) PROVE IInv'
    BY <1>3, AbortSteps, StepInv
  <1>4. CASE Cancel \/ Crash
    BY <1>4, AbortSteps, CrashStep, FirstAssumption
  <1>5. CASE UNCHANGED vars
    <2>1. DriveInv'
      BY <1>5, NobodyMoves DEF IInv, vars, Untouched
    <2>2. TypeOK' /\ SavedAnswerIsFinal' /\ Released'
      BY <1>5 DEF IInv, vars, TypeOK, SavedAnswerIsFinal, Released
    <2> QED BY <2>1, <2>2 DEF IInv
  <1> QED BY <1>1, <1>2, <1>3, <1>4, <1>5 DEF Next

\* Every reachable state satisfies the inductive invariant; no fairness is used.
LEMMA Invariant == Spec => []IInv
  BY InitInv, NextInv, PTL DEF Spec

\* The run's objects, calls, controllers and record always have their types.
THEOREM TypeCorrect == Spec => []TypeOK
  BY Invariant, PTL DEF IInv

\* The call that accepts an answer is the first to do so on its object.
LEMMA AcceptOnce ==
  ASSUME IInv, AnswerRunsOnce, NEW c \in Calls, AcceptInterrupt(c)
  PROVE  AnswerRunsOnce'
  <1>1. PICK o \in Calls, i \in Interrupts :
          /\ Validating(c, o, i) /\ validateResume(o, i)
          /\ at' = [at EXCEPT ![c] = o] /\ accepted' = [accepted EXCEPT ![i] = @ \union {c}]
    BY DEF AcceptInterrupt, Accepts
  <1>2. /\ obj[o] # NoRun /\ obj[o].answer = "pending" /\ obj[o].intr = i
        /\ \A j \in Interrupts : \A d \in accepted[j] : d \in Calls /\ d # c
    BY <1>1, AnsweredObject
  <1>3. /\ at'[c] = o /\ \A d \in Calls : d # c => at'[d] = at[d]
        /\ accepted'[i] = accepted[i] \union {c}
        /\ \A j \in Interrupts : j # i => accepted'[j] = accepted[j]
    BY <1>1 DEF IInv, TypeOK
  <1>4. ASSUME NEW d \in accepted[i]
        PROVE  at[d] # o /\ First \notin {at[d], o}
    <2>1. /\ at[d] \in Calls /\ obj[at[d]].intr >= i
          /\ obj[at[d]].intr = i => obj[at[d]].answer # "pending"
      BY <1>4 DEF IInv, DriveInv, AcceptedIsAnswered
    <2>2. at[d] # o
      BY <2>1, <1>2
    <2>3. obj[at[d]] # NoRun
      BY <2>1, BoundAssumption DEF NoRun, Interrupts
    <2> QED BY <2>1, <2>2, <2>3, <1>1, <1>2 DEF IInv, DriveInv, OwnProcess
  <1> SUFFICES ASSUME NEW j \in Interrupts, NEW d \in accepted'[j], NEW e \in accepted'[j], d # e
               PROVE  at'[d] # at'[e] /\ First \notin {at'[d], at'[e]}
    BY DEF AnswerRunsOnce
  <1>5. CASE d = c
    <2>1. j = i /\ e \in accepted[i] /\ e \in Calls
      BY <1>1, <1>2, <1>3, <1>5
    <2> QED BY <2>1, <1>3, <1>4, <1>5
  <1>6. CASE e = c
    <2>1. j = i /\ d \in accepted[i] /\ d \in Calls
      BY <1>1, <1>2, <1>3, <1>6
    <2> QED BY <2>1, <1>3, <1>4, <1>6
  <1>7. CASE d # c /\ e # c
    <2>1. d \in accepted[j] /\ e \in accepted[j] /\ d \in Calls /\ e \in Calls
      BY <1>1, <1>2, <1>3, <1>7
    <2> QED BY <2>1, <1>3, <1>7 DEF AnswerRunsOnce
  <1> QED BY <1>5, <1>6, <1>7

LEMMA OnceInv == IInv /\ AnswerRunsOnce /\ [Next]_vars => AnswerRunsOnce'
  <1> SUFFICES ASSUME IInv, AnswerRunsOnce, [Next]_vars PROVE AnswerRunsOnce'
    OBVIOUS
  <1>1. ASSUME NEW c \in Calls, AcceptInterrupt(c) PROVE AnswerRunsOnce'
    BY <1>1, AcceptOnce
  <1>2. CASE Crash
    BY <1>2 DEF Crash, AnswerRunsOnce
  <1>3. \A i \in Interrupts : \A d \in accepted[i] : d \in Calls /\ pc[d] \in Driving \union {"done"}
    BY DEF IInv, TypeOK, DriveInv, AcceptedIsAnswered
  <1>4. ASSUME accepted' = accepted,
               \A d \in Calls : pc[d] \in Driving \union {"done"} => at'[d] = at[d]
        PROVE  AnswerRunsOnce'
    BY <1>3, <1>4 DEF AnswerRunsOnce
  <1>5. ASSUME NEW c \in Calls, Run(c) \/ LoadRun(c) \/ RegisterRestored(c) PROVE AnswerRunsOnce'
    BY <1>4, <1>5 DEF Run, LoadRun, RegisterRestored, history, Driving, IInv, TypeOK
  <1>6. ASSUME NEW c \in Calls, RejectInterrupt(c) PROVE AnswerRunsOnce'
    <2>1. PICK o \in Calls, i \in Interrupts :
            Validating(c, o, i) /\ at' = [at EXCEPT ![c] = o] /\ accepted' = accepted
      BY <1>6 DEF RejectInterrupt
    <2>2. pc[c] \in {"idle", "checking"}
      BY <2>1, ValidatingFacts
    <2> QED BY <2>1, <2>2, <1>4 DEF Driving, IInv, TypeOK
  <1>7. ASSUME NEW c \in Calls,
               \/ RunNotFound(c) \/ ResumeRefused(c) \/ WallTimeout(c) \/ OpenLoop(c) \/ CloseAtStart(c)
               \/ CloseEarly(c) \/ EventsYielded(c) \/ cleanupRun(c) \/ SaveRun(c) \/ SaveFails(c)
        PROVE  AnswerRunsOnce'
    BY <1>4, <1>7 DEF RunNotFound, ResumeRefused, WallTimeout, OpenLoop, CloseAtStart, CloseEarly,
         EventsYielded, cleanupRun, SaveRun, SaveFails, memory, history
  <1>8. ASSUME NEW c \in Calls, LoopReturns(c) \/ LoopThrows(c) \/ BudgetExhausted(c) \/ ModelCallBudget(c)
        PROVE  AnswerRunsOnce'
    BY <1>4, <1>8 DEF LoopReturns, LoopThrows, BudgetExhausted, ModelCallBudget, Decided, history
  <1>9. CASE Cancel \/ UNCHANGED vars
    BY <1>4, <1>9 DEF Cancel, vars, history
  <1> QED BY <1>1, <1>2, <1>5, <1>6, <1>7, <1>8, <1>9 DEF Next, Step

\* However many resume() calls overlap, an answer sets off one continuation per
\* AgentRun object, and one in all in the process of run().
THEOREM AnswerOnce == Spec => []AnswerRunsOnce
  <1>1. Init => AnswerRunsOnce
    BY DEF Init, AnswerRunsOnce
  <1> QED BY <1>1, OnceInv, Invariant, PTL DEF Spec

\* cancel() reaches the loop of the call that drives the process's only copy.
THEOREM CancelReaches == Spec => []CancelReachesLoop
  BY Invariant, PTL DEF IInv, DriveInv

\* No save, of an overlapping call or of a stale copy, makes a settled interrupt
\* pending on disk again.
THEOREM SavedAnswers == Spec => []SavedAnswerIsFinal
  BY Invariant, PTL DEF IInv

\* After its clean-up a call holds no watchdog and no live controller, and its
\* kernel loop is closed unless a budget cut it off.
THEOREM NothingOutlives == Spec => []FinishedCallIsReleased
  <1>1. IInv => FinishedCallIsReleased
    BY DEF IInv, Released, FinishedCallIsReleased
  <1> QED BY <1>1, Invariant, PTL

=============================================================================
