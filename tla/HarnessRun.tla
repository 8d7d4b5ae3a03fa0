----------------------------- MODULE HarnessRun -----------------------------
(***************************************************************************)
(* One run of the agent harness (src/harness), from run() through any      *)
(* number of interrupts and resume() calls, in one process after another:  *)
(* the facade (runtime/agent-harness.ts), the controller that drives the   *)
(* lifecycle (runtime/run-controller.ts, lifecycle-machine.ts), the        *)
(* registry, the cancellation handles and watchdogs (run-registry.ts,      *)
(* cancellation.ts, cleanup.ts), the interrupt validation                  *)
(* (interrupts/interrupt-manager.ts) and the run records on disk           *)
(* (persistence/).                                                         *)
(*                                                                         *)
(* run() and resume() are async generators: a call advances when its       *)
(* consumer pulls, is suspended at every await and every yield, and may be *)
(* closed by its consumer at a yield.  Each call is a process here.  An    *)
(* AgentRun object is named by the call that made it: run() makes one, and *)
(* so does a resume() that restores the run from its record.  An abort     *)
(* controller is named by the call whose loop listens to it.  The kernel   *)
(* loop is external: it works, stops when it sees an abort, returns a      *)
(* decision or throws.                                                     *)
(***************************************************************************)
EXTENDS Naturals, FiniteSets

CONSTANTS Calls,          \* the run() call and the resume() calls
          First,          \* the run() call
          NoOne,          \* no call, object or controller
          MaxInterrupts   \* bound on the interrupts the run creates

ASSUME FirstAssumption == First \in Calls /\ NoOne \notin Calls
ASSUME BoundAssumption == MaxInterrupts \in Nat

VARIABLES
  obj,         \* the AgentRun objects: status, interrupt and its answer
  at,          \* the object a call drives
  pc,          \* where a call is
  kernel,      \* the kernel loop's generator of a call
  registered,  \* the object the registry holds for the run
  handle,      \* the controller the registry holds: what cancel() reaches
  aborted,     \* the controllers that are aborted
  timer,       \* the calls whose wall-time watchdog is armed
  active,      \* the run is in its session's activeRunIds
  record,      \* runs/<runId>.json
  last,        \* the number of interrupts created
  asked,       \* the interrupt a resume() call responds to
  accepted,    \* history: the calls of this process that went on with an answer
  settled      \* history: the interrupts whose answer a call has saved

memory == <<obj, at, kernel, registered, handle, aborted, timer, active>>
history == <<last, asked, accepted, settled>>
vars == <<obj, at, pc, kernel, registered, handle, aborted, timer, active, record,
          last, asked, accepted, settled>>

Terminal == {"completed", "failed", "cancelled"}

Status == Terminal \union {"running", "waiting", "paused", "blocked"}

Interrupts == 1 .. MaxInterrupts

\* An AgentRun at rest between two awaits: created, initializing, resuming and
\* pausing are left again in the step that enters them.
Runs == [status : Status, intr : 0 .. MaxInterrupts,
         answer : {"none", "pending", "answered", "rejected"}]

NoRun == [status |-> "none", intr |-> 0, answer |-> "none"]

Phases == {"idle", "loading", "checking", "starting", "running", "stopping",
           "finishing", "saving", "done", "dead"}

Init ==
  /\ obj = [c \in Calls |-> NoRun]
  /\ at = [c \in Calls |-> NoOne]
  /\ pc = [c \in Calls |-> "idle"]
  /\ kernel = [c \in Calls |-> "none"]
  /\ registered = NoOne
  /\ handle = NoOne
  /\ aborted = {}
  /\ timer = {}
  /\ active = FALSE
  /\ record = NoRun
  /\ last = 0
  /\ asked = [c \in Calls |-> 0]
  /\ accepted = [i \in Interrupts |-> {}]
  /\ settled = {}

Goes(c, phase) == pc' = [pc EXCEPT ![c] = phase]

Serving(c) == pc[c] \in {"starting", "running"}

----------------------------------------------------------------------------
\* run(): a fresh object, registered with its controller, made active, taken
\* through created -> initializing -> running with its watchdog armed, before
\* the first event is yielded.
Run(c) ==
  /\ c = First /\ pc[c] = "idle"
  /\ obj' = [obj EXCEPT ![c] = [status |-> "running", intr |-> 0, answer |-> "none"]]
  /\ at' = [at EXCEPT ![c] = c]
  /\ registered' = c /\ handle' = c
  /\ active' = TRUE
  /\ timer' = timer \union {c}
  /\ Goes(c, "starting")
  /\ UNCHANGED <<kernel, aborted, record, history>>

\* A run the registry does not hold is read from its record.  The read happens
\* at the call, what is made of it in a later turn.
LoadRun(c) ==
  /\ c # First /\ pc[c] = "idle"
  /\ registered = NoOne /\ record # NoRun
  /\ obj' = [obj EXCEPT ![c] = record]
  /\ asked' \in {[asked EXCEPT ![c] = i] : i \in 1 .. last}
  /\ Goes(c, "loading")
  /\ UNCHANGED <<at, kernel, registered, handle, aborted, timer, active, record,
                 last, accepted, settled>>

\* restoreAgentRun and registerRestored replace whatever the registry holds, the
\* controller by one nobody listens to; then the trace is inspected.
RegisterRestored(c) ==
  /\ pc[c] = "loading"
  /\ at' = [at EXCEPT ![c] = c]
  /\ registered' = c /\ handle' = NoOne
  /\ Goes(c, "checking")
  /\ UNCHANGED <<obj, kernel, aborted, timer, active, record, history>>

RunNotFound(c) ==
  /\ c # First /\ pc[c] = "idle"
  /\ registered = NoOne /\ record = NoRun /\ last > 0
  /\ Goes(c, "done")
  /\ UNCHANGED <<memory, record, history>>

\* The object and the response that resume() validates in this step: a
\* registered run at the call itself, a restored one when its checks are done.
Validating(c, o, i) ==
  \/ /\ c # First /\ pc[c] = "idle"
     /\ registered # NoOne /\ o = registered /\ i \in 1 .. last
  \/ /\ pc[c] = "checking" /\ o = at[c] /\ i = asked[c]

\* Fault: the status and the answer are not looked at.
validateIdOnly(o, i) == obj[o].intr = i

validateResume(o, i) ==
  /\ obj[o].status = "waiting"
  /\ obj[o].answer = "pending"
  /\ obj[o].intr = i

\* Fault: a refused call saves the run on its way out.
RefusedAndSaved(c) ==
  \E o \in Calls, i \in Interrupts :
    /\ Validating(c, o, i)
    /\ at' = [at EXCEPT ![c] = o]
    /\ Goes(c, "saving")
    /\ UNCHANGED <<obj, kernel, registered, handle, aborted, timer, active, record, history>>

\* The validation fails; a payload against the schema and, for a restored run, a
\* changed workspace fail it as well.  The error is thrown before any try.
ResumeRefused(c) ==
  \E o \in Calls, i \in Interrupts :
    /\ Validating(c, o, i)
    /\ Goes(c, "done")
    /\ UNCHANGED <<memory, record, history>>

\* A negative answer ends the run without its machine; the record is saved after
\* the artifacts are collected.
RejectInterrupt(c) ==
  \E o \in Calls, i \in Interrupts :
    /\ Validating(c, o, i) /\ validateResume(o, i)
    /\ obj' = [obj EXCEPT ![o].status = "cancelled", ![o].answer = "rejected"]
    /\ at' = [at EXCEPT ![c] = o]
    /\ asked' = [asked EXCEPT ![c] = i]
    /\ Goes(c, "saving")
    /\ UNCHANGED <<kernel, registered, handle, aborted, timer, active, record,
                   last, accepted, settled>>

\* A positive answer: the interrupt is answered, a fresh controller replaces the
\* registered one, and the controller takes the run through resuming to running.
Accepts(c, o, i) ==
  /\ Validating(c, o, i) /\ validateResume(o, i)
  /\ obj' = [obj EXCEPT ![o].status = "running", ![o].answer = "answered"]
  /\ at' = [at EXCEPT ![c] = o]
  /\ asked' = [asked EXCEPT ![c] = i]
  /\ accepted' = [accepted EXCEPT ![i] = @ \union {c}]
  /\ active' = TRUE
  /\ Goes(c, "starting")
  /\ UNCHANGED <<kernel, registered, aborted, record, last, settled>>

\* Fault: the registry keeps the controller of the previous call.
AcceptKeepsController(c) ==
  \E o \in Calls, i \in Interrupts :
    Accepts(c, o, i) /\ timer' = timer \union {c} /\ UNCHANGED handle

\* Fault: only run() arms the watchdog.
AcceptWithoutWatchdog(c) ==
  \E o \in Calls, i \in Interrupts : Accepts(c, o, i) /\ handle' = c /\ UNCHANGED timer

AcceptInterrupt(c) ==
  \E o \in Calls, i \in Interrupts :
    Accepts(c, o, i) /\ handle' = c /\ timer' = timer \union {c}

----------------------------------------------------------------------------
\* The opening lifecycle events are yielded before the try block is entered.
OpenLoop(c) ==
  /\ pc[c] = "starting"
  /\ kernel' = [kernel EXCEPT ![c] = "open"]
  /\ Goes(c, "running")
  /\ UNCHANGED <<obj, at, registered, handle, aborted, timer, active, record, history>>

\* A consumer that closes the generator there skips the clean-up: only the
\* outer finally, which saves the record, is run.
CloseAtStart(c) ==
  /\ pc[c] = "starting"
  /\ Goes(c, "saving")
  /\ UNCHANGED <<memory, record, history>>

WallTimeout(c) ==
  /\ c \in timer
  /\ timer' = timer \ {c}
  /\ aborted' = aborted \union {c}
  /\ UNCHANGED <<obj, at, pc, kernel, registered, handle, active, record, history>>

\* cancel() aborts the registered controller; it refuses an unknown run and
\* ignores one that is aborted already.
Cancel ==
  /\ registered # NoOne /\ handle # NoOne /\ handle \notin aborted
  /\ aborted' = aborted \union {handle}
  /\ UNCHANGED <<obj, at, pc, kernel, registered, handle, timer, active, record, history>>

\* A provider attempt that the model-call budget refuses aborts the run; the
\* kernel loop goes on until it sees the abort.
ModelCallBudget(c) ==
  /\ pc[c] = "running" /\ c \notin aborted
  /\ aborted' = aborted \union {c}
  /\ UNCHANGED <<obj, at, pc, kernel, registered, handle, timer, active, record, history>>

\* The try block is left: dispose() clears the watchdog on the way to the trace.
LeaveTry(c) == timer' = timer \ {c} /\ Goes(c, "finishing")

\* runControlledRun maps the decision and moves the run; a waiting decision
\* first attaches a new pending interrupt.
Decided(c, status) ==
  /\ obj' = [obj EXCEPT
       ![at[c]] = IF status = "waiting"
                    THEN [status |-> status, intr |-> last + 1, answer |-> "pending"]
                    ELSE [@ EXCEPT !.status = status]]
  /\ last' = IF status = "waiting" THEN last + 1 ELSE last
  /\ Goes(c, "stopping")
  /\ UNCHANGED <<at, registered, handle, aborted, timer, active, record,
                 asked, accepted, settled>>

\* Fault: a decision leaves the run in a transient status.
mapDecisionToPausing(c) == {"pausing"}

mapDecisionToOutcome(c) ==
  {s \in Status \ {"running"} :
     /\ s = "waiting" => last < MaxInterrupts
     /\ s = "cancelled" => c \in aborted}

\* The kernel loop returns its decision.  One that was made before an abort is
\* mapped like any other.
LoopReturns(c) ==
  /\ pc[c] = "running"
  /\ \E s \in mapDecisionToOutcome(c) : Decided(c, s)
  /\ kernel' = [kernel EXCEPT ![c] = "closed"]

LoopThrows(c) ==
  /\ pc[c] = "running"
  /\ Decided(c, "failed")
  /\ kernel' = [kernel EXCEPT ![c] = "closed"]

\* The guard sees the event that exhausts the tool-call, write, external-action
\* or token budget: it aborts and an aborted decision is returned at once.  The
\* kernel loop's generator is neither pulled nor closed any more.
BudgetExhausted(c) ==
  /\ pc[c] = "running"
  /\ aborted' = aborted \union {c}
  /\ obj' = [obj EXCEPT ![at[c]].status = "cancelled"]
  /\ Goes(c, "stopping")
  /\ UNCHANGED <<at, kernel, registered, handle, timer, active, record, history>>

\* The consumer closes the generator at an event of the loop: the kernel loop is
\* closed, no decision is mapped, the status stays running.
CloseEarly(c) ==
  /\ pc[c] = "running"
  /\ kernel' = [kernel EXCEPT ![c] = "closed"]
  /\ LeaveTry(c)
  /\ UNCHANGED <<obj, at, registered, handle, aborted, active, record, history>>

\* The closing lifecycle events are yielded, pulled or not.
EventsYielded(c) ==
  /\ pc[c] = "stopping"
  /\ LeaveTry(c)
  /\ UNCHANGED <<obj, at, kernel, registered, handle, aborted, active, record, history>>

\* Fault: the call's controller is not aborted.
CleanupKeepsHandle(c) ==
  /\ pc[c] = "finishing"
  /\ active' = FALSE
  /\ Goes(c, "saving")
  /\ UNCHANGED <<obj, at, kernel, registered, handle, aborted, timer, record, history>>

\* The trace is flushed and closed; then the run leaves its session's list,
\* whoever put it there, and the call's own controller is aborted.
cleanupRun(c) ==
  /\ pc[c] = "finishing"
  /\ active' = FALSE
  /\ aborted' = aborted \union {c}
  /\ Goes(c, "saving")
  /\ UNCHANGED <<obj, at, kernel, registered, handle, timer, record, history>>

\* When the artifacts are collected the object is serialized as it is then and
\* written in the same turn.
SaveRun(c) ==
  /\ pc[c] = "saving"
  /\ record' = obj[at[c]]
  /\ settled' = settled \union ({asked[c]} \ {0})
  /\ Goes(c, "done")
  /\ UNCHANGED <<memory, last, asked, accepted>>

\* A failed write is swallowed.
SaveFails(c) ==
  /\ pc[c] = "saving"
  /\ Goes(c, "done")
  /\ UNCHANGED <<memory, record, history>>

----------------------------------------------------------------------------
\* The process dies.  The record survives, unless it is being rewritten: it is
\* written in place, and one that cannot be parsed reads as absent.
Crash ==
  /\ registered # NoOne \/ \E c \in Calls : pc[c] \in Phases \ {"idle", "done", "dead"}
  /\ \/ UNCHANGED record
     \/ /\ \E c \in Calls : pc[c] = "saving"
        /\ record' = NoRun
  /\ obj' = [c \in Calls |-> NoRun]
  /\ at' = [c \in Calls |-> NoOne]
  /\ kernel' = [c \in Calls |-> "none"]
  /\ registered' = NoOne /\ handle' = NoOne
  /\ aborted' = {} /\ timer' = {}
  /\ active' = FALSE
  /\ pc' = [c \in Calls |-> IF pc[c] \in {"idle", "done"} THEN pc[c] ELSE "dead"]
  /\ accepted' = [i \in Interrupts |-> {}]
  /\ UNCHANGED <<last, asked, settled>>

\* Steps of a call that its consumer, the event loop and the disk bring about.
Step(c) ==
  \/ LoadRun(c) \/ RegisterRestored(c) \/ OpenLoop(c) \/ CloseAtStart(c)
  \/ LoopReturns(c) \/ LoopThrows(c) \/ BudgetExhausted(c) \/ ModelCallBudget(c)
  \/ CloseEarly(c) \/ EventsYielded(c) \/ cleanupRun(c) \/ SaveRun(c) \/ SaveFails(c)

Next ==
  \/ \E c \in Calls :
       \/ Run(c) \/ RunNotFound(c) \/ ResumeRefused(c) \/ RejectInterrupt(c)
       \/ AcceptInterrupt(c) \/ WallTimeout(c) \/ Step(c)
  \/ Cancel
  \/ Crash

\* A consumer keeps pulling or closes, awaits end, the watchdog of a run with a
\* wall-time limit fires, and the kernel loop returns once it is aborted.
Fairness ==
  \A c \in Calls :
    /\ WF_vars(OpenLoop(c) \/ CloseAtStart(c))
    /\ WF_vars(WallTimeout(c))
    /\ WF_vars(c \in aborted /\ (LoopReturns(c) \/ LoopThrows(c) \/ CloseEarly(c)))
    /\ WF_vars(EventsYielded(c))
    /\ WF_vars(cleanupRun(c))
    /\ WF_vars(SaveRun(c) \/ SaveFails(c))

Spec == Init /\ [][Next]_vars /\ Fairness

----------------------------------------------------------------------------
\* The type invariant of the run's state.
TypeOK ==
  /\ obj \in [Calls -> Runs \union {NoRun}]
  /\ at \in [Calls -> Calls \union {NoOne}]
  /\ pc \in [Calls -> Phases]
  /\ kernel \in [Calls -> {"none", "open", "closed"}]
  /\ registered \in Calls \union {NoOne}
  /\ handle \in Calls \union {NoOne}
  /\ aborted \subseteq Calls /\ timer \subseteq Calls
  /\ active \in BOOLEAN
  /\ record \in Runs \union {NoRun}
  /\ last \in 0 .. MaxInterrupts
  /\ asked \in [Calls -> 0 .. MaxInterrupts]
  /\ accepted \in [Interrupts -> SUBSET Calls]
  /\ settled \subseteq Interrupts

\* "Repeated resumes are refused once answered" (interrupt-manager.ts): in one
\* process an answer sets off one continuation per AgentRun object, whatever
\* calls overlap, and one in all in the process of run().  Two are possible only
\* on two copies, each restored by a call before any was registered
\* (agent-harness.ts, lines 155-164).
AnswerRunsOnce ==
  \A i \in Interrupts : \A c, d \in accepted[i] :
    c # d => at[c] # at[d] /\ First \notin {at[c], at[d]}

\* cancel() reaches the loop: while a call drives the process's only copy of the
\* run, the registered controller is the one its loop listens to
\* (replaceController in resume()), also when the previous call on the object is
\* still cleaning up.  Of two restored copies, cancel() reaches one at most.
CancelReachesLoop ==
  \A c \in Calls :
    Serving(c) /\ (\A d \in Calls : obj[d] # NoRun => d = at[c]) => handle = c

\* An interrupt whose answer was acted on and saved is never again pending on
\* disk, so no later process accepts it a second time: saves of overlapping calls
\* and of stale copies do not undo it (the saveRun calls of agent-harness.ts).
SavedAnswerIsFinal == record.answer = "pending" => record.intr \notin settled

\* "No resources outlive the run" (cleanup.ts): once a call that entered its loop
\* has left the clean-up, its controller is aborted and its watchdog is gone, and
\* its kernel loop is closed unless a budget cut it off.
FinishedCallIsReleased ==
  \A c \in Calls :
    pc[c] \in {"saving", "done"} /\ kernel[c] # "none" =>
      /\ c \in aborted
      /\ c \notin timer
      /\ kernel[c] = "open" => obj[at[c]].status = "cancelled"

\* Every call that started its run ends, or its process dies: the watchdog of a
\* run with a wall-time limit (cancellation.ts) covers run() and resume() alike.
StartedCallEnds ==
  \A c \in Calls : pc[c] = "starting" ~> pc[c] \in {"done", "dead"}

=============================================================================
