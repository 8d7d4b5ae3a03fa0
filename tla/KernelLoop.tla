----------------------------- MODULE KernelLoop -----------------------------
(***************************************************************************)
(* The agent kernel of src/agent: runAgentLoop (loop.ts), its rounds       *)
(* (kernel/round.ts), the supervisor that decides whether another round    *)
(* may start (kernel/loop-supervisor.ts, progress-governor.ts,             *)
(* progress-commitment.ts), the authority over physical provider requests  *)
(* (runtime/retry/coordinator.ts) and the message history that every       *)
(* request carries, with its epoch rollover (context-epoch.ts).            *)
(*                                                                         *)
(* One run is followed from its first step to its Stop hook.  What the     *)
(* model, the tools and the gates answer is chosen nondeterministically; a *)
(* message is known by its role and by whether it holds tool blocks.       *)
(***************************************************************************)
EXTENDS Naturals, Sequences, FiniteSets

CONSTANTS
  MaxRounds,       \* ctx.maxRounds
  MaxPhysical,     \* maxPhysicalProviderRequests of the coordinator
  TransportLimit,  \* RETRY_CLASS_LIMITS.transport
  StallRounds,     \* ProgressConfig.stallRounds
  LadderLimit,     \* truncationLadderLimit
  DebtCap,         \* ProgressConfig.commitmentDebt
  KeepRecent       \* assistant turns a rollover keeps

ASSUME BoundsAssumption ==
  /\ MaxRounds \in Nat \ {0} /\ MaxPhysical \in Nat \ {0} /\ TransportLimit \in Nat
  /\ StallRounds \in Nat \ {0} /\ LadderLimit \in Nat \ {0}
  /\ DebtCap \in Nat \ {0} /\ KeepRecent \in Nat \ {0}

VARIABLES
  pc,         \* where the generator stands
  round,      \* the logical round
  history,    \* rawMessages, by kind
  physical,   \* physicalProviderRequests
  transport,  \* transport retries recorded under the run's fingerprint
  repaired,   \* the tool class of the ledger holds "tool_protocol:run"
  judged,     \* the governor has a round to compare with
  streak,     \* its consecutive rounds without progress
  ladder,     \* truncationStreak of the supervisor
  owed,       \* an action commitment is active
  debt,       \* its unpaid rounds, counted up to DebtCap + 1
  aborted,    \* the abort signal
  decision,   \* the LoopDecision that ended the rounds
  stop,       \* lifecycle.stopReason
  held,       \* the run-bound resources that are still there
  ctx,        \* runAgentLoop has the context, and through it the sandbox
  threw,      \* a step of the clean-up has thrown
  hooks,      \* Stop hooks dispatched
  marred,     \* ghost: a prompt went between a tool call and its result, or a
              \* rollover of fewer than KeepRecent turns kept a result alone
  idle,       \* ghost: rounds gone on in a row without progress
  truncated   \* ghost: rounds gone on in a row, cut off before any action

conversation == <<history, marred>>
authority    == <<physical, transport, repaired>>
supervision  == <<judged, streak, ladder, owed, debt>>
resources    == <<held, ctx, threw>>
lifecycle    == <<decision, stop, resources, hooks>>
observed     == <<idle, truncated>>
vars == <<pc, round, aborted, conversation, authority, supervision, lifecycle,
          observed>>

\* A user message without tool results, an assistant message without and with
\* tool calls, and the user message with the results of those calls.
Kinds == {"ask", "say", "use", "result"}

Phases == {"start", "building", "preparing", "between", "opening", "request", "tools",
           "exit", "finally", "stopped"}

\* stopReasonForBreak, and the reasons of finalizeRun for a "return".
StopReason(reason) ==
  CASE reason \in {"orchestrator_done", "verified_write"}         -> "completed"
    [] reason \in {"round_budget", "plan_ready", "clarification"} -> "paused"
    [] reason = "progress_stalled"                                -> "stalled"
    [] reason = "provider_failure"                                -> "error"
    [] reason \in {"aborted", "tool_batch_aborted"}               -> "aborted"
    [] OTHER                                                      -> "blocked"

Reasons ==
  {"none", "aborted", "prompt_blocked", "clarification", "context_budget", "round_budget",
   "provider_failure", "empty_round", "plan_ready", "orchestrator_blocked",
   "orchestrator_done", "tool_batch_aborted", "self_edit", "verified_write",
   "progress_stalled"}

Init ==
  /\ pc = "start"
  /\ round = 0
  /\ history = <<>> /\ marred = FALSE
  /\ physical = 0 /\ transport = 0 /\ repaired = FALSE
  /\ judged = FALSE /\ streak = 0 /\ ladder = 0 /\ owed = FALSE /\ debt = 0
  /\ aborted = FALSE
  /\ decision = "none" /\ stop = "aborted" /\ hooks = 0
  /\ held = {} /\ ctx = FALSE /\ threw = FALSE
  /\ idle = 0 /\ truncated = 0

\* Abstraction: once the rounds are over nothing below reads the conversation or
\* the supervisor's counters again, so runs that differ in them are one.
RoundsOver ==
  /\ round' = 0
  /\ history' = <<>>
  /\ judged' = FALSE /\ streak' = 0 /\ ladder' = 0 /\ owed' = FALSE /\ debt' = 0
  /\ idle' = 0 /\ truncated' = 0

\* A phase ends the rounds; the terminal switch comes next.
Leave(reason) ==
  /\ pc' = "exit"
  /\ decision' = reason
  /\ RoundsOver
  /\ UNCHANGED <<aborted, stop, resources, hooks>>

----------------------------------------------------------------------------
(* The run before its rounds *)

\* The signal was aborted before the run had any state: the one exit that
\* dispatches the Stop hook by itself.
AbortAtStart ==
  /\ pc = "start" /\ aborted
  /\ pc' = "stopped"
  /\ hooks' = 1
  /\ UNCHANGED <<round, aborted, conversation, authority, supervision, decision,
                 stop, resources, observed>>

StartRun ==
  /\ pc = "start" /\ ~aborted
  /\ pc' = "building"
  /\ UNCHANGED <<round, aborted, conversation, authority, supervision, lifecycle,
                 observed>>

\* What the finally of runAgentLoop gives back, in its order: the ripple program,
\* the patch context with the transaction registry, the shell's pointer to the
\* sandbox, the sandbox itself.
CleanupOrder == <<"ripple", "patch", "shell", "sandbox">>

Resources == {CleanupOrder[i] : i \in DOMAIN CleanupOrder}

\* buildRunContext: the prompt is the first message, unless a hook blocks it; the
\* sandbox is made and given to the shell.
BuildContext ==
  /\ pc = "building"
  /\ \/ /\ pc' = "preparing"
        /\ history' = <<"ask">>
        /\ held' = {"shell", "sandbox"}
        /\ ctx' = TRUE
        /\ UNCHANGED <<round, aborted, marred, authority, supervision,
                       decision, stop, threw, hooks, observed>>
     \/ Leave("prompt_blocked") /\ UNCHANGED <<marred, authority>>

\* buildRunContext throws after it made the sandbox: the loop never gets the
\* context that would lead it to the sandbox.
BuildThrows ==
  /\ pc = "building"
  /\ held' = {"shell", "sandbox"}
  /\ stop' = "error"
  /\ pc' = "finally"
  /\ RoundsOver
  /\ UNCHANGED <<aborted, marred, authority, decision, ctx, threw, hooks>>

\* prepareRun: the clarification gate may stop the run for an answer.
PrepareRun ==
  /\ pc = "preparing"
  /\ \/ /\ pc' = "between"
        /\ UNCHANGED <<round, aborted, conversation, authority, supervision,
                       lifecycle, observed>>
     \/ Leave("clarification") /\ UNCHANGED <<marred, authority>>

\* Triage, clarification, judge, distillation and compaction ask the provider
\* too: each of their requests counts, and none is issued at the cap.
SideRequest ==
  /\ pc \in {"building", "preparing", "opening", "tools"} /\ ~aborted
  /\ physical < MaxPhysical
  /\ physical' = physical + 1
  /\ UNCHANGED <<pc, round, aborted, conversation, transport, repaired, supervision,
                 lifecycle, observed>>

----------------------------------------------------------------------------
(* Supervision: the single way into another round *)

\* tickRound and register: re-stating a commitment does not reset its debt.
Commitment(tools, promises, pays) ==
  CASE ~tools /\ promises -> [owed |-> TRUE,  debt |-> debt, status |-> "ok"]
    [] (tools \/ ~promises) /\ ~owed -> [owed |-> FALSE, debt |-> debt, status |-> "ok"]
    [] (tools \/ ~promises) /\ owed /\ tools /\ pays ->
         [owed |-> FALSE, debt |-> 0, status |-> "ok"]
    [] OTHER ->
         [owed |-> TRUE, debt |-> IF debt > DebtCap THEN debt ELSE debt + 1,
          status |-> IF debt >= DebtCap THEN "stalled"
                     ELSE IF debt + 1 >= DebtCap THEN "action_required" ELSE "ok"]

\* The precedence of LoopSupervisor.decide over what ProgressGovernor.evaluate
\* found: s and l are the new streak and ladder.
Verdict(commitment, effective, s, l) ==
  IF \/ commitment.status = "stalled" /\ ~effective
     \/ l >= LadderLimit
     \/ s >= StallRounds
  THEN "stalled"
  ELSE IF \/ commitment.status = "action_required"
          \/ l = 2
          \/ s \in {StallRounds - 1, StallRounds - 2}
       THEN "prompt"
       ELSE "proceed"

\* The next round starts, and the ghosts record what the last one was.
GoesOn(cut, effective) ==
  /\ pc' = "between"
  /\ round' = round + 1
  /\ idle' = IF effective THEN 0 ELSE idle + 1
  /\ truncated' = IF cut /\ ~effective THEN truncated + 1 ELSE 0
  /\ UNCHANGED <<aborted, lifecycle>>

\* superviseNextRound after a round that left the history `messages': afterRound,
\* then the prompt of action_first, replan_once or action_required, or the stall.
superviseNextRound(messages, tools, cut, effective, promises, pays) ==
  LET commitment == Commitment(tools, promises, pays)
      s == IF ~judged THEN streak ELSE IF effective THEN 0 ELSE streak + 1
      l == IF effective \/ ~cut THEN 0 ELSE ladder + 1
      verdict == Verdict(commitment, effective, s, l)
  IN \/ /\ verdict = "stalled"
        /\ pc' = "exit" /\ decision' = "progress_stalled" /\ stop' = "stalled"
        /\ RoundsOver
        /\ UNCHANGED <<aborted, resources, hooks>>
     \/ /\ verdict # "stalled"
        /\ judged' = TRUE
        /\ streak' = s
        /\ ladder' = l
        /\ owed' = commitment.owed
        /\ debt' = commitment.debt
        /\ history' = messages \o (IF verdict = "prompt" THEN <<"ask">> ELSE <<>>)
        /\ GoesOn(cut, effective)

\* Fault: the round goes on without accounting.
nextRoundUnsupervised(messages, tools, cut, effective, promises, pays) ==
  /\ history' = messages
  /\ GoesOn(cut, effective)
  /\ UNCHANGED supervision

----------------------------------------------------------------------------
(* A round opens *)

RoundBudget ==
  /\ pc = "between" /\ round >= MaxRounds
  /\ Leave("round_budget")
  /\ UNCHANGED <<marred, authority>>

Turns(h) == {i \in DOMAIN h : h[i] \in {"say", "use"}}

\* hasUnclosedToolChain.
UnclosedChain(h) ==
  \E i \in DOMAIN h : h[i] = "use" /\ \A j \in i + 1 .. Len(h) : h[j] # "result"

\* Fault: the walk back stops one message too late.
EpochTailLate(h) ==
  LET start == CHOOSE i \in Turns(h) : Cardinality({j \in Turns(h) : j >= i}) = KeepRecent
  IN IF Cardinality(Turns(h)) >= KeepRecent THEN SubSeq(h, start + 1, Len(h))
     ELSE SubSeq(h, IF Len(h) > 2 THEN Len(h) - 1 ELSE 1, Len(h))

\* epochRollover without its fallback, which is for a chain that is still open when
\* a round starts: the messages kept start at the KeepRecent-th assistant turn
\* from the end; a history with fewer turns keeps its last two messages.
EpochTail(h) ==
  LET start == CHOOSE i \in Turns(h) : Cardinality({j \in Turns(h) : j >= i}) = KeepRecent
      cut   == IF Cardinality(Turns(h)) >= KeepRecent THEN start ELSE Len(h) + 1
      kept  == Len(h) + 1 - cut
  IN SubSeq(h, IF kept >= 2 THEN cut ELSE IF Len(h) > 2 THEN Len(h) - 1 ELSE 1, Len(h))

\* The round starts below the thresholds of its context epoch.
StartRound ==
  /\ pc = "between" /\ round < MaxRounds
  /\ pc' = "opening"
  /\ UNCHANGED <<round, aborted, conversation, authority, supervision, lifecycle,
                 observed>>

\* The round starts with a rollover: the preamble and the tail replace the history.
EpochRollover ==
  /\ pc = "between" /\ round < MaxRounds
  /\ ~UnclosedChain(history)
  /\ pc' = "opening"
  /\ history' = <<"ask">> \o EpochTail(history)
  /\ marred' = \/ marred
               \/ /\ Cardinality(Turns(history)) < KeepRecent
                  /\ Head(EpochTail(history)) = "result"
  /\ UNCHANGED <<round, aborted, authority, supervision, lifecycle, observed>>

\* The context budget gate of the pre-round chain.
ContextBudget ==
  /\ pc = "opening"
  /\ Leave("context_budget")
  /\ UNCHANGED <<marred, authority>>

\* withRetryCoordinator: an aborted call consumes nothing, and at the cap no
\* request is issued; both end the round without an answer.
RequestNotIssued ==
  /\ pc = "opening"
  /\ \/ aborted /\ Leave("aborted")
     \/ ~aborted /\ physical >= MaxPhysical /\ Leave("provider_failure")
  /\ UNCHANGED <<marred, authority>>

IssueRequest ==
  /\ pc = "opening" /\ ~aborted
  /\ physical < MaxPhysical
  /\ physical' = physical + 1
  /\ pc' = "request"
  /\ UNCHANGED <<round, aborted, conversation, transport, repaired, supervision,
                 lifecycle, observed>>

----------------------------------------------------------------------------
(* The answer of the provider *)

\* Fault: the limit is passed before it is noticed.
canRetryLate == transport <= TransportLimit

\* RetryLedger.canRetry for the transport class.
canRetry == transport < TransportLimit

\* A request fails before any output: after the backoff the coordinator grants
\* a retry from the class budget and from the cap, and records both.
RetryRequest ==
  /\ pc = "request" /\ ~aborted
  /\ canRetry /\ physical < MaxPhysical
  /\ transport' = transport + 1
  /\ physical' = physical + 1
  /\ UNCHANGED <<pc, round, aborted, conversation, repaired, supervision, lifecycle,
                 observed>>

\* A failure that is final: retries denied, output already seen, authentication,
\* quota, idle timeout or a malformed answer.
ProviderFails ==
  /\ pc = "request" /\ ~aborted
  /\ Leave("provider_failure")
  /\ UNCHANGED <<marred, authority>>

AbortSeen ==
  /\ pc = "request" /\ aborted
  /\ Leave("aborted")
  /\ UNCHANGED <<marred, authority>>

\* The answer held a tool call with invalid JSON: decideProviderFailureRecovery
\* asks once per run for the call again.  The ledger records before the last
\* round is ruled out.
ToolProtocolError ==
  /\ pc = "request" /\ ~aborted
  /\ repaired' = TRUE
  /\ \/ /\ ~repaired /\ round + 1 < MaxRounds
        /\ \E effective, promises \in BOOLEAN :
             superviseNextRound(Append(history, "ask"), FALSE, FALSE, effective,
                                promises, FALSE)
     \/ /\ repaired \/ round + 1 >= MaxRounds
        /\ Leave("provider_failure")
  /\ UNCHANGED <<marred, physical, transport>>

\* A complete answer without tool calls goes to the completion orchestrator.
OrchestratorEnds ==
  /\ pc = "request" /\ ~aborted
  /\ \E reason \in {"plan_ready", "orchestrator_blocked", "orchestrator_done"} : Leave(reason)
  /\ UNCHANGED <<marred, authority>>

\* Fault: the continue of the orchestrator bypasses the supervisor.
OrchestratorUnsupervised ==
  /\ pc = "request" /\ ~aborted
  /\ \E injected \in {<<"ask">>, <<"say", "ask">>}, effective, promises \in BOOLEAN :
       nextRoundUnsupervised(history \o injected, FALSE, FALSE, effective, promises, FALSE)
  /\ UNCHANGED <<marred, authority>>

\* The orchestrator continues, or moves the master plan to its next node.
OrchestratorContinues ==
  /\ pc = "request" /\ ~aborted
  /\ \E injected \in {<<"ask">>, <<"say", "ask">>}, effective, promises \in BOOLEAN :
       superviseNextRound(history \o injected, FALSE, FALSE, effective, promises, FALSE)
  /\ UNCHANGED <<marred, authority>>

EmptyRound ==
  /\ pc = "request" /\ ~aborted
  /\ Leave("empty_round")
  /\ UNCHANGED <<marred, authority>>

\* Prompts that the tail of a round may add: a service test hint, then the open
\* items or the plan request of a tracked task, or the runtime self-edit gate.
\* Several in a row are kept as one.
TailPrompts == {<<>>, <<"ask">>}

\* An answer cut off without a tool call: what it said stays, the results message
\* is empty, and a new round continues.
TruncatedRound ==
  /\ pc = "request" /\ ~aborted
  /\ \E said \in {<<>>, <<"say">>}, tail \in TailPrompts, cut, effective, promises \in BOOLEAN :
       superviseNextRound(history \o said \o <<"ask">> \o tail, FALSE, cut, effective,
                          promises, FALSE)
  /\ UNCHANGED <<marred, authority>>

\* The assistant message with its tool calls enters the history, the batch starts;
\* its writes load the ripple program and register transactions.
ToolCalls ==
  /\ pc = "request" /\ ~aborted
  /\ pc' = "tools"
  /\ history' = Append(history, "use")
  /\ held' = Resources
  /\ UNCHANGED <<round, aborted, marred, authority, supervision, decision, stop,
                 ctx, threw, hooks, observed>>

----------------------------------------------------------------------------
(* The tools and the tail of the round *)

ToolBatchAborted ==
  /\ pc = "tools" /\ aborted
  /\ Leave("tool_batch_aborted")
  /\ UNCHANGED <<marred, authority>>

\* The results close the round; the tail of the round asks for another one.
ToolsDone ==
  /\ pc = "tools"
  /\ \E tail \in TailPrompts, effective, pays \in BOOLEAN :
       superviseNextRound(history \o <<"result">> \o tail, TRUE, FALSE, effective,
                          FALSE, pays)
  /\ UNCHANGED <<marred, authority>>

\* A narrow edit that lacks evidence: its prompt enters the history in the ripple
\* phase, before the results do.
NarrowEditBlocked ==
  /\ pc = "tools"
  /\ marred' = TRUE
  /\ \E tail \in TailPrompts, effective, pays \in BOOLEAN :
       superviseNextRound(history \o <<"ask", "result">> \o tail, TRUE, FALSE, effective,
                          FALSE, pays)
  /\ UNCHANGED authority

\* Runtime sources were verified, or a verified write finished the task.
ToolsEnd ==
  /\ pc = "tools"
  /\ \E reason \in {"self_edit", "verified_write"} : Leave(reason)
  /\ UNCHANGED <<marred, authority>>

----------------------------------------------------------------------------
(* The end of the run *)

Finalize ==
  /\ pc = "exit"
  /\ stop' = StopReason(decision)
  /\ pc' = "finally"
  /\ UNCHANGED <<round, aborted, conversation, authority, supervision, decision,
                 resources, hooks, observed>>

\* An exception of a phase, or of the terminal switch.
Throw ==
  /\ pc \in {"building", "preparing", "opening", "request", "tools", "exit"}
  /\ stop' = "error"
  /\ pc' = "finally"
  /\ RoundsOver
  /\ UNCHANGED <<aborted, marred, authority, decision, resources, hooks>>

\* The consumer closes the generator at one of its events.
Close ==
  /\ pc \in {"preparing", "opening", "request", "tools", "exit"}
  /\ pc' = "finally"
  /\ RoundsOver
  /\ UNCHANGED <<aborted, marred, authority, lifecycle>>

\* The first n releases of the clean-up are done; the sandbox is disposed of
\* through the context (ctx?.sandbox.dispose()).
Released(n) ==
  LET done == {CleanupOrder[i] : i \in 1 .. n}
  IN IF ctx THEN done ELSE done \ {"sandbox"}

\* Fault: the hook follows the clean-up instead of standing in its finally.
StopRunUnprotected ==
  /\ pc = "finally"
  /\ \E n \in 0 .. Len(CleanupOrder) :
       /\ held' = held \ Released(n)
       /\ threw' = (n < Len(CleanupOrder))
       /\ hooks' = IF threw' THEN hooks ELSE hooks + 1
  /\ pc' = "stopped"
  /\ UNCHANGED <<round, aborted, conversation, authority, supervision, decision,
                 stop, ctx, observed>>

\* The unified finally.  The releases share one try: the first that throws skips
\* those after it.  The hook stands in the inner finally.
StopRun ==
  /\ pc = "finally"
  /\ \E n \in 0 .. Len(CleanupOrder) :
       /\ held' = held \ Released(n)
       /\ threw' = (n < Len(CleanupOrder))
  /\ hooks' = hooks + 1
  /\ pc' = "stopped"
  /\ UNCHANGED <<round, aborted, conversation, authority, supervision, decision,
                 stop, ctx, observed>>

\* The user, the harness or a watchdog aborts the run.
Abort ==
  /\ pc # "stopped" /\ ~aborted
  /\ aborted' = TRUE
  /\ UNCHANGED <<pc, round, conversation, authority, supervision, lifecycle, observed>>

Step ==
  \/ AbortAtStart \/ StartRun \/ BuildContext \/ PrepareRun
  \/ RoundBudget \/ StartRound \/ EpochRollover \/ ContextBudget
  \/ RequestNotIssued \/ IssueRequest \/ RetryRequest \/ ProviderFails \/ AbortSeen
  \/ ToolProtocolError \/ OrchestratorEnds \/ OrchestratorContinues
  \/ EmptyRound \/ TruncatedRound \/ ToolCalls
  \/ ToolBatchAborted \/ ToolsDone \/ NarrowEditBlocked \/ ToolsEnd
  \/ Finalize \/ StopRun

Next == Step \/ SideRequest \/ BuildThrows \/ Throw \/ Close \/ Abort

\* The consumer pulls the generator or closes it, and what it awaits ends: the
\* provider by its idle timeout, the tools by theirs.
Fairness == WF_vars(Step \/ BuildThrows \/ Throw \/ Close)

Spec == Init /\ [][Next]_vars /\ Fairness

----------------------------------------------------------------------------
\* The type invariant; no budget of the authority is overdrawn.
TypeOK ==
  /\ pc \in Phases
  /\ round \in 0 .. MaxRounds
  /\ history \in Seq(Kinds)
  /\ physical \in 0 .. MaxPhysical /\ transport \in 0 .. TransportLimit
  /\ streak \in 0 .. StallRounds /\ ladder \in 0 .. LadderLimit
  /\ debt \in 0 .. DebtCap + 1
  /\ decision \in Reasons
  /\ stop \in {"aborted", "completed", "paused", "stalled", "error", "blocked"}
  /\ hooks \in 0 .. 1
  /\ repaired \in BOOLEAN /\ judged \in BOOLEAN /\ owed \in BOOLEAN
  /\ aborted \in BOOLEAN /\ marred \in BOOLEAN
  /\ held \subseteq Resources /\ ctx \in BOOLEAN /\ threw \in BOOLEAN

\* "Any user message inserted between an assistant(tool_use) and user(tool_result)
\* is a 400 error" (round.ts): in every request each tool call is followed by its
\* result and each result has its call before it, after any mix of recoveries,
\* truncations, gate prompts and rollovers.  Excepted are the prompt of a blocked
\* narrow edit and a rollover that meets fewer turns than it means to keep and cuts
\* between a call and its result.
ClosedChains ==
  pc = "request" /\ ~marred =>
    \A i \in DOMAIN history :
      /\ history[i] = "use" => i < Len(history) /\ history[i + 1] = "result"
      /\ history[i] = "result" => i > 1 /\ history[i - 1] = "use"

\* Every way into another round is supervised (CONTINUE_PATH_WITHOUT_SUPERVISION
\* = 0, loop-supervisor.ts): a run that is about to go on has not spent more than
\* StallRounds rounds in a row without progress, the first one included, nor been
\* cut off LadderLimit times in a row.
StallIsCaught ==
  pc = "between" => idle <= StallRounds /\ truncated < LadderLimit

\* Exactly one Stop hook was dispatched.  No resource is left unless a release
\* threw, except the sandbox of a buildRunContext that threw; and the shell is
\* never left with a sandbox that was disposed of.
WoundUp ==
  /\ hooks = 1
  /\ held = {} \/ threw \/ (held = {"sandbox"} /\ ~ctx)
  /\ "shell" \in held => "sandbox" \in held

\* Every run ends and is wound up, whatever aborts, exceptions and closes hit it, a
\* clean-up that throws included (the finally of runAgentLoop).
LoopEnds == <>[](pc = "stopped" /\ WoundUp)
=============================================================================
