---------------------------- MODULE NativeExecutor ----------------------------
(***************************************************************************)
(* pkg/ai/agent/executor.go: one Run of the native tool-calling loop.  The *)
(* provider and the tools are the environment: each Chat returns an        *)
(* error, an answer or a batch of tool calls with a token usage, each      *)
(* Invoke succeeds, fails or runs out of its step timeout, and the         *)
(* caller's context may be cancelled at any moment.  A tool call is        *)
(* identified by its name and arguments, which is what sameToolCall        *)
(* compares.  The executor has a tracer, a feature and an identity.        *)
(***************************************************************************)
EXTENDS Integers, Sequences

CONSTANTS
  ToolCalls,        \* tool calls the model may ask for
  Registered,       \* those whose tool the registry knows
  NoCall,           \* no tool call (a nil pointer, an empty tool name)
  ConfigMaxSteps,   \* Limit.MaxSteps as requested
  DefaultMaxSteps,  \* defaultMaxSteps
  TokenBudget,      \* Limit.TokenBudget, 0 for none
  MaxUsage,         \* bound: the most tokens one response uses
  MaxBatch          \* bound: the most tool calls one response carries

ASSUME ExecutorAssumption ==
  /\ Registered \subseteq ToolCalls
  /\ NoCall \notin ToolCalls
  /\ ConfigMaxSteps \in Int
  /\ DefaultMaxSteps \in Nat \ {0}
  /\ TokenBudget \in Int
  /\ MaxUsage \in Nat
  /\ MaxBatch \in Nat \ {0}

\* normalizeLimit
MaxSteps == IF ConfigMaxSteps <= 0 THEN DefaultMaxSteps ELSE ConfigMaxSteps

VARIABLES
  phase,             \* "start", "chat" (asking the provider), "tools", "done"
  batch,          \* tool calls of the last response still to be handled
  steps,          \* result.Steps: [call, ok, timedOut]
  tokensUsed,     \* result.TokensUsed
  lastCall,       \* the previous tool call, or NoCall
  pendingStep,    \* the call of a step not yet observed, or NoCall
  terminatedBy,   \* result.TerminatedBy, "none" until set
  failed,         \* the error Run returned, "none" if none
  observations,   \* what was recorded: [index, tool, reason, failure]
  chats,          \* provider calls made (history)
  cancelled       \* the caller's context is done

runVars == <<phase, batch, steps, tokensUsed, lastCall, pendingStep, terminatedBy,
             failed, observations, chats, cancelled>>

StepsTaken == Len(steps)

RunInit ==
  /\ phase = "start"
  /\ batch = <<>>
  /\ steps = <<>>
  /\ tokensUsed = 0
  /\ lastCall = NoCall
  /\ pendingStep = NoCall
  /\ terminatedBy = "none"
  /\ failed = "none"
  /\ observations = <<>>
  /\ chats = 0
  /\ cancelled = FALSE

-------------------------------------------------------------------------------
(* Recording. *)

Observation(index, tool, reason, failure) ==
  [index |-> index, tool |-> tool, reason |-> reason, failure |-> failure]

\* Mutant: the observation of the last step is dropped.
WithPendingDropped(reason) == observations

\* recordAgentStepObservation of the pending step, if there is one.
WithPending(reason) ==
  IF pendingStep = NoCall THEN observations
  ELSE Append(observations, Observation(StepsTaken, pendingStep, reason, "none"))

\* failureStatusForTermination
FailureStatus(reason) ==
  CASE reason = "step_timeout" -> "timeout"
    [] reason \in {"loop_detected", "budget_exceeded"} -> reason
    [] OTHER -> "none"

\* Run returns a result.
Terminate(reason) ==
  /\ phase' = "done"
  /\ terminatedBy' = reason
  /\ failed' = "none"

\* Run returns an error and the result so far.
Fail(error) ==
  /\ phase' = "done"
  /\ failed' = error
  /\ UNCHANGED terminatedBy

-------------------------------------------------------------------------------
(* The environment: the caller gives up. *)

Cancel ==
  /\ phase # "done"
  /\ ~cancelled
  /\ cancelled' = TRUE
  /\ UNCHANGED <<phase, batch, steps, tokensUsed, lastCall, pendingStep,
                 terminatedBy, failed, observations, chats>>

\* Run checks its context once, before the loop.
Start ==
  /\ phase = "start"
  /\ IF cancelled THEN Fail("cancelled")
     ELSE phase' = "chat" /\ UNCHANGED <<terminatedBy, failed>>
  /\ UNCHANGED <<batch, steps, tokensUsed, lastCall, pendingStep, observations,
                 chats, cancelled>>

-------------------------------------------------------------------------------
(* One provider call. *)

ChatFails ==
  /\ phase = "chat"
  /\ chats' = chats + 1
  /\ Fail("provider")
  /\ UNCHANGED <<batch, steps, tokensUsed, lastCall, pendingStep, observations,
                 cancelled>>

\* Mutant: the usage of the response at hand is not counted yet.
ExceedsBudgetBefore(used) == TokenBudget > 0 /\ tokensUsed > TokenBudget

ExceedsBudget(used) == TokenBudget > 0 /\ used > TokenBudget

\* A response arrives: its usage is added before anything else is looked at,
\* so that even a final answer is given up when it is over the budget.
Responds(usage) ==
  /\ phase = "chat"
  /\ chats' = chats + 1
  /\ tokensUsed' = tokensUsed + usage

\* Mutant: the run ends without a word.
OverBudgetUnrecorded == observations

OverBudgetRecorded ==
  Append(observations,
         Observation(StepsTaken, NoCall, "budget_exceeded", "budget_exceeded"))

OverBudget(usage) ==
  /\ Responds(usage)
  /\ ExceedsBudget(tokensUsed + usage)
  /\ Terminate("budget_exceeded")
  /\ observations' = OverBudgetRecorded
  /\ UNCHANGED <<batch, steps, lastCall, pendingStep, cancelled>>

GivesAnswer(usage) ==
  /\ Responds(usage)
  /\ ~ExceedsBudget(tokensUsed + usage)
  /\ Terminate("finished")
  /\ observations' = WithPending("finished")
  /\ UNCHANGED <<batch, steps, lastCall, pendingStep, cancelled>>

\* finish_reason=tool_calls; without any tool call it is an error.
AsksForTools(usage, calls) ==
  /\ Responds(usage)
  /\ ~ExceedsBudget(tokensUsed + usage)
  /\ IF calls = <<>>
     THEN Fail("no_tool_calls") /\ UNCHANGED batch
     ELSE /\ phase' = "tools"
          /\ batch' = calls
          /\ UNCHANGED <<terminatedBy, failed>>
  /\ UNCHANGED <<steps, lastCall, pendingStep, observations, cancelled>>

-------------------------------------------------------------------------------
(* One tool call of the batch. *)

Repeats == lastCall # NoCall /\ Head(batch) = lastCall

DetectLoop ==
  /\ phase = "tools"
  /\ Repeats
  /\ Terminate("loop_detected")
  /\ observations' = Append(WithPending("success"),
       Observation(StepsTaken + 1, Head(batch), "loop_detected", "loop_detected"))
  /\ pendingStep' = NoCall
  /\ UNCHANGED <<batch, steps, tokensUsed, lastCall, chats, cancelled>>

\* The call is not a repetition: the pending step is recorded first.
HandlesCall(call) ==
  /\ phase = "tools"
  /\ ~Repeats
  /\ call = Head(batch)

\* Mutant: the error is swallowed and the call made again.
ToolFailsRetries(call) ==
  /\ HandlesCall(call)
  /\ call \in Registered => ~cancelled
  /\ observations' = WithPending("success")
  /\ pendingStep' = NoCall
  /\ UNCHANGED <<phase, batch, steps, tokensUsed, lastCall, terminatedBy, failed,
                 chats, cancelled>>

\* An unknown tool, or an Invoke that fails while its context is not done:
\* Run returns the error, and the step appears nowhere.
ToolFails(call) ==
  /\ HandlesCall(call)
  /\ call \in Registered => ~cancelled
  /\ Fail(IF call \in Registered THEN "tool" ELSE "unknown_tool")
  /\ observations' = WithPending("success")
  /\ pendingStep' = NoCall
  /\ UNCHANGED <<batch, steps, tokensUsed, lastCall, chats, cancelled>>

\* Invoke fails and its context is done: because the step's timeout expired or
\* because the caller's context was cancelled; Run does not tell them apart.
ToolTimesOut(call, timedOut) ==
  LET step == [call |-> call, ok |-> FALSE, timedOut |-> timedOut] IN
  /\ HandlesCall(call)
  /\ call \in Registered
  /\ timedOut \/ cancelled
  /\ steps' = Append(steps, step)
  /\ Terminate("step_timeout")
  /\ observations' = Append(WithPending("success"),
       Observation(StepsTaken + 1, call, "step_timeout",
                   FailureStatus("step_timeout")))
  /\ pendingStep' = NoCall
  /\ UNCHANGED <<batch, tokensUsed, lastCall, chats, cancelled>>

\* Mutant: the limit is compared before the step is counted.
LimitReachedBefore == StepsTaken >= MaxSteps

LimitReached == StepsTaken + 1 >= MaxSteps

ToolSucceedsLast(call) ==
  /\ HandlesCall(call)
  /\ call \in Registered
  /\ LimitReached
  /\ steps' = Append(steps, [call |-> call, ok |-> TRUE, timedOut |-> FALSE])
  /\ Terminate("max_steps")
  /\ observations' = Append(WithPending("success"),
       Observation(StepsTaken + 1, call, "max_steps", "none"))
  /\ pendingStep' = NoCall
  /\ UNCHANGED <<batch, tokensUsed, lastCall, chats, cancelled>>

\* Mutant: the call is not remembered for the next comparison.
RememberedNot(call) == lastCall

Remembered(call) == call

\* Mutant: the loop goes on with an empty batch.
AfterToolStays == "tools"

AfterTool == IF Tail(batch) = <<>> THEN "chat" ELSE "tools"

ToolSucceeds(call) ==
  /\ HandlesCall(call)
  /\ call \in Registered
  /\ ~LimitReached
  /\ steps' = Append(steps, [call |-> call, ok |-> TRUE, timedOut |-> FALSE])
  /\ observations' = WithPending("success")
  /\ lastCall' = Remembered(call)
  /\ pendingStep' = call
  /\ batch' = Tail(batch)
  /\ phase' = AfterTool
  /\ UNCHANGED <<tokensUsed, terminatedBy, failed, chats, cancelled>>

-------------------------------------------------------------------------------

Batches == UNION {[1 .. n -> ToolCalls] : n \in 0 .. MaxBatch}

ChatStep ==
  \/ ChatFails
  \/ \E usage \in 0 .. MaxUsage :
       \/ OverBudget(usage)
       \/ GivesAnswer(usage)
       \/ \E calls \in Batches : AsksForTools(usage, calls)

ToolStep ==
  \/ DetectLoop
  \/ \E call \in ToolCalls :
       \/ ToolFails(call)
       \/ \E timedOut \in BOOLEAN : ToolTimesOut(call, timedOut)
       \/ ToolSucceedsLast(call)
       \/ ToolSucceeds(call)

RunNext == Cancel \/ Start \/ ChatStep \/ ToolStep

RunSpec == RunInit /\ [][RunNext]_runVars

\* Run is one goroutine; the provider and the tools return.
RunFairness == WF_runVars(Start) /\ WF_runVars(ChatStep) /\ WF_runVars(ToolStep)

FairRunSpec == RunSpec /\ RunFairness

-------------------------------------------------------------------------------
(* Properties. *)

Step == [call : ToolCalls, ok : BOOLEAN, timedOut : BOOLEAN]

Reasons == {"finished", "max_steps", "loop_detected", "step_timeout",
            "budget_exceeded"}

Observations ==
  [index : Nat, tool : ToolCalls \cup {NoCall}, reason : Reasons \cup {"success"},
   failure : {"none", "timeout", "loop_detected", "budget_exceeded"}]

\* Types of the loop's state; a loop that is handling tools has one to handle.
RunTypeOK ==
  /\ phase \in {"start", "chat", "tools", "done"}
  /\ batch \in Seq(ToolCalls)
  /\ phase = "tools" => batch # <<>>
  /\ steps \in Seq(Step)
  /\ tokensUsed \in Nat
  /\ lastCall \in ToolCalls \cup {NoCall}
  /\ pendingStep \in ToolCalls \cup {NoCall}
  /\ terminatedBy \in Reasons \cup {"none"}
  /\ failed \in {"none", "cancelled", "provider", "no_tool_calls", "tool",
                 "unknown_tool"}
  /\ observations \in Seq(Observations)
  /\ chats \in Nat
  /\ cancelled \in BOOLEAN

\* agent.go:8: a run executes at most MaxSteps tools, and asks the provider at
\* most once more than that: every provider call but the last leads to a step.
StepsBounded ==
  /\ StepsTaken <= MaxSteps
  /\ phase = "chat" => StepsTaken < MaxSteps
  /\ chats <= StepsTaken + 1

\* agent.go:9: no tool is executed twice in a row with the same arguments, in
\* one response or across two.
NoRepeatedCall ==
  \A i \in 1 .. StepsTaken - 1 : steps[i].call # steps[i + 1].call

\* agent.go:10: no tool is executed once the token budget is spent.
BudgetGuardsTools ==
  TokenBudget > 0 /\ tokensUsed > TokenBudget =>
    phase = "done" /\ terminatedBy = "budget_exceeded"

\* Steps that an observation of a tool tells about.
ObservedSteps == {observations[i].index : i \in {j \in 1 .. Len(observations) :
                                                   observations[j].tool # NoCall}}

\* No step is observed twice or out of order, each observation names the call
\* its step made, and every step before the latest has one. The latest may be
\* without: while it is pending, and for good if the run ends before it is
\* flushed (executor.go:144), which ToolCallsRecorded says it should not.
StepsObservedOnce ==
  /\ \A i, j \in 1 .. Len(observations) :
       i < j => observations[i].index < observations[j].index
                \/ observations[j].tool = NoCall
  /\ \A i \in 1 .. Len(observations) :
       LET o == observations[i] IN
       o.tool # NoCall /\ o.index <= StepsTaken => steps[o.index].call = o.tool
  /\ 1 .. (StepsTaken - 1) \subseteq ObservedSteps
  /\ IF pendingStep = NoCall
     THEN StepsTaken \in ObservedSteps \cup {0}
     ELSE StepsTaken \notin ObservedSteps \/ terminatedBy = "finished"

\* A run that returned a result for a reason other than "finished" recorded
\* that reason, last and once.
LimitsObserved ==
  phase = "done" /\ terminatedBy \in Reasons \ {"finished"} =>
    /\ observations # <<>>
    /\ observations[Len(observations)].reason = terminatedBy
    /\ \A i \in 1 .. Len(observations) - 1 : observations[i].reason = "success"

\* What a trace of a run is worth: its observations are the steps that were
\* taken, and then why it ended.
ObservationsTell == StepsObservedOnce /\ LimitsObserved

\* Every run ends, however the model goes on asking for tools.
Terminates == <>(phase = "done")

\* FR-005 (specs/002-dual-plane-observability/spec.md:83): a tool call that
\* was made is recorded with its status, whatever follows it.
ToolCallsRecorded == phase = "done" => 1 .. StepsTaken \subseteq ObservedSteps

\* failure_trace.go:13: "timeout" is for a timeout that was reached.
TimeoutIsATimeout ==
  terminatedBy = "step_timeout" => steps[StepsTaken].timedOut
===============================================================================
