------------------------- MODULE NativeExecutorProofs -------------------------
(***************************************************************************)
(* Proofs about NativeExecutor: for every set of tool calls, limit, budget *)
(* and size of the provider's responses.                                   *)
(***************************************************************************)
EXTENDS NativeExecutor, SequenceTheorems, TLAPS

\* The last tool call that was executed and let the run go on.
LastExecuted == IF steps = <<>> THEN NoCall ELSE steps[Len(steps)].call

\* What makes the safety properties inductive: while the loop runs it is below
\* its limit, it remembers the last executed call, it has not exceeded its
\* budget, and each provider call before the current one led to a step.
LoopInv ==
  /\ phase = "start" => steps = <<>> /\ chats = 0 /\ tokensUsed = 0
                     /\ lastCall = NoCall
  /\ phase \in {"chat", "tools"} =>
       /\ StepsTaken < MaxSteps
       /\ lastCall = LastExecuted
       /\ ~ExceedsBudget(tokensUsed)
  /\ phase = "chat" => chats <= StepsTaken
  /\ phase = "tools" => chats <= StepsTaken + 1

\* normalizeLimit leaves no limit below one.
LEMMA LimitPositive == MaxSteps \in Nat \ {0}
BY ExecutorAssumption DEF MaxSteps

\* A batch the model asks for is a sequence of tool calls.
LEMMA BatchesAreSequences ==
  ASSUME NEW calls \in Batches PROVE calls \in Seq(ToolCalls)
<1>1. PICK n \in 0 .. MaxBatch : calls \in [1 .. n -> ToolCalls]
  BY DEF Batches
<1>2. n \in Nat
  BY <1>1, ExecutorAssumption
<1> QED
  BY <1>1, <1>2

\* Recording the pending step yields a sequence of observations.
LEMMA PendingTyped ==
  ASSUME RunTypeOK, NEW reason \in Reasons \cup {"success"}
  PROVE  WithPending(reason) \in Seq(Observations)
<1>1. StepsTaken \in Nat
  BY DEF RunTypeOK, StepsTaken
<1>2. Observation(StepsTaken, pendingStep, reason, "none") \in Observations
  BY <1>1 DEF Observation, Observations, RunTypeOK
<1> QED
  BY <1>2 DEF WithPending, RunTypeOK

\* Appending one more observation does too.
LEMMA AppendTyped ==
  ASSUME NEW s \in Seq(Observations), NEW index \in Nat,
         NEW tool \in ToolCalls \cup {NoCall}, NEW reason \in Reasons,
         NEW failure \in {"none", "timeout", "loop_detected", "budget_exceeded"}
  PROVE  Append(s, Observation(index, tool, reason, failure)) \in Seq(Observations)
<1>1. Observation(index, tool, reason, failure) \in Observations
  BY DEF Observation, Observations
<1> QED
  BY <1>1

\* The state of the loop stays in its types, whatever the environment does.
THEOREM ExecutorTypeCorrect == RunSpec => []RunTypeOK
<1>1. RunInit => RunTypeOK
  <2> SUFFICES ASSUME RunInit PROVE RunTypeOK
    OBVIOUS
  <2>1. batch \in Seq(ToolCalls)
    BY EmptySeq DEF RunInit
  <2>2. steps \in Seq(Step)
    BY EmptySeq DEF RunInit
  <2>3. observations \in Seq(Observations)
    BY EmptySeq DEF RunInit
  <2> QED
    BY <2>1, <2>2, <2>3 DEF RunInit, RunTypeOK
<1>2. ASSUME RunTypeOK, [RunNext]_runVars PROVE RunTypeOK'
  <2> USE <1>2
  <2>0. StepsTaken \in Nat /\ StepsTaken + 1 \in Nat
    BY DEF RunTypeOK, StepsTaken
  <2>1. CASE Cancel
    BY <2>1 DEF Cancel, RunTypeOK
  <2>2. CASE Start
    BY <2>2 DEF Start, Fail, RunTypeOK
  <2>3. CASE ChatFails
    BY <2>3 DEF ChatFails, Fail, RunTypeOK
  <2>4. ASSUME NEW usage \in 0 .. MaxUsage, OverBudget(usage) PROVE RunTypeOK'
    <3>1. observations' \in Seq(Observations)
      BY <2>0, <2>4, AppendTyped DEF OverBudget, OverBudgetRecorded, RunTypeOK, Reasons
    <3> QED
      BY <2>4, <3>1, ExecutorAssumption
         DEF OverBudget, OverBudgetRecorded, Responds, Terminate, Reasons, RunTypeOK
  <2>5. ASSUME NEW usage \in 0 .. MaxUsage, GivesAnswer(usage) PROVE RunTypeOK'
    <3>1. observations' \in Seq(Observations)
      BY <2>5, PendingTyped DEF GivesAnswer, Reasons
    <3> QED
      BY <2>5, <3>1, ExecutorAssumption
         DEF GivesAnswer, Responds, Terminate, Reasons, RunTypeOK
  <2>6. ASSUME NEW usage \in 0 .. MaxUsage, NEW calls \in Batches,
               AsksForTools(usage, calls)
        PROVE  RunTypeOK'
    <3>1. CASE calls = <<>>
      BY <2>6, <3>1, ExecutorAssumption DEF AsksForTools, Responds, Fail, RunTypeOK
    <3>2. CASE calls # <<>>
      <4>1. calls \in Seq(ToolCalls)
        BY BatchesAreSequences
      <4> QED
        BY <2>6, <3>2, <4>1, ExecutorAssumption DEF AsksForTools, Responds, RunTypeOK
    <3> QED
      BY <3>1, <3>2
  <2>7. CASE DetectLoop
    <3>1. phase = "tools" /\ Head(batch) \in ToolCalls
      BY <2>7 DEF DetectLoop, RunTypeOK
    <3>2. observations' \in Seq(Observations)
      BY <2>0, <2>7, <3>1, PendingTyped, AppendTyped DEF DetectLoop, Reasons
    <3> QED
      BY <2>7, <3>2 DEF DetectLoop, Terminate, Reasons, RunTypeOK
  <2>8. ASSUME NEW call \in ToolCalls, ToolFails(call) PROVE RunTypeOK'
    <3>1. observations' \in Seq(Observations)
      BY <2>8, PendingTyped DEF ToolFails
    <3> QED
      BY <2>8, <3>1 DEF ToolFails, Fail, RunTypeOK
  <2>9. ASSUME NEW call \in ToolCalls, NEW timedOut \in BOOLEAN,
               ToolTimesOut(call, timedOut)
        PROVE  RunTypeOK'
    <3>1. observations' \in Seq(Observations)
      BY <2>0, <2>9, PendingTyped, AppendTyped
         DEF ToolTimesOut, FailureStatus, Reasons
    <3>2. [call |-> call, ok |-> FALSE, timedOut |-> timedOut] \in Step
      BY DEF Step
    <3> QED
      BY <2>9, <3>1, <3>2 DEF ToolTimesOut, HandlesCall, Terminate, Reasons, RunTypeOK
  <2>10. ASSUME NEW call \in ToolCalls, ToolSucceedsLast(call) PROVE RunTypeOK'
    <3>1. observations' \in Seq(Observations)
      BY <2>0, <2>10, PendingTyped, AppendTyped DEF ToolSucceedsLast, Reasons
    <3>2. [call |-> call, ok |-> TRUE, timedOut |-> FALSE] \in Step
      BY DEF Step
    <3> QED
      BY <2>10, <3>1, <3>2 DEF ToolSucceedsLast, HandlesCall, Terminate,
                               Reasons, RunTypeOK
  <2>11. ASSUME NEW call \in ToolCalls, ToolSucceeds(call) PROVE RunTypeOK'
    <3>1. observations' \in Seq(Observations)
      BY <2>11, PendingTyped DEF ToolSucceeds, AfterTool, Remembered
    <3>2. [call |-> call, ok |-> TRUE, timedOut |-> FALSE] \in Step
      BY DEF Step
    <3>3. batch # <<>> /\ Tail(batch) \in Seq(ToolCalls)
      BY <2>11 DEF ToolSucceeds, AfterTool, Remembered, HandlesCall, RunTypeOK
    <3>4. steps' \in Seq(Step)
      BY <2>11, <3>2 DEF ToolSucceeds, AfterTool, Remembered, RunTypeOK
    <3> QED
      BY <2>11, <3>1, <3>3, <3>4 DEF ToolSucceeds, AfterTool, Remembered,
                                     HandlesCall, RunTypeOK
  <2>12. CASE UNCHANGED runVars
    BY <2>12 DEF runVars, RunTypeOK
  <2> QED
    BY <2>1, <2>2, <2>3, <2>4, <2>5, <2>6, <2>7, <2>8, <2>9, <2>10, <2>11, <2>12
       DEF RunNext, ChatStep, ToolStep
<1> QED
  BY <1>1, <1>2, PTL DEF RunSpec

-------------------------------------------------------------------------------
(* The limits. *)

\* Every step but one that lets the run go on ends it, leaves what it has
\* executed alone, or adds one step at most.
LEMMA LoopInvStep ==
  ASSUME RunTypeOK, RunTypeOK', LoopInv, [RunNext]_runVars PROVE LoopInv'
<1>0. StepsTaken \in Nat /\ chats \in Nat /\ MaxSteps \in Nat \ {0}
  BY LimitPositive DEF RunTypeOK, StepsTaken
<1>1. CASE phase' = "done"
  BY <1>1 DEF LoopInv
<1>2. CASE Cancel
  BY <1>2 DEF Cancel, LoopInv, StepsTaken, LastExecuted, ExceedsBudget
<1>3. CASE Start /\ phase' # "done"
  <2>1. phase' = "chat" /\ steps' = <<>> /\ chats' = 0 /\ tokensUsed' = 0
        /\ lastCall' = NoCall
    BY <1>3 DEF Start, Fail, LoopInv
  <2>2. Len(steps') = 0
    BY <2>1
  <2> QED
    BY <1>0, <2>1, <2>2, ExecutorAssumption
       DEF LoopInv, StepsTaken, LastExecuted, ExceedsBudget, MaxSteps
<1>4. ASSUME NEW usage \in 0 .. MaxUsage, NEW calls \in Batches,
             AsksForTools(usage, calls)
      PROVE  LoopInv'
  <2>1. CASE calls = <<>>
    BY <1>4, <2>1 DEF AsksForTools, Fail, LoopInv
  <2>2. CASE calls # <<>>
    BY <1>0, <1>4, <2>2
       DEF AsksForTools, Responds, LoopInv, StepsTaken, LastExecuted,
           ExceedsBudget, MaxSteps
  <2> QED
    BY <2>1, <2>2
<1>5. ASSUME NEW call \in ToolCalls, ToolSucceeds(call) PROVE LoopInv'
  <2> DEFINE step == [call |-> call, ok |-> TRUE, timedOut |-> FALSE]
  <2>1. steps' = Append(steps, step) /\ step \in Step /\ steps \in Seq(Step)
    BY <1>5 DEF ToolSucceeds, AfterTool, Remembered, Step, RunTypeOK
  <2>2. Len(steps') = Len(steps) + 1 /\ steps'[Len(steps')] = step
        /\ steps' # <<>>
    BY <2>1
  <2>3. LastExecuted' = call
    BY <2>2 DEF LastExecuted
  <2>4. phase' \in {"chat", "tools"} /\ lastCall' = call /\ StepsTaken' < MaxSteps
    BY <1>0, <1>5, <2>2
       DEF ToolSucceeds, AfterTool, Remembered, HandlesCall, LimitReached,
           StepsTaken, MaxSteps
  <2>5. ~ExceedsBudget(tokensUsed)'
    BY <1>5 DEF ToolSucceeds, AfterTool, Remembered, HandlesCall, LoopInv,
                ExceedsBudget
  <2>6. chats' \in Nat /\ StepsTaken' \in Nat /\ chats' <= StepsTaken'
    BY <1>0, <1>5, <2>2 DEF ToolSucceeds, AfterTool, Remembered, HandlesCall,
                            LoopInv, StepsTaken
  <2>7. chats' <= StepsTaken' + 1
    BY <2>6 DEF StepsTaken
  <2> QED
    BY <2>3, <2>4, <2>5, <2>6, <2>7 DEF LoopInv
<1>6. CASE UNCHANGED runVars
  BY <1>6 DEF runVars, LoopInv, StepsTaken, LastExecuted, ExceedsBudget, MaxSteps
<1> QED
  BY <1>1, <1>2, <1>3, <1>4, <1>5, <1>6
     DEF RunNext, ChatStep, ToolStep, ChatFails, OverBudget, OverBudgetRecorded,
         GivesAnswer, DetectLoop,
         ToolFails, ToolTimesOut, ToolSucceedsLast, Fail, Terminate

\* LoopInv holds whatever the model asks for and the tools do.
LEMMA LoopInvHolds == RunSpec => [](RunTypeOK /\ LoopInv)
<1>1. RunInit => LoopInv
  BY DEF RunInit, LoopInv
<1>2. RunTypeOK /\ RunTypeOK' /\ LoopInv /\ [RunNext]_runVars => LoopInv'
  BY LoopInvStep
<1> QED
  BY <1>1, <1>2, ExecutorTypeCorrect, PTL DEF RunSpec

\* No run executes more than MaxSteps tools, nor asks the provider more than
\* once beyond the steps it led to.
THEOREM StepsAreBounded == RunSpec => []StepsBounded
<1>1. RunInit => StepsBounded
  <2> SUFFICES ASSUME RunInit PROVE StepsBounded
    OBVIOUS
  <2>1. StepsTaken = 0 /\ chats = 0 /\ phase = "start"
    BY DEF RunInit, StepsTaken
  <2> QED
    BY <2>1, LimitPositive DEF StepsBounded
<1>2. ASSUME RunTypeOK, RunTypeOK', LoopInv, LoopInv', StepsBounded, [RunNext]_runVars
      PROVE  StepsBounded'
  <2>0. /\ StepsTaken \in Nat /\ chats \in Nat /\ MaxSteps \in Nat \ {0}
        /\ StepsTaken' \in Nat /\ chats' \in Nat 
    BY <1>2, LimitPositive DEF RunTypeOK, StepsTaken, MaxSteps
  <2>1. CASE steps' = steps /\ chats' = chats
    <3>1. StepsTaken' = StepsTaken
      BY <2>1 DEF StepsTaken
    <3> QED
      BY <1>2, <2>0, <2>1, <3>1 DEF StepsBounded, LoopInv
  <2>2. CASE steps' = steps /\ phase = "chat" /\ chats' = chats + 1
    <3>1. StepsTaken' = StepsTaken
      BY <2>2 DEF StepsTaken
    <3> QED
      BY <1>2, <2>0, <2>2, <3>1 DEF StepsBounded, LoopInv
  <2>3. ASSUME phase = "tools", NEW step \in Step,
               steps' = Append(steps, step), chats' = chats
        PROVE  StepsBounded'
    <3>1. StepsTaken' = StepsTaken + 1
      BY <1>2, <2>3 DEF StepsTaken, RunTypeOK
    <3> QED
      BY <1>2, <2>0, <2>3, <3>1 DEF StepsBounded, LoopInv
  <2>4. CASE \E call \in ToolCalls, timedOut \in BOOLEAN :
               ToolTimesOut(call, timedOut)
    <3>1. PICK call \in ToolCalls, timedOut \in BOOLEAN :
            ToolTimesOut(call, timedOut)
      BY <2>4
    <3>2. [call |-> call, ok |-> FALSE, timedOut |-> timedOut] \in Step
      BY DEF Step
    <3> QED
      BY <2>3, <3>1, <3>2 DEF ToolTimesOut, HandlesCall
  <2>5. CASE \E call \in ToolCalls : ToolSucceedsLast(call) \/ ToolSucceeds(call)
    <3>1. PICK call \in ToolCalls : ToolSucceedsLast(call) \/ ToolSucceeds(call)
      BY <2>5
    <3>2. [call |-> call, ok |-> TRUE, timedOut |-> FALSE] \in Step
      BY DEF Step
    <3> QED
      BY <2>3, <3>1, <3>2 DEF ToolSucceedsLast, ToolSucceeds, AfterTool, Remembered,
         HandlesCall
  <2>6. CASE ChatStep
    BY <2>2, <2>6 DEF ChatStep, ChatFails, OverBudget, OverBudgetRecorded,
                      GivesAnswer, AsksForTools, Responds
  <2>7. CASE Cancel \/ Start \/ DetectLoop \/ \E call \in ToolCalls : ToolFails(call)
    BY <2>1, <2>7 DEF Cancel, Start, DetectLoop, ToolFails
  <2>8. CASE UNCHANGED runVars
    BY <2>1, <2>8 DEF runVars
  <2> QED
    BY <1>2, <2>4, <2>5, <2>6, <2>7, <2>8 DEF RunNext, ToolStep
<1> QED
  BY <1>1, <1>2, ExecutorTypeCorrect, LoopInvHolds, PTL DEF RunSpec

\* No tool is executed once the budget is exceeded, and a run that exceeds it
\* ends saying so.
THEOREM BudgetIsGuarded == RunSpec => []BudgetGuardsTools
<1>1. RunInit => BudgetGuardsTools
  BY ExecutorAssumption DEF RunInit, BudgetGuardsTools
<1>2. ASSUME RunTypeOK, LoopInv, LoopInv', BudgetGuardsTools, [RunNext]_runVars
      PROVE  BudgetGuardsTools'
  <2>1. CASE UNCHANGED <<phase, tokensUsed, terminatedBy>>
    BY <1>2, <2>1 DEF BudgetGuardsTools
  <2>2. CASE phase \in {"chat", "tools"} /\ tokensUsed' = tokensUsed
    BY <1>2, <2>2 DEF BudgetGuardsTools, LoopInv, ExceedsBudget
  <2>3. CASE Start
    BY <1>2, <2>3, ExecutorAssumption DEF Start, BudgetGuardsTools, LoopInv
  <2>4. ASSUME NEW usage \in 0 .. MaxUsage, Responds(usage),
               ExceedsBudget(tokensUsed + usage) => Terminate("budget_exceeded")
        PROVE  BudgetGuardsTools'
    BY <2>4 DEF Responds, ExceedsBudget, Terminate, BudgetGuardsTools
  <2>5. CASE ChatStep
    BY <2>2, <2>4, <2>5
       DEF ChatStep, ChatFails, OverBudget, OverBudgetRecorded, GivesAnswer,
           AsksForTools, Responds
  <2>6. CASE ToolStep
    BY <2>2, <2>6 DEF ToolStep, DetectLoop, ToolFails, ToolTimesOut,
                      ToolSucceedsLast, ToolSucceeds, AfterTool, Remembered,
         HandlesCall
  <2>7. CASE Cancel \/ UNCHANGED runVars
    BY <2>1, <2>7 DEF Cancel, runVars
  <2> QED
    BY <1>2, <2>3, <2>5, <2>6, <2>7 DEF RunNext
<1> QED
  BY <1>1, <1>2, LoopInvHolds, PTL DEF RunSpec

\* No two steps in a row execute the same call, within a response or across
\* two: the loop compares each call with the last one it executed.
THEOREM CallsDoNotRepeat == RunSpec => []NoRepeatedCall
<1>1. RunInit => NoRepeatedCall
  BY DEF RunInit, NoRepeatedCall, StepsTaken
<1>2. ASSUME RunTypeOK, LoopInv, NoRepeatedCall, [RunNext]_runVars
      PROVE  NoRepeatedCall'
  <2>1. CASE steps' = steps
    BY <1>2, <2>1 DEF NoRepeatedCall, StepsTaken
  <2>2. ASSUME NEW call \in ToolCalls, NEW step \in Step, step.call = call,
               HandlesCall(call), steps' = Append(steps, step)
        PROVE  NoRepeatedCall'
    <3>1. steps \in Seq(Step) /\ Len(steps) \in Nat
      BY <1>2 DEF RunTypeOK
    <3>2. /\ Len(steps') = Len(steps) + 1
          /\ steps'[Len(steps) + 1] = step
          /\ \A i \in 1 .. Len(steps) : steps'[i] = steps[i]
      BY <2>2, <3>1
    <3>3. ASSUME Len(steps) # 0 PROVE steps[Len(steps)].call # call
      <4>1. steps # <<>>
        BY <3>3
      <4>2. lastCall = steps[Len(steps)].call
        BY <1>2, <2>2, <4>1 DEF LoopInv, LastExecuted, HandlesCall
      <4>3. steps[Len(steps)] \in Step
        BY <3>1, <3>3, ElementOfSeq
      <4>4. lastCall \in ToolCalls /\ lastCall # NoCall
        BY <4>2, <4>3, ExecutorAssumption DEF Step
      <4> QED
        BY <2>2, <4>2, <4>4 DEF HandlesCall, Repeats
    <3>4. ASSUME NEW i \in 1 .. Len(steps') - 1
          PROVE  steps'[i].call # steps'[i + 1].call
      <4>1. CASE i = Len(steps)
        BY <2>2, <3>1, <3>2, <3>3, <3>4, <4>1
      <4>2. CASE i # Len(steps)
        <5>1. i \in 1 .. Len(steps) - 1
          BY <3>1, <3>2, <3>4, <4>2
        <5>2. steps[i].call # steps[i + 1].call
          BY <1>2, <5>1 DEF NoRepeatedCall, StepsTaken
        <5> QED
          BY <3>1, <3>2, <5>1, <5>2
      <4> QED
        BY <4>1, <4>2
    <3> QED
      BY <3>4 DEF NoRepeatedCall, StepsTaken
  <2>3. CASE \E call \in ToolCalls, timedOut \in BOOLEAN :
               ToolTimesOut(call, timedOut)
    <3>1. PICK call \in ToolCalls, timedOut \in BOOLEAN :
            ToolTimesOut(call, timedOut)
      BY <2>3
    <3>2. [call |-> call, ok |-> FALSE, timedOut |-> timedOut] \in Step
      BY DEF Step
    <3> QED
      BY <2>2, <3>1, <3>2 DEF ToolTimesOut
  <2>4. CASE \E call \in ToolCalls : ToolSucceedsLast(call) \/ ToolSucceeds(call)
    <3>1. PICK call \in ToolCalls : ToolSucceedsLast(call) \/ ToolSucceeds(call)
      BY <2>4
    <3>2. [call |-> call, ok |-> TRUE, timedOut |-> FALSE] \in Step
      BY DEF Step
    <3> QED
      BY <2>2, <3>1, <3>2 DEF ToolSucceedsLast, ToolSucceeds, AfterTool, Remembered
  <2>5. CASE ChatStep
    BY <2>1, <2>5 DEF ChatStep, ChatFails, OverBudget, OverBudgetRecorded,
                      GivesAnswer, AsksForTools
  <2>6. CASE Cancel \/ Start \/ DetectLoop \/ \E call \in ToolCalls : ToolFails(call)
    BY <2>1, <2>6 DEF Cancel, Start, DetectLoop, ToolFails
  <2>7. CASE UNCHANGED runVars
    BY <2>1, <2>7 DEF runVars
  <2> QED
    BY <1>2, <2>3, <2>4, <2>5, <2>6, <2>7 DEF RunNext, ToolStep
<1> QED
  BY <1>1, <1>2, LoopInvHolds, PTL DEF RunSpec

-------------------------------------------------------------------------------
(* The observations. *)

\* The first k observations are those of the first k steps, which succeeded.
Tells(observed, taken, k) ==
  /\ k \in Nat /\ k <= Len(observed) /\ k <= Len(taken)
  /\ \A i \in 1 .. k : /\ observed[i].index = i
                       /\ observed[i].tool = taken[i].call
                       /\ observed[i].reason = "success"

\* Steps but the latest, whose observation is held back.
Before == IF steps = <<>> THEN 0 ELSE Len(steps) - 1

\* The latest step waits for its observation: while the run goes on, and when
\* the provider fails it.
Awaiting ==
  /\ Len(observations) = Before
  /\ Tells(observations, steps, Before)
  /\ pendingStep = LastExecuted
  /\ terminatedBy = "none"

\* A tool failed: every step was observed, the failed call was not.
Abandoned ==
  /\ Len(observations) = Len(steps)
  /\ Tells(observations, steps, Len(steps))
  /\ pendingStep = NoCall
  /\ terminatedBy = "none"

\* The call after k steps ended the run, as a step or without becoming one.
StoppedAt(k) ==
  LET last == observations[k + 1] IN
  /\ Len(steps) \in {k, k + 1}
  /\ Len(observations) = k + 1
  /\ Tells(observations, steps, k)
  /\ last.index = k + 1
  /\ last.tool \in ToolCalls
  /\ Len(steps) = k + 1 => steps[k + 1].call = last.tool
  /\ last.reason = terminatedBy
  /\ pendingStep = NoCall
  /\ terminatedBy \in Reasons \ {"finished"}

\* The budget ended the run: of the latest step only its place is known.
Spent ==
  /\ Len(observations) = Before + 1
  /\ Tells(observations, steps, Before)
  /\ observations[Before + 1].tool = NoCall
  /\ observations[Before + 1].reason = terminatedBy
  /\ pendingStep = LastExecuted
  /\ terminatedBy = "budget_exceeded"

\* The model answered, and the latest step is observed as the one that led to it.
Answered ==
  /\ Len(observations) = Len(steps)
  /\ Tells(observations, steps, Before)
  /\ steps # <<>> => /\ observations[Len(steps)].index = Len(steps)
                     /\ observations[Len(steps)].tool = LastExecuted
  /\ pendingStep = LastExecuted
  /\ terminatedBy = "finished"

\* What has been observed of a run, by the way it went.
ObservedInv ==
  \/ Awaiting
  \/ /\ phase = "done"
     /\ Abandoned \/ (\E k \in Nat : StoppedAt(k)) \/ Spent \/ Answered

\* One more observation, or one more step, changes nothing about the others.
LEMMA AppendTells ==
  ASSUME NEW observed \in Seq(Observations), NEW taken \in Seq(Step), NEW k,
         Tells(observed, taken, k), NEW o, NEW step
  PROVE  /\ Tells(Append(observed, o), taken, k)
         /\ Tells(observed, Append(taken, step), k)
         /\ Tells(Append(observed, o), Append(taken, step), k)
BY DEF Tells

LEMMA AppendLast ==
  ASSUME NEW S, NEW s \in Seq(S), NEW x, NEW n, n = Len(s)
  PROVE  /\ Len(Append(s, x)) = n + 1
         /\ Append(s, x)[n + 1] = x
BY AppendProperties

\* The state before a step of the loop: where the last step and its call are.
LEMMA StateOfLoop ==
  ASSUME RunTypeOK
  PROVE  /\ Len(steps) \in Nat /\ Before \in Nat /\ StepsTaken = Len(steps)
         /\ steps = <<>> <=> Len(steps) = 0
         /\ steps = <<>> => LastExecuted = NoCall /\ Before = 0
         /\ steps # <<>> => /\ LastExecuted = steps[Len(steps)].call
                            /\ LastExecuted \in ToolCalls
                            /\ LastExecuted # NoCall
                            /\ Before = Len(steps) - 1
<1>1. steps \in Seq(Step) /\ Len(steps) \in Nat /\ (steps = <<>> <=> Len(steps) = 0)
  BY DEF RunTypeOK
<1>2. ASSUME steps # <<>> PROVE steps[Len(steps)] \in Step
  BY <1>1, <1>2, ElementOfSeq
<1> QED
  BY <1>1, <1>2, ExecutorAssumption DEF Before, LastExecuted, StepsTaken, Step

\* Flushing the pending step makes the observations whole.
LEMMA PendingTold ==
  ASSUME RunTypeOK, Awaiting, NEW reason \in Reasons \cup {"success"}
  PROVE  /\ WithPending(reason) \in Seq(Observations)
         /\ Len(WithPending(reason)) = Len(steps)
         /\ Tells(WithPending(reason), steps, Before)
         /\ steps # <<>> => WithPending(reason)[Len(steps)]
              = Observation(Len(steps), LastExecuted, reason, "none")
         /\ reason = "success" => Tells(WithPending(reason), steps, Len(steps))
<1>1. WithPending(reason) \in Seq(Observations)
  BY PendingTyped
<1>2. CASE steps = <<>>
  <2>1. WithPending(reason) = observations
    BY <1>2, StateOfLoop DEF Awaiting, WithPending
  <2> QED
    BY <1>1, <1>2, <2>1, StateOfLoop DEF Awaiting
<1>3. CASE steps # <<>>
  <2> DEFINE o == Observation(Len(steps), LastExecuted, reason, "none")
  <2>1. WithPending(reason) = Append(observations, o)
    BY <1>3, StateOfLoop DEF Awaiting, WithPending
  <2>2. observations \in Seq(Observations) /\ steps \in Seq(Step)
    BY DEF RunTypeOK
  <2>3. Tells(Append(observations, o), steps, Before)
    BY <2>2, AppendTells DEF Awaiting
  <2>4. Len(Append(observations, o)) = Len(steps)
        /\ Append(observations, o)[Len(steps)] = o
    BY <1>3, <2>2, StateOfLoop, AppendLast DEF Awaiting
  <2>5. ASSUME reason = "success"
        PROVE  Tells(Append(observations, o), steps, Len(steps))
    <3>1. o.index = Len(steps) /\ o.tool = steps[Len(steps)].call /\ o.reason = "success"
      BY <1>3, <2>5, StateOfLoop DEF Observation
    <3>2. Len(steps) \in Nat /\ Before = Len(steps) - 1
      BY <1>3, StateOfLoop
    <3> HIDE DEF o
    <3> QED
      BY <2>3, <2>4, <3>1, <3>2 DEF Tells
  <2> QED
    BY <1>1, <2>1, <2>3, <2>4, <2>5
<1> QED
  BY <1>2, <1>3

\* A call that ends the run is told last, whether it became a step or not.
LEMMA StopTold ==
  ASSUME RunTypeOK, Awaiting, NEW tool \in ToolCalls, NEW reason \in Reasons \ {"finished"},
         NEW failure, NEW step \in Step, step.call = tool,
         steps' \in {steps, Append(steps, step)},
         phase' = "done", terminatedBy' = reason, pendingStep' = NoCall,
         observations' = Append(WithPending("success"),
                                Observation(StepsTaken + 1, tool, reason, failure))
  PROVE  ObservedInv'
<1> DEFINE o == Observation(StepsTaken + 1, tool, reason, failure)
           s == WithPending("success")
<1>0. PICK n \in Nat : n = Len(steps)
  BY StateOfLoop
<1>1. n \in Nat /\ n = Len(steps) /\ StepsTaken = n /\ steps \in Seq(Step)
  BY <1>0, StateOfLoop DEF RunTypeOK
<1>2. s \in Seq(Observations) /\ Len(s) = n /\ Tells(s, steps, n)
  BY <1>1, PendingTold
<1>3. o.index = n + 1 /\ o.tool = tool /\ o.reason = reason
  BY <1>1 DEF Observation
<1> HIDE DEF o, s
<1>4. Len(Append(s, o)) = n + 1 /\ Append(s, o)[n + 1] = o
  BY <1>1, <1>2, AppendLast
<1>5. Len(Append(steps, step)) = n + 1 /\ Append(steps, step)[n + 1] = step
  BY <1>1, AppendLast
<1>6. Tells(Append(s, o), steps, n) /\ Tells(Append(s, o), Append(steps, step), n)
  BY <1>1, <1>2, AppendTells
<1>7. observations' = Append(s, o)
  BY DEF s, o
<1>8. Len(steps') \in {n, n + 1} /\ (Len(steps') = n + 1 => steps'[n + 1].call = tool)
  BY <1>1, <1>5
<1>9. Tells(observations', steps', n)
  BY <1>6, <1>7
<1>10. StoppedAt(n)'
  BY <1>1, <1>3, <1>4, <1>7, <1>8, <1>9 DEF StoppedAt
<1>11. phase' = "done"
  OBVIOUS
<1> QED
  BY <1>1, <1>10, <1>11 DEF ObservedInv

\* Nothing of what was observed, or of what it is about, has changed.
LEMMA StillAwaiting ==
  ASSUME Awaiting, UNCHANGED <<observations, steps, pendingStep, terminatedBy>>
  PROVE  ObservedInv'
BY DEF Awaiting, Before, LastExecuted, ObservedInv

LEMMA ObservedStep ==
  ASSUME RunTypeOK, ObservedInv, [RunNext]_runVars PROVE ObservedInv'
<1>1. CASE UNCHANGED runVars
  BY <1>1 DEF runVars, ObservedInv, Awaiting, Abandoned, StoppedAt, Spent, Answered,
              Before, LastExecuted
<1> SUFFICES ASSUME RunNext PROVE ObservedInv'
  BY <1>1
<1>2. phase # "done"
  BY DEF RunNext, Cancel, Start, ChatStep, ChatFails, OverBudget, GivesAnswer, AsksForTools,
         Responds, ToolStep, DetectLoop, ToolFails, ToolTimesOut, ToolSucceedsLast,
         ToolSucceeds, HandlesCall
<1>3. Awaiting
  BY <1>2 DEF ObservedInv
<1>4. CASE Cancel \/ Start \/ ChatFails
  BY <1>3, <1>4, StillAwaiting DEF Cancel, Start, ChatFails, Fail
<1>5. ASSUME NEW usage \in 0 .. MaxUsage, NEW calls \in Batches,
             AsksForTools(usage, calls)
      PROVE  ObservedInv'
  BY <1>3, <1>5, StillAwaiting DEF AsksForTools, Fail
<1>6. ASSUME NEW usage \in 0 .. MaxUsage, OverBudget(usage) PROVE ObservedInv'
  <2> DEFINE o == Observation(StepsTaken, NoCall, "budget_exceeded", "budget_exceeded")
  <2>1. /\ phase' = "done" /\ terminatedBy' = "budget_exceeded"
        /\ observations' = Append(observations, o)
        /\ UNCHANGED <<steps, pendingStep>>
    BY <1>6 DEF OverBudget, OverBudgetRecorded, Terminate
  <2>2. o.tool = NoCall /\ o.reason = "budget_exceeded"
    BY DEF Observation
  <2> HIDE DEF o
  <2>3. observations \in Seq(Observations) /\ steps \in Seq(Step) /\ Before \in Nat
    BY StateOfLoop DEF RunTypeOK
  <2>4. Len(Append(observations, o)) = Before + 1
        /\ Append(observations, o)[Before + 1] = o
    BY <1>3, <2>3, AppendLast DEF Awaiting
  <2>5. Tells(Append(observations, o), steps, Before)
    BY <1>3, <2>3, AppendTells DEF Awaiting
  <2>6. Before' = Before /\ LastExecuted' = LastExecuted
    BY <2>1 DEF Before, LastExecuted
  <2>7. Spent'
    BY <1>3, <2>1, <2>2, <2>4, <2>5, <2>6 DEF Spent, Awaiting
  <2> QED
    BY <2>1, <2>7 DEF ObservedInv
<1>7. ASSUME NEW usage \in 0 .. MaxUsage, GivesAnswer(usage) PROVE ObservedInv'
  <2>1. /\ phase' = "done" /\ terminatedBy' = "finished"
        /\ observations' = WithPending("finished")
        /\ UNCHANGED <<steps, pendingStep>>
    BY <1>7 DEF GivesAnswer, Terminate
  <2>2. /\ Len(observations') = Len(steps)
        /\ Tells(observations', steps, Before)
        /\ steps # <<>> => observations'[Len(steps)]
             = Observation(Len(steps), LastExecuted, "finished", "none")
    BY <1>3, <2>1, PendingTold DEF Reasons
  <2>3. Before' = Before /\ LastExecuted' = LastExecuted
    BY <2>1 DEF Before, LastExecuted
  <2>4. Answered'
    BY <1>3, <2>1, <2>2, <2>3 DEF Answered, Awaiting, Observation
  <2> QED
    BY <2>1, <2>4 DEF ObservedInv
<1>8. CASE DetectLoop
  <2>1. Head(batch) \in ToolCalls
    BY <1>8 DEF DetectLoop, RunTypeOK
  <2>2. [call |-> Head(batch), ok |-> TRUE, timedOut |-> FALSE] \in Step
    BY <2>1 DEF Step
  <2> QED
    BY <1>3, <1>8, <2>1, <2>2, StopTold DEF DetectLoop, Terminate, Reasons
<1>9. ASSUME NEW call \in ToolCalls, ToolFails(call) PROVE ObservedInv'
  <2>1. /\ phase' = "done" /\ observations' = WithPending("success")
        /\ pendingStep' = NoCall /\ UNCHANGED <<steps, terminatedBy>>
    BY <1>9 DEF ToolFails, Fail
  <2>2. Abandoned'
    BY <1>3, <2>1, PendingTold DEF Abandoned, Awaiting
  <2> QED
    BY <2>1, <2>2 DEF ObservedInv
<1>10. ASSUME NEW call \in ToolCalls, NEW timedOut \in BOOLEAN,
              ToolTimesOut(call, timedOut)
       PROVE  ObservedInv'
  <2>1. [call |-> call, ok |-> FALSE, timedOut |-> timedOut] \in Step
    BY DEF Step
  <2> QED
    BY <1>3, <1>10, <2>1, StopTold DEF ToolTimesOut, Terminate, Reasons
<1>11. ASSUME NEW call \in ToolCalls, ToolSucceedsLast(call) PROVE ObservedInv'
  <2>1. [call |-> call, ok |-> TRUE, timedOut |-> FALSE] \in Step
    BY DEF Step
  <2> QED
    BY <1>3, <1>11, <2>1, StopTold DEF ToolSucceedsLast, Terminate, Reasons
<1>12. ASSUME NEW call \in ToolCalls, ToolSucceeds(call) PROVE ObservedInv'
  <2> DEFINE step == [call |-> call, ok |-> TRUE, timedOut |-> FALSE]
             n == Len(steps)
  <2>1. step \in Step /\ step.call = call
    BY DEF Step
  <2>2. /\ steps' = Append(steps, step) /\ observations' = WithPending("success")
        /\ pendingStep' = call /\ terminatedBy' = terminatedBy
    BY <1>12 DEF ToolSucceeds, Remembered
  <2> HIDE DEF step
  <2>3. steps \in Seq(Step) /\ n \in Nat
    BY StateOfLoop DEF RunTypeOK
  <2>4. Len(steps') = n + 1 /\ steps'[n + 1] = step /\ steps' # <<>>
    BY <2>2, <2>3, <2>1, AppendProperties
  <2>5. Before' = n /\ LastExecuted' = call
    BY <2>1, <2>3, <2>4 DEF Before, LastExecuted
  <2>6. /\ observations' \in Seq(Observations) /\ Len(observations') = n
        /\ Tells(observations', steps, n)
    BY <1>3, <2>2, PendingTold
  <2>7. Tells(observations', steps', n)
    BY <2>2, <2>3, <2>6, AppendTells
  <2>8. Awaiting'
    BY <1>3, <2>2, <2>5, <2>6, <2>7 DEF Awaiting
  <2> QED
    BY <2>8 DEF ObservedInv
<1> QED
  BY <1>4, <1>5, <1>6, <1>7, <1>8, <1>9, <1>10, <1>11, <1>12
     DEF RunNext, ChatStep, ToolStep

\* The observation in place i is of the i-th call, if it is of a call at all;
\* only a run's last word may be of none.
InPlace(i) ==
  \/ /\ observations[i].tool # NoCall
     /\ observations[i].index = i
     /\ i <= Len(steps) => steps[i].call = observations[i].tool
  \/ observations[i].tool = NoCall /\ i = Len(observations)

\* Whatever way the run went, each observation is where its call belongs.
LEMMA ObservedInPlace ==
  ASSUME RunTypeOK, ObservedInv, NEW i \in 1 .. Len(observations)
  PROVE  InPlace(i)
<1>1. /\ steps \in Seq(Step) /\ Len(steps) \in Nat /\ Before \in Nat
      /\ Len(observations) \in Nat
  BY StateOfLoop DEF RunTypeOK
<1>2. ASSUME NEW k, Tells(observations, steps, k), i <= k PROVE InPlace(i)
  <2>1. i \in 1 .. k /\ i \in 1 .. Len(steps) /\ k \in Nat
    BY <1>1, <1>2 DEF Tells
  <2>2. steps[i] \in Step
    BY <1>1, <2>1, ElementOfSeq
  <2> QED
    BY <1>2, <2>1, <2>2, ExecutorAssumption DEF Tells, InPlace, Step
<1>3. CASE Awaiting
  BY <1>1, <1>2, <1>3 DEF Awaiting
<1>4. CASE Abandoned
  BY <1>1, <1>2, <1>4 DEF Abandoned
<1>5. ASSUME NEW k \in Nat, StoppedAt(k) PROVE InPlace(i)
  <2>1. CASE i <= k
    BY <1>2, <1>5, <2>1 DEF StoppedAt
  <2>2. CASE i = k + 1
    <3>1. observations[i].tool \in ToolCalls /\ observations[i].index = i
          /\ (Len(steps) = i => steps[i].call = observations[i].tool)
          /\ Len(steps) \in {k, i}
      BY <1>5, <2>2 DEF StoppedAt
    <3> QED
      BY <1>5, <2>2, <3>1, ExecutorAssumption DEF InPlace
  <2> QED
    BY <1>1, <1>5, <2>1, <2>2 DEF StoppedAt
<1>6. CASE Spent
  BY <1>1, <1>2, <1>6 DEF Spent, InPlace
<1>7. CASE Answered
  <2>1. CASE steps = <<>>
    BY <1>1, <1>7, <2>1, StateOfLoop DEF Answered
  <2>2. CASE steps # <<>>
    <3>1. /\ Before = Len(steps) - 1 /\ Len(observations) = Len(steps)
          /\ observations[Len(steps)].index = Len(steps)
          /\ observations[Len(steps)].tool = steps[Len(steps)].call
          /\ observations[Len(steps)].tool # NoCall
      BY <1>7, <2>2, StateOfLoop DEF Answered
    <3>2. CASE i <= Before
      BY <1>2, <1>7, <3>2 DEF Answered
    <3>3. CASE i = Len(steps)
      BY <3>1, <3>3 DEF InPlace
    <3> QED
      BY <1>1, <3>1, <3>2, <3>3
  <2> QED
    BY <2>1, <2>2
<1> QED
  BY <1>3, <1>4, <1>5, <1>6, <1>7 DEF ObservedInv

\* How far the observations go, and what comes last.
LEMMA ObservedAsFar ==
  ASSUME RunTypeOK, ObservedInv
  PROVE  /\ \A i \in 1 .. Len(steps) - 1 :
              i \in 1 .. Len(observations) /\ observations[i].tool # NoCall
         /\ pendingStep = NoCall /\ Len(steps) # 0 =>
              /\ Len(steps) \in 1 .. Len(observations)
              /\ observations[Len(steps)].tool # NoCall
         /\ pendingStep # NoCall /\ terminatedBy # "finished"
              /\ Len(steps) \in 1 .. Len(observations) =>
                observations[Len(steps)].tool = NoCall
         /\ LimitsObserved
<1> DEFINE Goal == /\ \A i \in 1 .. Len(steps) - 1 :
                        i \in 1 .. Len(observations) /\ observations[i].tool # NoCall
                   /\ pendingStep = NoCall /\ Len(steps) # 0 =>
                        /\ Len(steps) \in 1 .. Len(observations)
                        /\ observations[Len(steps)].tool # NoCall
                   /\ pendingStep # NoCall /\ terminatedBy # "finished"
                        /\ Len(steps) \in 1 .. Len(observations) =>
                          observations[Len(steps)].tool = NoCall
                   /\ LimitsObserved
<1>1. /\ steps \in Seq(Step) /\ Len(steps) \in Nat /\ Before \in Nat
      /\ Before = IF Len(steps) = 0 THEN 0 ELSE Len(steps) - 1
      /\ Len(observations) \in Nat
      /\ observations = <<>> <=> Len(observations) = 0
  BY StateOfLoop DEF RunTypeOK
<1>2. pendingStep = LastExecuted => (pendingStep = NoCall <=> Len(steps) = 0)
  BY StateOfLoop
<1>3. ASSUME NEW k, Tells(observations, steps, k), NEW i \in 1 .. k
      PROVE  observations[i].tool # NoCall /\ observations[i].reason = "success"
  <2>1. i \in 1 .. Len(steps)
    BY <1>1, <1>3 DEF Tells
  <2>2. steps[i] \in Step
    BY <1>1, <2>1, ElementOfSeq
  <2> QED
    BY <1>3, <2>2, ExecutorAssumption DEF Tells, Step
<1>4. CASE Awaiting
  <2>1. LimitsObserved
    BY <1>4 DEF Awaiting, LimitsObserved, Reasons
  <2> QED
    BY <1>1, <1>2, <1>3, <1>4, <2>1 DEF Awaiting
<1>5. CASE Abandoned
  <2>1. LimitsObserved
    BY <1>5 DEF Abandoned, LimitsObserved, Reasons
  <2> QED
    BY <1>1, <1>3, <1>5, <2>1 DEF Abandoned
<1>6. ASSUME NEW k \in Nat, StoppedAt(k) PROVE Goal
  <2>1. /\ Len(steps) \in {k, k + 1} /\ Len(observations) = k + 1
        /\ pendingStep = NoCall /\ observations[k + 1].tool # NoCall
        /\ observations[k + 1].reason = terminatedBy
        /\ \A i \in 1 .. k : /\ observations[i].tool # NoCall
                             /\ observations[i].reason = "success"
    BY <1>3, <1>6, ExecutorAssumption DEF StoppedAt
  <2>2. LimitsObserved
    BY <1>1, <2>1 DEF LimitsObserved
  <2> QED
    BY <1>1, <2>1, <2>2
<1>7. CASE Spent
  <2>1. /\ Len(observations) = Before + 1 /\ pendingStep = LastExecuted
        /\ observations[Before + 1].tool = NoCall
        /\ observations[Before + 1].reason = terminatedBy
        /\ \A i \in 1 .. Before : /\ observations[i].tool # NoCall
                                  /\ observations[i].reason = "success"
    BY <1>3, <1>7 DEF Spent
  <2>2. LimitsObserved
    BY <1>1, <2>1 DEF LimitsObserved
  <2> QED
    BY <1>1, <1>2, <2>1, <2>2
<1>8. CASE Answered
  <2>1. LimitsObserved
    BY <1>8 DEF Answered, LimitsObserved
  <2> QED
    BY <1>1, <1>2, <1>3, <1>8, <2>1 DEF Answered
<1> QED
  BY <1>4, <1>5, <1>6, <1>7, <1>8 DEF ObservedInv

\* The observations of a run tell of its steps, once each and in order, and of
\* what ended it.
LEMMA ObservedTells ==
  ASSUME RunTypeOK, ObservedInv PROVE ObservationsTell
<1>1. Len(steps) \in Nat /\ Len(observations) \in Nat /\ StepsTaken = Len(steps)
  BY StateOfLoop DEF RunTypeOK
<1>2. ASSUME NEW i \in 1 .. Len(observations) PROVE InPlace(i)
  BY <1>2, ObservedInPlace
<1>3. ASSUME NEW j \in Nat
      PROVE  j \in ObservedSteps <=>
               j \in 1 .. Len(observations) /\ observations[j].tool # NoCall
  BY <1>2, <1>3 DEF ObservedSteps, InPlace
<1>4. ASSUME NEW i \in 1 .. Len(observations), NEW j \in 1 .. Len(observations), i < j
      PROVE  observations[i].index < observations[j].index \/ observations[j].tool = NoCall
  BY <1>1, <1>2, <1>4 DEF InPlace
<1>5. ASSUME NEW i \in 1 .. Len(observations),
             observations[i].tool # NoCall, observations[i].index <= StepsTaken
      PROVE  steps[observations[i].index].call = observations[i].tool
  BY <1>1, <1>2, <1>5 DEF InPlace
<1>6. 1 .. (StepsTaken - 1) \subseteq ObservedSteps
  BY <1>1, <1>3, ObservedAsFar
<1>7. IF pendingStep = NoCall
      THEN StepsTaken \in ObservedSteps \cup {0}
      ELSE StepsTaken \notin ObservedSteps \/ terminatedBy = "finished"
  BY <1>1, <1>3, ObservedAsFar
<1>8. StepsObservedOnce
  BY <1>4, <1>5, <1>6, <1>7 DEF StepsObservedOnce
<1> QED
  BY <1>8, ObservedAsFar DEF ObservationsTell

\* executor.go:144-228: however the observation of a step is put off, no step of
\* a run is observed twice or out of order, every step but possibly the last is
\* observed, and the limit that ended the run is the last that is said of it.
\* The last step may stay unobserved: a pending one is dropped when the run ends
\* in the next provider call.
THEOREM ObservationsAreTrue == RunSpec => []ObservationsTell
<1>1. RunInit => ObservedInv
  <2> SUFFICES ASSUME RunInit PROVE ObservedInv
    OBVIOUS
  <2>1. /\ Before = 0 /\ LastExecuted = NoCall /\ Len(observations) = 0
        /\ Len(steps) = 0 /\ pendingStep = NoCall /\ terminatedBy = "none"
    BY DEF RunInit, Before, LastExecuted
  <2>2. Tells(observations, steps, 0)
    BY <2>1 DEF Tells
  <2> QED
    BY <2>1, <2>2 DEF ObservedInv, Awaiting
<1>2. RunTypeOK /\ ObservedInv /\ [RunNext]_runVars => ObservedInv'
  BY ObservedStep
<1>3. RunTypeOK /\ ObservedInv => ObservationsTell
  BY ObservedTells
<1> QED
  BY <1>1, <1>2, <1>3, ExecutorTypeCorrect, PTL DEF RunSpec
===============================================================================
