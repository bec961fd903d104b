----------------------------- MODULE MCAgentCalls -----------------------------
(* Small instances of what one request goes through: the agent loop, the      *)
(* OpenAI adapter behind the wrapper and its breaker, and the reader of a     *)
(* stream.  They share no variable: `part` says which of them moves, the      *)
(* others rest in an initial state.                                           *)
EXTENDS MCNativeExecutor, MCStreamReader, MCOpenAIAdapter

VARIABLE part

AgentInit ==
  /\ part \in {"loop", "adapter", "stream"}
  /\ RunInit
  /\ AdapterInit
  /\ ReaderInit

\* Not deadlocks: a run ends, and so does a stream when the consumer has what
\* there was and its context is done.
RunEnded    == phase = "done" /\ UNCHANGED runVars
StreamEnded == Drained /\ ctx # "live" /\ UNCHANGED readerVars

Loop    == part = "loop" /\ UNCHANGED <<adapterVars, readerVars, part>>
Adapter == part = "adapter" /\ UNCHANGED <<runVars, readerVars, part>>
Stream  == part = "stream" /\ UNCHANGED <<runVars, adapterVars, part>>

AgentNext ==
  \/ (RunNext \/ RunEnded) /\ Loop
  \/ AdapterNext /\ Adapter
  \/ (ReaderNext \/ StreamEnded) /\ Stream

agentVars == <<runVars, adapterVars, readerVars, part>>

\* RunFairness, ReaderFairness and AdapterFairness, of the part that moves.
\* Because `part` never changes, a condition may speak of one step of each.
Moves(loopStep, streamStep, adapterStep) ==
  CASE part = "loop"    -> loopStep /\ Loop
    [] part = "stream"  -> streamStep /\ Stream
    [] part = "adapter" -> adapterStep /\ Adapter

AgentSpec ==
  /\ AgentInit
  /\ [][AgentNext]_agentVars
  /\ WF_agentVars(Moves(Start, Read, WrapperTick /\ UNCHANGED exchange))
  /\ WF_agentVars(Moves(ChatStep, Send,
                        \E c \in Callers : Chat(c) /\ UNCHANGED exchange))
  /\ WF_agentVars(Moves(ToolStep, GiveUp, FALSE))
  /\ \A c \in Callers :
       /\ WF_agentVars(Moves(FALSE, FALSE, ProviderResponds(c)))
       /\ WF_agentVars(Moves(FALSE, FALSE, AdapterRecordsOutcome(c)))

-------------------------------------------------------------------------------
(* What each part promises of its end, where it moves. *)

\* Every run of the loop ends, however the model goes on asking for tools.
LoopTerminates == part = "loop" => Terminates

\* A provider that does nothing but fail upstream opens the circuit.
OutageOpens == part = "adapter" => OutageTrips

\* A consumer that goes on reading comes to the end of the stream.
StreamDrains == part = "stream" => StreamEnds
===============================================================================
