---------------------------- MODULE ProviderWrapper ----------------------------
(***************************************************************************)
(* pkg/ai/resilience/provider_wrapper.go around the circuit breaker: Chat  *)
(* and ChatStream run the provider inside breaker.Call, translate what it  *)
(* returned into success or failure for the breaker, and afterwards, with  *)
(* no lock held, record a trace that carries the breaker's state as it is  *)
(* by then.  A caller here is one goroutine with a tracer, a feature and a *)
(* correlation identity, so that every call is traced.                     *)
(***************************************************************************)
EXTENDS CircuitBreaker

VARIABLES
  outcome,   \* per caller: what the call ended with, until it is recorded
  trace      \* per caller: the last trace it recorded

wvars == <<vars, outcome, trace>>

\* What the wrapped provider can return: errors of the first two kinds carry
\* llm.ErrUpstream; "cancelled" is the caller's own ctx, passed on as it is.
UpstreamErrors  == {"upstream", "rate_limit"}
CallerErrors    == {"caller_error", "cancelled"}
Answers         == {"ok", "fallback_model"}
ProviderResults == UpstreamErrors \cup CallerErrors \cup Answers

NoTrace == [failure |-> "none", circuit |-> "none"]

WrapperInit ==
  /\ Init
  /\ outcome = [c \in Callers |-> "none"]
  /\ trace = [c \in Callers |-> NoTrace]

Idle(c) == call[c] = "idle" /\ outcome[c] = "none"

EndsWith(c, result) == outcome' = [outcome EXCEPT ![c] = result]

-------------------------------------------------------------------------------

\* breaker.Call with a context that is already done touches nothing.
ChatCancelled(c) ==
  /\ Idle(c)
  /\ EndsWith(c, "cancelled")
  /\ UNCHANGED <<vars, trace>>

ChatRejected(c) ==
  /\ Idle(c)
  /\ Reject(c)
  /\ EndsWith(c, "circuit_open")
  /\ UNCHANGED trace

Chat(c) ==
  /\ Idle(c)
  /\ Enter(c)
  /\ UNCHANGED <<outcome, trace>>

\* Mutant: every error is an error to the breaker.
CountsAsFailureAllErrors(result) == result \in UpstreamErrors \cup CallerErrors

\* Mutant: a rate limit is not an upstream error.
CountsAsFailureUpstreamOnly(result) == result = "upstream"

\* The closure given to breaker.Call: only an upstream error is an error to
\* the breaker, everything else is reported to it as nil.
CountsAsFailure(result) == result \in UpstreamErrors

ReportToBreaker(c, result) ==
  IF CountsAsFailure(result) THEN Fails(c) ELSE Succeeds(c)

Respond(c, result) ==
  /\ call[c] # "idle"
  /\ ReportToBreaker(c, result)
  /\ EndsWith(c, result)
  /\ UNCHANGED trace

ProviderPanics(c) ==
  /\ Panics(c)
  /\ UNCHANGED <<outcome, trace>>

\* Mutant: an outcome without a class of its own is recorded as it is.
ClassifyRaw(result) ==
  CASE result = "rate_limit" -> "rate_limit"
    [] result \in {"upstream", "circuit_open"} -> "upstream_failure"
    [] OTHER -> result

\* classifyProviderOutcome
Classify(result) ==
  CASE result = "rate_limit" -> "rate_limit"
    [] result \in {"upstream", "circuit_open"} -> "upstream_failure"
    [] result \in CallerErrors -> "caller_error"
    [] OTHER -> "none"

RecordOutcome(c) ==
  /\ outcome[c] # "none"
  /\ trace' = [trace EXCEPT ![c] = [failure |-> Classify(outcome[c]),
                                    circuit |-> state]]
  /\ EndsWith(c, "none")
  /\ UNCHANGED vars

\* recordOutcome follows breaker.Call without waiting for anything: it takes
\* less than a tick.
WrapperTick ==
  /\ \A c \in Callers : outcome[c] = "none"
  /\ Tick
  /\ UNCHANGED <<outcome, trace>>

WrapperNext ==
  \/ \E c \in Callers :
       \/ Chat(c)
       \/ ChatRejected(c)
       \/ ChatCancelled(c)
       \/ \E result \in ProviderResults : Respond(c, result)
       \/ ProviderPanics(c)
       \/ RecordOutcome(c)
  \/ WrapperTick

WrapperSpec == WrapperInit /\ [][WrapperNext]_wvars

\* As FairSpec of the breaker; recording is straight-line code.
WrapperFairSpec ==
  /\ WrapperSpec
  /\ WF_wvars(WrapperTick)
  /\ \A c \in Callers :
       /\ WF_wvars(\E result \in ProviderResults : Respond(c, result))
       /\ WF_wvars(RecordOutcome(c))
  /\ WF_wvars(\E c \in Callers : Chat(c))

-------------------------------------------------------------------------------
(* Properties. *)

\* Types of what the wrapper adds to the breaker.
WrapperTypeOK ==
  /\ outcome \in [Callers -> ProviderResults \cup {"none", "circuit_open"}]
  /\ trace \in [Callers ->
       [failure : {"none", "rate_limit", "upstream_failure", "caller_error"},
        circuit : {"none", "closed", "open", "half_open"}]]

Responded(c, results) == outcome[c] = "none" /\ outcome'[c] \in results

\* provider_wrapper.go:160-161: a bad request must not open the circuit for
\* everybody else.  Whatever the interleaving, only a call whose provider
\* failed upstream opens the breaker.
OnlyUpstreamTrips ==
  [][state # "open" /\ state' = "open"
       => \E c \in Callers : Responded(c, UpstreamErrors)]_wvars

\* provider_wrapper.go:215: the trace of a call that failed upstream shows the
\* trip it caused, although the state is read after the lock was given back: with
\* a threshold of 1 (the default) and calls that are over before a recovery
\* window is (Timely), nobody can close the circuit in between.  With calls as
\* long as the defaults allow (60 s, and a window of 30 s) it does not hold: a
\* late failure opens HALF_OPEN again, and a probe that is still running closes
\* the circuit before the state is read.
FailureTraceShowsTrip ==
  [][\A c \in Callers :
       outcome[c] \in UpstreamErrors /\ outcome'[c] = "none"
         => trace'[c].circuit = "open"]_wvars

\* If the provider does nothing but fail upstream from some point on, traffic
\* makes the breaker leave CLOSED, however calls overlap.
OutageTrips ==
  <>[][\A c \in Callers : /\ ~Responded(c, ProviderResults \ UpstreamErrors)
                         /\ ~ProviderPanics(c)]_wvars
    => []<>(state # "closed")

\* circuit_breaker.go:28: HALF_OPEN becomes CLOSED because probes succeeded,
\* so the call that closes it got an answer from the provider.
ClosedByAnAnswer ==
  [][state = "half_open" /\ state' = "closed"
       => \E c \in Callers : Responded(c, Answers)]_wvars
===============================================================================
