-------------------------- MODULE OpenAIAdapterProofs --------------------------
(***************************************************************************)
(* Proofs about OpenAIAdapter and the ProviderWrapper it extends: for any  *)
(* callers and any configuration of the breaker.  What the breaker's own   *)
(* proofs show holds behind the adapter, because the adapter implements it.*)
(***************************************************************************)
EXTENDS OpenAIAdapter, CircuitBreakerProofs

\* While a call is inside fn nothing of it is waiting to be recorded, and what
\* an exchange led to goes with the outcome.
Unrecorded ==
  /\ \A c \in Callers : call[c] # "idle" => outcome[c] = "none"
  /\ \A c \in Callers : outcome[c] = "none" => exchange[c] = NoExchange

AnswersUnderstood ==
  \A c \in Callers : outcome[c] \in Answers => exchange[c] \in Understood

AdapterInv ==
  /\ WrapperTypeOK
  /\ exchange \in [Callers -> Exchanges \cup {Foreign(result) : result \in ProviderResults}
                                \cup {NoExchange}]
  /\ Unrecorded
  /\ AnswersUnderstood

-------------------------------------------------------------------------------
(* Exchanges and their results. *)

LEMMA FreshParts ==
  /\ Fresh = [valid |-> TRUE, context |-> "live", sent |-> "responded",
              status |-> "2xx", body |-> "answer"]
  /\ DOMAIN Fresh = {"valid", "context", "sent", "status", "body"}
BY DEF Fresh

\* What an exchange is in each of the ways it can go.
LEMMA ExchangeCases ==
  ASSUME NEW x \in Exchanges
  PROVE  \/ ~x.valid
         \/ /\ x.valid /\ x.context # "live" /\ x.context \in Contexts
            /\ x = [Fresh EXCEPT !.context = x.context]
         \/ /\ x.valid /\ x.context = "live" /\ x.sent # "responded" /\ x.sent \in Sendings
            /\ x = [Fresh EXCEPT !.sent = x.sent]
         \/ /\ x.valid /\ x.context = "live" /\ x.sent = "responded" /\ x.status # "2xx"
            /\ x.status \in Statuses
            /\ x = [Fresh EXCEPT !.status = x.status]
         \/ /\ x.valid /\ x.context = "live" /\ x.sent = "responded" /\ x.status = "2xx"
            /\ x.body \in Bodies
            /\ x = [Fresh EXCEPT !.body = x.body]
<1>1. CASE x = [Fresh EXCEPT !.valid = FALSE]
  BY <1>1, FreshParts
<1>2. ASSUME NEW context \in Contexts, x = [Fresh EXCEPT !.context = context]
      PROVE  /\ x.valid /\ x.context = context /\ x.sent = "responded"
             /\ x.status = "2xx" /\ x.body = "answer"
             /\ context = "live" => x = [Fresh EXCEPT !.body = x.body]
  BY <1>2 DEF Fresh
<1>3. ASSUME NEW sent \in Sendings, x = [Fresh EXCEPT !.sent = sent]
      PROVE  /\ x.valid /\ x.context = "live" /\ x.sent = sent
             /\ x.status = "2xx" /\ x.body = "answer"
             /\ sent = "responded" => x = [Fresh EXCEPT !.body = x.body]
  BY <1>3 DEF Fresh
<1>4. ASSUME NEW status \in Statuses, x = [Fresh EXCEPT !.status = status]
      PROVE  /\ x.valid /\ x.context = "live" /\ x.sent = "responded"
             /\ x.status = status /\ x.body = "answer"
             /\ status = "2xx" => x = [Fresh EXCEPT !.body = x.body]
  BY <1>4 DEF Fresh
<1>5. ASSUME NEW body \in Bodies, x = [Fresh EXCEPT !.body = body]
      PROVE  /\ x.valid /\ x.context = "live" /\ x.sent = "responded"
             /\ x.status = "2xx" /\ x.body = body
  BY <1>5 DEF Fresh
<1>6. \/ x = [Fresh EXCEPT !.valid = FALSE]
      \/ \E context \in Contexts : x = [Fresh EXCEPT !.context = context]
      \/ \E sent \in Sendings : x = [Fresh EXCEPT !.sent = sent]
      \/ \E status \in Statuses : x = [Fresh EXCEPT !.status = status]
      \/ \E body \in Bodies : x = [Fresh EXCEPT !.body = body]
  BY DEF Exchanges
<1>7. "answer" \in Bodies
  BY DEF Bodies
<1>8. CASE \E context \in Contexts : x = [Fresh EXCEPT !.context = context]
  BY <1>2, <1>7, <1>8
<1>9. CASE \E sent \in Sendings : x = [Fresh EXCEPT !.sent = sent]
  BY <1>3, <1>7, <1>9
<1>10. CASE \E status \in Statuses : x = [Fresh EXCEPT !.status = status]
  BY <1>4, <1>7, <1>10
<1>11. CASE \E body \in Bodies : x = [Fresh EXCEPT !.body = body]
  BY <1>5, <1>11
<1> QED
  BY <1>1, <1>6, <1>8, <1>9, <1>10, <1>11

\* The adapter reports an upstream error for a fault of the server, and only
\* for that; it reports an answer only if it understood one.
LEMMA ChatResults ==
  ASSUME NEW x \in Exchanges
  PROVE  /\ ChatResult(x) \in ProviderResults
         /\ ChatResult(x) \in UpstreamErrors => x \in ServerFaults
         /\ ChatResult(x) \in Answers => x \in Understood
<1> USE DEF ProviderResults, UpstreamErrors, CallerErrors, Answers
<1>1. CASE ~x.valid
  <2>1. ChatResult(x) = "caller_error"
    BY <1>1 DEF ChatResult
  <2> QED
    BY <2>1
<1>2. CASE /\ x.valid /\ x.context # "live" /\ x.context \in Contexts
           /\ x = [Fresh EXCEPT !.context = x.context]
  <2>1. ChatResult(x) = ContextError(x.context)
    BY <1>2 DEF ChatResult
  <2>2. x.context = "expired" => x \in ServerFaults
    BY <1>2 DEF ServerFaults
  <2> QED
    BY <2>1, <2>2 DEF ContextError
<1>3. CASE /\ x.valid /\ x.context = "live" /\ x.sent # "responded" /\ x.sent \in Sendings
           /\ x = [Fresh EXCEPT !.sent = x.sent]
  <2>1. ChatResult(x) = IF x.sent = "broken" THEN "upstream" ELSE ContextError(x.sent)
    BY <1>3 DEF ChatResult
  <2>2. x.sent \in {"broken", "expired"} => x \in ServerFaults
    BY <1>3 DEF ServerFaults
  <2> QED
    BY <2>1, <2>2 DEF ContextError
<1>4. CASE /\ x.valid /\ x.context = "live" /\ x.sent = "responded" /\ x.status # "2xx"
           /\ x.status \in Statuses
           /\ x = [Fresh EXCEPT !.status = x.status]
  <2>1. ChatResult(x) = IF RetryableStatus(x.status) THEN "upstream" ELSE "caller_error"
    BY <1>4 DEF ChatResult
  <2>2. x.status \in {"429", "5xx"} => x \in ServerFaults
    BY <1>4 DEF ServerFaults
  <2> QED
    BY <2>1, <2>2 DEF RetryableStatus
<1>5. CASE /\ x.valid /\ x.context = "live" /\ x.sent = "responded" /\ x.status = "2xx"
           /\ x.body \in Bodies
           /\ x = [Fresh EXCEPT !.body = x.body]
  <2>1. ChatResult(x) = BodyResult(x.body)
    BY <1>5 DEF ChatResult
  <2>2. x.body \in {"answer", "other_model", "no_choices", "streamed"} => x \in Understood
    BY <1>5 DEF Understood
  <2>3. CASE x.body \in {"bad_arguments", "garbled"} \cup Unfinished
    <3>1. BodyResult(x.body) = "caller_error"
      BY <2>3 DEF BodyResult, Unfinished
    <3> QED
      BY <2>1, <3>1
  <2>4. CASE x.body \notin {"bad_arguments", "garbled"} \cup Unfinished
    <3>1. BodyResult(x.body) = IF x.body = "other_model" THEN "fallback_model" ELSE "ok"
      BY <2>4 DEF BodyResult, Unfinished
    <3>2. x.body \in {"answer", "other_model", "no_choices", "streamed"}
      BY <1>5, <2>4 DEF Bodies, Unfinished
    <3> QED
      BY <2>1, <2>2, <3>1, <3>2
  <2> QED
    BY <2>3, <2>4
<1> QED
  BY <1>1, <1>2, <1>3, <1>4, <1>5, ExchangeCases

\* ... and reports every fault of the server as one.
LEMMA ServerFaultsReported ==
  ASSUME NEW x \in ServerFaults
  PROVE  ChatResult(x) \in UpstreamErrors
<1>1. \/ /\ x.valid /\ x.context = "live" /\ x.sent = "responded"
         /\ x.status \in {"429", "5xx"}
      \/ x.valid /\ x.context = "live" /\ x.sent \in {"broken", "expired"}
      \/ x.valid /\ x.context = "expired"
  BY DEF ServerFaults, Fresh
<1>2. CASE /\ x.valid /\ x.context = "live" /\ x.sent = "responded"
           /\ x.status \in {"429", "5xx"}
  <2>1. ChatResult(x) = IF RetryableStatus(x.status) THEN "upstream" ELSE "caller_error"
    BY <1>2 DEF ChatResult
  <2> QED
    BY <1>2, <2>1 DEF RetryableStatus, UpstreamErrors
<1>3. CASE x.valid /\ x.context = "live" /\ x.sent \in {"broken", "expired"}
  <2>1. ChatResult(x) = IF x.sent = "broken" THEN "upstream" ELSE ContextError(x.sent)
    BY <1>3 DEF ChatResult
  <2> QED
    BY <1>3, <2>1 DEF ContextError, UpstreamErrors
<1>4. CASE x.valid /\ x.context = "expired"
  <2>1. ChatResult(x) = ContextError(x.context)
    BY <1>4 DEF ChatResult
  <2> QED
    BY <1>4, <2>1 DEF ContextError, UpstreamErrors
<1> QED
  BY <1>1, <1>2, <1>3, <1>4

\* Foreign providers, and no provider at all, are not taken for exchanges.
LEMMA ForeignIsNoFault ==
  /\ \A result : Foreign(result) \notin ServerFaults
  /\ NoExchange \notin ServerFaults
<1>1. \A x \in ServerFaults : "valid" \in DOMAIN x
  BY DEF ServerFaults, Fresh
<1>2. /\ \A result : DOMAIN Foreign(result) = {"foreign"}
      /\ DOMAIN NoExchange = {"foreign"}
  BY DEF Foreign, NoExchange
<1>3. "valid" \notin {"foreign"}
  OBVIOUS
<1> QED
  BY <1>1, <1>2, <1>3

-------------------------------------------------------------------------------
(* The adapter implements the breaker. *)

\* What a step of the adapter is to the wrapper and to the breaker.
LEMMA AdapterSteps ==
  ASSUME [AdapterNext]_adapterVars
  PROVE  \/ UNCHANGED adapterVars
         \/ \E c \in Callers : Chat(c) /\ UNCHANGED exchange
         \/ \E c \in Callers : (ChatRejected(c) \/ ChatCancelled(c)) /\ UNCHANGED exchange
         \/ \E c \in Callers : ProviderPanics(c) /\ UNCHANGED exchange
         \/ \E c \in Callers : \E x \in Exchanges : AdapterResponds(c, x)
         \/ \E c \in Callers : \E result \in ProviderResults : ForeignResponds(c, result)
         \/ \E c \in Callers : AdapterRecordsOutcome(c)
         \/ WrapperTick /\ UNCHANGED exchange
BY DEF AdapterNext, WithoutExchange, ProviderResponds

LEMMA RespondIsLeave ==
  ASSUME NEW c \in Callers, NEW result, Respond(c, result)
  PROVE  /\ call[c] # "idle" /\ call' = [call EXCEPT ![c] = "idle"]
         /\ IF CountsAsFailure(result) THEN Fails(c) ELSE Succeeds(c)
         /\ outcome' = [outcome EXCEPT ![c] = result] /\ trace' = trace
BY DEF Respond, ReportToBreaker, EndsWith, Succeeds, PlainSucceeds, ProbeSucceeds, Fails,
       PlainFails, ProbeFails, Returned, Successes, SlotsAfterProbe

LEMMA AdapterStepIsBreakerStep ==
  ASSUME [AdapterNext]_adapterVars
  PROVE  [Next]_vars
<1>1. CASE UNCHANGED adapterVars
  BY <1>1 DEF adapterVars, wvars
<1>2. ASSUME NEW c \in Callers, Chat(c) PROVE Next
  BY <1>2 DEF Chat, Next
<1>3. ASSUME NEW c \in Callers, ChatRejected(c) \/ ChatCancelled(c) PROVE UNCHANGED vars
  BY <1>3 DEF ChatRejected, ChatCancelled, Reject
<1>4. ASSUME NEW c \in Callers, ProviderPanics(c) PROVE Next
  BY <1>4 DEF ProviderPanics, Next, Leave
<1>5. ASSUME NEW c \in Callers, NEW result, Respond(c, result) PROVE Next
  BY <1>5, RespondIsLeave DEF Next, Leave
<1>6. ASSUME NEW c \in Callers, RecordOutcome(c) PROVE UNCHANGED vars
  BY <1>6 DEF RecordOutcome
<1>7. CASE WrapperTick
  BY <1>7 DEF WrapperTick, Next
<1> QED
  BY <1>1, <1>2, <1>3, <1>4, <1>5, <1>6, <1>7, AdapterSteps
     DEF AdapterResponds, ForeignResponds, AdapterRecordsOutcome

\* Everything proved of the breaker holds of a breaker behind the adapter and
\* the wrapper: they only choose when to call and what to report.
THEOREM AdapterImplementsBreaker == AdapterSpec => Spec
<1>1. AdapterInit => Init
  BY DEF AdapterInit, WrapperInit
<1>2. [AdapterNext]_adapterVars => [Next]_vars
  BY AdapterStepIsBreakerStep
<1> QED
  BY <1>1, <1>2, PTL DEF AdapterSpec, Spec

-------------------------------------------------------------------------------
(* The invariant of the adapter. *)

LEMMA ClassifyTypes ==
  ASSUME NEW result \in ProviderResults \cup {"circuit_open"}
  PROVE  /\ Classify(result) \in {"none", "rate_limit", "upstream_failure", "caller_error"}
         /\ Classify(result) = "none" => result \in Answers
BY DEF Classify, ProviderResults, UpstreamErrors, CallerErrors, Answers

LEMMA AdapterInitially ==
  ASSUME AdapterInit
  PROVE  AdapterInv
BY DEF AdapterInit, WrapperInit, Init, AdapterInv, WrapperTypeOK, NoTrace, Unrecorded,
       AnswersUnderstood, Answers

\* A call that ends is put down with what it ended with, and nothing else is.
LEMMA RespondKeeps ==
  ASSUME TypeOK, AdapterInv, NEW c \in Callers, NEW result \in ProviderResults, NEW x,
         Respond(c, result), exchange' = [exchange EXCEPT ![c] = x],
         x \in Exchanges \cup {Foreign(r) : r \in ProviderResults},
         result \in Answers => x \in Understood
  PROVE  AdapterInv'
<1>1. /\ call' = [call EXCEPT ![c] = "idle"]
      /\ outcome' = [outcome EXCEPT ![c] = result] /\ trace' = trace
  BY RespondIsLeave
<1>2. /\ WrapperTypeOK /\ Unrecorded /\ AnswersUnderstood
      /\ exchange \in [Callers -> Exchanges \cup {Foreign(r) : r \in ProviderResults}
                                    \cup {NoExchange}]
  BY DEF AdapterInv
<1>3. WrapperTypeOK'
  BY <1>1, <1>2 DEF WrapperTypeOK
<1>4. exchange' \in [Callers -> Exchanges \cup {Foreign(r) : r \in ProviderResults}
                                  \cup {NoExchange}]
  BY <1>2
<1>5. outcome'[c] = result /\ exchange'[c] = x /\ result # "none"
  BY <1>1, <1>2 DEF WrapperTypeOK, ProviderResults, UpstreamErrors, CallerErrors, Answers
<1>6. \A d \in Callers : d # c =>
        outcome'[d] = outcome[d] /\ exchange'[d] = exchange[d] /\ call'[d] = call[d]
  BY <1>1, <1>2 DEF WrapperTypeOK
<1>7. call'[c] = "idle"
  BY <1>1 DEF TypeOK
<1>8. Unrecorded'
  BY <1>2, <1>5, <1>6, <1>7 DEF Unrecorded
<1>9. AnswersUnderstood'
  BY <1>2, <1>5, <1>6 DEF AnswersUnderstood
<1> QED
  BY <1>3, <1>4, <1>8, <1>9 DEF AdapterInv

LEMMA AdapterStep ==
  ASSUME TypeOK, AdapterInv, [AdapterNext]_adapterVars
  PROVE  AdapterInv'
<1>1. /\ WrapperTypeOK /\ Unrecorded /\ AnswersUnderstood
      /\ exchange \in [Callers -> Exchanges \cup {Foreign(r) : r \in ProviderResults}
                                    \cup {NoExchange}]
  BY DEF AdapterInv
<1>2. CASE UNCHANGED <<outcome, trace, exchange>> /\ \A c \in Callers :
             call'[c] = call[c] \/ outcome[c] = "none"
  BY <1>1, <1>2 DEF AdapterInv, WrapperTypeOK, Unrecorded, AnswersUnderstood
<1>3. CASE UNCHANGED adapterVars
  BY <1>2, <1>3 DEF adapterVars, wvars, vars
<1>4. ASSUME NEW c \in Callers, Chat(c), UNCHANGED exchange PROVE AdapterInv'
  <2>1. outcome[c] = "none" /\ UNCHANGED <<outcome, trace>>
    BY <1>4 DEF Chat, Idle
  <2>2. \E kind : call' = [call EXCEPT ![c] = kind]
    BY <1>4 DEF Chat, Enter, AdmitClosed, AdmitFirstProbe, AdmitProbe, Admitted
  <2> QED
    BY <1>2, <1>4, <2>1, <2>2
<1>5. ASSUME NEW c \in Callers, ChatRejected(c) \/ ChatCancelled(c), UNCHANGED exchange
      PROVE  AdapterInv'
  <2>1. /\ call[c] = "idle" /\ outcome[c] = "none" /\ UNCHANGED <<call, trace>>
        /\ \/ outcome' = [outcome EXCEPT ![c] = "circuit_open"]
           \/ outcome' = [outcome EXCEPT ![c] = "cancelled"]
    BY <1>5 DEF ChatRejected, ChatCancelled, Idle, EndsWith, Reject, vars
  <2>2. /\ {"circuit_open", "cancelled"} \subseteq ProviderResults \cup {"none", "circuit_open"}
        /\ "circuit_open" \notin Answers /\ "cancelled" \notin Answers
    BY DEF ProviderResults, UpstreamErrors, CallerErrors, Answers
  <2>3. WrapperTypeOK'
    BY <1>1, <2>1, <2>2 DEF WrapperTypeOK
  <2>4. Unrecorded'
    BY <1>1, <1>5, <2>1 DEF Unrecorded, WrapperTypeOK
  <2>5. AnswersUnderstood'
    BY <1>1, <1>5, <2>1, <2>2 DEF AnswersUnderstood, WrapperTypeOK
  <2> QED
    BY <1>1, <1>5, <2>3, <2>4, <2>5 DEF AdapterInv
<1>6. ASSUME NEW c \in Callers, ProviderPanics(c), UNCHANGED exchange PROVE AdapterInv'
  <2>1. outcome[c] = "none"
    BY <1>1, <1>6 DEF Unrecorded, ProviderPanics, Panics
  <2>2. call' = [call EXCEPT ![c] = "idle"] /\ UNCHANGED <<outcome, trace>>
    BY <1>6 DEF ProviderPanics, Panics, Returned
  <2> QED
    BY <1>2, <1>6, <2>1, <2>2
<1>7. ASSUME NEW c \in Callers, NEW x \in Exchanges, AdapterResponds(c, x) PROVE AdapterInv'
  BY <1>7, ChatResults, RespondKeeps DEF AdapterResponds
<1>8. ASSUME NEW c \in Callers, NEW result \in ProviderResults, ForeignResponds(c, result)
      PROVE  AdapterInv'
  <2>1. result \in Answers => Foreign(result) \in Understood
    BY DEF Understood
  <2>2. Foreign(result) \in {Foreign(r) : r \in ProviderResults}
    OBVIOUS
  <2> QED
    BY <1>8, <2>1, <2>2, RespondKeeps DEF ForeignResponds
<1>9. ASSUME NEW c \in Callers, AdapterRecordsOutcome(c) PROVE AdapterInv'
  <2>1. /\ outcome[c] # "none"
        /\ trace' = [trace EXCEPT ![c] = [failure |-> Classify(outcome[c]), circuit |-> state]]
        /\ outcome' = [outcome EXCEPT ![c] = "none"]
        /\ exchange' = [exchange EXCEPT ![c] = NoExchange] /\ call' = call
    BY <1>9 DEF AdapterRecordsOutcome, RecordOutcome, EndsWith, vars
  <2>2. outcome[c] \in ProviderResults \cup {"circuit_open"}
    BY <1>1, <2>1 DEF WrapperTypeOK
  <2>3. [failure |-> Classify(outcome[c]), circuit |-> state]
          \in [failure : {"none", "rate_limit", "upstream_failure", "caller_error"},
               circuit : {"none", "closed", "open", "half_open"}]
    BY <2>2, ClassifyTypes DEF TypeOK
  <2>4. WrapperTypeOK'
    BY <1>1, <2>1, <2>3 DEF WrapperTypeOK
  <2>5. exchange' \in [Callers -> Exchanges \cup {Foreign(r) : r \in ProviderResults}
                                    \cup {NoExchange}]
    BY <1>1, <2>1
  <2>6. Unrecorded'
    BY <1>1, <2>1 DEF Unrecorded, WrapperTypeOK
  <2>7. AnswersUnderstood'
    BY <1>1, <2>1 DEF AnswersUnderstood, WrapperTypeOK, Answers
  <2> QED
    BY <2>4, <2>5, <2>6, <2>7 DEF AdapterInv
<1>10. CASE WrapperTick /\ UNCHANGED exchange
  BY <1>2, <1>10 DEF WrapperTick, Tick
<1> QED
  BY <1>3, <1>4, <1>5, <1>6, <1>7, <1>8, <1>9, <1>10, AdapterSteps

LEMMA AdapterAlways == AdapterSpec => [](TypeOK /\ AdapterInv)
<1>1. AdapterInit => AdapterInv
  BY AdapterInitially
<1>2. TypeOK /\ AdapterInv /\ [AdapterNext]_adapterVars => AdapterInv'
  BY AdapterStep
<1> QED
  BY <1>1, <1>2, AdapterImplementsBreaker, TypeCorrect, PTL DEF AdapterSpec

-------------------------------------------------------------------------------
(* Who opens the circuit. *)

\* Only a call that fails upstream turns a breaker that is not open into one
\* that is; the fault is the one that its exchange met with.
LEMMA OpeningStep ==
  ASSUME TypeOK, AdapterInv, [AdapterNext]_adapterVars, state # "open", state' = "open"
  PROVE  \E c \in Callers :
           /\ Responded(c, UpstreamErrors)
           /\ Met(c, UpstreamFailures \cup {Foreign(result) : result \in UpstreamErrors})
<1>1. ASSUME NEW c \in Callers, NEW result \in ProviderResults, NEW x, Respond(c, result),
             exchange' = [exchange EXCEPT ![c] = x],
             result \in UpstreamErrors =>
               x \in ServerFaults \cup {Foreign(r) : r \in UpstreamErrors}
      PROVE  /\ Responded(c, UpstreamErrors)
             /\ Met(c, UpstreamFailures \cup {Foreign(r) : r \in UpstreamErrors})
  <2>1. /\ call[c] # "idle" /\ outcome' = [outcome EXCEPT ![c] = result]
        /\ IF CountsAsFailure(result) THEN Fails(c) ELSE Succeeds(c)
    BY <1>1, RespondIsLeave
  <2>2. outcome[c] = "none" /\ exchange[c] = NoExchange
    BY <2>1 DEF AdapterInv, Unrecorded
  <2>3. ~Succeeds(c)
    BY DEF Succeeds, PlainSucceeds, ProbeSucceeds, ToClosed
  <2>4. result \in UpstreamErrors
    BY <2>1, <2>3 DEF CountsAsFailure
  <2>5. outcome'[c] = result /\ exchange'[c] = x
    BY <1>1, <2>1 DEF AdapterInv, WrapperTypeOK
  <2> QED
    BY <1>1, <2>2, <2>4, <2>5 DEF Responded, Met, UpstreamFailures
<1>2. ASSUME NEW c \in Callers, NEW x \in Exchanges, AdapterResponds(c, x)
      PROVE  /\ Responded(c, UpstreamErrors)
             /\ Met(c, UpstreamFailures \cup {Foreign(r) : r \in UpstreamErrors})
  BY <1>1, <1>2, ChatResults DEF AdapterResponds
<1>3. ASSUME NEW c \in Callers, NEW result \in ProviderResults, ForeignResponds(c, result)
      PROVE  /\ Responded(c, UpstreamErrors)
             /\ Met(c, UpstreamFailures \cup {Foreign(r) : r \in UpstreamErrors})
  BY <1>1, <1>3 DEF ForeignResponds
<1>4. ~ (UNCHANGED adapterVars)
  BY DEF adapterVars, wvars, vars, breakerVars
<1>5. ASSUME NEW c \in Callers PROVE ~Chat(c)
  BY DEF Chat, Enter, AdmitClosed, AdmitFirstProbe, AdmitProbe, ToHalfOpenAndReserve,
         breakerVars
<1>6. ASSUME NEW c \in Callers
      PROVE  ~ChatRejected(c) /\ ~ChatCancelled(c) /\ ~ProviderPanics(c)
  BY DEF ChatRejected, ChatCancelled, Reject, ProviderPanics, Panics, vars, breakerVars
<1>7. ASSUME NEW c \in Callers PROVE ~AdapterRecordsOutcome(c)
  BY DEF AdapterRecordsOutcome, RecordOutcome, vars, breakerVars
<1>8. ~WrapperTick
  BY DEF WrapperTick, Tick
<1> QED
  BY <1>2, <1>3, <1>4, <1>5, <1>6, <1>7, <1>8, AdapterSteps

\* With a threshold of one, a fault of the server opens a closed circuit.
LEMMA FaultStep ==
  ASSUME TypeOK, AdapterInv, [AdapterNext]_adapterVars,
         FailureThreshold = 1, NEW c \in Callers, Met(c, ServerFaults)
  PROVE  state' = "open"
<1>1. exchange[c] = NoExchange /\ exchange'[c] \in ServerFaults
  BY DEF Met
<1>2. exchange'[c] # NoExchange
  BY <1>1, ForeignIsNoFault
<1>3. c \in DOMAIN exchange
  BY DEF AdapterInv
<1>4. ASSUME NEW d \in Callers, NEW x \in Exchanges, AdapterResponds(d, x)
      PROVE  state' = "open"
  <2>1. exchange' = [exchange EXCEPT ![d] = x] /\ Respond(d, ChatResult(x))
    BY <1>4 DEF AdapterResponds
  <2>2. d = c /\ x \in ServerFaults
    BY <1>1, <1>2, <1>3, <2>1
  <2>3. Fails(d)
    BY <2>1, <2>2, RespondIsLeave, ServerFaultsReported DEF CountsAsFailure
  <2>4. Trips
    BY ConfigPositive DEF Trips, TypeOK
  <2> QED
    BY <2>3, <2>4 DEF Fails, PlainFails, ProbeFails, ToOpen
<1>5. ASSUME NEW d \in Callers, NEW result \in ProviderResults, ForeignResponds(d, result)
      PROVE  FALSE
  <2>1. exchange' = [exchange EXCEPT ![d] = Foreign(result)]
    BY <1>5 DEF ForeignResponds
  <2>2. exchange'[c] = Foreign(result) \/ exchange'[c] = exchange[c]
    BY <1>3, <2>1
  <2> QED
    BY <1>1, <1>2, <2>2, ForeignIsNoFault
<1>6. ASSUME NEW d \in Callers, AdapterRecordsOutcome(d) PROVE FALSE
  <2>1. exchange'[c] = NoExchange \/ exchange'[c] = exchange[c]
    BY <1>3, <1>6 DEF AdapterRecordsOutcome
  <2> QED
    BY <1>1, <1>2, <2>1
<1>7. exchange' # exchange
  BY <1>1, <1>2
<1> QED
  BY <1>4, <1>5, <1>6, <1>7, AdapterSteps DEF adapterVars

\* Failures of the upstream decide over the circuit, and nothing else does
\* (llm.go:136-138, provider_wrapper.go:160-161): whatever the interleaving of
\* the callers, only what the contract counts among them opens the circuit, and
\* with a threshold of one no fault that the adapter reports is lost.
THEOREM FaultsAreDecisive == AdapterSpec => FaultsDecide
<1>1. AdapterInv => WrapperTypeOK
  BY DEF AdapterInv
<1>2. TypeOK /\ AdapterInv /\ [AdapterNext]_adapterVars
        => [state # "open" /\ state' = "open"
              => \E c \in Callers : Responded(c, UpstreamErrors)]_wvars
  BY OpeningStep
<1>3. TypeOK /\ AdapterInv /\ [AdapterNext]_adapterVars
        => [state # "open" /\ state' = "open"
              => \E c \in Callers :
                   Met(c, UpstreamFailures \cup {Foreign(result) : result \in UpstreamErrors})
           ]_adapterVars
  BY OpeningStep
<1>4. TypeOK /\ AdapterInv /\ [AdapterNext]_adapterVars
        => [state = "closed" /\ FailureThreshold = 1
              => \A c \in Callers : Met(c, ServerFaults) => state' = "open"]_adapterVars
  BY FaultStep
<1> QED
  BY <1>1, <1>2, <1>3, <1>4, AdapterAlways, PTL
     DEF AdapterSpec, FaultsDecide, OnlyUpstreamTrips, OnlyUpstreamFailuresOpen, ServerFaultsOpen

\* A trace without a failure belongs to a call whose answer was understood, or
\* whose stream was opened.
THEOREM SuccessTracesHaveAnswers == AdapterSpec => SuccessTraceHasAnswer
<1>1. TypeOK /\ AdapterInv /\ [AdapterNext]_adapterVars
        => [\A c \in Callers :
              /\ outcome[c] # "none" /\ outcome'[c] = "none"
              /\ trace'[c].failure = "none"
              => exchange[c] \in Understood]_adapterVars
  <2> SUFFICES ASSUME TypeOK, AdapterInv, AdapterNext, NEW c \in Callers,
                      outcome[c] # "none", outcome'[c] = "none",
                      trace'[c].failure = "none"
               PROVE  exchange[c] \in Understood
    OBVIOUS
  <2>1. /\ outcome \in [Callers -> ProviderResults \cup {"none", "circuit_open"}]
        /\ c \in DOMAIN outcome /\ c \in DOMAIN trace
    BY DEF AdapterInv, WrapperTypeOK
  <2>2. ASSUME NEW d \in Callers, NEW result \in ProviderResults, Respond(d, result)
        PROVE  FALSE
    <3>1. outcome' = [outcome EXCEPT ![d] = result]
      BY <2>2, RespondIsLeave
    <3>2. result # "none"
      BY DEF ProviderResults, UpstreamErrors, CallerErrors, Answers
    <3> QED
      BY <2>1, <3>1, <3>2
  <2>3. ASSUME NEW d \in Callers, NEW x \in Exchanges, AdapterResponds(d, x) PROVE FALSE
    BY <2>2, <2>3, ChatResults DEF AdapterResponds
  <2>4. ASSUME NEW d \in Callers, NEW result \in ProviderResults, ForeignResponds(d, result)
        PROVE  FALSE
    BY <2>2, <2>4 DEF ForeignResponds
  <2>5. ASSUME NEW d \in Callers, ChatRejected(d) \/ ChatCancelled(d) PROVE FALSE
    <3>1. \/ outcome' = [outcome EXCEPT ![d] = "circuit_open"]
          \/ outcome' = [outcome EXCEPT ![d] = "cancelled"]
      BY <2>5 DEF ChatRejected, ChatCancelled, EndsWith
    <3> QED
      BY <2>1, <3>1
  <2>6. outcome' # outcome
    OBVIOUS
  <2>7. /\ \A d \in Callers : ~Chat(d) /\ ~ProviderPanics(d)
        /\ ~WrapperTick /\ ~ (UNCHANGED adapterVars)
    BY <2>6 DEF Chat, ProviderPanics, WrapperTick, adapterVars, wvars
  <2>8. PICK d \in Callers : AdapterRecordsOutcome(d)
    BY <2>3, <2>4, <2>5, <2>7, AdapterSteps
  <2>9. /\ outcome' = [outcome EXCEPT ![d] = "none"]
        /\ trace' = [trace EXCEPT ![d] = [failure |-> Classify(outcome[d]), circuit |-> state]]
    BY <2>8 DEF AdapterRecordsOutcome, RecordOutcome, EndsWith
  <2>10. c = d
    BY <2>1, <2>9
  <2>11. Classify(outcome[c]) = "none"
    BY <2>1, <2>9, <2>10
  <2>12. outcome[c] \in Answers
    BY <2>1, <2>11, ClassifyTypes
  <2> QED
    BY <2>12 DEF AdapterInv, AnswersUnderstood
<1> QED
  BY <1>1, AdapterAlways, PTL DEF AdapterSpec, SuccessTraceHasAnswer

-------------------------------------------------------------------------------
(* What a failed call's trace shows. *)

\* Until an upstream failure is recorded no time passes, and the circuit that
\* it opened stays open.
TripStands ==
  \A c \in Callers :
    outcome[c] \in UpstreamErrors => state = "open" /\ sinceOpened = 0

LEMMA TripStandsStep ==
  ASSUME Timely, FailureThreshold = 1,
         TypeOK, TimelyInv, AdapterInv, TripStands, [AdapterNext]_adapterVars
  PROVE  TripStands'
<1>1. /\ outcome \in [Callers -> ProviderResults \cup {"none", "circuit_open"}]
      /\ \A c \in Callers : c \in DOMAIN outcome
  BY DEF AdapterInv, WrapperTypeOK
<1>2. CASE UNCHANGED <<outcome, state, sinceOpened>>
  BY <1>2 DEF TripStands
<1>3. ASSUME NEW c \in Callers, Chat(c) PROVE TripStands'
  <2>1. UNCHANGED outcome
    BY <1>3 DEF Chat
  <2>2. CASE \E d \in Callers : outcome[d] \in UpstreamErrors
    <3>1. state = "open" /\ ~WindowOver
      BY <2>2, ConfigPositive DEF TripStands, WindowOver
    <3> QED
      BY <1>3, <3>1 DEF Chat, Enter, AdmitClosed, AdmitFirstProbe, AdmitProbe
  <2> QED
    BY <2>1, <2>2 DEF TripStands
<1>4. ASSUME NEW c \in Callers, ChatRejected(c) \/ ChatCancelled(c) PROVE TripStands'
  <2>1. /\ UNCHANGED <<state, sinceOpened>>
        /\ \/ outcome' = [outcome EXCEPT ![c] = "circuit_open"]
           \/ outcome' = [outcome EXCEPT ![c] = "cancelled"]
    BY <1>4 DEF ChatRejected, ChatCancelled, EndsWith, Reject, vars, breakerVars
  <2>2. \A d \in Callers : outcome'[d] \in UpstreamErrors => outcome[d] \in UpstreamErrors
    BY <1>1, <2>1 DEF UpstreamErrors
  <2> QED
    BY <2>1, <2>2 DEF TripStands
<1>5. ASSUME NEW c \in Callers, ProviderPanics(c) PROVE TripStands'
  BY <1>2, <1>5 DEF ProviderPanics, Panics, breakerVars
<1>6. ASSUME NEW c \in Callers, NEW result, Respond(c, result) PROVE TripStands'
  <2>1. /\ outcome' = [outcome EXCEPT ![c] = result]
        /\ IF CountsAsFailure(result) THEN Fails(c) ELSE Succeeds(c)
    BY <1>6, RespondIsLeave
  <2>2. CASE Fails(c)
    <3>1. Trips
      BY ConfigPositive DEF Trips, TypeOK
    <3>2. state' = "open" /\ sinceOpened' = 0
      BY <2>2, <3>1 DEF Fails, PlainFails, ProbeFails, ToOpen
    <3> QED
      BY <3>2 DEF TripStands
  <2>3. CASE ~CountsAsFailure(result) /\ Succeeds(c)
    <3>1. \A d \in Callers : outcome'[d] \in UpstreamErrors => outcome[d] \in UpstreamErrors
      BY <1>1, <2>1, <2>3 DEF CountsAsFailure
    <3>2. CASE \E d \in Callers : outcome[d] \in UpstreamErrors
      <4>1. state = "open" /\ sinceOpened = 0
        BY <3>2 DEF TripStands
      <4>2. CASE PlainSucceeds(c)
        BY <3>1, <4>1, <4>2 DEF PlainSucceeds, TripStands
      <4>3. CASE ProbeSucceeds(c)
        <5>1. UNCHANGED <<state, sinceOpened>>
          BY <4>1, <4>3, OpenProbesCannotClose
        <5> QED
          BY <3>1, <4>1, <5>1 DEF TripStands
      <4> QED
        BY <2>3, <4>2, <4>3 DEF Succeeds
    <3> QED
      BY <3>1, <3>2 DEF TripStands
  <2> QED
    BY <2>1, <2>2, <2>3
<1>7. ASSUME NEW c \in Callers, RecordOutcome(c) PROVE TripStands'
  <2>1. outcome' = [outcome EXCEPT ![c] = "none"] /\ UNCHANGED <<state, sinceOpened>>
    BY <1>7 DEF RecordOutcome, EndsWith, vars, breakerVars
  <2>2. \A d \in Callers : outcome'[d] \in UpstreamErrors => outcome[d] \in UpstreamErrors
    BY <1>1, <2>1 DEF UpstreamErrors
  <2> QED
    BY <2>1, <2>2 DEF TripStands
<1>8. CASE WrapperTick
  BY <1>8 DEF WrapperTick, TripStands, UpstreamErrors
<1>9. CASE UNCHANGED adapterVars
  BY <1>2, <1>9 DEF adapterVars, wvars, vars, breakerVars
<1> QED
  BY <1>3, <1>4, <1>5, <1>6, <1>7, <1>8, <1>9, AdapterSteps
     DEF AdapterResponds, ForeignResponds, AdapterRecordsOutcome

\* recordOutcome reads the breaker's state after its lock was given back
\* (provider_wrapper.go:215).  If calls are Timely and one failure trips, it still
\* reads the trip that its own failure caused: no probe is left that could close
\* the circuit before the window is over.
THEOREM FailureTracesShowTrips ==
  ASSUME Timely, FailureThreshold = 1
  PROVE  AdapterSpec => FailureTraceShowsTrip
<1>1. AdapterInit => TripStands
  BY DEF AdapterInit, WrapperInit, TripStands, UpstreamErrors
<1>2. TypeOK /\ TimelyInv /\ AdapterInv /\ TripStands /\ [AdapterNext]_adapterVars
        => TripStands'
  BY TripStandsStep
<1>3. AdapterInv /\ TripStands /\ [AdapterNext]_adapterVars
        => [\A c \in Callers :
              outcome[c] \in UpstreamErrors /\ outcome'[c] = "none"
                => trace'[c].circuit = "open"]_wvars
  <2> SUFFICES ASSUME AdapterInv, TripStands, AdapterNext, NEW c \in Callers,
                      outcome[c] \in UpstreamErrors, outcome'[c] = "none"
               PROVE  trace'[c].circuit = "open"
    BY DEF adapterVars, UpstreamErrors
  <2>1. /\ outcome \in [Callers -> ProviderResults \cup {"none", "circuit_open"}]
        /\ c \in DOMAIN outcome /\ c \in DOMAIN trace
    BY DEF AdapterInv, WrapperTypeOK
  <2>2. outcome[c] # "none" /\ state = "open"
    BY DEF UpstreamErrors, TripStands
  <2>3. ASSUME NEW d \in Callers, NEW result \in ProviderResults, Respond(d, result)
        PROVE  FALSE
    <3>1. outcome' = [outcome EXCEPT ![d] = result]
      BY <2>3, RespondIsLeave
    <3>2. result # "none"
      BY DEF ProviderResults, UpstreamErrors, CallerErrors, Answers
    <3> QED
      BY <2>1, <2>2, <3>1, <3>2
  <2>4. ASSUME NEW d \in Callers, NEW x \in Exchanges, AdapterResponds(d, x) PROVE FALSE
    BY <2>3, <2>4, ChatResults DEF AdapterResponds
  <2>5. ASSUME NEW d \in Callers, NEW result \in ProviderResults, ForeignResponds(d, result)
        PROVE  FALSE
    BY <2>3, <2>5 DEF ForeignResponds
  <2>6. ASSUME NEW d \in Callers, ChatRejected(d) \/ ChatCancelled(d) PROVE FALSE
    <3>1. \/ outcome' = [outcome EXCEPT ![d] = "circuit_open"]
          \/ outcome' = [outcome EXCEPT ![d] = "cancelled"]
      BY <2>6 DEF ChatRejected, ChatCancelled, EndsWith
    <3> QED
      BY <2>1, <2>2, <3>1
  <2>7. outcome' # outcome
    BY <2>2
  <2>8. /\ \A d \in Callers : ~Chat(d) /\ ~ProviderPanics(d)
        /\ ~WrapperTick /\ ~ (UNCHANGED adapterVars)
    BY <2>7 DEF Chat, ProviderPanics, WrapperTick, adapterVars, wvars
  <2>9. PICK d \in Callers : AdapterRecordsOutcome(d)
    BY <2>4, <2>5, <2>6, <2>8, AdapterSteps
  <2>10. /\ outcome' = [outcome EXCEPT ![d] = "none"]
         /\ trace' = [trace EXCEPT ![d] = [failure |-> Classify(outcome[d]), circuit |-> state]]
    BY <2>9 DEF AdapterRecordsOutcome, RecordOutcome, EndsWith
  <2>11. c = d
    BY <2>1, <2>2, <2>10
  <2> QED
    BY <2>1, <2>2, <2>10, <2>11
<1> QED
  BY <1>1, <1>2, <1>3, AdapterAlways, AdapterImplementsBreaker, TimelyInvariant, PTL
     DEF AdapterSpec, FailureTraceShowsTrip

\* So a caller of the adapter sees the documented state machine, with Timely
\* calls and one probe at a time.
THEOREM AdapterFollowsDocumentedMachine ==
  ASSUME Timely, HalfOpenMaxProbe = 1
  PROVE  AdapterSpec => ImplementsDocumented
BY AdapterImplementsBreaker, BreakerImplementsDocumented, PTL
===============================================================================
