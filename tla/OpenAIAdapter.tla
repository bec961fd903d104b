---------------------------- MODULE OpenAIAdapter ----------------------------
(***************************************************************************)
(* pkg/ai/llm/openai: what Chat and ChatStream of the OpenAI-compatible    *)
(* adapter make of one HTTP exchange, composed with the wrapper that calls *)
(* them and with its breaker.  An exchange is told by how far it came: the *)
(* request it was asked for, the context it started with, what sending it  *)
(* led to, the status and, of a call that does not stream, the body.       *)
(***************************************************************************)
EXTENDS ProviderWrapper

VARIABLE exchange   \* per caller: what its call met with, until it is recorded

adapterVars == <<wvars, exchange>>

\* What a caller's context may be: "expired" is a deadline, "cancelled" the
\* caller's own doing.
Contexts == {"live", "expired", "cancelled"}

\* How client.Do may end: with a response, with an error of its own (refused
\* connections, the client's timeout), or because the context ended.
Sendings == {"responded", "broken", "expired", "cancelled"}

Statuses == {"2xx", "429", "5xx", "4xx"}

\* A body that the decoder does not come to the end of, because the client's
\* timeout or the context's deadline is over, the peer breaks off, or the caller
\* gives up.
Unfinished == {"timed_out", "cut_off", "given_up"}

\* "garbled" is no JSON, "bad_arguments" an answer whose tool call does not decode.
Bodies == {"answer", "other_model", "no_choices", "bad_arguments", "garbled",
           "streamed"} \cup Unfinished

Fresh == [valid |-> TRUE, context |-> "live", sent |-> "responded",
          status |-> "2xx", body |-> "answer"]

\* A request that is not valid, or does not encode, is never sent.
Exchanges ==
  {[Fresh EXCEPT !.valid = FALSE]}
  \cup {[Fresh EXCEPT !.context = context] : context \in Contexts}
  \cup {[Fresh EXCEPT !.sent = sent] : sent \in Sendings}
  \cup {[Fresh EXCEPT !.status = status] : status \in Statuses}
  \cup {[Fresh EXCEPT !.body = body] : body \in Bodies}

\* Another provider behind the same wrapper, which returns what it likes.
Foreign(result) == [foreign |-> result]

NoExchange == [foreign |-> "none"]

-------------------------------------------------------------------------------

\* Mutant: only the server's own errors are worth a retry.
RetryableStatusWithoutLimit(status) == status = "5xx"

\* isRetryableHTTPStatus
RetryableStatus(status) == status \in {"429", "5xx"}

\* Mutant: a context that has ended is the caller's affair, whatever ended it.
ContextErrorAsItIs(context) == "cancelled"

\* contextError: a deadline is the provider's fault, a cancellation the caller's.
ContextError(context) == IF context = "expired" THEN "upstream" ELSE "cancelled"

\* Mutant: a body that is no answer is the server's fault.
BodyResultBlaming(body) ==
  IF body \in {"answer", "other_model", "no_choices", "streamed"} THEN "ok"
  ELSE "upstream"

\* Mutant: a body that cannot be decoded is taken for an empty answer.
BodyResultLenient(body) == IF body = "other_model" THEN "fallback_model" ELSE "ok"

\* parseChatResponse, mapToolCalls: errors that carry no ErrUpstream, whatever
\* kept the body from being decoded.  Without a choice the answer is empty, and
\* no error.
BodyResult(body) ==
  CASE body \in {"bad_arguments", "garbled"} \cup Unfinished -> "caller_error"
    [] body = "other_model" -> "fallback_model"
    [] OTHER -> "ok"

\* Chat, ChatStream, doChatRequest, in the order of their returns; with
\* "streamed" the call returns as soon as the status is known.
ChatResult(x) ==
  CASE ~x.valid -> "caller_error"
    [] x.valid /\ x.context # "live" -> ContextError(x.context)
    [] x.valid /\ x.context = "live" /\ x.sent # "responded" ->
         IF x.sent = "broken" THEN "upstream" ELSE ContextError(x.sent)
    [] x.valid /\ x.context = "live" /\ x.sent = "responded" /\ x.status # "2xx" ->
         IF RetryableStatus(x.status) THEN "upstream" ELSE "caller_error"
    [] OTHER -> BodyResult(x.body)

AdapterInit ==
  /\ WrapperInit
  /\ exchange = [c \in Callers |-> NoExchange]

AdapterResponds(c, x) ==
  /\ Respond(c, ChatResult(x))
  /\ exchange' = [exchange EXCEPT ![c] = x]

ForeignResponds(c, result) ==
  /\ Respond(c, result)
  /\ exchange' = [exchange EXCEPT ![c] = Foreign(result)]

AdapterRecordsOutcome(c) ==
  /\ RecordOutcome(c)
  /\ exchange' = [exchange EXCEPT ![c] = NoExchange]

\* Calls that never reach the provider, and those that it panics in.
WithoutExchange(c) ==
  /\ Chat(c) \/ ChatRejected(c) \/ ChatCancelled(c) \/ ProviderPanics(c)
  /\ UNCHANGED exchange

ProviderResponds(c) ==
  \/ \E x \in Exchanges : AdapterResponds(c, x)
  \/ \E result \in ProviderResults : ForeignResponds(c, result)

AdapterNext ==
  \/ \E c \in Callers :
       \/ WithoutExchange(c)
       \/ ProviderResponds(c)
       \/ AdapterRecordsOutcome(c)
  \/ WrapperTick /\ UNCHANGED exchange

\* The fairness of the wrapper: every exchange ends, the HTTP client having a
\* timeout of its own.
AdapterFairness ==
  /\ WF_adapterVars(WrapperTick /\ UNCHANGED exchange)
  /\ \A c \in Callers :
       /\ WF_adapterVars(ProviderResponds(c))
       /\ WF_adapterVars(AdapterRecordsOutcome(c))
  /\ WF_adapterVars(\E c \in Callers : Chat(c) /\ UNCHANGED exchange)

AdapterSpec == AdapterInit /\ [][AdapterNext]_adapterVars /\ AdapterFairness

-------------------------------------------------------------------------------
(* Properties. *)

Met(c, exchanges) == exchange[c] = NoExchange /\ exchange'[c] \in exchanges

\* Faults that the adapter reports as the server's (llm.go:137): 429, 5xx, a
\* connection that fails, and a deadline that is over before the response.
ServerFaults ==
  {[Fresh EXCEPT !.status = status] : status \in {"429", "5xx"}}
  \cup {[Fresh EXCEPT !.sent = sent] : sent \in {"broken", "expired"}}
  \cup {[Fresh EXCEPT !.context = "expired"]}

\* p0-provider-contract.md:42: the contract counts more among the failures of
\* the upstream, a cancellation and whatever breaks off a body included.  The
\* adapter does not report those as such; TimeoutsAreUpstream says where that
\* contradicts the contract.
UpstreamFailures ==
  ServerFaults
  \cup {[Fresh EXCEPT !.context = "cancelled"], [Fresh EXCEPT !.sent = "cancelled"]}
  \cup {[Fresh EXCEPT !.body = body] : body \in Unfinished}

\* p0-provider-contract.md:43-46 through the adapter, the wrapper and the
\* breaker: the circuit opens only at a failure of the upstream, never for a
\* request that was wrong, refused with 4xx, or answered, be it with rubbish.
OnlyUpstreamFailuresOpen ==
  [][state # "open" /\ state' = "open"
       => \E c \in Callers :
            Met(c, UpstreamFailures \cup {Foreign(result) : result \in UpstreamErrors})
    ]_adapterVars

\* ... and every fault that the adapter reports does open a circuit that is
\* closed, if one failure is enough for that: none is lost on its way through
\* wrapper and breaker.
ServerFaultsOpen ==
  [][state = "closed" /\ FailureThreshold = 1
       => \A c \in Callers : Met(c, ServerFaults) => state' = "open"]_adapterVars

\* A trace tells of no failure only if the provider's answer was understood to
\* its end, or to the opening of its stream.
Understood ==
  {[Fresh EXCEPT !.body = body] :
     body \in {"answer", "other_model", "no_choices", "streamed"}}
  \cup {Foreign(result) : result \in Answers}

SuccessTraceHasAnswer ==
  [][\A c \in Callers :
       /\ outcome[c] # "none" /\ outcome'[c] = "none"
       /\ trace'[c].failure = "none"
       => exchange[c] \in Understood]_adapterVars

\* Failures of the upstream decide over the circuit, and nothing else does.
FaultsDecide ==
  []WrapperTypeOK /\ OnlyUpstreamTrips /\ OnlyUpstreamFailuresOpen /\ ServerFaultsOpen

\* Exchanges that ran out of time, at whatever stage.
TimedOut ==
  {[Fresh EXCEPT !.context = "expired"], [Fresh EXCEPT !.sent = "expired"],
   [Fresh EXCEPT !.body = "timed_out"]}

\* p0-provider-contract.md:42, 46 and llm.go:137: whoever calls the adapter can
\* tell a timeout by ErrUpstream.
TimeoutsAreUpstream ==
  [][\A c \in Callers : Met(c, TimedOut) => outcome'[c] \in UpstreamErrors]_adapterVars
===============================================================================
