----------------------------- MODULE StreamReader -----------------------------
(***************************************************************************)
(* pkg/ai/llm/openai/stream.go and stream_tool_call.go: the goroutine that *)
(* turns the body of one streaming response into chunks, the channel of    *)
(* capacity one between it and the consumer, and the context that either   *)
(* the caller's cancellation or its deadline may end at any moment.        *)
(* The upstream is the environment.  An event of the body carries text or  *)
(* not, fragments of tool-call arguments (at most one for each index) and  *)
(* a finish reason or none.  A fragment is kept as the number of the event *)
(* it came in, so that one can tell where every fragment went.             *)
(***************************************************************************)
EXTENDS Integers, Sequences, FiniteSets

CONSTANTS
  Indexes,     \* delta.tool_calls[].index
  Events,      \* the events the upstream may send
  MaxEvents    \* bound: events in a body before the one that ends it

Finishes  == {"none", "stop", "tool_calls"}

\* Of the arguments of a call: a first and a last part, together a JSON object
\* and alone none, and the empty text that often comes with a call's name.
Fragments == {"open", "close", "empty"}

AnyEvent == [text   : BOOLEAN,
             deltas : UNION {[s -> Fragments] : s \in SUBSET Indexes},
             finish : Finishes]

ASSUME StreamAssumption ==
  /\ Indexes \subseteq Nat /\ IsFiniteSet(Indexes)
  /\ Events \subseteq AnyEvent
  /\ MaxEvents \in Nat

VARIABLES
  pc,          \* "reading", "sending" (blocked in sendStreamChunk), "closed"
  body,        \* the events read so far
  ending,      \* how the body ended: "none", "done", "bad", "eof", "broken"
  calls,       \* toolCallAccumulator.calls: index -> events of its fragments
  sawTerminal, \* sawTerminalEvent
  outbox,      \* chunks the current event still has to send
  chunks,      \* the channel
  received,    \* what the consumer has taken out of it
  ctx          \* "live", or "done": cancelled or past its deadline

readerVars == <<pc, body, ending, calls, sawTerminal, outbox, chunks, received, ctx>>

NoCalls == [i \in {} |-> <<>>]

ReaderInit ==
  /\ pc = "reading"
  /\ body = <<>>
  /\ ending = "none"
  /\ calls = NoCalls
  /\ sawTerminal = FALSE
  /\ outbox = <<>>
  /\ chunks = <<>>
  /\ received = <<>>
  /\ ctx = "live"

-------------------------------------------------------------------------------
(* Chunks and the accumulator. *)

Content(finish)   == [kind |-> "content", finish |-> finish, index |-> 0, args |-> <<>>]
ToolCall(i, args) == [kind |-> "tool", finish |-> "none", index |-> i, args |-> args]
Error             == [kind |-> "error", finish |-> "none", index |-> 0, args |-> <<>>]

\* Mutant: a fragment replaces what came before it.
AddKeepsLast(events, n, deltas) ==
  [i \in DOMAIN events \cup DOMAIN deltas |->
     IF i \in DOMAIN deltas THEN <<n>> ELSE events[i]]

\* toolCallAccumulator.Add: each fragment goes to the buffer of its index.
Add(events, n, deltas) ==
  [i \in DOMAIN events \cup DOMAIN deltas |->
     (IF i \in DOMAIN events THEN events[i] ELSE <<>>)
       \o (IF i \in DOMAIN deltas THEN <<n>> ELSE <<>>)]

NotEmpty(fragment) == fragment # "empty"

\* decodeToolArguments succeeds: the fragments make one JSON object, or there is
\* no text at all, which is taken for an object without members.
Decodes(read, i, args) ==
  SelectSeq([k \in 1 .. Len(args) |-> read[args[k]].deltas[i]], NotEmpty)
    \in {<<"open", "close">>, <<>>}

\* Mutant: map iteration order.
InOrderAny(S) ==
  CHOOSE s \in [1 .. Cardinality(S) -> S] :
    \A j, k \in 1 .. Cardinality(S) : j < k => s[j] > s[k]

\* sort.Ints
InOrder(S) ==
  CHOOSE s \in [1 .. Cardinality(S) -> S] :
    \A j, k \in 1 .. Cardinality(S) : j < k => s[j] < s[k]

\* Complete and emitCompletedToolCalls: all the calls, or one error.
Completed(read, events) ==
  IF \A i \in DOMAIN events : Decodes(read, i, events[i])
  THEN LET order == InOrder(DOMAIN events) IN
       [k \in 1 .. Cardinality(DOMAIN events) |->
          ToolCall(order[k], events[order[k]])]
  ELSE <<Error>>

-------------------------------------------------------------------------------
(* The reading goroutine. *)

\* Mutant: an event without anything to send is sent all the same.
SendsAlways(list, next) ==
  /\ outbox' = list
  /\ pc' = "sending"

\* Mutant: the channel is not closed at a clean end.
SendsNeverCloses(list, next) ==
  /\ outbox' = list
  /\ pc' = IF list = <<>> THEN "reading" ELSE "sending"

\* Without anything to send the goroutine goes on, or closes the channel.
Sends(list, next) ==
  /\ outbox' = list
  /\ pc' = IF list = <<>> THEN next ELSE "sending"

\* A data event that is neither [DONE] nor an error.
ReadEvent(event) ==
  LET read   == Append(body, event)
      buffer == Add(calls, Len(read), event.deltas)
      emits  == event.text \/ event.finish # "none"
      tools  == event.finish = "tool_calls"
      list   == IF tools THEN Completed(read, buffer) ELSE <<>>
  IN
  /\ pc = "reading"
  /\ Len(body) < MaxEvents
  /\ body' = read
  /\ calls' = IF tools /\ list # <<Error>> THEN NoCalls ELSE buffer
  /\ sawTerminal' = (sawTerminal \/ (event.finish # "none" /\ list # <<Error>>))
  /\ Sends(IF emits THEN <<Content(event.finish)>> \o list ELSE <<>>, "reading")
  /\ UNCHANGED <<ending, chunks, received, ctx>>

\* [DONE]: an error if tool calls are still being put together.
ReadDone ==
  /\ pc = "reading"
  /\ ending' = "done"
  /\ sawTerminal' = (sawTerminal \/ calls = NoCalls)
  /\ Sends(IF calls = NoCalls THEN <<>> ELSE <<Error>>, "closed")
  /\ UNCHANGED <<body, calls, chunks, received, ctx>>

\* An event that is no JSON, or that reports an error of the upstream.
ReadBad ==
  /\ pc = "reading"
  /\ ending' = "bad"
  /\ Sends(<<Error>>, "closed")
  /\ UNCHANGED <<body, calls, sawTerminal, chunks, received, ctx>>

\* Mutant: the end of the body is taken for the end of the stream.
CutShortTrusting(how) == how = "broken"

\* reportStreamReadEnd: a scanner error, or no terminal event before the end.
CutShort(how) == how = "broken" \/ ~sawTerminal

\* The body ends or breaks off: silently when the context is done.
ReadEnd(how) ==
  /\ pc = "reading"
  /\ how \in {"eof", "broken"}
  /\ ending' = how
  /\ Sends(IF ctx = "live" /\ CutShort(how) THEN <<Error>> ELSE <<>>, "closed")
  /\ UNCHANGED <<body, calls, sawTerminal, chunks, received, ctx>>

Read ==
  \/ \E event \in Events : ReadEvent(event)
  \/ ReadDone
  \/ ReadBad
  \/ \E how \in {"eof", "broken"} : ReadEnd(how)

\* Mutant: after an error the goroutine goes on reading.
AfterSendGoesOn == IF Tail(outbox) # <<>> THEN "sending" ELSE "reading"

\* An error is the last chunk.
AfterSend ==
  IF Tail(outbox) # <<>> THEN "sending"
  ELSE IF Head(outbox) = Error THEN "closed" ELSE "reading"

\* sendStreamChunk: there is room in the channel.
Send ==
  /\ pc = "sending"
  /\ chunks = <<>>
  /\ chunks' = <<Head(outbox)>>
  /\ outbox' = Tail(outbox)
  /\ pc' = AfterSend
  /\ UNCHANGED <<body, ending, calls, sawTerminal, received, ctx>>

\* Mutant: the context is looked at only before the send.
GiveUpBeforeSending ==
  /\ pc = "sending"
  /\ ctx # "live"
  /\ chunks = <<>>
  /\ pc' = "closed"
  /\ UNCHANGED <<body, ending, calls, sawTerminal, outbox, chunks, received, ctx>>

\* sendStreamChunk: the context is done.  When there is room as well, select
\* takes either branch.
GiveUp ==
  /\ pc = "sending"
  /\ ctx # "live"
  /\ pc' = "closed"
  /\ UNCHANGED <<body, ending, calls, sawTerminal, outbox, chunks, received, ctx>>

-------------------------------------------------------------------------------
(* The consumer and its context. *)

Receive ==
  /\ chunks # <<>>
  /\ received' = Append(received, Head(chunks))
  /\ chunks' = Tail(chunks)
  /\ UNCHANGED <<pc, body, ending, calls, sawTerminal, outbox, ctx>>

ContextEnds ==
  /\ ctx = "live"
  /\ ctx' = "done"
  /\ UNCHANGED <<pc, body, ending, calls, sawTerminal, outbox, chunks, received>>

ReaderNext ==
  \/ Read
  \/ Send
  \/ GiveUp
  \/ Receive
  \/ ContextEnds

ReaderSpec == ReaderInit /\ [][ReaderNext]_readerVars

\* A read returns, if only because the HTTP client times out or the context
\* of the request ends; a runnable goroutine runs.
ReaderFairness == WF_readerVars(Read) /\ WF_readerVars(Send) /\ WF_readerVars(GiveUp)

ReaderFairSpec == ReaderSpec /\ ReaderFairness

-------------------------------------------------------------------------------
(* Properties. *)

ChunkType ==
  [kind : {"content", "tool", "error"}, finish : Finishes,
   index : Indexes \cup {0}, args : Seq(1 .. MaxEvents)]

\* Types; the goroutine is blocked in a send only with something to send.
ReaderTypeOK ==
  /\ pc \in {"reading", "sending", "closed"}
  /\ body \in Seq(Events) /\ Len(body) <= MaxEvents
  /\ ending \in {"none", "done", "bad", "eof", "broken"}
  /\ DOMAIN calls \subseteq Indexes
  /\ \A i \in DOMAIN calls : calls[i] \in Seq(1 .. Len(body)) \ {<<>>}
  /\ sawTerminal \in BOOLEAN
  /\ outbox \in Seq(ChunkType)
  /\ pc = "sending" => outbox # <<>>
  /\ chunks \in Seq(ChunkType) /\ Len(chunks) <= 1
  /\ received \in Seq(ChunkType)
  /\ ctx \in {"live", "done"}

\* Every chunk produced so far, in order.
Produced == received \o chunks \o outbox

ToolChunks == {k \in 1 .. Len(Produced) : Produced[k].kind = "tool"}

\* p0-provider-contract.md:33: fragments are put together by index.  Every
\* fragment ends up once, in order, in a call of its own index: in a chunk, or
\* in the buffers, where it stays if the calls do not decode.
FragmentsKept ==
  \A i \in Indexes :
    LET sent   == {n \in 1 .. Len(body) : i \in DOMAIN body[n].deltas}
        mine   == {k \in ToolChunks : Produced[k].index = i}
        emitted(k) == {Produced[k].args[m] : m \in 1 .. Len(Produced[k].args)}
        buffered == IF i \in DOMAIN calls
                    THEN {calls[i][m] : m \in 1 .. Len(calls[i])} ELSE {}
    IN /\ (UNION {emitted(k) : k \in mine}) \cup buffered = sent
       /\ \A k \in mine : emitted(k) \cap buffered = {}
       /\ \A j, k \in mine : j # k => emitted(j) \cap emitted(k) = {}
       /\ \A k \in mine : \A l, m \in 1 .. Len(Produced[k].args) :
            l < m => Produced[k].args[l] < Produced[k].args[m]

\* p0-provider-contract.md:36: an error is exposed in a chunk, "then the
\* stream is closed": no chunk follows one, and the goroutine is done with it.
ErrorIsLast ==
  \A k \in 1 .. Len(Produced) :
    Produced[k] = Error => k = Len(Produced) /\ (pc = "closed" \/ outbox # <<>>)

\* stream.go:128-129: a tool call is handed out only after the finish chunk
\* that completed it, directly after it and by increasing index, so that a
\* consumer that starts executing has every call of the batch coming.
ToolCallsFollowFinish ==
  \A k \in ToolChunks :
    /\ k > 1
    /\ \/ Produced[k - 1].finish = "tool_calls"
       \/ k - 1 \in ToolChunks /\ Produced[k - 1].index < Produced[k].index

\* What a consumer may rely on while it reads: chunks of the right kinds, calls
\* after their finish, and nothing after an error.
ChunksInOrder == ReaderTypeOK /\ ErrorIsLast /\ ToolCallsFollowFinish

Drained == pc = "closed" /\ chunks = <<>>

TerminalSent == ending = "done" \/ \E n \in 1 .. Len(body) : body[n].finish # "none"

Reported == received # <<>> /\ received[Len(received)] = Error

\* stream.go:37-39: as long as the caller still wants the stream, a body that
\* broke off before a terminal event is not taken for a whole one, and [DONE]
\* does not swallow tool calls that were never finished.
CutsReported ==
  Drained /\ ctx = "live" =>
    \/ Reported
    \/ TerminalSent /\ (ending = "done" => calls = NoCalls)

\* A consumer that only cancels and never reads again still sets the goroutine
\* and the connection free.
CancelReleases == ctx # "live" ~> pc = "closed"

\* A consumer that goes on reading comes to the end of the stream.
StreamEnds == WF_readerVars(Receive) => <>Drained

\* stream.go:90-91: the stream is never closed silently on tool calls that were
\* begun, however it ends.
NoLostToolCalls == Drained /\ ctx = "live" => Reported \/ calls = NoCalls
===============================================================================
