# Verification of the AshJazz AI agent framework

This directory holds TLA+ models of the framework's core, the TLC runs that
check them on small instances, and theorems that the TLA+ proof system checks
for every value of the constants. Paths such as `pkg/ai/...` are relative to
the repository root; `PROJECT.json` records, for every definition, the source
lines it stands for.

## 1. The system

The framework is a Go library (`pkg/ai`) and a thin GoFrame server
(`internal`, `main.go`) that does not serve AI traffic yet. A request is meant
to travel: HTTP handler -> rate limiter -> agent executor -> provider wrapper
-> circuit breaker -> OpenAI adapter -> upstream, with tools, retrieval and a
fallback cache beside it and traces recorded on the way.

| Component | State | Operations | What is hard | What makes it correct |
|---|---|---|---|---|
| Circuit breaker `resilience/circuit_breaker.go` | state, failure streak, time of the trip, probe successes, probe slots; one mutex | `Call` = `beforeCall`, the protected function, `afterCall` | the function runs outside the lock, so a result is applied to a state that may be periods younger than the one that admitted the call; panics; a clock | the window is honoured, HALF_OPEN admits its probes and no more, only a streak trips, no slot is lost, HALF_OPEN ends, a healed provider is used again |
| Provider wrapper `resilience/provider_wrapper.go` | none of its own (it holds the breaker) | `Chat`, `ChatStream` | what counts as a failure; the trace reads the breaker's state after the lock is gone | only upstream failures trip; traces tell what happened; an outage is noticed |
| Agent executor `agent/executor.go` | one run: messages, steps, tokens, last call, pending observation | `Run` | an open-ended loop driven by the model's answers; limits that fall inside a batch; deferred observations; cancellation against the step timeout | bounded steps, no repeated call, budget guarded, no step observed twice or out of order, every run ends |
| Streaming reader `llm/openai/stream.go`, `stream_tool_call.go` | accumulator of tool-call fragments, terminal flag, a channel of one chunk | the goroutine behind `ChatStream`; `Add`, `Complete` | fragments of several calls interleaved; a body cut anywhere; a consumer that stops reading; `select` with two ready branches | fragments end up in their call, in order; an error is the last chunk; cuts are reported; the goroutine is released |
| Rate limiter `ratelimit/memory_limiter.go` | a token bucket per key; one mutex | `Allow`, `Configure` | lazy refill by fractions, a clock that stands still or goes back | the rate is held over every interval; no time is lost to polling |
| Vector store `vectordb/memory_store.go` | a map of vectors behind a read-write mutex | `Upsert`, `Search`, `Delete` | a search ranks a copy taken under the lock while writers go on; batches | a search sees one moment, a batch is written whole or not at all |
| Retriever `rag/retriever.go` | none | `Retrieve` | several steps that can fail or be cancelled; the observation | the answer is what the store held at one moment of the call; the trace agrees with it |
| Fallback cache `cache/memory_fallback.go` | entries behind a read-write mutex | `Get`, `Set` | the clock is read outside the lock, before `Set` takes it and after `Get` gives it back | an entry is exact, stale or gone by its age alone; it is served to its scope only |
| Tool registry `agent/registry.go` | tools by name behind a read-write mutex | `Register`, `Get`, `LLMTools` | a tool is validated before the lock; schemas are maps that callers keep hold of | one winner for each name; what was registered does not change; what was offered can be called |
| Observability lifecycle `internal/cmd/observability_lifecycle.go` | initialised, shut down, last failure; one mutex | `Initialize`, `Shutdown`, `Status` | the exporter is called under the lock and may fail or panic | each is called once; nobody is answered before it is over, nobody waits for ever; failures are remembered |
| Chain recorder `obs/chain_recorder.go` | chains by request id behind a read-write mutex | `Record`, `FindByRequestID` | concurrent records of one request; slices that go in and come out; padded ids | a chain stays as recorded, whoever edits what they passed or were given, and is found |
| Trace export `obs/export_failure.go`, `otel_tracer.go`, `logger.go`, the tee of `smoke/p0.go` | none | `Record` | a tracer drops a trace or panics in the middle of the tee | callers that protect themselves are not harmed; a status bounds who has the trace; a failed export is told of |
| OpenAI adapter `llm/openai/provider.go`, `errors.go` | none | `Chat`, `ChatStream` | an exchange fails at any stage, and a deadline looks like a cancellation | failures of the upstream, and nothing else, open the circuit; a timeout is one at whatever stage |
| Chunker `rag/chunker_recursive.go` | none | `Chunk` | window arithmetic at the end of a text; cancellation between windows | every rune is in a chunk; neighbours overlap by the configured amount; all or nothing |
| Evaluation `eval/*.go` | none | `Run`, the metrics, evidence | duplicate and padded ids and names, NaN, empty sets, partial failure | reports of whole runs only, backed by evidence; scores that order rankings rightly |
| P0 smoke `internal/eval/smoke/p0.go`, `cmd/eval-smoke` | traces of one run | `RunP0`, the command | the runner, the provider and the traces must tell of the same samples | every score is linked to the trace of its own sample; exit 0 means a whole run |
| Text and files `obs/*.go` (the rest), prompt store, chain, privacy and platform smokes, application shell | - | record construction, text filtering, file reading, HTTP posts | nothing a model checker would explore | - |

## 2. Modules

| Module | Models | Lines of thought |
|---|---|---|
| `BreakerAbstract` | what the breaker's documentation promises | no callers: each step is one reported result or the passing of time |
| `CircuitBreaker` | `Call` by any number of goroutines | two atomic steps per call, time between them |
| `MCCircuitBreaker` | instances for TLC | |
| `CircuitBreakerProofs` | theorems about `CircuitBreaker` | section 4 |
| `ProviderWrapper` (extends `CircuitBreaker`) | `Chat`/`ChatStream` through the breaker, and their traces | the composition of wrapper and breaker |
| `MCProviderWrapper` | instances for TLC | |
| `NativeExecutor` | one `Run` of the agent loop | provider and tools are the environment |
| `MCNativeExecutor`, `NativeExecutorProofs` | instances; theorems | |
| `StreamReader` | the reading goroutine, the channel, the context, the consumer | the body is the environment |
| `MCStreamReader`, `StreamReaderProofs` | instances; theorems | |
| `TokenBucket` | `Allow` and `Configure` under a clock that moves any way | exact arithmetic |
| `MCTokenBucket`, `ServicesProofs` | instances; theorems | |
| `StoreAbstract` | what the store and the retriever promise | a question, one moment at which it is decided, an answer |
| `MemoryStore` | the map, batches, ranking | operators and atomic writes |
| `BasicRetriever` (extends `MemoryStore`) | `Retrieve` by any number of goroutines, over one store others write to | the composition of retriever and store |
| `MCBasicRetriever`, `RetrievalProofs` | instances; theorems | |
| `OpenAIAdapter` (extends `ProviderWrapper`) | one HTTP exchange through the adapter, the wrapper and the breaker | the composition of the three; another provider may answer in its place |
| `FallbackCache`, `ServicesProofs` | `Get` and `Set` by any number of clients | two steps each, because of the clock |
| `ToolRegistry`, `ServicesProofs` | `Register`, `Get`, `LLMTools`, and callers that edit their maps | a map is a cell, who holds a map holds the cell |
| `ObservabilityLifecycle`, `ObservabilityProofs` | the three operations behind one mutex | the call of the exporter is a step of its own |
| `ChainRecorder`, `ObservabilityProofs` | `Record`, `FindByRequestID`, and users that edit what they passed and were given | cells again |
| `TraceExport`, `ObservabilityProofs` | one trace on its way through a protected tee | each tracer takes, drops or panics |
| `MCServices` | instances of limiter, cache, registry, lifecycle, recorder, export | one at a time, see below |
| `RecursiveChunker`, `RetrievalProofs` | one `Chunk` | a chunk is a window |
| `RetrievalMetrics`, `EvaluationProofs` | Recall@k, MRR and NDCG@k of every small ranking | properties compare rankings |
| `EvalRunner`, `EvaluationProofs` | `LocalRunner.Run` with any system under test and any metrics | one step per prediction and score |
| `P0Smoke` (extends `EvalRunner`), `EvaluationProofs` | `RunP0` and the command's exit | the composition of runner, golden fake, metrics and traces |
| `MCRetrieval` | instances of retriever, chunker, metrics, runner, smoke | one at a time |
| `MCOpenAIAdapter`, `OpenAIAdapterProofs` | instances; theorems about exchange, wrapper and breaker together | |
| `MCAgentCalls` | instances of executor, adapter and stream | one at a time, see below |

### Correspondence with the code

**`CircuitBreaker`.** `state`, `consecutiveFailures`, `halfOpenSuccesses` and
`halfOpenInFlight` are the struct's fields. `openedAt` is kept as `sinceOpened`,
its age, which saturates at the recovery timeout because nothing the code does
distinguishes greater ages. `call[c]` is where goroutine `c` is: outside, or
inside the protected function as a plain call or as a probe (the boolean that
`beforeCall` returns). `AdmitClosed`, `AdmitFirstProbe`, `AdmitProbe` and
`Reject` are the branches of `beforeCall`; `PlainSucceeds`, `PlainFails`,
`ProbeSucceeds` and `ProbeFails` those of `afterCall`; `Panics` is a call that
unwinds without reaching `afterCall`, which is not deferred. `elapsed` is how
long a call has been inside the function; the HTTP client's timeout bounds it
(`MaxCallTime`). `lastResult` is history: what `afterCall` was last told, which
the refinement needs so that no reported result can be passed over. A call whose context is already done touches nothing and has
an action only in the wrapper.

**`ProviderWrapper`** adds the provider's results, the closure that turns them
into success or failure for the breaker (`CountsAsFailure`) and `recordOutcome`,
which reads the breaker's state in a step of its own.

**`NativeExecutor`.** `phase = "chat"` is the head of the outer loop, `"tools"` the
inner loop over the calls of one response, of which `batch` holds the rest.
`pendingStep` is the observation that the code holds back until it knows how
the step ended the run; `observations` is what reached the tracer. Each way out
of the loop is an action (`ChatFails`, `OverBudget`, `GivesAnswer`, `AsksForTools`
with no call, `DetectLoop`, `ToolFails`, `ToolTimesOut`, `ToolSucceedsLast`).
`chats` and `steps[..].timedOut` are history. The messages are not modelled.

**`StreamReader`.** An event of the body carries text or not, at most one
fragment for each index and a finish reason; a fragment is remembered as the
number of the event it came in, so that properties can follow every fragment to
the chunk it ended in. A fragment opens a JSON object, closes it, or is empty:
enough to tell arguments that decode, arguments that do not, and no arguments,
which the code takes for an object without members (`Decodes`). `ctx` says
whether the request's context is live. `outbox` holds the chunks of one event that are still to
be sent: `pc = "sending"` is a goroutine inside `sendStreamChunk`, whose two
`select` branches are `Send` and `GiveUp`.

**`TokenBucket`.** Tokens are counted in parts, one token being `period` parts,
so that a tick refills `rate` parts and no rounding occurs; the code's float64
rounding is not modelled. `grants` is history: the times at which calls were
granted.

**`MemoryStore` and `BasicRetriever`.** `Upsert` validates the whole batch and
then writes it under the lock, `RejectedKeeps` is the return before the lock. All searches use the same query vector,
so a stored vector is its similarity to it (`score`) and the one tag filters
look at. `Retrieve` goes through `pc`: `"embedding"` until the embedder returns
and `Search` has looked at its context, `"locking"` until the read lock is
granted, `"ranking"` while `Search` works through its copy: `rest` is what is
left of the copy, `hits` what was found. `Ranks` is one turn of the loop with
its check of the context; `Answers` sorts, cuts, builds the chunks, records the
observation and returns. `outcome` is history: what the last call returned and
what was recorded of it, `"none"` if nothing was, for want of a tracer or
identity or because the tracer panicked. `Health` has no effect.

**`OpenAIAdapter`.** An exchange is told by how far it came (valid, the context
at entry, how sending ended, the status, the body); `ChatResult` lists the
returns of `Chat`, `ChatStream` and `doChatRequest` in their order and yields
one of the wrapper's `ProviderResults`. `exchange` keeps what a caller met with
until its outcome is recorded; only properties read it. `Foreign` is another
implementation of `llm.Provider`. The bodies in `Unfinished` are those the
decoder does not reach the end of: out of time, broken off, or given up by the
caller; the code makes one error of the three.

**`FallbackCache`.** `Stamp` is `Set` up to the lock, `Store` under it;
`LookupFinds` is `Get` under the read lock, `Judge` after it, with a clock that
may have moved. `of` and `ttl` of an entry are history.

**`ToolRegistry`.** `Validates` is `validateToolRegistration`, outside the lock;
`Stores` and `RejectsDuplicate` are `Register` under it. `OwnCell`, `KeptCell`
and `CopyCell` are the map a tool's author holds, the registry's, and a
reader's; `CallerEdits` changes the first and the last. A map that is just
being registered is not edited: that would be a data race of the caller's.

**`ObservabilityLifecycle`.** `asked` is where a caller is, `CallsExporter` sets
the flag and enters the exporter under the mutex, `ExporterReturns` is its
return, its error or the panic that `runLifecycleExporter` recovers from.
`exported` and `exports` are history.

**`ChainRecorder`.** `Builds` is `Record` up to the lock, `Records` under it
and its return. A text is a word and whether it is padded, which is all that
`strings.TrimSpace` tells apart. `stored` maps the kept chain of each id and the
slices of each user to a chain; `HeldCell` is what a user goes on with, the
slices it passed to `Record`, the chain it got back, or one it looked up
(`CloneCell`), and `UserEdits` cuts those in place. `latest` is history.

**`TraceExport`.** `turn` is the position in the tee's loop. `Drops` is a trace
that a tracer does not pass on, `Panics` what is behind a tracer panicking: the
OTel-style adapter swallows it, any other panic unwinds the tee up to
`RecordWithExportFailureProtection` or, without it, to the caller. A tracer that
panics may have written the trace before, or not. The only production caller of
the protection (`retriever.go:207`) discards the status.

**`RecursiveChunker`.** A document is its length; a chunk is the half-open window
its content is cut from. **`RetrievalMetrics`** scores one ranking per state and
moves from cutoff to cutoff; gains are integers that fall with the rank, since
the properties use no more of `1 / log2(rank + 1)`.

**`EvalRunner`, `P0Smoke`.** `phase`, `at` and `scored` are the position in the
two loops of `Run`. Scores are multiples of `1 / Unit`, or NaN, which `clampScore`
lets through. `Stripped` is what `strings.TrimSpace` leaves of an id or a name:
evidence is kept under that (`Evidence`), `sums` under the name as it came. A
dataset is any sequence of samples: only `JSONDataset` refuses blank ids. The
smoke replaces the prediction by rendering, calling and tracing one sample
(`PredictSample`, `ChatFails`, `RenderFails`), the scores by `exact_match` and
`context_hit`, and adds `Exits`. `exitCode = NoCommand` says that the runner is used without the
command, and its properties then say nothing.

**`MCAgentCalls`, `MCServices`, `MCRetrieval`.** These put components that share
no variable beside each other: the variable `service` (`part`) is chosen initially and says
which of them moves, the others rest in an initial state. Each property reads
the variables of one component, so the run checks each component on its own.

## 3. Runs

Passing runs:

| Run | Instance | Shows |
|---|---|---|
| `breaker_documented` | 4 callers, threshold 3, default window and probes (1), calls of at most 3 ticks in a window of 4, panics allowed | with calls shorter than the window and one probe at a time the breaker implements `BreakerAbstract`; the window is honoured, HALF_OPEN holds one caller, only a full streak trips |
| `breaker_slow` | 3 callers, threshold 2, window 2, 2 probes, calls of up to 3 ticks, no panics, fair | slots are not lost, HALF_OPEN ends, and a provider that has healed gets its traffic back although calls overlap whole periods |
| `agent_calls` (`MCAgentCalls`) | executor: 3 tools of which one is unknown, 3 steps (the default limit), budget 3, up to 2 tokens and 2 calls per response, fair | bounded steps and provider calls, no repeated call, budget guarded, no step observed twice or out of order and every one but possibly the last observed, with a limit that ended the run last; every run ends |
| | adapter: 2 callers, threshold 1 and one probe (the defaults), calls shorter than the window (which the default times are not), panics allowed, fair; every exchange that differs from a good one in one respect, and any result of another provider | the circuit opens at what the provider contract calls failures of the upstream and at nothing else, and every fault that the adapter reports as one opens a closed one; the trace still shows it open; a trace of success belongs to an answer that was understood; an outage is noticed |
| | stream: 2 indexes, bodies of up to 3 events (`ToolEvents`), fair | fragments kept and in order, an error is last, calls follow their finish chunk, cuts are reported, cancellation releases the goroutine, a patient consumer reaches the end |
| `limiter_rate` (`MCServices`) | limiter: 2 keys, rate 2 per 3 ticks (and an invalid rate and period, which lift the limit), 6 instants in any order | the rate is held over every interval; a denial means that less than a token's time has passed |
| | cache: 2 users of a tenant, 2 clients, times to live and stale windows of 0 and 1, 4 instants | answers are served by age and to their scope |
| | registry: 4 tools (two of one name, one without), 2 registrants, 1 reader, valid and invalid schemas edited at will | the first tool of a name keeps it as it was, valid, and what was offered stays callable |
| | lifecycle: 3 callers, with and without exporter, fair | one call of each kind, settled answers, remembered failures, nobody waits for ever |
| | recorder: 2 users that record, look up and edit, one request id with and without padding, refused inputs | chains stay as recorded and are found unless padded |
| | export: up to 3 tracers of 4 kinds in any order, protected or not, panicking before or after they have the trace | what callers see, and what a status says of who has the trace |
| `retrieval` (`MCRetrieval`) | retriever: one, and a store of 3 ids, 3 records (one below the threshold, one with another tag), batches of up to 2 vectors with valid and invalid ones, topK 1 with a filter and 2 without | a retrieval answers from one moment of the store, best first, or fails as a whole; a batch is written whole or not at all |
| | chunker: documents of 0, 1, 5 and 6 runes, blank ones, sizes and overlaps from -1 to 4 | no rune lost, overlaps as configured, all or nothing, and windows that follow from their numbers |
| | metrics: every ranking of up to 4 out of 4 spellings of 2 documents, every relevant set, cutoffs 0 to 5 | recall and NDCG agree with their definitions on sets; promoting a relevant document hurts no score, widening the window loses no hit |
| | runner: no, one and two samples with padded and blank ids, metric lists that are empty, repeated, padded, blank or unnamed, raw scores out of bounds and NaN; smoke: datasets of up to 2 out of 7 samples, each odd in its own way | whole runs only, backed by evidence and traces; scores in bounds but for NaN without evidence; golden answers get full marks; exit 0 means a whole run |

Violations, each a disagreement between the code and what the repository says
of it (`findings` in `PROJECT.json` quotes the lines):

| Run | What happens |
|---|---|
| `breaker_slow_window` | a probe that outlives its HALF_OPEN succeeds late and closes a breaker that has just opened: OPEN -> CLOSED without any window |
| `wrapper_cancelled_probe` | a probe whose caller gave up is reported as a success and closes the breaker although the provider never answered |
| `adapter_timeouts` | the body of a response runs out of time: the error is no `ErrUpstream`, which the provider contract wants of every timeout, and the breaker counts an answer |
| `executor_lost_step` | the provider call after a tool fails, exceeds the budget or carries no tool call, and the tool's step is never recorded |
| `executor_false_timeout` | the caller cancels during a tool; the step is recorded as a timeout |
| `stream_lost_tool_call` | `finish_reason=stop` and the end of the body, without `[DONE]`, while tool calls are being put together: the stream closes silently and the calls are lost |
| `export_swallowed` | the sink behind the OTel-style adapter panics; the adapter swallows it and the protected caller gets the empty status, although the failure should be diagnosable |

The same models show more with other constants: with `MaxCallTime` above the
window `ProbeLimit` fails (calls of earlier periods are still inside the
provider when HALF_OPEN admits its probes); with two probes `TripNeedsStreak`
fails even for timely calls (a probe of an earlier HALF_OPEN fails late and
trips a CLOSED breaker); with `FnMayPanic` in `breaker_slow`, `NoSlotLeak` and
`HalfOpenResolves` fail (the slot of a probe that panicked is never given back);
with calls that outlast the window `FailureTraceShowsTrip` fails (a late failure
reopens HALF_OPEN and a probe still running closes it before the state is read).

### Promises

A component that shares a run with others states what it promises as one
property, the conjunction of named parts; TLC reports the part that fails. The
mutants in `PROJECT.json`, mostly several for each promise, break it through
different parts.

| Promise | Parts | In words |
|---|---|---|
| `FaultsDecide` (wrapper, adapter) | `WrapperTypeOK`, `OnlyUpstreamTrips`, `OnlyUpstreamFailuresOpen`, `ServerFaultsOpen` | the circuit is opened by each fault the adapter reports as the upstream's, and by nothing that the contract does not count among the upstream's failures |
| `ObservationsTell` (executor) | `StepsObservedOnce`, `LimitsObserved` | steps are observed in order and none twice, only the last may be missing, and a limit that stopped the run is observed last |
| `ChunksInOrder` (stream) | `ReaderTypeOK`, `ErrorIsLast`, `ToolCallsFollowFinish` | chunks arrive in the order the protocol gives them |
| `AnswersAsAsked` (cache) | `CacheTypeOK`, `ServedByAge`, `AnswersItsScope` | exact, stale or nothing by age alone, to its scope alone |
| `ContractsHold` (registry) | `RegistryTypeOK`, `ContractValid`, `OfferedAreCallable`, `ContractFrozen` | a name stands for one valid contract for good |
| `ExporterContained` (lifecycle) | `LifecycleTypeOK`, `ExporterCalledOnce`, `FailureIsRemembered`, `AnswersAreSettled` | one call of each kind, no failure forgotten, nobody ahead of it |
| `ChainsKept` (recorder) | `ChainTypeOK`, `KeptAsRecorded`, `FoundUnlessPadded` | a chain stays as recorded, whoever edits what went in or came out, and is found, unless its id came padded |
| `StatusIsTrue` (export) | `ExportTypeOK`, `CallersUnharmed`, `StatusSaysWhoHasIt` | protected callers are unharmed; a failure says that nobody behind the one that panicked has the trace, an empty status that all had their turn |
| `ChunksWhole` (chunker) | `ChunkerTypeOK`, `ChunksCoverText`, `ChunksAllOrNothing`, `ChunksDeterministic` | the whole document in windows its length and the configuration determine, or nothing |
| `MetricsFair` (metrics) | `RecallIsShareFound`, `PerfectIffRelevantFirst`, `PromotionNeverHurts`, `WiderNeverLoses` | recall and a perfect NDCG mean what they say, a relevant document that moves up never hurts, a longer window loses no hit (NDCG may fall: `retrieval_metrics_test.go:73-82`) |
| `ReportSound` (runner) | `EvalTypeOK`, `ReportBacked`, `ScoresInUnit` | a report is of a whole run, its sums are those of its evidence, joined by trimmed names, and no average leaves [0, 1] except by NaN in a run without evidence |
| `SmokeSound` (P0 smoke) | `EvidenceTraced`, `GoldenSmokeIsPerfect`, `ExitBacked` | scores, answers, traces and the exit code tell of the same run, sample by sample in their order |

`OutageOpens`, `LoopTerminates` and `StreamDrains` are `OutageTrips`,
`Terminates` and `StreamEnds` of the three modules, each where its part of
`MCAgentCalls` moves.

### Bounds

- Breaker: three goroutines are enough for a probe, a straggler of an earlier
  period and a plain call at once; the fourth in `breaker_documented` lets a
  streak of three come from overlapping calls. Counters need no bound of their
  own: the code resets them at thresholds. Time needs none: ages saturate.
- Executor: three steps are one more than a repetition across responses needs,
  batches of two put the limit, the loop and the unknown tool inside a batch;
  `MaxUsage` and `TokenBudget` let the budget be met exactly and exceeded on
  any call. `MaxBatch` and `MaxUsage` are the only bounds on the environment.
- Stream: three events are enough to begin two calls, continue them in either
  order and finish, or to begin a second batch after the first (`MaxEvents`).
  `ToolEvents` leaves out events whose two fragments differ in kind, which two
  events bring about as well, and text beside fragments, which is sent like the
  chunk of a finish reason.
- Limiter: six instants (`MaxClock`) are two periods, enough for a bucket to
  drain, refill partly, refill fully and meet a clock that goes back and forth.
  `grants` grows with them only, since each grant consumes refilled tokens.

- Retrieval: three ids of which two are asked for make the cut and its ties
  visible, and batches of two are half invalid, in either half, or name an id
  twice. One retriever is enough for TLC because retrievers share only the
  store, which they do not write; two retrievers with two ids were run once
  (478 thousand states), and the theorem holds for any number.

- Adapter: two callers give every overlap; one odd respect per exchange is
  enough because `ChatResult` returns at the first.
- Cache: four instants (`MaxCacheClock`) hold a time to live, a stale window and
  the moment after both, with a client stuck between its two steps all along.
- Registry: two registrants race for one name with different tools; one reader
  is enough, since readers share only what they do not write.
- Lifecycle: three callers are one in the exporter and two that compete.
- Recorder: two users overwrite each other, and one edits while the other
  records or looks up.
- Export: three tracers (`MaxTracers`) put one before and one behind a panic.
- Chunker: sizes up to 4 on 6 runes give windows that end before, at and past
  the end, and last windows inside the one before; proved for all values.
- Metrics: four ranks (`MaxRanked`) hold a duplicate, a blank, a hit and a miss.
- Runner and smoke: two samples are enough to fail after the first and to
  mistake one for the other.

Symmetry over callers is used in `breaker_documented` only, whose properties are
all safety properties that treat callers alike. `CHECK_DEADLOCK FALSE` appears
where the system really ends: one run of the executor, one stream, one chunking,
one evaluation. In `agent_calls` and `limiter_rate` deadlock is checked, because
neither a goroutine nor a caller may be stuck; there the ends of a run
(`RunEnded`), of a stream (`StreamEnded`) and of a recorded trace (`ExportEnded`)
stutter explicitly.

### Fairness

- `CircuitBreaker!FairSpec`: time passes; a call returns, because the HTTP
  client has a timeout (`provider.go:70-76`); some caller is always about to
  call, no particular one: a breaker without traffic has no reason to move.
- `ProviderWrapper!WrapperFairSpec`: the same, and recording is straight-line
  code that finishes.
- `NativeExecutor!RunFairness`: the run is one goroutine, the provider and the
  tools return. A tool that ignores its context would hang `Run`; that is an
  assumption, not a result.
- `StreamReader!ReaderFairness`: a read returns (client timeout or the end of
  the request's context) and a runnable goroutine runs. The consumer has no
  fairness in `CancelReleases`, and in `StreamDrains` only as its premise.
- `OpenAIAdapter!AdapterFairness`: the wrapper's fairness; every exchange ends,
  the HTTP client having a timeout of its own. `MCAgentCalls!AgentSpec` demands
  the three of the part that moves.
- `ObservabilityLifecycle!LifecycleFairness`: the exporter returns (weak
  fairness; it is foreign code and the one assumption), and `sync.Mutex` starves
  no waiter (strong fairness: its starvation mode hands the mutex over after a
  millisecond), although other callers go on asking.
- `TokenBucket` and `BasicRetriever` have no liveness property: a search ranks
  a finite copy, whatever is written meanwhile.

## 4. What is proved

`tlapm` checks every proof to its leaves; the theorems hold for any set of
callers, tools and keys and every configuration the assumptions allow.

**Breaker** (`CircuitBreakerProofs`). `TypeCorrect`: every counter is in its
range, always. `SlotsNotLeaked`: if the function never panics
(`FnMayPanic = FALSE`), `halfOpenInFlight` is at most the number of running
probes. The rest assumes `Timely`: `MaxCallTime < RecoveryTimeout`, which the
defaults of the repository do not satisfy (60 s and 30 s). `TimelyInvariant` is
the inductive invariant: in OPEN whoever is inside the function entered before
the trip (`StragglersAreOld`), so that by the time the window is over nobody is
left; hence in HALF_OPEN only probes of this period run, each with a slot
(`OnlyProbesRun`); and the probes that outlive HALF_OPEN are too few, together
with the successes counted, to close the breaker (`FewStragglers`). The window
and the probe limit alone are not inductive: nothing in them speaks of the
calls still running. From it follow `ProbeLimitHolds` and `WindowIsHonoured`,
and with one probe (`HalfOpenMaxProbe = 1`) `TripsOnlyOnStreak` and
`BreakerImplementsDocumented`, the refinement of `BreakerAbstract`.

**Executor** (`NativeExecutorProofs`). `LoopInv` says what holds at each place
of the loop: the last call is the last executed one while the run goes on, the
number of provider calls is tied to the number of steps, the limit is not
reached, the budget is not exceeded. It is inductive together with
`RunTypeOK`; `StepsAreBounded`, `BudgetIsGuarded` and `CallsDoNotRepeat` follow.
`ObservationsAreTrue` has an invariant of its own, `ObservedInv`, which says for
each way a run can go what has been observed of it: while it goes on, all steps
but the latest, in order (`Awaiting`); afterwards what its last step added to
that. The two parts of `ObservationsTell` are not inductive: they leave open
what the pending observation will be of. They do not say that the last step is
observed, which `executor_lost_step` refutes.

**Adapter, wrapper, breaker** (`OpenAIAdapterProofs`). Every step of an exchange
is a step of the breaker or leaves it alone (`AdapterImplementsBreaker`), so all
that is proved of the breaker holds behind the adapter, the documented machine
included (`AdapterFollowsDocumentedMachine`). `AdapterInv` ties a caller's
unrecorded outcome to the exchange it came from: an outcome that counts as an
answer belongs to an exchange that was understood. With it `FaultsAreDecisive`
and `SuccessTracesHaveAnswers` hold without further assumptions; that a timeout
in the body opens the circuit as well is what they cannot say.
`FailureTracesShowTrips` assumes `Timely` and a threshold of one, the default;
its invariant `TripStands` says that an upstream failure which is not recorded
yet leaves the circuit open and of age zero. It is here that `TimelyInvariant`
is needed: a late probe of an earlier period could close the circuit in between.

**Stream** (`StreamReaderProofs`). `StreamInv` holds for any indexes, events and
length of the body. `Kept` accounts for every fragment: it is in the buffer of
its index or in one chunk of that index, never in both or in two, and always in
the order of arrival. `CallsFollow` and `ErrorIsLast` speak of what was produced,
sent or not, and `Endings` says what a place in the code lets one conclude of
the body, which is what `CutsAreReported` needs. The chunks of a batch are built
by sorting the indexes; that an increasing enumeration of a finite set of
numbers exists and leaves nothing out is `InOrderSorts`.

**Limiter** (`ServicesProofs`). `RateIsHeld` needs a potential argument: for
each granted call, the tokens in the bucket now plus the calls granted since it
never exceed the bucket's size plus what the time since has paid for
(`Credit`); a refill adds to the right side at least what it adds to the left,
and a grant moves one token from the bucket to the count. `Credit` also says
that the granted times do not decrease, which is where the code's refusal to
move `lastRefill` back is needed. `DenialsAreDue` is the other half:
`Patient` says that a bucket has all that the time since its last granted call
has earned, or is full, whatever polls it in between.

**Retriever** (`RetrievalProofs`). `RetrieverImplementsAtomicStore` maps
the abstract decision to the hits found so far together with those still to be
found in the rest of the copy; a write of the store is a write of the whole
batch or no step at all (`WriteRefines`, `BatchWritten`); ranking moves a vector from the second to the
first and leaves the sum alone (`RanksRefines`), copying is the moment of the
decision (`CopiesRefines`), and what `Ranked` cuts from the sorted hits is a
best answer in the sense of the abstract specification (`RankedBest`), for
which the hits have to be finite (`FiniteHits`). That a sorted arrangement of
the hits exists is left to TLC.

**Cache** (`ServicesProofs`). `CacheInv` says of every entry, in the map or
carried by a client, that it expires when its `Set` asked for (`CacheTypeOK`)
and that it is where its scope belongs (`InPlace`). `AnswersServedByAge` and
`ScopesAreKept` follow from it for one step of `Judge`, whatever the clock shows
by then.

**Registry** (`ServicesProofs`). `RegistryInv` adds to the types and the
stated invariants that a tool which waits for the lock is still valid
(`StillRegistrable`): that is what makes `ContractsAreValid` inductive although
validation and storing are two steps. That cells of different kinds differ
(`CellsDiffer`) gives `ContractsAreFrozen` and `OffersStayCallable`: no edit
reaches the registry's own map. The assumption is that of the model: nobody
edits a map while it is being registered.

**Lifecycle** (`ObservabilityProofs`). `CallsMatch` ties what is running
to the caller that is inside, and what was called to the flags; with the mutex's
`LifecycleTypeOK` it is inductive and gives `ExporterIsCalledOnce`,
`FailuresAreRemembered` and `AnswersWaitForExporter` for any number of callers.

**Recorder, export** (`ObservabilityProofs`). `ChainInv` says that the cell of
a recorded request holds the chain recorded last, and that what a user holds is
its own cell, whole or cut; `RecordedChainsAreKept` needs both, since it is the
users' slices, passed or given, that are edited. `ExportInv` follows the tee:
collectors that had their turn have the trace, a turn passes a panic only behind
the OTel-style adapter, and the call ends at any other panic or behind the last
tracer. `ExportStatusIsTrue` reads off what each status lets a caller conclude;
whether the tracer that panicked has the trace is open, and an empty status does
not exclude a loss, as `export_swallowed` shows.

**Chunker** (`RetrievalProofs`). `WindowsInPlace` gives every window's
place by its number, `Progress` ties the start of the next to the number of
windows cut. `TextIsCovered` then needs only that a step is no longer than a
window, `CoveredWhenDone`; all for every length, size and overlap.

**Runner and smoke** (`EvaluationProofs`). `EvalInv` says how far the two loops
have come (`RunShape`), that the n-th evidence belongs to the sample and the
metric of the n-th turn, both trimmed (`EvidenceInOrder`), that every sum is the
total of its evidence if no other name is trimmed to the same (`SumsBacked`) and,
if no metric is listed twice, that a metric which has scored r samples has at
most r points, or is NaN in a run without evidence (`SumsBounded`).
`ReportsAreSound` follows for any metrics and raw scores. `SmokeInv` adds that the traces are those
of the samples so far, in order, that a failed one is the last, and that evidence
carries the identity of its own sample's trace, by position: samples whose ids
share a sanitised part share the identity; `FullMarks` counts the points of golden answers, which
`context_hit` divides and multiplies by the same number. With them
`SmokeGateIsSound`.

**Metrics** (`EvaluationProofs`). A first hit stands for a document, and the
ranks of first hits are in bijection with the documents found
(`HitsAreDocuments`); that is recall. `FrontIsBest`: no c hits are worth more
than c hits in front, and no others as much, by induction over the ranks with the
number of hits so far. That is NDCG: at most 1, and 1 only for the ideal ranking.
`HitsOfPromotion` shows that moving a relevant document up leaves the hits as
they are, moves one of them, or adds one at the edge of the window, when the
document was hidden behind it; each can only help. A longer window keeps the hits
and the first rank (`WiderScoresNoWorse`); of NDCG, whose ideal grows with it,
nothing of the kind holds or is claimed. `MetricsAreFair` puts these
together for rankings of any length and any falling discounts.

Induction. The library's induction theorems take an operator as a parameter,
which the provers cannot instantiate. The sums here are therefore reasoned about
by the least counterexample: `LeastMember` follows from the library's theorem on
minimal elements (`WFMin`), whose parameter is a set, and gives `Induction` for
sets of numbers. `TotalsAgree` and `TotalExists` then say that the recursive
functions in the model are the running totals they look like.

`CacheKeepsItsPromise`, `RegistryKeepsContracts`, `LifecycleContainsExporter`
and `ChunksAreWhole` put the parts of these four components together: they
state the promises that the runs check.

Every invariant and every action property of the passing runs is stated by a
theorem. The assumptions on constants are those of the modules, and TLC evaluates
them in the runs. They are types and distinctness of names, but for these:
configuration values are any integers, because the code normalises them; a
cutoff, too. `MetricsAssumption` lets the discounts be any falling positive
numbers. `RunnerAssumption` and `SmokeAssumption` say that datasets, metric lists
and relevant contexts are sequences, as slices are. `ChainAssumption` says that a
chain is not the absence of one. `Timely` and `FnMayPanic = FALSE` are no
assumptions of a module but hypotheses of the theorems that name
them; section 3 says what fails without.

Only model-checked: the liveness properties `HalfOpenResolves`, `Recovers`,
`OutageOpens`, `LoopTerminates`, `CancelReleases`, `StreamDrains` and
`CallersReturn`.
They rest on fairness and so on `ENABLED`, for which this prover has no rules.
That the hits of a search can be sorted at all (`RetrievalProofs`) is checked by
TLC, too: a theorem about its answers does not need it, only that they come.

## 5. Not modelled

- Text: redaction, safe summaries, correlation headers, baggage, attribute
  mapping, prompt rendering, hashing of cache keys. They map one value to
  another, keep no state and see no order of events; table tests reach them.
- The chain smoke (`observability_chain.go`): one sequential call that maps a
  name from a table of scenarios to the records of one request; what it can get
  wrong is the table, and its table tests read that.
- Files and HTTP posts: the prompt store, the dataset parser, the platform
  smoke, the server. What they yield is input here (a dataset loads or not).
- `observability.go`, `observability_resource.go`: which exporter a
  configuration asks for.
- `error` values as such (`internal/apperror`): a result is a model value.
- float64: the limiter's tokens, the averages and the gains are exact here; the
  similarity of vectors is given.
- Interfaces without an implementation: failover, model routing.
- Schemas with values that `cloneSchemaValue` shares (`registry.go:181`), and
  foreign code called under a read lock (`registry.go:94`): hazards with a note
  in `PROJECT.json`.
- The content of the conversation the executor keeps (`executor.go:170`).

## 6. What could come next

1. The wrapper's stream composed with the reader, as evidence that failures in
   the middle of streams never reach the breaker (`provider_wrapper.go:116`).
2. FR-004 of `specs/002-dual-plane-observability/spec.md:82` against
   `rag/retriever.go:79`: failed retrievals are not observed. The abstract store
   leaves open whether they are, so that it need not change with a repair.
3. A proof that the runner's loops and the recorder refine abstract
   specifications of their own, as breaker and retriever do.
