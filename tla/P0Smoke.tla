------------------------------- MODULE P0Smoke -------------------------------
(***************************************************************************)
(* internal/eval/smoke/p0.go and cmd/eval-smoke: the local gate.  RunP0    *)
(* has LocalRunner predict every sample by rendering the prompt, asking a  *)
(* fake provider made of the golden answers (or an injected one, which may *)
(* fail) and recording a trace of the call, and scores it with exact_match *)
(* and context_hit; the command exits with 0 if there was a report.        *)
(* A sample is its id, the part of the id that is left in trace ids, its   *)
(* golden answer, and its relevant contexts, each of them blank or not.    *)
(***************************************************************************)
EXTENDS EvalRunner, FiniteSets

CONSTANTS
  NoExit,      \* the command is running
  NoCommand    \* the runner is used by something else

VARIABLES
  traces,     \* traceRecorder.traces
  exitCode    \* of cmd/eval-smoke

smokeVars == <<evalVars, traces, exitCode>>

\* smokeMetrics
SmokeMetrics == <<"exact_match", "context_hit">>

ASSUME SmokeAssumption ==
  /\ NoExit \notin {0, 1}
  /\ {SmokeMetrics[k] : k \in DOMAIN SmokeMetrics} \subseteq MetricNames
  /\ \A dataset \in Datasets : \A i \in DOMAIN dataset :
       LET relevant == dataset[i].relevant IN
       relevant \in Seq({relevant[k] : k \in DOMAIN relevant})

SmokeInit ==
  /\ EvalInit
  /\ metrics = SmokeMetrics
  /\ traces = <<>>
  /\ exitCode = NoExit

-------------------------------------------------------------------------------

\* Mutant: all samples share the identity of the first.
IdentityOfFirst(sample) == samples[1].part

\* correlationIdentityForP0Sample: ids that are sanitised to the same part
\* share one identity.
Identity(sample) == sample.part

\* Mutant: the golden answers are not told apart by sample.
GoldenAnswerOfModel(sample) == samples[Len(samples)].truth

\* newGoldenFakeProvider: a map by model name, where the last sample of an id
\* wins.
GoldenAnswer(sample) ==
  LET same == {i \in 1 .. Len(samples) : samples[i].id = sample.id}
      last == CHOOSE i \in same : \A j \in same : j <= i
  IN samples[last].truth

\* recordTrace
Recorded(status) ==
  traces' = Append(traces, [identity |-> Identity(samples[at]), status |-> status])

SmokeLoads ==
  /\ LoadsSamples
  /\ UNCHANGED <<traces, exitCode>>

\* The dataset, the prompt or the context.
SmokeRejected ==
  /\ RunRejected
  /\ UNCHANGED <<traces, exitCode>>

\* predictSample
PredictSample ==
  /\ phase = "predict"
  /\ Predicts([answer |-> GoldenAnswer(samples[at]),
               identity |-> Identity(samples[at])])
  /\ Recorded("success")
  /\ UNCHANGED exitCode

ChatFails ==
  /\ PredictFails
  /\ Recorded("failed")
  /\ UNCHANGED exitCode

\* Nothing is recorded of a prompt that does not render, or of a context that
\* ended between two samples.
RenderFails ==
  /\ PredictFails
  /\ UNCHANGED <<traces, exitCode>>

NonBlank(texts) == {i \in 1 .. Len(texts) : texts[i] # Blank}

\* ExactMatchMetric.Score of the current sample.
ExactMatchScores ==
  /\ samples[at].truth # Blank
  /\ prediction.answer # Blank
  /\ Scores(IF prediction.answer = samples[at].truth THEN Unit ELSE 0)

\* ContextHitMetric.Score, for a prediction that carries the relevant contexts
\* themselves: all are hit but the blank ones, which count all the same.
ContextHitScores ==
  LET relevant == samples[at].relevant IN
  /\ relevant # <<>>
  /\ Scores((Cardinality(NonBlank(relevant)) * Unit) \div Len(relevant))

SmokeScores ==
  /\ phase = "score"
  /\ IF metrics[scored] = "exact_match" THEN ExactMatchScores ELSE ContextHitScores
  /\ UNCHANGED <<traces, exitCode>>

SmokeScoreFails ==
  /\ ScoreFails
  /\ UNCHANGED <<traces, exitCode>>

SmokeReports ==
  /\ Reports
  /\ UNCHANGED <<traces, exitCode>>

\* run, runE: 1 for any error (writing the report may be one), else 0.
Exits(code) ==
  /\ exitCode = NoExit
  /\ phase \in {"done", "failed"}
  /\ phase = "failed" => code = 1
  /\ exitCode' = code
  /\ UNCHANGED <<evalVars, traces>>

SmokeNext ==
  \/ SmokeLoads
  \/ SmokeRejected
  \/ PredictSample
  \/ ChatFails
  \/ RenderFails
  \/ SmokeScores
  \/ SmokeScoreFails
  \/ SmokeReports
  \/ \E code \in {0, 1} : Exits(code)

SmokeSpec == SmokeInit /\ [][SmokeNext]_smokeVars

-------------------------------------------------------------------------------
(* Properties. *)

\* p0.go:61: the traces prove that each sample went through the provider: one
\* for every call, in the order of the samples, and only the last of a run
\* that failed may tell of a failure.  Every evidence has the identity of the
\* trace of its own sample, found by its position, and that call succeeded; the
\* identity alone does not single the trace out where ids are sanitised to one
\* part.
EvidenceTraced ==
  exitCode # NoCommand =>
    /\ Len(traces) <= Len(samples)
    /\ \A i \in 1 .. Len(traces) :
         /\ traces[i].identity = samples[i].part
         /\ traces[i].status = "failed" => phase = "failed" /\ i = Len(traces)
    /\ \A k \in 1 .. Len(evidence) :
         LET i == (k - 1) \div Len(metrics) + 1 IN
         /\ i <= Len(traces)
         /\ evidence[k].identity = traces[i].identity
         /\ traces[i].status = "success"

\* The fake provider's answers are the golden ones: a dataset whose ids differ
\* and that has no blank context gets full marks, so anything less tells of
\* the pipeline and not of the fake.
GoldenSmokeIsPerfect ==
  /\ exitCode # NoCommand
  /\ report # <<>>
  /\ \A i, j \in 1 .. Len(samples) : samples[i].id = samples[j].id => i = j
  /\ \A i \in 1 .. Len(samples) : \A k \in 1 .. Len(samples[i].relevant) :
       samples[i].relevant[k] # Blank
  => \A k \in 1 .. Len(SmokeMetrics) :
       report.sums[SmokeMetrics[k]] = report.count * Unit

\* The command exits with 0 only if every sample of the dataset was loaded,
\* answered, traced and scored.
ExitBacked ==
  exitCode = 0 =>
    /\ report # <<>>
    /\ report.count = Len(samples)
    /\ Len(traces) = Len(samples)
    /\ \A i \in 1 .. Len(traces) : traces[i].status = "success"

\* What the gate promises: scores, traces and exit code are about the same
\* samples, and only the pipeline can cost a golden answer its marks.
SmokeSound == EvidenceTraced /\ GoldenSmokeIsPerfect /\ ExitBacked
===============================================================================
