------------------------------ MODULE EvalRunner ------------------------------
(***************************************************************************)
(* pkg/ai/eval: LocalRunner.Run takes the samples of a dataset one by one, *)
(* has each predicted, has the prediction scored by every metric, adds the *)
(* scores up by metric and, if the run has an id, writes one evidence per  *)
(* sample and metric.  Anything that fails ends the run with no report.    *)
(* Scores are counted in parts of Unit, so that averages stay exact: an    *)
(* average is a sum together with the number of samples.  A score may also *)
(* be NaN, which no comparison holds of and every sum keeps.               *)
(***************************************************************************)
EXTENDS Integers, Sequences

CONSTANTS
  Datasets,       \* what a dataset may load: sequences of samples
  MetricLists,    \* metrics Run may be given: sequences of names
  MetricNames,
  Thresholds,     \* per name: WithMetricThreshold, or NoThreshold
  RawScores,      \* what a metric may return, out of bounds or NaN included
  Unit,           \* the score 1
  Blank,          \* a string of white space: an id, a name, a text
  Empty,          \* the empty string
  Stripped,       \* per id and name: what strings.TrimSpace leaves of it
  NaN,
  NoThreshold, NoIdentity, NoPrediction

ASSUME RunnerAssumption ==
  /\ Unit \in Nat \ {0}
  /\ RawScores \subseteq Int \cup {NaN} /\ NaN \notin Int
  /\ Empty \notin MetricNames
  /\ \A dataset \in Datasets : dataset \in Seq({dataset[i] : i \in DOMAIN dataset})
  /\ MetricLists \subseteq Seq(MetricNames \cup {Empty})

VARIABLES
  samples,      \* the dataset
  metrics,      \* metrics
  evalRun,      \* evidenceEnabled(): the run was given an id
  phase,        \* "called", "predict", "score", "report", "done", "failed"
  at, scored,   \* index of the sample and of the metric it is at
  prediction,   \* what was predicted for samples[at]
  sums,         \* sums, a function on all names; a missing name is 0
  evidence,     \* evidence
  report        \* the returned Report, or <<>>

evalVars == <<samples, metrics, evalRun, phase, at, scored, prediction,
              sums, evidence, report>>

inputs == <<samples, metrics, evalRun>>

EvalInit ==
  /\ samples \in Datasets
  /\ metrics \in MetricLists
  /\ evalRun \in BOOLEAN
  /\ phase = "called"
  /\ at = 0 /\ scored = 0
  /\ prediction = NoPrediction
  /\ sums = [name \in MetricNames |-> 0]
  /\ evidence = <<>>
  /\ report = <<>>

-------------------------------------------------------------------------------

Fails ==
  /\ phase' = "failed"
  /\ UNCHANGED <<inputs, at, scored, prediction, sums, evidence, report>>

\* A context that is done, missing arguments, a dataset without a name, and
\* everything that may go wrong with a file.
RunRejected == phase = "called" /\ Fails

\* JSONDataset.Load refuses blank ids, which is one of the above; of any other
\* dataset only that it has samples is looked at.
LoadsSamples ==
  /\ phase = "called"
  /\ metrics # <<>>
  /\ samples # <<>>
  /\ phase' = "predict"
  /\ at' = 1
  /\ UNCHANGED <<inputs, scored, prediction, sums, evidence, report>>

Predicts(predicted) ==
  /\ phase = "predict"
  /\ phase' = "score"
  /\ scored' = 1
  /\ prediction' = predicted
  /\ UNCHANGED <<inputs, at, sums, evidence, report>>

\* Mutant: a sample that cannot be predicted is left out.
PredictFailsSkips ==
  /\ phase = "predict"
  /\ IF at < Len(samples) THEN phase' = "predict" /\ at' = at + 1
     ELSE phase' = "report" /\ UNCHANGED at
  /\ UNCHANGED <<inputs, scored, prediction, sums, evidence, report>>

\* predict returned an error, or the context ended before.
PredictFails == phase = "predict" /\ Fails

\* Mutant: scores are added up as they are.
Unclamped(raw) == raw

\* clampScore
Clamped(raw) ==
  CASE raw = NaN -> NaN
    [] raw # NaN /\ raw < 0 -> 0
    [] raw # NaN /\ raw > Unit -> Unit
    [] OTHER -> raw

Plus(sum, score) == IF NaN \in {sum, score} THEN NaN ELSE sum + score

\* classifyRegressionStatus
Regression(name, score) ==
  CASE Thresholds[name] = NoThreshold -> "warning"
    [] Thresholds[name] # NoThreshold /\ score >= Thresholds[name] -> "passed"
    [] Thresholds[name] # NoThreshold /\ score < Thresholds[name] -> "failed"

\* validateEvaluationEvidenceInput: without a complete identity, with a blank id
\* or name, or with a score or a threshold out of bounds, there is no evidence,
\* and the run fails.
EvidenceBuilds(name, score) ==
  /\ prediction.identity # NoIdentity
  /\ Stripped[samples[at].id] # Empty
  /\ Stripped[name] # Empty
  /\ score \in 0 .. Unit
  /\ Thresholds[name] = NoThreshold \/ Thresholds[name] \in 0 .. Unit

\* NewEvaluationEvidence trims the sample's id and the metric's name.
Evidence(name, score) ==
  [identity |-> prediction.identity, sample |-> Stripped[samples[at].id],
   metric |-> Stripped[name], score |-> score, status |-> Regression(name, score)]

\* The next metric, the next sample, or the report.
Advances ==
  IF scored < Len(metrics) THEN scored' = scored + 1 /\ UNCHANGED <<phase, at>>
  ELSE /\ UNCHANGED scored
       /\ IF at < Len(samples) THEN phase' = "predict" /\ at' = at + 1
          ELSE phase' = "report" /\ UNCHANGED at

Scores(raw) ==
  LET name == metrics[scored] IN
  /\ phase = "score"
  /\ name # Empty
  /\ evalRun => EvidenceBuilds(name, Clamped(raw))
  /\ sums' = [sums EXCEPT ![name] = Plus(sums[name], Clamped(raw))]
  /\ evidence' = IF evalRun THEN Append(evidence, Evidence(name, Clamped(raw)))
                 ELSE evidence
  /\ Advances
  /\ UNCHANGED <<inputs, prediction, report>>

\* A metric without a name, one that returned an error (it also sees a context
\* that has ended), or an evidence that cannot be built.
ScoreFails == phase = "score" /\ Fails

\* averageScores
Reports ==
  /\ phase = "report"
  /\ phase' = "done"
  /\ report' = [count |-> Len(samples), sums |-> sums, evidence |-> evidence]
  /\ UNCHANGED <<inputs, at, scored, prediction, sums, evidence>>

\* Some runner with some system under test.
EvalNext ==
  \/ RunRejected
  \/ LoadsSamples
  \/ \E traced \in BOOLEAN :
       Predicts([answer   |-> Blank,
                 identity |-> IF traced THEN samples[at].id ELSE NoIdentity])
  \/ PredictFails
  \/ \E raw \in RawScores : Scores(raw)
  \/ ScoreFails
  \/ Reports

EvalSpec == EvalInit /\ [][EvalNext]_evalVars

-------------------------------------------------------------------------------
(* Properties. *)

\* Types; no more is added up than what has been scored, and no evidence is
\* kept by a run without an id.
EvalTypeOK ==
  /\ phase \in {"called", "predict", "score", "report", "done", "failed"}
  /\ at \in 0 .. Len(samples)
  /\ scored \in 0 .. Len(metrics)
  /\ sums \in [MetricNames -> Int \cup {NaN}]
  /\ \A i \in 1 .. Len(evidence) :
       /\ evidence[i].score \in 0 .. Unit
       /\ evidence[i].status \in {"passed", "warning", "failed"}
  /\ ~evalRun => evidence = <<>>

\* What items of evidence add up to for a metric.
Total(items, name) ==
  LET total[n \in 0 .. Len(items)] ==
        IF n = 0 THEN 0
        ELSE total[n - 1] + (IF items[n].metric = name THEN items[n].score ELSE 0)
  IN total[Len(items)]

\* No other metric of the run goes by the same name in the evidence.
Alone(name) ==
  \A j \in 1 .. Len(metrics) : Stripped[metrics[j]] = Stripped[name] => metrics[j] = name

\* runner.go:57-59: an average never mixes in a run that failed in part.  What
\* is reported has one evidence for every sample and metric, in their order,
\* none of them made up, under the id and the name without padding.  The sums
\* stay under the names as they came (runner.go:111) and are those of the
\* evidence, unless two names differ in their padding only.
ReportBacked ==
  report # <<>> /\ evalRun =>
    /\ Len(report.evidence) = report.count * Len(metrics)
    /\ \A i \in 1 .. report.count, j \in 1 .. Len(metrics) :
         LET item == report.evidence[(i - 1) * Len(metrics) + j] IN
         /\ item.sample = Stripped[samples[i].id]
         /\ item.metric = Stripped[metrics[j]]
    /\ \A name \in MetricNames :
         Alone(name) => report.sums[name] = Total(report.evidence, Stripped[name])

\* eval.go:41: a score lies between 0 and 1, so an average does, provided that
\* no two metrics share a name, which Run does not look at.  The exception is
\* NaN, which clampScore lets through (runner.go:170-178): a metric that returns
\* it makes its average NaN in a run without an id.  A run with an id fails
\* when the evidence is built (evidence.go:111), so no such report exists.
ScoresInUnit ==
  /\ report # <<>>
  /\ \A i, j \in 1 .. Len(metrics) : metrics[i] = metrics[j] => i = j
  => \A name \in MetricNames :
       \/ report.sums[name] \in 0 .. report.count * Unit
       \/ report.sums[name] = NaN /\ ~evalRun

\* What a report promises: a whole run, every score of which is in bounds and
\* has its evidence.
ReportSound == EvalTypeOK /\ ReportBacked /\ ScoresInUnit
===============================================================================
