---------------------------- MODULE EvaluationProofs ----------------------------
(***************************************************************************)
(* Proofs about evaluation: the runner, the P0 smoke that is built on it   *)
(* and the retrieval metrics, for any datasets, metrics and rankings.  The *)
(* sums they compute are recursive functions; what is said of them is      *)
(* proved by the least number for which it would fail.                     *)
(***************************************************************************)
EXTENDS P0Smoke, RetrievalMetrics, WellFoundedInduction, FiniteSetTheorems, TLAPS

-------------------------------------------------------------------------------
(* Induction, by the least counterexample: the library's induction theorems   *)
(* take a predicate as a parameter, its theorem on minimal elements a set.    *)

Below == {pair \in Nat \X Nat : pair[1] < pair[2]}

LEMMA LeastMember ==
  ASSUME NEW T \in SUBSET Nat, T # {}
  PROVE  \E m \in T : \A n \in T : m <= n
<1>1. IsWellFoundedOn(Below, Nat)
  BY NatLessThanWellFounded DEF OpToRel, Below
<1>2. PICK m \in T : \A n \in T : ~ (<<n, m>> \in Below)
  BY <1>1, WFMin
<1>3. ASSUME NEW n \in T, n < m PROVE FALSE
  <2>1. <<n, m>> \in Below
    BY <1>3 DEF Below
  <2> QED
    BY <1>2, <2>1
<1> QED
  BY <1>2, <1>3

LEMMA Induction ==
  ASSUME NEW P \in SUBSET Nat, 0 \in P, \A n \in P : n + 1 \in P
  PROVE  P = Nat
<1> SUFFICES ASSUME Nat \ P # {} PROVE FALSE
  OBVIOUS
<1>1. PICK m \in Nat \ P : \A n \in Nat \ P : m <= n
  BY LeastMember
<1>2. m - 1 \in Nat /\ m - 1 \notin Nat \ P
  BY <1>1
<1> QED
  BY <1>1, <1>2

-------------------------------------------------------------------------------
(* Running totals: what the recursive functions of the model compute. *)

AddsUp(f, weight, n) ==
  /\ f[0] = 0
  /\ \A k \in 1 .. n : f[k] = f[k - 1] + weight[k]

RunsTotal(f, weight, n) == f \in [0 .. n -> Int] /\ AddsUp(f, weight, n)

LEMMA TotalExists ==
  ASSUME NEW n \in Nat, NEW weight \in [1 .. n -> Int]
  PROVE  \E f : RunsTotal(f, weight, n)
<1> DEFINE P == {k \in Nat : k <= n => \E f : RunsTotal(f, weight, k)}
<1>1. 0 \in P
  <2>1. RunsTotal([k \in 0 .. 0 |-> 0], weight, 0)
    BY DEF RunsTotal, AddsUp
  <2> QED
    BY <2>1
<1>2. ASSUME NEW k \in P PROVE k + 1 \in P
  <2> SUFFICES ASSUME k + 1 <= n PROVE \E f : RunsTotal(f, weight, k + 1)
    OBVIOUS
  <2>1. PICK f : RunsTotal(f, weight, k)
    OBVIOUS
  <2> DEFINE g == [i \in 0 .. k + 1 |-> IF i <= k THEN f[i] ELSE f[k] + weight[k + 1]]
  <2>2. f[k] \in Int /\ weight[k + 1] \in Int
    BY <2>1 DEF RunsTotal, AddsUp
  <2>3. g \in [0 .. k + 1 -> Int] /\ g[0] = 0
    BY <2>1, <2>2 DEF RunsTotal, AddsUp
  <2>4. ASSUME NEW i \in 1 .. k + 1 PROVE g[i] = g[i - 1] + weight[i]
    BY <2>1 DEF RunsTotal, AddsUp
  <2>5. RunsTotal(g, weight, k + 1)
    BY <2>3, <2>4 DEF RunsTotal, AddsUp
  <2> QED
    BY <2>5
<1> HIDE DEF P
<1>3. P = Nat
  BY <1>1, <1>2, Induction, P \subseteq Nat DEF P
<1>4. n \in P
  BY <1>3
<1> QED
  BY <1>4 DEF P

\* Two totals of the same weights agree as far as both go.
LEMMA TotalsAgree ==
  ASSUME NEW n \in Nat, NEW weight, NEW f, NEW g, AddsUp(f, weight, n), AddsUp(g, weight, n)
  PROVE  \A k \in 0 .. n : f[k] = g[k]
<1> DEFINE P == {k \in Nat : k <= n => f[k] = g[k]}
<1>1. 0 \in P
  BY DEF AddsUp
<1>2. ASSUME NEW k \in P PROVE k + 1 \in P
  <2> SUFFICES ASSUME k + 1 <= n PROVE f[k + 1] = g[k + 1]
    OBVIOUS
  <2>1. f[k + 1] = f[k] + weight[k + 1] /\ g[k + 1] = g[k] + weight[k + 1]
    BY DEF AddsUp
  <2> QED
    BY <2>1
<1> HIDE DEF P
<1>3. P = Nat
  BY <1>1, <1>2, Induction, P \subseteq Nat DEF P
<1> QED
  BY <1>3 DEF P

Weight(items, name) ==
  [k \in 1 .. Len(items) |-> IF items[k].metric = name THEN items[k].score ELSE 0]

LEMMA TotalIsTotal ==
  ASSUME NEW items, NEW name, Len(items) \in Nat,
         \A k \in 1 .. Len(items) : items[k].score \in Int
  PROVE  \E f : /\ RunsTotal(f, Weight(items, name), Len(items))
                /\ Total(items, name) = f[Len(items)]
<1> DEFINE Next1(f) ==
             [n \in 0 .. Len(items) |->
                IF n = 0 THEN 0
                ELSE f[n - 1] + (IF items[n].metric = name THEN items[n].score ELSE 0)]
           total == CHOOSE f : f = Next1(f)
<1>1. Weight(items, name) \in [1 .. Len(items) -> Int]
  BY DEF Weight
<1>2. PICK f : RunsTotal(f, Weight(items, name), Len(items))
  BY <1>1, TotalExists
<1>3. f = Next1(f)
  BY <1>2 DEF RunsTotal, AddsUp, Weight
<1>4. total = Next1(total)
  BY <1>3
<1>5. Total(items, name) = total[Len(items)]
  BY DEF Total
<1> HIDE DEF total
<1>6. AddsUp(total, Weight(items, name), Len(items))
  BY <1>4 DEF AddsUp, Weight
<1>7. \A k \in 0 .. Len(items) : f[k] = total[k]
  BY <1>2, <1>6, TotalsAgree DEF RunsTotal
<1> QED
  BY <1>2, <1>5, <1>7

LEMMA AppendIsSequence ==
  ASSUME NEW S, NEW s \in Seq(S), NEW e
  PROVE  /\ Append(s, e) \in Seq(S \cup {e})
         /\ Len(s) \in Nat /\ Len(Append(s, e)) = Len(s) + 1
         /\ \A k \in 1 .. Len(s) : Append(s, e)[k] = s[k]
         /\ Append(s, e)[Len(s) + 1] = e
<1>1. s \in Seq(S \cup {e}) /\ e \in S \cup {e}
  OBVIOUS
<1> QED
  BY <1>1

LEMMA TotalOfEmpty == \A name : Total(<<>>, name) = 0
<1> SUFFICES ASSUME NEW name PROVE Total(<<>>, name) = 0
  OBVIOUS
<1>1. PICK items : items = <<>>
  OBVIOUS
<1>2. Len(items) = 0
  BY <1>1
<1>3. PICK f : /\ RunsTotal(f, Weight(items, name), Len(items))
               /\ Total(items, name) = f[Len(items)]
  BY <1>2, TotalIsTotal
<1> QED
  BY <1>1, <1>2, <1>3 DEF RunsTotal, AddsUp

\* A total grows by what is appended.
LEMMA TotalOfAppend ==
  ASSUME NEW S, NEW items \in Seq(S), NEW item, NEW name,
         \A k \in 1 .. Len(items) : items[k].score \in Int,
         item.score \in Int
  PROVE  /\ Total(items, name) \in Int
         /\ Total(Append(items, item), name) =
              Total(items, name) + (IF item.metric = name THEN item.score ELSE 0)
<1>1. PICK n \in Nat : n = Len(items)
  OBVIOUS
<1>2. PICK longer : longer = Append(items, item)
  OBVIOUS
<1>3. /\ Len(longer) = n + 1 /\ longer[n + 1] = item
      /\ \A k \in 1 .. n : longer[k] = items[k]
  BY <1>1, <1>2, AppendIsSequence
<1>4. \A k \in 1 .. n + 1 : longer[k].score \in Int
  BY <1>1, <1>3
<1>5. PICK f : /\ RunsTotal(f, Weight(items, name), n)
               /\ Total(items, name) = f[n]
  BY <1>1, TotalIsTotal
<1>6. PICK g : /\ RunsTotal(g, Weight(longer, name), n + 1)
               /\ Total(longer, name) = g[n + 1]
  BY <1>3, <1>4, TotalIsTotal
<1>7. AddsUp(f, Weight(longer, name), n)
  BY <1>1, <1>3, <1>5 DEF RunsTotal, AddsUp, Weight
<1>8. AddsUp(g, Weight(longer, name), n)
  BY <1>6 DEF RunsTotal, AddsUp
<1>9. \A k \in 0 .. n : f[k] = g[k]
  BY <1>7, <1>8, TotalsAgree
<1>10. g[n + 1] = g[n] + Weight(longer, name)[n + 1]
  BY <1>6 DEF RunsTotal, AddsUp
<1>11. Weight(longer, name)[n + 1] = IF item.metric = name THEN item.score ELSE 0
  BY <1>3 DEF Weight
<1>12. f[n] = g[n] /\ f[n] \in Int
  BY <1>5, <1>9 DEF RunsTotal
<1> QED
  BY <1>2, <1>5, <1>6, <1>10, <1>11, <1>12

-------------------------------------------------------------------------------
(* The evaluation runner. *)

ElementsOf(s) == {s[i] : i \in DOMAIN s}

\* How many scores have been made, and how many of them by the j-th metric.
Made ==
  CASE phase = "predict" -> (at - 1) * Len(metrics)
    [] phase = "score" -> (at - 1) * Len(metrics) + scored - 1
    [] OTHER -> at * Len(metrics)

Rounds(j) ==
  CASE phase = "predict" -> at - 1
    [] phase = "score" -> IF j < scored THEN at ELSE at - 1
    [] OTHER -> at

RunShape ==
  /\ samples \in Datasets /\ metrics \in MetricLists /\ evalRun \in BOOLEAN
  /\ phase \in {"called", "predict", "score", "report", "done", "failed"}
  /\ at \in 0 .. Len(samples) /\ scored \in 0 .. Len(metrics)
  /\ phase = "called" => at = 0
  /\ phase \in {"predict", "score"} => at >= 1 /\ metrics # <<>>
  /\ phase = "score" => scored >= 1
  /\ phase \in {"report", "done"} => at = Len(samples)
  /\ sums \in [MetricNames -> Int \cup {NaN}]
  /\ evalRun => sums \in [MetricNames -> Int]

\* There is one evidence for every score, in the order of samples and metrics.
EvidenceInOrder ==
  /\ evidence \in Seq(ElementsOf(evidence))
  /\ IF evalRun THEN phase # "failed" => Len(evidence) = Made ELSE evidence = <<>>
  /\ \A k \in 1 .. Len(evidence) :
       /\ evidence[k].score \in 0 .. Unit
       /\ evidence[k].status \in {"passed", "warning", "failed"}
  /\ \A i \in Nat \ {0}, j \in 1 .. Len(metrics) :
       LET k == (i - 1) * Len(metrics) + j IN
       k <= Len(evidence) =>
         /\ evidence[k].sample = Stripped[samples[i].id]
         /\ evidence[k].metric = Stripped[metrics[j]]

SumsBacked ==
  evalRun => \A name \in MetricNames :
    Alone(name) => sums[name] = Total(evidence, Stripped[name])

DistinctMetrics == \A i, j \in 1 .. Len(metrics) : metrics[i] = metrics[j] => i = j

\* A metric that has scored r samples adds up to no more than r, or to NaN.
SumsBounded ==
  DistinctMetrics /\ phase # "failed" =>
    \A name \in MetricNames :
      /\ sums[name] # NaN => sums[name] >= 0
      /\ (\A j \in 1 .. Len(metrics) : metrics[j] # name) => sums[name] = 0
      /\ \A j \in 1 .. Len(metrics) :
           metrics[j] = name /\ sums[name] # NaN => sums[name] <= Rounds(j) * Unit

ReportIsWhole ==
  report = IF phase = "done"
           THEN [count |-> Len(samples), sums |-> sums, evidence |-> evidence]
           ELSE <<>>

EvalInv == RunShape /\ EvidenceInOrder /\ SumsBacked /\ SumsBounded /\ ReportIsWhole

LEMMA InputsAreSequences ==
  ASSUME RunShape
  PROVE  /\ Len(samples) \in Nat /\ DOMAIN samples = 1 .. Len(samples)
         /\ Len(metrics) \in Nat /\ metrics \in Seq(MetricNames \cup {Empty})
         /\ at \in Nat /\ scored \in Nat
<1>1. samples \in Seq(ElementsOf(samples))
  BY RunnerAssumption DEF RunShape, ElementsOf
<1>2. metrics \in Seq(MetricNames \cup {Empty})
  BY RunnerAssumption DEF RunShape
<1> QED
  BY <1>1, <1>2 DEF RunShape

\* Positions of evidence: those of an earlier sample come first, and no two
\* pairs of a sample and a metric share one.
LEMMA ProductsGrow ==
  ASSUME NEW m \in Nat, NEW a \in Nat, NEW b \in Nat, a <= b
  PROVE  a * m \in Nat /\ b * m \in Nat /\ a * m <= b * m /\ (a + 1) * m = a * m + m
OBVIOUS

LEMMA PositionsDiffer ==
  ASSUME NEW m \in Nat, NEW a \in Nat, NEW b \in Nat, NEW i \in 1 .. m, NEW j \in 1 .. m,
         a * m + i = b * m + j
  PROVE  a = b /\ i = j
<1>1. CASE a < b
  <2>1. (a + 1) * m <= b * m /\ (a + 1) * m = a * m + m /\ a * m \in Nat /\ b * m \in Nat
    BY <1>1, ProductsGrow
  <2> QED
    BY <2>1
<1>2. CASE b < a
  <2>1. (b + 1) * m <= a * m /\ (b + 1) * m = b * m + m /\ a * m \in Nat /\ b * m \in Nat
    BY <1>2, ProductsGrow
  <2> QED
    BY <2>1
<1>3. CASE a = b
  <2>1. PICK p \in Nat : p = a * m
    OBVIOUS
  <2> QED
    BY <1>3, <2>1
<1> QED
  BY <1>1, <1>2, <1>3

LEMMA EvalInitOK == EvalInit => EvalInv
<1> SUFFICES ASSUME EvalInit PROVE EvalInv
  OBVIOUS
<1>1. /\ samples \in Seq(ElementsOf(samples)) /\ metrics \in Seq(MetricNames \cup {Empty})
      /\ samples \in Datasets /\ metrics \in MetricLists
  BY RunnerAssumption DEF EvalInit, ElementsOf
<1>2. Len(samples) \in Nat /\ Len(metrics) \in Nat
  BY <1>1
<1>3. RunShape
  BY <1>1, <1>2 DEF EvalInit, RunShape
<1>4. Made = 0
  BY <1>2 DEF EvalInit, Made
<1>5. evidence = <<>> /\ Len(evidence) = 0
  BY DEF EvalInit
<1>6. EvidenceInOrder
  <2>1. evidence \in Seq(ElementsOf(evidence))
    BY <1>5
  <2>2. ASSUME NEW i \in Nat \ {0}, NEW j \in 1 .. Len(metrics)
        PROVE  ~ ((i - 1) * Len(metrics) + j <= Len(evidence))
    <3>1. i - 1 \in Nat /\ (i - 1) * Len(metrics) \in Nat
      BY <1>2
    <3> QED
      BY <1>2, <1>5, <3>1
  <2> QED
    BY <1>4, <1>5, <2>1, <2>2 DEF EvidenceInOrder
<1>7. SumsBacked
  BY <1>5, TotalOfEmpty DEF EvalInit, SumsBacked
<1>8. SumsBounded
  <2>1. \A j \in 1 .. Len(metrics) : Rounds(j) = 0
    BY DEF Rounds, EvalInit
  <2>2. 0 * Unit = 0
    BY RunnerAssumption
  <2> QED
    BY <2>1, <2>2 DEF EvalInit, SumsBounded
<1>9. ReportIsWhole
  BY DEF EvalInit, ReportIsWhole
<1> QED
  BY <1>3, <1>6, <1>7, <1>8, <1>9 DEF EvalInv

LEMMA FailsKeeps ==
  ASSUME EvalInv, Fails, phase \in {"called", "predict", "score"}
  PROVE  EvalInv'
<1>1. RunShape'
  BY DEF EvalInv, Fails, RunShape, inputs
<1>2. EvidenceInOrder'
  BY DEF EvalInv, Fails, EvidenceInOrder, inputs, ElementsOf
<1>3. SumsBacked' /\ SumsBounded' /\ ReportIsWhole'
  BY DEF EvalInv, Fails, SumsBacked, Alone, SumsBounded, ReportIsWhole, inputs
<1> QED
  BY <1>1, <1>2, <1>3 DEF EvalInv

\* A step that makes no score and leaves the rounds as they are.
LEMMA NoScoreKeeps ==
  ASSUME EvalInv, RunShape', phase # "failed", phase' # "failed", phase' # "done", phase # "done",
         Made' = Made, \A j \in 1 .. Len(metrics) : Rounds(j)' = Rounds(j),
         UNCHANGED <<inputs, sums, evidence, report>>
  PROVE  EvalInv'
<1>1. EvidenceInOrder'
  BY DEF EvalInv, EvidenceInOrder, inputs, ElementsOf
<1>2. SumsBacked'
  BY DEF EvalInv, SumsBacked, Alone, inputs
<1>3. SumsBounded'
  BY DEF EvalInv, SumsBounded, DistinctMetrics, inputs
<1>4. ReportIsWhole'
  BY DEF EvalInv, ReportIsWhole
<1> QED
  BY <1>1, <1>2, <1>3, <1>4 DEF EvalInv

LEMMA LoadsSamplesKeeps ==
  ASSUME EvalInv, LoadsSamples
  PROVE  EvalInv'
<1>1. /\ phase = "called" /\ phase' = "predict" /\ at = 0 /\ at' = 1
      /\ UNCHANGED <<inputs, scored, sums, evidence, report>>
  BY DEF EvalInv, RunShape, LoadsSamples
<1>2. Len(samples) \in Nat /\ Len(metrics) \in Nat /\ samples \in Seq(ElementsOf(samples))
  BY InputsAreSequences, RunnerAssumption DEF EvalInv, RunShape, ElementsOf
<1>3. Len(samples) >= 1 /\ metrics # <<>>
  BY <1>2 DEF LoadsSamples
<1>4. RunShape'
  BY <1>1, <1>2, <1>3 DEF EvalInv, RunShape, inputs
<1>5. Made' = Made /\ \A j \in 1 .. Len(metrics) : Rounds(j)' = Rounds(j)
  <2>1. (at' - 1) * Len(metrics) = at * Len(metrics)
    BY <1>1, <1>2
  <2> QED
    BY <1>1, <2>1 DEF Made, Rounds, inputs
<1> QED
  BY <1>1, <1>4, <1>5, NoScoreKeeps

LEMMA PredictsKeeps ==
  ASSUME EvalInv, NEW predicted, Predicts(predicted)
  PROVE  EvalInv'
<1>1. /\ phase = "predict" /\ phase' = "score" /\ scored' = 1
      /\ UNCHANGED <<inputs, at, sums, evidence, report>>
  BY DEF Predicts
<1>2. Len(metrics) \in Nat /\ at \in Nat /\ metrics \in Seq(MetricNames \cup {Empty})
  BY InputsAreSequences DEF EvalInv
<1>3. Len(metrics) >= 1
  BY <1>1, <1>2 DEF EvalInv, RunShape
<1>4. RunShape'
  BY <1>1, <1>2, <1>3 DEF EvalInv, RunShape, inputs
<1>5. Made' = Made /\ \A j \in 1 .. Len(metrics) : Rounds(j)' = Rounds(j)
  <2>1. PICK done \in Int : done = (at - 1) * Len(metrics)
    BY <1>2
  <2>2. Made = done /\ Made' = done
    BY <1>1, <2>1 DEF Made, inputs
  <2>3. \A j \in 1 .. Len(metrics) : Rounds(j)' = Rounds(j)
    BY <1>1, <1>2 DEF Rounds
  <2> QED
    BY <2>2, <2>3
<1> QED
  BY <1>1, <1>4, <1>5, NoScoreKeeps

LEMMA ReportsKeeps ==
  ASSUME EvalInv, Reports
  PROVE  EvalInv'
<1>1. /\ phase = "report" /\ phase' = "done"
      /\ report' = [count |-> Len(samples), sums |-> sums, evidence |-> evidence]
      /\ UNCHANGED <<inputs, at, scored, sums, evidence>>
  BY DEF Reports
<1>2. RunShape'
  BY <1>1 DEF EvalInv, RunShape, inputs
<1>3. Made' = Made /\ \A j \in 1 .. Len(metrics) : Rounds(j)' = Rounds(j)
  BY <1>1 DEF Made, Rounds, inputs
<1>4. EvidenceInOrder'
  BY <1>1, <1>3 DEF EvalInv, EvidenceInOrder, inputs, ElementsOf
<1>5. SumsBacked'
  BY <1>1 DEF EvalInv, SumsBacked, Alone, inputs
<1>6. SumsBounded'
  BY <1>1, <1>3 DEF EvalInv, SumsBounded, DistinctMetrics, inputs
<1>7. ReportIsWhole'
  BY <1>1 DEF ReportIsWhole, inputs
<1> QED
  BY <1>2, <1>4, <1>5, <1>6, <1>7 DEF EvalInv

LEMMA ClampedInUnit ==
  ASSUME NEW raw \in Int \cup {NaN}
  PROVE  Clamped(raw) \in 0 .. Unit \/ Clamped(raw) = NaN
BY RunnerAssumption DEF Clamped

LEMMA PlusIsNumber ==
  ASSUME NEW sum \in Int \cup {NaN}, NEW score \in Int \cup {NaN}
  PROVE  /\ Plus(sum, score) \in Int \cup {NaN}
         /\ sum # NaN /\ score # NaN => Plus(sum, score) = sum + score
         /\ Plus(sum, score) # NaN => sum # NaN /\ score # NaN
BY RunnerAssumption DEF Plus

\* What a score does to the position: one more is made, by one metric.
LEMMA ScoreIsCounted ==
  ASSUME RunShape, phase = "score", Advances, UNCHANGED inputs,
         sums' \in [MetricNames -> Int \cup {NaN}], evalRun => sums' \in [MetricNames -> Int]
  PROVE  /\ phase' \in {"predict", "score", "report"}
         /\ RunShape'
         /\ Made \in Nat /\ Made' = Made + 1
         /\ Made + 1 = (at - 1) * Len(metrics) + scored
         /\ \A j \in 1 .. Len(metrics) :
              Rounds(j)' = Rounds(j) + (IF j = scored THEN 1 ELSE 0)
<1>1. /\ Len(samples) \in Nat /\ Len(metrics) \in Nat
      /\ at \in 1 .. Len(samples) /\ scored \in 1 .. Len(metrics)
  BY InputsAreSequences DEF RunShape
<1>2. PICK n \in Nat, m \in Nat : n = Len(samples) /\ m = Len(metrics)
  BY <1>1
<1>3. PICK done \in Nat : done = (at - 1) * m
  BY <1>1, <1>2
<1>4. at * m = done + m
  <2>1. at - 1 \in Nat
    BY <1>1
  <2>2. ((at - 1) + 1) * m = (at - 1) * m + m
    BY <2>1, ProductsGrow
  <2> QED
    BY <1>1, <1>3, <2>2
<1>5. Made = done + scored - 1
  BY <1>2, <1>3 DEF Made
<1>6. samples' = samples /\ metrics' = metrics /\ evalRun' = evalRun
  BY DEF inputs
<1>7. CASE scored < m
  <2>1. scored' = scored + 1 /\ phase' = "score" /\ at' = at
    BY <1>2, <1>7 DEF Advances
  <2>2. RunShape'
    BY <1>1, <1>2, <1>6, <1>7, <2>1 DEF RunShape
  <2>3. Made' = done + scored
    BY <1>1, <1>2, <1>3, <1>6, <2>1 DEF Made
  <2>4. \A j \in 1 .. Len(metrics) :
          Rounds(j)' = Rounds(j) + (IF j = scored THEN 1 ELSE 0)
    BY <1>1, <2>1 DEF Rounds
  <2> QED
    BY <1>1, <1>2, <1>3, <1>5, <2>1, <2>2, <2>3, <2>4
<1>8. CASE scored = m /\ at < n
  <2>1. scored' = scored /\ phase' = "predict" /\ at' = at + 1
    BY <1>1, <1>2, <1>8 DEF Advances
  <2>2. RunShape'
    BY <1>1, <1>2, <1>6, <1>8, <2>1 DEF RunShape
  <2>3. Made' = done + scored
    <3>1. Made' = ((at + 1) - 1) * m
      BY <1>2, <1>6, <2>1 DEF Made
    <3>2. (at + 1) - 1 = at
      BY <1>1
    <3> QED
      BY <1>4, <1>8, <3>1, <3>2
  <2>4. \A j \in 1 .. Len(metrics) :
          Rounds(j)' = Rounds(j) + (IF j = scored THEN 1 ELSE 0)
    BY <1>1, <1>2, <1>8, <2>1 DEF Rounds
  <2> QED
    BY <1>1, <1>2, <1>3, <1>5, <2>1, <2>2, <2>3, <2>4
<1>9. CASE scored = m /\ at = n
  <2>1. scored' = scored /\ phase' = "report" /\ at' = at
    BY <1>1, <1>2, <1>9 DEF Advances
  <2>2. RunShape'
    BY <1>1, <1>2, <1>6, <1>9, <2>1 DEF RunShape
  <2>3. Made' = done + scored
    BY <1>2, <1>4, <1>6, <1>9, <2>1 DEF Made
  <2>4. ASSUME NEW j \in 1 .. Len(metrics)
        PROVE  Rounds(j)' = Rounds(j) + (IF j = scored THEN 1 ELSE 0)
    <3>1. Rounds(j)' = at
      BY <2>1 DEF Rounds
    <3>2. Rounds(j) = IF j < scored THEN at ELSE at - 1
      BY DEF Rounds
    <3>3. j \in Int /\ scored \in Int /\ at \in Int /\ j <= scored
      BY <1>1, <1>2, <1>9
    <3>4. CASE j = scored
      BY <3>1, <3>2, <3>3, <3>4
    <3>5. CASE j < scored
      BY <3>1, <3>2, <3>3, <3>5
    <3> QED
      BY <3>3, <3>4, <3>5
  <2> QED
    BY <1>1, <1>2, <1>3, <1>5, <2>1, <2>2, <2>3, <2>4
<1> QED
  BY <1>1, <1>2, <1>7, <1>8, <1>9

LEMMA ScoresKeeps ==
  ASSUME EvalInv, NEW raw \in Int \cup {NaN}, Scores(raw)
  PROVE  EvalInv'
<1> DEFINE name == metrics[scored]
           score == Clamped(raw)
           item == Evidence(name, score)
<1>1. /\ phase = "score" /\ name # Empty /\ (evalRun => EvidenceBuilds(name, score))
      /\ sums' = [sums EXCEPT ![name] = Plus(sums[name], score)]
      /\ evidence' = IF evalRun THEN Append(evidence, item) ELSE evidence
      /\ Advances
      /\ UNCHANGED <<inputs, prediction, report>>
  BY DEF Scores
<1>2. /\ Len(metrics) \in Nat /\ at - 1 \in Nat
      /\ at \in 1 .. Len(samples) /\ scored \in 1 .. Len(metrics)
      /\ metrics \in Seq(MetricNames \cup {Empty})
  BY <1>1, InputsAreSequences DEF EvalInv, RunShape
<1>3. /\ name \in MetricNames /\ sums \in [MetricNames -> Int \cup {NaN}]
      /\ score \in 0 .. Unit \/ score = NaN
      /\ evalRun => score \in 0 .. Unit /\ sums \in [MetricNames -> Int]
  <2>1. name \in MetricNames \cup {Empty}
    BY <1>2
  <2>2. evalRun => score \in 0 .. Unit
    BY <1>1 DEF EvidenceBuilds
  <2> QED
    BY <1>1, <2>1, <2>2, ClampedInUnit DEF EvalInv, RunShape
<1>4. score \in Int \cup {NaN} /\ Unit \in Nat /\ NaN \notin Int
  BY <1>3, RunnerAssumption
<1> HIDE DEF score
<1>15. /\ Plus(sums[name], score) \in Int \cup {NaN}
       /\ sums[name] # NaN /\ score # NaN => Plus(sums[name], score) = sums[name] + score
       /\ Plus(sums[name], score) # NaN => sums[name] # NaN /\ score # NaN
  BY <1>3, <1>4, PlusIsNumber
<1>16. evalRun => Plus(sums[name], score) = sums[name] + score /\ sums[name] + score \in Int
  BY <1>3, <1>4, <1>15
<1>5. /\ sums' \in [MetricNames -> Int \cup {NaN}]
      /\ evalRun => sums' \in [MetricNames -> Int]
  BY <1>1, <1>3, <1>15, <1>16
<1>6. /\ phase' \in {"predict", "score", "report"}
      /\ Made \in Nat /\ Made' = Made + 1
      /\ Made + 1 = (at - 1) * Len(metrics) + scored
      /\ \A j \in 1 .. Len(metrics) :
           Rounds(j)' = Rounds(j) + (IF j = scored THEN 1 ELSE 0)
      /\ RunShape'
  BY <1>1, <1>5, ScoreIsCounted DEF EvalInv
<1>7. samples' = samples /\ metrics' = metrics /\ evalRun' = evalRun
  BY <1>1 DEF inputs
<1>8. /\ evidence \in Seq(ElementsOf(evidence)) /\ Len(evidence) \in Nat
      /\ evalRun => Len(evidence) = Made
  BY <1>1 DEF EvalInv, EvidenceInOrder
<1>9. evalRun =>
        /\ item.sample = Stripped[samples[at].id] /\ item.metric = Stripped[name]
        /\ item.score = score
        /\ item.status \in {"passed", "warning", "failed"}
  <2>1. ASSUME evalRun PROVE Regression(name, score) \in {"passed", "warning", "failed"}
    BY <1>1, <1>3, <1>4, <2>1, RunnerAssumption DEF EvidenceBuilds, Regression
  <2> QED
    BY <2>1 DEF Evidence
<1> HIDE DEF item
<1>10. evalRun =>
         /\ evidence' \in Seq(ElementsOf(evidence) \cup {item})
         /\ Len(evidence') = Len(evidence) + 1
         /\ \A k \in 1 .. Len(evidence) : evidence'[k] = evidence[k]
         /\ evidence'[Len(evidence) + 1] = item
  BY <1>1, <1>8, AppendIsSequence
<1>11. EvidenceInOrder'
  <2>1. CASE ~evalRun
    <3>1. evidence' = evidence /\ evidence = <<>>
      BY <1>1, <2>1 DEF EvalInv, EvidenceInOrder
    <3> QED
      BY <1>7, <2>1, <3>1 DEF EvalInv, EvidenceInOrder, ElementsOf
  <2>2. CASE evalRun
    <3>1. PICK n \in Nat, m \in Nat : n = Len(evidence) /\ m = Len(metrics)
      BY <1>2, <1>8
    <3>2. /\ Len(evidence') = n + 1 /\ evidence'[n + 1] = item
          /\ \A k \in 1 .. n : evidence'[k] = evidence[k]
      BY <1>10, <2>2, <3>1
    <3>3. evidence' \in Seq(ElementsOf(evidence'))
      BY <1>10, <2>2 DEF ElementsOf
    <3>4. \A k \in 1 .. n + 1 :
            /\ evidence'[k].score \in 0 .. Unit
            /\ evidence'[k].status \in {"passed", "warning", "failed"}
      BY <1>3, <1>9, <2>2, <3>1, <3>2 DEF EvalInv, EvidenceInOrder
    <3>5. ASSUME NEW i \in Nat \ {0}, NEW j \in 1 .. m, (i - 1) * m + j <= n + 1
          PROVE  /\ evidence'[(i - 1) * m + j].sample = Stripped[samples[i].id]
                 /\ evidence'[(i - 1) * m + j].metric = Stripped[metrics[j]]
      <4>1. i - 1 \in Nat /\ (i - 1) * m \in Nat
        OBVIOUS
      <4>4. (i - 1) * m + j <= n \/ (i - 1) * m + j = n + 1
        <5>1. PICK p \in Nat : p = (i - 1) * m
          BY <4>1
        <5>2. p + j <= n + 1
          BY <3>5, <5>1
        <5>3. p + j <= n \/ p + j = n + 1
          BY <5>2
        <5> QED
          BY <5>1, <5>3
      <4>2. CASE (i - 1) * m + j <= n
        <5>1. /\ evidence[(i - 1) * m + j].sample = Stripped[samples[i].id]
              /\ evidence[(i - 1) * m + j].metric = Stripped[metrics[j]]
          BY <3>1, <4>2 DEF EvalInv, EvidenceInOrder
        <5>2. (i - 1) * m + j \in 1 .. n
          BY <4>1, <4>2
        <5> QED
          BY <3>2, <5>1, <5>2
      <4>3. CASE (i - 1) * m + j = n + 1
        <5>1. n + 1 = (at - 1) * m + scored
          BY <1>6, <1>8, <2>2, <3>1
        <5>2. i - 1 = at - 1 /\ j = scored
          BY <1>2, <3>1, <4>1, <4>3, <5>1, PositionsDiffer
        <5>3. i = at
          BY <1>2, <5>2
        <5> QED
          BY <1>9, <2>2, <3>2, <4>3, <5>2, <5>3
      <4> QED
        BY <4>2, <4>3, <4>4
    <3>6. Len(evidence') = Made'
      BY <1>6, <1>8, <2>2, <3>1, <3>2
    <3> QED
      BY <1>7, <2>2, <3>1, <3>2, <3>3, <3>4, <3>5, <3>6 DEF EvidenceInOrder
  <2> QED
    BY <1>2, <2>1, <2>2 DEF EvalInv, RunShape
<1>12. SumsBacked'
  <2> SUFFICES ASSUME evalRun, NEW asked \in MetricNames, Alone(asked)
               PROVE  sums'[asked] = Total(evidence', Stripped[asked])
    BY <1>7 DEF SumsBacked, Alone
  <2>1. \A k \in 1 .. Len(evidence) : evidence[k].score \in Int
    BY RunnerAssumption DEF EvalInv, EvidenceInOrder
  <2>2. evidence' = Append(evidence, item)
    BY <1>1
  <2>3. item.score = score /\ score \in Int /\ item.metric = Stripped[name]
    BY <1>3, <1>9, RunnerAssumption
  <2>4. Total(Append(evidence, item), Stripped[asked]) =
          Total(evidence, Stripped[asked])
            + (IF item.metric = Stripped[asked] THEN item.score ELSE 0)
    BY <1>8, <2>1, <2>3, TotalOfAppend
  <2>5. sums[asked] = Total(evidence, Stripped[asked]) /\ sums[asked] \in Int
    BY <1>3 DEF EvalInv, SumsBacked
  <2>6. Stripped[name] = Stripped[asked] <=> name = asked
    BY <1>2 DEF Alone
  <2>7. sums'[asked] = IF asked = name THEN sums[name] + score ELSE sums[asked]
    BY <1>1, <1>3, <1>16
  <2> HIDE DEF name
  <2>8. CASE asked = name
    BY <2>2, <2>3, <2>4, <2>5, <2>7, <2>8
  <2>9. CASE asked # name
    BY <2>2, <2>3, <2>4, <2>5, <2>6, <2>7, <2>9
  <2> QED
    BY <2>8, <2>9
<1>13. SumsBounded'
  <2> SUFFICES ASSUME DistinctMetrics, NEW asked \in MetricNames
               PROVE  /\ sums'[asked] # NaN => sums'[asked] >= 0
                      /\ (\A j \in 1 .. Len(metrics) : metrics[j] # asked) => sums'[asked] = 0
                      /\ \A j \in 1 .. Len(metrics) :
                           metrics[j] = asked /\ sums'[asked] # NaN
                             => sums'[asked] <= Rounds(j)' * Unit
    BY <1>7 DEF SumsBounded, DistinctMetrics
  <2>1. /\ sums[asked] # NaN => sums[asked] >= 0
        /\ (\A j \in 1 .. Len(metrics) : metrics[j] # asked) => sums[asked] = 0
        /\ \A j \in 1 .. Len(metrics) :
             metrics[j] = asked /\ sums[asked] # NaN => sums[asked] <= Rounds(j) * Unit
    BY <1>1 DEF EvalInv, SumsBounded
  <2>2. sums'[asked] = IF asked = name THEN Plus(sums[name], score) ELSE sums[asked]
    BY <1>1, <1>3
  <2>3. sums[asked] \in Int \cup {NaN}
    BY <1>3
  <2> HIDE DEF name
  <2>4. CASE asked # name
    <3>1. sums'[asked] = sums[asked]
      BY <2>2, <2>4
    <3>2. ASSUME NEW j \in 1 .. Len(metrics), metrics[j] = asked
          PROVE  Rounds(j)' = Rounds(j)
      <4>1. j # scored
        BY <2>4, <3>2 DEF name
      <4>2. Rounds(j) \in Int
        BY <1>1, <1>2 DEF Rounds
      <4> QED
        BY <1>6, <4>1, <4>2
    <3> QED
      BY <2>1, <3>1, <3>2
  <2>5. CASE asked = name
    <3>1. PICK mine \in 1 .. Len(metrics) : mine = scored
      BY <1>2
    <3>2. metrics[mine] = asked
      BY <2>5, <3>1 DEF name
    <3>3. Rounds(mine) = at - 1 /\ Rounds(mine)' = (at - 1) + 1
      <4>1. Rounds(mine) = at - 1
        BY <1>1, <1>2, <3>1 DEF Rounds
      <4> QED
        BY <1>2, <1>6, <3>1, <4>1
    <3>4. ((at - 1) + 1) * Unit = (at - 1) * Unit + Unit /\ (at - 1) * Unit \in Nat
      BY <1>2, <1>4, ProductsGrow
    <3>6. ASSUME sums'[asked] # NaN
          PROVE  sums'[asked] <= Rounds(mine)' * Unit /\ sums'[asked] >= 0
      <4>1. PICK p \in Nat : p = (at - 1) * Unit
        BY <3>4
      <4>2. /\ sums[asked] # NaN /\ score # NaN
            /\ sums'[asked] = sums[asked] + score
        BY <1>15, <2>2, <2>5, <3>6
      <4>3. sums[asked] <= (at - 1) * Unit /\ sums[asked] >= 0
        BY <2>1, <3>2, <3>3, <4>2
      <4>4. sums[asked] <= p /\ Rounds(mine)' * Unit = p + Unit
        BY <3>3, <3>4, <4>1, <4>3
      <4>5. score \in 0 .. Unit /\ sums[asked] \in Int
        BY <1>3, <2>3, <4>2
      <4> QED
        BY <1>4, <4>2, <4>3, <4>4, <4>5
    <3>7. \A j \in 1 .. Len(metrics) : metrics[j] = asked => j = mine
      BY <1>2, <3>2 DEF DistinctMetrics
    <3> QED
      BY <1>2, <3>2, <3>6, <3>7
  <2> QED
    BY <2>4, <2>5
<1>14. ReportIsWhole'
  BY <1>1, <1>6 DEF EvalInv, ReportIsWhole
<1> QED
  BY <1>6, <1>11, <1>12, <1>13, <1>14 DEF EvalInv

\* Every step of the runner with any system under test, and of the smoke.
EvalSteps ==
  \/ Fails /\ phase \in {"called", "predict", "score"}
  \/ LoadsSamples
  \/ \E predicted : Predicts(predicted)
  \/ \E raw \in Int \cup {NaN} : Scores(raw)
  \/ Reports

LEMMA EvalStepKeeps ==
  ASSUME EvalInv, EvalSteps \/ UNCHANGED evalVars
  PROVE  EvalInv'
<1>1. CASE UNCHANGED evalVars
  <2>1. RunShape' /\ SumsBacked' /\ ReportIsWhole'
    BY <1>1 DEF EvalInv, RunShape, SumsBacked, Alone, ReportIsWhole, evalVars
  <2>2. Made' = Made /\ \A j \in 1 .. Len(metrics) : Rounds(j)' = Rounds(j)
    BY <1>1 DEF evalVars, Made, Rounds
  <2>3. EvidenceInOrder'
    BY <1>1, <2>2 DEF EvalInv, EvidenceInOrder, ElementsOf, evalVars
  <2>4. SumsBounded'
    BY <1>1, <2>2 DEF EvalInv, SumsBounded, DistinctMetrics, evalVars
  <2> QED
    BY <2>1, <2>3, <2>4 DEF EvalInv
<1>2. CASE EvalSteps
  BY <1>2, FailsKeeps, LoadsSamplesKeeps, PredictsKeeps, ScoresKeeps, ReportsKeeps
     DEF EvalSteps
<1> QED
  BY <1>1, <1>2

LEMMA EvalInvariant == EvalSpec => []EvalInv
<1>1. EvalInv /\ [EvalNext]_evalVars => EvalInv'
  <2> SUFFICES ASSUME EvalInv, [EvalNext]_evalVars PROVE EvalInv'
    OBVIOUS
  <2>1. EvalNext => EvalSteps
    <3>1. RawScores \subseteq Int \cup {NaN}
      BY RunnerAssumption
    <3> QED
      BY <3>1 DEF EvalNext, EvalSteps, RunRejected, PredictFails, ScoreFails
  <2> QED
    BY <2>1, EvalStepKeeps
<1> QED
  BY <1>1, EvalInitOK, PTL DEF EvalSpec

LEMMA WholeReport ==
  ASSUME EvalInv, report # <<>>
  PROVE  /\ phase = "done" /\ at = Len(samples) /\ report.count = Len(samples)
         /\ report.sums = sums /\ report.evidence = evidence
BY DEF EvalInv, ReportIsWhole, RunShape

LEMMA ReportIsSound ==
  ASSUME EvalInv
  PROVE  ReportSound
<1>1. /\ Len(samples) \in Nat /\ Len(metrics) \in Nat /\ at \in Nat
      /\ metrics \in Seq(MetricNames \cup {Empty})
  BY InputsAreSequences DEF EvalInv
<1>2. EvalTypeOK
  BY DEF EvalInv, EvalTypeOK, RunShape, EvidenceInOrder
<1>3. ReportBacked
  <2> SUFFICES ASSUME report # <<>>, evalRun
               PROVE  /\ Len(evidence) = Len(samples) * Len(metrics)
                      /\ \A i \in 1 .. Len(samples), j \in 1 .. Len(metrics) :
                           /\ evidence[(i - 1) * Len(metrics) + j].sample = Stripped[samples[i].id]
                           /\ evidence[(i - 1) * Len(metrics) + j].metric = Stripped[metrics[j]]
                      /\ \A name \in MetricNames :
                           Alone(name) => sums[name] = Total(evidence, Stripped[name])
    BY WholeReport DEF ReportBacked
  <2>1. phase = "done" /\ at = Len(samples)
    BY WholeReport
  <2>2. Len(evidence) = Len(samples) * Len(metrics)
    BY <2>1 DEF EvalInv, EvidenceInOrder, Made
  <2>3. ASSUME NEW i \in 1 .. Len(samples), NEW j \in 1 .. Len(metrics)
        PROVE  /\ evidence[(i - 1) * Len(metrics) + j].sample = Stripped[samples[i].id]
               /\ evidence[(i - 1) * Len(metrics) + j].metric = Stripped[metrics[j]]
    <3>1. PICK n \in Nat, m \in Nat : n = Len(samples) /\ m = Len(metrics)
      BY <1>1
    <3>2. /\ ((i - 1) + 1) * m = (i - 1) * m + m /\ (i - 1) * m \in Nat
          /\ i * m <= n * m
      BY <3>1, ProductsGrow
    <3>3. (i - 1) + 1 = i
      BY <3>1
    <3>4. (i - 1) * m + j <= n * m
      <4>1. PICK p \in Nat, q \in Nat : p = (i - 1) * m /\ q = n * m
        BY <3>1, <3>2
      <4>2. i * m = p + m /\ i * m <= q
        BY <3>2, <3>3, <4>1
      <4>3. p + j <= q
        BY <3>1, <4>1, <4>2
      <4> QED
        BY <4>1, <4>3
    <3>5. i \in Nat \ {0}
      BY <3>1
    <3> QED
      BY <2>2, <3>1, <3>4, <3>5 DEF EvalInv, EvidenceInOrder
  <2>4. \A name \in MetricNames :
          Alone(name) => sums[name] = Total(evidence, Stripped[name])
    BY DEF EvalInv, SumsBacked
  <2> QED
    BY <2>2, <2>3, <2>4
<1>4. ScoresInUnit
  <2> SUFFICES ASSUME report # <<>>, DistinctMetrics, NEW name \in MetricNames
               PROVE  \/ sums[name] \in 0 .. Len(samples) * Unit
                      \/ sums[name] = NaN /\ ~evalRun
    BY WholeReport DEF ScoresInUnit, DistinctMetrics
  <2>1. phase = "done" /\ at = Len(samples)
    BY WholeReport
  <2>2. \A j \in 1 .. Len(metrics) : Rounds(j) = Len(samples)
    BY <2>1 DEF Rounds
  <2>3. Len(samples) * Unit \in Nat
    BY <1>1, RunnerAssumption
  <2>4. CASE sums[name] = NaN
    <3>1. ~evalRun
      BY <2>4, RunnerAssumption DEF EvalInv, RunShape
    <3> QED
      BY <2>4, <3>1
  <2>5. CASE sums[name] # NaN
    <3>1. sums[name] \in Int /\ sums[name] >= 0
      BY <2>1, <2>5 DEF EvalInv, RunShape, SumsBounded
    <3>2. sums[name] <= Len(samples) * Unit
      <4>1. CASE \A j \in 1 .. Len(metrics) : metrics[j] # name
        BY <2>1, <2>3, <4>1 DEF EvalInv, SumsBounded
      <4>2. ASSUME NEW j \in 1 .. Len(metrics), metrics[j] = name
            PROVE  sums[name] <= Len(samples) * Unit
        BY <2>1, <2>2, <2>5, <4>2 DEF EvalInv, SumsBounded
      <4> QED
        BY <4>1, <4>2
    <3> QED
      BY <2>3, <3>1, <3>2
  <2> QED
    BY <2>4, <2>5
<1> QED
  BY <1>2, <1>3, <1>4 DEF ReportSound

\* runner.go:38-126, evidence.go:54-118, for any dataset, metrics and thresholds:
\* a report is of a whole run; its sums are those of its evidence, up to names
\* that differ in padding only; and no average leaves 0 to 1, except that a
\* metric's NaN reaches the report of a run without an id.
THEOREM ReportsAreSound == EvalSpec => []ReportSound
BY EvalInvariant, ReportIsSound, PTL

-------------------------------------------------------------------------------
(* The smoke. *)

\* One trace for every call to the provider, of the sample it was made for.
TracesInOrder ==
  /\ traces \in Seq(ElementsOf(traces))
  /\ Len(traces) <= at
  /\ phase = "predict" => Len(traces) = at - 1
  /\ phase \in {"called", "score", "report", "done"} => Len(traces) = at
  /\ \A i \in 1 .. Len(traces) :
       /\ traces[i].identity = samples[i].part
       /\ traces[i].status \in {"success", "failed"}
       /\ traces[i].status = "failed" => phase = "failed" /\ i = Len(traces)

\* The sample of the k-th evidence.
SampleOf(k) == (k - 1) \div 2 + 1

EvidenceLinked ==
  \A k \in 1 .. Len(evidence) :
    /\ SampleOf(k) \in 1 .. Len(traces)
    /\ evidence[k].identity = samples[SampleOf(k)].part
    /\ traces[SampleOf(k)].status = "success"

Predicted ==
  phase = "score" =>
    prediction = [answer |-> GoldenAnswer(samples[at]), identity |-> samples[at].part]

Golden ==
  /\ \A i, j \in 1 .. Len(samples) : samples[i].id = samples[j].id => i = j
  /\ \A i \in 1 .. Len(samples) : \A k \in 1 .. Len(samples[i].relevant) :
       samples[i].relevant[k] # Blank

\* Of golden samples, every score so far was a full one.
FullMarks ==
  Golden /\ phase # "failed" =>
    \A j \in 1 .. 2 : sums[SmokeMetrics[j]] = Rounds(j) * Unit

SmokeInv ==
  /\ EvalInv
  /\ metrics = SmokeMetrics
  /\ exitCode \in {NoExit, 0, 1} /\ (exitCode = 0 => phase = "done")
  /\ TracesInOrder
  /\ EvidenceLinked
  /\ Predicted
  /\ FullMarks

LEMMA SmokeInitOK == SmokeInit => SmokeInv
<1> SUFFICES ASSUME SmokeInit PROVE SmokeInv
  OBVIOUS
<1>1. EvalInv /\ metrics = SmokeMetrics
  BY EvalInitOK DEF SmokeInit
<1>2. exitCode \in {NoExit, 0, 1} /\ (exitCode = 0 => phase = "done")
  BY SmokeAssumption DEF SmokeInit
<1>3. TracesInOrder
  BY DEF SmokeInit, EvalInit, TracesInOrder
<1>4. EvidenceLinked /\ Predicted
  BY DEF SmokeInit, EvalInit, EvidenceLinked, Predicted
<1>5. FullMarks
  <2>1. \A j \in 1 .. 2 : Rounds(j) = 0
    BY DEF Rounds, SmokeInit, EvalInit
  <2>2. 0 * Unit = 0
    BY RunnerAssumption
  <2>3. \A j \in 1 .. 2 : SmokeMetrics[j] \in MetricNames
    BY SmokeAssumption DEF SmokeMetrics
  <2> QED
    BY <2>1, <2>2, <2>3 DEF SmokeInit, EvalInit, FullMarks
<1> QED
  BY <1>1, <1>2, <1>3, <1>4, <1>5 DEF SmokeInv

\* A step that makes no score and leaves the rounds as they are.
LEMMA NoMarksKeeps ==
  ASSUME FullMarks, phase # "failed", UNCHANGED <<inputs, sums>>,
         \A j \in 1 .. 2 : Rounds(j)' = Rounds(j)
  PROVE  FullMarks'
BY DEF FullMarks, Golden, inputs

LEMMA SmokeLoadsKeeps ==
  ASSUME SmokeInv, SmokeLoads
  PROVE  SmokeInv'
<1>1. EvalInv'
  BY LoadsSamplesKeeps DEF SmokeInv, SmokeLoads
<1>2. /\ phase = "called" /\ phase' = "predict" /\ at = 0 /\ at' = 1
      /\ UNCHANGED <<inputs, scored, sums, evidence, report, traces, exitCode>>
  BY DEF SmokeInv, EvalInv, RunShape, LoadsSamples, SmokeLoads
<1>3. TracesInOrder' /\ EvidenceLinked' /\ Predicted'
  BY <1>2 DEF SmokeInv, TracesInOrder, EvidenceLinked, Predicted, inputs, ElementsOf
<1>4. FullMarks'
  <2>1. \A j \in 1 .. 2 : Rounds(j)' = Rounds(j)
    BY <1>2 DEF Rounds
  <2> QED
    BY <1>2, <2>1, NoMarksKeeps DEF SmokeInv
<1> QED
  BY <1>1, <1>2, <1>3, <1>4 DEF SmokeInv, inputs

LEMMA PredictSampleKeeps ==
  ASSUME SmokeInv, PredictSample
  PROVE  SmokeInv'
<1>1. EvalInv'
  BY PredictsKeeps DEF SmokeInv, PredictSample
<1> DEFINE trace == [identity |-> Identity(samples[at]), status |-> "success"]
<1>2. /\ phase = "predict" /\ phase' = "score" /\ scored' = 1
      /\ prediction' = [answer |-> GoldenAnswer(samples[at]), identity |-> samples[at].part]
      /\ traces' = Append(traces, trace)
      /\ UNCHANGED <<inputs, at, sums, evidence, report, exitCode>>
  BY DEF PredictSample, Predicts, Recorded, Identity
<1>3. /\ at \in 1 .. Len(samples) /\ Len(metrics) = 2
      /\ traces \in Seq(ElementsOf(traces)) /\ Len(traces) = at - 1
  BY <1>2, InputsAreSequences DEF SmokeInv, EvalInv, RunShape, TracesInOrder, SmokeMetrics
<1>4. trace.identity = samples[at].part /\ trace.status = "success"
  BY DEF Identity
<1> HIDE DEF trace
<1>5. /\ traces' \in Seq(ElementsOf(traces) \cup {trace}) /\ Len(traces') = at
      /\ \A i \in 1 .. at - 1 : traces'[i] = traces[i]
      /\ traces'[at] = trace
  <2>1. (at - 1) + 1 = at
    BY <1>3
  <2> QED
    BY <1>2, <1>3, <2>1, AppendIsSequence
<1>6. TracesInOrder'
  <2>1. traces' \in Seq(ElementsOf(traces'))
    BY <1>5 DEF ElementsOf
  <2>2. ASSUME NEW i \in 1 .. at
        PROVE  traces'[i].identity = samples[i].part /\ traces'[i].status = "success"
    <3>1. CASE i = at
      BY <1>4, <1>5, <3>1
    <3>2. CASE i # at
      BY <1>2, <1>3, <1>5, <3>2 DEF SmokeInv, TracesInOrder
    <3> QED
      BY <3>1, <3>2
  <2> QED
    BY <1>2, <1>3, <1>5, <2>1, <2>2 DEF TracesInOrder, inputs
<1>7. EvidenceLinked'
  <2>1. ASSUME NEW k \in 1 .. Len(evidence)
        PROVE  /\ SampleOf(k) \in 1 .. at - 1
               /\ evidence[k].identity = samples[SampleOf(k)].part
               /\ traces[SampleOf(k)].status = "success"
    BY <1>3 DEF SmokeInv, EvidenceLinked
  <2> QED
    BY <1>2, <1>3, <1>5, <2>1 DEF EvidenceLinked, inputs
<1>8. Predicted'
  <2>1. samples' = samples /\ at' = at
    BY <1>2 DEF inputs
  <2> QED
    BY <1>2, <2>1 DEF Predicted, GoldenAnswer
<1>9. FullMarks'
  <2>1. \A j \in 1 .. 2 : Rounds(j)' = Rounds(j)
    BY <1>2, <1>3 DEF Rounds
  <2> QED
    BY <1>2, <2>1, NoMarksKeeps DEF SmokeInv
<1> QED
  BY <1>1, <1>2, <1>6, <1>7, <1>8, <1>9 DEF SmokeInv, inputs

\* A failed run adds up nothing and scores nothing more.
LEMMA SmokeFailsKeeps ==
  ASSUME SmokeInv, Fails, phase \in {"called", "predict", "score"}, UNCHANGED exitCode,
         \/ UNCHANGED traces
         \/ phase = "predict" /\ Recorded("failed")
  PROVE  SmokeInv'
<1>1. EvalInv'
  BY FailsKeeps DEF SmokeInv
<1>2. /\ phase' = "failed"
      /\ UNCHANGED <<inputs, at, scored, prediction, sums, evidence, report>>
  BY DEF Fails
<1>3. exitCode' \in {NoExit, 0, 1} /\ exitCode' # 0
  BY DEF SmokeInv
<1>4. Predicted' /\ FullMarks'
  BY <1>2 DEF Predicted, FullMarks
<1>5. CASE UNCHANGED traces
  <2>1. TracesInOrder' /\ EvidenceLinked'
    BY <1>2, <1>5 DEF SmokeInv, TracesInOrder, EvidenceLinked, ElementsOf, inputs
  <2> QED
    BY <1>1, <1>2, <1>3, <1>4, <2>1 DEF SmokeInv, inputs
<1>6. CASE phase = "predict" /\ Recorded("failed")
  <2> DEFINE trace == [identity |-> Identity(samples[at]), status |-> "failed"]
  <2>1. traces' = Append(traces, trace)
    BY <1>6 DEF Recorded
  <2>2. /\ at \in 1 .. Len(samples)
        /\ traces \in Seq(ElementsOf(traces)) /\ Len(traces) = at - 1
    BY <1>6 DEF SmokeInv, EvalInv, RunShape, TracesInOrder
  <2>3. trace.identity = samples[at].part /\ trace.status = "failed"
    BY DEF Identity
  <2> HIDE DEF trace
  <2>4. /\ traces' \in Seq(ElementsOf(traces) \cup {trace}) /\ Len(traces') = at
        /\ \A i \in 1 .. at - 1 : traces'[i] = traces[i]
        /\ traces'[at] = trace
    <3>1. (at - 1) + 1 = at
      BY <2>2
    <3> QED
      BY <2>1, <2>2, <3>1, AppendIsSequence
  <2>5. TracesInOrder'
    <3>1. traces' \in Seq(ElementsOf(traces'))
      BY <2>4 DEF ElementsOf
    <3>2. ASSUME NEW i \in 1 .. at
          PROVE  /\ traces'[i].identity = samples[i].part
                 /\ traces'[i].status \in {"success", "failed"}
                 /\ traces'[i].status = "failed" => i = at
      <4>1. CASE i = at
        BY <2>3, <2>4, <4>1
      <4>2. CASE i # at
        BY <1>6, <2>2, <2>4, <4>2 DEF SmokeInv, TracesInOrder
      <4> QED
        BY <4>1, <4>2
    <3> QED
      BY <1>2, <2>2, <2>4, <3>1, <3>2 DEF TracesInOrder, inputs
  <2>6. EvidenceLinked'
    <3>1. ASSUME NEW k \in 1 .. Len(evidence)
          PROVE  /\ SampleOf(k) \in 1 .. at - 1
                 /\ evidence[k].identity = samples[SampleOf(k)].part
                 /\ traces[SampleOf(k)].status = "success"
      BY <2>2 DEF SmokeInv, EvidenceLinked
    <3> QED
      BY <1>2, <2>2, <2>4, <3>1 DEF EvidenceLinked, inputs
  <2> QED
    BY <1>1, <1>2, <1>3, <1>4, <2>5, <2>6 DEF SmokeInv, inputs
<1> QED
  BY <1>5, <1>6

\* The golden answer of a sample whose id is its own.
LEMMA GoldenAnswerIsTruth ==
  ASSUME Golden, NEW n \in 1 .. Len(samples)
  PROVE  GoldenAnswer(samples[n]) = samples[n].truth
<1>1. {i \in 1 .. Len(samples) : samples[i].id = samples[n].id} = {n}
  BY DEF Golden
<1>2. (CHOOSE i \in {n} : \A j \in {n} : j <= i) = n
  OBVIOUS
<1> QED
  BY <1>1, <1>2 DEF GoldenAnswer

\* What the metrics give, and that they give golden samples all there is.
LEMMA ContextHit ==
  ASSUME NEW S, NEW relevant \in Seq(S), relevant # <<>>
  PROVE  LET raw == (Cardinality(NonBlank(relevant)) * Unit) \div Len(relevant) IN
         /\ raw \in Int
         /\ (\A k \in 1 .. Len(relevant) : relevant[k] # Blank) => raw = Unit
<1>1. PICK n \in Nat : n = Len(relevant) /\ n >= 1
  OBVIOUS
<1>2. IsFiniteSet(1 .. n) /\ Cardinality(1 .. n) = n
  BY FS_Interval
<1>3. NonBlank(relevant) \subseteq 1 .. n
  BY <1>1 DEF NonBlank
<1>4. IsFiniteSet(NonBlank(relevant))
  BY <1>2, <1>3, FS_Subset
<1>5. PICK c \in Nat : c = Cardinality(NonBlank(relevant))
  BY <1>4, FS_CardinalityType
<1>6. PICK u \in Nat : u = Unit
  BY RunnerAssumption
<1>7. (c * u) \div n \in Int
  <2>1. c * u \in Nat
    OBVIOUS
  <2> QED
    BY <1>1, <2>1
<1>8. ASSUME \A k \in 1 .. n : relevant[k] # Blank PROVE (c * u) \div n = u
  <2>1. NonBlank(relevant) = 1 .. n
    BY <1>1, <1>8 DEF NonBlank
  <2>2. c = n
    BY <1>2, <1>5, <2>1
  <2>3. (n * u) \div n = u
    BY <1>1
  <2> QED
    BY <2>2, <2>3
<1> QED
  BY <1>1, <1>5, <1>6, <1>7, <1>8

\* A score of the smoke is a score of the runner, and a full one of a golden
\* sample.
LEMMA SmokeScoreIsScore ==
  ASSUME SmokeInv, SmokeScores
  PROVE  \E raw \in Int : Scores(raw) /\ (Golden => raw = Unit)
<1>1. phase = "score" /\ metrics = SmokeMetrics /\ at \in 1 .. Len(samples)
  BY DEF SmokeInv, SmokeScores, EvalInv, RunShape
<1>2. Unit \in Int /\ 0 \in Int
  BY RunnerAssumption
<1>3. CASE metrics[scored] = "exact_match"
  <2>1. Scores(IF prediction.answer = samples[at].truth THEN Unit ELSE 0)
    BY <1>3 DEF SmokeScores, ExactMatchScores
  <2>2. Golden => prediction.answer = samples[at].truth
    BY <1>1, GoldenAnswerIsTruth DEF SmokeInv, Predicted
  <2> QED
    BY <1>2, <2>1, <2>2
<1>4. CASE metrics[scored] # "exact_match"
  <2> DEFINE relevant == samples[at].relevant
             raw == (Cardinality(NonBlank(relevant)) * Unit) \div Len(relevant)
  <2>1. relevant # <<>> /\ Scores(raw)
    BY <1>4 DEF SmokeScores, ContextHitScores
  <2>2. relevant \in Seq({relevant[k] : k \in DOMAIN relevant})
    <3>1. samples \in Datasets /\ at \in DOMAIN samples
      BY <1>1, InputsAreSequences DEF SmokeInv, EvalInv, RunShape
    <3> QED
      BY <3>1, SmokeAssumption
  <2>3. raw \in Int /\ ((\A k \in 1 .. Len(relevant) : relevant[k] # Blank) => raw = Unit)
    BY <2>1, <2>2, ContextHit
  <2>4. Golden => raw = Unit
    BY <1>1, <2>3 DEF Golden
  <2> QED
    BY <2>1, <2>3, <2>4
<1> QED
  BY <1>3, <1>4

LEMMA SmokeScoresKeeps ==
  ASSUME SmokeInv, SmokeScores
  PROVE  SmokeInv'
<1>1. PICK raw \in Int : Scores(raw) /\ (Golden => raw = Unit)
  BY SmokeScoreIsScore
<1>2. EvalInv'
  BY <1>1, ScoresKeeps DEF SmokeInv
<1> DEFINE name == metrics[scored]
           item == Evidence(name, Clamped(raw))
<1>3. /\ phase = "score" /\ name # Empty
      /\ sums' = [sums EXCEPT ![name] = Plus(sums[name], Clamped(raw))]
      /\ evidence' = IF evalRun THEN Append(evidence, item) ELSE evidence
      /\ Advances
      /\ UNCHANGED <<inputs, prediction, report, traces, exitCode>>
  BY <1>1 DEF Scores, SmokeScores
<1>4. /\ metrics = SmokeMetrics /\ Len(metrics) = 2
      /\ at \in 1 .. Len(samples) /\ scored \in 1 .. 2 /\ Len(samples) \in Nat
  BY <1>3, InputsAreSequences DEF SmokeInv, EvalInv, RunShape, SmokeMetrics
<1>5. /\ phase' \in {"predict", "score", "report"}
      /\ Made \in Nat /\ Made' = Made + 1
      /\ Made + 1 = (at - 1) * 2 + scored
      /\ \A j \in 1 .. 2 : Rounds(j)' = Rounds(j) + (IF j = scored THEN 1 ELSE 0)
  <2>1. /\ sums' \in [MetricNames -> Int \cup {NaN}]
        /\ evalRun => sums' \in [MetricNames -> Int]
    BY <1>2, <1>3 DEF EvalInv, RunShape, inputs
  <2> QED
    BY <1>3, <1>4, <2>1, ScoreIsCounted DEF SmokeInv, EvalInv
<1>6. \/ phase' = "score" /\ at' = at
      \/ phase' = "predict" /\ at' = at + 1
      \/ phase' = "report" /\ at' = at
  BY <1>3, <1>4 DEF Advances
<1>7. samples' = samples /\ metrics' = metrics /\ evalRun' = evalRun
  BY <1>3 DEF inputs
<1>8. Len(traces) = at /\ traces[at].status = "success"
  BY <1>3, <1>4 DEF SmokeInv, TracesInOrder
<1>9. TracesInOrder'
  BY <1>3, <1>4, <1>6, <1>7, <1>8 DEF SmokeInv, TracesInOrder, ElementsOf
<1>10. EvidenceLinked'
  <2>1. CASE ~evalRun
    BY <1>3, <1>7, <2>1 DEF SmokeInv, EvidenceLinked
  <2>2. CASE evalRun
    <3>1. evidence \in Seq(ElementsOf(evidence)) /\ Len(evidence) = Made
      BY <1>3, <2>2 DEF SmokeInv, EvalInv, EvidenceInOrder
    <3>2. item.identity = samples[at].part
      BY <1>3 DEF SmokeInv, Predicted, Evidence
    <3> HIDE DEF item
    <3>3. /\ Len(evidence') = Made + 1 /\ evidence'[Made + 1] = item
          /\ \A k \in 1 .. Made : evidence'[k] = evidence[k]
      BY <1>3, <2>2, <3>1, AppendIsSequence
    <3>4. SampleOf(Made + 1) = at
      BY <1>4, <1>5 DEF SampleOf
    <3>5. ASSUME NEW k \in 1 .. Made + 1
          PROVE  /\ SampleOf(k) \in 1 .. Len(traces)
                 /\ evidence'[k].identity = samples[SampleOf(k)].part
                 /\ traces[SampleOf(k)].status = "success"
      <4>1. CASE k = Made + 1
        BY <1>4, <1>8, <3>2, <3>3, <3>4, <4>1
      <4>2. CASE k # Made + 1
        <5>1. k \in 1 .. Made
          BY <1>5, <4>2
        <5> QED
          BY <3>1, <3>3, <5>1 DEF SmokeInv, EvidenceLinked
      <4> QED
        BY <4>1, <4>2
    <3> QED
      BY <1>3, <1>7, <3>3, <3>5 DEF EvidenceLinked
  <2> QED
    BY <2>1, <2>2 DEF SmokeInv, EvalInv, RunShape
<1>11. Predicted'
  BY <1>3, <1>6, <1>7 DEF SmokeInv, Predicted, GoldenAnswer
<1>12. FullMarks'
  <2> SUFFICES ASSUME Golden, NEW j \in 1 .. 2
               PROVE  sums'[SmokeMetrics[j]] = Rounds(j)' * Unit
    BY <1>7 DEF FullMarks, Golden
  <2>1. Clamped(raw) = Unit /\ Unit # NaN
    BY <1>1, RunnerAssumption DEF Clamped
  <2>2. /\ SmokeMetrics[j] \in MetricNames /\ Unit \in Nat
        /\ sums \in [MetricNames -> Int \cup {NaN}]
    BY SmokeAssumption, RunnerAssumption DEF SmokeInv, EvalInv, RunShape, SmokeMetrics
  <2>3. sums[SmokeMetrics[j]] = Rounds(j) * Unit
    BY <1>3 DEF SmokeInv, FullMarks
  <2>4. Rounds(j) \in Nat
    BY <1>3, <1>4 DEF Rounds
  <2>5. CASE j = scored
    <3>1. sums'[SmokeMetrics[j]] = sums[SmokeMetrics[j]] + Unit
      <4>1. sums'[SmokeMetrics[j]] = Plus(sums[SmokeMetrics[j]], Unit)
        BY <1>3, <1>4, <2>1, <2>2, <2>5
      <4>2. Rounds(j) * Unit \in Int
        BY <2>2, <2>4
      <4>3. sums[SmokeMetrics[j]] # NaN
        BY <2>3, <4>2, RunnerAssumption
      <4> QED
        BY <2>1, <4>1, <4>3 DEF Plus
    <3>2. Rounds(j)' = Rounds(j) + 1
      BY <1>5, <2>5
    <3>3. (Rounds(j) + 1) * Unit = Rounds(j) * Unit + Unit
      BY <2>2, <2>4, ProductsGrow
    <3> QED
      BY <2>3, <3>1, <3>2, <3>3
  <2>6. CASE j # scored
    <3>1. SmokeMetrics[j] # name
      BY <1>4, <2>6 DEF SmokeMetrics
    <3>2. sums'[SmokeMetrics[j]] = sums[SmokeMetrics[j]]
      BY <1>3, <2>2, <3>1
    <3>3. Rounds(j)' = Rounds(j)
      BY <1>5, <2>4, <2>6
    <3> QED
      BY <2>3, <3>2, <3>3
  <2> QED
    BY <2>5, <2>6
<1> QED
  BY <1>2, <1>3, <1>7, <1>9, <1>10, <1>11, <1>12 DEF SmokeInv

LEMMA SmokeReportsKeeps ==
  ASSUME SmokeInv, SmokeReports
  PROVE  SmokeInv'
<1>1. EvalInv'
  BY ReportsKeeps DEF SmokeInv, SmokeReports
<1>2. /\ phase = "report" /\ phase' = "done"
      /\ UNCHANGED <<inputs, at, scored, prediction, sums, evidence, traces, exitCode>>
  BY DEF SmokeReports, Reports
<1>3. TracesInOrder' /\ EvidenceLinked' /\ Predicted'
  BY <1>2 DEF SmokeInv, TracesInOrder, EvidenceLinked, Predicted, inputs, ElementsOf
<1>4. \A j \in 1 .. 2 : Rounds(j)' = Rounds(j)
  BY <1>2 DEF Rounds
<1>5. FullMarks'
  BY <1>2, <1>4, NoMarksKeeps DEF SmokeInv
<1> QED
  BY <1>1, <1>2, <1>3, <1>5 DEF SmokeInv, inputs

LEMMA OthersKeep ==
  ASSUME SmokeInv, UNCHANGED <<evalVars, traces>>,
         exitCode' \in {NoExit, 0, 1}, exitCode' = 0 => phase = "done"
  PROVE  SmokeInv'
<1>1. EvalInv'
  BY EvalStepKeeps DEF SmokeInv
<1>2. TracesInOrder' /\ EvidenceLinked'
  BY DEF SmokeInv, TracesInOrder, EvidenceLinked, ElementsOf, evalVars
<1>3. Predicted'
  BY DEF SmokeInv, Predicted, GoldenAnswer, evalVars
<1>4. \A j \in 1 .. 2 : Rounds(j)' = Rounds(j)
  BY DEF Rounds, evalVars
<1>5. FullMarks'
  BY <1>4 DEF SmokeInv, FullMarks, Golden, evalVars
<1> QED
  BY <1>1, <1>2, <1>3, <1>5 DEF SmokeInv, evalVars

LEMMA SmokeInvariant == SmokeSpec => []SmokeInv
<1>1. SmokeInv /\ [SmokeNext]_smokeVars => SmokeInv'
  <2> SUFFICES ASSUME SmokeInv, [SmokeNext]_smokeVars PROVE SmokeInv'
    OBVIOUS
  <2>1. CASE UNCHANGED smokeVars
    BY <2>1, OthersKeep DEF smokeVars, SmokeInv
  <2>2. CASE SmokeLoads
    BY <2>2, SmokeLoadsKeeps
  <2>3. CASE SmokeRejected
    BY <2>3, SmokeFailsKeeps DEF SmokeRejected, RunRejected
  <2>4. CASE PredictSample
    BY <2>4, PredictSampleKeeps
  <2>5. CASE ChatFails
    BY <2>5, SmokeFailsKeeps DEF ChatFails, PredictFails
  <2>6. CASE RenderFails
    BY <2>6, SmokeFailsKeeps DEF RenderFails, PredictFails
  <2>7. CASE SmokeScores
    BY <2>7, SmokeScoresKeeps
  <2>8. CASE SmokeScoreFails
    BY <2>8, SmokeFailsKeeps DEF SmokeScoreFails, ScoreFails
  <2>9. CASE SmokeReports
    BY <2>9, SmokeReportsKeeps
  <2>10. ASSUME NEW code \in {0, 1}, Exits(code) PROVE SmokeInv'
    <3>1. exitCode' = 0 => phase = "done"
      BY <2>10 DEF Exits
    <3> QED
      BY <2>10, <3>1, OthersKeep DEF Exits
  <2> QED
    BY <2>1, <2>2, <2>3, <2>4, <2>5, <2>6, <2>7, <2>8, <2>9, <2>10 DEF SmokeNext
<1> QED
  BY <1>1, SmokeInitOK, PTL DEF SmokeSpec

LEMMA SmokeIsSound ==
  ASSUME SmokeInv
  PROVE  SmokeSound
<1>1. Len(samples) \in Nat /\ Len(metrics) = 2 /\ at \in 0 .. Len(samples)
  BY InputsAreSequences DEF SmokeInv, EvalInv, RunShape, SmokeMetrics
<1>2. Len(traces) \in Nat /\ Len(traces) <= Len(samples)
  BY <1>1 DEF SmokeInv, TracesInOrder
<1>3. EvidenceTraced
  <2>1. \A i \in 1 .. Len(traces) :
          /\ traces[i].identity = samples[i].part
          /\ traces[i].status = "failed" => phase = "failed" /\ i = Len(traces)
    BY DEF SmokeInv, TracesInOrder
  <2>2. ASSUME NEW k \in 1 .. Len(evidence)
        PROVE  /\ (k - 1) \div Len(metrics) + 1 <= Len(traces)
               /\ evidence[k].identity = traces[(k - 1) \div Len(metrics) + 1].identity
               /\ traces[(k - 1) \div Len(metrics) + 1].status = "success"
    <3>1. /\ SampleOf(k) \in 1 .. Len(traces)
          /\ evidence[k].identity = samples[SampleOf(k)].part
          /\ traces[SampleOf(k)].status = "success"
      BY DEF SmokeInv, EvidenceLinked
    <3>2. (k - 1) \div Len(metrics) + 1 = SampleOf(k)
      BY <1>1 DEF SampleOf
    <3> QED
      BY <1>2, <2>1, <3>1, <3>2
  <2> QED
    BY <1>2, <2>1, <2>2 DEF EvidenceTraced
<1>4. GoldenSmokeIsPerfect
  <2> SUFFICES ASSUME report # <<>>, Golden, NEW k \in 1 .. Len(SmokeMetrics)
               PROVE  report.sums[SmokeMetrics[k]] = report.count * Unit
    BY DEF GoldenSmokeIsPerfect, Golden
  <2>1. /\ phase = "done" /\ at = Len(samples)
        /\ report.count = Len(samples) /\ report.sums = sums
    BY WholeReport DEF SmokeInv
  <2>2. k \in 1 .. 2
    BY DEF SmokeMetrics
  <2>3. Rounds(k) = Len(samples)
    BY <2>1 DEF Rounds
  <2> QED
    BY <2>1, <2>2, <2>3 DEF SmokeInv, FullMarks
<1>5. ExitBacked
  <2> SUFFICES ASSUME exitCode = 0
               PROVE  /\ report # <<>> /\ report.count = Len(samples)
                      /\ Len(traces) = Len(samples)
                      /\ \A i \in 1 .. Len(traces) : traces[i].status = "success"
    BY DEF ExitBacked
  <2>1. phase = "done" /\ at = Len(samples)
    BY DEF SmokeInv, EvalInv, RunShape
  <2>2. report = [count |-> Len(samples), sums |-> sums, evidence |-> evidence]
    BY <2>1 DEF SmokeInv, EvalInv, ReportIsWhole
  <2>3. report # <<>>
    BY <2>2
  <2>4. \A i \in 1 .. Len(traces) : traces[i].status = "success"
    BY <2>1 DEF SmokeInv, TracesInOrder
  <2> QED
    BY <2>1, <2>2, <2>3, <2>4 DEF SmokeInv, TracesInOrder
<1> QED
  BY <1>3, <1>4, <1>5 DEF SmokeSound

\* p0.go:61-330 and cmd/eval-smoke, for any dataset: traces, evidence and exit
\* code are about the same samples, and golden answers get full marks.
THEOREM SmokeGateIsSound == SmokeSpec => []SmokeSound
BY SmokeInvariant, SmokeIsSound, PTL

-------------------------------------------------------------------------------
(* The retrieval metrics: gains. *)

\* What every rank is worth in dcg for these hits.
Worth(ranks) == [n \in 1 .. MaxRanked |-> IF n \in ranks THEN Discount[n] ELSE 0]

LEMMA DiscountIsNatural ==
  MaxRanked \in Nat /\ \A n \in 1 .. MaxRanked : Discount[n] \in Nat /\ Discount[n] > 0
BY MetricsAssumption

LEMMA DiscountFalls ==
  ASSUME NEW a \in 1 .. MaxRanked, NEW b \in 1 .. MaxRanked, b < a
  PROVE  Discount[a] < Discount[b]
<1> DEFINE P == {n \in Nat : \A k \in 1 .. n - 1 : n <= MaxRanked => Discount[n] < Discount[k]}
<1>1. 0 \in P
  OBVIOUS
<1>2. ASSUME NEW n \in P PROVE n + 1 \in P
  <2> SUFFICES ASSUME n + 1 <= MaxRanked, NEW k \in 1 .. n
               PROVE  Discount[n + 1] < Discount[k]
    OBVIOUS
  <2>1. MaxRanked \in Nat /\ n \in 1 .. MaxRanked /\ n + 1 \in 2 .. MaxRanked
    BY DiscountIsNatural
  <2>2. Discount[n + 1] < Discount[n]
    BY <2>1, MetricsAssumption
  <2>3. k = n \/ Discount[n] < Discount[k]
    BY <2>1
  <2> QED
    BY <2>1, <2>2, <2>3, DiscountIsNatural
<1> HIDE DEF P
<1>3. P = Nat
  BY <1>1, <1>2, Induction, P \subseteq Nat DEF P
<1> QED
  BY <1>3, DiscountIsNatural DEF P

LEMMA GainIsTotal ==
  ASSUME NEW ranks
  PROVE  \E f : /\ RunsTotal(f, Worth(ranks), MaxRanked)
                /\ Gain(ranks) = f[MaxRanked]
<1> DEFINE Next1(f) ==
             [n \in 0 .. MaxRanked |->
                IF n = 0 THEN 0 ELSE f[n - 1] + (IF n \in ranks THEN Discount[n] ELSE 0)]
           gain == CHOOSE f : f = Next1(f)
<1>1. Worth(ranks) \in [1 .. MaxRanked -> Int] /\ MaxRanked \in Nat
  BY DiscountIsNatural DEF Worth
<1>2. PICK f : RunsTotal(f, Worth(ranks), MaxRanked)
  BY <1>1, TotalExists
<1>3. f = Next1(f)
  BY <1>2 DEF RunsTotal, AddsUp, Worth
<1>4. gain = Next1(gain)
  BY <1>3
<1>5. Gain(ranks) = gain[MaxRanked]
  BY DEF Gain
<1> HIDE DEF gain
<1>6. AddsUp(gain, Worth(ranks), MaxRanked)
  BY <1>1, <1>4 DEF AddsUp, Worth
<1>7. \A k \in 0 .. MaxRanked : f[k] = gain[k]
  BY <1>1, <1>2, <1>6, TotalsAgree DEF RunsTotal
<1> QED
  BY <1>1, <1>2, <1>5, <1>7

\* More hits are worth no less.
LEMMA GainOfSubset ==
  ASSUME NEW ranks, NEW less, less \subseteq ranks
  PROVE  Gain(less) <= Gain(ranks)
<1>1. PICK f : RunsTotal(f, Worth(less), MaxRanked) /\ Gain(less) = f[MaxRanked]
  BY GainIsTotal
<1>2. PICK g : RunsTotal(g, Worth(ranks), MaxRanked) /\ Gain(ranks) = g[MaxRanked]
  BY GainIsTotal
<1> DEFINE P == {n \in Nat : n <= MaxRanked => f[n] <= g[n]}
<1>3. 0 \in P
  BY <1>1, <1>2 DEF RunsTotal, AddsUp
<1>4. ASSUME NEW n \in P PROVE n + 1 \in P
  <2> SUFFICES ASSUME n + 1 <= MaxRanked PROVE f[n + 1] <= g[n + 1]
    OBVIOUS
  <2>1. n \in 0 .. MaxRanked /\ n + 1 \in 1 .. MaxRanked /\ (n + 1) - 1 = n
    BY DiscountIsNatural
  <2>2. f[n + 1] = f[n] + Worth(less)[n + 1] /\ g[n + 1] = g[n] + Worth(ranks)[n + 1]
    BY <1>1, <1>2, <2>1 DEF RunsTotal, AddsUp
  <2>3. f[n] \in Int /\ g[n] \in Int /\ f[n] <= g[n]
    BY <1>1, <1>2, <2>1 DEF RunsTotal
  <2>4. /\ Worth(less)[n + 1] \in Nat /\ Worth(ranks)[n + 1] \in Nat
        /\ Worth(less)[n + 1] <= Worth(ranks)[n + 1]
    BY <2>1, DiscountIsNatural DEF Worth
  <2> QED
    BY <2>2, <2>3, <2>4
<1> HIDE DEF P
<1>5. P = Nat
  BY <1>3, <1>4, Induction, P \subseteq Nat DEF P
<1> QED
  BY <1>1, <1>2, <1>5, DiscountIsNatural DEF P

\* A hit that moves up by one rank.
LEMMA GainOfPromotion ==
  ASSUME NEW ranks, NEW i \in 1 .. MaxRanked - 1, i \notin ranks, i + 1 \in ranks
  PROVE  Gain(ranks) <= Gain((ranks \ {i + 1}) \cup {i})
<1>1. PICK moved : moved = (ranks \ {i + 1}) \cup {i}
  OBVIOUS
<1>2. PICK f : RunsTotal(f, Worth(ranks), MaxRanked) /\ Gain(ranks) = f[MaxRanked]
  BY GainIsTotal
<1>3. PICK g : RunsTotal(g, Worth(moved), MaxRanked) /\ Gain(moved) = g[MaxRanked]
  BY GainIsTotal
<1>4. /\ MaxRanked \in Nat /\ i \in 1 .. MaxRanked /\ i + 1 \in 1 .. MaxRanked
      /\ Discount[i] \in Nat /\ Discount[i + 1] \in Nat /\ Discount[i + 1] < Discount[i]
  BY DiscountIsNatural, DiscountFalls
<1> DEFINE P == {n \in Nat : n <= MaxRanked =>
                   f[n] + (IF n = i THEN Discount[i + 1] ELSE 0) <= g[n]}
<1>5. 0 \in P
  BY <1>2, <1>3 DEF RunsTotal, AddsUp
<1>6. ASSUME NEW n \in P PROVE n + 1 \in P
  <2> SUFFICES ASSUME n + 1 <= MaxRanked
               PROVE  f[n + 1] + (IF n + 1 = i THEN Discount[i + 1] ELSE 0) <= g[n + 1]
    OBVIOUS
  <2>1. n \in 0 .. MaxRanked /\ n + 1 \in 1 .. MaxRanked /\ (n + 1) - 1 = n
    BY DiscountIsNatural
  <2>2. f[n + 1] = f[n] + Worth(ranks)[n + 1] /\ g[n + 1] = g[n] + Worth(moved)[n + 1]
    BY <1>2, <1>3, <2>1 DEF RunsTotal, AddsUp
  <2>3. f[n] \in Int /\ g[n] \in Int
    BY <1>2, <1>3, <2>1 DEF RunsTotal
  <2>4. f[n] + (IF n = i THEN Discount[i + 1] ELSE 0) <= g[n]
    BY <2>1
  <2>5. CASE n + 1 = i
    <3>1. Worth(ranks)[n + 1] = 0 /\ Worth(moved)[n + 1] = Discount[i]
      BY <1>1, <1>4, <2>1, <2>5 DEF Worth
    <3> QED
      BY <1>4, <2>2, <2>3, <2>4, <2>5, <3>1
  <2>6. CASE n = i
    <3>1. Worth(ranks)[n + 1] = Discount[i + 1] /\ Worth(moved)[n + 1] = 0
      BY <1>1, <1>4, <2>1, <2>6 DEF Worth
    <3> QED
      BY <1>4, <2>2, <2>3, <2>4, <2>6, <3>1
  <2>7. CASE n + 1 # i /\ n # i
    <3>1. Worth(ranks)[n + 1] = Worth(moved)[n + 1] /\ Worth(moved)[n + 1] \in Nat
      BY <1>1, <1>4, <2>1, <2>7, DiscountIsNatural DEF Worth
    <3> QED
      BY <1>4, <2>2, <2>3, <2>4, <2>7, <3>1
  <2> QED
    BY <2>5, <2>6, <2>7
<1> HIDE DEF P
<1>7. P = Nat
  BY <1>5, <1>6, Induction, P \subseteq Nat DEF P
<1>8. f[MaxRanked] <= g[MaxRanked]
  <2>1. f[MaxRanked] + (IF MaxRanked = i THEN Discount[i + 1] ELSE 0) <= g[MaxRanked]
    BY <1>4, <1>7 DEF P
  <2>2. f[MaxRanked] \in Int /\ MaxRanked # i
    BY <1>2, <1>4 DEF RunsTotal
  <2> QED
    BY <2>1, <2>2
<1> QED
  BY <1>1, <1>2, <1>3, <1>8

\* The gain of hits at the first c ranks, and that it grows with c.
LEMMA GainOfFront ==
  ASSUME NEW top, RunsTotal(top, Worth(1 .. MaxRanked), MaxRanked),
         NEW c \in 0 .. MaxRanked
  PROVE  Gain(1 .. c) = top[c]
<1>1. PICK f : RunsTotal(f, Worth(1 .. c), MaxRanked) /\ Gain(1 .. c) = f[MaxRanked]
  BY GainIsTotal
<1>2. MaxRanked \in Nat /\ c \in Nat /\ c <= MaxRanked
  BY DiscountIsNatural
<1> DEFINE P == {n \in Nat : n <= MaxRanked => f[n] = top[IF n <= c THEN n ELSE c]}
<1>3. 0 \in P
  BY <1>1, <1>2 DEF RunsTotal, AddsUp
<1>4. ASSUME NEW n \in P PROVE n + 1 \in P
  <2> SUFFICES ASSUME n + 1 <= MaxRanked
               PROVE  f[n + 1] = top[IF n + 1 <= c THEN n + 1 ELSE c]
    OBVIOUS
  <2>1. n \in 0 .. MaxRanked /\ n + 1 \in 1 .. MaxRanked /\ (n + 1) - 1 = n
    BY <1>2
  <2>2. /\ f[n + 1] = f[n] + Worth(1 .. c)[n + 1]
        /\ top[n + 1] = top[n] + Worth(1 .. MaxRanked)[n + 1]
    BY <1>1, <2>1 DEF RunsTotal, AddsUp
  <2>3. f[n] \in Int
    BY <1>1, <2>1 DEF RunsTotal
  <2>4. CASE n + 1 <= c
    <3>1. Worth(1 .. c)[n + 1] = Worth(1 .. MaxRanked)[n + 1]
      BY <2>1, <2>4 DEF Worth
    <3> QED
      BY <1>2, <2>1, <2>2, <2>4, <3>1
  <2>5. CASE n + 1 > c
    <3>1. Worth(1 .. c)[n + 1] = 0
      BY <1>2, <2>1, <2>5 DEF Worth
    <3>2. f[n] = top[c]
      BY <1>2, <2>1, <2>5
    <3> QED
      BY <1>2, <2>1, <2>2, <2>3, <2>5, <3>1, <3>2
  <2> QED
    BY <1>2, <2>1, <2>4, <2>5
<1> HIDE DEF P
<1>5. P = Nat
  BY <1>3, <1>4, Induction, P \subseteq Nat DEF P
<1>6. f[MaxRanked] = top[c]
  BY <1>2, <1>5 DEF P
<1> QED
  BY <1>1, <1>6

LEMMA TopGrows ==
  ASSUME NEW top, RunsTotal(top, Worth(1 .. MaxRanked), MaxRanked),
         NEW c \in 0 .. MaxRanked, NEW b \in 0 .. MaxRanked, b < c
  PROVE  top[b] \in Int /\ top[c] \in Int /\ top[b] < top[c]
<1> DEFINE P == {n \in Nat : \A k \in 0 .. n - 1 : n <= MaxRanked => top[k] < top[n]}
<1>1. 0 \in P
  OBVIOUS
<1>2. ASSUME NEW n \in P PROVE n + 1 \in P
  <2> SUFFICES ASSUME n + 1 <= MaxRanked, NEW k \in 0 .. n PROVE top[k] < top[n + 1]
    OBVIOUS
  <2>1. n \in 0 .. MaxRanked /\ n + 1 \in 1 .. MaxRanked /\ (n + 1) - 1 = n
    BY DiscountIsNatural
  <2>2. top[n + 1] = top[n] + Worth(1 .. MaxRanked)[n + 1]
    BY <2>1 DEF RunsTotal, AddsUp
  <2>3. Worth(1 .. MaxRanked)[n + 1] \in Nat /\ Worth(1 .. MaxRanked)[n + 1] > 0
    BY <2>1, DiscountIsNatural DEF Worth
  <2>4. top[n] \in Int /\ top[k] \in Int
    BY <2>1, DiscountIsNatural DEF RunsTotal
  <2>5. k = n \/ top[k] < top[n]
    BY <2>1
  <2> QED
    BY <2>2, <2>3, <2>4, <2>5
<1> HIDE DEF P
<1>3. P = Nat
  BY <1>1, <1>2, Induction, P \subseteq Nat DEF P
<1>4. top[b] < top[c]
  BY <1>3, DiscountIsNatural DEF P
<1> QED
  BY <1>4 DEF RunsTotal

\* What holds of the hits among the first n ranks, c in number.
FrontBest(f, top, upto, n) ==
  \E c \in 0 .. n :
    /\ IsFiniteSet(upto) /\ Cardinality(upto) = c
    /\ f[n] <= top[c]
    /\ f[n] = top[c] => upto = 1 .. c

\* No c hits are worth more than c hits in front, and no others as much.
LEMMA FrontIsBest ==
  ASSUME NEW top, RunsTotal(top, Worth(1 .. MaxRanked), MaxRanked),
         NEW ranks \in SUBSET (1 .. MaxRanked)
  PROVE  /\ IsFiniteSet(ranks) /\ Cardinality(ranks) \in 0 .. MaxRanked
         /\ Gain(ranks) \in Int
         /\ Gain(ranks) <= top[Cardinality(ranks)]
         /\ Gain(ranks) = top[Cardinality(ranks)] => ranks = 1 .. Cardinality(ranks)
<1>1. PICK f : RunsTotal(f, Worth(ranks), MaxRanked) /\ Gain(ranks) = f[MaxRanked]
  BY GainIsTotal
<1> DEFINE upto(n) == ranks \cap (1 .. n)
           P == {n \in Nat : n <= MaxRanked => FrontBest(f, top, upto(n), n)}
<1>2. 0 \in P
  <2>1. upto(0) = {} /\ 1 .. 0 = {}
    OBVIOUS
  <2>2. f[0] = 0 /\ top[0] = 0
    BY <1>1 DEF RunsTotal, AddsUp
  <2> QED
    BY <2>1, <2>2, FS_EmptySet DEF FrontBest
<1>3. ASSUME NEW n \in P PROVE n + 1 \in P
  <2> SUFFICES ASSUME n + 1 <= MaxRanked
               PROVE  FrontBest(f, top, upto(n + 1), n + 1)
    OBVIOUS
  <2>1. n \in 0 .. MaxRanked /\ n + 1 \in 1 .. MaxRanked /\ (n + 1) - 1 = n /\ n \in Nat
        /\ MaxRanked \in Nat
    BY DiscountIsNatural
  <2>2. f[n + 1] = f[n] + Worth(ranks)[n + 1] /\ f[n] \in Int
    BY <1>1, <2>1 DEF RunsTotal, AddsUp
  <2>3. FrontBest(f, top, upto(n), n)
    BY <2>1
  <2>4. PICK c \in 0 .. n :
          /\ IsFiniteSet(upto(n)) /\ Cardinality(upto(n)) = c
          /\ f[n] <= top[c]
          /\ f[n] = top[c] => upto(n) = 1 .. c
    BY <2>3 DEF FrontBest
  <2>7. c \in 0 .. n + 1 /\ c + 1 \in 0 .. n + 1
    BY <2>1
  <2> HIDE DEF P
  <2>5. CASE n + 1 \notin ranks
    <3>1. upto(n + 1) = upto(n)
      BY <2>1, <2>5
    <3>2. Worth(ranks)[n + 1] = 0
      BY <2>1, <2>5 DEF Worth
    <3>3. f[n + 1] = f[n]
      BY <2>2, <3>2
    <3> QED
      BY <2>2, <2>4, <2>7, <3>1, <3>3 DEF FrontBest
  <2>6. CASE n + 1 \in ranks
    <3>1. upto(n + 1) = upto(n) \cup {n + 1} /\ n + 1 \notin upto(n)
      BY <2>1, <2>6
    <3>2. IsFiniteSet(upto(n + 1)) /\ Cardinality(upto(n + 1)) = c + 1
      <4> HIDE DEF upto
      <4> QED
        BY <2>4, <3>1, FS_AddElement
    <3>3. Worth(ranks)[n + 1] = Discount[n + 1]
      BY <2>1, <2>6 DEF Worth
    <3>4. top[c + 1] = top[c] + Discount[c + 1] /\ top[c] \in Int
      <4>1. c + 1 \in 1 .. MaxRanked /\ (c + 1) - 1 = c /\ c \in 0 .. MaxRanked
        BY <2>1
      <4> QED
        BY <4>1 DEF RunsTotal, AddsUp, Worth
    <3>5. /\ Discount[n + 1] \in Nat /\ Discount[c + 1] \in Nat
          /\ c = n \/ Discount[n + 1] < Discount[c + 1]
      <4>1. n + 1 \in 1 .. MaxRanked /\ c + 1 \in 1 .. MaxRanked /\ (c = n \/ c + 1 < n + 1)
        BY <2>1
      <4> QED
        BY <4>1, DiscountFalls, DiscountIsNatural
    <3>6. f[n + 1] <= top[c + 1]
      BY <2>2, <2>4, <3>3, <3>4, <3>5
    <3>7. ASSUME f[n + 1] = top[c + 1] PROVE upto(n + 1) = 1 .. c + 1
      <4>1. c = n /\ f[n] = top[c]
        BY <2>2, <2>4, <3>3, <3>4, <3>5, <3>7
      <4>2. upto(n) = 1 .. n
        BY <2>4, <4>1
      <4> QED
        BY <2>1, <3>1, <4>1, <4>2
    <3> QED
      BY <2>7, <3>2, <3>6, <3>7 DEF FrontBest
  <2> QED
    BY <2>5, <2>6
<1>4. P = Nat
  <2> HIDE DEF P
  <2> QED
    BY <1>2, <1>3, Induction, P \subseteq Nat DEF P
<1>5. FrontBest(f, top, upto(MaxRanked), MaxRanked) /\ upto(MaxRanked) = ranks
  <2>1. MaxRanked \in P
    <3> HIDE DEF P
    <3> QED
      BY <1>4, DiscountIsNatural
  <2>2. ranks \cap (1 .. MaxRanked) = ranks
    OBVIOUS
  <2>3. MaxRanked <= MaxRanked
    BY DiscountIsNatural
  <2> QED
    BY <2>1, <2>2, <2>3
<1>6. f[MaxRanked] \in Int
  BY <1>1, DiscountIsNatural DEF RunsTotal
<1> QED
  BY <1>1, <1>5, <1>6 DEF FrontBest

-------------------------------------------------------------------------------
(* The retrieval metrics: hits and documents. *)

Hits(ranked, relevant, limit) ==
  {rank \in 1 .. limit :
     /\ Trimmed[ranked[rank]] \in relevant
     /\ \A seen \in 1 .. rank - 1 : Trimmed[ranked[seen]] # Trimmed[ranked[rank]]}

DocumentsWithin(ranked, limit) == {Trimmed[ranked[rank]] : rank \in 1 .. limit}

LEMMA HitsWithin ==
  ASSUME NEW ranked, NEW relevant, NEW more \in Nat, NEW limit \in 0 .. more
  PROVE  /\ Hits(ranked, relevant, more) \in SUBSET (1 .. more)
         /\ Hits(ranked, relevant, limit) = Hits(ranked, relevant, more) \cap (1 .. limit)
BY DEF Hits

\* A hit stands for a document that was found, and every one of them has one.
LEMMA HitsAreDocuments ==
  ASSUME NEW ranked, NEW relevant, NEW limit \in Nat
  PROVE  LET hits  == Hits(ranked, relevant, limit)
             found == DocumentsWithin(ranked, limit) \cap relevant IN
         /\ IsFiniteSet(hits) /\ IsFiniteSet(found)
         /\ Cardinality(hits) = Cardinality(found)
<1> DEFINE hits == Hits(ranked, relevant, limit)
           found == DocumentsWithin(ranked, limit) \cap relevant
           f == [rank \in hits |-> Trimmed[ranked[rank]]]
<1>1. hits \in SUBSET (1 .. limit)
  BY DEF Hits
<1>2. IsFiniteSet(hits)
  <2>1. IsFiniteSet(1 .. limit)
    BY FS_Interval
  <2> QED
    BY <1>1, <2>1, FS_Subset
<1>3. f \in [hits -> found]
  BY DEF Hits, DocumentsWithin
<1>4. ASSUME NEW a \in hits, NEW b \in hits, f[a] = f[b] PROVE a = b
  <2>1. /\ a \in 1 .. limit /\ b \in 1 .. limit
        /\ Trimmed[ranked[a]] = Trimmed[ranked[b]]
        /\ \A seen \in 1 .. a - 1 : Trimmed[ranked[seen]] # Trimmed[ranked[a]]
        /\ \A seen \in 1 .. b - 1 : Trimmed[ranked[seen]] # Trimmed[ranked[b]]
    BY <1>4 DEF Hits
  <2>2. ~ (a < b) /\ ~ (b < a)
    BY <2>1
  <2> QED
    BY <2>1, <2>2
<1>5. ASSUME NEW document \in found PROVE \E rank \in hits : f[rank] = document
  <2> DEFINE T == {rank \in 1 .. limit : Trimmed[ranked[rank]] = document}
  <2>1. T \in SUBSET Nat /\ T # {} /\ document \in relevant
    BY DEF DocumentsWithin
  <2>2. PICK m \in T : \A n \in T : m <= n
    BY <2>1, LeastMember
  <2>3. \A seen \in 1 .. m - 1 : seen \notin T
    BY <2>1, <2>2
  <2>4. m \in hits
    BY <2>1, <2>2, <2>3 DEF Hits
  <2> QED
    BY <2>2, <2>4
<1>6. f \in Bijection(hits, found)
  BY <1>3, <1>4, <1>5 DEF Bijection, Injection, Surjection, IsInjective
<1> HIDE DEF hits, found, f
<1>7. ExistsBijection(hits, found)
  BY <1>6 DEF ExistsBijection
<1>8. IsFiniteSet(found) /\ Cardinality(found) = Cardinality(hits)
  BY <1>2, <1>7, FS_Bijection
<1> QED
  BY <1>2, <1>8 DEF hits, found

LEMMA FirstRankIsLeast ==
  ASSUME NEW ranks \in SUBSET (Nat \ {0})
  PROVE  /\ ranks = {} => FirstRank(ranks) = 0
         /\ ranks # {} => /\ FirstRank(ranks) \in ranks /\ FirstRank(ranks) # 0
                          /\ \A s \in ranks : FirstRank(ranks) <= s
<1>1. ASSUME ranks # {} PROVE \E r \in ranks : \A s \in ranks : r <= s
  BY <1>1, LeastMember
<1> QED
  BY <1>1 DEF FirstRank

LEMMA RelevantIsFinite ==
  ASSUME NEW ids, IsFiniteSet(ids)
  PROVE  IsFiniteSet(Relevant(ids)) /\ Cardinality(Relevant(ids)) \in Nat
<1> DEFINE all == {Trimmed[id] : id \in ids}
           f == [id \in ids |-> Trimmed[id]]
<1>1. f \in Surjection(ids, all)
  BY DEF Surjection
<1> HIDE DEF f
<1>2. IsFiniteSet(all)
  <2> HIDE DEF all
  <2> QED
    BY <1>1, FS_Surjection
<1>3. Relevant(ids) \in SUBSET all
  BY DEF Relevant
<1> HIDE DEF all
<1> QED
  BY <1>2, <1>3, FS_Subset, FS_CardinalityType

\* Rankings as the metrics are given them.
IsRanking(ranked, ids, cutoff) ==
  /\ ranked \in Seq(RawIds) /\ Len(ranked) \in 0 .. MaxRanked
  /\ IsFiniteSet(ids) /\ cutoff \in Int

LEMMA LimitIsWithin ==
  ASSUME NEW ranked, NEW ids, NEW cutoff, IsRanking(ranked, ids, cutoff)
  PROVE  /\ Limit(ranked, cutoff) \in 0 .. Len(ranked) /\ Limit(ranked, cutoff) \in 0 .. MaxRanked
         /\ Limit(ranked, cutoff) <= Limit(ranked, cutoff + 1)
         /\ Len(ranked) \in Nat /\ MaxRanked \in Nat
BY DiscountIsNatural DEF IsRanking, Limit, Least

\* What a score is made of.
LEMMA ScoredParts ==
  ASSUME NEW ranked, NEW ids, NEW cutoff, IsRanking(ranked, ids, cutoff),
         NEW limit, limit = Limit(ranked, cutoff), NEW relevant, relevant = Relevant(ids)
  PROVE  LET hits   == Hits(ranked, relevant, limit)
             result == Scored(ranked, ids, cutoff) IN
         /\ hits \in SUBSET (1 .. MaxRanked) /\ hits \in SUBSET (Nat \ {0})
         /\ IsFiniteSet(hits) /\ Cardinality(hits) \in Nat
         /\ IsFiniteSet(relevant) /\ Cardinality(relevant) \in Nat
         /\ result.hits = Cardinality(hits) /\ result.relevant = Cardinality(relevant)
         /\ result.first = FirstRank(hits)
         /\ result.dcg = Gain(hits)
         /\ result.ideal = Least(Cardinality(relevant), limit)
         /\ result.idcg = Gain(1 .. Least(Cardinality(relevant), limit))
<1> DEFINE hits == Hits(ranked, relevant, limit)
<1>1. limit \in 0 .. MaxRanked /\ limit \in Nat /\ MaxRanked \in Nat
  BY LimitIsWithin
<1>2. hits \in SUBSET (1 .. MaxRanked) /\ hits \in SUBSET (Nat \ {0})
  BY <1>1 DEF Hits
<1>3. IsFiniteSet(hits)
  BY <1>1, HitsAreDocuments
<1>4. IsFiniteSet(relevant) /\ Cardinality(relevant) \in Nat
  BY RelevantIsFinite DEF IsRanking
<1>5. HitRanks(ranked, relevant, cutoff) = hits
  BY DEF HitRanks, Hits
<1> HIDE DEF hits
<1>6. Cardinality(hits) \in Nat
  BY <1>3, FS_CardinalityType
<1> QED
  BY <1>2, <1>3, <1>4, <1>5, <1>6 DEF Scored, IdealHits, hits

\* The three comparisons of one ranking with itself, all from the best that so
\* many hits can be worth.
LEMMA ScoresTellTheirNames ==
  ASSUME NEW ranked, NEW ids, NEW cutoff, IsRanking(ranked, ids, cutoff),
         NEW limit, limit = Limit(ranked, cutoff), NEW relevant, relevant = Relevant(ids),
         NEW result, result = Scored(ranked, ids, cutoff),
         NEW ideal, ideal = Least(Cardinality(relevant), limit)
  PROVE  /\ result.hits = Cardinality(DocumentsWithin(ranked, limit) \cap relevant)
         /\ result.hits <= result.relevant
         /\ result.dcg <= result.idcg
         /\ result.dcg = result.idcg
              <=> Cardinality(DocumentsWithin(ranked, ideal) \cap relevant) = ideal
<1> DEFINE hits == Hits(ranked, relevant, limit)
           front == Hits(ranked, relevant, ideal)
<1>1. limit \in 0 .. MaxRanked /\ limit \in Nat /\ MaxRanked \in Nat
  BY LimitIsWithin
<1>2. /\ hits \in SUBSET (1 .. MaxRanked)
      /\ IsFiniteSet(hits) /\ Cardinality(hits) \in Nat
      /\ IsFiniteSet(relevant) /\ Cardinality(relevant) \in Nat
      /\ result.hits = Cardinality(hits) /\ result.relevant = Cardinality(relevant)
      /\ result.dcg = Gain(hits) /\ result.idcg = Gain(1 .. ideal)
  BY ScoredParts
<1>3. ideal \in 0 .. limit /\ ideal \in 0 .. MaxRanked /\ ideal \in Nat
  BY <1>1, <1>2 DEF Least
<1>4. Cardinality(hits) = Cardinality(DocumentsWithin(ranked, limit) \cap relevant)
  BY <1>1, HitsAreDocuments
<1>5. Cardinality(hits) <= Cardinality(relevant)
  <2>1. DocumentsWithin(ranked, limit) \cap relevant \in SUBSET relevant
    OBVIOUS
  <2> QED
    BY <1>2, <1>4, <2>1, FS_Subset
<1>6. hits \in SUBSET (1 .. limit) /\ front = hits \cap (1 .. ideal)
  BY <1>1, <1>3, HitsWithin
<1>7. Cardinality(hits) <= limit
  <2>1. IsFiniteSet(1 .. limit) /\ Cardinality(1 .. limit) = limit
    BY <1>1, FS_Interval
  <2> HIDE DEF hits
  <2> QED
    BY <1>6, <2>1, FS_Subset
<1>8. Cardinality(hits) \in 0 .. ideal
  BY <1>1, <1>2, <1>5, <1>7 DEF Least
<1>9. /\ IsFiniteSet(front) /\ Cardinality(front) \in Nat
      /\ Cardinality(front) = Cardinality(DocumentsWithin(ranked, ideal) \cap relevant)
  <2>1. IsFiniteSet(front)
    BY <1>3, HitsAreDocuments
  <2>2. Cardinality(front) = Cardinality(DocumentsWithin(ranked, ideal) \cap relevant)
    BY <1>3, HitsAreDocuments
  <2> HIDE DEF front
  <2> QED
    BY <2>1, <2>2, FS_CardinalityType
<1>10. PICK top : RunsTotal(top, Worth(1 .. MaxRanked), MaxRanked)
  BY GainIsTotal
<1>11. Gain(1 .. ideal) = top[ideal]
  BY <1>3, <1>10, GainOfFront
<1> HIDE DEF hits, front
<1>12. PICK c \in 0 .. ideal : c = Cardinality(hits)
  BY <1>8
<1>13. /\ Gain(hits) \in Int /\ Gain(hits) <= top[c]
       /\ Gain(hits) = top[c] => hits = 1 .. c
  BY <1>2, <1>10, <1>12, FrontIsBest
<1>14. top[c] \in Int /\ top[ideal] \in Int /\ (c = ideal \/ top[c] < top[ideal])
  <2>1. c \in 0 .. MaxRanked
    BY <1>1, <1>3
  <2>2. CASE c = ideal
    BY <1>3, <1>10, <2>2 DEF RunsTotal
  <2>3. CASE c < ideal
    BY <1>3, <1>10, <2>1, <2>3, TopGrows
  <2> QED
    BY <1>3, <2>2, <2>3
<1>15. Gain(hits) <= Gain(1 .. ideal)
  BY <1>11, <1>13, <1>14
<1>16. ASSUME Gain(hits) = Gain(1 .. ideal) PROVE Cardinality(front) = ideal
  <2>1. c = ideal /\ hits = 1 .. ideal
    BY <1>11, <1>13, <1>14, <1>16
  <2>2. front = hits
    BY <1>6, <2>1
  <2> QED
    BY <1>12, <2>1, <2>2
<1>17. ASSUME Cardinality(front) = ideal PROVE Gain(hits) = Gain(1 .. ideal)
  <2>1. front \in SUBSET hits /\ front \in SUBSET (1 .. ideal)
    BY <1>6
  <2>2. IsFiniteSet(1 .. ideal) /\ Cardinality(1 .. ideal) = ideal
    BY <1>3, FS_Interval
  <2>3. front = 1 .. ideal
    BY <1>17, <2>1, <2>2, FS_Subset
  <2>4. Cardinality(front) <= Cardinality(hits) /\ (Cardinality(hits) = Cardinality(front) => hits = front)
    BY <1>2, <2>1, FS_Subset
  <2>5. hits = front
    BY <1>3, <1>12, <1>17, <2>4
  <2> QED
    BY <2>3, <2>5
<1> QED
  BY <1>2, <1>4, <1>5, <1>9, <1>15, <1>16, <1>17

\* The hits of the ranking in which a relevant document has moved up by one:
\* the same, or one more at the edge of the window, or one of them moved.
LEMMA HitsOfPromotion ==
  ASSUME NEW ranked, NEW relevant, NEW limit \in 0 .. Len(ranked),
         ranked \in Seq(RawIds), NEW i \in 1 .. Len(ranked) - 1,
         Trimmed[ranked[i]] \notin relevant, Trimmed[ranked[i + 1]] \in relevant,
         NEW hits, hits = Hits(ranked, relevant, limit)
  PROVE  /\ i \notin hits
         /\ LET moved == Hits(Swapped(ranked, i), relevant, limit) IN
            \/ moved = hits
            \/ moved = hits \cup {i}
            \/ i + 1 \in hits /\ moved = (hits \ {i + 1}) \cup {i}
<1> DEFINE moved == Hits(Swapped(ranked, i), relevant, limit)
           first == \A seen \in 1 .. i : Trimmed[ranked[seen]] # Trimmed[ranked[i + 1]]
<1>1. PICK n \in Nat : n = Len(ranked)
  OBVIOUS
<1>2. i \in 1 .. n /\ i + 1 \in 1 .. n /\ limit \in 0 .. n /\ i \in Nat /\ limit \in Nat
  BY <1>1
<1>3. PICK old : old = [rank \in 1 .. n |-> Trimmed[ranked[rank]]]
  OBVIOUS
<1>4. PICK new : new = [rank \in 1 .. n |-> Trimmed[Swapped(ranked, i)[rank]]]
  OBVIOUS
<1>5. /\ new[i] = old[i + 1] /\ new[i + 1] = old[i]
      /\ \A rank \in 1 .. n : rank # i /\ rank # i + 1 => new[rank] = old[rank]
      /\ old[i] \notin relevant /\ old[i + 1] \in relevant
  <2>1. DOMAIN ranked = 1 .. n
    BY <1>1
  <2> QED
    BY <1>2, <1>3, <1>4, <2>1 DEF Swapped
<1>6. \A rank \in 1 .. n :
        rank \in hits <=> /\ rank <= limit /\ old[rank] \in relevant
                          /\ \A seen \in 1 .. rank - 1 : old[seen] # old[rank]
  <2> SUFFICES ASSUME NEW rank \in 1 .. n
               PROVE  rank \in hits
                        <=> /\ rank <= limit /\ old[rank] \in relevant
                            /\ \A seen \in 1 .. rank - 1 : old[seen] # old[rank]
    OBVIOUS
  <2>1. old[rank] = Trimmed[ranked[rank]]
    BY <1>3
  <2>2. \A seen \in 1 .. rank - 1 : old[seen] = Trimmed[ranked[seen]]
    BY <1>3
  <2>3. rank \in 1 .. limit <=> rank <= limit
    BY <1>2
  <2> QED
    BY <2>1, <2>2, <2>3 DEF Hits
<1>7. \A rank \in 1 .. n :
        rank \in moved <=> /\ rank <= limit /\ new[rank] \in relevant
                           /\ \A seen \in 1 .. rank - 1 : new[seen] # new[rank]
  <2> SUFFICES ASSUME NEW rank \in 1 .. n
               PROVE  rank \in moved
                        <=> /\ rank <= limit /\ new[rank] \in relevant
                            /\ \A seen \in 1 .. rank - 1 : new[seen] # new[rank]
    OBVIOUS
  <2>1. new[rank] = Trimmed[Swapped(ranked, i)[rank]]
    BY <1>4
  <2>2. \A seen \in 1 .. rank - 1 : new[seen] = Trimmed[Swapped(ranked, i)[seen]]
    BY <1>4
  <2>3. rank \in 1 .. limit <=> rank <= limit
    BY <1>2
  <2> QED
    BY <2>1, <2>2, <2>3 DEF Hits
<1>8. hits \in SUBSET (1 .. n) /\ moved \in SUBSET (1 .. n)
  BY <1>2 DEF Hits
<1> HIDE DEF moved
<1>9. i \notin hits /\ i + 1 \notin moved
  BY <1>2, <1>5, <1>6, <1>7
<1>10. i + 1 \in hits <=> i + 1 <= limit /\ \A seen \in 1 .. i : old[seen] # old[i + 1]
  <2>1. (i + 1) - 1 = i
    BY <1>2
  <2> QED
    BY <1>2, <1>5, <1>6, <2>1
<1>11. i \in moved <=> i <= limit /\ \A seen \in 1 .. i : old[seen] # old[i + 1]
  <2>1. \A seen \in 1 .. i - 1 : new[seen] = old[seen]
    <3> SUFFICES ASSUME NEW seen \in 1 .. i - 1 PROVE new[seen] = old[seen]
      OBVIOUS
    <3>1. seen \in 1 .. n /\ seen # i /\ seen # i + 1
      BY <1>2
    <3>2. \A rank \in 1 .. n : rank # i /\ rank # i + 1 => new[rank] = old[rank]
      BY <1>5
    <3> QED
      BY <3>1, <3>2
  <2>2. old[i] # old[i + 1]
    BY <1>5
  <2>3. (\A seen \in 1 .. i - 1 : new[seen] # new[i])
          <=> (\A seen \in 1 .. i : old[seen] # old[i + 1])
    <3>1. \A seen \in 1 .. i : seen = i \/ seen \in 1 .. i - 1
      BY <1>2
    <3>2. \A seen \in 1 .. i - 1 : seen \in 1 .. i
      BY <1>2
    <3> QED
      BY <1>5, <2>1, <2>2, <3>1, <3>2
  <2> QED
    BY <1>2, <1>5, <1>7, <2>3
<1>12. ASSUME NEW rank \in 1 .. n, rank # i, rank # i + 1
       PROVE  rank \in moved <=> rank \in hits
  <2>1. new[rank] = old[rank]
    BY <1>5, <1>12
  <2>2. CASE rank < i
    <3>1. \A seen \in 1 .. rank - 1 : new[seen] = old[seen]
      BY <1>2, <1>5, <2>2
    <3> QED
      BY <1>6, <1>7, <2>1, <3>1
  <2>3. CASE rank > i + 1
    <3>1. i \in 1 .. rank - 1 /\ i + 1 \in 1 .. rank - 1
      BY <1>2, <2>3
    <3>2. \A seen \in 1 .. rank - 1 :
            seen # i /\ seen # i + 1 => new[seen] = old[seen]
      BY <1>5
    <3>3. (\A seen \in 1 .. rank - 1 : new[seen] # new[rank])
            <=> (\A seen \in 1 .. rank - 1 : old[seen] # old[rank])
      BY <1>5, <2>1, <3>1, <3>2
    <3> QED
      BY <1>6, <1>7, <2>1, <3>3
  <2> QED
    BY <1>2, <1>12, <2>2, <2>3
<1>13. CASE ~ \A seen \in 1 .. i : old[seen] # old[i + 1]
  <2>1. i + 1 \notin hits /\ i \notin moved
    BY <1>10, <1>11, <1>13
  <2>2. moved = hits
    <3>1. \A rank \in 1 .. n : rank \in moved <=> rank \in hits
      BY <1>9, <1>12, <2>1
    <3> QED
      BY <1>8, <3>1
  <2> QED
    BY <1>9, <2>2 DEF moved
<1>14. CASE \A seen \in 1 .. i : old[seen] # old[i + 1]
  <2>1. CASE limit < i
    <3>1. i + 1 \notin hits /\ i \notin moved
      BY <1>2, <1>10, <1>11, <2>1
    <3>2. moved = hits
      <4>1. \A rank \in 1 .. n : rank \in moved <=> rank \in hits
        BY <1>9, <1>12, <3>1
      <4> QED
        BY <1>8, <4>1
    <3> QED
      BY <1>9, <3>2 DEF moved
  <2>2. CASE limit = i
    <3>1. i + 1 \notin hits /\ i \in moved
      BY <1>2, <1>10, <1>11, <1>14, <2>2
    <3>2. moved = hits \cup {i}
      BY <1>8, <1>9, <1>12, <3>1
    <3> QED
      BY <1>9, <3>2 DEF moved
  <2>3. CASE limit > i
    <3>1. i + 1 \in hits /\ i \in moved
      BY <1>2, <1>10, <1>11, <1>14, <2>3
    <3>2. moved = (hits \ {i + 1}) \cup {i}
      BY <1>8, <1>9, <1>12, <3>1
    <3> QED
      BY <1>9, <3>1, <3>2 DEF moved
  <2> QED
    BY <1>2, <2>1, <2>2, <2>3
<1> QED
  BY <1>13, <1>14

LEMMA SwappedIsRanking ==
  ASSUME NEW ranked, NEW ids, NEW cutoff, IsRanking(ranked, ids, cutoff),
         NEW i \in 1 .. Len(ranked) - 1
  PROVE  /\ IsRanking(Swapped(ranked, i), ids, cutoff)
         /\ Limit(Swapped(ranked, i), cutoff) = Limit(ranked, cutoff)
<1>1. PICK n \in Nat : n = Len(ranked) /\ ranked \in [1 .. n -> RawIds]
  BY DEF IsRanking
<1>2. Swapped(ranked, i) \in [1 .. n -> RawIds]
  BY <1>1 DEF Swapped
<1>3. Swapped(ranked, i) \in Seq(RawIds) /\ Len(Swapped(ranked, i)) = n
  BY <1>1, <1>2
<1> QED
  BY <1>1, <1>3 DEF IsRanking, Limit

LEMMA PromotionScoresNoWorse ==
  ASSUME NEW ranked, NEW ids, NEW cutoff, IsRanking(ranked, ids, cutoff),
         NEW i \in 1 .. Len(ranked) - 1,
         Trimmed[ranked[i]] \notin Relevant(ids), Trimmed[ranked[i + 1]] \in Relevant(ids),
         NEW result, result = Scored(ranked, ids, cutoff),
         NEW promoted, promoted = Scored(Swapped(ranked, i), ids, cutoff)
  PROVE  /\ promoted.hits >= result.hits
         /\ promoted.first = result.first \/ Reciprocal(promoted.first, result.first)
         /\ promoted.dcg >= result.dcg
         /\ promoted.idcg = result.idcg
<1>1. PICK limit : limit = Limit(ranked, cutoff)
  OBVIOUS
<1>2. PICK relevant : relevant = Relevant(ids)
  OBVIOUS
<1>3. PICK hits : hits = Hits(ranked, relevant, limit)
  OBVIOUS
<1>4. PICK moved : moved = Hits(Swapped(ranked, i), relevant, limit)
  OBVIOUS
<1>5. IsRanking(Swapped(ranked, i), ids, cutoff) /\ limit = Limit(Swapped(ranked, i), cutoff)
  BY <1>1, SwappedIsRanking
<1>6. /\ hits \in SUBSET (Nat \ {0}) /\ hits \in SUBSET (1 .. MaxRanked)
      /\ IsFiniteSet(hits) /\ Cardinality(hits) \in Nat
      /\ result.hits = Cardinality(hits) /\ result.first = FirstRank(hits)
      /\ result.dcg = Gain(hits)
      /\ result.idcg = Gain(1 .. Least(Cardinality(relevant), limit))
  BY <1>1, <1>2, <1>3, ScoredParts
<1>7. /\ moved \in SUBSET (Nat \ {0})
      /\ IsFiniteSet(moved) /\ Cardinality(moved) \in Nat
      /\ promoted.hits = Cardinality(moved) /\ promoted.first = FirstRank(moved)
      /\ promoted.dcg = Gain(moved)
      /\ promoted.idcg = Gain(1 .. Least(Cardinality(relevant), limit))
  BY <1>2, <1>4, <1>5, ScoredParts
<1>8. /\ ranked \in Seq(RawIds) /\ limit \in 0 .. Len(ranked) /\ i \in Nat
      /\ i \in 1 .. MaxRanked - 1
  <2>1. Len(ranked) \in 0 .. MaxRanked /\ MaxRanked \in Nat
    BY DiscountIsNatural DEF IsRanking
  <2>2. ranked \in Seq(RawIds) /\ limit \in 0 .. Len(ranked)
    BY <1>1, LimitIsWithin DEF IsRanking
  <2> QED
    BY <2>1, <2>2
<1>9. i \notin hits /\ \/ moved = hits
                       \/ moved = hits \cup {i}
                       \/ i + 1 \in hits /\ moved = (hits \ {i + 1}) \cup {i}
  BY <1>2, <1>3, <1>4, <1>8, HitsOfPromotion
<1>10. Cardinality(moved) >= Cardinality(hits)
  <2>1. CASE hits \subseteq moved
    BY <1>6, <1>7, <2>1, FS_Subset
  <2>2. CASE i + 1 \in hits /\ moved = (hits \ {i + 1}) \cup {i}
    <3>1. /\ IsFiniteSet(hits \ {i + 1})
          /\ Cardinality(hits \ {i + 1}) = Cardinality(hits) - 1
      BY <1>6, <2>2, FS_RemoveElement
    <3>2. i \notin hits \ {i + 1}
      BY <1>9
    <3>3. Cardinality(moved) = (Cardinality(hits) - 1) + 1
      BY <2>2, <3>1, <3>2, FS_AddElement
    <3> QED
      BY <1>6, <3>3
  <2> QED
    BY <1>9, <2>1, <2>2
<1>11. moved = hits \/ Reciprocal(FirstRank(moved), FirstRank(hits))
  <2> SUFFICES ASSUME moved # hits PROVE Reciprocal(FirstRank(moved), FirstRank(hits))
    OBVIOUS
  <2>1. i \in moved /\ \A rank \in hits : rank \in moved \/ rank = i + 1
    BY <1>9
  <2>2. /\ FirstRank(moved) \in Nat /\ FirstRank(moved) # 0
        /\ \A rank \in moved : FirstRank(moved) <= rank
    BY <1>7, <2>1, FirstRankIsLeast
  <2>3. FirstRank(hits) = 0 \/ FirstRank(hits) \in hits
    BY <1>6, FirstRankIsLeast
  <2>4. \A rank \in hits : FirstRank(moved) <= rank
    BY <1>6, <1>8, <2>1, <2>2
  <2> QED
    BY <2>2, <2>3, <2>4 DEF Reciprocal
<1>12. Gain(hits) <= Gain(moved)
  <2>1. CASE hits \subseteq moved
    BY <2>1, GainOfSubset
  <2>2. CASE i + 1 \in hits /\ moved = (hits \ {i + 1}) \cup {i}
    BY <1>8, <1>9, <2>2, GainOfPromotion
  <2> QED
    BY <1>9, <2>1, <2>2
<1> QED
  BY <1>6, <1>7, <1>10, <1>11, <1>12

LEMMA WiderScoresNoWorse ==
  ASSUME NEW ranked, NEW ids, NEW cutoff, IsRanking(ranked, ids, cutoff),
         NEW result, result = Scored(ranked, ids, cutoff),
         NEW wider, wider = Scored(ranked, ids, cutoff + 1)
  PROVE  /\ wider.hits >= result.hits
         /\ result.first # 0 => wider.first = result.first
<1>1. PICK limit : limit = Limit(ranked, cutoff)
  OBVIOUS
<1>2. PICK more : more = Limit(ranked, cutoff + 1)
  OBVIOUS
<1>3. PICK relevant : relevant = Relevant(ids)
  OBVIOUS
<1>4. PICK hits : hits = Hits(ranked, relevant, limit)
  OBVIOUS
<1>5. PICK found : found = Hits(ranked, relevant, more)
  OBVIOUS
<1>6. IsRanking(ranked, ids, cutoff + 1)
  BY DEF IsRanking
<1>7. more \in Nat /\ limit \in 0 .. more
  BY <1>1, <1>2, <1>6, LimitIsWithin
<1>8. /\ hits \in SUBSET (Nat \ {0}) /\ IsFiniteSet(hits) /\ Cardinality(hits) \in Nat
      /\ result.hits = Cardinality(hits) /\ result.first = FirstRank(hits)
  BY <1>1, <1>3, <1>4, ScoredParts
<1>9. /\ found \in SUBSET (Nat \ {0}) /\ IsFiniteSet(found) /\ Cardinality(found) \in Nat
      /\ wider.hits = Cardinality(found) /\ wider.first = FirstRank(found)
  BY <1>2, <1>3, <1>5, <1>6, ScoredParts
<1>10. hits = found \cap (1 .. limit)
  BY <1>4, <1>5, <1>7, HitsWithin
<1>11. Cardinality(hits) <= Cardinality(found)
  BY <1>9, <1>10, FS_Subset
<1>12. ASSUME FirstRank(hits) # 0 PROVE FirstRank(found) = FirstRank(hits)
  <2>1. /\ FirstRank(hits) \in hits /\ \A rank \in hits : FirstRank(hits) <= rank
    BY <1>8, <1>12, FirstRankIsLeast
  <2>2. FirstRank(found) \in found /\ \A rank \in found : FirstRank(found) <= rank
    BY <1>9, <1>10, <2>1, FirstRankIsLeast
  <2>3. FirstRank(found) <= FirstRank(hits)
    BY <1>10, <2>1, <2>2
  <2>4. FirstRank(found) \in hits
    <3>1. FirstRank(hits) \in 1 .. limit /\ FirstRank(found) \in Nat \ {0}
      BY <1>9, <1>10, <2>1, <2>2
    <3>2. FirstRank(found) \in 1 .. limit
      BY <1>7, <2>3, <3>1
    <3> QED
      BY <1>10, <2>2, <3>2
  <2>5. FirstRank(hits) \in Nat /\ FirstRank(found) \in Nat
    BY <1>8, <2>1, <2>4
  <2> QED
    BY <2>1, <2>3, <2>4, <2>5
<1> QED
  BY <1>8, <1>9, <1>11, <1>12

-------------------------------------------------------------------------------
(* The retrieval metrics: what they promise. *)

MetricsInv == IsRanking(rankedIDs, relevantIDs, window)

LEMMA MetricsInvariant == MetricsSpec => []MetricsInv
<1>1. MetricsInit => MetricsInv
  <2> SUFFICES ASSUME MetricsInit PROVE MetricsInv
    OBVIOUS
  <2>1. PICK n \in 0 .. MaxRanked : rankedIDs \in [1 .. n -> RawIds]
    BY DEF MetricsInit
  <2>2. rankedIDs \in Seq(RawIds) /\ Len(rankedIDs) = n
    BY <2>1
  <2> QED
    BY <2>2, MetricsAssumption DEF MetricsInit, MetricsInv, IsRanking
<1>2. MetricsInv /\ [MetricsNext]_metricsVars => MetricsInv'
  BY MetricsAssumption DEF MetricsInv, IsRanking, MetricsNext, metricsVars
<1> QED
  BY <1>1, <1>2, PTL DEF MetricsSpec

LEMMA OneRankingScoredFairly ==
  ASSUME MetricsInv
  PROVE  RecallIsShareFound /\ PerfectIffRelevantFirst /\ PromotionNeverHurts
<1>1. PICK limit : limit = Limit(rankedIDs, window)
  OBVIOUS
<1>2. PICK relevant : relevant = Relevant(relevantIDs)
  OBVIOUS
<1>3. PICK result : result = Scored(rankedIDs, relevantIDs, window)
  OBVIOUS
<1>4. PICK ideal : ideal = Least(Cardinality(relevant), limit)
  OBVIOUS
<1>5. Scores3 = result
  BY <1>3 DEF Scores3
<1>6. /\ result.hits = Cardinality(DocumentsWithin(rankedIDs, limit) \cap relevant)
      /\ result.hits <= result.relevant
      /\ result.dcg <= result.idcg
      /\ result.dcg = result.idcg
           <=> Cardinality(DocumentsWithin(rankedIDs, ideal) \cap relevant) = ideal
  BY <1>1, <1>2, <1>3, <1>4, ScoresTellTheirNames DEF MetricsInv
<1>7. RecallIsShareFound
  <2>1. FoundDocuments = DocumentsWithin(rankedIDs, limit)
    BY <1>1 DEF FoundDocuments, DocumentsWithin
  <2> QED
    BY <1>2, <1>5, <1>6, <2>1 DEF RecallIsShareFound
<1>8. PerfectIffRelevantFirst
  <2>1. result.relevant = Cardinality(relevant) /\ result.ideal = ideal
    BY <1>1, <1>2, <1>3, <1>4, ScoredParts DEF MetricsInv
  <2>2. ideal = Least(Scores3.relevant, Limit(rankedIDs, window))
    BY <1>1, <1>4, <1>5, <2>1
  <2>3. IsPerfect(Scores3)
          <=> ideal > 0 /\ Cardinality(DocumentsWithin(rankedIDs, ideal) \cap relevant) = ideal
    BY <1>5, <1>6, <2>1 DEF IsPerfect
  <2> QED
    BY <1>2, <2>2, <2>3 DEF PerfectIffRelevantFirst, DocumentsWithin
<1>9. PromotionNeverHurts
  <2> SUFFICES ASSUME NEW i \in 1 .. Len(rankedIDs) - 1,
                      Trimmed[rankedIDs[i]] \notin Relevant(relevantIDs),
                      Trimmed[rankedIDs[i + 1]] \in Relevant(relevantIDs),
                      NEW promoted, promoted = Scored(Swapped(rankedIDs, i), relevantIDs, window)
               PROVE  /\ promoted.hits >= result.hits
                      /\ promoted.first = result.first \/ Reciprocal(promoted.first, result.first)
                      /\ promoted.dcg >= result.dcg
                      /\ promoted.idcg = result.idcg
    BY <1>5 DEF PromotionNeverHurts
  <2> QED
    BY <1>3, PromotionScoresNoWorse DEF MetricsInv
<1> QED
  BY <1>7, <1>8, <1>9

\* retrieval_metrics.go:11-99, for rankings of any length, any relevant ids and
\* any cutoff: recall and NDCG are what their names say, a relevant document that
\* moves up costs no score, and a longer window loses no hit and not the first.
THEOREM MetricsAreFair == MetricsSpec => MetricsFair
<1>1. MetricsInv /\ [MetricsNext]_metricsVars
        => [/\ Scores3'.hits >= Scores3.hits
            /\ Scores3.first # 0 => Scores3'.first = Scores3.first]_metricsVars
  <2> SUFFICES ASSUME MetricsInv, MetricsNext
               PROVE  /\ Scores3'.hits >= Scores3.hits
                      /\ Scores3.first # 0 => Scores3'.first = Scores3.first
    OBVIOUS
  <2>1. Scores3' = Scored(rankedIDs, relevantIDs, window + 1)
    BY DEF Scores3, MetricsNext
  <2>2. Scores3 = Scored(rankedIDs, relevantIDs, window)
    BY DEF Scores3
  <2> QED
    BY <2>1, <2>2, WiderScoresNoWorse DEF MetricsInv
<1>2. MetricsSpec => WiderNeverLoses
  BY <1>1, MetricsInvariant, PTL DEF MetricsSpec, WiderNeverLoses
<1>3. MetricsSpec => [](RecallIsShareFound /\ PerfectIffRelevantFirst /\ PromotionNeverHurts)
  BY MetricsInvariant, OneRankingScoredFairly, PTL
<1> QED
  BY <1>2, <1>3, PTL DEF MetricsFair
===============================================================================
