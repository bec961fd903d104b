--------------------------- MODULE RetrievalMetrics ---------------------------
(***************************************************************************)
(* pkg/ai/eval/retrieval_metrics.go: Recall@k, MRR and NDCG@k of a ranking *)
(* of ids against the relevant ones.  Ids are normalised by trimming; what *)
(* trims to nothing is Blank.  Scores are kept as pairs of numerator and   *)
(* denominator, and 1 / log2(rank + 1) is the constant Discount, of which  *)
(* only that it falls is used.                                             *)
(***************************************************************************)
EXTENDS Integers, Sequences, FiniteSets

CONSTANTS
  RawIds, Trimmed,   \* ids as they are given, and what is left of each
  BlankId,
  Cutoffs,           \* values of k
  MaxRanked,         \* bound: the longest ranking
  Discount           \* per rank: what a hit there is worth

ASSUME MetricsAssumption ==
  /\ MaxRanked \in Nat
  /\ Cutoffs \subseteq Int
  /\ \A rank \in 1 .. MaxRanked : Discount[rank] \in Nat \ {0}
  /\ \A rank \in 2 .. MaxRanked : Discount[rank] < Discount[rank - 1]

VARIABLES
  rankedIDs, relevantIDs,
  window     \* k

metricsVars == <<rankedIDs, relevantIDs, window>>

MetricsInit ==
  /\ rankedIDs \in UNION {[1 .. n -> RawIds] : n \in 0 .. MaxRanked}
  /\ relevantIDs \in SUBSET RawIds /\ IsFiniteSet(relevantIDs)
  /\ window \in Cutoffs

\* Every ranking of one length is an initial state; the steps go from one
\* cutoff to the next.
MetricsNext ==
  /\ window + 1 \in Cutoffs
  /\ window' = window + 1
  /\ UNCHANGED <<rankedIDs, relevantIDs>>

-------------------------------------------------------------------------------

Least(a, b) == IF a < b THEN a ELSE b

\* buildRelevantSet
Relevant(ids) == {Trimmed[id] : id \in ids} \ {BlankId}

\* limit; 0 where the code returns at once.
Limit(ranked, cutoff) == IF cutoff <= 0 THEN 0 ELSE Least(cutoff, Len(ranked))

\* Mutant: a document that is found twice is counted twice.
HitRanksWithRepeats(ranked, relevant, cutoff) ==
  {rank \in 1 .. Limit(ranked, cutoff) : Trimmed[ranked[rank]] \in relevant}

\* The ranks at which the loop counts a hit: relevant, and not seen before.
HitRanks(ranked, relevant, cutoff) ==
  {rank \in 1 .. Limit(ranked, cutoff) :
     /\ Trimmed[ranked[rank]] \in relevant
     /\ \A seen \in 1 .. rank - 1 : Trimmed[ranked[seen]] # Trimmed[ranked[rank]]}

\* dcg and idcg
Gain(ranks) ==
  LET gain[n \in 0 .. MaxRanked] ==
        IF n = 0 THEN 0
        ELSE gain[n - 1] + (IF n \in ranks THEN Discount[n] ELSE 0)
  IN gain[MaxRanked]

\* Mutant: the ideal ranking has as many hits as this one.
IdealHitsOfWindow(relevant, limit) == limit

\* idealRelevantCount
IdealHits(relevant, limit) == Least(Cardinality(relevant), limit)

\* Mutant: the rank of a hit is counted from zero.
FirstRankFromZero(ranks) ==
  IF ranks = {} THEN 0 ELSE (CHOOSE r \in ranks : \A s \in ranks : r <= s) - 1

\* Mutant: the rank of the last hit, which overwrites the first.
FirstRankOverwritten(ranks) ==
  IF ranks = {} THEN 0 ELSE CHOOSE r \in ranks : \A s \in ranks : r >= s

\* firstRelevantRank; MRR is its inverse, 0 for 0.
FirstRank(ranks) ==
  IF ranks = {} THEN 0 ELSE CHOOSE r \in ranks : \A s \in ranks : r <= s

\* RetrievalMetricsAtK
Scored(ranked, ids, cutoff) ==
  LET relevant == Relevant(ids)
      ranks    == HitRanks(ranked, relevant, cutoff)
      ideal    == IdealHits(relevant, Limit(ranked, cutoff))
  IN [hits |-> Cardinality(ranks), relevant |-> Cardinality(relevant),
      first |-> FirstRank(ranks),
      dcg |-> Gain(ranks), ideal |-> ideal, idcg |-> Gain(1 .. ideal)]

\* Mutant: where nothing is ideal, nothing is missing.
IsPerfectUnchecked(scores) == scores.dcg = scores.idcg

\* normalizedDiscountedGain is 1; it is 0 where no hit is possible, because
\* there is no result, no relevant document or no window.
IsPerfect(scores) == scores.ideal > 0 /\ scores.dcg = scores.idcg

Scores3 == Scored(rankedIDs, relevantIDs, window)

MetricsSpec == MetricsInit /\ [][MetricsNext]_metricsVars

-------------------------------------------------------------------------------
(* Properties. *)

FoundDocuments == {Trimmed[rankedIDs[rank]] : rank \in 1 .. Limit(rankedIDs, window)}

\* retrieval_metrics.go:11, :15: recall is the share of the relevant documents
\* that were found, and no score leaves [0, 1], so clamp01 never hides a
\* document that was counted twice.
RecallIsShareFound ==
  /\ Scores3.hits = Cardinality(FoundDocuments \cap Relevant(relevantIDs))
  /\ Scores3.hits <= Scores3.relevant
  /\ Scores3.dcg <= Scores3.idcg

\* retrieval_metrics.go:13, :28-31: NDCG is 1 exactly for a ranking that puts as
\* many relevant documents as fit in front and nothing else between them, if
\* there is a result, a relevant document and a window; else it is 0.
PerfectIffRelevantFirst ==
  LET ideal == Least(Scores3.relevant, Limit(rankedIDs, window)) IN
  IsPerfect(Scores3)
    <=> /\ ideal > 0
        /\ Cardinality({Trimmed[rankedIDs[rank]] : rank \in 1 .. ideal}
                         \cap Relevant(relevantIDs)) = ideal

Swapped(ranked, i) ==
  [ranked EXCEPT ![i] = ranked[i + 1], ![i + 1] = ranked[i]]

Reciprocal(first, other) == first # 0 /\ (other = 0 \/ first <= other)

\* What the metrics are for, comparing rankings: moving a relevant document up
\* by one, past one that is not, makes no score worse.
PromotionNeverHurts ==
  \A i \in 1 .. Len(rankedIDs) - 1 :
    /\ Trimmed[rankedIDs[i]] \notin Relevant(relevantIDs)
    /\ Trimmed[rankedIDs[i + 1]] \in Relevant(relevantIDs)
    => LET promoted == Scored(Swapped(rankedIDs, i), relevantIDs, window) IN
       /\ promoted.hits >= Scores3.hits
       /\ promoted.first = Scores3.first \/ Reciprocal(promoted.first, Scores3.first)
       /\ promoted.dcg >= Scores3.dcg
       /\ promoted.idcg = Scores3.idcg

\* A longer window finds no less, and what was found first stays first, so
\* Recall@k and MRR do not fall.  NDCG@k may, because a longer window
\* has a better ideal: the ranking of retrieval_metrics_test.go:73-82 scores 1
\* at k = 1 and 0.92 at k = 3.
WiderNeverLoses ==
  [][/\ Scores3'.hits >= Scores3.hits
     /\ Scores3.first # 0 => Scores3'.first = Scores3.first]_metricsVars

\* What the metrics are good for: they say what their names say, a relevant
\* document that moves up never costs a score, and a longer window loses no hit.
MetricsFair ==
  /\ [](RecallIsShareFound /\ PerfectIffRelevantFirst /\ PromotionNeverHurts)
  /\ WiderNeverLoses
===============================================================================
