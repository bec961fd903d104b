------------------------------ MODULE MCRetrieval ------------------------------
(* Small instances of the retrieval and evaluation side: the retriever over   *)
(* its store, the chunker, the retrieval metrics, the evaluation runner and   *)
(* the smoke pipeline that is built on it.  Only the last two share           *)
(* variables: `part` says which of them moves, the others rest.               *)
EXTENDS MCBasicRetriever, RecursiveChunker, RetrievalMetrics, P0Smoke

CONSTANTS doc, padded, other, text, right, wrong

VARIABLE part

MCSizes == -1 .. 4
MCOverlaps == -1 .. 4
MCRawScores == {-1, 0, 1, 3, NaN}

\* Ids and names with white space around them.
MCStripped ==
  [raw \in {"a", "a ", "b", "c", "d", "exact_match", "exact_match ", "context_hit",
            Blank, Empty} |->
     CASE raw = "a " -> "a"
       [] raw = "exact_match " -> "exact_match"
       [] raw = Blank -> Empty
       [] OTHER -> raw]

\* Two documents, one of them also written with white space around its id.
MCTrimmed == [raw \in {doc, padded, other, BlankId} |-> IF raw = padded THEN doc ELSE raw]
MCDiscount == <<100, 63, 50, 43>>

Sample(id, in, truth, relevant) ==
  [id |-> id, part |-> in, truth |-> truth, relevant |-> relevant]

\* Two ids that differ in their padding only and share a trace id, one id that
\* occurs twice with different answers, and one sample for each thing that may
\* be missing.
MCSamples == {Sample("a", "a", right, <<text>>), Sample("b", "b", wrong, <<text, Blank>>),
              Sample("b", "b", right, <<text, text>>), Sample("a ", "a", wrong, <<text>>),
              Sample(Blank, "sample", right, <<text>>), Sample("c", "c", Blank, <<text>>),
              Sample("d", "d", right, <<>>)}

MCDatasets == UNION {[1 .. n -> MCSamples] : n \in 0 .. 2}

\* One of each, in an order, for the runner on its own.
RunnerDatasets ==
  {<<>>, <<Sample("a", "a", right, <<text>>), Sample("a ", "a", wrong, <<text>>)>>,
   <<Sample(Blank, "sample", right, <<text>>)>>}

\* Names that are the same, the same but for padding, blank and empty.
MCMetricLists == {SmokeMetrics, <<>>, <<"exact_match", "exact_match">>,
                  <<"exact_match", "exact_match ">>, <<"exact_match", Blank>>,
                  <<"exact_match", Empty>>}

MCThresholds == [name \in MetricNames |->
                   IF name = "exact_match" THEN 1 ELSE NoThreshold]

\* A part that does not move rests in one of its initial states.
PartsInit ==
  /\ part \in {"retriever", "chunker", "metrics", "runner", "smoke"}
  /\ Init
  /\ IF part = "chunker" THEN ChunkerInit
     ELSE /\ document = [length |-> 0, blank |-> TRUE]
          /\ config = [size |-> 1, overlap |-> 0]
          /\ cuts = <<>> /\ start = 0 /\ chunking = "called"
  /\ IF part = "metrics" THEN MetricsInit
     ELSE rankedIDs = <<>> /\ relevantIDs = {} /\ window = 0
  /\ IF part = "smoke" THEN metrics = SmokeMetrics
     ELSE IF part = "runner" THEN samples \in RunnerDatasets
     ELSE samples = <<>> /\ metrics = <<>> /\ evalRun = FALSE
  /\ EvalInit
  /\ traces = <<>>
  /\ exitCode = IF part = "smoke" THEN NoExit ELSE NoCommand

PartsNext ==
  /\ UNCHANGED part
  /\ \/ /\ part = "retriever" /\ Next
        /\ UNCHANGED <<chunkerVars, metricsVars, smokeVars>>
     \/ /\ part = "chunker" /\ ChunkerNext
        /\ UNCHANGED <<vars, metricsVars, smokeVars>>
     \/ /\ part = "metrics" /\ MetricsNext
        /\ UNCHANGED <<vars, chunkerVars, smokeVars>>
     \/ /\ part = "runner" /\ EvalNext
        /\ UNCHANGED <<vars, chunkerVars, metricsVars, traces, exitCode>>
     \/ /\ part = "smoke" /\ SmokeNext
        /\ UNCHANGED <<vars, chunkerVars, metricsVars>>

PartsSpec ==
  PartsInit /\ [][PartsNext]_<<vars, chunkerVars, metricsVars, smokeVars, part>>
===============================================================================
