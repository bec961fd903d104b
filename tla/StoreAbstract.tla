----------------------------- MODULE StoreAbstract -----------------------------
(***************************************************************************)
(* What pkg/ai/vectordb/vectordb.go and pkg/ai/rag/rag.go promise to those *)
(* who ask: a question is answered with the best records the store held at *)
(* one moment between the question and the answer, records are written     *)
(* and deleted a whole batch at a time, and what is observed of a question *)
(* agrees with the answer.  Nothing is said of copies, locks or the order  *)
(* of ranking, nor of whether anything is observed.                        *)
(***************************************************************************)
EXTENDS Integers, Sequences

CONSTANTS
  Records,    \* what a vector may hold: [score, tag]
  Batches,    \* what writers ask to have written: sequences of [id, record]
  Removals,   \* what they ask to have deleted: sets of ids
  Askers,
  Queries,    \* [topK, filter]
  Threshold,  \* records with a lower score are not returned
  AnyTag,     \* the filter that lets every record through
  Nothing     \* no question, no decision, no answer

VARIABLES
  db,         \* the records stored
  question,   \* per asker: its query, or Nothing
  gaveUp,     \* per asker: its context is done
  decided,    \* per asker: the hits its answer is taken from, or Nothing
  reply       \* per asker: the latest outcome

abstractVars == <<db, question, gaveUp, decided, reply>>

Hit(id, record) == [id |-> id, record |-> record]

\* The records of a store that a query is about.
Matches(store, query) ==
  {Hit(id, store[id]) : id \in
     {i \in DOMAIN store : /\ query.filter \in {AnyTag, store[i].tag}
                           /\ store[i].score >= Threshold}}

Before(h, k) ==
  \/ h.record.score > k.record.score
  \/ h.record.score = k.record.score /\ h.id < k.id

\* The best of a set of hits, best first: at most topK, and if one is left out
\* there are topK better ones.
Best(hits, topK) ==
  {answer \in UNION {[1 .. n -> hits] : n \in 0 .. topK} :
     /\ \A m, n \in DOMAIN answer : m < n => Before(answer[m], answer[n])
     /\ \A h \in hits :
          \/ \E n \in DOMAIN answer : answer[n] = h
          \/ DOMAIN answer = 1 .. topK
             /\ \A n \in DOMAIN answer : Before(answer[n], h)}

\* What is recorded of an answer, if anything is.
Observed(answer) == IF answer = <<>> THEN "miss" ELSE "success"

Answered(answer, trace) == [answer |-> answer, trace |-> trace]
NotAnswered(trace) == [answer |-> Nothing, trace |-> trace]

AbstractInit ==
  /\ db = [id \in {} |-> Nothing]
  /\ question = [a \in Askers |-> Nothing]
  /\ gaveUp = [a \in Askers |-> FALSE]
  /\ decided = [a \in Askers |-> Nothing]
  /\ reply = [a \in Askers |-> NotAnswered("none")]

IdsOf(batch) == {batch[i].id : i \in DOMAIN batch}

\* A batch is written as a whole, the last record of an id staying, or, if one
\* of its records is no record, not at all: no part of it is ever in the store.
Put(batch) ==
  /\ \A i \in DOMAIN batch : batch[i].record \in Records
  /\ db' \in [DOMAIN db \cup IdsOf(batch) -> Records]
  /\ \A id \in DOMAIN db \ IdsOf(batch) : db'[id] = db[id]
  /\ \A i \in DOMAIN batch :
       \/ db'[batch[i].id] = batch[i].record
       \/ \E j \in DOMAIN batch : j > i /\ batch[j].id = batch[i].id
  /\ UNCHANGED <<question, gaveUp, decided, reply>>

Remove(ids) ==
  /\ db' = [id \in DOMAIN db \ ids |-> db[id]]
  /\ UNCHANGED <<question, gaveUp, decided, reply>>

Ask(a, query) ==
  /\ question[a] = Nothing
  /\ question' = [question EXCEPT ![a] = query]
  /\ gaveUp' = [gaveUp EXCEPT ![a] = FALSE]
  /\ reply' = [reply EXCEPT ![a] = NotAnswered("none")]
  /\ UNCHANGED <<db, decided>>

GiveUp(a) ==
  /\ question[a] # Nothing
  /\ gaveUp' = [gaveUp EXCEPT ![a] = TRUE]
  /\ UNCHANGED <<db, question, decided, reply>>

\* The moment the answer is about.
Decide(a) ==
  /\ question[a] # Nothing
  /\ decided[a] = Nothing
  /\ decided' = [decided EXCEPT ![a] = Matches(db, question[a])]
  /\ UNCHANGED <<db, question, gaveUp, reply>>

Ends(a, outcome) ==
  /\ question' = [question EXCEPT ![a] = Nothing]
  /\ decided' = [decided EXCEPT ![a] = Nothing]
  /\ reply' = [reply EXCEPT ![a] = outcome]
  /\ UNCHANGED <<db, gaveUp>>

Answer(a) ==
  /\ decided[a] # Nothing
  /\ \E answer \in Best(decided[a], question[a].topK) :
     \E trace \in {"none", Observed(answer)} : Ends(a, Answered(answer, trace))

\* Once it is decided a question fails only if the asker gave up.  Whether
\* anything is observed of a failure is left open; it is not taken for a hit or
\* a miss.
Fail(a) ==
  /\ decided[a] = Nothing \/ gaveUp[a]
  /\ \E trace \in {"none", "failure"} : Ends(a, NotAnswered(trace))

AbstractNext ==
  \/ \E batch \in Batches : Put(batch)
  \/ \E ids \in Removals : Remove(ids)
  \/ \E a \in Askers :
       \/ \E query \in Queries : Ask(a, query)
       \/ GiveUp(a) \/ Decide(a) \/ Answer(a) \/ Fail(a)

AbstractSpec == AbstractInit /\ [][AbstractNext]_abstractVars
===============================================================================
