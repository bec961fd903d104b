----------------------------- MODULE BasicRetriever -----------------------------
(***************************************************************************)
(* pkg/ai/rag/retriever.go over one MemoryStore: Retrieve embeds the       *)
(* query, searches the store, turns the hits into chunks and records one   *)
(* observation.  The embedder, the tracer and those who write to the store *)
(* are the environment; any context may be cancelled at any moment.        *)
(***************************************************************************)
EXTENDS MemoryStore

CONSTANTS
  Retrievers,   \* goroutines that are retrieving
  Queries,      \* [topK, filter]
  Nothing       \* no query, no answer

Hit == [id : Ids, record : Records]

ASSUME RetrieverAssumption ==
  /\ \A query \in Queries : query.topK \in Nat \ {0}
  /\ Nothing \notin Queries
  /\ \A found \in SUBSET Hit : found # Nothing

VARIABLES
  pc,          \* "idle", "embedding", "locking" (in Search), "ranking"
  query,       \* what Retrieve was asked, or Nothing
  cancelled,   \* its context is done
  rest,        \* Search: the copied vectors still to be ranked
  hits,        \* Search: the hits found so far
  outcome      \* of the last Retrieve: [answer, trace], Failed until it returns

callVars == <<pc, query, cancelled, rest, hits, outcome>>
vars == <<vectors, callVars>>

\* An error is returned before anything is recorded.
Failed == [answer |-> Nothing, trace |-> "none"]

\* No copy at hand.
NoVectors == [id \in {} |-> Nothing]

Init ==
  /\ vectors = NoVectors
  /\ pc = [r \in Retrievers |-> "idle"]
  /\ query = [r \in Retrievers |-> Nothing]
  /\ cancelled = [r \in Retrievers |-> FALSE]
  /\ rest = [r \in Retrievers |-> NoVectors]
  /\ hits = [r \in Retrievers |-> {}]
  /\ outcome = [r \in Retrievers |-> Failed]

Goes(r, from, to) ==
  /\ pc[r] = from
  /\ pc' = [pc EXCEPT ![r] = to]

Returns(r, result) ==
  /\ pc' = [pc EXCEPT ![r] = "idle"]
  /\ query' = [query EXCEPT ![r] = Nothing]
  /\ rest' = [rest EXCEPT ![r] = NoVectors]
  /\ hits' = [hits EXCEPT ![r] = {}]
  /\ outcome' = [outcome EXCEPT ![r] = result]
  /\ UNCHANGED <<vectors, cancelled>>

-------------------------------------------------------------------------------

Retrieve(r, q) ==
  /\ Goes(r, "idle", "embedding")
  /\ query' = [query EXCEPT ![r] = q]
  /\ cancelled' = [cancelled EXCEPT ![r] = FALSE]
  /\ outcome' = [outcome EXCEPT ![r] = Failed]
  /\ UNCHANGED <<vectors, rest, hits>>

\* The context is done already, or query or topK are invalid.
RetrieveRejected(r) ==
  /\ pc[r] = "idle"
  /\ Returns(r, Failed)

Cancel(r) ==
  /\ pc[r] # "idle"
  /\ cancelled' = [cancelled EXCEPT ![r] = TRUE]
  /\ UNCHANGED <<vectors, pc, query, rest, hits, outcome>>

\* The embedder returns a usable vector, and Search finds its context live.
Embeds(r) ==
  /\ Goes(r, "embedding", "locking")
  /\ ~cancelled[r]
  /\ UNCHANGED <<vectors, query, cancelled, rest, hits, outcome>>

\* The embedder fails, its vector is unusable, or the context is done by now.
EmbedFails(r) ==
  /\ pc[r] = "embedding"
  /\ Returns(r, Failed)

\* Search copies all vectors under the read lock.
Copies(r) ==
  /\ Goes(r, "locking", "ranking")
  /\ rest' = [rest EXCEPT ![r] = vectors]
  /\ UNCHANGED <<vectors, query, cancelled, hits, outcome>>

\* Mutant: only the ids were copied; the record is looked up again.
LookedUp(r, id) == IF id \in DOMAIN vectors THEN vectors[id] ELSE rest[r][id]

Copied(r, id) == rest[r][id]

Found(r, id) ==
  IF Matching(Copied(r, id), query[r].filter)
  THEN {[id |-> id, record |-> Copied(r, id)]} ELSE {}

\* One vector of the copy, in the order of a Go map; the context comes first.
Ranks(r, id) ==
  /\ pc[r] = "ranking"
  /\ id \in DOMAIN rest[r]
  /\ ~cancelled[r]
  /\ hits' = [hits EXCEPT ![r] = hits[r] \cup Found(r, id)]
  /\ rest' = [rest EXCEPT ![r] = [i \in DOMAIN rest[r] \ {id} |-> rest[r][i]]]
  /\ UNCHANGED <<vectors, pc, query, cancelled, outcome>>

RankingStops(r) ==
  /\ pc[r] = "ranking"
  /\ DOMAIN rest[r] # {}
  /\ cancelled[r]
  /\ Returns(r, Failed)

\* recordObservation's status.
Status(answer) == IF answer = <<>> THEN "miss" ELSE "success"

\* The observation is recorded, or not: there is no tracer, feature or trace
\* identity, or the tracer panics, which is recovered.
Answers(r) ==
  /\ pc[r] = "ranking"
  /\ DOMAIN rest[r] = {}
  /\ \E answer \in Ranked(hits[r], query[r].topK) :
     \E trace \in {"none", Status(answer)} :
       Returns(r, [answer |-> answer, trace |-> trace])

-------------------------------------------------------------------------------

Write ==
  /\ \/ \E batch \in Batches : Upsert(batch) \/ UpsertRejected(batch)
     \/ \E ids \in Removals : Delete(ids)
  /\ UNCHANGED callVars

RetrieverStep(r) ==
  \/ \E q \in Queries : Retrieve(r, q)
  \/ RetrieveRejected(r)
  \/ Cancel(r)
  \/ Embeds(r)
  \/ EmbedFails(r)
  \/ Copies(r)
  \/ \E id \in Ids : Ranks(r, id)
  \/ RankingStops(r)
  \/ Answers(r)

Next == Write \/ \E r \in Retrievers : RetrieverStep(r)

Spec == Init /\ [][Next]_vars

-------------------------------------------------------------------------------
(* Properties. *)

Stored == UNION {[ids -> Records] : ids \in SUBSET Ids}

\* Types; only a search that is ranking holds a copy, of which the vectors
\* already ranked are gone, and whose hits are distinct vectors.
TypeOK ==
  /\ vectors \in Stored
  /\ pc \in [Retrievers -> {"idle", "embedding", "locking", "ranking"}]
  /\ query \in [Retrievers -> Queries \cup {Nothing}]
  /\ cancelled \in [Retrievers -> BOOLEAN]
  /\ rest \in [Retrievers -> Stored]
  /\ hits \in [Retrievers -> SUBSET Hit]
  /\ DOMAIN outcome = Retrievers
  /\ \A r \in Retrievers :
       /\ pc[r] = "idle" <=> query[r] = Nothing
       /\ pc[r] # "ranking" => rest[r] = NoVectors /\ hits[r] = {}
       /\ \A h \in hits[r] : h.id \notin DOMAIN rest[r]
       /\ \A h, k \in hits[r] : h.id = k.id => h = k

Atomic == INSTANCE StoreAbstract WITH
  Askers   <- Retrievers,
  db       <- vectors,
  question <- query,
  gaveUp   <- cancelled,
  decided  <- [r \in Retrievers |->
                 IF pc[r] = "ranking"
                 THEN hits[r] \cup UNION {Found(r, id) : id \in DOMAIN rest[r]}
                 ELSE Nothing],
  reply    <- outcome

\* A retrieval answers from one moment of the store between its call and its
\* return, whatever is written meanwhile, with the best topK and no worse one
\* before a better; a batch is in the store as a whole or not at all; once the
\* vectors are copied only the caller's own cancellation, and never the tracer,
\* costs the answer.  What is recorded of a failed retrieval is not part of it.
ImplementsAtomicStore == Atomic!AbstractSpec
===============================================================================
