--------------------------- MODULE RetrievalProofs ----------------------------
(*****************************************************************************)
(* Proofs about the retrieval path: BasicRetriever, for every set of         *)
(* retrievers, ids, records and queries (its types, and that it implements   *)
(* StoreAbstract), and RecursiveChunker, for documents of any length, any    *)
(* chunk size and any overlap.                                               *)
(*****************************************************************************)
EXTENDS BasicRetriever, RecursiveChunker, FiniteSetTheorems, SequenceTheorems,
        TLAPS

-------------------------------------------------------------------------------
(* BasicRetriever. *)

\* The hits of a search are finitely many: one for each vector ranked.
FiniteHits == \A r \in Retrievers : IsFiniteSet(hits[r])

IInv == TypeOK /\ FiniteHits

\* What the abstract specification calls decided.
Decided ==
  [r \in Retrievers |->
     IF pc[r] = "ranking"
     THEN hits[r] \cup UNION {Found(r, id) : id \in DOMAIN rest[r]}
     ELSE Nothing]

-------------------------------------------------------------------------------
(* Lemmas about the store's operators. *)

\* Overwriting a store with a function on ids gives a store.
LEMMA OverwrittenStored ==
  ASSUME NEW store \in Stored, NEW written \in Stored
  PROVE  Overwritten(store, written) \in Stored
<1>1. PICK old \in SUBSET Ids : store \in [old -> Records]
  BY DEF Stored
<1>2. PICK new \in SUBSET Ids : written \in [new -> Records]
  BY DEF Stored
<1>3. [id \in DOMAIN store \cup DOMAIN written |->
         IF id \in DOMAIN written THEN written[id] ELSE store[id]]
        \in [old \cup new -> Records]
  BY <1>1, <1>2
<1>4. old \cup new \in SUBSET Ids
  OBVIOUS
<1> QED
  BY <1>3, <1>4 DEF Stored, Overwritten

\* A store without some of its ids is a store.
LEMMA RestrictedStored ==
  ASSUME NEW store \in Stored, NEW ids
  PROVE  [id \in DOMAIN store \ ids |-> store[id]] \in Stored
<1>1. PICK old \in SUBSET Ids : store \in [old -> Records]
  BY DEF Stored
<1>2. [id \in DOMAIN store \ ids |-> store[id]] \in [old \ ids -> Records]
  BY <1>1
<1>3. old \ ids \in SUBSET Ids
  OBVIOUS
<1> QED
  BY <1>2, <1>3 DEF Stored

\* A valid batch writes records of the store's kind.
LEMMA WrittenStored ==
  ASSUME NEW batch \in Batches, Valid(batch), NEW written \in Written(batch)
  PROVE  written \in Stored
<1> DEFINE ids == {batch[i].id : i \in DOMAIN batch}
<1>1. \A i \in DOMAIN batch : batch[i].id \in Ids /\ batch[i].record \in Records
  BY StoreAssumption DEF Entries, Valid
<1>2. ids \in SUBSET Ids /\ written \in [ids -> Records]
  BY <1>1 DEF Written
<1> QED
  BY <1>2 DEF Stored

\* Overwritten with a valid batch, a store holds the last record of each of its
\* ids, and all else is left alone.
LEMMA BatchWritten ==
  ASSUME NEW batch \in Batches, Valid(batch), NEW written \in Written(batch),
         NEW store \in Stored
  PROVE  LET ids == {batch[i].id : i \in DOMAIN batch}
             new == Overwritten(store, written) IN
         /\ \A i \in DOMAIN batch : batch[i].record \in Records
         /\ new \in [DOMAIN store \cup ids -> Records]
         /\ \A id \in DOMAIN store \ ids : new[id] = store[id]
         /\ \A i \in DOMAIN batch :
              \/ new[batch[i].id] = batch[i].record
              \/ \E j \in DOMAIN batch : j > i /\ batch[j].id = batch[i].id
<1> DEFINE ids == {batch[i].id : i \in DOMAIN batch}
           new == Overwritten(store, written)
<1>1. \A i \in DOMAIN batch : batch[i].id \in Ids /\ batch[i].record \in Records
  BY StoreAssumption DEF Entries, Valid
<1>2. written \in [ids -> Records]
  BY <1>1 DEF Written
<1>3. PICK old \in SUBSET Ids : store \in [old -> Records]
  BY DEF Stored
<1>4. new \in [DOMAIN store \cup ids -> Records]
  BY <1>2, <1>3 DEF Overwritten
<1>5. \A id \in DOMAIN store \ ids : new[id] = store[id]
  BY <1>2 DEF Overwritten
<1>6. \A id \in ids : new[id] = written[id]
  BY <1>2 DEF Overwritten
<1>7. ASSUME NEW i \in DOMAIN batch
      PROVE  \/ new[batch[i].id] = batch[i].record
             \/ \E j \in DOMAIN batch : j > i /\ batch[j].id = batch[i].id
  <2> HIDE DEF new
  <2> QED
    BY <1>6 DEF Written
<1> QED
  BY <1>1, <1>4, <1>5, <1>7

\* What the search returns, cut from the sorted hits, is the best topK of them.
LEMMA RankedBest ==
  ASSUME NEW found, IsFiniteSet(found), NEW topK \in Nat \ {0},
         NEW answer \in Ranked(found, topK)
  PROVE  answer \in Atomic!Best(found, topK)
<1> DEFINE n    == Cardinality(found)
           size == IF n > topK THEN topK ELSE n
<1>1. n \in Nat
  BY FS_CardinalityType
<1>2. PICK s \in Sorted(found) :
        answer = SubSeq(s, 1, IF Len(s) > topK THEN topK ELSE Len(s))
  BY DEF Ranked
<1>3. s \in [1 .. n -> found] /\ s \in Seq(found) /\ Len(s) = n
  BY <1>1, <1>2 DEF Sorted
<1>4. size \in 0 .. n
  BY <1>1
<1>5. answer \in [1 .. size -> found] /\ \A m \in 1 .. size : answer[m] = s[m]
  <2>1. answer = SubSeq(s, 1, size)
    BY <1>2, <1>3
  <2>2. \A m \in 1 .. size : s[m] \in found
    BY <1>1, <1>3, <1>4
  <2> HIDE DEF size, n
  <2>3. answer = [m \in 1 .. size |-> s[m]]
    BY <1>1, <1>3, <1>4, <2>1, SubSeqProperties
  <2> QED
    BY <2>2, <2>3
<1>6. \A m, k \in 1 .. n : m < k => Atomic!Before(s[m], s[k])
  BY <1>2, <1>3 DEF Sorted, RanksBefore, Atomic!Before
<1>7. ASSUME NEW h \in found
      PROVE  \/ \E m \in 1 .. size : answer[m] = h
             \/ size = topK /\ \A m \in 1 .. size : Atomic!Before(answer[m], h)
  <2>1. PICK k \in 1 .. n : s[k] = h
    BY <1>2, <1>3 DEF Sorted
  <2>2. CASE k \in 1 .. size
    BY <1>5, <2>1, <2>2
  <2>3. CASE k \notin 1 .. size
    BY <1>1, <1>4, <1>5, <1>6, <2>1, <2>3
  <2> QED
    BY <2>2, <2>3
<1>8. \A m, k \in 1 .. size : m < k => Atomic!Before(answer[m], answer[k])
  BY <1>1, <1>4, <1>5, <1>6
<1>9. size \in 0 .. topK /\ DOMAIN answer = 1 .. size
  BY <1>1, <1>5
<1>10. answer \in UNION {[1 .. k -> found] : k \in 0 .. topK}
  BY <1>5, <1>9
<1> HIDE DEF size, n
<1> QED
  BY <1>7, <1>8, <1>9, <1>10 DEF Atomic!Best

-------------------------------------------------------------------------------
(* Type correctness. *)

LEMMA InitTyped == Init => IInv
<1> SUFFICES ASSUME Init PROVE IInv
  OBVIOUS
<1>1. NoVectors \in Stored
  BY DEF NoVectors, Stored
<1> QED
  BY <1>1, RetrieverAssumption, FS_EmptySet
     DEF Init, IInv, TypeOK, FiniteHits, NoVectors

\* A call that returns leaves no copy and no hits behind.
LEMMA ReturnTyped ==
  ASSUME IInv, NEW r \in Retrievers, NEW result, Returns(r, result)
  PROVE  IInv'
<1>1. NoVectors \in Stored
  BY DEF NoVectors, Stored
<1> QED
  BY <1>1, RetrieverAssumption, FS_EmptySet DEF IInv, TypeOK, FiniteHits, Returns

\* Ranking one vector moves it from the copy to the hits, or drops it.
LEMMA RankTyped ==
  ASSUME IInv, NEW r \in Retrievers, NEW id \in Ids, Ranks(r, id)
  PROVE  IInv'
<1> DEFINE record == rest[r][id]
           hit    == [id |-> id, record |-> record]
<1>0. id \in DOMAIN rest[r] /\ record \in Records /\ DOMAIN rest[r] \subseteq Ids
  BY DEF IInv, TypeOK, Ranks, Stored
<1>1. hits'[r] = hits[r] \/ hits'[r] = hits[r] \cup {hit}
  BY DEF IInv, TypeOK, Ranks, Found, Copied
<1>2. IsFiniteSet(hits'[r])
  BY <1>1, FS_AddElement DEF IInv, FiniteHits
<1>3. hits'[r] \in SUBSET Hit
  BY <1>0, <1>1 DEF IInv, TypeOK, Hit
<1>4. rest'[r] = [i \in DOMAIN rest[r] \ {id} |-> rest[r][i]]
  BY DEF IInv, TypeOK, Ranks
<1>5. rest'[r] \in Stored
  <2>1. rest[r] \in Stored
    BY DEF IInv, TypeOK
  <2> QED
    BY <1>4, <2>1, RestrictedStored
<1>6. \A h \in hits'[r] : h.id \notin DOMAIN rest'[r]
  BY <1>0, <1>1, <1>4 DEF IInv, TypeOK
<1>7. \A h, k \in hits'[r] : h.id = k.id => h = k
  BY <1>0, <1>1 DEF IInv, TypeOK
<1>8. \A q \in Retrievers : q # r => hits'[q] = hits[q] /\ rest'[q] = rest[q]
  BY DEF IInv, TypeOK, Ranks
<1> QED
  BY <1>2, <1>3, <1>5, <1>6, <1>7, <1>8 DEF IInv, TypeOK, FiniteHits, Ranks

LEMMA WriteTyped ==
  ASSUME IInv, Write
  PROVE  IInv'
<1>1. vectors' \in Stored
  <2>1. ASSUME NEW batch \in Batches, Upsert(batch) PROVE vectors' \in Stored
    BY <2>1, WrittenStored, OverwrittenStored DEF Upsert, IInv, TypeOK
  <2>2. ASSUME NEW ids \in Removals, Delete(ids) PROVE vectors' \in Stored
    BY <2>2, RestrictedStored DEF Delete, IInv, TypeOK
  <2> QED
    BY <2>1, <2>2 DEF Write, UpsertRejected, RejectedKeeps, IInv, TypeOK
<1> QED
  BY <1>1 DEF Write, callVars, IInv, TypeOK, FiniteHits

LEMMA NextTyped == IInv /\ [Next]_vars => IInv'
<1> SUFFICES ASSUME IInv, [Next]_vars PROVE IInv'
  OBVIOUS
<1>1. CASE UNCHANGED vars
  BY <1>1 DEF vars, callVars, IInv, TypeOK, FiniteHits
<1>2. CASE Write
  BY <1>2, WriteTyped
<1>3. ASSUME NEW r \in Retrievers, RetrieverStep(r) PROVE IInv'
  <2>1. ASSUME NEW q \in Queries, Retrieve(r, q) PROVE IInv'
    BY <2>1, RetrieverAssumption DEF Retrieve, Goes, IInv, TypeOK, FiniteHits
  <2>2. CASE Cancel(r)
    BY <2>2 DEF Cancel, IInv, TypeOK, FiniteHits
  <2>3. CASE Embeds(r)
    BY <2>3 DEF Embeds, Goes, IInv, TypeOK, FiniteHits
  <2>4. CASE Copies(r)
    BY <2>4 DEF Copies, Goes, IInv, TypeOK, FiniteHits
  <2>5. ASSUME NEW id \in Ids, Ranks(r, id) PROVE IInv'
    BY <2>5, RankTyped
  <2>6. CASE RetrieveRejected(r) \/ EmbedFails(r) \/ RankingStops(r) \/ Answers(r)
    BY <2>6, ReturnTyped DEF RetrieveRejected, EmbedFails, RankingStops, Answers
  <2> QED
    BY <1>3, <2>1, <2>2, <2>3, <2>4, <2>5, <2>6 DEF RetrieverStep
<1> QED
  BY <1>1, <1>2, <1>3 DEF Next

\* The types of the store and of every retrieval in progress: a search works on
\* a copy of valid vectors and finds each of them at most once.
THEOREM TypeCorrect == Spec => []TypeOK
<1>1. IInv => TypeOK
  BY DEF IInv
<1> QED
  BY <1>1, InitTyped, NextTyped, PTL DEF Spec

-------------------------------------------------------------------------------
(* Refinement. *)

LEMMA InitRefines == Init => Atomic!AbstractInit
  BY DEF Init, NoVectors, Failed, Atomic!AbstractInit, Atomic!NotAnswered

\* The hits of a whole copy are the records of the store the query is about.
LEMMA AllFound ==
  ASSUME NEW r \in Retrievers
  PROVE  UNION {IF Matching(vectors[id], query[r].filter)
                THEN {[id |-> id, record |-> vectors[id]]} ELSE {} :
                id \in DOMAIN vectors}
           = Atomic!Matches(vectors, query[r])
  BY DEF Matching, Atomic!Matches, Atomic!Hit

\* A step that leaves one caller's search alone leaves its hits-to-be alone.
LEMMA SameDecided ==
  ASSUME UNCHANGED <<pc, query, rest, hits>>
  PROVE  Decided' = Decided
  BY DEF Decided, Found, Copied

LEMMA SameDecidedAt ==
  ASSUME NEW q \in Retrievers, pc'[q] = pc[q], query'[q] = query[q],
         rest'[q] = rest[q], hits'[q] = hits[q]
  PROVE  Decided'[q] = Decided[q]
  BY DEF Decided, Found, Copied

LEMMA WriteRefines ==
  ASSUME IInv, Write
  PROVE  Atomic!AbstractNext \/ UNCHANGED Atomic!abstractVars
<1>0. UNCHANGED <<query, cancelled, Decided, outcome>>
  BY SameDecided DEF Write, callVars
<1>1. ASSUME NEW batch \in Batches, Upsert(batch) PROVE Atomic!AbstractNext
  <2>1. PICK written \in Written(batch) : vectors' = Overwritten(vectors, written)
    BY <1>1 DEF Upsert
  <2>2. vectors \in Stored /\ Valid(batch)
    BY <1>1 DEF Upsert, IInv, TypeOK
  <2>3. Atomic!Put(batch)
    BY <1>0, <2>1, <2>2, BatchWritten DEF Atomic!Put, Atomic!IdsOf, Decided
  <2> QED
    BY <2>3 DEF Atomic!AbstractNext
<1>2. ASSUME NEW ids \in Removals, Delete(ids) PROVE Atomic!AbstractNext
  BY <1>0, <1>2 DEF Delete, Atomic!Remove, Atomic!AbstractNext, Decided
<1>3. ASSUME NEW batch \in Batches, UpsertRejected(batch)
      PROVE  UNCHANGED Atomic!abstractVars
  BY <1>0, <1>3 DEF UpsertRejected, RejectedKeeps, Atomic!abstractVars, Decided
<1> QED
  BY <1>1, <1>2, <1>3 DEF Write

\* A call that returns, with whatever result, leaves nothing decided.
LEMMA ReturnRefines ==
  ASSUME IInv, NEW r \in Retrievers, NEW result, Returns(r, result)
  PROVE  /\ Decided' = [Decided EXCEPT ![r] = Nothing]
         /\ query' = [query EXCEPT ![r] = Nothing]
         /\ outcome' = [outcome EXCEPT ![r] = result]
         /\ UNCHANGED <<vectors, cancelled>>
<1>1. ASSUME NEW q \in Retrievers, q # r PROVE Decided'[q] = Decided[q]
  <2>1. /\ pc'[q] = pc[q] /\ query'[q] = query[q]
        /\ rest'[q] = rest[q] /\ hits'[q] = hits[q]
    BY <1>1 DEF Returns, IInv, TypeOK
  <2> QED
    BY <2>1, SameDecidedAt
<1>2. Decided'[r] = Nothing
  BY DEF Decided, Returns, IInv, TypeOK
<1>3. Decided = [q \in Retrievers |-> Decided[q]]
      /\ Decided' = [q \in Retrievers |-> Decided'[q]]
  BY DEF Decided
<1>4. Decided' = [Decided EXCEPT ![r] = Nothing]
  <2> HIDE DEF Decided
  <2> QED
    BY <1>1, <1>2, <1>3
<1> QED
  BY <1>4 DEF Returns

\* Retrieve, Embeds and Cancel decide nothing.
LEMMA UndecidedRefines ==
  ASSUME IInv, NEW r \in Retrievers,
         UNCHANGED <<rest, hits>>,
         \A q \in Retrievers : q # r => pc'[q] = pc[q] /\ query'[q] = query[q],
         \/ pc[r] # "ranking" /\ pc'[r] # "ranking"
         \/ pc'[r] = pc[r] /\ query'[r] = query[r]
  PROVE  Decided' = Decided
<1>1. ASSUME NEW q \in Retrievers PROVE Decided'[q] = Decided[q]
  <2>1. CASE pc'[q] = pc[q] /\ query'[q] = query[q]
    BY <2>1, SameDecidedAt
  <2>2. CASE pc[q] # "ranking" /\ pc'[q] # "ranking"
    BY <2>2 DEF Decided
  <2> QED
    BY <2>1, <2>2
<1> QED
  BY <1>1 DEF Decided

\* Copying the store is the moment the answer is about.
LEMMA CopiesRefines ==
  ASSUME IInv, NEW r \in Retrievers, Copies(r)
  PROVE  Atomic!AbstractNext
<1>1. /\ pc[r] = "locking" /\ pc'[r] = "ranking" /\ query'[r] = query[r]
      /\ rest'[r] = vectors /\ hits[r] = {} /\ hits'[r] = {}
      /\ query[r] # Nothing
  BY DEF Copies, Goes, IInv, TypeOK
<1>2. ASSUME NEW q \in Retrievers, q # r PROVE Decided'[q] = Decided[q]
  <2>1. /\ pc'[q] = pc[q] /\ query'[q] = query[q]
        /\ rest'[q] = rest[q] /\ hits'[q] = hits[q]
    BY <1>2 DEF Copies, Goes, IInv, TypeOK
  <2> QED
    BY <2>1, SameDecidedAt
<1>3. Decided[r] = Nothing
  BY <1>1 DEF Decided
<1>4. Decided'[r] = Atomic!Matches(vectors, query[r])
  BY <1>1, AllFound DEF Decided, Found, Copied
<1>5. Decided' = [Decided EXCEPT ![r] = Atomic!Matches(vectors, query[r])]
  <2>1. Decided = [q \in Retrievers |-> Decided[q]]
        /\ Decided' = [q \in Retrievers |-> Decided'[q]]
    BY DEF Decided
  <2> HIDE DEF Decided
  <2> QED
    BY <1>2, <1>4, <2>1
<1>6. Atomic!Decide(r)
  BY <1>1, <1>3, <1>5 DEF Atomic!Decide, Decided, Copies
<1> QED
  BY <1>6 DEF Atomic!AbstractNext

\* Ranking a vector moves it from what may be found to what is found.
LEMMA RanksRefines ==
  ASSUME IInv, NEW r \in Retrievers, NEW id \in Ids, Ranks(r, id)
  PROVE  Decided' = Decided
<1>1. /\ pc[r] = "ranking" /\ pc'[r] = "ranking" /\ query'[r] = query[r]
      /\ rest'[r] = [i \in DOMAIN rest[r] \ {id} |-> rest[r][i]]
      /\ hits'[r] = hits[r] \cup Found(r, id)
      /\ id \in DOMAIN rest[r]
  BY DEF Ranks, IInv, TypeOK
<1>2. ASSUME NEW q \in Retrievers, q # r PROVE Decided'[q] = Decided[q]
  <2>1. /\ pc'[q] = pc[q] /\ query'[q] = query[q]
        /\ rest'[q] = rest[q] /\ hits'[q] = hits[q]
    BY <1>2 DEF Ranks, IInv, TypeOK
  <2> QED
    BY <2>1, SameDecidedAt
<1>3. \A i \in DOMAIN rest[r] \ {id} : Found(r, i)' = Found(r, i)
  BY <1>1 DEF Found, Copied
<1>4. DOMAIN rest'[r] = DOMAIN rest[r] \ {id}
  BY <1>1
<1>5. Decided'[r] = hits'[r] \cup UNION {Found(r, i)' : i \in DOMAIN rest'[r]}
  BY <1>1 DEF Decided
<1>6. Decided[r] = hits[r] \cup UNION {Found(r, i) : i \in DOMAIN rest[r]}
  BY <1>1 DEF Decided
<1>7. Decided'[r] = Decided[r]
  <2>1. UNION {Found(r, i)' : i \in DOMAIN rest'[r]}
          = UNION {Found(r, i) : i \in DOMAIN rest[r] \ {id}}
    BY <1>3, <1>4
  <2>2. UNION {Found(r, i) : i \in DOMAIN rest[r]}
          = Found(r, id) \cup UNION {Found(r, i) : i \in DOMAIN rest[r] \ {id}}
    BY <1>1
  <2> QED
    BY <1>1, <1>5, <1>6, <2>1, <2>2
<1> QED
  BY <1>2, <1>7 DEF Decided

\* An answer is the best of the hits decided on, and its observation agrees.
LEMMA AnswersRefines ==
  ASSUME IInv, NEW r \in Retrievers, Answers(r)
  PROVE  Atomic!AbstractNext
<1>0. PICK answer \in Ranked(hits[r], query[r].topK) :
        \E trace \in {"none", Status(answer)} :
          Returns(r, [answer |-> answer, trace |-> trace])
  BY DEF Answers
<1>1. PICK trace \in {"none", Status(answer)} :
        Returns(r, [answer |-> answer, trace |-> trace])
  BY <1>0
<1>2. query[r] \in Queries
  BY DEF Answers, IInv, TypeOK
<1>3. Decided[r] = hits[r]
  BY DEF Answers, Decided
<1>4. Decided[r] # Nothing
  BY <1>3, RetrieverAssumption DEF IInv, TypeOK
<1>5. answer \in Atomic!Best(Decided[r], query[r].topK)
  BY <1>1, <1>2, <1>3, RankedBest, RetrieverAssumption DEF IInv, FiniteHits
<1>6. trace \in {"none", Atomic!Observed(answer)}
  BY <1>1 DEF Status, Atomic!Observed
<1>7. Atomic!Ends(r, Atomic!Answered(answer, trace))
  BY <1>1, ReturnRefines DEF Atomic!Ends, Atomic!Answered, Decided
<1>8. Atomic!Answer(r)
  BY <1>4, <1>5, <1>6, <1>7 DEF Atomic!Answer, Decided
<1> QED
  BY <1>8 DEF Atomic!AbstractNext

LEMMA FailureRefines ==
  ASSUME IInv, NEW r \in Retrievers,
         RetrieveRejected(r) \/ EmbedFails(r) \/ RankingStops(r)
  PROVE  Atomic!AbstractNext
<1>1. Returns(r, Atomic!NotAnswered("none"))
  BY DEF RetrieveRejected, EmbedFails, RankingStops, Failed, Atomic!NotAnswered
<1>2. Decided[r] = Nothing \/ cancelled[r]
  BY DEF RetrieveRejected, EmbedFails, RankingStops, Decided
<1>3. Atomic!Fail(r)
  BY <1>1, <1>2, ReturnRefines DEF Atomic!Fail, Atomic!Ends, Decided
<1> QED
  BY <1>3 DEF Atomic!AbstractNext

LEMMA NextRefines ==
  IInv /\ [Next]_vars => [Atomic!AbstractNext]_(Atomic!abstractVars)
<1> SUFFICES ASSUME IInv, [Next]_vars
             PROVE  Atomic!AbstractNext \/ UNCHANGED Atomic!abstractVars
  OBVIOUS
<1>1. CASE UNCHANGED vars
  BY <1>1, SameDecided DEF vars, callVars, Atomic!abstractVars, Decided
<1>2. CASE Write
  BY <1>2, WriteRefines
<1>3. ASSUME NEW r \in Retrievers, RetrieverStep(r)
      PROVE  Atomic!AbstractNext \/ UNCHANGED Atomic!abstractVars
  <2>1. ASSUME NEW q \in Queries, Retrieve(r, q) PROVE Atomic!AbstractNext
    <3>1. query[r] = Nothing
      BY <2>1 DEF Retrieve, Goes, IInv, TypeOK
    <3>2. Decided' = Decided
      BY <2>1, UndecidedRefines DEF Retrieve, Goes, IInv, TypeOK
    <3>3. Atomic!Ask(r, q)
      BY <2>1, <3>1, <3>2 DEF Retrieve, Failed, Atomic!Ask, Atomic!NotAnswered, Decided
    <3> QED
      BY <3>3 DEF Atomic!AbstractNext
  <2>2. ASSUME Cancel(r) PROVE Atomic!AbstractNext
    <3>1. query[r] # Nothing
      BY <2>2 DEF Cancel, IInv, TypeOK
    <3>2. Decided' = Decided
      BY <2>2, SameDecided DEF Cancel
    <3>3. Atomic!GiveUp(r)
      BY <2>2, <3>1, <3>2 DEF Cancel, Atomic!GiveUp, Decided
    <3> QED
      BY <3>3 DEF Atomic!AbstractNext
  <2>3. ASSUME Embeds(r) PROVE UNCHANGED Atomic!abstractVars
    <3>1. Decided' = Decided
      BY <2>3, UndecidedRefines DEF Embeds, Goes, IInv, TypeOK
    <3> QED
      BY <2>3, <3>1 DEF Embeds, Atomic!abstractVars, Decided
  <2>4. ASSUME NEW id \in Ids, Ranks(r, id) PROVE UNCHANGED Atomic!abstractVars
    BY <2>4, RanksRefines DEF Ranks, Atomic!abstractVars, Decided
  <2> QED
    BY <1>3, <2>1, <2>2, <2>3, <2>4, CopiesRefines, AnswersRefines,
       FailureRefines DEF RetrieverStep
<1> QED
  BY <1>1, <1>2, <1>3 DEF Next

\* The retriever over the memory store implements StoreAbstract: whatever is
\* written while it ranks, it answers from one moment of the store.
THEOREM RetrieverImplementsAtomicStore == Spec => ImplementsAtomicStore
<1> QED
  BY InitTyped, NextTyped, InitRefines, NextRefines, PTL
     DEF Spec, ImplementsAtomicStore, Atomic!AbstractSpec

-------------------------------------------------------------------------------
(* RecursiveChunker. *)

Offset(n, step) == n * step

EndOf(from) == IF from + config.size > document.length THEN document.length
               ELSE from + config.size

\* Where every window lies, in terms of its number alone.
WindowsInPlace ==
  \A i \in 1 .. Len(cuts) :
    /\ cuts[i].from = Offset(i - 1, Step)
    /\ cuts[i].from < document.length
    /\ cuts[i].to = EndOf(cuts[i].from)

\* How far Chunk has come.
Progress ==
  /\ chunking = "called" => start = 0 /\ cuts = <<>>
  /\ chunking = "cutting" => ValidConfig /\ ~document.blank
  /\ chunking = "done" /\ ~document.blank => ValidConfig /\ start >= document.length
  /\ chunking \in {"cutting", "done"} => start = Offset(Len(cuts), Step)

ChunkerInv ==
  /\ ChunkerTypeOK
  /\ WindowsInPlace
  /\ Progress
  /\ ChunksAllOrNothing
  /\ document.length = 0 => document.blank

LEMMA OffsetZero == ASSUME NEW step \in Int PROVE Offset(0, step) = 0
BY DEF Offset

LEMMA OffsetNext ==
  ASSUME NEW n \in Nat, NEW step \in Int
  PROVE  Offset(n + 1, step) = Offset(n, step) + step
BY DEF Offset

LEMMA ConfigIsInt ==
  ASSUME ChunkerTypeOK
  PROVE  /\ config.size \in Int /\ config.overlap \in Int /\ Step \in Int
         /\ document.length \in Nat
         /\ ValidConfig => Step > 0 /\ Step <= config.size
<1>1. config.size \in Int /\ config.overlap \in Int
  BY ChunkerAssumption DEF ChunkerTypeOK
<1>2. document.length \in Nat
  BY ChunkerAssumption DEF ChunkerTypeOK
<1> QED
  BY <1>1, <1>2 DEF Step, ValidConfig

LEMMA WindowTyped ==
  ASSUME ChunkerTypeOK, NEW i \in 1 .. Len(cuts)
  PROVE  cuts[i].from \in Nat /\ cuts[i].to \in Nat
<1>1. cuts[i] \in Window
  BY ElementOfSeq DEF ChunkerTypeOK
<1> QED
  BY <1>1 DEF Window

LEMMA ChunkerInitOK == ChunkerInit => ChunkerInv
<1> SUFFICES ASSUME ChunkerInit PROVE ChunkerInv
  OBVIOUS
<1>1. cuts = <<>> /\ cuts \in Seq(Window) /\ Len(cuts) = 0
  BY DEF ChunkerInit
<1>2. ChunkerTypeOK
  BY <1>1 DEF ChunkerInit, ChunkerTypeOK
<1> QED
  BY <1>1, <1>2
     DEF ChunkerInit, ChunkerInv, WindowsInPlace, Progress, ChunksAllOrNothing

\* A step that drops all windows, or none, and does not move the start.
LEMMA EndsKeeps ==
  ASSUME ChunkerInv, NEW how \in {"cutting", "done", "invalid", "cancelled"},
         NEW result \in {cuts, <<>>}, Ends(how, result),
         how \in {"cutting", "done"} => start = Offset(Len(result), Step),
         how = "cutting" => ValidConfig /\ ~document.blank,
         how = "done" /\ ~document.blank => ValidConfig /\ start >= document.length,
         how \in {"invalid", "cancelled"} => result = <<>>
  PROVE  ChunkerInv'
<1>1. /\ document' = document /\ config' = config /\ start' = start
      /\ chunking' = how /\ cuts' = result
      /\ Step' = Step
  BY DEF Ends, Step
<1>2. Len(<<>>) = 0 /\ <<>> \in Seq(Window)
  OBVIOUS
<1>3. CASE result = cuts
  <2>1. cuts' = cuts
    BY <1>1, <1>3
  <2>2. ChunkerTypeOK'
    BY <1>1, <2>1 DEF ChunkerInv, ChunkerTypeOK, ValidConfig
  <2>3. WindowsInPlace'
    BY <1>1, <2>1 DEF ChunkerInv, WindowsInPlace, EndOf
  <2> QED
    BY <1>1, <1>3, <2>1, <2>2, <2>3
       DEF ChunkerInv, Progress, ChunksAllOrNothing, ValidConfig
<1>4. CASE result = <<>>
  <2>1. cuts' = <<>> /\ Len(cuts') = 0
    BY <1>1, <1>2, <1>4
  <2>2. ChunkerTypeOK'
    BY <1>1, <1>2, <2>1 DEF ChunkerInv, ChunkerTypeOK
  <2>3. WindowsInPlace'
    BY <2>1 DEF WindowsInPlace
  <2> QED
    BY <1>1, <1>2, <1>4, <2>1, <2>2, <2>3
       DEF ChunkerInv, Progress, ChunksAllOrNothing, ValidConfig
<1> QED
  BY <1>3, <1>4

\* The next window starts where its number says.
LEMMA CutsKeeps == ASSUME ChunkerInv, Cuts PROVE ChunkerInv'
<1> DEFINE window == [from |-> start, to |-> WindowEnd]
<1>1. /\ cuts' = Append(cuts, window)
      /\ start' = start + Step
      /\ document' = document /\ config' = config /\ chunking' = chunking
      /\ chunking = "cutting" /\ start < document.length
      /\ Step' = Step
  BY DEF Cuts, Step
<1>2. /\ cuts \in Seq(Window) /\ start \in Nat
      /\ ValidConfig /\ start = Offset(Len(cuts), Step)
  BY <1>1 DEF ChunkerInv, ChunkerTypeOK, Progress
<1>3. /\ config.size \in Int /\ Step \in Int /\ document.length \in Nat
      /\ Step > 0 /\ config.size > 0
  BY <1>2, ConfigIsInt DEF ChunkerInv, ValidConfig
<1>4. /\ WindowEnd = EndOf(start) /\ WindowEnd \in Nat
      /\ start < WindowEnd /\ WindowEnd <= document.length
      /\ WindowEnd - start <= config.size
  BY <1>1, <1>2, <1>3 DEF WindowEnd, EndOf
<1>5. /\ window \in Window /\ window.from = start /\ window.to = WindowEnd
  BY <1>2, <1>4 DEF Window
<1> HIDE DEF window
<1>6. /\ cuts' \in Seq(Window)
      /\ Len(cuts') = Len(cuts) + 1
      /\ Len(cuts) \in Nat
      /\ \A i \in 1 .. Len(cuts) : cuts'[i] = cuts[i]
      /\ cuts'[Len(cuts) + 1] = window
  BY <1>1, <1>2, <1>5
<1>7. \A i \in 1 .. Len(cuts') : i \in 1 .. Len(cuts) \/ i = Len(cuts) + 1
  BY <1>6
<1>8. ChunkerTypeOK'
  <2>1. start' \in Nat
    BY <1>1, <1>2, <1>3
  <2>2. ASSUME NEW i \in 1 .. Len(cuts')
        PROVE  /\ cuts'[i].from < cuts'[i].to
               /\ cuts'[i].to <= document.length
               /\ cuts'[i].to - cuts'[i].from <= config.size
    BY <1>4, <1>5, <1>6, <1>7 DEF ChunkerInv, ChunkerTypeOK
  <2> QED
    BY <1>1, <1>2, <1>6, <2>1, <2>2 DEF ChunkerInv, ChunkerTypeOK, ValidConfig
<1>9. WindowsInPlace'
  <2> SUFFICES ASSUME NEW i \in 1 .. Len(cuts')
               PROVE  /\ cuts'[i].from = Offset(i - 1, Step)
                      /\ cuts'[i].from < document.length
                      /\ cuts'[i].to = EndOf(cuts'[i].from)
    BY <1>1 DEF WindowsInPlace, EndOf
  <2>1. CASE i \in 1 .. Len(cuts)
    BY <2>1, <1>6 DEF ChunkerInv, WindowsInPlace
  <2>2. CASE i = Len(cuts) + 1
    <3>1. i - 1 = Len(cuts)
      BY <2>2, <1>6
    <3> QED
      BY <2>2, <3>1, <1>1, <1>2, <1>4, <1>5, <1>6
  <2> QED
    BY <2>1, <2>2, <1>7
<1>10. start' = Offset(Len(cuts'), Step)
  BY <1>1, <1>2, <1>3, <1>6, OffsetNext
<1>11. Progress'
  BY <1>1, <1>2, <1>10 DEF ChunkerInv, Progress, ValidConfig
<1> QED
  BY <1>1, <1>8, <1>9, <1>11 DEF ChunkerInv, ChunksAllOrNothing

LEMMA ChunkerStep == ChunkerInv /\ [ChunkerNext]_chunkerVars => ChunkerInv'
<1> SUFFICES ASSUME ChunkerInv, [ChunkerNext]_chunkerVars PROVE ChunkerInv'
  OBVIOUS
<1>1. Step \in Int /\ Len(<<>>) = 0
  BY ConfigIsInt DEF ChunkerInv
<1>2. chunking = "called" => start = Offset(Len(<<>>), Step)
  BY <1>1, OffsetZero DEF ChunkerInv, Progress
<1>3. CASE RejectsConfig
  BY <1>3, EndsKeeps DEF RejectsConfig
<1>4. CASE SkipsBlank
  BY <1>2, <1>4, EndsKeeps DEF SkipsBlank
<1>5. CASE StartsCutting
  BY <1>2, <1>5, EndsKeeps DEF StartsCutting
<1>6. CASE Cuts
  BY <1>6, CutsKeeps
<1>7. CASE FinishesCutting
  BY <1>7, EndsKeeps DEF FinishesCutting, ChunkerInv, Progress
<1>8. CASE ChunkingCancelled
  BY <1>8, EndsKeeps DEF ChunkingCancelled, KeptOnError
<1>9. CASE UNCHANGED chunkerVars
  BY <1>9 DEF chunkerVars, ChunkerInv, ChunkerTypeOK, WindowsInPlace, EndOf, Step,
              Progress, ChunksAllOrNothing, ValidConfig
<1> QED
  BY <1>3, <1>4, <1>5, <1>6, <1>7, <1>8, <1>9 DEF ChunkerNext

LEMMA ChunkerInvariant == ChunkerSpec => []ChunkerInv
BY ChunkerInitOK, ChunkerStep, PTL DEF ChunkerSpec

LEMMA CutFromNumbers == ChunkerInv => ChunksDeterministic
BY DEF ChunkerInv, WindowsInPlace, ChunksDeterministic, Offset, Step

\* When the start has passed the end, the last window reaches it: a step is
\* never longer than a window.
LEMMA CoveredWhenDone == ChunkerInv => ChunksCoverText
<1> SUFFICES ASSUME ChunkerInv, chunking = "done", ~document.blank
             PROVE  /\ cuts[1].from = 0
                    /\ cuts[Len(cuts)].to = document.length
                    /\ \A i \in 1 .. Len(cuts) - 1 :
                         \/ cuts[i].to - cuts[i + 1].from = config.overlap
                         \/ /\ cuts[i].to - cuts[i + 1].from < config.overlap
                            /\ cuts[i].to = document.length
  BY DEF ChunksCoverText
<1>1. /\ ValidConfig /\ start >= document.length
      /\ start = Offset(Len(cuts), Step)
      /\ document.length # 0
  BY DEF ChunkerInv, Progress
<1>2. /\ config.size \in Int /\ config.overlap \in Int /\ Step \in Int
      /\ document.length \in Nat /\ Step > 0 /\ Step <= config.size
      /\ Step = config.size - config.overlap
  BY <1>1, ConfigIsInt DEF ChunkerInv, Step
<1>3. Len(cuts) \in Nat
  BY DEF ChunkerInv, ChunkerTypeOK
<1>4. Len(cuts) # 0
  BY <1>1, <1>2, OffsetZero
<1>5. \A i \in 1 .. Len(cuts) :
        /\ cuts[i].from = Offset(i - 1, Step)
        /\ cuts[i].to = EndOf(cuts[i].from)
        /\ cuts[i].from \in Nat
  BY WindowTyped DEF ChunkerInv, WindowsInPlace
<1>6. \A i \in 1 .. Len(cuts) : Offset(i, Step) = cuts[i].from + Step
  <2> SUFFICES ASSUME NEW i \in 1 .. Len(cuts)
               PROVE  Offset(i, Step) = cuts[i].from + Step
    OBVIOUS
  <2>1. i - 1 \in Nat /\ (i - 1) + 1 = i
    BY <1>3
  <2>2. Offset((i - 1) + 1, Step) = Offset(i - 1, Step) + Step
    BY <2>1, <1>2, OffsetNext
  <2> QED
    BY <2>1, <2>2, <1>5
<1>7. cuts[1].from = 0
  BY <1>2, <1>3, <1>4, <1>5, OffsetZero
<1>8. cuts[Len(cuts)].to = document.length
  <2>1. Len(cuts) \in 1 .. Len(cuts)
    BY <1>3, <1>4
  <2>2. cuts[Len(cuts)].from + Step >= document.length
    BY <2>1, <1>1, <1>6
  <2>3. ASSUME NEW from \in Nat, from + Step >= document.length
        PROVE  EndOf(from) = document.length
    BY <2>3, <1>2 DEF EndOf
  <2> QED
    BY <2>1, <2>2, <2>3, <1>5
<1>9. ASSUME NEW i \in 1 .. Len(cuts) - 1
      PROVE  \/ cuts[i].to - cuts[i + 1].from = config.overlap
             \/ /\ cuts[i].to - cuts[i + 1].from < config.overlap
                /\ cuts[i].to = document.length
  <2>1. i \in 1 .. Len(cuts) /\ i + 1 \in 1 .. Len(cuts) /\ (i + 1) - 1 = i
    BY <1>3
  <2>2. cuts[i + 1].from = cuts[i].from + Step
    BY <2>1, <1>5, <1>6
  <2>3. cuts[i].from \in Nat /\ cuts[i].to = EndOf(cuts[i].from)
    BY <2>1, <1>5
  <2> QED
    BY <2>2, <2>3, <1>2 DEF EndOf
<1> QED
  BY <1>7, <1>8, <1>9

\* chunker_recursive.go:54-97: every window is a part of the document, not
\* empty and no longer than a chunk, and an invalid configuration cuts none.
THEOREM ChunkerTypeCorrect == ChunkerSpec => []ChunkerTypeOK
<1>1. ChunkerInv => ChunkerTypeOK
  BY DEF ChunkerInv
<1> QED
  BY <1>1, ChunkerInvariant, PTL

\* chunker_recursive.go:76-97: no rune is lost, whatever the sizes.
THEOREM TextIsCovered == ChunkerSpec => []ChunksCoverText
BY CoveredWhenDone, ChunkerInvariant, PTL

\* chunker_recursive.go:55, :80: a chunking that fails leaves nothing behind.
THEOREM FailuresCutNothing == ChunkerSpec => []ChunksAllOrNothing
<1>1. ChunkerInv => ChunksAllOrNothing
  BY DEF ChunkerInv
<1> QED
  BY <1>1, ChunkerInvariant, PTL

\* chunker_recursive.go:39: a window's number says where it lies.
THEOREM ChunkingIsDeterministic == ChunkerSpec => []ChunksDeterministic
BY CutFromNumbers, ChunkerInvariant, PTL

\* chunker_recursive.go:54-97, all of it: the whole document in windows that its
\* length and the configuration determine, or nothing.
THEOREM ChunksAreWhole == ChunkerSpec => []ChunksWhole
<1>1. ChunkerTypeOK /\ ChunksCoverText /\ ChunksAllOrNothing /\ ChunksDeterministic
        => ChunksWhole
  BY DEF ChunksWhole
<1> QED
  BY <1>1, ChunkerTypeCorrect, TextIsCovered, FailuresCutNothing, ChunkingIsDeterministic, PTL
===============================================================================
