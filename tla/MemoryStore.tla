------------------------------ MODULE MemoryStore ------------------------------
(***************************************************************************)
(* pkg/ai/vectordb/memory_store.go: a map of vectors behind a read-write   *)
(* mutex.  Upsert and Delete are atomic under it; Search copies the map    *)
(* under the read lock and ranks the copy outside it, which is modelled    *)
(* with its caller in BasicRetriever.  All searches have the same query    *)
(* vector, so that an embedding is known by its similarity to that vector  *)
(* (its score), and the metadata by the one tag that filters look at.      *)
(***************************************************************************)
EXTENDS Integers, Sequences, FiniteSets

CONSTANTS
  Ids,        \* of vectors, in their order as strings
  Records,    \* what a valid vector holds: [score, tag]
  Invalid,    \* a vector validateVector refuses
  Batches,    \* what Upsert is called with: sequences of Entries
  Removals,   \* what Delete is called with: sets of ids
  Threshold,  \* Query.Threshold
  AnyTag      \* the empty filter

Entries == [id : Ids, record : Records \cup {Invalid}]

ASSUME StoreAssumption ==
  /\ Ids \subseteq Int
  /\ \A record \in Records : record.score \in Int
  /\ Invalid \notin Records
  /\ \A batch \in Batches : batch \in [1 .. Len(batch) -> Entries]
  /\ Removals \subseteq SUBSET Ids
  /\ Threshold \in Int

VARIABLE vectors   \* the stored records, by id

\* Mutant: only the first vector is looked at.
ValidFirst(batch) == \A i \in DOMAIN batch : i = 1 => batch[i].record # Invalid

Valid(batch) == \A i \in DOMAIN batch : batch[i].record # Invalid

\* The vectors of a batch are written in order: the last one of an id stays.
Written(batch) ==
  {written \in [{batch[i].id : i \in DOMAIN batch} ->
                {batch[i].record : i \in DOMAIN batch}] :
     \A i \in DOMAIN batch :
       \/ written[batch[i].id] = batch[i].record
       \/ \E j \in DOMAIN batch : j > i /\ batch[j].id = batch[i].id}

Overwritten(store, written) ==
  [id \in DOMAIN store \cup DOMAIN written |->
     IF id \in DOMAIN written THEN written[id] ELSE store[id]]

\* A batch is validated and copied before the lock is taken, and then written.
Upsert(batch) ==
  /\ Valid(batch)
  /\ \E written \in Written(batch) : vectors' = Overwritten(vectors, written)

\* Mutant: vectors are written while the rest of the batch is looked at.
RejectedKeepsPart(batch) ==
  LET bad  == {i \in DOMAIN batch : batch[i].record = Invalid}
      part == {i \in DOMAIN batch : \A j \in bad : i < j}
  IN  \E written \in Written([i \in part |-> batch[i]]) :
        vectors' = Overwritten(vectors, written)

\* Of a batch with one invalid vector nothing is written.
RejectedKeeps(batch) == UNCHANGED vectors

\* One invalid vector, or a context that is done.
UpsertRejected(batch) ==
  /\ ~Valid(batch)
  /\ RejectedKeeps(batch)

\* Ids that are not stored are deleted as well.
Delete(ids) == vectors' = [id \in DOMAIN vectors \ ids |-> vectors[id]]

\* matchesFilter and the threshold.
Matching(record, filter) ==
  /\ filter = AnyTag \/ record.tag = filter
  /\ record.score >= Threshold

\* The order of the hits: by falling score, then by id.
RanksBefore(h, k) ==
  \/ h.record.score > k.record.score
  \/ h.record.score = k.record.score /\ h.id < k.id

\* sort.SliceStable, the result of which is unique: ids differ.
Sorted(hits) ==
  {s \in [1 .. Cardinality(hits) -> hits] :
     /\ \A m, n \in DOMAIN s : m < n => RanksBefore(s[m], s[n])
     /\ \A h \in hits : \E n \in DOMAIN s : s[n] = h}

\* The hits sorted and cut after topK.
Ranked(hits, topK) ==
  {SubSeq(s, 1, IF Len(s) > topK THEN topK ELSE Len(s)) : s \in Sorted(hits)}
===============================================================================
