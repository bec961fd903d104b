--------------------------- MODULE StreamReaderProofs ---------------------------
(***************************************************************************)
(* Proofs about StreamReader: for any indexes, any events, bodies of any   *)
(* length and any moment at which the context ends.                        *)
(***************************************************************************)
EXTENDS StreamReader, FiniteSetTheorems, SequenceTheorems, TLAPS

\* A batch of completed calls: one chunk for each index, by increasing index.
Batch(list, buffer) ==
  /\ list \in Seq(ChunkType)
  /\ \A k \in 1 .. Len(list) :
       /\ list[k].index \in DOMAIN buffer
       /\ list[k] = ToolCall(list[k].index, buffer[list[k].index])
  /\ \A j, k \in 1 .. Len(list) : j < k => list[j].index < list[k].index
  /\ \A i \in DOMAIN buffer : \E k \in 1 .. Len(list) : list[k].index = i

\* ErrorIsLast and ToolCallsFollowFinish for any chunks.
ErrorOnlyLast(produced) ==
  \A k \in 1 .. Len(produced) : produced[k] = Error => k = Len(produced)

CallsFollow(produced) ==
  \A k \in 1 .. Len(produced) :
    produced[k].kind = "tool" =>
      /\ k > 1
      /\ \/ produced[k - 1].finish = "tool_calls"
         \/ /\ produced[k - 1].kind = "tool"
            /\ produced[k - 1].index < produced[k].index

\* FragmentsKept for any body, chunks and buffers.
Sent(read, i) == {n \in 1 .. Len(read) : i \in DOMAIN read[n].deltas}

Mine(produced, i) ==
  {k \in 1 .. Len(produced) : produced[k].kind = "tool" /\ produced[k].index = i}

Values(s) == {s[m] : m \in 1 .. Len(s)}

Buffered(buffer, i) == IF i \in DOMAIN buffer THEN Values(buffer[i]) ELSE {}

Ascending(s) == \A l, m \in 1 .. Len(s) : l < m => s[l] < s[m]

Kept(read, produced, buffer) ==
  \A i \in Indexes :
    /\ \A k \in Mine(produced, i) : Values(produced[k].args) \subseteq Sent(read, i)
    /\ Buffered(buffer, i) \subseteq Sent(read, i)
    /\ \A n \in Sent(read, i) :
         n \in Buffered(buffer, i)
           \/ \E k \in Mine(produced, i) : n \in Values(produced[k].args)
    /\ \A k \in Mine(produced, i) :
         Values(produced[k].args) \cap Buffered(buffer, i) = {}
    /\ \A j, k \in Mine(produced, i) :
         j # k => Values(produced[j].args) \cap Values(produced[k].args) = {}
    /\ \A k \in Mine(produced, i) : Ascending(produced[k].args)
    /\ i \in DOMAIN buffer => Ascending(buffer[i])

\* How far the goroutine has come, and what a live context lets one conclude.
Endings ==
  /\ pc = "reading" => outbox = <<>> /\ ending = "none"
  /\ pc = "sending" => outbox[Len(outbox)] = Error \/ ending = "none"
  /\ sawTerminal => TerminalSent
  /\ pc = "closed" /\ ctx = "live" =>
       /\ outbox = <<>>
       /\ \/ Produced # <<>> /\ Produced[Len(Produced)] = Error
          \/ TerminalSent /\ (ending = "done" => calls = NoCalls)

StreamInv ==
  /\ ReaderTypeOK
  /\ Endings
  /\ ErrorIsLast
  /\ CallsFollow(Produced)
  /\ Kept(body, Produced, calls)

-------------------------------------------------------------------------------
(* sort.Ints on the indexes of the calls. *)

\* The number of elements up to x sorts a finite set of numbers: InOrder has
\* the increasing enumeration to choose, and it leaves no element out.
LEMMA InOrderSorts ==
  ASSUME NEW S \in SUBSET Nat, IsFiniteSet(S)
  PROVE  /\ Cardinality(S) \in Nat
         /\ InOrder(S) \in [1 .. Cardinality(S) -> S]
         /\ \A j, k \in 1 .. Cardinality(S) :
              j < k => InOrder(S)[j] < InOrder(S)[k]
         /\ \A x \in S : \E k \in 1 .. Cardinality(S) : InOrder(S)[k] = x
<1>1. PICK n \in Nat : n = Cardinality(S)
  BY FS_CardinalityType
<1>2. IsFiniteSet(1 .. n) /\ Cardinality(1 .. n) = n
  BY FS_Interval
<1> DEFINE below(x) == {y \in S : y <= x}
           rank     == [x \in S |-> Cardinality(below(x))]
<1>3. ASSUME NEW x \in S PROVE Cardinality(below(x)) \in 1 .. n
  <2>1. IsFiniteSet(below(x)) /\ Cardinality(below(x)) <= n
    BY <1>1, FS_Subset
  <2>2. x \in below(x)
    OBVIOUS
  <2>3. Cardinality(below(x)) \in Nat /\ Cardinality(below(x)) # 0
    BY <2>1, <2>2, FS_CardinalityType, FS_EmptySet
  <2> HIDE DEF below
  <2> QED
    BY <1>1, <2>1, <2>3
<1>4. ASSUME NEW x \in S, NEW y \in S, x < y
      PROVE  Cardinality(below(x)) < Cardinality(below(y))
  <2>1. below(x) \subseteq below(y) /\ y \in below(y) /\ y \notin below(x)
    <3>1. x \in Nat /\ y \in Nat /\ \A z \in S : z \in Nat
      OBVIOUS
    <3>2. \A z \in S : z <= x => z <= y
      BY <1>4, <3>1
    <3>3. y <= y /\ ~ (y <= x)
      BY <1>4, <3>1
    <3> QED
      BY <3>2, <3>3
  <2>2. IsFiniteSet(below(y))
    BY FS_Subset
  <2>3. /\ Cardinality(below(x)) <= Cardinality(below(y))
        /\ Cardinality(below(x)) # Cardinality(below(y))
    <3> HIDE DEF below
    <3> QED
      BY <2>1, <2>2, FS_Subset
  <2> HIDE DEF below
  <2> QED
    BY <1>1, <1>3, <2>3
<1> HIDE DEF below
<1>5. rank \in [S -> 1 .. n]
  BY <1>3
<1>6. \A x, y \in S : x < y => rank[x] < rank[y]
  BY <1>4
<1> HIDE DEF rank
<1>7. rank \in Injection(S, 1 .. n)
  <2>1. ASSUME NEW x \in S, NEW y \in S, rank[x] = rank[y] PROVE x = y
    <3>1. x \in Nat /\ y \in Nat /\ rank[x] \in Nat /\ rank[y] \in Nat
      BY <1>1, <1>5
    <3> QED
      BY <1>6, <2>1, <3>1
  <2> QED
    BY <1>5, <2>1 DEF Injection, IsInjective
<1>8. rank \in Surjection(S, 1 .. n)
  BY <1>1, <1>2, <1>7, FS_Injection
<1> DEFINE s == [k \in 1 .. n |-> CHOOSE x \in S : rank[x] = k]
<1>9. \A k \in 1 .. n : s[k] \in S /\ rank[s[k]] = k
  BY <1>8 DEF Surjection
<1>10. s \in [1 .. n -> S]
  BY <1>9
<1> HIDE DEF s
<1>11. ASSUME NEW j \in 1 .. n, NEW k \in 1 .. n, j < k PROVE s[j] < s[k]
  <2>1. s[j] \in S /\ s[k] \in S /\ rank[s[j]] = j /\ rank[s[k]] = k
    BY <1>9
  <2>2. s[j] \in Nat /\ s[k] \in Nat /\ j \in Int /\ k \in Int
    <3>1. s[j] \in Nat /\ s[k] \in Nat
      BY <2>1
    <3> QED
      BY <3>1
  <2>3. s[k] < s[j] => k < j
    BY <1>6, <2>1
  <2>4. s[k] = s[j] => k = j
    BY <2>1
  <2> QED
    BY <1>11, <2>2, <2>3, <2>4
<1>12. /\ InOrder(S) \in [1 .. n -> S]
       /\ \A j, k \in 1 .. n : j < k => InOrder(S)[j] < InOrder(S)[k]
  BY <1>1, <1>10, <1>11 DEF InOrder
<1>13. InOrder(S) \in Injection(1 .. n, S)
  <2>1. ASSUME NEW j \in 1 .. n, NEW k \in 1 .. n, InOrder(S)[j] = InOrder(S)[k]
        PROVE  j = k
    <3>1. InOrder(S)[j] \in S /\ InOrder(S)[k] \in S
      BY <1>12
    <3>2. InOrder(S)[j] \in Nat /\ InOrder(S)[k] \in Nat
      BY <3>1
    <3>3. j \in Int /\ k \in Int
      OBVIOUS
    <3> QED
      BY <1>12, <2>1, <3>2, <3>3
  <2> QED
    BY <1>12, <2>1 DEF Injection, IsInjective
<1>14. InOrder(S) \in Surjection(1 .. n, S)
  BY <1>1, <1>2, <1>13, FS_Injection
<1> QED
  BY <1>1, <1>12, <1>14 DEF Surjection

-------------------------------------------------------------------------------
(* Chunks and the accumulator. *)

LEMMA SingleChunks ==
  /\ Error \in ChunkType
  /\ \A finish \in Finishes : Content(finish) \in ChunkType
  /\ \A finish : Content(finish) # Error
BY DEF Error, Content, ChunkType, Finishes

\* Complete hands out one error, or every call of the accumulator.
LEMMA CompletedCalls ==
  ASSUME NEW read, NEW n \in Nat, n <= MaxEvents,
         NEW buffer, DOMAIN buffer \subseteq Indexes,
         \A i \in DOMAIN buffer : buffer[i] \in Seq(1 .. n)
  PROVE  Completed(read, buffer) = <<Error>> \/ Batch(Completed(read, buffer), buffer)
<1>1. DOMAIN buffer \in SUBSET Nat /\ IsFiniteSet(DOMAIN buffer)
  BY StreamAssumption, FS_Subset
<1>2. PICK size \in Nat : size = Cardinality(DOMAIN buffer)
  BY <1>1, InOrderSorts
<1>3. PICK order \in [1 .. size -> DOMAIN buffer] :
        /\ order = InOrder(DOMAIN buffer)
        /\ \A j, k \in 1 .. size : j < k => order[j] < order[k]
        /\ \A i \in DOMAIN buffer : \E k \in 1 .. size : order[k] = i
  BY <1>1, <1>2, InOrderSorts
<1> DEFINE list == [k \in 1 .. size |-> ToolCall(order[k], buffer[order[k]])]
<1>4. ASSUME NEW k \in 1 .. size
      PROVE  /\ list[k] \in ChunkType
             /\ list[k].index = order[k]
             /\ list[k] = ToolCall(order[k], buffer[order[k]])
  <2>1. order[k] \in DOMAIN buffer /\ order[k] \in Indexes
    OBVIOUS
  <2>2. 1 .. n \subseteq 1 .. MaxEvents
    BY StreamAssumption
  <2>3. buffer[order[k]] \in Seq(1 .. n)
    BY <2>1
  <2>4. buffer[order[k]] \in Seq(1 .. MaxEvents)
    BY <2>2, <2>3, SeqMonotonic
  <2> QED
    BY <2>1, <2>4 DEF ToolCall, ChunkType, Finishes
<1>5. list \in Seq(ChunkType) /\ Len(list) = size
  <2>1. list \in [1 .. size -> ChunkType]
    BY <1>4
  <2> QED
    BY <1>2, <2>1
<1> HIDE DEF list
<1>6. Batch(list, buffer)
  <2>1. \A k \in 1 .. size : /\ list[k].index \in DOMAIN buffer
                            /\ list[k] = ToolCall(list[k].index, buffer[list[k].index])
    BY <1>4
  <2>2. \A j, k \in 1 .. size : j < k => list[j].index < list[k].index
    BY <1>3, <1>4
  <2>3. \A i \in DOMAIN buffer : \E k \in 1 .. size : list[k].index = i
    BY <1>3, <1>4
  <2> QED
    BY <1>5, <2>1, <2>2, <2>3 DEF Batch
<1>7. Completed(read, buffer) = list \/ Completed(read, buffer) = <<Error>>
  BY <1>2, <1>3 DEF Completed, list
<1> QED
  BY <1>6, <1>7

LEMMA OneMore ==
  ASSUME NEW n \in Nat, NEW s \in Seq(1 .. n)
  PROVE  /\ s \o <<n + 1>> \in Seq(1 .. n + 1) \ {<<>>}
         /\ Values(s \o <<n + 1>>) = Values(s) \cup {n + 1}
         /\ Ascending(s) => Ascending(s \o <<n + 1>>)
<1> DEFINE t == s \o <<n + 1>>
<1>1. PICK len \in Nat : len = Len(s)
  BY LenProperties
<1>2. \A m \in 1 .. len : s[m] \in 1 .. n
  BY <1>1
<1>3. Len(t) = len + 1 /\ t[len + 1] = n + 1 /\ \A m \in 1 .. len : t[m] = s[m]
  BY <1>1
<1>4. t \in Seq(1 .. n + 1) /\ t # <<>>
  <2>1. s \in Seq(1 .. n + 1)
    BY SeqMonotonic
  <2>2. t \in Seq(1 .. n + 1)
    BY <2>1
  <2> QED
    BY <1>3, <2>2
<1> HIDE DEF t
<1>5. Values(t) = Values(s) \cup {n + 1}
  <2>1. 1 .. len + 1 = (1 .. len) \cup {len + 1}
    BY <1>1
  <2> QED
    BY <1>1, <1>3, <2>1 DEF Values
<1>6. ASSUME Ascending(s), NEW l \in 1 .. len + 1, NEW m \in 1 .. len + 1, l < m
      PROVE  t[l] < t[m]
  <2>1. l \in 1 .. len
    BY <1>1, <1>6
  <2>2. CASE m = len + 1
    BY <1>2, <1>3, <2>1, <2>2
  <2>3. CASE m \in 1 .. len
    BY <1>1, <1>3, <1>6, <2>1, <2>3 DEF Ascending
  <2> QED
    BY <1>1, <2>2, <2>3
<1>7. Ascending(s) => Ascending(t)
  BY <1>3, <1>6 DEF Ascending
<1> QED
  BY <1>4, <1>5, <1>7 DEF t

\* toolCallAccumulator.Add puts the new event's number last, where its index
\* has a fragment, and leaves the other buffers alone.
LEMMA AddedFragments ==
  ASSUME NEW n \in Nat, NEW deltas, NEW buffer,
         \A i \in DOMAIN buffer : buffer[i] \in Seq(1 .. n) \ {<<>>}
  PROVE  /\ DOMAIN Add(buffer, n + 1, deltas) = DOMAIN buffer \cup DOMAIN deltas
         /\ \A i \in DOMAIN buffer \cup DOMAIN deltas :
              Add(buffer, n + 1, deltas)[i] \in Seq(1 .. n + 1) \ {<<>>}
         /\ \A i \in DOMAIN buffer \cup DOMAIN deltas :
              Values(Add(buffer, n + 1, deltas)[i])
                = Buffered(buffer, i) \cup (IF i \in DOMAIN deltas THEN {n + 1} ELSE {})
         /\ \A i \in DOMAIN buffer \cup DOMAIN deltas :
              (i \in DOMAIN buffer => Ascending(buffer[i]))
                => Ascending(Add(buffer, n + 1, deltas)[i])
<1> DEFINE added == Add(buffer, n + 1, deltas)
<1>1. DOMAIN added = DOMAIN buffer \cup DOMAIN deltas
  BY DEF Add
<1>2. ASSUME NEW i \in DOMAIN buffer \cup DOMAIN deltas
      PROVE  /\ added[i] \in Seq(1 .. n + 1) \ {<<>>}
             /\ Values(added[i]) = Buffered(buffer, i)
                                     \cup (IF i \in DOMAIN deltas THEN {n + 1} ELSE {})
             /\ (i \in DOMAIN buffer => Ascending(buffer[i])) => Ascending(added[i])
  <2>1. CASE i \in DOMAIN buffer /\ i \in DOMAIN deltas
    <3>1. added[i] = buffer[i] \o <<n + 1>>
      BY <2>1 DEF Add
    <3> QED
      BY <2>1, <3>1, OneMore DEF Buffered
  <2>2. CASE i \in DOMAIN buffer /\ i \notin DOMAIN deltas
    <3>1. added[i] = buffer[i]
      BY <2>2 DEF Add
    <3>2. 1 .. n \subseteq 1 .. n + 1
      OBVIOUS
    <3>3. buffer[i] \in Seq(1 .. n + 1) \ {<<>>}
      BY <2>2, <3>2, SeqMonotonic
    <3> QED
      BY <2>2, <3>1, <3>3 DEF Buffered
  <2>3. CASE i \notin DOMAIN buffer
    <3>1. added[i] = <<>> \o <<n + 1>> /\ i \in DOMAIN deltas
      BY <2>3 DEF Add
    <3>2. <<>> \in Seq(1 .. n) /\ Values(<<>>) = {} /\ Ascending(<<>>)
      BY DEF Values, Ascending
    <3> QED
      BY <2>3, <3>1, <3>2, OneMore DEF Buffered
  <2> QED
    BY <2>1, <2>2, <2>3
<1> HIDE DEF added
<1> QED
  BY <1>1, <1>2 DEF added

-------------------------------------------------------------------------------
(* Where the fragments are. *)

LEMMA SentMore ==
  ASSUME NEW read \in Seq(Events), NEW event \in Events, NEW i
  PROVE  Sent(Append(read, event), i)
           = Sent(read, i) \cup (IF i \in DOMAIN event.deltas THEN {Len(read) + 1} ELSE {})
<1>1. PICK len \in Nat : len = Len(read)
  BY LenProperties
<1> DEFINE more == Append(read, event)
<1>2. /\ Len(more) = len + 1 /\ more[len + 1] = event
      /\ \A n \in 1 .. len : more[n] = read[n]
  BY <1>1, AppendProperties
<1>3. 1 .. len + 1 = (1 .. len) \cup {len + 1} /\ len + 1 \notin 1 .. len
  BY <1>1
<1> HIDE DEF more
<1>4. Sent(more, i) = Sent(read, i)
                        \cup (IF i \in DOMAIN event.deltas THEN {len + 1} ELSE {})
  BY <1>1, <1>2, <1>3 DEF Sent
<1> QED
  BY <1>1, <1>4 DEF more

\* A new event's fragments are in the buffers and nowhere else.
LEMMA KeptAfterAdd ==
  ASSUME NEW read \in Seq(Events), NEW event \in Events, NEW produced, NEW buffer,
         \A i \in DOMAIN buffer : buffer[i] \in Seq(1 .. Len(read)) \ {<<>>},
         Kept(read, produced, buffer)
  PROVE  Kept(Append(read, event), produced, Add(buffer, Len(read) + 1, event.deltas))
<1>1. PICK len \in Nat : len = Len(read)
  BY LenProperties
<1> DEFINE more  == Append(read, event)
           added == Add(buffer, len + 1, event.deltas)
           new(i) == IF i \in DOMAIN event.deltas THEN {len + 1} ELSE {}
<1>2. \A i : Sent(more, i) = Sent(read, i) \cup new(i)
  BY <1>1, SentMore
<1>3. \A i : Buffered(added, i) = Buffered(buffer, i) \cup new(i)
  <2>1. \A i \in DOMAIN buffer : buffer[i] \in Seq(1 .. len) \ {<<>>}
    BY <1>1
  <2>2. /\ DOMAIN added = DOMAIN buffer \cup DOMAIN event.deltas
        /\ \A i \in DOMAIN buffer \cup DOMAIN event.deltas :
             Values(added[i]) = Buffered(buffer, i) \cup new(i)
    BY <2>1, AddedFragments
  <2> HIDE DEF added
  <2> QED
    BY <2>2 DEF Buffered
<1>4. \A i : Sent(read, i) \cap new(i) = {}
  BY <1>1 DEF Sent
<1>5. /\ DOMAIN added = DOMAIN buffer \cup DOMAIN event.deltas
      /\ \A i \in DOMAIN added :
           (i \in DOMAIN buffer => Ascending(buffer[i])) => Ascending(added[i])
  <2>1. DOMAIN added = DOMAIN buffer \cup DOMAIN event.deltas
    BY <1>1, AddedFragments
  <2>2. \A i \in DOMAIN buffer \cup DOMAIN event.deltas :
          (i \in DOMAIN buffer => Ascending(buffer[i])) => Ascending(added[i])
    BY <1>1, AddedFragments
  <2> HIDE DEF added
  <2> QED
    BY <2>1, <2>2
<1> HIDE DEF more, added, new
<1>6. ASSUME NEW i \in Indexes
      PROVE  /\ \A k \in Mine(produced, i) : Values(produced[k].args) \subseteq Sent(more, i)
             /\ Buffered(added, i) \subseteq Sent(more, i)
             /\ \A n \in Sent(more, i) :
                  n \in Buffered(added, i)
                    \/ \E k \in Mine(produced, i) : n \in Values(produced[k].args)
             /\ \A k \in Mine(produced, i) :
                  Values(produced[k].args) \cap Buffered(added, i) = {}
             /\ \A j, k \in Mine(produced, i) :
                  j # k => Values(produced[j].args) \cap Values(produced[k].args) = {}
             /\ \A k \in Mine(produced, i) : Ascending(produced[k].args)
             /\ i \in DOMAIN added => Ascending(added[i])
  <2>1. /\ \A k \in Mine(produced, i) : Values(produced[k].args) \subseteq Sent(read, i)
        /\ Buffered(buffer, i) \subseteq Sent(read, i)
        /\ \A n \in Sent(read, i) :
             n \in Buffered(buffer, i)
               \/ \E k \in Mine(produced, i) : n \in Values(produced[k].args)
        /\ \A k \in Mine(produced, i) :
             Values(produced[k].args) \cap Buffered(buffer, i) = {}
        /\ \A j, k \in Mine(produced, i) :
             j # k => Values(produced[j].args) \cap Values(produced[k].args) = {}
        /\ \A k \in Mine(produced, i) : Ascending(produced[k].args)
        /\ i \in DOMAIN buffer => Ascending(buffer[i])
    BY DEF Kept
  <2>2. /\ Sent(more, i) = Sent(read, i) \cup new(i)
        /\ Buffered(added, i) = Buffered(buffer, i) \cup new(i)
        /\ Sent(read, i) \cap new(i) = {}
    BY <1>2, <1>3, <1>4
  <2> QED
    BY <1>5, <2>1, <2>2
<1> QED
  BY <1>1, <1>6 DEF Kept, more, added

\* Chunks that are no tool calls take no fragment anywhere.
LEMMA KeptAfterOthers ==
  ASSUME NEW read, NEW buffer,
         NEW produced \in Seq(ChunkType), NEW list \in Seq(ChunkType),
         \A k \in 1 .. Len(list) : list[k].kind # "tool",
         Kept(read, produced, buffer)
  PROVE  Kept(read, produced \o list, buffer)
<1>1. PICK len \in Nat : len = Len(produced)
  BY LenProperties
<1>2. PICK size \in Nat : size = Len(list)
  BY LenProperties
<1> DEFINE all == produced \o list
<1>3. /\ Len(all) = len + size
      /\ \A k \in 1 .. len + size :
           all[k] = IF k <= len THEN produced[k] ELSE list[k - len]
  BY <1>1, <1>2, ConcatProperties
<1> HIDE DEF all
<1>4. ASSUME NEW i
      PROVE  /\ Mine(all, i) = Mine(produced, i)
             /\ \A k \in Mine(all, i) : all[k] = produced[k]
  <2>1. \A k \in 1 .. len : k \in 1 .. len + size /\ all[k] = produced[k]
    BY <1>1, <1>2, <1>3
  <2>2. ASSUME NEW k \in 1 .. len + size, k \notin 1 .. len
        PROVE  all[k].kind # "tool"
    <3>1. k - len \in 1 .. size /\ ~ (k <= len)
      BY <1>1, <1>2, <2>2
    <3>2. all[k] = list[k - len]
      BY <1>3, <3>1
    <3> QED
      BY <1>2, <3>1, <3>2
  <2> QED
    BY <1>1, <1>3, <2>1, <2>2 DEF Mine
<1>5. \A i : /\ Mine(all, i) = Mine(produced, i)
             /\ \A k \in Mine(produced, i) : all[k] = produced[k]
  BY <1>4
<1>6. Kept(read, all, buffer)
  <2> SUFFICES ASSUME NEW i \in Indexes
               PROVE  /\ \A k \in Mine(produced, i) : Values(all[k].args) \subseteq Sent(read, i)
                      /\ Buffered(buffer, i) \subseteq Sent(read, i)
                      /\ \A n \in Sent(read, i) :
                           n \in Buffered(buffer, i)
                             \/ \E k \in Mine(produced, i) : n \in Values(all[k].args)
                      /\ \A k \in Mine(produced, i) :
                           Values(all[k].args) \cap Buffered(buffer, i) = {}
                      /\ \A j, k \in Mine(produced, i) :
                           j # k => Values(all[j].args) \cap Values(all[k].args) = {}
                      /\ \A k \in Mine(produced, i) : Ascending(all[k].args)
                      /\ i \in DOMAIN buffer => Ascending(buffer[i])
    BY <1>5 DEF Kept
  <2> QED
    BY <1>5 DEF Kept
<1> QED
  BY <1>6 DEF all

\* A batch takes the fragments of every index out of the buffers, into the one
\* chunk that it has for it.
LEMMA KeptAfterBatch ==
  ASSUME NEW read, NEW buffer, DOMAIN buffer \subseteq Indexes,
         NEW produced \in Seq(ChunkType), NEW list, Batch(list, buffer),
         Kept(read, produced, buffer)
  PROVE  Kept(read, produced \o list, NoCalls)
<1>1. PICK len \in Nat : len = Len(produced)
  BY LenProperties
<1>2. PICK size \in Nat : size = Len(list)
  BY LenProperties DEF Batch
<1> DEFINE all == produced \o list
<1>3. /\ Len(all) = len + size
      /\ \A k \in 1 .. len + size :
           all[k] = IF k <= len THEN produced[k] ELSE list[k - len]
  BY <1>1, <1>2, ConcatProperties DEF Batch
<1>4. /\ \A k \in 1 .. size :
           /\ list[k].index \in DOMAIN buffer
           /\ list[k].kind = "tool" /\ list[k].args = buffer[list[k].index]
      /\ \A j, k \in 1 .. size : j < k => list[j].index < list[k].index
      /\ \A i \in DOMAIN buffer : \E k \in 1 .. size : list[k].index = i
  <2>1. \A i, args : ToolCall(i, args).kind = "tool" /\ ToolCall(i, args).args = args
    BY DEF ToolCall
  <2> QED
    BY <1>2, <2>1 DEF Batch
<1> HIDE DEF all
<1>5. /\ \A k \in 1 .. len : k \in 1 .. len + size /\ all[k] = produced[k]
      /\ \A k \in 1 .. size : /\ len + k \in 1 .. len + size /\ len + k \notin 1 .. len
                              /\ all[len + k] = list[k]
      /\ \A k \in 1 .. len + size :
           k \in 1 .. len \/ (k - len \in 1 .. size /\ len + (k - len) = k)
  BY <1>1, <1>2, <1>3
<1>6. \A j, k \in 1 .. size : list[j].index = list[k].index => j = k
  <2>1. DOMAIN buffer \subseteq Int
    BY StreamAssumption
  <2> SUFFICES ASSUME NEW j \in 1 .. size, NEW k \in 1 .. size,
                      list[j].index = list[k].index
               PROVE  j = k
    OBVIOUS
  <2>2. list[j].index \in Int /\ list[k].index \in Int
    BY <1>4, <2>1
  <2>3. j \in Int /\ k \in Int
    OBVIOUS
  <2>4. ~ (j < k) /\ ~ (k < j)
    BY <1>4, <2>2
  <2> QED
    BY <2>3, <2>4
<1>7. ASSUME NEW i \in Indexes
      PROVE  /\ Mine(produced, i) \subseteq Mine(all, i)
             /\ \A k \in Mine(produced, i) : all[k] = produced[k]
             /\ \A k \in Mine(all, i) \ Mine(produced, i) :
                  i \in DOMAIN buffer /\ all[k].args = buffer[i]
             /\ \A j, k \in Mine(all, i) \ Mine(produced, i) : j = k
             /\ i \in DOMAIN buffer =>
                  \E k \in Mine(all, i) : all[k].args = buffer[i]
  <2>1. Mine(produced, i) \subseteq 1 .. len
    BY <1>1 DEF Mine
  <2>2. Mine(produced, i) = Mine(all, i) \cap (1 .. len)
    BY <1>1, <1>3, <1>5 DEF Mine
  <2>3. \A k \in Mine(all, i) \ (1 .. len) :
          /\ k - len \in 1 .. size /\ len + (k - len) = k
          /\ all[k] = list[k - len] /\ list[k - len].index = i
    BY <1>3, <1>5 DEF Mine
  <2>4. ASSUME NEW j \in Mine(all, i) \ (1 .. len), NEW k \in Mine(all, i) \ (1 .. len)
        PROVE  j = k
    <3>1. j - len \in 1 .. size /\ k - len \in 1 .. size
      BY <2>3
    <3>2. list[j - len].index = list[k - len].index
      BY <2>3
    <3>3. j - len = k - len
      BY <1>6, <3>1, <3>2
    <3> QED
      BY <2>3, <3>3
  <2>5. ASSUME i \in DOMAIN buffer
        PROVE  \E k \in Mine(all, i) : all[k].args = buffer[i]
    <3>1. PICK k \in 1 .. size : list[k].index = i
      BY <1>4, <2>5
    <3>2. len + k \in Mine(all, i) /\ all[len + k].args = buffer[i]
      BY <1>3, <1>4, <1>5, <3>1 DEF Mine
    <3> QED
      BY <3>2
  <2>6. Mine(all, i) \ Mine(produced, i) = Mine(all, i) \ (1 .. len)
    BY <2>2
  <2>7. \A k \in Mine(all, i) \ (1 .. len) : i \in DOMAIN buffer /\ all[k].args = buffer[i]
    BY <1>4, <2>3
  <2>8. \A k \in Mine(produced, i) : all[k] = produced[k]
    BY <1>5, <2>1
  <2> QED
    BY <2>2, <2>4, <2>5, <2>6, <2>7, <2>8
<1>8. ASSUME NEW i \in Indexes
      PROVE  /\ \A k \in Mine(all, i) : Values(all[k].args) \subseteq Sent(read, i)
             /\ \A n \in Sent(read, i) : \E k \in Mine(all, i) : n \in Values(all[k].args)
             /\ \A j, k \in Mine(all, i) :
                  j # k => Values(all[j].args) \cap Values(all[k].args) = {}
             /\ \A k \in Mine(all, i) : Ascending(all[k].args)
  <2>1. /\ \A k \in Mine(produced, i) : Values(produced[k].args) \subseteq Sent(read, i)
        /\ Buffered(buffer, i) \subseteq Sent(read, i)
        /\ \A n \in Sent(read, i) :
             n \in Buffered(buffer, i)
               \/ \E k \in Mine(produced, i) : n \in Values(produced[k].args)
        /\ \A k \in Mine(produced, i) :
             Values(produced[k].args) \cap Buffered(buffer, i) = {}
        /\ \A j, k \in Mine(produced, i) :
             j # k => Values(produced[j].args) \cap Values(produced[k].args) = {}
        /\ \A k \in Mine(produced, i) : Ascending(produced[k].args)
        /\ i \in DOMAIN buffer => Ascending(buffer[i])
    BY DEF Kept
  <2>2. i \in DOMAIN buffer => Buffered(buffer, i) = Values(buffer[i])
    BY DEF Buffered
  <2>3. i \notin DOMAIN buffer => Buffered(buffer, i) = {}
    BY DEF Buffered
  <2>4. \A k \in Mine(all, i) : Values(all[k].args) \subseteq Sent(read, i)
    BY <1>7, <2>1, <2>2
  <2>5. \A n \in Sent(read, i) : \E k \in Mine(all, i) : n \in Values(all[k].args)
    BY <1>7, <2>1, <2>2, <2>3
  <2>6. ASSUME NEW j \in Mine(all, i), NEW k \in Mine(all, i), j # k
        PROVE  Values(all[j].args) \cap Values(all[k].args) = {}
    <3>1. CASE j \in Mine(produced, i) /\ k \in Mine(produced, i)
      BY <1>7, <2>1, <2>6, <3>1
    <3>2. CASE j \in Mine(produced, i) /\ k \notin Mine(produced, i)
      BY <1>7, <2>1, <2>2, <3>2
    <3>3. CASE j \notin Mine(produced, i) /\ k \in Mine(produced, i)
      BY <1>7, <2>1, <2>2, <3>3
    <3>4. CASE j \notin Mine(produced, i) /\ k \notin Mine(produced, i)
      BY <1>7, <2>6, <3>4
    <3> QED
      BY <3>1, <3>2, <3>3, <3>4
  <2>7. \A k \in Mine(all, i) : Ascending(all[k].args)
    BY <1>7, <2>1
  <2> QED
    BY <2>4, <2>5, <2>6, <2>7
<1>9. DOMAIN NoCalls = {} /\ \A i : Buffered(NoCalls, i) = {}
  BY DEF NoCalls, Buffered
<1>10. Kept(read, all, NoCalls)
  BY <1>8, <1>9 DEF Kept
<1> QED
  BY <1>10 DEF all

-------------------------------------------------------------------------------
(* The order of the chunks. *)

LEMMA FollowAfterConcat ==
  ASSUME NEW produced \in Seq(ChunkType), NEW list \in Seq(ChunkType),
         CallsFollow(produced), CallsFollow(list)
  PROVE  CallsFollow(produced \o list)
<1>1. PICK len \in Nat : len = Len(produced)
  BY LenProperties
<1>2. PICK size \in Nat : size = Len(list)
  BY LenProperties
<1> DEFINE all == produced \o list
<1>3. /\ Len(all) = len + size
      /\ \A k \in 1 .. len + size :
           all[k] = IF k <= len THEN produced[k] ELSE list[k - len]
  BY <1>1, <1>2, ConcatProperties
<1> HIDE DEF all
<1>4. ASSUME NEW k \in 1 .. len + size, all[k].kind = "tool"
      PROVE  /\ k > 1
             /\ \/ all[k - 1].finish = "tool_calls"
                \/ all[k - 1].kind = "tool" /\ all[k - 1].index < all[k].index
  <2>1. CASE k <= len
    <3>1. k \in 1 .. len /\ all[k] = produced[k]
      BY <1>1, <1>3, <2>1
    <3>2. /\ k > 1
          /\ \/ produced[k - 1].finish = "tool_calls"
             \/ produced[k - 1].kind = "tool" /\ produced[k - 1].index < produced[k].index
      BY <1>1, <1>4, <3>1 DEF CallsFollow
    <3>3. k - 1 \in 1 .. len + size /\ k - 1 <= len
      BY <1>1, <1>2, <2>1, <3>2
    <3>4. all[k - 1] = produced[k - 1]
      BY <1>3, <3>3
    <3> QED
      BY <3>1, <3>2, <3>4
  <2>2. CASE ~ (k <= len)
    <3>1. k - len \in 1 .. size /\ all[k] = list[k - len]
      BY <1>1, <1>2, <1>3, <2>2
    <3>2. /\ k - len > 1
          /\ \/ list[k - len - 1].finish = "tool_calls"
             \/ /\ list[k - len - 1].kind = "tool"
                /\ list[k - len - 1].index < list[k - len].index
      BY <1>2, <1>4, <3>1 DEF CallsFollow
    <3>3. /\ k > 1 /\ k - 1 \in 1 .. len + size /\ ~ (k - 1 <= len)
          /\ k - 1 - len = k - len - 1
      BY <1>1, <1>2, <2>2, <3>2
    <3>4. all[k - 1] = list[k - len - 1]
      BY <1>3, <3>3
    <3> QED
      BY <3>1, <3>2, <3>3, <3>4
  <2> QED
    BY <2>1, <2>2
<1>5. CallsFollow(all)
  BY <1>3, <1>4 DEF CallsFollow
<1> QED
  BY <1>5 DEF all

LEMMA ErrorAfterConcat ==
  ASSUME NEW produced \in Seq(ChunkType), NEW list \in Seq(ChunkType),
         \A k \in 1 .. Len(produced) : produced[k] # Error, ErrorOnlyLast(list)
  PROVE  /\ ErrorOnlyLast(produced \o list)
         /\ \A k \in 1 .. Len(produced \o list) : (produced \o list)[k] = Error => list # <<>>
<1>1. PICK len \in Nat : len = Len(produced)
  BY LenProperties
<1>2. PICK size \in Nat : size = Len(list)
  BY LenProperties
<1> DEFINE all == produced \o list
<1>3. /\ Len(all) = len + size
      /\ \A k \in 1 .. len + size :
           all[k] = IF k <= len THEN produced[k] ELSE list[k - len]
  BY <1>1, <1>2, ConcatProperties
<1> HIDE DEF all
<1>4. ASSUME NEW k \in 1 .. len + size, all[k] = Error
      PROVE  k = len + size /\ list # <<>>
  <2>1. ~ (k <= len)
    <3>1. k <= len => k \in 1 .. len /\ all[k] = produced[k]
      BY <1>1, <1>3
    <3> QED
      BY <1>1, <1>4, <3>1
  <2>2. k - len \in 1 .. size /\ list[k - len] = Error
    BY <1>1, <1>2, <1>3, <1>4, <2>1
  <2>3. k - len = size
    BY <1>2, <2>2 DEF ErrorOnlyLast
  <2>4. list # <<>>
    BY <1>2, <2>2
  <2> QED
    BY <1>1, <1>2, <2>3, <2>4
<1> QED
  BY <1>3, <1>4 DEF ErrorOnlyLast, all

\* What one event sends: its content, then nothing, an error or the calls that
\* it completed.
LEMMA EventChunks ==
  ASSUME NEW finish \in Finishes, NEW list, NEW buffer,
         \/ list = <<>> \/ list = <<Error>>
         \/ finish = "tool_calls" /\ Batch(list, buffer)
  PROVE  /\ list \in Seq(ChunkType)
         /\ <<Content(finish)>> \o list \in Seq(ChunkType) \ {<<>>}
         /\ CallsFollow(<<Content(finish)>> \o list)
         /\ ErrorOnlyLast(<<Content(finish)>> \o list)
<1>1. list \in Seq(ChunkType)
  <2>1. <<>> \in Seq(ChunkType) /\ <<Error>> \in Seq(ChunkType)
    BY SingleChunks
  <2> QED
    BY <2>1 DEF Batch
<1>2. PICK size \in Nat : size = Len(list)
  BY <1>1, LenProperties
<1>3. PICK first : first = Content(finish)
  OBVIOUS
<1>4. /\ first \in ChunkType /\ first.kind = "content" /\ first.finish = finish
      /\ first # Error
  BY <1>3, SingleChunks DEF Content
<1> DEFINE all == <<first>> \o list
<1>5. /\ all \in Seq(ChunkType) /\ all # <<>>
      /\ Len(all) = size + 1 /\ all[1] = first
      /\ \A k \in 1 .. size : k + 1 \in 1 .. size + 1 /\ all[k + 1] = list[k]
  BY <1>1, <1>2, <1>4
<1>6. \A k \in 1 .. size + 1 : k = 1 \/ (k - 1 \in 1 .. size /\ (k - 1) + 1 = k)
  BY <1>2
<1> HIDE DEF all
<1>7. CallsFollow(all) /\ ErrorOnlyLast(all)
  <2>1. CASE list = <<>>
    <3>1. size = 0
      BY <1>2, <2>1
    <3>2. \A k \in 1 .. Len(all) : k = 1
      BY <1>5, <3>1
    <3> QED
      BY <1>4, <1>5, <3>2 DEF CallsFollow, ErrorOnlyLast
  <2>2. CASE list = <<Error>>
    <3>1. size = 1 /\ list[1] = Error
      BY <1>2, <2>2
    <3>2. Len(all) = 2 /\ all[1] = first /\ all[2] = Error
      BY <1>5, <3>1
    <3>3. \A k \in 1 .. 2 : k = 1 \/ k = 2
      OBVIOUS
    <3>4. Error.kind # "tool"
      BY DEF Error
    <3> QED
      BY <1>4, <3>2, <3>3, <3>4 DEF CallsFollow, ErrorOnlyLast
  <2>3. CASE finish = "tool_calls" /\ Batch(list, buffer)
    <3>1. ASSUME NEW k \in 1 .. size PROVE list[k].kind = "tool" /\ list[k] # Error
      <4>1. list[k] = ToolCall(list[k].index, buffer[list[k].index])
        BY <1>2, <2>3 DEF Batch
      <4>2. \A i, args : ToolCall(i, args).kind = "tool"
        BY DEF ToolCall
      <4>3. list[k].kind = "tool"
        BY <4>1, <4>2
      <4> QED
        BY <4>3 DEF Error
    <3>2. \A j, k \in 1 .. size : j < k => list[j].index < list[k].index
      BY <1>2, <2>3 DEF Batch
    <3>3. ASSUME NEW k \in 1 .. size + 1 PROVE all[k] # Error
      <4>1. CASE k = 1
        BY <1>4, <1>5, <4>1
      <4>2. CASE k - 1 \in 1 .. size /\ (k - 1) + 1 = k
        <5>1. all[k] = list[k - 1]
          BY <1>5, <4>2
        <5> QED
          BY <3>1, <4>2, <5>1
      <4> QED
        BY <1>6, <4>1, <4>2
    <3>4. ASSUME NEW k \in 1 .. size + 1, all[k].kind = "tool"
          PROVE  /\ k > 1
                 /\ \/ all[k - 1].finish = "tool_calls"
                    \/ all[k - 1].kind = "tool" /\ all[k - 1].index < all[k].index
      <4>1. k - 1 \in 1 .. size /\ (k - 1) + 1 = k /\ k > 1
        BY <1>4, <1>5, <1>6, <3>4
      <4>2. all[k] = list[k - 1]
        BY <1>5, <4>1
      <4>3. CASE k = 2
        BY <1>4, <1>5, <2>3, <4>1, <4>3
      <4>4. CASE k # 2
        <5>1. k - 2 \in 1 .. size /\ (k - 2) + 1 = k - 1 /\ k - 2 < k - 1
          BY <1>2, <4>1, <4>4
        <5>2. all[k - 1] = list[k - 2]
          BY <1>5, <5>1
        <5>3. list[k - 2].index < list[k - 1].index
          BY <3>2, <4>1, <5>1
        <5> QED
          BY <3>1, <4>1, <4>2, <5>1, <5>2, <5>3
      <4> QED
        BY <4>3, <4>4
    <3> QED
      BY <1>5, <3>3, <3>4 DEF CallsFollow, ErrorOnlyLast
  <2> QED
    BY <2>1, <2>2, <2>3
<1> QED
  BY <1>1, <1>3, <1>5, <1>7 DEF all

-------------------------------------------------------------------------------
(* The chunks a step produces. *)

LEMMA ProducedType ==
  ASSUME ReaderTypeOK
  PROVE  /\ Produced \in Seq(ChunkType)
         /\ Produced = received \o (chunks \o outbox)
         /\ outbox = <<>> => Produced = received \o chunks
         /\ outbox # <<>> => Produced # <<>> /\ Produced[Len(Produced)] = outbox[Len(outbox)]
<1>1. received \in Seq(ChunkType) /\ chunks \in Seq(ChunkType) /\ outbox \in Seq(ChunkType)
  BY DEF ReaderTypeOK
<1>2. Produced = received \o (chunks \o outbox)
  BY <1>1, ConcatAssociative DEF Produced
<1> DEFINE before == received \o chunks
<1>3. before \in Seq(ChunkType) /\ Produced = before \o outbox
  BY <1>1 DEF Produced
<1>4. outbox = <<>> => Produced = before
  BY <1>3, ConcatEmptySeq
<1> HIDE DEF before
<1>5. PICK len \in Nat : len = Len(before)
  BY <1>3, LenProperties
<1>6. PICK size \in Nat : size = Len(outbox)
  BY <1>1, LenProperties
<1>7. ASSUME outbox # <<>>
      PROVE  Produced # <<>> /\ Produced[Len(Produced)] = outbox[Len(outbox)]
  <2>1. size # 0
    BY <1>1, <1>6, <1>7, EmptySeq
  <2>2. /\ Len(Produced) = len + size
        /\ Produced[len + size] = outbox[len + size - len]
    BY <1>1, <1>3, <1>5, <1>6, <2>1, ConcatProperties
  <2>3. len + size - len = size /\ len + size # 0
    BY <1>5, <1>6, <2>1
  <2> QED
    BY <1>6, <2>2, <2>3
<1> QED
  BY <1>1, <1>2, <1>3, <1>4, <1>7, ConcatProperties DEF before

\* A read appends what it has to send.
LEMMA ReadProduces ==
  ASSUME ReaderTypeOK, outbox = <<>>, UNCHANGED <<chunks, received>>,
         outbox' \in Seq(ChunkType)
  PROVE  Produced' = Produced \o outbox'
<1>1. Produced = received \o chunks
  BY ProducedType
<1> QED
  BY <1>1 DEF Produced

\* Sending and receiving only hand chunks on.
LEMMA SendProducesNothing ==
  ASSUME ReaderTypeOK, Send
  PROVE  Produced' = Produced
<1>1. /\ outbox \in Seq(ChunkType) /\ outbox # <<>> /\ received \in Seq(ChunkType)
      /\ chunks = <<>> /\ chunks' = <<Head(outbox)>> /\ outbox' = Tail(outbox)
      /\ received' = received
  BY DEF Send, ReaderTypeOK
<1>2. Head(outbox) \in ChunkType /\ Tail(outbox) \in Seq(ChunkType)
  BY <1>1, HeadTailProperties
<1>3. <<Head(outbox)>> \in Seq(ChunkType) /\ <<Head(outbox)>> \o Tail(outbox) = outbox
  BY <1>1, <1>2
<1>4. Produced = received \o outbox
  BY <1>1, ConcatEmptySeq DEF Produced
<1>5. (received \o <<Head(outbox)>>) \o Tail(outbox)
        = received \o (<<Head(outbox)>> \o Tail(outbox))
  BY <1>1, <1>2, <1>3, ConcatAssociative
<1> QED
  BY <1>1, <1>3, <1>4, <1>5 DEF Produced

LEMMA ReceiveProducesNothing ==
  ASSUME ReaderTypeOK, Receive
  PROVE  Produced' = Produced
<1>1. /\ chunks \in Seq(ChunkType) /\ chunks # <<>> /\ Len(chunks) <= 1
      /\ received \in Seq(ChunkType)
      /\ received' = Append(received, Head(chunks)) /\ chunks' = Tail(chunks)
      /\ outbox' = outbox
  BY DEF Receive, ReaderTypeOK
<1>2. /\ Head(chunks) \in ChunkType /\ Len(chunks) = 1 /\ Tail(chunks) = <<>>
      /\ chunks = <<Head(chunks)>>
  <2>1. PICK n \in Nat : n = Len(chunks) /\ n # 0 /\ n <= 1
    BY <1>1, LenProperties, EmptySeq
  <2>2. Len(chunks) = 1
    BY <2>1
  <2>3. Head(chunks) = chunks[1] /\ Head(chunks) \in ChunkType
    BY <1>1, <2>2
  <2>4. Tail(chunks) \in Seq(ChunkType) /\ Len(Tail(chunks)) = 0
    BY <1>1, <2>2, HeadTailProperties
  <2>5. Tail(chunks) = <<>>
    BY <2>4, EmptySeq
  <2>6. <<Head(chunks)>> \in Seq(ChunkType) /\ Len(<<Head(chunks)>>) = 1
        /\ <<Head(chunks)>>[1] = Head(chunks)
    BY <2>3
  <2>7. \A k \in 1 .. Len(chunks) : chunks[k] = <<Head(chunks)>>[k]
    BY <2>2, <2>3, <2>6
  <2>8. chunks = <<Head(chunks)>>
    BY <1>1, <2>2, <2>6, <2>7, SeqEqual
  <2> QED
    BY <2>2, <2>3, <2>5, <2>8
<1>3. Append(received, Head(chunks)) = received \o chunks
  BY <1>1, <1>2, AppendIsConcat
<1>4. received \o chunks \in Seq(ChunkType)
  BY <1>1, ConcatProperties
<1>5. (received \o chunks) \o <<>> = received \o chunks
  BY <1>4, ConcatEmptySeq
<1> QED
  BY <1>1, <1>2, <1>3, <1>5 DEF Produced

-------------------------------------------------------------------------------
(* Steps. *)

LEMMA EventParts ==
  ASSUME NEW event \in Events
  PROVE  DOMAIN event.deltas \subseteq Indexes /\ event.finish \in Finishes
<1>1. event \in AnyEvent
  BY StreamAssumption
<1>2. event.finish \in Finishes /\ \E s \in SUBSET Indexes : event.deltas \in [s -> Fragments]
  BY <1>1 DEF AnyEvent
<1> QED
  BY <1>2

\* No error has been produced while the goroutine reads.
LEMMA ReadingFindsNoError ==
  ASSUME StreamInv, pc = "reading"
  PROVE  outbox = <<>> /\ \A k \in 1 .. Len(Produced) : Produced[k] # Error
BY DEF StreamInv, Endings, ErrorIsLast

\* An event that ends the body sends an error or nothing.
LEMMA EndStep ==
  ASSUME StreamInv, pc = "reading", UNCHANGED <<body, calls, chunks, received, ctx>>,
         ending' \in {"done", "bad", "eof", "broken"},
         sawTerminal' \in BOOLEAN, sawTerminal' => TerminalSent',
         \/ outbox' = <<Error>> /\ pc' = "sending"
         \/ /\ outbox' = <<>> /\ pc' = "closed"
            /\ ctx = "live" => TerminalSent' /\ (ending' = "done" => calls = NoCalls)
  PROVE  StreamInv'
<1>1. outbox = <<>> /\ \A k \in 1 .. Len(Produced) : Produced[k] # Error
  BY ReadingFindsNoError
<1>2. ReaderTypeOK /\ CallsFollow(Produced) /\ Kept(body, Produced, calls)
  BY DEF StreamInv
<1>3. Produced \in Seq(ChunkType)
  BY <1>2, ProducedType
<1>4. /\ outbox' \in Seq(ChunkType) /\ ErrorOnlyLast(outbox') /\ CallsFollow(outbox')
      /\ \A k \in 1 .. Len(outbox') : outbox'[k].kind # "tool"
  <2>1. CASE outbox' = <<>>
    BY <2>1 DEF ErrorOnlyLast, CallsFollow
  <2>2. CASE outbox' = <<Error>>
    <3>1. <<Error>> \in Seq(ChunkType) /\ Len(<<Error>>) = 1 /\ <<Error>>[1] = Error
      BY SingleChunks
    <3>2. \A k \in 1 .. 1 : k = 1
      OBVIOUS
    <3>3. Error.kind # "tool"
      BY DEF Error
    <3> QED
      BY <2>2, <3>1, <3>2, <3>3 DEF ErrorOnlyLast, CallsFollow
  <2> QED
    BY <2>1, <2>2
<1>5. Produced' = Produced \o outbox'
  BY <1>1, <1>2, <1>4, ReadProduces
<1>6. ReaderTypeOK'
  <2>1. outbox' = <<Error>> => outbox' # <<>>
    OBVIOUS
  <2> QED
    BY <1>2, <1>4, <2>1 DEF ReaderTypeOK
<1>7. Endings'
  <2>1. outbox' = <<Error>> => outbox'[Len(outbox')] = Error
    OBVIOUS
  <2> QED
    BY <2>1 DEF Endings
<1>8. ErrorIsLast'
  <2>1. /\ ErrorOnlyLast(Produced \o outbox')
        /\ \A k \in 1 .. Len(Produced \o outbox') :
             (Produced \o outbox')[k] = Error => outbox' # <<>>
    BY <1>1, <1>3, <1>4, ErrorAfterConcat
  <2>2. \A k \in 1 .. Len(Produced') :
          Produced'[k] = Error => k = Len(Produced') /\ outbox' # <<>>
    BY <1>5, <2>1 DEF ErrorOnlyLast
  <2> QED
    BY <2>2 DEF ErrorIsLast
<1>9. CallsFollow(Produced')
  BY <1>2, <1>3, <1>4, <1>5, FollowAfterConcat
<1>10. Kept(body', Produced', calls')
  BY <1>2, <1>3, <1>4, <1>5, KeptAfterOthers
<1> QED
  BY <1>6, <1>7, <1>8, <1>9, <1>10 DEF StreamInv

\* A data event.
LEMMA EventStep ==
  ASSUME StreamInv, NEW event \in Events, ReadEvent(event)
  PROVE  StreamInv'
<1>1. /\ ReaderTypeOK /\ CallsFollow(Produced) /\ Kept(body, Produced, calls)
      /\ pc = "reading" /\ ending = "none"
      /\ sawTerminal => TerminalSent
  BY DEF StreamInv, Endings, ReadEvent
<1>2. outbox = <<>> /\ \A k \in 1 .. Len(Produced) : Produced[k] # Error
  BY <1>1, ReadingFindsNoError
<1>3. Produced \in Seq(ChunkType)
  BY <1>1, ProducedType
<1>4. PICK len \in Nat : len = Len(body) /\ len + 1 <= MaxEvents
  BY <1>1, StreamAssumption, LenProperties DEF ReaderTypeOK, ReadEvent
<1>5. PICK read : read = Append(body, event)
  OBVIOUS
<1>6. /\ read \in Seq(Events) /\ Len(read) = len + 1 /\ read[len + 1] = event
      /\ \A n \in 1 .. len : read[n] = body[n]
  BY <1>1, <1>4, <1>5, AppendProperties DEF ReaderTypeOK
<1>7. PICK buffer : buffer = Add(calls, len + 1, event.deltas)
  OBVIOUS
<1>8. /\ DOMAIN buffer \subseteq Indexes
      /\ \A i \in DOMAIN buffer : buffer[i] \in Seq(1 .. len + 1) \ {<<>>}
  <2>1. /\ DOMAIN calls \subseteq Indexes
        /\ \A i \in DOMAIN calls : calls[i] \in Seq(1 .. len) \ {<<>>}
    BY <1>1, <1>4 DEF ReaderTypeOK
  <2>2. /\ DOMAIN buffer = DOMAIN calls \cup DOMAIN event.deltas
        /\ \A i \in DOMAIN calls \cup DOMAIN event.deltas :
             buffer[i] \in Seq(1 .. len + 1) \ {<<>>}
    BY <1>7, <2>1, AddedFragments
  <2> QED
    BY <2>1, <2>2, EventParts
<1>9. Kept(read, Produced, buffer)
  <2>1. body \in Seq(Events) /\ \A i \in DOMAIN calls : calls[i] \in Seq(1 .. Len(body)) \ {<<>>}
    BY <1>1 DEF ReaderTypeOK
  <2> QED
    BY <1>1, <1>4, <1>5, <1>7, <2>1, KeptAfterAdd
<1>10. PICK list : list = IF event.finish = "tool_calls" THEN Completed(read, buffer) ELSE <<>>
  OBVIOUS
<1>11. \/ list = <<>> \/ list = <<Error>>
       \/ event.finish = "tool_calls" /\ Batch(list, buffer)
  <2>1. CASE event.finish = "tool_calls"
    <3>1. \A i \in DOMAIN buffer : buffer[i] \in Seq(1 .. len + 1)
      BY <1>8
    <3>2. Completed(read, buffer) = <<Error>> \/ Batch(Completed(read, buffer), buffer)
      BY <1>4, <1>8, <3>1, CompletedCalls
    <3> QED
      BY <1>10, <2>1, <3>2
  <2> QED
    BY <1>10, <2>1
<1>12. PICK sends : sends = IF event.text \/ event.finish # "none"
                            THEN <<Content(event.finish)>> \o list ELSE <<>>
  OBVIOUS
<1>13. /\ body' = read /\ outbox' = sends
       /\ calls' = IF event.finish = "tool_calls" /\ list # <<Error>> THEN NoCalls ELSE buffer
       /\ sawTerminal' = (sawTerminal \/ (event.finish # "none" /\ list # <<Error>>))
       /\ pc' = IF sends = <<>> THEN "reading" ELSE "sending"
       /\ UNCHANGED <<ending, chunks, received, ctx>>
  BY <1>4, <1>5, <1>6, <1>7, <1>10, <1>12 DEF ReadEvent, Sends
<1>14. event.finish \in Finishes
  BY EventParts
<1>15. /\ list \in Seq(ChunkType)
       /\ <<Content(event.finish)>> \o list \in Seq(ChunkType) \ {<<>>}
       /\ CallsFollow(<<Content(event.finish)>> \o list)
       /\ ErrorOnlyLast(<<Content(event.finish)>> \o list)
  BY <1>11, <1>14, EventChunks
<1>16. sends \in Seq(ChunkType) /\ CallsFollow(sends) /\ ErrorOnlyLast(sends)
  <2>1. CallsFollow(<<>>) /\ ErrorOnlyLast(<<>>)
    BY DEF CallsFollow, ErrorOnlyLast
  <2> QED
    BY <1>12, <1>15, <2>1
<1>17. Produced' = Produced \o sends
  BY <1>1, <1>2, <1>13, <1>16, ReadProduces
<1>18. ReaderTypeOK'
  <2>1. body' \in Seq(Events) /\ Len(body') <= MaxEvents
    BY <1>4, <1>6, <1>13
  <2>2. /\ DOMAIN calls' \subseteq Indexes
        /\ \A i \in DOMAIN calls' : calls'[i] \in Seq(1 .. Len(body')) \ {<<>>}
    BY <1>6, <1>8, <1>13 DEF NoCalls
  <2>3. sawTerminal' \in BOOLEAN
    BY <1>1, <1>13 DEF ReaderTypeOK
  <2>4. /\ outbox' \in Seq(ChunkType)
        /\ pc' \in {"reading", "sending", "closed"}
        /\ pc' = "sending" => outbox' # <<>>
    BY <1>13, <1>16
  <2> QED
    BY <1>1, <1>13, <2>1, <2>2, <2>3, <2>4 DEF ReaderTypeOK
<1>19. Endings'
  <2>1. /\ pc' = "reading" => outbox' = <<>> /\ ending' = "none"
        /\ pc' = "sending" => ending' = "none"
        /\ pc' # "closed"
    BY <1>1, <1>13
  <2>2. sawTerminal' => TerminalSent'
    <3>1. len + 1 \in 1 .. len + 1 /\ \A n \in 1 .. len : n \in 1 .. len + 1
      BY <1>4
    <3>2. CASE sawTerminal
      <4>1. \E n \in 1 .. len : body[n].finish # "none"
        BY <1>1, <1>4, <3>2 DEF TerminalSent
      <4>2. \E n \in 1 .. len + 1 : read[n].finish # "none"
        BY <1>6, <3>1, <4>1
      <4> QED
        BY <1>6, <1>13, <4>2 DEF TerminalSent
    <3>3. CASE ~ sawTerminal
      <4>1. sawTerminal' => \E n \in 1 .. len + 1 : read[n].finish # "none"
        BY <1>6, <1>13, <3>1, <3>3
      <4> QED
        BY <1>6, <1>13, <4>1 DEF TerminalSent
    <3> QED
      BY <3>2, <3>3
  <2> QED
    BY <2>1, <2>2 DEF Endings
<1>20. ErrorIsLast'
  <2>1. /\ ErrorOnlyLast(Produced \o sends)
        /\ \A k \in 1 .. Len(Produced \o sends) :
             (Produced \o sends)[k] = Error => sends # <<>>
    BY <1>2, <1>3, <1>16, ErrorAfterConcat
  <2>2. \A k \in 1 .. Len(Produced') :
          Produced'[k] = Error => k = Len(Produced') /\ outbox' # <<>>
    BY <1>13, <1>17, <2>1 DEF ErrorOnlyLast
  <2> QED
    BY <2>2 DEF ErrorIsLast
<1>21. CallsFollow(Produced')
  BY <1>1, <1>3, <1>16, <1>17, FollowAfterConcat
<1>22. Kept(body', Produced', calls')
  <2>1. CASE list = <<>> \/ list = <<Error>>
    <3>1. \A k \in 1 .. Len(sends) : sends[k].kind # "tool"
      <4>1. PICK first : first = Content(event.finish)
        OBVIOUS
      <4>2. first.kind # "tool" /\ Error.kind # "tool"
        BY <4>1 DEF Content, Error
      <4>3. sends = <<>> \/ sends = <<first>> \/ sends = <<first, Error>>
        <5>1. <<first>> \in Seq({first, Error}) /\ <<Error>> \in Seq({first, Error})
          OBVIOUS
        <5>2. <<first>> \o <<>> = <<first>>
          BY <5>1, ConcatEmptySeq
        <5>3. <<first>> \o <<Error>> = <<first, Error>>
          <6> DEFINE both == <<first>> \o <<Error>>
          <6>1. both \in Seq({first, Error}) /\ Len(both) = 2
            BY <5>1, ConcatProperties
          <6>2. both[1] = first /\ both[2] = Error
            BY <5>1
          <6>3. PICK pair : pair = <<first, Error>>
            OBVIOUS
          <6>4. /\ pair \in Seq({first, Error}) /\ Len(pair) = 2
                /\ pair[1] = first /\ pair[2] = Error
            BY <6>3
          <6> HIDE DEF both
          <6>5. ASSUME NEW k \in 1 .. 2 PROVE both[k] = pair[k]
            <7>1. k = 1 \/ k = 2
              OBVIOUS
            <7> QED
              BY <6>2, <6>4, <7>1
          <6>6. both = pair
            BY <6>1, <6>4, <6>5, SeqEqual
          <6> QED
            BY <6>3, <6>6 DEF both
        <5> QED
          BY <1>12, <2>1, <4>1, <5>2, <5>3
      <4>4. /\ Len(<<first>>) = 1 /\ <<first>>[1] = first
            /\ Len(<<first, Error>>) = 2
            /\ <<first, Error>>[1] = first /\ <<first, Error>>[2] = Error
            /\ \A k \in 1 .. 1 : k = 1
            /\ \A k \in 1 .. 2 : k = 1 \/ k = 2
        OBVIOUS
      <4> QED
        BY <4>2, <4>3, <4>4
    <3>2. Kept(read, Produced \o sends, buffer)
      BY <1>3, <1>9, <1>16, <3>1, KeptAfterOthers
    <3>3. CASE calls' = buffer
      BY <1>13, <1>17, <3>2, <3>3
    <3>4. CASE calls' # buffer
      <4>1. calls' = NoCalls /\ list = <<>> /\ event.finish = "tool_calls"
        BY <1>13, <2>1, <3>4
      <4>2. Batch(list, buffer)
        <5>1. Completed(read, buffer) = <<>>
          BY <1>10, <4>1
        <5>2. \A i \in DOMAIN buffer : buffer[i] \in Seq(1 .. len + 1)
          BY <1>8
        <5>3. Completed(read, buffer) = <<Error>> \/ Batch(Completed(read, buffer), buffer)
          BY <1>4, <1>8, <5>2, CompletedCalls
        <5>4. <<>> # <<Error>>
          OBVIOUS
        <5> QED
          BY <4>1, <5>1, <5>3, <5>4
      <4>3. Produced \o sends \in Seq(ChunkType)
        BY <1>3, <1>16, ConcatProperties
      <4>4. Kept(read, (Produced \o sends) \o list, NoCalls)
        BY <1>8, <3>2, <4>2, <4>3, KeptAfterBatch
      <4>5. (Produced \o sends) \o list = Produced \o sends
        BY <4>1, <4>3, ConcatEmptySeq
      <4> QED
        BY <1>13, <1>17, <4>1, <4>4, <4>5
    <3> QED
      BY <3>3, <3>4
  <2>2. CASE list # <<>> /\ list # <<Error>>
    <3>1. event.finish = "tool_calls" /\ Batch(list, buffer)
      BY <1>11, <2>2
    <3>2. PICK first : first = <<Content(event.finish)>>
      OBVIOUS
    <3>3. first \in Seq(ChunkType) /\ \A k \in 1 .. Len(first) : first[k].kind # "tool"
      <4>1. Content(event.finish) \in ChunkType /\ Content(event.finish).kind # "tool"
        BY <1>14, SingleChunks DEF Content
      <4> QED
        BY <3>2, <4>1
    <3>4. Kept(read, Produced \o first, buffer) /\ Produced \o first \in Seq(ChunkType)
      BY <1>3, <1>9, <3>3, KeptAfterOthers, ConcatProperties
    <3>5. Kept(read, (Produced \o first) \o list, NoCalls)
      BY <1>8, <3>1, <3>4, KeptAfterBatch
    <3>6. (Produced \o first) \o list = Produced \o (first \o list)
      BY <1>3, <1>15, <3>3, ConcatAssociative
    <3>7. sends = first \o list
      BY <1>12, <3>1, <3>2
    <3> QED
      BY <1>13, <1>17, <2>2, <3>1, <3>5, <3>6, <3>7
  <2> QED
    BY <2>1, <2>2
<1> QED
  BY <1>18, <1>19, <1>20, <1>21, <1>22 DEF StreamInv

\* Everything that only moves chunks on, or waits.
LEMMA OtherSteps ==
  ASSUME StreamInv, UNCHANGED <<body, calls>>, Produced' = Produced,
         ReaderTypeOK', Endings', ErrorIsLast'
  PROVE  StreamInv'
BY DEF StreamInv

LEMMA SendStep ==
  ASSUME StreamInv, Send
  PROVE  StreamInv'
<1>1. ReaderTypeOK /\ Endings /\ ErrorIsLast
  BY DEF StreamInv
<1>2. Produced' = Produced
  BY <1>1, SendProducesNothing
<1>3. /\ pc = "sending" /\ chunks' = <<Head(outbox)>> /\ outbox' = Tail(outbox)
      /\ pc' = AfterSend
      /\ UNCHANGED <<body, ending, calls, sawTerminal, received, ctx>>
  BY DEF Send
<1>4. outbox \in Seq(ChunkType) /\ outbox # <<>>
  BY <1>1, <1>3 DEF ReaderTypeOK
<1>5. PICK size \in Nat : size = Len(outbox) /\ size # 0
  BY <1>4, LenProperties, EmptySeq
<1>6. /\ Head(outbox) \in ChunkType /\ Tail(outbox) \in Seq(ChunkType)
      /\ Len(Tail(outbox)) = size - 1
      /\ \A k \in 1 .. Len(Tail(outbox)) : Tail(outbox)[k] = outbox[k + 1]
  BY <1>4, <1>5, HeadTailProperties
<1>7. Head(outbox) = outbox[1]
  BY <1>4
<1>8. Produced # <<>> /\ Produced[Len(Produced)] = outbox[size]
  BY <1>1, <1>4, <1>5, ProducedType
<1>9. Tail(outbox) = <<>> => size = 1
  BY <1>5, <1>6, EmptySeq
<1>10. Tail(outbox) # <<>> => Tail(outbox)[Len(Tail(outbox))] = outbox[size]
  <2>1. Tail(outbox) # <<>> => Len(Tail(outbox)) \in Nat \ {0}
    BY <1>6, EmptySeq
  <2>2. Tail(outbox) # <<>> => size - 1 \in 1 .. size - 1 /\ size - 1 + 1 = size
    BY <1>5, <1>6, <2>1
  <2> QED
    BY <1>6, <2>2
<1>11. \/ pc' = "sending" /\ Tail(outbox) # <<>>
       \/ pc' = "closed" /\ Tail(outbox) = <<>> /\ outbox[size] = Error
       \/ pc' = "reading" /\ Tail(outbox) = <<>> /\ outbox[size] # Error
  BY <1>3, <1>7, <1>9 DEF AfterSend
<1>12. ReaderTypeOK'
  <2>1. chunks' \in Seq(ChunkType) /\ Len(chunks') <= 1
    BY <1>3, <1>6
  <2>2. outbox' \in Seq(ChunkType) /\ (pc' = "sending" => outbox' # <<>>)
    BY <1>3, <1>6, <1>11
  <2> QED
    BY <1>1, <1>3, <1>11, <2>1, <2>2 DEF ReaderTypeOK
<1>13. TerminalSent' <=> TerminalSent
  BY <1>3 DEF TerminalSent
<1>14. Endings'
  <2>1. pc' = "reading" => outbox' = <<>> /\ ending' = "none"
    BY <1>1, <1>3, <1>5, <1>11 DEF Endings
  <2>2. pc' = "sending" => outbox'[Len(outbox')] = Error \/ ending' = "none"
    BY <1>1, <1>3, <1>5, <1>10, <1>11 DEF Endings
  <2>3. sawTerminal' => TerminalSent'
    BY <1>1, <1>3, <1>13 DEF Endings
  <2>4. pc' = "closed" =>
          outbox' = <<>> /\ Produced' # <<>> /\ Produced'[Len(Produced')] = Error
    BY <1>2, <1>3, <1>8, <1>11
  <2> QED
    BY <2>1, <2>2, <2>3, <2>4 DEF Endings
<1>15. ErrorIsLast'
  <2>1. \A k \in 1 .. Len(Produced) : Produced[k] = Error => k = Len(Produced)
    BY <1>1 DEF ErrorIsLast
  <2>2. \A k \in 1 .. Len(Produced) :
          Produced[k] = Error => pc' = "closed" \/ outbox' # <<>>
    BY <1>3, <1>8, <1>11, <2>1
  <2> QED
    BY <1>2, <2>1, <2>2 DEF ErrorIsLast
<1> QED
  BY <1>2, <1>3, <1>12, <1>14, <1>15, OtherSteps

LEMMA GiveUpStep ==
  ASSUME StreamInv, GiveUp
  PROVE  StreamInv'
<1>1. ReaderTypeOK /\ Endings /\ ErrorIsLast
  BY DEF StreamInv
<1>2. /\ ctx # "live" /\ pc' = "closed"
      /\ UNCHANGED <<body, ending, calls, sawTerminal, outbox, chunks, received, ctx>>
  BY DEF GiveUp
<1>3. Produced' = Produced /\ (TerminalSent' <=> TerminalSent)
  BY <1>2 DEF Produced, TerminalSent
<1>4. ReaderTypeOK'
  BY <1>1, <1>2 DEF ReaderTypeOK
<1>5. Endings'
  BY <1>1, <1>2, <1>3 DEF Endings
<1>6. ErrorIsLast'
  BY <1>1, <1>2, <1>3 DEF ErrorIsLast
<1> QED
  BY <1>2, <1>3, <1>4, <1>5, <1>6, OtherSteps

LEMMA ReceiveStep ==
  ASSUME StreamInv, Receive
  PROVE  StreamInv'
<1>1. ReaderTypeOK /\ Endings /\ ErrorIsLast
  BY DEF StreamInv
<1>2. /\ chunks # <<>> /\ received' = Append(received, Head(chunks))
      /\ chunks' = Tail(chunks)
      /\ UNCHANGED <<pc, body, ending, calls, sawTerminal, outbox, ctx>>
  BY DEF Receive
<1>3. Produced' = Produced /\ (TerminalSent' <=> TerminalSent)
  BY <1>1, <1>2, ReceiveProducesNothing DEF TerminalSent
<1>4. ReaderTypeOK'
  <2>1. chunks \in Seq(ChunkType) /\ Len(chunks) <= 1 /\ received \in Seq(ChunkType)
    BY <1>1 DEF ReaderTypeOK
  <2>2. /\ Head(chunks) \in ChunkType /\ Tail(chunks) \in Seq(ChunkType)
        /\ Len(Tail(chunks)) = Len(chunks) - 1
    BY <1>2, <2>1, HeadTailProperties
  <2>3. Len(chunks) \in Nat
    BY <2>1, LenProperties
  <2>4. /\ chunks' \in Seq(ChunkType) /\ Len(chunks') <= 1
        /\ received' \in Seq(ChunkType)
    BY <1>2, <2>1, <2>2, <2>3, AppendProperties
  <2> QED
    BY <1>1, <1>2, <2>4 DEF ReaderTypeOK
<1>5. Endings'
  BY <1>1, <1>2, <1>3 DEF Endings
<1>6. ErrorIsLast'
  BY <1>1, <1>2, <1>3 DEF ErrorIsLast
<1> QED
  BY <1>2, <1>3, <1>4, <1>5, <1>6, OtherSteps

LEMMA ContextStep ==
  ASSUME StreamInv, ContextEnds
  PROVE  StreamInv'
<1>1. ReaderTypeOK /\ Endings /\ ErrorIsLast
  BY DEF StreamInv
<1>2. /\ ctx' = "done"
      /\ UNCHANGED <<pc, body, ending, calls, sawTerminal, outbox, chunks, received>>
  BY DEF ContextEnds
<1>3. Produced' = Produced /\ (TerminalSent' <=> TerminalSent)
  BY <1>2 DEF Produced, TerminalSent
<1>4. ReaderTypeOK'
  BY <1>1, <1>2 DEF ReaderTypeOK
<1>5. Endings'
  BY <1>1, <1>2, <1>3 DEF Endings
<1>6. ErrorIsLast'
  BY <1>1, <1>2, <1>3 DEF ErrorIsLast
<1> QED
  BY <1>2, <1>3, <1>4, <1>5, <1>6, OtherSteps

LEMMA StreamInitially ==
  ASSUME ReaderInit
  PROVE  StreamInv
<1>1. /\ pc = "reading" /\ body = <<>> /\ ending = "none" /\ calls = NoCalls
      /\ sawTerminal = FALSE /\ outbox = <<>> /\ chunks = <<>> /\ received = <<>>
      /\ ctx = "live"
  BY DEF ReaderInit
<1>2. DOMAIN NoCalls = {}
  BY DEF NoCalls
<1>3. Produced = <<>> /\ Len(Produced) = 0
  BY <1>1 DEF Produced
<1>4. ReaderTypeOK
  <2>1. body \in Seq(Events) /\ Len(body) <= MaxEvents
    BY <1>1, StreamAssumption
  <2>2. /\ outbox \in Seq(ChunkType) /\ received \in Seq(ChunkType)
        /\ chunks \in Seq(ChunkType) /\ Len(chunks) <= 1
    BY <1>1
  <2>3. DOMAIN calls = {}
    BY <1>1, <1>2
  <2> QED
    BY <1>1, <2>1, <2>2, <2>3 DEF ReaderTypeOK
<1>5. Endings
  BY <1>1 DEF Endings
<1>6. ErrorIsLast /\ CallsFollow(Produced)
  BY <1>3 DEF ErrorIsLast, CallsFollow
<1>7. Kept(body, Produced, calls)
  <2>1. /\ \A i : Mine(Produced, i) = {}
        /\ \A i : Sent(body, i) = {}
        /\ \A i : Buffered(calls, i) = {}
    BY <1>1, <1>2, <1>3 DEF Mine, Sent, Buffered
  <2> QED
    BY <1>1, <1>2, <2>1 DEF Kept
<1> QED
  BY <1>4, <1>5, <1>6, <1>7 DEF StreamInv

LEMMA StreamStep ==
  ASSUME StreamInv, [ReaderNext]_readerVars
  PROVE  StreamInv'
<1>1. CASE UNCHANGED readerVars
  <2>1. Produced' = Produced /\ (TerminalSent' <=> TerminalSent)
    BY <1>1 DEF readerVars, Produced, TerminalSent
  <2>2. ReaderTypeOK' /\ Endings' /\ ErrorIsLast'
    BY <1>1, <2>1 DEF StreamInv, readerVars, ReaderTypeOK, Endings, ErrorIsLast
  <2> QED
    BY <1>1, <2>1, <2>2, OtherSteps DEF readerVars
<1>2. ASSUME NEW event \in Events, ReadEvent(event) PROVE StreamInv'
  BY <1>2, EventStep
<1>3. CASE ReadDone
  <2>1. sawTerminal => TerminalSent
    BY DEF StreamInv, Endings
  <2>2. ending' = "done" /\ TerminalSent' /\ sawTerminal \in BOOLEAN
    BY <1>3 DEF ReadDone, TerminalSent, StreamInv, ReaderTypeOK
  <2>3. sawTerminal' \in BOOLEAN
    BY <1>3, <2>2 DEF ReadDone
  <2> QED
    BY <1>3, <2>2, <2>3, EndStep DEF ReadDone, Sends
<1>4. CASE ReadBad
  <2>1. /\ pc = "reading" /\ ending = "none"
        /\ sawTerminal \in BOOLEAN /\ (sawTerminal => TerminalSent)
    BY <1>4 DEF StreamInv, Endings, ReaderTypeOK, ReadBad
  <2>2. ending' = "bad" /\ UNCHANGED <<body, calls, sawTerminal, chunks, received, ctx>>
    BY <1>4 DEF ReadBad
  <2>3. sawTerminal' => TerminalSent'
    BY <2>1, <2>2 DEF TerminalSent
  <2>4. outbox' = <<Error>> /\ pc' = "sending"
    BY <1>4 DEF ReadBad, Sends
  <2> QED
    BY <2>1, <2>2, <2>3, <2>4, EndStep
<1>5. ASSUME NEW how \in {"eof", "broken"}, ReadEnd(how) PROVE StreamInv'
  <2>1. /\ pc = "reading" /\ ending = "none"
        /\ sawTerminal \in BOOLEAN /\ (sawTerminal => TerminalSent)
    BY <1>5 DEF StreamInv, Endings, ReaderTypeOK, ReadEnd
  <2>2. ending' = how /\ UNCHANGED <<body, calls, sawTerminal, chunks, received, ctx>>
    BY <1>5 DEF ReadEnd
  <2>3. sawTerminal' => TerminalSent'
    BY <2>1, <2>2 DEF TerminalSent
  <2>4. \/ outbox' = <<Error>> /\ pc' = "sending"
        \/ outbox' = <<>> /\ pc' = "closed" /\ (ctx = "live" => sawTerminal)
    BY <1>5 DEF ReadEnd, Sends, CutShort
  <2> QED
    BY <2>1, <2>2, <2>3, <2>4, EndStep
<1>6. CASE Send
  BY <1>6, SendStep
<1>7. CASE GiveUp
  BY <1>7, GiveUpStep
<1>8. CASE Receive
  BY <1>8, ReceiveStep
<1>9. ASSUME ContextEnds PROVE StreamInv'
  BY <1>9, ContextStep
<1> QED
  BY <1>1, <1>2, <1>3, <1>4, <1>5, <1>6, <1>7, <1>8, <1>9 DEF ReaderNext, Read

LEMMA StreamAlways == ReaderSpec => []StreamInv
<1>1. ReaderInit => StreamInv
  BY StreamInitially
<1>2. StreamInv /\ [ReaderNext]_readerVars => StreamInv'
  BY StreamStep
<1> QED
  BY <1>1, <1>2, PTL DEF ReaderSpec

\* What a consumer reads is in order, however the events fall: chunks of the
\* right kinds, every tool call directly after the finish that completed it and
\* by increasing index (stream.go:128-129), nothing after an error.
THEOREM StreamIsInOrder == ReaderSpec => []ChunksInOrder
<1>1. StreamInv => ChunksInOrder
  BY DEF StreamInv, ChunksInOrder, ToolCallsFollowFinish, ToolChunks, CallsFollow
<1> QED
  BY <1>1, StreamAlways, PTL

\* Every fragment of a tool call's arguments is in exactly one place, in the
\* buffer of its index or in one chunk of it, in the order of arrival
\* (stream_tool_call.go, toolCallAccumulator).
THEOREM NoFragmentIsLost == ReaderSpec => []FragmentsKept
<1>1. StreamInv => FragmentsKept
  <2> SUFFICES ASSUME StreamInv PROVE FragmentsKept
    OBVIOUS
  <2>1. Kept(body, Produced, calls)
    BY DEF StreamInv
  <2> SUFFICES ASSUME NEW i \in Indexes
               PROVE  LET sent   == {n \in 1 .. Len(body) : i \in DOMAIN body[n].deltas}
                          mine   == {k \in ToolChunks : Produced[k].index = i}
                          emitted(k) == {Produced[k].args[m] : m \in 1 .. Len(Produced[k].args)}
                          buffered == IF i \in DOMAIN calls
                                      THEN {calls[i][m] : m \in 1 .. Len(calls[i])} ELSE {}
                      IN /\ (UNION {emitted(k) : k \in mine}) \cup buffered = sent
                         /\ \A k \in mine : emitted(k) \cap buffered = {}
                         /\ \A j, k \in mine : j # k => emitted(j) \cap emitted(k) = {}
                         /\ \A k \in mine : \A l, m \in 1 .. Len(Produced[k].args) :
                              l < m => Produced[k].args[l] < Produced[k].args[m]
    BY DEF FragmentsKept
  <2> DEFINE sent   == {n \in 1 .. Len(body) : i \in DOMAIN body[n].deltas}
             mine   == {k \in ToolChunks : Produced[k].index = i}
             emitted(k) == {Produced[k].args[m] : m \in 1 .. Len(Produced[k].args)}
             buffered == IF i \in DOMAIN calls
                         THEN {calls[i][m] : m \in 1 .. Len(calls[i])} ELSE {}
  <2>2. sent = Sent(body, i) /\ buffered = Buffered(calls, i)
    BY DEF Sent, Buffered, Values
  <2>3. mine = Mine(Produced, i)
    BY DEF ToolChunks, Mine
  <2>4. \A k : emitted(k) = Values(Produced[k].args)
    BY DEF Values
  <2>5. \A k \in mine : \A l, m \in 1 .. Len(Produced[k].args) :
          l < m => Produced[k].args[l] < Produced[k].args[m]
    <3> HIDE DEF mine
    <3> QED
      BY <2>1, <2>3 DEF Kept, Ascending
  <2> HIDE DEF sent, mine, emitted, buffered
  <2>6. (UNION {emitted(k) : k \in mine}) \cup buffered = sent
    <3>1. /\ \A k \in mine : emitted(k) \subseteq sent
          /\ buffered \subseteq sent
          /\ \A n \in sent : n \in buffered \/ \E k \in mine : n \in emitted(k)
      BY <2>1, <2>2, <2>3, <2>4 DEF Kept
    <3> DEFINE all == {emitted(k) : k \in mine}
    <3>2. ASSUME NEW n \in UNION all PROVE n \in sent
      <4>1. PICK one \in all : n \in one
        OBVIOUS
      <4>2. PICK k \in mine : one = emitted(k)
        OBVIOUS
      <4> HIDE DEF all
      <4> QED
        BY <3>1, <4>1, <4>2
    <3>3. ASSUME NEW n \in sent, n \notin buffered PROVE n \in UNION all
      <4>1. PICK k \in mine : n \in emitted(k)
        BY <3>1, <3>3
      <4>2. emitted(k) \in all
        OBVIOUS
      <4> HIDE DEF all
      <4> QED
        BY <4>1, <4>2
    <3>4. buffered \subseteq sent
      BY <3>1
    <3> HIDE DEF all
    <3>5. (UNION all) \cup buffered = sent
      BY <3>2, <3>3, <3>4
    <3> QED
      BY <3>5 DEF all
  <2>7. /\ \A k \in mine : emitted(k) \cap buffered = {}
        /\ \A j, k \in mine : j # k => emitted(j) \cap emitted(k) = {}
    BY <2>1, <2>2, <2>3, <2>4 DEF Kept
  <2> QED
    BY <2>5, <2>6, <2>7 DEF sent, mine, emitted, buffered
<1> QED
  BY <1>1, StreamAlways, PTL

\* A body that broke off before a terminal event ends the stream with an error,
\* as long as the context is live; so does [DONE] with calls still being put
\* together (stream.go:37-39, reportStreamReadEnd).
THEOREM CutsAreReported == ReaderSpec => []CutsReported
<1>1. StreamInv => CutsReported
  <2> SUFFICES ASSUME StreamInv, pc = "closed", chunks = <<>>, ctx = "live"
               PROVE  \/ Reported
                      \/ TerminalSent /\ (ending = "done" => calls = NoCalls)
    BY DEF CutsReported, Drained
  <2>1. /\ outbox = <<>>
        /\ \/ Produced # <<>> /\ Produced[Len(Produced)] = Error
           \/ TerminalSent /\ (ending = "done" => calls = NoCalls)
    BY DEF StreamInv, Endings
  <2>2. Produced = received
    <3>1. received \in Seq(ChunkType)
      BY DEF StreamInv, ReaderTypeOK
    <3>2. received \o <<>> = received
      BY <3>1, ConcatEmptySeq
    <3> QED
      BY <2>1, <3>2 DEF Produced
  <2> QED
    BY <2>1, <2>2 DEF Reported
<1> QED
  BY <1>1, StreamAlways, PTL
===============================================================================
