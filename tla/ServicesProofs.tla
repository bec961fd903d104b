---------------------------- MODULE ServicesProofs ----------------------------
(*****************************************************************************)
(* Proofs about the small shared services: TokenBucket (every set of keys,   *)
(* rates, periods and every movement of the clock), FallbackCache (all       *)
(* tenants, users, keys, clients and times to live) and ToolRegistry (any    *)
(* tools, names, schemas, registrants and readers).                          *)
(*****************************************************************************)
EXTENDS TokenBucket, FallbackCache, ToolRegistry, SequenceTheorems, TLAPS

-------------------------------------------------------------------------------
(* TokenBucket. *)

\* What is left of a bucket's credit: the calls granted from any one of them on
\* and the tokens still there are paid for by a full bucket and by the time
\* since that call.
Credit(bucket, times) ==
  \A i \in 1 .. Len(times) :
    /\ times[i] <= bucket.lastRefill
    /\ (Len(times) - i + 1) * bucket.period + bucket.tokens
         <= bucket.rate * bucket.period
            + bucket.rate * (bucket.lastRefill - times[i])

\* RateHolds, of one bucket.
Rate(bucket, times) ==
  \A i, j \in 1 .. Len(times) :
    i <= j =>
      (j - i + 1) * bucket.period
        <= bucket.rate * bucket.period + bucket.rate * (times[j] - times[i])

BucketInv == \A key \in Keys : /\ Credit(buckets[key], grants[key])
                               /\ Rate(buckets[key], grants[key])

\* Arithmetic of products, with every factor a variable.
LEMMA ProductNat == ASSUME NEW x \in Nat, NEW y \in Nat PROVE x * y \in Nat
OBVIOUS

LEMMA Distributes ==
  ASSUME NEW x \in Int, NEW y \in Int, NEW z \in Int, NEW w \in Int
  PROVE  x * (y - w) = x * (z - w) + (y - z) * x
OBVIOUS

LEMMA NextProduct ==
  ASSUME NEW x \in Int, NEW y \in Int PROVE (x + 1) * y = x * y + y
OBVIOUS

\* The bound of a bucket is linear once the products are given names.
LEMMA RefillKeepsCredit ==
  ASSUME TypeOK, NEW key \in Keys,
         Credit(buckets[key], grants[key])
  PROVE  LET bucket == Refilled(buckets[key]) IN
         /\ bucket \in Bucket
         /\ bucket.rate = buckets[key].rate
         /\ bucket.period = buckets[key].period
         /\ bucket.tokens <= bucket.rate * bucket.period
         /\ Credit(bucket, grants[key])
<1> DEFINE b == buckets[key]
           times == grants[key]
           time == now - b.lastRefill
           product == b.rate * b.period
           part == time * b.rate
           sum == b.tokens + part
<1>1. /\ b \in Bucket /\ b.rate \in Nat /\ b.period \in Nat /\ b.tokens \in Nat
      /\ b.lastRefill \in Nat /\ now \in 0 .. MaxClock /\ now \in Nat
      /\ b.tokens <= product /\ product \in Nat
  BY LimiterAssumption DEF TypeOK, Bucket, Full
<1>2. times \in Seq(0 .. MaxClock) /\ Len(times) \in Nat
  BY DEF TypeOK
<1>3. CASE now <= b.lastRefill
  BY <1>1, <1>3 DEF Refilled, Capped, Earned
<1>4. CASE ~(now <= b.lastRefill)
  <2>1. time \in Nat /\ part \in Nat /\ sum \in Nat
    BY <1>1, <1>4
  <2> DEFINE tokens == IF sum > product THEN product ELSE sum
             r == [b EXCEPT !.tokens = tokens, !.lastRefill = now]
  <2>2. Refilled(b) = r
    BY <1>4 DEF Refilled, Capped, Earned, Full
  <2>3. tokens \in Nat /\ tokens <= product /\ tokens <= sum
    BY <1>1, <2>1
  <2>4. /\ r \in Bucket /\ r.rate = b.rate /\ r.period = b.period
        /\ r.tokens = tokens /\ r.lastRefill = now
    <3> HIDE DEF tokens
    <3> QED
      BY <1>1, <2>3 DEF Bucket
  <2>5. ASSUME NEW i \in 1 .. Len(times)
        PROVE  /\ times[i] <= now
               /\ (Len(times) - i + 1) * b.period + tokens
                    <= product + b.rate * (now - times[i])
    <3>1. times[i] \in Nat
      BY <1>2, ElementOfSeq, LimiterAssumption
    <3>2. /\ times[i] <= b.lastRefill
          /\ (Len(times) - i + 1) * b.period + b.tokens
               <= product + b.rate * (b.lastRefill - times[i])
      BY DEF Credit
    <3>3. b.rate * (now - times[i]) = b.rate * (b.lastRefill - times[i]) + part
      <4>1. b.rate \in Int /\ now \in Int /\ b.lastRefill \in Int /\ times[i] \in Int
        BY <1>1, <3>1
      <4> QED
        BY <4>1, Distributes
    <3> DEFINE spent == (Len(times) - i + 1) * b.period
               paid == b.rate * (b.lastRefill - times[i])
    <3>4. spent \in Nat /\ paid \in Nat
      <4>1. Len(times) - i + 1 \in Nat
        BY <1>2
      <4>2. b.lastRefill - times[i] \in Nat
        BY <1>1, <3>1, <3>2
      <4> QED
        BY <1>1, <4>1, <4>2, ProductNat
    <3>5. spent + tokens <= product + (paid + part)
      <4> HIDE DEF spent, paid, part, product, tokens
      <4>1. spent + b.tokens <= product + paid
        BY <3>2 DEF spent, paid
      <4> QED
        BY <1>1, <2>1, <2>3, <3>4, <4>1
    <3> QED
      BY <1>1, <1>4, <3>1, <3>2, <3>3, <3>5
  <2> QED
    BY <2>2, <2>3, <2>4, <2>5 DEF Credit
<1> QED
  BY <1>3, <1>4

\* A call granted by a full enough bucket is paid for by it.
LEMMA GrantKeepsRate ==
  ASSUME NEW bucket \in Bucket, NEW times \in Seq(0 .. MaxClock),
         bucket.tokens <= bucket.rate * bucket.period,
         bucket.tokens >= bucket.period,
         Credit(bucket, times), Rate(bucket, times),
         NEW after, after = [bucket EXCEPT !.tokens = bucket.tokens - bucket.period],
         NEW longer, longer = Append(times, bucket.lastRefill)
  PROVE  /\ after \in Bucket /\ longer \in Seq(0 .. MaxClock)
         /\ after.rate = bucket.rate /\ after.period = bucket.period
         /\ after.tokens <= bucket.rate * bucket.period
         /\ Credit(after, longer) /\ Rate(after, longer)
<1> DEFINE n == Len(times)
           product == bucket.rate * bucket.period
<1>1. /\ bucket.rate \in Nat /\ bucket.period \in Nat /\ bucket.tokens \in Nat
      /\ bucket.lastRefill \in 0 .. MaxClock /\ bucket.lastRefill \in Nat
  BY LimiterAssumption DEF Bucket
<1>2. /\ product \in Nat
      /\ bucket.tokens <= product /\ bucket.period <= bucket.tokens
  BY <1>1, ProductNat
<1>3. n \in Nat
  BY LenProperties
<1>4. /\ longer \in Seq(0 .. MaxClock) /\ Len(longer) = n + 1
      /\ longer[n + 1] = bucket.lastRefill
      /\ \A i \in 1 .. n : longer[i] = times[i]
  BY <1>1
<1>5. bucket.tokens - bucket.period \in Nat
  BY <1>1
<1>6. /\ after \in Bucket
      /\ after.rate = bucket.rate /\ after.period = bucket.period
      /\ after.lastRefill = bucket.lastRefill
      /\ after.tokens = bucket.tokens - bucket.period
  BY <1>1, <1>5 DEF Bucket
<1>7. after.tokens <= product
  <2> HIDE DEF product
  <2> QED
    BY <1>1, <1>2, <1>6
\* What the old calls and the new one take together.
<1>8. ASSUME NEW i \in 1 .. n
      PROVE  /\ times[i] \in Nat /\ times[i] <= bucket.lastRefill
             /\ (n + 1 - i + 1) * bucket.period + (bucket.tokens - bucket.period)
                  <= product + bucket.rate * (bucket.lastRefill - times[i])
  <2>1. times[i] \in Nat /\ times[i] <= bucket.lastRefill
    BY ElementOfSeq, LimiterAssumption DEF Credit
  <2> DEFINE spent == (n - i + 1) * bucket.period
             paid == bucket.rate * (bucket.lastRefill - times[i])
  <2>2. spent + bucket.tokens <= product + paid
    BY DEF Credit
  <2>3. bucket.lastRefill - times[i] \in Nat /\ n - i + 1 \in Nat
    BY <1>1, <1>3, <2>1
  <2>4. spent \in Nat /\ paid \in Nat
    BY <1>1, <2>3, ProductNat
  <2>5. (n + 1 - i + 1) * bucket.period = spent + bucket.period
    <3> DEFINE m == n - i + 1
    <3>1. m \in Int /\ bucket.period \in Int
      BY <1>1, <2>3
    <3>2. n + 1 - i + 1 = m + 1
      BY <1>3
    <3>3. (m + 1) * bucket.period = m * bucket.period + bucket.period
      <4> HIDE DEF m
      <4> QED
        BY <3>1, NextProduct
    <3> QED
      BY <3>2, <3>3
  <2>6. spent + bucket.period + (bucket.tokens - bucket.period) <= product + paid
    <3> HIDE DEF spent, paid, product
    <3> QED
      BY <1>1, <1>2, <2>2, <2>4
  <2> QED
    BY <2>1, <2>5, <2>6
<1>9. Credit(after, longer)
  <2> SUFFICES ASSUME NEW i \in 1 .. n + 1
               PROVE  /\ longer[i] <= bucket.lastRefill
                      /\ (n + 1 - i + 1) * bucket.period
                           + (bucket.tokens - bucket.period)
                           <= product
                              + bucket.rate * (bucket.lastRefill - longer[i])
    BY <1>4, <1>6 DEF Credit
  <2>1. CASE i \in 1 .. n
    BY <1>4, <1>8, <2>1
  <2>2. CASE i = n + 1
    <3>1. (n + 1 - i + 1) * bucket.period = bucket.period
      BY <1>1, <1>3, <2>2
    <3>2. bucket.rate * (bucket.lastRefill - longer[i]) = 0
      BY <1>1, <1>4, <2>2
    <3> HIDE DEF product
    <3> QED
      BY <1>1, <1>2, <1>4, <2>2, <3>1, <3>2
  <2> QED
    BY <1>3, <2>1, <2>2
<1>10. Rate(after, longer)
  <2> SUFFICES ASSUME NEW i \in 1 .. n + 1, NEW j \in 1 .. n + 1, i <= j
               PROVE  (j - i + 1) * bucket.period
                        <= product + bucket.rate * (longer[j] - longer[i])
    BY <1>4, <1>6 DEF Rate
  <2>1. CASE j \in 1 .. n
    <3>1. i \in 1 .. n
      BY <1>3, <2>1
    <3> QED
      BY <1>4, <2>1, <3>1 DEF Rate
  <2>2. CASE j = n + 1 /\ i \in 1 .. n
    <3> DEFINE all == (n + 1 - i + 1) * bucket.period
               paid == bucket.rate * (bucket.lastRefill - times[i])
    <3>1. all + (bucket.tokens - bucket.period) <= product + paid
      BY <1>8, <2>2
    <3>2. bucket.lastRefill - times[i] \in Nat /\ n + 1 - i + 1 \in Nat
      <4> HIDE DEF n, product
      <4>1. times[i] \in Nat /\ times[i] <= bucket.lastRefill
        BY <1>8, <2>2
      <4>2. i \in Int /\ i <= n
        BY <1>3, <2>2
      <4>3. bucket.lastRefill - times[i] \in Nat
        BY <1>1, <4>1
      <4> QED
        BY <1>3, <4>2, <4>3
    <3>3. all \in Nat /\ paid \in Nat
      BY <1>1, <3>2, ProductNat
    <3>4. all <= product + paid
      <4> HIDE DEF all, paid, product
      <4> QED
        BY <1>1, <1>2, <1>5, <3>1, <3>3
    <3> QED
      BY <1>4, <2>2, <3>4
  <2>3. CASE j = n + 1 /\ i = n + 1
    <3>1. (j - i + 1) * bucket.period = bucket.period
      BY <1>1, <1>3, <2>3
    <3>2. bucket.rate * (longer[j] - longer[i]) = 0
      BY <1>1, <1>4, <2>3
    <3>3. bucket.period <= product + 0
      <4> HIDE DEF product
      <4> QED
        BY <1>1, <1>2
    <3> QED
      BY <3>1, <3>2, <3>3
  <2> QED
    BY <1>3, <2>1, <2>2, <2>3
<1> QED
  BY <1>4, <1>6, <1>7, <1>9, <1>10

\* An unlimited key and a bucket just configured have nothing to pay for.
LEMMA NoGrants == ASSUME NEW bucket PROVE Credit(bucket, <<>>) /\ Rate(bucket, <<>>)
BY DEF Credit, Rate

\* The types and the bound of every bucket are kept by every step.
LEMMA BucketStep ==
  ASSUME TypeOK, BucketInv, [Next]_vars
  PROVE  TypeOK' /\ BucketInv'
<1>1. CASE UNCHANGED vars
  BY <1>1 DEF vars, TypeOK, BucketInv
<1>2. ASSUME NEW key \in Keys, AllowUnlimited(key) PROVE UNCHANGED vars
  BY <1>2 DEF AllowUnlimited
<1>3. ASSUME NEW time \in 0 .. MaxClock, ClockMoves(time)
      PROVE  TypeOK' /\ BucketInv'
  BY <1>3 DEF ClockMoves, TypeOK, BucketInv
\* One key at a time: what holds of the new bucket of key holds of all.
<1>4. ASSUME NEW key \in Keys, NEW bucket \in Bucket,
             NEW times \in Seq(0 .. MaxClock),
             now' = now,
             buckets' = [buckets EXCEPT ![key] = bucket],
             grants' = [grants EXCEPT ![key] = times],
             bucket.tokens <= bucket.rate * bucket.period,
             Credit(bucket, times), Rate(bucket, times)
      PROVE  TypeOK' /\ BucketInv'
  <2>1. /\ buckets \in [Keys -> Bucket] /\ grants \in [Keys -> Seq(0 .. MaxClock)]
        /\ now \in 0 .. MaxClock
    BY DEF TypeOK
  <2>2. \A other \in Keys :
          /\ buckets'[other] = IF other = key THEN bucket ELSE buckets[other]
          /\ grants'[other] = IF other = key THEN times ELSE grants[other]
    BY <1>4, <2>1
  <2>3. buckets' \in [Keys -> Bucket] /\ grants' \in [Keys -> Seq(0 .. MaxClock)]
    BY <1>4, <2>1
  <2>4. \A other \in Keys : buckets'[other].tokens <= Full(buckets'[other])
    BY <1>4, <2>2 DEF TypeOK, Full
  <2>5. BucketInv'
    BY <1>4, <2>2 DEF BucketInv
  <2> QED
    BY <1>4, <2>1, <2>3, <2>4, <2>5 DEF TypeOK, Full
<1>5. ASSUME NEW key \in Keys, AllowGranted(key) \/ AllowDenied(key)
      PROVE  TypeOK' /\ BucketInv'
  <2> DEFINE bucket == Refilled(buckets[key])
  <2>1. /\ bucket \in Bucket /\ bucket.tokens <= bucket.rate * bucket.period
        /\ Credit(bucket, grants[key])
        /\ bucket.rate = buckets[key].rate /\ bucket.period = buckets[key].period
    BY RefillKeepsCredit DEF BucketInv
  <2>2. Rate(bucket, grants[key])
    BY <2>1 DEF BucketInv, Rate
  <2>3. grants[key] \in Seq(0 .. MaxClock) /\ grants = [grants EXCEPT ![key] = grants[key]]
    BY DEF TypeOK
  <2>4. CASE AllowDenied(key)
    BY <1>4, <2>1, <2>2, <2>3, <2>4 DEF AllowDenied
  <2>5. CASE AllowGranted(key)
    <3> DEFINE after == [bucket EXCEPT !.tokens = bucket.tokens - bucket.period]
               longer == Append(grants[key], bucket.lastRefill)
    <3>1. /\ bucket.tokens >= bucket.period /\ now' = now
          /\ buckets' = [buckets EXCEPT ![key] = after]
          /\ grants' = [grants EXCEPT ![key] = longer]
      BY <2>5 DEF AllowGranted
    <3> HIDE DEF bucket
    <3>2. /\ after \in Bucket /\ longer \in Seq(0 .. MaxClock)
          /\ after.rate = bucket.rate /\ after.period = bucket.period
          /\ after.tokens <= bucket.rate * bucket.period
          /\ Credit(after, longer) /\ Rate(after, longer)
      BY <2>1, <2>2, <2>3, <3>1, GrantKeepsRate
    <3> HIDE DEF after, longer
    <3>3. after.tokens <= after.rate * after.period
      BY <3>2
    <3> QED
      BY <1>4, <3>1, <3>2, <3>3
  <2> QED
    BY <1>5, <2>4, <2>5
<1>6. ASSUME NEW key \in Keys, NEW rate \in Rates, NEW period \in Periods,
             Configure(key, rate, period)
      PROVE  TypeOK' /\ BucketInv'
  <2>1. <<>> \in Seq(0 .. MaxClock)
    BY EmptySeq
  <2>2. now \in 0 .. MaxClock /\ rate \in Int /\ period \in Int
    BY LimiterAssumption DEF TypeOK
  <2>3. CASE rate <= 0 \/ period <= 0
    <3>1. Unlimited \in Bucket /\ Unlimited.tokens <= Unlimited.rate * Unlimited.period
      BY LimiterAssumption DEF Unlimited, Bucket
    <3>2. buckets' = [buckets EXCEPT ![key] = Unlimited]
      BY <1>6, <2>3 DEF Configure
    <3> QED
      BY <1>4, <1>6, <2>1, <3>1, <3>2, NoGrants DEF Configure
  <2>4. CASE ~(rate <= 0 \/ period <= 0)
    <3> DEFINE bucket == [rate |-> rate, period |-> period,
                          tokens |-> rate * period, lastRefill |-> now]
    <3>1. rate \in Nat /\ period \in Nat /\ rate * period \in Nat
      BY <2>2, <2>4, ProductNat
    <3>2. bucket \in Bucket /\ bucket.tokens <= bucket.rate * bucket.period
      BY <2>2, <3>1 DEF Bucket
    <3>3. buckets' = [buckets EXCEPT ![key] = bucket]
      BY <1>6, <2>4 DEF Configure
    <3> HIDE DEF bucket
    <3> QED
      BY <1>4, <1>6, <2>1, <3>2, <3>3, NoGrants DEF Configure
  <2> QED
    BY <2>3, <2>4
<1> QED
  BY <1>1, <1>2, <1>3, <1>5, <1>6 DEF Next

\* At first no key has a limit.
LEMMA BucketInit == Init => TypeOK /\ BucketInv
<1> SUFFICES ASSUME Init PROVE TypeOK /\ BucketInv
  OBVIOUS
<1>1. Unlimited \in Bucket /\ Unlimited.tokens <= Unlimited.rate * Unlimited.period
  BY LimiterAssumption DEF Unlimited, Bucket
<1>2. <<>> \in Seq(0 .. MaxClock)
  BY EmptySeq
<1>3. \A key \in Keys : buckets[key] = Unlimited /\ grants[key] = <<>>
  BY DEF Init
<1>4. buckets \in [Keys -> Bucket] /\ grants \in [Keys -> Seq(0 .. MaxClock)]
  BY <1>1, <1>2 DEF Init
<1>5. BucketInv
  BY <1>3, NoGrants DEF BucketInv
<1> QED
  BY <1>1, <1>3, <1>4, <1>5 DEF Init, TypeOK, Full

\* Buckets stay in their types and never hold more than rate tokens.
THEOREM LimiterTypeCorrect == Spec => []TypeOK
<1>1. TypeOK /\ BucketInv /\ [Next]_vars => TypeOK' /\ BucketInv'
  BY BucketStep
<1> QED
  BY <1>1, BucketInit, PTL DEF Spec

\* Whatever the keys, rates, periods and clock: between any two granted calls
\* of a key there are at most rate more than the time between them pays for.
THEOREM RateIsHeld == Spec => []RateHolds
<1>1. TypeOK /\ BucketInv /\ [Next]_vars => TypeOK' /\ BucketInv'
  BY BucketStep
<1>2. BucketInv => RateHolds
  BY DEF BucketInv, Rate, RateHolds, Full
<1> QED
  BY <1>1, <1>2, BucketInit, PTL DEF Spec

\* What a bucket has since its last granted call: all that the time since then
\* has earned, or all that it can hold.
Patient(bucket, times) ==
  /\ bucket = Unlimited \/ (bucket.rate >= 1 /\ bucket.period >= 1)
  /\ \/ bucket.tokens = Full(bucket)
     \/ /\ times # <<>>
        /\ (bucket.lastRefill - times[Len(times)]) * bucket.rate <= bucket.tokens

PatientInv == \A key \in Keys : Patient(buckets[key], grants[key])

\* DeniedOnlyWhenDue, of one step.
DeniedWhenDue ==
  \A key \in Keys :
    AllowDenied(key) =>
      LET times == grants[key]
          bucket == buckets[key]'
      IN /\ times # <<>>
         /\ (bucket.lastRefill - times[Len(times)]) * bucket.rate < bucket.period

LEMMA RefillKeepsPatience ==
  ASSUME TypeOK, NEW key \in Keys, Configured(key), Patient(buckets[key], grants[key])
  PROVE  Patient(Refilled(buckets[key]), grants[key])
<1> DEFINE b == buckets[key]
           times == grants[key]
           last == times[Len(times)]
<1>1. /\ b \in Bucket /\ b.rate \in Nat /\ b.period \in Nat /\ b.tokens \in Nat
      /\ b.lastRefill \in Nat /\ now \in Nat
      /\ b.rate >= 1 /\ b.period >= 1 /\ b.tokens <= Full(b)
      /\ times \in Seq(0 .. MaxClock)
  BY LimiterAssumption DEF TypeOK, Bucket, Configured, Patient
<1>2. CASE now <= b.lastRefill
  BY <1>2 DEF Refilled
<1>3. CASE ~(now <= b.lastRefill)
  <2> DEFINE earned == (now - b.lastRefill) * b.rate
             r == [b EXCEPT !.tokens = Capped(b, b.tokens + earned), !.lastRefill = now]
  <2>1. Refilled(b) = r
    BY <1>3 DEF Refilled, Earned
  <2>2. /\ r.rate = b.rate /\ r.period = b.period /\ r.lastRefill = now
        /\ r.tokens = Capped(b, b.tokens + earned) /\ Full(r) = Full(b)
    BY <1>1 DEF Bucket, Full
  <2>3. earned \in Nat /\ Full(b) \in Nat
    <3>1. now - b.lastRefill \in Nat
      BY <1>1, <1>3
    <3> QED
      BY <1>1, <3>1, ProductNat DEF Full
  <2>4. CASE b.tokens + earned > Full(b) \/ b.tokens = Full(b)
    <3> HIDE DEF b, r, earned
    <3>1. r.tokens = Full(r)
      BY <1>1, <2>2, <2>3, <2>4 DEF Capped
    <3>2. r.rate >= 1 /\ r.period >= 1
      BY <1>1, <2>2
    <3>3. Patient(r, times)
      BY <3>1, <3>2 DEF Patient
    <3> QED
      BY <2>1, <3>3 DEF b
  <2>5. CASE ~(b.tokens + earned > Full(b)) /\ b.tokens # Full(b)
    <3>1. times # <<>> /\ (b.lastRefill - last) * b.rate <= b.tokens
      BY <2>5 DEF Patient
    <3>2. last \in Nat
      <4>1. Len(times) \in 1 .. Len(times)
        BY <1>1, <3>1
      <4>2. last \in 0 .. MaxClock
        BY <1>1, <4>1, ElementOfSeq
      <4> QED
        BY <4>2, LimiterAssumption
    <3> HIDE DEF b, r, times, last
    <3>3. (now - last) * b.rate = (b.lastRefill - last) * b.rate + (now - b.lastRefill) * b.rate
      BY <1>1, <3>2
    <3>4. (now - last) * b.rate <= b.tokens + earned
      <4>1. PICK x \in Int : x = (b.lastRefill - last) * b.rate
        BY <1>1, <3>2
      <4>2. (now - last) * b.rate = x + earned /\ x <= b.tokens
        BY <3>1, <3>3, <4>1
      <4> HIDE DEF earned
      <4> QED
        BY <1>1, <2>3, <4>1, <4>2
    <3>5. r.tokens = b.tokens + earned
      BY <2>2, <2>5 DEF Capped
    <3>6. (r.lastRefill - times[Len(times)]) * r.rate <= r.tokens
      BY <2>2, <3>4, <3>5 DEF last
    <3>7. r.rate >= 1 /\ r.period >= 1
      BY <1>1, <2>2
    <3>8. Patient(r, times)
      BY <3>1, <3>6, <3>7 DEF Patient
    <3> QED
      BY <2>1, <3>8 DEF b, times
  <2> QED
    BY <2>4, <2>5
<1> QED
  BY <1>2, <1>3

\* A call is denied for want of tokens: the bucket is not full, since a full one
\* holds at least the period.
LEMMA DenialIsDue ==
  ASSUME TypeOK, PatientInv, NEW key \in Keys, AllowDenied(key)
  PROVE  /\ grants[key] # <<>>
         /\ (buckets'[key].lastRefill - grants[key][Len(grants[key])]) * buckets'[key].rate
              < buckets'[key].period
<1> DEFINE bucket == Refilled(buckets[key])
           times == grants[key]
<1>1. Configured(key) /\ bucket.tokens < bucket.period /\ buckets'[key] = bucket
  BY DEF AllowDenied, TypeOK
<1>2. /\ bucket \in Bucket /\ bucket.rate \in Nat /\ bucket.period \in Nat
      /\ bucket.tokens \in Nat /\ bucket.rate = buckets[key].rate
      /\ bucket.period = buckets[key].period
  <2>1. bucket.rate = buckets[key].rate /\ bucket.period = buckets[key].period
    BY DEF TypeOK, Bucket, Refilled
  <2>2. bucket.tokens \in Nat
    <3>1. buckets[key] \in Bucket
      BY DEF TypeOK
    <3>2. buckets[key].tokens \in Nat /\ Full(buckets[key]) \in Nat
      BY <3>1, ProductNat DEF Bucket, Full
    <3>3. now <= buckets[key].lastRefill \/ Earned(buckets[key]) \in Nat
      <4>1. /\ now \in Nat /\ buckets[key].lastRefill \in Nat /\ buckets[key].rate \in Nat
        BY <3>1, LimiterAssumption DEF TypeOK, Bucket
      <4>2. ~(now <= buckets[key].lastRefill) => now - buckets[key].lastRefill \in Nat
        BY <4>1
      <4> QED
        BY <4>1, <4>2, ProductNat DEF Earned
    <3> QED
      BY <3>1, <3>2, <3>3 DEF Refilled, Capped, Bucket
  <2>3. bucket \in Bucket
    BY <2>2 DEF TypeOK, Bucket, Refilled
  <2> QED
    BY <2>1, <2>2, <2>3 DEF Bucket
<1>3. Patient(bucket, times)
  BY <1>1, RefillKeepsPatience DEF PatientInv
<1>4. bucket.rate >= 1
  BY <1>1, <1>2 DEF PatientInv, Patient, Configured
<1> HIDE DEF bucket, times
<1>5. bucket.tokens # Full(bucket)
  <2>1. bucket.rate * bucket.period >= bucket.period
    <3>1. bucket.rate - 1 \in Nat
      BY <1>2, <1>4
    <3>2. bucket.rate * bucket.period = (bucket.rate - 1) * bucket.period + bucket.period
      BY <1>2, <3>1
    <3>3. (bucket.rate - 1) * bucket.period \in Nat
      BY <1>2, <3>1, ProductNat
    <3> QED
      BY <1>2, <3>2, <3>3
  <2> QED
    BY <1>1, <1>2, <2>1 DEF Full
<1>6. times # <<>> /\ (bucket.lastRefill - times[Len(times)]) * bucket.rate <= bucket.tokens
  BY <1>3, <1>5 DEF Patient
<1>7. (bucket.lastRefill - times[Len(times)]) * bucket.rate < bucket.period
  <2>1. times \in Seq(0 .. MaxClock) /\ Len(times) \in 1 .. Len(times)
    BY <1>6 DEF TypeOK, times
  <2>2. times[Len(times)] \in Int /\ bucket.lastRefill \in Int
    BY <1>2, <2>1, ElementOfSeq, LimiterAssumption DEF Bucket
  <2>3. PICK x \in Int : x = (bucket.lastRefill - times[Len(times)]) * bucket.rate
    BY <1>2, <2>2
  <2> QED
    BY <1>1, <1>2, <1>6, <2>3
<1> QED
  BY <1>1, <1>6, <1>7 DEF times

\* A granted call starts the next wait with what is left.
LEMMA GrantKeepsPatience ==
  ASSUME TypeOK, TypeOK', PatientInv, NEW key \in Keys, AllowGranted(key)
  PROVE  Patient(buckets'[key], grants'[key])
<1> DEFINE bucket == Refilled(buckets[key])
<1>1. /\ Configured(key) /\ bucket.tokens >= bucket.period
      /\ buckets'[key] = [bucket EXCEPT !.tokens = bucket.tokens - bucket.period]
      /\ grants'[key] = Append(grants[key], bucket.lastRefill)
  BY DEF AllowGranted, TypeOK
<1>2. /\ buckets'[key] \in Bucket /\ grants'[key] \in Seq(0 .. MaxClock)
      /\ grants[key] \in Seq(0 .. MaxClock)
  BY DEF TypeOK
<1>3. /\ buckets'[key].rate = buckets[key].rate /\ buckets'[key].period = buckets[key].period
      /\ buckets'[key].lastRefill = bucket.lastRefill
  BY <1>1 DEF TypeOK, Bucket, Refilled
<1>4. buckets'[key].rate >= 1 /\ buckets'[key].period >= 1
  BY <1>1, <1>3 DEF PatientInv, Patient, Configured
<1> HIDE DEF bucket
<1>5. grants'[key] # <<>> /\ grants'[key][Len(grants'[key])] = bucket.lastRefill
  BY <1>1, <1>2
<1>6. /\ buckets'[key].lastRefill \in Int /\ buckets'[key].rate \in Int
      /\ buckets'[key].tokens >= 0
  BY <1>2, LimiterAssumption DEF Bucket
<1>7. (bucket.lastRefill - bucket.lastRefill) * buckets'[key].rate = 0
  BY <1>3, <1>6
<1> QED
  BY <1>3, <1>4, <1>5, <1>6, <1>7 DEF Patient

LEMMA PatientStep ==
  ASSUME TypeOK, TypeOK', PatientInv, [Next]_vars
  PROVE  PatientInv' /\ DeniedWhenDue
<1>1. DeniedWhenDue
  BY DenialIsDue DEF DeniedWhenDue
<1>2. CASE UNCHANGED vars
  BY <1>1, <1>2 DEF vars, PatientInv
\* One key at a time.
<1>3. ASSUME NEW key \in Keys, Patient(buckets'[key], grants'[key]),
             \A other \in Keys \ {key} :
               buckets'[other] = buckets[other] /\ grants'[other] = grants[other]
      PROVE  PatientInv'
  BY <1>3 DEF PatientInv
<1>4. ASSUME NEW key \in Keys, AllowGranted(key) PROVE PatientInv'
  <2>1. Patient(buckets'[key], grants'[key])
    BY <1>4, GrantKeepsPatience
  <2>2. \A other \in Keys \ {key} :
          buckets'[other] = buckets[other] /\ grants'[other] = grants[other]
    BY <1>4 DEF AllowGranted, TypeOK
  <2> QED
    BY <1>3, <2>1, <2>2
<1>5. ASSUME NEW key \in Keys, AllowDenied(key) PROVE PatientInv'
  <2>1. /\ Configured(key) /\ buckets'[key] = Refilled(buckets[key])
        /\ grants'[key] = grants[key]
    BY <1>5 DEF AllowDenied, TypeOK
  <2>2. Patient(buckets'[key], grants'[key])
    BY <2>1, RefillKeepsPatience DEF PatientInv
  <2>3. \A other \in Keys \ {key} :
          buckets'[other] = buckets[other] /\ grants'[other] = grants[other]
    BY <1>5 DEF AllowDenied, TypeOK
  <2> QED
    BY <1>3, <2>2, <2>3
<1>6. ASSUME NEW key \in Keys, NEW rate \in Rates, NEW period \in Periods,
             Configure(key, rate, period)
      PROVE  PatientInv'
  <2>1. rate \in Int /\ period \in Int
    BY LimiterAssumption
  <2>2. buckets'[key] = IF rate <= 0 \/ period <= 0 THEN Unlimited
                        ELSE [rate |-> rate, period |-> period,
                              tokens |-> rate * period, lastRefill |-> now]
    BY <1>6 DEF Configure, TypeOK
  <2>3. Patient(buckets'[key], grants'[key])
    <3>1. CASE rate <= 0 \/ period <= 0
      <4>1. buckets'[key] = Unlimited
        BY <2>2, <3>1
      <4>2. Unlimited.tokens = Full(Unlimited)
        BY DEF Unlimited, Full
      <4> QED
        BY <4>1, <4>2 DEF Patient
    <3>2. CASE ~(rate <= 0 \/ period <= 0)
      <4>1. buckets'[key] = [rate |-> rate, period |-> period,
                             tokens |-> rate * period, lastRefill |-> now]
        BY <2>2, <3>2
      <4>2. buckets'[key].tokens = Full(buckets'[key])
        BY <4>1 DEF Full
      <4>3. buckets'[key].rate >= 1 /\ buckets'[key].period >= 1
        BY <2>1, <3>2, <4>1
      <4> QED
        BY <4>2, <4>3 DEF Patient
    <3> QED
      BY <3>1, <3>2
  <2>4. \A other \in Keys \ {key} :
          buckets'[other] = buckets[other] /\ grants'[other] = grants[other]
    BY <1>6 DEF Configure, TypeOK
  <2> QED
    BY <1>3, <2>3, <2>4
<1>7. ASSUME NEW time \in 0 .. MaxClock, ClockMoves(time) PROVE PatientInv'
  BY <1>7 DEF ClockMoves, PatientInv
<1>8. ASSUME NEW key \in Keys, AllowUnlimited(key) PROVE PatientInv'
  BY <1>8 DEF AllowUnlimited, vars, PatientInv
<1> QED
  BY <1>1, <1>2, <1>4, <1>5, <1>6, <1>7, <1>8 DEF Next

\* memory_limiter.go:103-128: whatever the polling and the clock, a call is
\* denied only if too little time has passed since the last granted one.
THEOREM DenialsAreDue == Spec => DeniedOnlyWhenDue
<1>1. Init => PatientInv
  <2>1. Unlimited.tokens = Full(Unlimited)
    BY DEF Unlimited, Full
  <2> QED
    BY <2>1 DEF Init, PatientInv, Patient
<1>2. TypeOK /\ TypeOK' /\ PatientInv /\ [Next]_vars => PatientInv' /\ DeniedWhenDue
  BY PatientStep
<1>3. DeniedWhenDue <=>
        \A key \in Keys :
          AllowDenied(key) =>
            LET times == grants[key]
                bucket == buckets[key]'
            IN /\ times # <<>>
               /\ (bucket.lastRefill - times[Len(times)]) * bucket.rate < bucket.period
  BY DEF DeniedWhenDue
<1> QED
  BY <1>1, <1>2, <1>3, LimiterTypeCorrect, PTL DEF Spec, DeniedOnlyWhenDue

-------------------------------------------------------------------------------
(* FallbackCache. *)

\* An entry is where it belongs, also on its way into the map and out of it.
InPlace ==
  /\ \A address \in Addresses :
       entries[address] # Absent => entries[address].of = address
  /\ \A client \in CacheClients :
       op[client] # Idling => op[client].entry.of = op[client].address

CacheInv == CacheTypeOK /\ InPlace

Call == [kind : {"set", "get"}, address : Addresses, entry : Entry]

\* A call is told from an idle client by its kind.
LEMMA CallOfKind ==
  ASSUME CacheTypeOK, NEW client \in CacheClients,
         op[client].kind \in {"set", "get"}
  PROVE  op[client] \in Call /\ op[client] # Idling
BY DEF CacheTypeOK, Call, Idling

LEMMA CallIsNotIdle == ASSUME NEW call \in Call PROVE call # Idling
<1>1. call.kind \in {"set", "get"}
  BY DEF Call
<1>2. Idling.kind = "idle"
  BY DEF Idling
<1> QED
  BY <1>1, <1>2

LEMMA EntryIsNotAbsent == ASSUME NEW entry \in Entry PROVE entry # Absent
<1>1. entry.created \in 0 .. MaxCacheClock
  BY DEF Entry
<1>2. Absent.created = -1
  BY DEF Absent
<1> QED
  BY <1>1, <1>2, CacheAssumption

LEMMA EntryIsTimed ==
  ASSUME NEW entry \in Entry PROVE entry.created \in Nat /\ entry.ttl \in Int
<1>1. entry.created \in 0 .. MaxCacheClock /\ entry.ttl \in TTLs
  BY DEF Entry
<1>2. \A time \in 0 .. MaxCacheClock : time \in Nat
  BY CacheAssumption
<1>3. \A ttl \in TTLs : ttl \in Int
  BY CacheAssumption
<1> QED
  BY <1>1, <1>2, <1>3

LEMMA CacheInitOK == CacheInit => CacheInv
BY CacheAssumption DEF CacheInit, CacheInv, CacheTypeOK, InPlace

LEMMA StampKeeps ==
  ASSUME CacheInv, NEW client \in CacheClients, NEW address \in Addresses,
         NEW ttl \in TTLs, Stamp(client, address, ttl)
  PROVE  CacheInv'
<1> DEFINE entry == [created |-> cacheClock,
                     expires |-> IF ttl > 0 THEN cacheClock + ttl ELSE Never,
                     of |-> address, ttl |-> ttl]
           call == [kind |-> "set", address |-> address, entry |-> entry]
<1>1. /\ entry \in Entry
      /\ ExpiresAsAsked(entry)
  BY CacheAssumption DEF CacheInv, CacheTypeOK, Entry, ExpiresAsAsked, Never
<1>2. call \in Call /\ call.entry = entry /\ call.address = address
  BY <1>1 DEF Call
<1>3. op' = [op EXCEPT ![client] = call]
  BY DEF Stamp
<1> HIDE DEF call
<1>4. \A other \in CacheClients :
        op'[other] = IF other = client THEN call ELSE op[other]
  BY <1>3 DEF CacheInv, CacheTypeOK
<1>5. op' \in [CacheClients -> Call \cup {Idling}]
  BY <1>2, <1>3 DEF CacheInv, CacheTypeOK, Call
<1>6. CacheTypeOK'
  BY <1>1, <1>2, <1>4, <1>5 DEF CacheInv, CacheTypeOK, Stamp, Call, ExpiresAsAsked
<1>7. InPlace'
  BY <1>2, <1>4 DEF CacheInv, InPlace, Stamp
<1> QED
  BY <1>6, <1>7 DEF CacheInv

LEMMA StoreKeeps ==
  ASSUME CacheInv, NEW client \in CacheClients, Store(client)
  PROVE  CacheInv'
<1> DEFINE call == op[client]
<1>1. /\ call \in Call
      /\ call # Idling
      /\ call.entry \in Entry
      /\ call.address \in Addresses
      /\ ExpiresAsAsked(call.entry)
      /\ call.entry.of = call.address
  BY CallOfKind DEF CacheInv, CacheTypeOK, InPlace, Store, Call
<1>2. entries' = [entries EXCEPT ![call.address] = call.entry]
  BY DEF Store, MapKey, Stored
<1> HIDE DEF call
<1>3. \A address \in Addresses :
        entries'[address] = IF address = call.address THEN call.entry
                            ELSE entries[address]
  BY <1>2 DEF CacheInv, CacheTypeOK
<1>4. \A other \in CacheClients : op'[other] = IF other = client THEN Idling ELSE op[other]
  BY DEF CacheInv, CacheTypeOK, Store
<1>5. /\ op' \in [CacheClients -> Call \cup {Idling}]
      /\ entries' \in [Addresses -> Entry \cup {Absent}]
  BY <1>1, <1>2 DEF CacheInv, CacheTypeOK, Store, Call
<1>6. CacheTypeOK'
  BY <1>1, <1>3, <1>4, <1>5 DEF CacheInv, CacheTypeOK, Store, Call, ExpiresAsAsked
<1>7. InPlace'
  BY <1>1, <1>3, <1>4 DEF CacheInv, InPlace
<1> QED
  BY <1>6, <1>7 DEF CacheInv

LEMMA LookupKeeps ==
  ASSUME CacheInv, NEW client \in CacheClients, NEW address \in Addresses,
         LookupFinds(client, address)
  PROVE  CacheInv'
<1> DEFINE entry == entries[address]
           call == [kind |-> "get", address |-> address, entry |-> entry]
<1>1. /\ entry \in Entry
      /\ ExpiresAsAsked(entry)
      /\ entry.of = address
  BY DEF CacheInv, CacheTypeOK, InPlace, LookupFinds, MapKey
<1>2. call \in Call /\ call.entry = entry /\ call.address = address
  BY <1>1 DEF Call
<1>3. op' = [op EXCEPT ![client] = call]
  BY DEF LookupFinds, MapKey
<1> HIDE DEF call, entry
<1>4. \A other \in CacheClients :
        op'[other] = IF other = client THEN call ELSE op[other]
  BY <1>3 DEF CacheInv, CacheTypeOK
<1>5. op' \in [CacheClients -> Call \cup {Idling}]
  BY <1>2, <1>3 DEF CacheInv, CacheTypeOK, Call
<1>6. CacheTypeOK'
  BY <1>1, <1>2, <1>4, <1>5
     DEF CacheInv, CacheTypeOK, LookupFinds, Call, ExpiresAsAsked
<1>7. InPlace'
  BY <1>1, <1>2, <1>4 DEF CacheInv, InPlace, LookupFinds
<1> QED
  BY <1>6, <1>7 DEF CacheInv

LEMMA JudgeKeeps ==
  ASSUME CacheInv, NEW client \in CacheClients, NEW source, Judge(client, source)
  PROVE  CacheInv'
<1>1. \A other \in CacheClients : op'[other] = IF other = client THEN Idling ELSE op[other]
  BY DEF CacheInv, CacheTypeOK, Judge
<1>2. op' \in [CacheClients -> Call \cup {Idling}]
  BY DEF CacheInv, CacheTypeOK, Judge, Call
<1> QED
  BY <1>1, <1>2 DEF CacheInv, CacheTypeOK, InPlace, Judge, Call, ExpiresAsAsked

LEMMA CacheStep == CacheInv /\ [CacheNext]_cacheVars => CacheInv'
<1> SUFFICES ASSUME CacheInv, [CacheNext]_cacheVars PROVE CacheInv'
  OBVIOUS
<1>1. CASE UNCHANGED cacheVars
  BY <1>1 DEF CacheInv, CacheTypeOK, InPlace, cacheVars, ExpiresAsAsked
<1>2. ASSUME NEW client \in CacheClients, NEW address \in Addresses,
             NEW ttl \in TTLs, Stamp(client, address, ttl)
      PROVE  CacheInv'
  BY <1>2, StampKeeps
<1>3. ASSUME NEW client \in CacheClients, Store(client) PROVE CacheInv'
  BY <1>3, StoreKeeps
<1>4. ASSUME NEW client \in CacheClients, NEW address \in Addresses,
             LookupMisses(client, address)
      PROVE  CacheInv'
  BY <1>1, <1>4 DEF LookupMisses
<1>5. ASSUME NEW client \in CacheClients, NEW address \in Addresses,
             LookupFinds(client, address)
      PROVE  CacheInv'
  BY <1>5, LookupKeeps
<1>6. ASSUME NEW client \in CacheClients, NEW source, Judge(client, source)
      PROVE  CacheInv'
  BY <1>6, JudgeKeeps
<1>7. CASE CacheTick
  BY <1>7, CacheAssumption
     DEF CacheTick, CacheInv, CacheTypeOK, InPlace, ExpiresAsAsked
<1> QED
  BY <1>1, <1>2, <1>3, <1>4, <1>5, <1>6, <1>7 DEF CacheNext

LEMMA CacheInvariant == CacheSpec => []CacheInv
BY CacheInitOK, CacheStep, PTL DEF CacheSpec

\* memory_fallback.go:94-108: an entry expires when its Set asked for, whatever
\* happens between its reading the clock and its taking the lock.
THEOREM CacheTypeCorrect == CacheSpec => []CacheTypeOK
<1>1. CacheInv => CacheTypeOK
  BY DEF CacheInv
<1> QED
  BY <1>1, CacheInvariant, PTL

\* memory_fallback.go:111-123: with the clock of the moment a reader judges by,
\* "exact", "stale" and thrown away are told apart by age alone.
LEMMA JudgedByAge ==
  ASSUME CacheInv, NEW client \in CacheClients
  PROVE  LET entry == op[client].entry IN
         /\ Judge(client, "exact") => entry.ttl <= 0 \/ Age(entry) <= entry.ttl
         /\ Judge(client, "stale") => /\ entry.ttl > 0
                                      /\ Age(entry) > entry.ttl
                                      /\ Age(entry) <= entry.ttl + staleTTL
         /\ Judge(client, "none") => /\ entry.ttl > 0
                                     /\ Age(entry) > entry.ttl
                                     /\ Age(entry) > entry.ttl + staleTTL
<1> DEFINE entry == op[client].entry
<1> SUFFICES ASSUME op[client].kind = "get"
             PROVE  /\ SourceFor(entry) = "exact" =>
                         entry.ttl <= 0 \/ Age(entry) <= entry.ttl
                    /\ SourceFor(entry) = "stale" =>
                         /\ entry.ttl > 0
                         /\ Age(entry) > entry.ttl
                         /\ Age(entry) <= entry.ttl + staleTTL
                    /\ SourceFor(entry) = "none" =>
                         /\ entry.ttl > 0
                         /\ Age(entry) > entry.ttl
                         /\ Age(entry) > entry.ttl + staleTTL
  BY DEF Judge
<1>1. entry \in Entry /\ ExpiresAsAsked(entry)
  BY CallOfKind DEF CacheInv, CacheTypeOK, Call
<1>2. staleTTL \in Int /\ cacheClock \in Nat
  BY CacheAssumption DEF CacheInv, CacheTypeOK
<1> HIDE DEF entry
<1>3. entry.created \in Nat /\ entry.ttl \in Int
  BY <1>1, EntryIsTimed
<1>4. entry.expires = IF entry.ttl > 0 THEN entry.created + entry.ttl ELSE Never
  BY <1>1 DEF ExpiresAsAsked
<1> QED
  BY <1>2, <1>3, <1>4 DEF SourceFor, Age, Never

\* memory_fallback.go:84-85: however late an entry got into the map and however
\* late it is judged, it is served exactly as long as was asked.
THEOREM AnswersServedByAge == CacheSpec => ServedByAge
<1>1. CacheInv => \A client \in CacheClients : LET entry == op[client].entry IN
        /\ Judge(client, "exact") => entry.ttl <= 0 \/ Age(entry) <= entry.ttl
        /\ Judge(client, "stale") => /\ entry.ttl > 0
                                     /\ Age(entry) > entry.ttl
                                     /\ Age(entry) <= entry.ttl + staleTTL
        /\ Judge(client, "none") => /\ entry.ttl > 0
                                    /\ Age(entry) > entry.ttl
                                    /\ Age(entry) > entry.ttl + staleTTL
  BY JudgedByAge
<1> QED
  BY <1>1, CacheInvariant, PTL DEF ServedByAge

\* cache.go:16, :189: nobody is served another scope's answer, for any number
\* of tenants, users and clients and any interleaving of their calls.
THEOREM ScopesAreKept == CacheSpec => AnswersItsScope
<1>1. CacheInv =>
        \A client \in CacheClients, source \in {"exact", "stale"} :
          Judge(client, source) => op[client].entry.of = op[client].address
  BY CallOfKind DEF CacheInv, InPlace, Judge
<1> QED
  BY <1>1, CacheInvariant, PTL DEF AnswersItsScope

\* memory_fallback.go:58-108, all of it: the cache answers as it was asked to,
\* for any scopes, times to live and clients.
THEOREM CacheKeepsItsPromise == CacheSpec => AnswersAsAsked
BY CacheTypeCorrect, AnswersServedByAge, ScopesAreKept DEF AnswersAsAsked

-------------------------------------------------------------------------------
(* ToolRegistry. *)

\* A tool that has been validated and waits for the lock is still valid:
\* nobody edits a schema that it has passed to Register.
StillRegistrable ==
  \A registrant \in Registrants :
    registering[registrant] # Nobody => Registrable(registering[registrant])

RegistryInv ==
  /\ RegistryTypeOK
  /\ StillRegistrable
  /\ ContractValid
  /\ OfferedAreCallable

\* ContractFrozen, of one step.
Frozen ==
  \A name \in ToolNames :
    Taken(name) => /\ registered'[name] = registered[name]
                   /\ Contract(name)' = Contract(name)

LEMMA CellsDiffer ==
  /\ \A tool, name : OwnCell(tool) # KeptCell(name)
  /\ \A tool, reader, name : OwnCell(tool) # CopyCell(reader, name)
  /\ \A other, reader, name : KeptCell(other) # CopyCell(reader, name)
  /\ \A one, two : KeptCell(one) = KeptCell(two) => one = two
  /\ \A one, two : OwnCell(one) = OwnCell(two) => one = two
BY DEF OwnCell, KeptCell, CopyCell

LEMMA CellsAreCells ==
  /\ \A tool \in Tools : OwnCell(tool) \in Cells
  /\ \A name \in ToolNames : KeptCell(name) \in Cells
  /\ CopyCells \subseteq Cells
BY DEF Cells, OwnCells, KeptCells, CopyCells

LEMMA KeptOfTaken ==
  ASSUME RegistryTypeOK, NEW name \in ToolNames, Taken(name)
  PROVE  /\ registered[name].tool \in Tools
         /\ registered[name].parameters = KeptCell(name)
         /\ Contract(name) = schema[KeptCell(name)]
         /\ Contract(name) \in Schemas
<1>1. registered[name] \in [tool : Tools, parameters : Cells]
  BY DEF RegistryTypeOK, Taken
<1>2. registered[name].parameters = KeptCell(name)
  BY DEF RegistryTypeOK
<1> QED
  BY <1>1, <1>2, CellsAreCells DEF Contract, RegistryTypeOK

\* A step that leaves the tools and the kept maps alone freezes contracts.
LEMMA KeptMapsFreeze ==
  ASSUME RegistryTypeOK, UNCHANGED registered,
         \A name \in ToolNames : schema'[KeptCell(name)] = schema[KeptCell(name)]
  PROVE  Frozen
<1> SUFFICES ASSUME NEW name \in ToolNames, Taken(name)
             PROVE  Contract(name)' = Contract(name)
  BY DEF Frozen
<1> QED
  BY KeptOfTaken DEF Contract

\* What was offered stays callable over a step that freezes contracts.
LEMMA FrozenKeepsOffers ==
  ASSUME RegistryInv, Frozen, UNCHANGED offers
  PROVE  OfferedAreCallable'
<1> SUFFICES ASSUME NEW reader \in Readers, NEW offer \in offers[reader]
             PROVE  (Taken(offer.name) /\ offer.parameters = Contract(offer.name))'
  BY DEF OfferedAreCallable
<1>1. /\ Taken(offer.name)
      /\ offer.parameters = Contract(offer.name)
      /\ offer.name \in ToolNames
  BY DEF RegistryInv, OfferedAreCallable, RegistryTypeOK
<1> QED
  BY <1>1 DEF Frozen, Taken

\* Reading copies kept maps into the reader's and touches no other.
LEMMA CopiedKeeps ==
  ASSUME RegistryInv, NEW reader \in Readers, NEW names \in SUBSET ToolNames,
         \A name \in names : Taken(name), Copied(reader, names)
  PROVE  /\ schema' \in [Cells -> Schemas]
         /\ \A name \in ToolNames : schema'[KeptCell(name)] = schema[KeptCell(name)]
         /\ \A tool \in Tools : schema'[OwnCell(tool)] = schema[OwnCell(tool)]
<1> DEFINE copied(cell) == \E name \in names : cell = CopyCell(reader, name)
           from(cell) == CHOOSE name \in names : cell = CopyCell(reader, name)
<1>1. \A cell : copied(cell) => from(cell) \in names
  OBVIOUS
<1>2. schema' = [cell \in Cells |-> IF copied(cell) THEN Contract(from(cell))
                                    ELSE schema[cell]]
  BY DEF Copied
<1>3. \A name \in names : Contract(name) \in Schemas
  BY KeptOfTaken DEF RegistryInv
<1>4. \A name \in ToolNames : ~copied(KeptCell(name))
  BY CellsDiffer
<1>5. \A tool \in Tools : ~copied(OwnCell(tool))
  BY CellsDiffer
<1> HIDE DEF copied, from
<1>6. \A cell \in Cells : copied(cell) => Contract(from(cell)) \in Schemas
  BY <1>1, <1>3
<1>7. \A cell \in Cells :
        (IF copied(cell) THEN Contract(from(cell)) ELSE schema[cell]) \in Schemas
  BY <1>6 DEF RegistryInv, RegistryTypeOK
<1> QED
  BY <1>2, <1>4, <1>5, <1>7, CellsAreCells

LEMMA RegistryInitOK == RegistryInit => RegistryInv
<1> SUFFICES ASSUME RegistryInit PROVE RegistryInv
  OBVIOUS
<1>1. \A name \in ToolNames : ~Taken(name)
  BY DEF RegistryInit, Taken
<1>2. RegistryTypeOK
  BY <1>1 DEF RegistryInit, RegistryTypeOK
<1>3. StillRegistrable
  BY DEF RegistryInit, StillRegistrable
<1>4. ContractValid /\ OfferedAreCallable
  BY <1>1 DEF RegistryInit, ContractValid, OfferedAreCallable
<1> QED
  BY <1>2, <1>3, <1>4 DEF RegistryInv

LEMMA ValidatesKeeps ==
  ASSUME RegistryInv, NEW registrant \in Registrants, NEW tool \in Tools,
         Validates(registrant, tool)
  PROVE  RegistryInv' /\ Frozen
<1>1. Frozen
  BY KeptMapsFreeze DEF Validates, RegistryInv
<1>2. RegistryTypeOK'
  BY DEF Validates, RegistryInv, RegistryTypeOK, Taken
<1>3. StillRegistrable'
  BY DEF Validates, RegistryInv, RegistryTypeOK, StillRegistrable, Registrable
<1>4. ContractValid'
  BY DEF Validates, RegistryInv, ContractValid, Taken, Contract
<1>5. OfferedAreCallable'
  BY <1>1, FrozenKeepsOffers DEF Validates
<1> QED
  BY <1>1, <1>2, <1>3, <1>4, <1>5 DEF RegistryInv

\* The first tool of a name is stored with a copy of its schema, which was
\* valid when it was looked at and still is.
LEMMA StoresKeeps ==
  ASSUME RegistryInv, NEW registrant \in Registrants, Stores(registrant)
  PROVE  RegistryInv' /\ Frozen
<1> DEFINE tool == registering[registrant]
           taken == NameOf[tool]
           item == [tool |-> tool, parameters |-> KeptCell(taken)]
           contract == schema[OwnCell(tool)]
<1>1. tool \in Tools
  BY DEF Stores, RegistryInv, RegistryTypeOK
<1>2. taken \in ToolNames /\ contract \in ValidSchemas /\ contract \in Schemas
  BY <1>1, RegistryAssumption, CellsAreCells
     DEF Stores, RegistryInv, StillRegistrable, Registrable, RegistryTypeOK
<1>3. ~Taken(taken)
  BY DEF Stores, NameIsFree
<1>4. /\ registered' = [registered EXCEPT ![taken] = item]
      /\ schema' = [schema EXCEPT ![KeptCell(taken)] = contract]
      /\ registering' = [registering EXCEPT ![registrant] = Nobody]
      /\ offers' = offers
  BY DEF Stores, Keeps, Done
<1>5. /\ item \in [tool : Tools, parameters : Cells]
      /\ item.tool = tool /\ item.parameters = KeptCell(taken)
  BY <1>1, <1>2, CellsAreCells
<1>6. NameOf[tool] = taken
  OBVIOUS
<1> HIDE DEF taken, item, contract
<1>7. \A name \in ToolNames :
        registered'[name] = IF name = taken THEN item ELSE registered[name]
  BY <1>4 DEF RegistryInv, RegistryTypeOK
<1>8. \A cell \in Cells :
        schema'[cell] = IF cell = KeptCell(taken) THEN contract ELSE schema[cell]
  BY <1>4 DEF RegistryInv, RegistryTypeOK
<1>9. Frozen
  <2> SUFFICES ASSUME NEW name \in ToolNames, Taken(name)
               PROVE  /\ registered'[name] = registered[name]
                      /\ Contract(name)' = Contract(name)
    BY DEF Frozen
  <2>1. name # taken
    BY <1>3
  <2>2. registered'[name] = registered[name]
    BY <2>1, <1>7
  <2>3. schema'[KeptCell(name)] = schema[KeptCell(name)]
    BY <2>1, <1>8, CellsDiffer, CellsAreCells
  <2> QED
    BY <2>2, <2>3, KeptOfTaken DEF Contract, RegistryInv
<1>10. RegistryTypeOK'
  <2>1. /\ schema' \in [Cells -> Schemas]
        /\ registered' \in [ToolNames -> [tool : Tools, parameters : Cells] \cup {Free}]
    BY <1>2, <1>4, <1>5 DEF RegistryInv, RegistryTypeOK
  <2>2. ASSUME NEW name \in ToolNames, Taken(name)'
        PROVE  /\ NameOf[registered'[name].tool] = name
               /\ registered'[name].parameters = KeptCell(name)
    <3>1. CASE name = taken
      BY <3>1, <1>5, <1>6, <1>7
    <3>2. CASE name # taken
      BY <3>2, <2>2, <1>7 DEF Taken, RegistryInv, RegistryTypeOK
    <3> QED
      BY <3>1, <3>2
  <2> QED
    BY <2>1, <2>2, <1>4 DEF RegistryInv, RegistryTypeOK
<1>11. StillRegistrable'
  <2> SUFFICES ASSUME NEW other \in Registrants, registering'[other] # Nobody
               PROVE  Registrable(registering[other])'
    BY DEF StillRegistrable
  <2>1. registering'[other] = registering[other] /\ registering[other] \in Tools
    BY <1>4 DEF RegistryInv, RegistryTypeOK
  <2>2. schema'[OwnCell(registering[other])] = schema[OwnCell(registering[other])]
    BY <2>1, <1>8, CellsDiffer, CellsAreCells
  <2> QED
    BY <2>1, <2>2 DEF RegistryInv, StillRegistrable, Registrable
<1>12. ContractValid'
  <2> SUFFICES ASSUME NEW name \in ToolNames, Taken(name)'
               PROVE  Contract(name)' \in ValidSchemas
    BY DEF ContractValid
  <2>1. CASE name = taken
    BY <2>1, <1>2, <1>5, <1>7, <1>8, CellsAreCells DEF Contract
  <2>2. CASE name # taken
    <3>1. Taken(name)
      BY <2>2, <1>7 DEF Taken
    <3> QED
      BY <3>1, <1>9 DEF Frozen, RegistryInv, ContractValid
  <2> QED
    BY <2>1, <2>2
<1>13. OfferedAreCallable'
  BY <1>4, <1>9, FrozenKeepsOffers
<1> QED
  BY <1>9, <1>10, <1>11, <1>12, <1>13 DEF RegistryInv

LEMMA RejectsKeeps ==
  ASSUME RegistryInv, NEW registrant \in Registrants, RejectsDuplicate(registrant)
  PROVE  RegistryInv' /\ Frozen
<1>1. Frozen
  BY KeptMapsFreeze DEF RejectsDuplicate, RegistryInv
<1>2. RegistryTypeOK'
  BY DEF RejectsDuplicate, Done, RegistryInv, RegistryTypeOK, Taken
<1>3. StillRegistrable'
  BY DEF RejectsDuplicate, Done, RegistryInv, RegistryTypeOK, StillRegistrable,
         Registrable
<1>4. ContractValid'
  BY DEF RejectsDuplicate, RegistryInv, ContractValid, Taken, Contract
<1>5. OfferedAreCallable'
  BY <1>1, FrozenKeepsOffers DEF RejectsDuplicate
<1> QED
  BY <1>1, <1>2, <1>3, <1>4, <1>5 DEF RegistryInv

\* Steps that change no tool, no kept map and no map that is being registered.
LEMMA MapsKeep ==
  ASSUME RegistryInv,
         UNCHANGED <<registered, registering>>,
         schema' \in [Cells -> Schemas],
         \A name \in ToolNames : schema'[KeptCell(name)] = schema[KeptCell(name)],
         \A registrant \in Registrants : registering[registrant] # Nobody =>
           schema'[OwnCell(registering[registrant])]
             = schema[OwnCell(registering[registrant])],
         offers' \in [Readers -> SUBSET [name : ToolNames, parameters : Schemas]]
  PROVE  Frozen /\ RegistryTypeOK' /\ StillRegistrable' /\ ContractValid'
<1>1. Frozen
  BY KeptMapsFreeze DEF RegistryInv
<1>2. RegistryTypeOK'
  BY DEF RegistryInv, RegistryTypeOK, Taken
<1>3. StillRegistrable'
  BY DEF RegistryInv, StillRegistrable, Registrable
<1>4. ContractValid'
  BY <1>1 DEF Frozen, RegistryInv, ContractValid, Taken
<1> QED
  BY <1>1, <1>2, <1>3, <1>4

LEMMA GetKeeps ==
  ASSUME RegistryInv, NEW reader \in Readers, NEW name \in ToolNames,
         Get(reader, name)
  PROVE  RegistryInv' /\ Frozen
<1>1. /\ schema' \in [Cells -> Schemas]
      /\ \A other \in ToolNames : schema'[KeptCell(other)] = schema[KeptCell(other)]
      /\ \A tool \in Tools : schema'[OwnCell(tool)] = schema[OwnCell(tool)]
  BY CopiedKeeps DEF Get
<1>2. Frozen /\ RegistryTypeOK' /\ StillRegistrable' /\ ContractValid'
  BY <1>1, MapsKeep DEF Get, RegistryInv, RegistryTypeOK
<1>3. OfferedAreCallable'
  BY <1>2, FrozenKeepsOffers DEF Get
<1> QED
  BY <1>2, <1>3 DEF RegistryInv

\* What is offered is the contract kept at that moment.
LEMMA LLMToolsKeeps ==
  ASSUME RegistryInv, NEW reader \in Readers, LLMTools(reader)
  PROVE  RegistryInv' /\ Frozen
<1> DEFINE names == {name \in ToolNames : Taken(name)}
           offered == {[name |-> name, parameters |-> Contract(name)] : name \in names}
<1>1. /\ schema' \in [Cells -> Schemas]
      /\ \A other \in ToolNames : schema'[KeptCell(other)] = schema[KeptCell(other)]
      /\ \A tool \in Tools : schema'[OwnCell(tool)] = schema[OwnCell(tool)]
  BY CopiedKeeps DEF LLMTools
<1>2. \A offer \in offered :
        /\ offer \in [name : ToolNames, parameters : Schemas]
        /\ Taken(offer.name)
        /\ offer.parameters = Contract(offer.name)
  BY KeptOfTaken DEF RegistryInv
<1>3. offers' = [offers EXCEPT ![reader] = offered]
  BY DEF LLMTools
<1> HIDE DEF offered
<1>4. offers' \in [Readers -> SUBSET [name : ToolNames, parameters : Schemas]]
  BY <1>2, <1>3 DEF RegistryInv, RegistryTypeOK
<1>5. Frozen /\ RegistryTypeOK' /\ StillRegistrable' /\ ContractValid'
  BY <1>1, <1>4, MapsKeep DEF LLMTools, RegistryInv, RegistryTypeOK
<1>6. OfferedAreCallable'
  <2> SUFFICES ASSUME NEW other \in Readers, NEW offer \in offers'[other]
               PROVE  (Taken(offer.name) /\ offer.parameters = Contract(offer.name))'
    BY DEF OfferedAreCallable
  <2>1. offer \in offered \/ offer \in offers[other]
    BY <1>3 DEF RegistryInv, RegistryTypeOK
  <2>2. /\ offer.name \in ToolNames
        /\ Taken(offer.name)
        /\ offer.parameters = Contract(offer.name)
    BY <2>1, <1>2 DEF RegistryInv, RegistryTypeOK, OfferedAreCallable
  <2> QED
    BY <2>2, <1>5 DEF Frozen, Taken
<1> QED
  BY <1>5, <1>6 DEF RegistryInv

LEMMA EditsKeep ==
  ASSUME RegistryInv, NEW cell \in OwnCells \cup CopyCells,
         NEW parameters \in Schemas, CallerEdits(cell, parameters)
  PROVE  RegistryInv' /\ Frozen
<1>1. schema' = [schema EXCEPT ![cell] = parameters] /\ cell \in Cells
  BY DEF CallerEdits, Cells
<1>2. schema' \in [Cells -> Schemas]
  BY <1>1 DEF RegistryInv, RegistryTypeOK
<1>3. \A name \in ToolNames : cell # KeptCell(name)
  BY CellsDiffer DEF OwnCells, CopyCells
<1>4. \A registrant \in Registrants :
        registering[registrant] # Nobody => cell # OwnCell(registering[registrant])
  <2> SUFFICES ASSUME NEW registrant \in Registrants,
                      registering[registrant] # Nobody,
                      cell = OwnCell(registering[registrant])
               PROVE  FALSE
    OBVIOUS
  <2>1. cell \notin CopyCells
    BY CellsDiffer DEF CopyCells
  <2>2. PICK tool \in Tools :
          /\ cell = OwnCell(tool)
          /\ \A other \in Registrants : registering[other] # tool
    BY <2>1 DEF CallerEdits
  <2> QED
    BY <2>2, CellsDiffer
<1>5. \A name \in ToolNames : schema'[KeptCell(name)] = schema[KeptCell(name)]
  BY <1>1, <1>3, CellsAreCells DEF RegistryInv, RegistryTypeOK
<1>6. \A registrant \in Registrants : registering[registrant] # Nobody =>
        schema'[OwnCell(registering[registrant])]
          = schema[OwnCell(registering[registrant])]
  BY <1>1, <1>4, CellsAreCells DEF RegistryInv, RegistryTypeOK
<1>7. Frozen /\ RegistryTypeOK' /\ StillRegistrable' /\ ContractValid'
  BY <1>2, <1>5, <1>6, MapsKeep DEF CallerEdits, RegistryInv, RegistryTypeOK
<1>8. OfferedAreCallable'
  BY <1>7, FrozenKeepsOffers DEF CallerEdits
<1> QED
  BY <1>7, <1>8 DEF RegistryInv

LEMMA RegistryStep ==
  RegistryInv /\ [RegistryNext]_registryVars => RegistryInv' /\ Frozen
<1> SUFFICES ASSUME RegistryInv, [RegistryNext]_registryVars
             PROVE  RegistryInv' /\ Frozen
  OBVIOUS
<1>1. ASSUME UNCHANGED registryVars PROVE RegistryInv' /\ Frozen
  <2>1. Frozen /\ RegistryTypeOK' /\ StillRegistrable' /\ ContractValid'
    BY <1>1, MapsKeep DEF registryVars, RegistryInv, RegistryTypeOK
  <2>2. OfferedAreCallable'
    BY <1>1, <2>1, FrozenKeepsOffers DEF registryVars
  <2> QED
    BY <2>1, <2>2 DEF RegistryInv
<1>2. ASSUME NEW registrant \in Registrants, NEW tool \in Tools,
             Validates(registrant, tool)
      PROVE  RegistryInv' /\ Frozen
  BY <1>2, ValidatesKeeps
<1>3. ASSUME NEW registrant \in Registrants, NEW tool \in Tools,
             RegisterRejected(registrant, tool)
      PROVE  RegistryInv' /\ Frozen
  BY <1>1, <1>3 DEF RegisterRejected
<1>4. ASSUME NEW registrant \in Registrants, Stores(registrant)
      PROVE  RegistryInv' /\ Frozen
  BY <1>4, StoresKeeps
<1>5. ASSUME NEW registrant \in Registrants, RejectsDuplicate(registrant)
      PROVE  RegistryInv' /\ Frozen
  BY <1>5, RejectsKeeps
<1>6. ASSUME NEW reader \in Readers, NEW name \in ToolNames, Get(reader, name)
      PROVE  RegistryInv' /\ Frozen
  BY <1>6, GetKeeps
<1>7. ASSUME NEW reader \in Readers, NEW name \in ToolNames, GetUnknown(reader, name)
      PROVE  RegistryInv' /\ Frozen
  BY <1>1, <1>7 DEF GetUnknown
<1>8. ASSUME NEW reader \in Readers, LLMTools(reader) PROVE RegistryInv' /\ Frozen
  BY <1>8, LLMToolsKeeps
<1>9. ASSUME NEW cell \in OwnCells \cup CopyCells, NEW parameters \in Schemas,
             CallerEdits(cell, parameters)
      PROVE  RegistryInv' /\ Frozen
  BY <1>9, EditsKeep
<1> QED
  BY <1>1, <1>2, <1>3, <1>4, <1>5, <1>6, <1>7, <1>8, <1>9 DEF RegistryNext

LEMMA RegistryInvariant == RegistrySpec => []RegistryInv
BY RegistryInitOK, RegistryStep, PTL DEF RegistrySpec

\* registry.go:44-58: a name is only ever taken by a tool of that name, and its
\* parameters are in a map of the registry's own.
THEOREM RegistryTypeCorrect == RegistrySpec => []RegistryTypeOK
<1>1. RegistryInv => RegistryTypeOK
  BY DEF RegistryInv
<1> QED
  BY <1>1, RegistryInvariant, PTL

\* registry.go:35-37: no tool is kept without an input contract.
THEOREM ContractsAreValid == RegistrySpec => []ContractValid
<1>1. RegistryInv => ContractValid
  BY DEF RegistryInv
<1> QED
  BY <1>1, RegistryInvariant, PTL

\* registry.go:81: what a model was offered can be called later, as offered.
THEOREM OffersStayCallable == RegistrySpec => []OfferedAreCallable
<1>1. RegistryInv => OfferedAreCallable
  BY DEF RegistryInv
<1> QED
  BY <1>1, RegistryInvariant, PTL

\* registry.go:19-20: the first tool of a name keeps it, with the schema it had.
THEOREM ContractsAreFrozen == RegistrySpec => ContractFrozen
<1>1. RegistryInv /\ [RegistryNext]_registryVars => Frozen
  BY RegistryStep
<1>2. Frozen <=> \A name \in ToolNames :
                   Taken(name) => /\ registered'[name] = registered[name]
                                  /\ Contract(name)' = Contract(name)
  BY DEF Frozen
<1> QED
  BY <1>1, <1>2, RegistryInvariant, PTL DEF RegistrySpec, ContractFrozen

\* registry.go:28-95, all of it: a name stands for one valid contract for good,
\* for any registrants, readers and edits of the maps they hold.
THEOREM RegistryKeepsContracts == RegistrySpec => ContractsHold
BY RegistryTypeCorrect, ContractsAreValid, OffersStayCallable, ContractsAreFrozen
   DEF ContractsHold
===============================================================================
