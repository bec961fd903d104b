------------------------------ MODULE TokenBucket ------------------------------
(***************************************************************************)
(* pkg/ai/ratelimit/memory_limiter.go: one token bucket for each key, all  *)
(* behind one mutex, refilled lazily when Allow looks at it.  Every call   *)
(* of Allow and Configure is atomic; the clock is the injected Now, which  *)
(* may stand still and may also go back.  Time is counted in ticks, tokens *)
(* in parts of a token: one token is worth one period of parts, so that a  *)
(* tick refills rate parts and nothing is rounded (the code computes with  *)
(* float64, whose rounding is not modelled).                               *)
(***************************************************************************)
EXTENDS Integers, Sequences

CONSTANTS
  Keys,      \* "global", "user:<id>", "provider:<name>"
  Rates,     \* rates Configure may be called with, invalid ones included
  Periods,   \* and periods
  MaxClock   \* bound: the latest time

ASSUME LimiterAssumption ==
  /\ Rates \subseteq Int
  /\ Periods \subseteq Int
  /\ MaxClock \in Nat

VARIABLES
  now,       \* what Now() returns
  buckets,   \* buckets, a function on all keys; Unlimited is an absent key
  grants     \* per key: times at which its bucket granted a call (history)

vars == <<now, buckets, grants>>

Unlimited == [rate |-> 0, period |-> 0, tokens |-> 0, lastRefill |-> 0]

Configured(key) == buckets[key] # Unlimited

Init ==
  /\ now \in 0 .. MaxClock
  /\ buckets = [key \in Keys |-> Unlimited]
  /\ grants = [key \in Keys |-> <<>>]

-------------------------------------------------------------------------------

Full(bucket) == bucket.rate * bucket.period

\* Mutant: a full bucket goes on filling.
Uncapped(bucket, tokens) == tokens

Capped(bucket, tokens) == IF tokens > Full(bucket) THEN Full(bucket) ELSE tokens

\* Mutant: only whole tokens are refilled, and the rest of the time is lost.
EarnedWhole(bucket) ==
  (((now - bucket.lastRefill) * bucket.rate) \div bucket.period) * bucket.period

Earned(bucket) == (now - bucket.lastRefill) * bucket.rate

\* Mutant: a clock that goes back takes lastRefill with it.
RefilledMovesBack(bucket) ==
  IF now <= bucket.lastRefill THEN [bucket EXCEPT !.lastRefill = now]
  ELSE [bucket EXCEPT !.tokens = Capped(bucket, bucket.tokens + Earned(bucket)),
                      !.lastRefill = now]

\* refillBucket: a clock that went back refills nothing, and does not move
\* lastRefill back, so that no time is counted twice.
Refilled(bucket) ==
  IF now <= bucket.lastRefill THEN bucket
  ELSE [bucket EXCEPT !.tokens = Capped(bucket, bucket.tokens + Earned(bucket)),
                      !.lastRefill = now]

\* A key without a bucket is allowed.  (A call whose context is done returns
\* its error and, like this one, touches nothing.)
AllowUnlimited(key) ==
  /\ ~Configured(key)
  /\ UNCHANGED vars

AllowGranted(key) ==
  LET bucket == Refilled(buckets[key]) IN
  /\ Configured(key)
  /\ bucket.tokens >= bucket.period
  /\ buckets' = [buckets EXCEPT ![key] =
                   [bucket EXCEPT !.tokens = bucket.tokens - bucket.period]]
  /\ grants' = [grants EXCEPT ![key] = Append(grants[key], bucket.lastRefill)]
  /\ UNCHANGED now

AllowDenied(key) ==
  LET bucket == Refilled(buckets[key]) IN
  /\ Configured(key)
  /\ bucket.tokens < bucket.period
  /\ buckets' = [buckets EXCEPT ![key] = bucket]
  /\ UNCHANGED <<now, grants>>

\* A valid limit starts with a full bucket, an invalid one lifts the limit.
Configure(key, rate, period) ==
  /\ buckets' = [buckets EXCEPT ![key] =
       IF rate <= 0 \/ period <= 0 THEN Unlimited
       ELSE [rate |-> rate, period |-> period,
             tokens |-> rate * period, lastRefill |-> now]]
  /\ grants' = [grants EXCEPT ![key] = <<>>]
  /\ UNCHANGED now

\* The environment: Now() moves, forwards or back.
ClockMoves(time) ==
  /\ now' = time
  /\ UNCHANGED <<buckets, grants>>

Next ==
  \/ \E key \in Keys :
       \/ AllowUnlimited(key)
       \/ AllowGranted(key)
       \/ AllowDenied(key)
       \/ \E rate \in Rates, period \in Periods : Configure(key, rate, period)
  \/ \E time \in 0 .. MaxClock : ClockMoves(time)

Spec == Init /\ [][Next]_vars

-------------------------------------------------------------------------------
(* Properties. *)

Bucket == [rate : Nat, period : Nat, tokens : Nat, lastRefill : 0 .. MaxClock]

\* Types; a bucket never holds more than rate tokens.
TypeOK ==
  /\ now \in 0 .. MaxClock
  /\ buckets \in [Keys -> Bucket]
  /\ \A key \in Keys : buckets[key].tokens <= Full(buckets[key])
  /\ grants \in [Keys -> Seq(0 .. MaxClock)]

\* ratelimit.go:19: rate calls for each period.  Between any two granted calls
\* of a key, both included, there are at most rate more than the time between
\* them pays for, however often the limiter is polled, the clock stands still
\* or goes back; hence never more than 2 * rate in any one period.
RateHolds ==
  \A key \in Keys : \A i, j \in 1 .. Len(grants[key]) :
    LET bucket == buckets[key] IN
    i <= j =>
      (j - i + 1) * bucket.period
        <= Full(bucket) + bucket.rate * (grants[key][j] - grants[key][i])

\* memory_limiter.go:120-122: no fraction of a period is lost.  A call is
\* denied only if less time has passed since the last granted one than a token
\* takes to refill, however many calls were denied in between.
DeniedOnlyWhenDue ==
  [][\A key \in Keys :
       AllowDenied(key) =>
         LET times  == grants[key]
             bucket == buckets[key]'
         IN /\ times # <<>>
            /\ (bucket.lastRefill - times[Len(times)]) * bucket.rate < bucket.period
    ]_vars
===============================================================================
