---------------------------- MODULE MCTokenBucket ----------------------------
(* Small instances of TokenBucket for TLC. *)
EXTENDS TokenBucket

CONSTANTS user, provider

TwoKeys == {user, provider}
SomeRates == {0, 2}
SomePeriods == {-1, 3}
==============================================================================
