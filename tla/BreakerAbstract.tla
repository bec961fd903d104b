--------------------------- MODULE BreakerAbstract ---------------------------
(***************************************************************************)
(* What the circuit breaker promises, as its documentation words it        *)
(* (resilience.go:4,27-29 and circuit_breaker.go:25-28): CLOSED counts     *)
(* consecutive failures and trips at the threshold; OPEN lasts for the     *)
(* whole recovery window; HALF_OPEN closes after enough probe successes    *)
(* and trips again on a probe failure.  There are no callers here: each    *)
(* action is the report of one finished call, or the passing of time.      *)
(***************************************************************************)
EXTENDS Naturals

CONSTANTS
  Threshold,   \* consecutive failures that trip the breaker
  Window,      \* ticks the breaker stays OPEN
  Probes       \* probe successes that close it

VARIABLES
  mode,        \* "closed", "open" or "half_open"
  streak,      \* consecutive failures reported while CLOSED
  waited,      \* ticks since the last trip, at most Window
  passed,      \* probes that succeeded in this HALF_OPEN period
  last         \* the last result that was reported

avars == <<mode, streak, waited, passed, last>>

Start ==
  /\ mode = "closed"
  /\ streak = 0
  /\ waited = Window
  /\ passed = 0
  /\ last = "none"

Trip ==
  /\ mode' = "open"
  /\ streak' = 0
  /\ waited' = 0
  /\ passed' = 0
  /\ last' = "failure"

\* CLOSED: a success ends the streak, a failure prolongs it and may trip.
Succeed ==
  /\ mode = "closed"
  /\ last' = "success"
  /\ streak' = 0
  /\ UNCHANGED <<mode, waited, passed>>

Fail ==
  /\ mode = "closed"
  /\ \/ /\ streak + 1 < Threshold
        /\ streak' = streak + 1
        /\ last' = "failure"
        /\ UNCHANGED <<mode, waited, passed>>
     \/ /\ streak + 1 >= Threshold
        /\ Trip

\* OPEN: a call admitted before the trip reports too late to matter, ...
LateResult ==
  /\ mode = "open"
  /\ last' \in {"success", "failure"}
  /\ UNCHANGED <<mode, streak, waited, passed>>

\* ... or, if it failed, the window restarts.
ExtendWindow ==
  /\ mode = "open"
  /\ Trip

\* OPEN is left only when the window is over, and only for HALF_OPEN.
StartProbing ==
  /\ mode = "open"
  /\ waited >= Window
  /\ mode' = "half_open"
  /\ UNCHANGED <<streak, waited, passed, last>>

ProbeSucceeds ==
  /\ mode = "half_open"
  /\ last' = "success"
  /\ \/ /\ passed + 1 < Probes
        /\ passed' = passed + 1
        /\ UNCHANGED <<mode, streak, waited>>
     \/ /\ passed + 1 >= Probes
        /\ mode' = "closed"
        /\ streak' = 0
        /\ waited' = Window
        /\ passed' = 0

ProbeFails ==
  /\ mode = "half_open"
  /\ Trip

TimePasses ==
  /\ waited < Window
  /\ waited' = waited + 1
  /\ UNCHANGED <<mode, streak, passed, last>>

Step ==
  \/ Succeed
  \/ Fail
  \/ LateResult
  \/ ExtendWindow
  \/ StartProbing
  \/ ProbeSucceeds
  \/ ProbeFails
  \/ TimePasses

AbstractSpec == Start /\ [][Step]_avars
==============================================================================
