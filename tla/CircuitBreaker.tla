---------------------------- MODULE CircuitBreaker ----------------------------
(***************************************************************************)
(* pkg/ai/resilience/circuit_breaker.go: one breaker shared by a set of    *)
(* concurrent callers.  Call runs beforeCall and afterCall under the       *)
(* breaker's mutex and the protected function fn outside it, so a call is  *)
(* two atomic steps with anything in between.  Time is counted in ticks;   *)
(* instead of openedAt the model keeps how long ago it was, as far as the  *)
(* comparison with RecoveryTimeout can see (sinceOpened).                  *)
(***************************************************************************)
EXTENDS Integers, FiniteSets

CONSTANTS
  Callers,                 \* goroutines that share the breaker
  ConfigFailureThreshold,  \* Config as the caller wrote it
  ConfigRecoveryTimeout,
  ConfigHalfOpenMaxProbe,
  DefaultRecoveryTimeout,  \* defaultRecoveryTimeout, in ticks
  MaxCallTime,             \* the HTTP client's timeout: fn returns within it
  FnMayPanic               \* whether fn may panic (Call has no defer)

ASSUME ConfigAssumption ==
  /\ IsFiniteSet(Callers)
  /\ ConfigFailureThreshold \in Int
  /\ ConfigRecoveryTimeout \in Int
  /\ ConfigHalfOpenMaxProbe \in Int
  /\ DefaultRecoveryTimeout \in Nat \ {0}
  /\ MaxCallTime \in Nat \ {0}
  /\ FnMayPanic \in BOOLEAN

\* normalizeConfig: a value that is not positive falls back to its default.
Normalized(value, default) == IF value <= 0 THEN default ELSE value

FailureThreshold == Normalized(ConfigFailureThreshold, 1)
RecoveryTimeout  == Normalized(ConfigRecoveryTimeout, DefaultRecoveryTimeout)
HalfOpenMaxProbe == Normalized(ConfigHalfOpenMaxProbe, 1)

\* Every call returns before a recovery window that starts during it ends.
Timely == MaxCallTime < RecoveryTimeout

VARIABLES
  state,                \* "closed", "open" or "half_open"
  consecutiveFailures,
  sinceOpened,          \* min(Now() - openedAt, RecoveryTimeout)
  halfOpenSuccesses,
  halfOpenInFlight,
  call,                 \* per caller: "idle", "plain" or "probe" (inside fn)
  elapsed,              \* per caller: ticks its fn has been running
  lastResult            \* what afterCall was last told (history)

breakerVars == <<state, consecutiveFailures, sinceOpened, halfOpenSuccesses,
                 halfOpenInFlight>>
vars == <<breakerVars, call, elapsed, lastResult>>

Running == {c \in Callers : call[c] # "idle"}
Probing == {c \in Callers : call[c] = "probe"}

WindowOver == sinceOpened >= RecoveryTimeout

Init ==
  /\ state = "closed"
  /\ consecutiveFailures = 0
  /\ sinceOpened = RecoveryTimeout    \* openedAt is the zero time
  /\ halfOpenSuccesses = 0
  /\ halfOpenInFlight = 0
  /\ call = [c \in Callers |-> "idle"]
  /\ elapsed = [c \in Callers |-> 0]
  /\ lastResult = "none"

-------------------------------------------------------------------------------
(* State transitions, always taken under the mutex. *)

ToClosed ==
  /\ state' = "closed"
  /\ consecutiveFailures' = 0
  /\ sinceOpened' = RecoveryTimeout
  /\ halfOpenSuccesses' = 0
  /\ halfOpenInFlight' = 0

ToOpen ==
  /\ state' = "open"
  /\ sinceOpened' = 0
  /\ consecutiveFailures' = 0
  /\ halfOpenSuccesses' = 0
  /\ halfOpenInFlight' = 0

\* toHalfOpen followed by reserveHalfOpenProbe, which finds every slot free.
ToHalfOpenAndReserve ==
  /\ state' = "half_open"
  /\ consecutiveFailures' = 0
  /\ halfOpenSuccesses' = 0
  /\ halfOpenInFlight' = 1
  /\ UNCHANGED sinceOpened

\* Mutant: one probe too many.
SlotFreeOffByOne == halfOpenInFlight <= HalfOpenMaxProbe

SlotFree == halfOpenInFlight < HalfOpenMaxProbe

-------------------------------------------------------------------------------
(* beforeCall: a caller is admitted as a plain call or as a probe, or is   *)
(* turned away with ErrCircuitOpen.                                        *)

Admitted(c, kind) ==
  /\ call[c] = "idle"
  /\ call' = [call EXCEPT ![c] = kind]
  /\ UNCHANGED <<elapsed, lastResult>>

AdmitClosed(c) ==
  /\ state = "closed"
  /\ Admitted(c, "plain")
  /\ UNCHANGED breakerVars

\* Mutant: the recovery window is not waited for.
AdmitFirstProbeEarly(c) ==
  /\ state = "open"
  /\ ToHalfOpenAndReserve
  /\ Admitted(c, "probe")

AdmitFirstProbe(c) ==
  /\ state = "open"
  /\ WindowOver
  /\ ToHalfOpenAndReserve
  /\ Admitted(c, "probe")

AdmitProbe(c) ==
  /\ state = "half_open"
  /\ SlotFree
  /\ halfOpenInFlight' = halfOpenInFlight + 1
  /\ Admitted(c, "probe")
  /\ UNCHANGED <<state, consecutiveFailures, sinceOpened, halfOpenSuccesses>>

Enter(c) == AdmitClosed(c) \/ AdmitFirstProbe(c) \/ AdmitProbe(c)

Rejects ==
  \/ state = "open" /\ ~WindowOver
  \/ state = "half_open" /\ ~SlotFree

\* Mutant: a rejected call restarts the recovery window.
RejectRestartsWindow(c) ==
  /\ call[c] = "idle"
  /\ Rejects
  /\ sinceOpened' = 0
  /\ UNCHANGED <<state, consecutiveFailures, halfOpenSuccesses,
                 halfOpenInFlight, call, elapsed, lastResult>>

Reject(c) ==
  /\ call[c] = "idle"
  /\ Rejects
  /\ UNCHANGED vars

-------------------------------------------------------------------------------
(* afterCall: fn has returned; failed says whether it returned an error.   *)
(* Nothing here compares the breaker's state with the one that admitted    *)
(* the call.                                                               *)

Returned(c) ==
  /\ call' = [call EXCEPT ![c] = "idle"]
  /\ elapsed' = [elapsed EXCEPT ![c] = 0]

\* Mutant: a success does not end the streak of failures.
PlainSucceedsKeepsStreak(c) ==
  /\ call[c] = "plain"
  /\ Returned(c)
  /\ UNCHANGED breakerVars

PlainSucceeds(c) ==
  /\ call[c] = "plain"
  /\ consecutiveFailures' = 0
  /\ Returned(c)
  /\ UNCHANGED <<state, sinceOpened, halfOpenSuccesses, halfOpenInFlight>>

\* Mutant: one failure less than the threshold is enough.
TripsTooSoon == consecutiveFailures + 2 >= FailureThreshold

\* Mutant: one failure more than the threshold is needed.
TripsOffByOne == consecutiveFailures + 1 > FailureThreshold

Trips == consecutiveFailures + 1 >= FailureThreshold

PlainFails(c) ==
  /\ call[c] = "plain"
  /\ IF Trips
     THEN ToOpen
     ELSE /\ consecutiveFailures' = consecutiveFailures + 1
          /\ UNCHANGED <<state, sinceOpened, halfOpenSuccesses, halfOpenInFlight>>
  /\ Returned(c)

ProbeFails(c) ==
  /\ call[c] = "probe"
  /\ ToOpen
  /\ Returned(c)

\* Mutant: the success is not counted.
SuccessesUncounted == halfOpenSuccesses

Successes == halfOpenSuccesses + 1

\* Mutant: the slot is not given back.
SlotsKept == halfOpenInFlight

SlotsAfterProbe == IF halfOpenInFlight > 0 THEN halfOpenInFlight - 1 ELSE 0

ProbeSucceeds(c) ==
  /\ call[c] = "probe"
  /\ IF Successes >= HalfOpenMaxProbe
     THEN ToClosed
     ELSE /\ halfOpenSuccesses' = Successes
          /\ halfOpenInFlight' = SlotsAfterProbe
          /\ UNCHANGED <<state, consecutiveFailures, sinceOpened>>
  /\ Returned(c)

Succeeds(c) ==
  /\ PlainSucceeds(c) \/ ProbeSucceeds(c)
  /\ lastResult' = "success"

Fails(c) ==
  /\ PlainFails(c) \/ ProbeFails(c)
  /\ lastResult' = "failure"

\* fn panics: Call unwinds without afterCall; the server recovers above it.
Panics(c) ==
  /\ FnMayPanic
  /\ call[c] # "idle"
  /\ Returned(c)
  /\ UNCHANGED <<breakerVars, lastResult>>

Leave(c) == Succeeds(c) \/ Fails(c) \/ Panics(c)

-------------------------------------------------------------------------------
(* Time: no call outlives MaxCallTime; the age of the trip saturates.      *)

Tick ==
  /\ \A c \in Running : elapsed[c] < MaxCallTime
  /\ elapsed' = [c \in Callers |->
                   IF call[c] = "idle" THEN 0 ELSE elapsed[c] + 1]
  /\ sinceOpened' = IF WindowOver THEN sinceOpened ELSE sinceOpened + 1
  /\ UNCHANGED <<state, consecutiveFailures, halfOpenSuccesses,
                 halfOpenInFlight, call, lastResult>>

Next ==
  \/ \E c \in Callers : Enter(c) \/ Reject(c) \/ Leave(c)
  \/ Tick

Spec == Init /\ [][Next]_vars

\* Time passes, a call returns (the client times out), and traffic goes on:
\* some caller is always about to call.  No single caller has to.
FairSpec ==
  /\ Spec
  /\ WF_vars(Tick)
  /\ \A c \in Callers : WF_vars(Leave(c))
  /\ WF_vars(\E c \in Callers : Enter(c))

-------------------------------------------------------------------------------
(* Properties. *)

\* The counters stay below the values that would have made them act, and a
\* caller that is not inside fn has no running time.
TypeOK ==
  /\ state \in {"closed", "open", "half_open"}
  /\ consecutiveFailures \in 0 .. FailureThreshold - 1
  /\ sinceOpened \in 0 .. RecoveryTimeout
  /\ halfOpenSuccesses \in 0 .. HalfOpenMaxProbe - 1
  /\ halfOpenInFlight \in 0 .. HalfOpenMaxProbe
  /\ call \in [Callers -> {"idle", "plain", "probe"}]
  /\ elapsed \in [Callers -> 0 .. MaxCallTime]
  /\ lastResult \in {"none", "success", "failure"}

\* "HALF_OPEN lets a few probes through" (circuit_breaker.go:28): while the
\* breaker is HALF_OPEN no more than HalfOpenMaxProbe callers are inside fn,
\* stragglers of earlier periods included.
ProbeLimit == state = "half_open" => Cardinality(Running) <= HalfOpenMaxProbe

\* "OPEN fails fast during the recovery window" (circuit_breaker.go:27): OPEN
\* is left only for HALF_OPEN, and only when the window is over.
WindowHonoured ==
  [][state = "open" /\ state' # "open" => state' = "half_open" /\ WindowOver]_vars

\* "CLOSED opens after consecutive failures reach the threshold"
\* (circuit_breaker.go:26): the call that trips a CLOSED breaker is the
\* FailureThreshold-th failure in a row.
TripNeedsStreak ==
  [][state = "closed" /\ state' = "open"
       => consecutiveFailures + 1 >= FailureThreshold]_vars

\* A reserved slot belongs to a probe that is still running, so that slots
\* cannot all stay taken with nobody left to give one back.
NoSlotLeak == halfOpenInFlight <= Cardinality(Probing)

\* What keeps a call of one period out of the next when calls are Timely.
\* OPEN: whoever is still inside fn entered before the trip.
StragglersAreOld ==
  state = "open" => \A c \in Running : sinceOpened <= elapsed[c]

\* HALF_OPEN: only this period's probes are inside fn, each with a slot.
OnlyProbesRun ==
  state = "half_open" =>
    /\ Running = Probing
    /\ Cardinality(Running) <= halfOpenInFlight

\* CLOSED and OPEN: the probes left over cannot close the breaker.
FewStragglers ==
  state # "half_open" =>
    halfOpenSuccesses + Cardinality(Probing) < HalfOpenMaxProbe

\* The three together are inductive: a call admitted in one period of the
\* breaker is never taken for a call of a later one, unless it is a probe that
\* outlives its own HALF_OPEN and then can no longer decide anything but a trip.
TimelyInv == StragglersAreOld /\ OnlyProbesRun /\ FewStragglers

\* "enough successes close it, a failure opens it again"
\* (circuit_breaker.go:28): HALF_OPEN does not last for ever.
HalfOpenResolves == state = "half_open" ~> state # "half_open"

\* A provider that has stopped failing is eventually used again without limit.
Recovers ==
  <>[][\A c \in Callers : ~Fails(c)]_vars => []<>(state = "closed")

-------------------------------------------------------------------------------
(* The documented state machine, which the breaker implements when calls   *)
(* are shorter than the window and one probe at a time is let through.     *)

Documented == INSTANCE BreakerAbstract WITH
  Threshold <- FailureThreshold,
  Window    <- RecoveryTimeout,
  Probes    <- HalfOpenMaxProbe,
  mode      <- state,
  streak    <- IF state = "closed" THEN consecutiveFailures ELSE 0,
  waited    <- sinceOpened,
  passed    <- IF state = "half_open" THEN halfOpenSuccesses ELSE 0,
  last      <- lastResult

\* Every step of the breaker is a step of the documented machine or none; the
\* results reported to it are visible in both, so that none goes uncounted.
ImplementsDocumented == Documented!AbstractSpec
===============================================================================
