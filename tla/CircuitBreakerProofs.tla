------------------------- MODULE CircuitBreakerProofs -------------------------
(***************************************************************************)
(* Proofs about CircuitBreaker, for any finite set of callers and any      *)
(* configuration.  The results about ProbeLimit, WindowHonoured and the    *)
(* documented machine assume Timely; that it cannot be dropped is what     *)
(* the violation runs of the breaker show.                                 *)
(***************************************************************************)
EXTENDS CircuitBreaker, FiniteSetTheorems, TLAPS

-------------------------------------------------------------------------------
(* Constants and cardinalities. *)

\* normalizeConfig leaves no value that is not positive.
LEMMA ConfigPositive ==
  /\ FailureThreshold \in Nat \ {0}
  /\ RecoveryTimeout \in Nat \ {0}
  /\ HalfOpenMaxProbe \in Nat \ {0}
  /\ MaxCallTime \in Nat \ {0}
BY ConfigAssumption
   DEF Normalized, FailureThreshold, RecoveryTimeout, HalfOpenMaxProbe

\* The sets of callers inside fn are finite and can be counted.
LEMMA CallersCounted ==
  /\ IsFiniteSet(Running) /\ Cardinality(Running) \in Nat
  /\ IsFiniteSet(Probing) /\ Cardinality(Probing) \in Nat
<1>1. Running \in SUBSET Callers /\ Probing \in SUBSET Callers
  BY DEF Running, Probing
<1>2. IsFiniteSet(Callers)
  BY ConfigAssumption
<1>3. IsFiniteSet(Running) /\ IsFiniteSet(Probing)
  BY <1>1, <1>2, FS_Subset
<1> QED
  BY <1>3, FS_CardinalityType

\* An admitted caller joins Running, and Probing if it is a probe.
LEMMA AdmittedSets ==
  ASSUME NEW c \in Callers, NEW kind \in {"plain", "probe"},
         TypeOK, Admitted(c, kind)
  PROVE  /\ Running' = Running \cup {c}
         /\ Cardinality(Running') = Cardinality(Running) + 1
         /\ Probing' = IF kind = "probe" THEN Probing \cup {c} ELSE Probing
         /\ Cardinality(Probing') =
              IF kind = "probe" THEN Cardinality(Probing) + 1
                                ELSE Cardinality(Probing)
<1>1. c \notin Running /\ c \notin Probing
  BY DEF Admitted, Running, Probing
<1>2. Running' = Running \cup {c}
  BY DEF TypeOK, Admitted, Running
<1>3. Probing' = IF kind = "probe" THEN Probing \cup {c} ELSE Probing
  <2>1. \A d \in Callers : call'[d] = IF d = c THEN kind ELSE call[d]
    BY DEF TypeOK, Admitted
  <2>2. \A d : d \in Probing' <=> (d \in Callers /\ call'[d] = "probe")
    BY DEF Probing
  <2>3. \A d : d \in Probing <=> (d \in Callers /\ call[d] = "probe")
    BY DEF Probing
  <2>4. CASE kind = "probe"
    <3>1. \A d : d \in Probing' <=> (d \in Probing \/ d = c)
      BY <2>1, <2>2, <2>3, <2>4
    <3> QED
      BY <2>4, <3>1
  <2>5. CASE kind # "probe"
    <3>1. \A d : d \in Probing' <=> d \in Probing
      BY <2>1, <2>2, <2>3, <2>5, <1>1
    <3> QED
      BY <2>5, <3>1
  <2> QED
    BY <2>4, <2>5
<1> QED
  BY <1>1, <1>2, <1>3, CallersCounted, FS_AddElement

\* A caller that returns leaves both sets.
LEMMA ReturnedSets ==
  ASSUME NEW c \in Callers, TypeOK, Returned(c), call[c] # "idle"
  PROVE  /\ Running' = Running \ {c}
         /\ Cardinality(Running') = Cardinality(Running) - 1
         /\ Probing' = Probing \ {c}
         /\ Cardinality(Probing') =
              IF call[c] = "probe" THEN Cardinality(Probing) - 1
                                   ELSE Cardinality(Probing)
         /\ Cardinality(Running') \in Nat
         /\ Cardinality(Probing') \in Nat
<1>1. c \in Running /\ (c \in Probing <=> call[c] = "probe")
  BY DEF Running, Probing
<1>2. Running' = Running \ {c}
  BY DEF TypeOK, Returned, Running
<1>3. Probing' = Probing \ {c}
  BY DEF TypeOK, Returned, Probing
<1>4. IsFiniteSet(Running') /\ IsFiniteSet(Probing')
  BY <1>2, <1>3, CallersCounted, FS_RemoveElement
<1> QED
  BY <1>1, <1>2, <1>3, <1>4, CallersCounted, FS_RemoveElement, FS_CardinalityType

-------------------------------------------------------------------------------
(* Types. *)

\* The counters of the breaker stay in range, whatever the interleaving.
THEOREM TypeCorrect == Spec => []TypeOK
<1> USE ConfigPositive DEF TypeOK
<1>1. Init => TypeOK
  BY DEF Init
<1>2. TypeOK /\ [Next]_vars => TypeOK'
  <2> SUFFICES ASSUME TypeOK, [Next]_vars PROVE TypeOK'
    OBVIOUS
  <2>1. ASSUME NEW c \in Callers, Enter(c) PROVE TypeOK'
    <3>1. CASE AdmitClosed(c)
      BY <3>1 DEF AdmitClosed, Admitted, breakerVars
    <3>2. CASE AdmitFirstProbe(c)
      BY <3>2 DEF AdmitFirstProbe, ToHalfOpenAndReserve, Admitted
    <3>3. CASE AdmitProbe(c)
      BY <3>3 DEF AdmitProbe, SlotFree, Admitted
    <3> QED
      BY <2>1, <3>1, <3>2, <3>3 DEF Enter
  <2>2. ASSUME NEW c \in Callers, Leave(c) PROVE TypeOK'
    <3>0. lastResult' \in {"none", "success", "failure"}
      BY <2>2 DEF Leave, Succeeds, Fails, Panics
    <3>1. CASE PlainSucceeds(c)
      BY <3>0, <3>1 DEF PlainSucceeds, Returned
    <3>2. CASE PlainFails(c)
      BY <3>0, <3>2 DEF PlainFails, Trips, ToOpen, Returned
    <3>3. CASE ProbeSucceeds(c)
      BY <3>0, <3>3 DEF ProbeSucceeds, Successes, SlotsAfterProbe, ToClosed,
                        Returned
    <3>4. CASE ProbeFails(c)
      BY <3>0, <3>4 DEF ProbeFails, ToOpen, Returned
    <3>5. CASE Panics(c)
      BY <3>5 DEF Panics, Returned, breakerVars
    <3> QED
      BY <2>2, <3>1, <3>2, <3>3, <3>4, <3>5 DEF Leave, Succeeds, Fails
  <2>3. CASE Tick
    BY <2>3 DEF Tick, WindowOver, Running
  <2>4. CASE UNCHANGED vars
    BY <2>4 DEF vars, breakerVars
  <2> QED
    BY <2>1, <2>2, <2>3, <2>4 DEF Next, Reject
<1> QED
  BY <1>1, <1>2, PTL DEF Spec

-------------------------------------------------------------------------------
(* Slots and running probes. *)

\* As long as fn does not panic, every slot taken is held by a running probe:
\* once the callers have returned, HALF_OPEN has room for the next probe.  No
\* assumption on how long calls take: a straggler of an earlier HALF_OPEN
\* period may give back a slot that is not its own, but never too few.
THEOREM SlotsNotLeaked ==
  ASSUME ~FnMayPanic
  PROVE  Spec => []NoSlotLeak
<1> USE ConfigPositive
<1>1. Init => NoSlotLeak
  BY CallersCounted DEF Init, NoSlotLeak
<1>2. ASSUME TypeOK, NoSlotLeak, [Next]_vars PROVE NoSlotLeak'
  <2>0. Cardinality(Probing) \in Nat /\ halfOpenInFlight \in Nat
    BY <1>2, CallersCounted DEF TypeOK
  <2>1. ASSUME NEW c \in Callers, Enter(c) PROVE NoSlotLeak'
    <3>1. CASE AdmitClosed(c)
      BY <1>2, <2>0, <3>1, AdmittedSets DEF AdmitClosed, NoSlotLeak, breakerVars
    <3>2. CASE AdmitFirstProbe(c)
      BY <1>2, <2>0, <3>2, AdmittedSets
         DEF AdmitFirstProbe, ToHalfOpenAndReserve, NoSlotLeak
    <3>3. CASE AdmitProbe(c)
      BY <1>2, <2>0, <3>3, AdmittedSets DEF AdmitProbe, NoSlotLeak
    <3> QED
      BY <2>1, <3>1, <3>2, <3>3 DEF Enter
  <2>2. ASSUME NEW c \in Callers, Leave(c) PROVE NoSlotLeak'
    <3>0. Returned(c) /\ call[c] # "idle"
      BY <2>2 DEF Leave, Succeeds, Fails, PlainSucceeds, PlainFails,
                  ProbeSucceeds, ProbeFails, Panics
    <3>1. CASE PlainSucceeds(c)
      BY <1>2, <2>0, <3>0, <3>1, ReturnedSets DEF PlainSucceeds, NoSlotLeak
    <3>2. CASE PlainFails(c)
      BY <1>2, <2>0, <3>0, <3>2, ReturnedSets DEF PlainFails, Trips, ToOpen,
                                                  NoSlotLeak
    <3>3. CASE ProbeSucceeds(c)
      BY <1>2, <2>0, <3>0, <3>3, ReturnedSets
         DEF ProbeSucceeds, Successes, SlotsAfterProbe, ToClosed, NoSlotLeak
    <3>4. CASE ProbeFails(c)
      BY <1>2, <2>0, <3>0, <3>4, ReturnedSets DEF ProbeFails, ToOpen, NoSlotLeak
    <3> QED
      BY <2>2, <3>1, <3>2, <3>3, <3>4 DEF Leave, Succeeds, Fails, Panics
  <2>3. CASE Tick
    BY <1>2, <2>3 DEF Tick, NoSlotLeak, Probing
  <2>4. CASE UNCHANGED vars
    BY <1>2, <2>4 DEF vars, breakerVars, NoSlotLeak, Probing
  <2> QED
    BY <1>2, <2>1, <2>2, <2>3, <2>4 DEF Next, Reject
<1> QED
  BY <1>1, <1>2, TypeCorrect, PTL DEF Spec

-------------------------------------------------------------------------------
(* Calls that are Timely. *)

\* One step of the breaker keeps TimelyInv: the window outlasts every call
\* that entered before the trip, so HALF_OPEN starts with nobody inside fn.
LEMMA TimelyInvStep ==
  ASSUME Timely, TypeOK, TimelyInv, [Next]_vars
  PROVE  TimelyInv'
<1> USE ConfigPositive
<1>0. /\ Cardinality(Probing) \in Nat /\ Cardinality(Running) \in Nat
      /\ halfOpenInFlight \in Nat /\ halfOpenSuccesses \in Nat
  BY CallersCounted DEF TypeOK
<1>1. ASSUME NEW c \in Callers, Enter(c) PROVE TimelyInv'
  <2>1. CASE AdmitClosed(c)
    BY <1>0, <2>1, AdmittedSets
       DEF AdmitClosed, breakerVars, TimelyInv, StragglersAreOld, OnlyProbesRun,
           FewStragglers
  <2>2. CASE AdmitFirstProbe(c)
    <3>1. Running = {}
      <4> SUFFICES ASSUME NEW d \in Running PROVE FALSE
        OBVIOUS
      <4>1. sinceOpened <= elapsed[d] /\ d \in Callers
        BY <2>2 DEF AdmitFirstProbe, TimelyInv, StragglersAreOld, Running
      <4> QED
        BY <2>2, <4>1 DEF AdmitFirstProbe, WindowOver, Timely, TypeOK
    <3>2. Probing = {} /\ Cardinality(Running) = 0
      BY <3>1, FS_EmptySet DEF Running, Probing
    <3>3. /\ Running' = {c} /\ Probing' = {c}
          /\ Cardinality(Running') = 1
      BY <2>2, <3>1, <3>2, AdmittedSets DEF AdmitFirstProbe
    <3> QED
      BY <2>2, <3>3 DEF AdmitFirstProbe, ToHalfOpenAndReserve, TimelyInv,
                        StragglersAreOld, OnlyProbesRun, FewStragglers
  <2>3. CASE AdmitProbe(c)
    BY <1>0, <2>3, AdmittedSets
       DEF AdmitProbe, TimelyInv, StragglersAreOld, OnlyProbesRun, FewStragglers
  <2> QED
    BY <1>1, <2>1, <2>2, <2>3 DEF Enter
<1>2. ASSUME NEW c \in Callers, Leave(c) PROVE TimelyInv'
  <2>0. Returned(c) /\ call[c] # "idle"
    BY <1>2 DEF Leave, Succeeds, Fails, PlainSucceeds, PlainFails,
                ProbeSucceeds, ProbeFails, Panics
  <2>1. /\ Running' = Running \ {c}
        /\ Cardinality(Running') = Cardinality(Running) - 1
        /\ Probing' = Probing \ {c}
        /\ Cardinality(Probing') =
             IF call[c] = "probe" THEN Cardinality(Probing) - 1
                                  ELSE Cardinality(Probing)
        /\ Cardinality(Running') \in Nat
        /\ Cardinality(Probing') \in Nat
    BY <2>0, ReturnedSets
  <2>2. \A d \in Running' : d \in Callers /\ elapsed'[d] = elapsed[d]
    BY <2>0, <2>1 DEF Returned, TypeOK, Running
  <2>3. c \in Running /\ (c \in Probing <=> call[c] = "probe")
    BY <2>0 DEF Running, Probing
  <2>4. CASE PlainSucceeds(c)
    BY <1>0, <2>1, <2>2, <2>3, <2>4
       DEF PlainSucceeds, TimelyInv, StragglersAreOld, OnlyProbesRun, FewStragglers
  <2>5. ASSUME state' = "open", sinceOpened' = 0, halfOpenSuccesses' = 0,
               Cardinality(Probing') < HalfOpenMaxProbe
        PROVE  TimelyInv'
    BY <2>1, <2>2, <2>5 DEF TypeOK, TimelyInv, StragglersAreOld, OnlyProbesRun,
                            FewStragglers
  <2>6. Cardinality(Probing') < HalfOpenMaxProbe
    <3>1. CASE state = "half_open"
      BY <1>0, <2>1, <2>3, <3>1 DEF TypeOK, TimelyInv, OnlyProbesRun
    <3>2. CASE state # "half_open"
      BY <1>0, <2>1, <3>2 DEF TypeOK, TimelyInv, FewStragglers
    <3> QED
      BY <3>1, <3>2
  <2>7. CASE PlainFails(c)
    <3>1. CASE consecutiveFailures + 1 >= FailureThreshold
      BY <2>5, <2>6, <2>7, <3>1 DEF PlainFails, Trips, ToOpen
    <3>2. CASE ~(consecutiveFailures + 1 >= FailureThreshold)
      BY <1>0, <2>1, <2>2, <2>3, <2>7, <3>2
         DEF PlainFails, Trips, TimelyInv, StragglersAreOld, OnlyProbesRun,
             FewStragglers
    <3> QED
      BY <3>1, <3>2
  <2>8. CASE ProbeFails(c)
    BY <2>5, <2>6, <2>8 DEF ProbeFails, ToOpen
  <2>9. CASE ProbeSucceeds(c)
    <3>1. CASE halfOpenSuccesses + 1 >= HalfOpenMaxProbe
      BY <2>1, <2>6, <2>9, <3>1
         DEF ProbeSucceeds, Successes, SlotsAfterProbe, ToClosed, TimelyInv,
             StragglersAreOld, OnlyProbesRun,
             FewStragglers
    <3>2. CASE ~(halfOpenSuccesses + 1 >= HalfOpenMaxProbe)
      BY <1>0, <2>1, <2>2, <2>3, <2>9, <3>2
         DEF ProbeSucceeds, Successes, SlotsAfterProbe, TimelyInv,
             StragglersAreOld, OnlyProbesRun, FewStragglers
    <3> QED
      BY <3>1, <3>2
  <2>10. CASE Panics(c)
    BY <1>0, <2>1, <2>2, <2>3, <2>10
       DEF Panics, breakerVars, TimelyInv, StragglersAreOld, OnlyProbesRun,
           FewStragglers
  <2> QED
    BY <1>2, <2>4, <2>7, <2>8, <2>9, <2>10 DEF Leave, Succeeds, Fails
<1>3. CASE Tick
  <2>1. Running' = Running /\ Probing' = Probing
    BY <1>3 DEF Tick, Running, Probing
  <2>2. \A d \in Running : d \in Callers /\ elapsed'[d] = elapsed[d] + 1
    BY <1>3 DEF Tick, Running
  <2>3. sinceOpened' <= sinceOpened + 1 /\ sinceOpened \in Nat /\ sinceOpened' \in Nat
    BY <1>3 DEF Tick, TypeOK
  <2>4. \A d \in Running : elapsed[d] \in Nat
    BY DEF Running, TypeOK
  <2>5. StragglersAreOld'
    BY <1>3, <2>1, <2>2, <2>3, <2>4 DEF Tick, TimelyInv, StragglersAreOld
  <2> QED
    BY <1>3, <2>1, <2>5 DEF Tick, TimelyInv, OnlyProbesRun, FewStragglers
<1>4. CASE UNCHANGED vars
  BY <1>4 DEF vars, breakerVars, TimelyInv, StragglersAreOld, OnlyProbesRun,
              FewStragglers, Running, Probing
<1> QED
  BY <1>1, <1>2, <1>3, <1>4 DEF Next, Reject

\* The inductive invariant of the Timely breaker.
THEOREM TimelyInvariant ==
  ASSUME Timely
  PROVE  Spec => [](TypeOK /\ TimelyInv)
<1>1. Init => TimelyInv
  <2> SUFFICES ASSUME Init PROVE TimelyInv
    OBVIOUS
  <2>1. Probing = {}
    BY DEF Init, Probing
  <2>2. Cardinality(Probing) = 0
    BY <2>1, FS_EmptySet
  <2> QED
    BY <2>2, ConfigPositive
       DEF Init, TimelyInv, StragglersAreOld, OnlyProbesRun, FewStragglers
<1>2. TypeOK /\ TimelyInv /\ [Next]_vars => TimelyInv'
  BY TimelyInvStep
<1> QED
  BY <1>1, <1>2, TypeCorrect, PTL DEF Spec

\* HALF_OPEN never lets more than HalfOpenMaxProbe callers into fn
\* (circuit_breaker.go:28), stragglers included, when calls are Timely.
THEOREM ProbeLimitHolds ==
  ASSUME Timely
  PROVE  Spec => []ProbeLimit
<1>1. TypeOK /\ TimelyInv => ProbeLimit
  <2> SUFFICES ASSUME TypeOK, TimelyInv, state = "half_open"
               PROVE  Cardinality(Running) <= HalfOpenMaxProbe
    BY DEF ProbeLimit
  <2>1. Cardinality(Running) <= halfOpenInFlight
    BY DEF TimelyInv, OnlyProbesRun
  <2> QED
    BY <2>1, CallersCounted, ConfigPositive DEF TypeOK
<1> QED
  BY <1>1, TimelyInvariant, PTL

\* While it is OPEN a Timely breaker has no probe left that could close it: a
\* probe that still succeeds is counted, and the count stays short.
LEMMA OpenProbesCannotClose ==
  ASSUME TypeOK, TimelyInv, state # "half_open",
         NEW c \in Callers, ProbeSucceeds(c)
  PROVE  /\ halfOpenSuccesses' = halfOpenSuccesses + 1
         /\ UNCHANGED <<state, consecutiveFailures, sinceOpened>>
<1>1. Cardinality(Probing) # 0
  <2>1. c \in Probing
    BY DEF ProbeSucceeds, Successes, SlotsAfterProbe, Probing
  <2> QED
    BY <2>1, CallersCounted, FS_EmptySet
<1>2. halfOpenSuccesses + 1 < HalfOpenMaxProbe
  BY <1>1, CallersCounted, ConfigPositive DEF TimelyInv, FewStragglers, TypeOK
<1> QED
  BY <1>2, ConfigPositive DEF ProbeSucceeds, Successes, SlotsAfterProbe, TypeOK

\* OPEN lasts for the whole recovery window (circuit_breaker.go:27) when calls
\* are Timely, for every number of callers and of probes.
THEOREM WindowIsHonoured ==
  ASSUME Timely
  PROVE  Spec => WindowHonoured
<1>1. TypeOK /\ TimelyInv /\ [Next]_vars
        => [state = "open" /\ state' # "open"
              => state' = "half_open" /\ WindowOver]_vars
  <2> SUFFICES ASSUME TypeOK, TimelyInv, Next, state = "open", state' # "open"
               PROVE  state' = "half_open" /\ WindowOver
    BY DEF vars, breakerVars
  <2>1. ASSUME NEW c \in Callers, Enter(c)
        PROVE  state' = "half_open" /\ WindowOver
    BY <2>1 DEF Enter, AdmitClosed, AdmitProbe, AdmitFirstProbe,
                ToHalfOpenAndReserve, breakerVars
  <2>2. ASSUME NEW c \in Callers, Leave(c) PROVE FALSE
    <3>1. CASE ProbeSucceeds(c)
      BY <3>1, OpenProbesCannotClose
    <3>2. CASE PlainSucceeds(c) \/ Fails(c) \/ Panics(c)
      BY <3>2 DEF PlainSucceeds, Fails, PlainFails, ProbeFails, ToOpen, Panics,
                  breakerVars
    <3> QED
      BY <2>2, <3>1, <3>2 DEF Leave, Succeeds
  <2>3. ~Tick /\ ~(\E c \in Callers : Reject(c))
    BY DEF Tick, Reject, vars, breakerVars
  <2> QED
    BY <2>1, <2>2, <2>3 DEF Next
<1> QED
  BY <1>1, TimelyInvariant, PTL DEF Spec, WindowHonoured

-------------------------------------------------------------------------------
(* The documented machine: Timely calls and a single probe at a time.      *)

\* With one probe at a time there is no straggling probe outside HALF_OPEN and
\* no success is pending there.
LEMMA SingleProbe ==
  ASSUME HalfOpenMaxProbe = 1, TypeOK, TimelyInv
  PROVE  /\ halfOpenSuccesses = 0
         /\ state # "half_open" => Probing = {}
         /\ state = "half_open" => Running = Probing
<1>1. halfOpenSuccesses = 0
  BY DEF TypeOK
<1>2. ASSUME state # "half_open" PROVE Probing = {}
  <2>1. Cardinality(Probing) = 0
    BY <1>1, <1>2, CallersCounted DEF TimelyInv, FewStragglers
  <2> QED
    BY <2>1, CallersCounted, FS_EmptySet
<1> QED
  BY <1>1, <1>2 DEF TimelyInv, OnlyProbesRun

\* "CLOSED opens after consecutive failures reach the threshold"
\* (circuit_breaker.go:26): no other call trips it.
THEOREM TripsOnlyOnStreak ==
  ASSUME Timely, HalfOpenMaxProbe = 1
  PROVE  Spec => TripNeedsStreak
<1>1. TypeOK /\ TimelyInv /\ [Next]_vars
        => [state = "closed" /\ state' = "open"
              => consecutiveFailures + 1 >= FailureThreshold]_vars
  <2> SUFFICES ASSUME TypeOK, TimelyInv, Next, state = "closed", state' = "open"
               PROVE  consecutiveFailures + 1 >= FailureThreshold
    BY DEF vars, breakerVars
  <2>1. ASSUME NEW c \in Callers, Enter(c) PROVE FALSE
    BY <2>1 DEF Enter, AdmitClosed, AdmitProbe, AdmitFirstProbe, breakerVars
  <2>2. ASSUME NEW c \in Callers, Leave(c)
        PROVE  consecutiveFailures + 1 >= FailureThreshold
    <3>1. c \notin Probing
      BY SingleProbe
    <3>2. ~ProbeSucceeds(c) /\ ~ProbeFails(c)
      BY <3>1 DEF Probing, ProbeSucceeds, ProbeFails
    <3> QED
      BY <2>2, <3>2 DEF Leave, Succeeds, Fails, PlainSucceeds, PlainFails, Trips,
                        Panics, breakerVars
  <2>3. ~Tick /\ ~(\E c \in Callers : Reject(c))
    BY DEF Tick, Reject, vars, breakerVars
  <2> QED
    BY <2>1, <2>2, <2>3 DEF Next
<1> QED
  BY <1>1, TimelyInvariant, PTL DEF Spec, TripNeedsStreak

\* With Timely calls and one probe at a time, any number of concurrent callers
\* see the documented state machine (resilience.go:4, circuit_breaker.go:25-28):
\* each step of the breaker is one of its steps, or changes nothing it knows of.
THEOREM BreakerImplementsDocumented ==
  ASSUME Timely, HalfOpenMaxProbe = 1
  PROVE  Spec => ImplementsDocumented
<1> USE ConfigPositive
<1>1. Init => Documented!Start
  BY DEF Init, Documented!Start
<1>2. TypeOK /\ TimelyInv /\ [Next]_vars => [Documented!Step]_(Documented!avars)
  <2> SUFFICES ASSUME TypeOK, TimelyInv, [Next]_vars
               PROVE  Documented!Step \/ UNCHANGED Documented!avars
    OBVIOUS
  <2>0. /\ halfOpenSuccesses = 0
        /\ state # "half_open" => Probing = {}
        /\ state = "half_open" => Running = Probing
    BY SingleProbe
  <2>1. ASSUME NEW c \in Callers, Enter(c)
        PROVE  Documented!StartProbing \/ UNCHANGED Documented!avars
    <3>1. CASE AdmitClosed(c)
      BY <3>1 DEF AdmitClosed, Admitted, breakerVars, Documented!avars
    <3>2. CASE AdmitFirstProbe(c)
      BY <3>2, <2>0
         DEF AdmitFirstProbe, Admitted, ToHalfOpenAndReserve, WindowOver,
             Documented!StartProbing
    <3>3. CASE AdmitProbe(c)
      BY <3>3 DEF AdmitProbe, Admitted, Documented!avars
    <3> QED
      BY <2>1, <3>1, <3>2, <3>3 DEF Enter
  <2>2. ASSUME NEW c \in Callers, Leave(c)
        PROVE  Documented!Step \/ UNCHANGED Documented!avars
    <3>1. CASE PlainSucceeds(c) /\ lastResult' = "success"
      <4>0. state # "half_open"
        BY <2>0, <3>1 DEF PlainSucceeds, Running, Probing
      <4>1. CASE state = "closed"
        BY <3>1, <4>1 DEF PlainSucceeds, Documented!Step, Documented!Succeed
      <4>2. CASE state = "open"
        BY <3>1, <4>2 DEF PlainSucceeds, Documented!Step, Documented!LateResult
      <4> QED
        BY <4>0, <4>1, <4>2 DEF TypeOK
    <3>2. CASE PlainFails(c) /\ lastResult' = "failure"
      <4>1. state # "half_open"
        BY <2>0, <3>2 DEF PlainFails, Trips, Running, Probing
      <4>2. CASE state = "closed"
        BY <3>2, <4>2, <2>0
           DEF PlainFails, Trips, ToOpen, TypeOK, Documented!Step, Documented!Fail,
               Documented!Trip
      <4>3. CASE state = "open" /\ consecutiveFailures + 1 >= FailureThreshold
        BY <3>2, <4>3
           DEF PlainFails, Trips, ToOpen, Documented!Step, Documented!ExtendWindow,
               Documented!Trip
      <4>4. CASE state = "open" /\ ~(consecutiveFailures + 1 >= FailureThreshold)
        BY <3>2, <4>4 DEF PlainFails, Trips, Documented!Step, Documented!LateResult
      <4> QED
        BY <4>1, <4>2, <4>3, <4>4 DEF TypeOK
    <3>3. CASE ProbeSucceeds(c) /\ lastResult' = "success"
      <4>1. state = "half_open"
        BY <2>0, <3>3 DEF ProbeSucceeds, Successes, SlotsAfterProbe, Probing
      <4> QED
        BY <3>3, <4>1, <2>0
           DEF ProbeSucceeds, Successes, SlotsAfterProbe, ToClosed,
               Documented!Step, Documented!ProbeSucceeds
    <3>4. CASE ProbeFails(c) /\ lastResult' = "failure"
      <4>1. state = "half_open"
        BY <2>0, <3>4 DEF ProbeFails, Probing
      <4> QED
        BY <3>4, <4>1
           DEF ProbeFails, ToOpen, Documented!Step, Documented!ProbeFails,
               Documented!Trip
    <3>5. CASE Panics(c)
      BY <3>5 DEF Panics, breakerVars, Documented!avars
    <3> QED
      BY <2>2, <3>1, <3>2, <3>3, <3>4, <3>5 DEF Leave, Succeeds, Fails
  <2>3. CASE Tick
    BY <2>3 DEF Tick, WindowOver, TypeOK, Documented!Step, Documented!TimePasses,
                Documented!avars
  <2>4. CASE UNCHANGED vars
    BY <2>4 DEF vars, breakerVars, Documented!avars
  <2> QED
    BY <2>1, <2>2, <2>3, <2>4 DEF Next, Reject, Documented!Step
<1> QED
  BY <1>1, <1>2, TimelyInvariant, PTL
     DEF Spec, ImplementsDocumented, Documented!AbstractSpec
===============================================================================
