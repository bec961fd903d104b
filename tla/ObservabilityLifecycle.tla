------------------------ MODULE ObservabilityLifecycle ------------------------
(***************************************************************************)
(* internal/cmd/observability_lifecycle.go: Initialize, Shutdown and       *)
(* Status behind one mutex, which is held while the exporter is called.    *)
(* The flag is set before that call, and what the exporter returns or      *)
(* panics with is remembered and never passed on.  What happens under the  *)
(* mutex before the exporter is called is one step, the call is another.   *)
(***************************************************************************)
EXTENDS Naturals

CONSTANTS
  LifecycleCallers,   \* goroutines
  NoOne

ASSUME LifecycleAssumption == NoOne \notin LifecycleCallers

Exports    == {"Initialize", "Shutdown"}
Operations == Exports \cup {"Status"}
Failures   == {"error", "panic"}
Results    == {"ok"} \cup Failures

VARIABLES
  hasExporter,   \* exporter # nil
  mutexHolder,   \* mu
  flags,         \* status.Initialized, status.Shutdown: the operations begun
  failure,       \* status.FailureStatus is set
  asked,         \* per caller: the operation it is in, or "none"
  inside,        \* callers that are inside the exporter
  exported,      \* what became of each operation of the exporter (history)
  exports        \* how often it was called (history)

lifecycleVars ==
  <<hasExporter, mutexHolder, flags, failure, asked, inside, exported, exports>>

LifecycleInit ==
  /\ hasExporter \in BOOLEAN
  /\ mutexHolder = NoOne
  /\ flags = {}
  /\ failure = FALSE
  /\ asked = [caller \in LifecycleCallers |-> "none"]
  /\ inside = {}
  /\ exported = [operation \in Exports |-> "never"]
  /\ exports = [operation \in Exports |-> 0]

-------------------------------------------------------------------------------

Asks(caller, operation) ==
  /\ asked[caller] = "none"
  /\ asked' = [asked EXCEPT ![caller] = operation]
  /\ UNCHANGED <<hasExporter, mutexHolder, flags, failure, inside, exported, exports>>

\* Mutant: the mutex is not held across the call of the exporter.
MutexFreeAlways == TRUE

MutexFree == mutexHolder = NoOne

Waits(caller) == asked[caller] # "none" /\ caller \notin inside

Answered(caller) == asked' = [asked EXCEPT ![caller] = "none"]

\* Status, an operation that was begun before, one without an exporter.
ReturnsAtOnce(caller) ==
  /\ Waits(caller)
  /\ MutexFree
  /\ \/ asked[caller] \in {"Status"} \cup flags
     \/ ~hasExporter
  /\ flags' = flags \cup ({asked[caller]} \cap Exports)
  /\ Answered(caller)
  /\ UNCHANGED <<hasExporter, mutexHolder, failure, inside, exported, exports>>

\* Mutant: the flag is left to the exporter's success, and forgotten there.
FlaggedNot(operation) == flags

Flagged(operation) == flags \cup {operation}

CallsExporter(caller) ==
  LET operation == asked[caller] IN
  /\ Waits(caller)
  /\ MutexFree
  /\ hasExporter
  /\ operation \in Exports \ flags
  /\ mutexHolder' = caller
  /\ inside' = inside \cup {caller}
  /\ flags' = Flagged(operation)
  /\ exported' = [exported EXCEPT ![operation] = "running"]
  /\ exports' = [exports EXCEPT ![operation] = exports[operation] + 1]
  /\ UNCHANGED <<hasExporter, failure, asked>>

\* Mutant: a panic is recovered from and forgotten.
FailsWithError(result) == result = "error"

\* runLifecycleExporter: a panic is an error like any other.
FailsWith(result) == result \in Failures

\* Mutant: a failed call leaves the mutex locked.
UnlocksAfterSuccess(result) ==
  mutexHolder' = IF result = "ok" THEN NoOne ELSE mutexHolder

Unlocks(result) == mutexHolder' = NoOne

ExporterReturns(caller, result) ==
  /\ caller \in inside
  /\ failure' = (failure \/ FailsWith(result))
  /\ exported' = [exported EXCEPT ![asked[caller]] = result]
  /\ Unlocks(result)
  /\ inside' = inside \ {caller}
  /\ Answered(caller)
  /\ UNCHANGED <<hasExporter, flags, exports>>

LifecycleNext ==
  \E caller \in LifecycleCallers :
    \/ \E operation \in Operations : Asks(caller, operation)
    \/ ReturnsAtOnce(caller)
    \/ CallsExporter(caller)
    \/ \E result \in Results : ExporterReturns(caller, result)

LifecycleSpec == LifecycleInit /\ [][LifecycleNext]_lifecycleVars

\* The exporter returns, as an exporter with a timeout does; and sync.Mutex
\* starves nobody who waits for it (its starvation mode), although the others
\* go on asking.
LifecycleFairness ==
  \A caller \in LifecycleCallers :
    /\ WF_lifecycleVars(\E result \in Results : ExporterReturns(caller, result))
    /\ SF_lifecycleVars(ReturnsAtOnce(caller) \/ CallsExporter(caller))

-------------------------------------------------------------------------------
(* Properties. *)

\* Types; the mutex is held by exactly the caller that is in the exporter.
LifecycleTypeOK ==
  /\ hasExporter \in BOOLEAN
  /\ mutexHolder \in LifecycleCallers \cup {NoOne}
  /\ flags \subseteq Exports
  /\ failure \in BOOLEAN
  /\ asked \in [LifecycleCallers -> Operations \cup {"none"}]
  /\ exported \in [Exports -> {"never", "running"} \cup Results]
  /\ exports \in [Exports -> Nat]
  /\ inside = {mutexHolder} \ {NoOne}
  /\ \A caller \in inside : asked[caller] \in flags

\* observability_lifecycle.go:47, :72: however many callers there are, each
\* operation of the exporter is called at most once, one at a time, also when
\* it fails or panics.
ExporterCalledOnce ==
  /\ \A operation \in Exports : exports[operation] <= 1
  /\ \A one, two \in inside : one = two

\* A status, or the nil of a repeated Initialize, is not returned before what
\* was begun is over: nobody goes on with an exporter that is being set up.
AnswersAreSettled ==
  [][\A caller \in LifecycleCallers :
       asked[caller] # "none" /\ asked'[caller] = "none" =>
         \A operation \in Exports : exported'[operation] # "running"]_lifecycleVars

\* No failure of the exporter is lost, whichever of the two calls failed and
\* however it did, and none is made up.
FailureIsRemembered ==
  failure <=> \E operation \in Exports : exported[operation] \in Failures

\* What the lifecycle promises: whatever the exporter does, it is called once,
\* its failures are known, and nobody gets ahead of it.
ExporterContained ==
  [](LifecycleTypeOK /\ ExporterCalledOnce /\ FailureIsRemembered) /\ AnswersAreSettled

\* Nobody waits for the mutex for ever, although it is held across a call of
\* foreign code that may fail or panic.
CallersReturn ==
  \A caller \in LifecycleCallers : asked[caller] # "none" ~> asked[caller] = "none"
===============================================================================
