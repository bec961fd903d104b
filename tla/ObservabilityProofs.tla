-------------------------- MODULE ObservabilityProofs --------------------------
(***************************************************************************)
(* Proofs about the services of observability: the exporter's lifecycle,   *)
(* the recorder of request chains, and the way of a trace to its tracers.  *)
(* They share no variable; each is proved of its own specification, for    *)
(* any callers, inputs and tracers.                                        *)
(***************************************************************************)
EXTENDS ObservabilityLifecycle, ChainRecorder, TraceExport, TLAPS

-------------------------------------------------------------------------------
(* The exporter's lifecycle. *)

\* What is running is run by the caller that holds the mutex; what was never
\* called was never begun with an exporter, and what was begun is called once.
CallsMatch ==
  /\ \A operation \in Exports :
       exported[operation] = "running" <=>
         \E caller \in inside : asked[caller] = operation
  /\ \A operation \in Exports :
       exports[operation] = IF exported[operation] = "never" THEN 0 ELSE 1
  /\ \A operation \in Exports :
       exported[operation] # "never" => operation \in flags

LifecycleInv ==
  /\ LifecycleTypeOK
  /\ CallsMatch
  /\ FailureIsRemembered

\* AnswersAreSettled, of one step.
Settled ==
  \A caller \in LifecycleCallers :
    asked[caller] # "none" /\ asked'[caller] = "none" =>
      \A operation \in Exports : exported'[operation] # "running"

LEMMA HolderIsInside ==
  ASSUME LifecycleTypeOK
  PROVE  /\ inside \subseteq LifecycleCallers
         /\ MutexFree <=> inside = {}
         /\ \A caller \in inside : mutexHolder = caller /\ inside = {caller}
<1>1. inside = {mutexHolder} \ {NoOne} /\ mutexHolder \in LifecycleCallers \cup {NoOne}
  BY DEF LifecycleTypeOK
<1>2. CASE mutexHolder = NoOne
  <2>1. inside = {}
    BY <1>1, <1>2
  <2> QED
    BY <1>2, <2>1 DEF MutexFree
<1>3. CASE mutexHolder # NoOne
  <2>1. inside = {mutexHolder} /\ mutexHolder \in LifecycleCallers
    BY <1>1, <1>3
  <2> QED
    BY <1>3, <2>1 DEF MutexFree
<1> QED
  BY <1>2, <1>3

LEMMA LifecycleInitOK == LifecycleInit => LifecycleInv
<1> SUFFICES ASSUME LifecycleInit PROVE LifecycleInv
  OBVIOUS
<1>1. LifecycleTypeOK
  <2>1. inside = {mutexHolder} \ {NoOne}
    BY DEF LifecycleInit
  <2> QED
    BY <2>1 DEF LifecycleInit, LifecycleTypeOK
<1>2. CallsMatch
  BY DEF LifecycleInit, CallsMatch
<1>3. FailureIsRemembered
  BY DEF LifecycleInit, FailureIsRemembered, Failures
<1> QED
  BY <1>1, <1>2, <1>3 DEF LifecycleInv

LEMMA AsksKeeps ==
  ASSUME LifecycleInv, NEW caller \in LifecycleCallers, NEW operation \in Operations,
         Asks(caller, operation)
  PROVE  LifecycleInv' /\ Settled
<1>1. /\ asked[caller] = "none" /\ asked' = [asked EXCEPT ![caller] = operation]
      /\ UNCHANGED <<hasExporter, mutexHolder, flags, failure, inside, exported,
                     exports>>
  BY DEF Asks
<1>2. "none" \notin Operations
  BY DEF Operations, Exports
<1>3. caller \notin inside
  BY <1>1, <1>2 DEF LifecycleInv, LifecycleTypeOK, Operations
<1>4. \A other \in LifecycleCallers :
        asked'[other] = IF other = caller THEN operation ELSE asked[other]
  BY <1>1 DEF LifecycleInv, LifecycleTypeOK
<1>5. \A other \in inside : asked'[other] = asked[other]
  BY <1>3, <1>4, HolderIsInside DEF LifecycleInv
<1>6. LifecycleTypeOK'
  BY <1>1, <1>5 DEF LifecycleInv, LifecycleTypeOK
<1>7. CallsMatch'
  BY <1>1, <1>5 DEF LifecycleInv, CallsMatch
<1>8. FailureIsRemembered'
  BY <1>1 DEF LifecycleInv, FailureIsRemembered
<1>9. Settled
  BY <1>2, <1>4 DEF Settled
<1> QED
  BY <1>6, <1>7, <1>8, <1>9 DEF LifecycleInv

LEMMA ReturnsAtOnceKeeps ==
  ASSUME LifecycleInv, NEW caller \in LifecycleCallers, ReturnsAtOnce(caller)
  PROVE  LifecycleInv' /\ Settled
<1>1. /\ asked' = [asked EXCEPT ![caller] = "none"]
      /\ flags' = flags \cup ({asked[caller]} \cap Exports)
      /\ inside = {}
      /\ UNCHANGED <<hasExporter, mutexHolder, failure, inside, exported, exports>>
  BY HolderIsInside DEF ReturnsAtOnce, Answered, LifecycleInv
<1>2. LifecycleTypeOK'
  BY <1>1 DEF LifecycleInv, LifecycleTypeOK
<1>3. CallsMatch'
  BY <1>1 DEF LifecycleInv, CallsMatch
<1>4. FailureIsRemembered'
  BY <1>1 DEF LifecycleInv, FailureIsRemembered
<1>5. Settled
  BY <1>1 DEF Settled, LifecycleInv, CallsMatch
<1> QED
  BY <1>2, <1>3, <1>4, <1>5 DEF LifecycleInv

\* The mutex was free, so nothing was running; the flag was not set, so this
\* operation was never called.
LEMMA CallsExporterKeeps ==
  ASSUME LifecycleInv, NEW caller \in LifecycleCallers, CallsExporter(caller)
  PROVE  LifecycleInv' /\ Settled
<1> DEFINE operation == asked[caller]
<1>1. /\ operation \in Exports /\ operation \notin flags
      /\ mutexHolder' = caller
      /\ inside = {} /\ inside' = {caller}
      /\ flags' = flags \cup {operation}
      /\ exported' = [exported EXCEPT ![operation] = "running"]
      /\ exports' = [exports EXCEPT ![operation] = exports[operation] + 1]
      /\ UNCHANGED <<hasExporter, failure, asked>>
  BY HolderIsInside DEF CallsExporter, Flagged, LifecycleInv
<1>2. exported[operation] = "never" /\ exports[operation] = 0
  BY <1>1 DEF LifecycleInv, CallsMatch
<1>3. \A other \in Exports :
        /\ exported'[other] = IF other = operation THEN "running" ELSE exported[other]
        /\ exports'[other] = IF other = operation THEN 1 ELSE exports[other]
  BY <1>1, <1>2 DEF LifecycleInv, LifecycleTypeOK
<1>4. LifecycleTypeOK'
  <2>1. inside' = {mutexHolder'} \ {NoOne}
    BY <1>1, LifecycleAssumption
  <2>2. /\ exported' \in [Exports -> {"never", "running"} \cup Results]
        /\ exports' \in [Exports -> Nat]
    BY <1>1, <1>2 DEF LifecycleInv, LifecycleTypeOK
  <2> QED
    BY <1>1, <2>1, <2>2 DEF LifecycleInv, LifecycleTypeOK
<1>5. CallsMatch'
  <2>1. \A other \in Exports :
          exported'[other] = "running" <=> \E one \in inside' : asked'[one] = other
    BY <1>1, <1>3 DEF LifecycleInv, CallsMatch
  <2>2. \A other \in Exports :
          exports'[other] = IF exported'[other] = "never" THEN 0 ELSE 1
    BY <1>3 DEF LifecycleInv, CallsMatch
  <2>3. \A other \in Exports : exported'[other] # "never" => other \in flags'
    BY <1>1, <1>3 DEF LifecycleInv, CallsMatch
  <2> QED
    BY <2>1, <2>2, <2>3 DEF CallsMatch
<1>6. FailureIsRemembered'
  <2>1. "running" \notin Failures /\ "never" \notin Failures
    BY DEF Failures
  <2>2. \A other \in Exports :
          exported'[other] \in Failures <=> exported[other] \in Failures
    BY <1>2, <1>3, <2>1
  <2> QED
    BY <1>1, <2>2 DEF LifecycleInv, FailureIsRemembered
<1>7. Settled
  BY <1>1 DEF Settled
<1> QED
  BY <1>4, <1>5, <1>6, <1>7 DEF LifecycleInv

LEMMA ExporterReturnsKeeps ==
  ASSUME LifecycleInv, NEW caller \in LifecycleCallers, NEW result \in Results,
         ExporterReturns(caller, result)
  PROVE  LifecycleInv' /\ Settled
<1> DEFINE operation == asked[caller]
<1>1. /\ caller \in inside
      /\ failure' = (failure \/ result \in Failures)
      /\ exported' = [exported EXCEPT ![operation] = result]
      /\ mutexHolder' = NoOne
      /\ asked' = [asked EXCEPT ![caller] = "none"]
      /\ UNCHANGED <<hasExporter, flags, exports>>
  BY DEF ExporterReturns, FailsWith, Unlocks, Answered
<1>2. inside = {caller} /\ inside' = {}
  BY <1>1, HolderIsInside DEF LifecycleInv, ExporterReturns
<1>3. operation \in flags /\ operation \in Exports
  BY <1>1 DEF LifecycleInv, LifecycleTypeOK
<1>4. exported[operation] = "running"
  BY <1>1, <1>3 DEF LifecycleInv, CallsMatch
<1>5. result \notin {"running", "never"}
  BY DEF Results, Failures
<1>6. \A other \in Exports :
        exported'[other] = IF other = operation THEN result ELSE exported[other]
  BY <1>1 DEF LifecycleInv, LifecycleTypeOK
<1>7. \A other \in Exports : exported'[other] # "running"
  BY <1>2, <1>5, <1>6 DEF LifecycleInv, CallsMatch
<1>8. LifecycleTypeOK'
  BY <1>1, <1>2 DEF LifecycleInv, LifecycleTypeOK
<1>9. CallsMatch'
  BY <1>1, <1>2, <1>3, <1>4, <1>5, <1>6, <1>7 DEF LifecycleInv, CallsMatch
<1>10. FailureIsRemembered'
  <2>1. "running" \notin Failures
    BY DEF Failures
  <2> QED
    BY <1>1, <1>3, <1>4, <1>6, <2>1 DEF LifecycleInv, FailureIsRemembered
<1>11. Settled
  BY <1>7 DEF Settled
<1> QED
  BY <1>8, <1>9, <1>10, <1>11 DEF LifecycleInv

LEMMA LifecycleStep ==
  LifecycleInv /\ [LifecycleNext]_lifecycleVars => LifecycleInv' /\ Settled
<1> SUFFICES ASSUME LifecycleInv, [LifecycleNext]_lifecycleVars
             PROVE  LifecycleInv' /\ Settled
  OBVIOUS
<1>1. CASE UNCHANGED lifecycleVars
  BY <1>1 DEF lifecycleVars, LifecycleInv, LifecycleTypeOK, CallsMatch,
              FailureIsRemembered, Settled
<1>2. CASE LifecycleNext
  BY <1>2, AsksKeeps, ReturnsAtOnceKeeps, CallsExporterKeeps, ExporterReturnsKeeps
     DEF LifecycleNext
<1> QED
  BY <1>1, <1>2

LEMMA LifecycleInvariant == LifecycleSpec => []LifecycleInv
BY LifecycleInitOK, LifecycleStep, PTL DEF LifecycleSpec

\* The mutex is held by exactly the caller that is inside the exporter.
THEOREM LifecycleTypeCorrect == LifecycleSpec => []LifecycleTypeOK
<1>1. LifecycleInv => LifecycleTypeOK
  BY DEF LifecycleInv
<1> QED
  BY <1>1, LifecycleInvariant, PTL

\* observability_lifecycle.go:59, :84: the flag is set before the exporter is
\* called, so that no failure leads to a second call.
THEOREM ExporterIsCalledOnce == LifecycleSpec => []ExporterCalledOnce
<1>1. LifecycleInv => ExporterCalledOnce
  BY HolderIsInside DEF LifecycleInv, CallsMatch, ExporterCalledOnce
<1> QED
  BY <1>1, LifecycleInvariant, PTL

\* observability_lifecycle.go:109-126: a failed or panicking exporter is
\* remembered in the status.
THEOREM FailuresAreRemembered == LifecycleSpec => []FailureIsRemembered
<1>1. LifecycleInv => FailureIsRemembered
  BY DEF LifecycleInv
<1> QED
  BY <1>1, LifecycleInvariant, PTL

\* observability_lifecycle.go:53, :78, :103: nobody is answered while the
\* exporter is being called.
THEOREM AnswersWaitForExporter == LifecycleSpec => AnswersAreSettled
<1>1. Settled <=>
        \A caller \in LifecycleCallers :
          asked[caller] # "none" /\ asked'[caller] = "none" =>
            \A operation \in Exports : exported'[operation] # "running"
  BY DEF Settled
<1> QED
  BY <1>1, LifecycleStep, LifecycleInvariant, PTL DEF LifecycleSpec, AnswersAreSettled

\* observability_lifecycle.go:50-126, all of it: whatever the exporter does, it
\* is called once, its failures are known and nobody gets ahead of it.
THEOREM LifecycleContainsExporter == LifecycleSpec => ExporterContained
BY LifecycleTypeCorrect, ExporterIsCalledOnce, FailuresAreRemembered, AnswersWaitForExporter
   DEF ExporterContained

-------------------------------------------------------------------------------
(* The recorder of request chains. *)

Chains    == {BuildChain(input) : input \in {i \in ChainInputs : Recordable(i)}}
CutChains == {[chain EXCEPT !.stages = <<>>] : chain \in Chains}

\* Under every request id that was recorded is the chain recorded last, and no
\* one else can reach it: what a user holds is its own, whole or cut.
ChainInv ==
  /\ byReqID \subseteq RequestIDs
  /\ recording \in [ChainUsers -> Chains \cup {Nothing}]
  /\ latest \in [RequestIDs -> Chains \cup {Nothing}]
  /\ stored \in [ChainCells -> Chains \cup CutChains \cup {Nothing}]
  /\ holding \in [ChainUsers -> ChainCells \cup {Nothing}]
  /\ \A user \in ChainUsers : holding[user] \in {Nothing, HeldCell(user)}
  /\ \A user \in ChainUsers : holding[user] # Nothing =>
       stored[HeldCell(user)] \in Chains \cup CutChains
  /\ \A request \in RequestIDs : latest[request] # Nothing => request \in byReqID
  /\ \A request \in byReqID :
       /\ stored[ChainCell(request)] = latest[request]
       /\ latest[request] \in Chains
       /\ latest[request].identity.request = request

\* What validation leaves of a chain.
LEMMA ChainIsRecordable ==
  ASSUME NEW chain \in Chains
  PROVE  /\ chain # Nothing
         /\ chain.identity.request \in RequestIDs
         /\ chain.stages # <<>>
         /\ chain.outcome.word \in NeedsExplanation => ~IsBlank(chain.explanation)
<1>1. PICK input \in ChainInputs : Recordable(input) /\ chain = BuildChain(input)
  BY DEF Chains
<1>2. chain # Nothing /\ input.identity.request \in RequestIDs
  BY <1>1, ChainAssumption
<1> QED
  BY <1>1, <1>2 DEF BuildChain, Recordable

LEMMA CellsAreApart ==
  /\ \A request \in RequestIDs : ChainCell(request) \in ChainCells
  /\ \A user \in ChainUsers : HeldCell(user) \in ChainCells
  /\ \A request \in RequestIDs, user \in ChainUsers :
       ChainCell(request) # HeldCell(user)
  /\ \A r1, r2 \in RequestIDs : ChainCell(r1) = ChainCell(r2) => r1 = r2
  /\ \A u1, u2 \in ChainUsers : HeldCell(u1) = HeldCell(u2) => u1 = u2
<1>1. "kept" # "own"
  OBVIOUS
<1> QED
  BY <1>1 DEF ChainCells, ChainCell, HeldCell

LEMMA TrimmedIsItself ==
  ASSUME NEW request \in RequestIDs, ~request.padded
  PROVE  Trim(request) = request
<1>1. PICK word : request = Text(word) \/ request = Padded(word)
  BY DEF RequestIDs
<1> QED
  BY <1>1 DEF Text, Padded, Trim

LEMMA ChainInitOK == ChainInit => ChainInv
BY DEF ChainInit, ChainInv

\* A user writes its own cell and goes on with it: no kept chain is touched.
LEMMA OwnWriteKeeps ==
  ASSUME ChainInv, NEW user \in ChainUsers, NEW written \in Chains \cup CutChains,
         stored' = [stored EXCEPT ![HeldCell(user)] = written],
         holding' = [holding EXCEPT ![user] = HeldCell(user)],
         recording' \in [ChainUsers -> Chains \cup {Nothing}],
         UNCHANGED <<byReqID, latest>>
  PROVE  ChainInv'
<1>1. stored' \in [ChainCells -> Chains \cup CutChains \cup {Nothing}]
  BY DEF ChainInv
<1>2. \A wanted \in RequestIDs : stored'[ChainCell(wanted)] = stored[ChainCell(wanted)]
  BY CellsAreApart DEF ChainInv
<1>3. \A other \in ChainUsers :
        /\ holding'[other] = IF other = user THEN HeldCell(other) ELSE holding[other]
        /\ stored'[HeldCell(other)] =
             IF other = user THEN written ELSE stored[HeldCell(other)]
  BY CellsAreApart DEF ChainInv
<1>4. holding' \in [ChainUsers -> ChainCells \cup {Nothing}]
  BY CellsAreApart DEF ChainInv
<1> QED
  BY <1>1, <1>2, <1>3, <1>4 DEF ChainInv

LEMMA BuildsKeeps ==
  ASSUME ChainInv, NEW user \in ChainUsers, NEW input \in ChainInputs,
         Builds(user, input)
  PROVE  ChainInv'
<1>1. BuildChain(input) \in Chains
  BY DEF Builds, Chains
<1>2. recording' \in [ChainUsers -> Chains \cup {Nothing}]
  BY <1>1 DEF ChainInv, Builds
<1> QED
  BY <1>1, <1>2, OwnWriteKeeps DEF Builds

\* The chain goes under its id; the clone, if the user takes it, is its own.
LEMMA RecordsKeeps ==
  ASSUME ChainInv, NEW user \in ChainUsers, Records(user)
  PROVE  ChainInv'
<1> DEFINE chain == recording[user]
           request == chain.identity.request
<1>1. chain \in Chains
  BY DEF ChainInv, Records
<1>2. request \in RequestIDs
  BY <1>1, ChainIsRecordable
<1>3. /\ byReqID' = byReqID \cup {request}
      /\ latest' = [latest EXCEPT ![request] = chain]
      /\ recording' = [recording EXCEPT ![user] = Nothing]
      /\ \/ /\ stored' = [stored EXCEPT ![ChainCell(request)] = chain]
            /\ UNCHANGED holding
         \/ /\ stored' = [stored EXCEPT ![ChainCell(request)] = chain,
                                        ![HeldCell(user)] = chain]
            /\ holding' = [holding EXCEPT ![user] = HeldCell(user)]
  BY DEF Records, Built, CloneCell
<1>4. request = chain.identity.request
  OBVIOUS
<1> HIDE DEF chain, request
<1>5. stored' \in [ChainCells -> Chains \cup CutChains \cup {Nothing}]
  BY <1>1, <1>3 DEF ChainInv
<1>6. \A wanted \in RequestIDs :
        /\ stored'[ChainCell(wanted)] =
             IF wanted = request THEN chain ELSE stored[ChainCell(wanted)]
        /\ latest'[wanted] = IF wanted = request THEN chain ELSE latest[wanted]
  BY <1>2, <1>3, CellsAreApart DEF ChainInv
<1>7. \A other \in ChainUsers :
        \/ /\ stored'[HeldCell(other)] = stored[HeldCell(other)]
           /\ holding'[other] = holding[other]
        \/ /\ stored'[HeldCell(other)] = chain
           /\ holding'[other] = HeldCell(other)
  BY <1>2, <1>3, CellsAreApart DEF ChainInv
<1>8. holding' \in [ChainUsers -> ChainCells \cup {Nothing}]
  BY <1>3, CellsAreApart DEF ChainInv
<1>9. /\ \A other \in ChainUsers : holding'[other] \in {Nothing, HeldCell(other)}
      /\ \A other \in ChainUsers : holding'[other] # Nothing =>
           stored'[HeldCell(other)] \in Chains \cup CutChains
  BY <1>1, <1>7 DEF ChainInv
<1>10. /\ byReqID' \subseteq RequestIDs
       /\ recording' \in [ChainUsers -> Chains \cup {Nothing}]
       /\ latest' \in [RequestIDs -> Chains \cup {Nothing}]
  BY <1>1, <1>2, <1>3 DEF ChainInv
<1>11. \A wanted \in RequestIDs : latest'[wanted] # Nothing => wanted \in byReqID'
  BY <1>3, <1>6 DEF ChainInv
<1>12. \A wanted \in byReqID' :
         /\ stored'[ChainCell(wanted)] = latest'[wanted]
         /\ latest'[wanted] \in Chains
         /\ latest'[wanted].identity.request = wanted
  <2> SUFFICES ASSUME NEW wanted \in byReqID'
               PROVE  /\ stored'[ChainCell(wanted)] = latest'[wanted]
                      /\ latest'[wanted] \in Chains
                      /\ latest'[wanted].identity.request = wanted
    OBVIOUS
  <2>1. CASE wanted = request
    BY <1>1, <1>2, <1>4, <1>6, <2>1
  <2>2. CASE wanted # request
    BY <1>3, <1>6, <2>2 DEF ChainInv
  <2> QED
    BY <2>1, <2>2
<1> QED
  BY <1>5, <1>8, <1>9, <1>10, <1>11, <1>12 DEF ChainInv

LEMMA FindByRequestIDKeeps ==
  ASSUME ChainInv, NEW user \in ChainUsers, NEW request \in RequestIDs,
         FindByRequestID(user, request)
  PROVE  ChainInv'
<1> DEFINE key == LookupKey(request)
<1>1. stored[ChainCell(key)] \in Chains
  BY DEF FindByRequestID, Found, ChainInv
<1> QED
  BY <1>1, OwnWriteKeeps DEF FindByRequestID, CloneCell, ChainInv

LEMMA FindsNoneKeeps ==
  ASSUME ChainInv, NEW user \in ChainUsers, NEW request \in RequestIDs,
         FindsNone(user, request)
  PROVE  ChainInv'
<1>1. holding' = [holding EXCEPT ![user] = Nothing]
  BY DEF FindsNone
<1>2. \A other \in ChainUsers :
        holding'[other] = IF other = user THEN Nothing ELSE holding[other]
  BY <1>1 DEF ChainInv
<1>3. holding' \in [ChainUsers -> ChainCells \cup {Nothing}]
  BY <1>1 DEF ChainInv
<1> QED
  BY <1>2, <1>3 DEF ChainInv, FindsNone

LEMMA UserEditsKeeps ==
  ASSUME ChainInv, NEW user \in ChainUsers, UserEdits(user)
  PROVE  ChainInv'
<1> DEFINE cut == [stored[HeldCell(user)] EXCEPT !.stages = <<>>]
<1>1. holding[user] = HeldCell(user) /\ stored[HeldCell(user)] \in Chains \cup CutChains
  BY DEF ChainInv, UserEdits
<1>2. cut \in CutChains
  BY <1>1 DEF CutChains
<1>3. stored' = [stored EXCEPT ![HeldCell(user)] = cut]
  BY <1>1 DEF UserEdits
<1>4. holding' = [holding EXCEPT ![user] = HeldCell(user)]
  BY <1>1 DEF UserEdits, ChainInv
<1> HIDE DEF cut
<1> QED
  BY <1>2, <1>3, <1>4, OwnWriteKeeps DEF UserEdits, ChainInv

LEMMA ChainInvariant == ChainSpec => []ChainInv
<1>1. ChainInv /\ [ChainNext]_chainVars => ChainInv'
  <2> SUFFICES ASSUME ChainInv, [ChainNext]_chainVars PROVE ChainInv'
    OBVIOUS
  <2>1. ASSUME UNCHANGED chainVars PROVE ChainInv'
    BY <2>1 DEF chainVars, ChainInv
  <2>2. ASSUME NEW user \in ChainUsers,
               \/ \E input \in ChainInputs : RecordRejected(user, input)
               \/ RecordCancelled(user)
               \/ \E input \in ChainInputs : Builds(user, input)
               \/ Records(user)
        PROVE  ChainInv'
    BY <2>1, <2>2, BuildsKeeps, RecordsKeeps DEF RecordRejected, RecordCancelled
  <2>3. ASSUME NEW user \in ChainUsers,
               \/ \E request \in RequestIDs : FindByRequestID(user, request)
               \/ \E request \in RequestIDs : FindsNone(user, request)
               \/ UserEdits(user)
        PROVE  ChainInv'
    BY <2>3, FindByRequestIDKeeps, FindsNoneKeeps, UserEditsKeeps
  <2> QED
    BY <2>1, <2>2, <2>3 DEF ChainNext
<1> QED
  BY <1>1, ChainInitOK, PTL DEF ChainSpec

\* chain_recorder.go:98-136, for any callers and any inputs: however they
\* overwrite each other and edit what they passed and were given, a lookup gives
\* the chain recorded last under the id.
THEOREM RecordedChainsAreKept == ChainSpec => []ChainsKept
<1>1. ChainInv => ChainsKept
  <2> SUFFICES ASSUME ChainInv PROVE ChainsKept
    OBVIOUS
  <2>1. ChainTypeOK
    <3>1. \A cell \in ChainCells : stored[cell] # Nothing =>
            \E chain \in Chains : stored[cell] \in {chain, [chain EXCEPT !.stages = <<>>]}
      BY DEF ChainInv, CutChains
    <3> QED
      BY <3>1 DEF ChainInv, ChainTypeOK, Chains
  <2>2. KeptAsRecorded
    <3>1. ASSUME NEW request \in byReqID
          PROVE  /\ stored[ChainCell(request)] = latest[request]
                 /\ latest[request].identity.request = request
                 /\ latest[request] \in Chains
      BY DEF ChainInv
    <3> QED
      BY <3>1, ChainIsRecordable DEF KeptAsRecorded
  <2>3. FoundUnlessPadded
    <3> SUFFICES ASSUME NEW recorded \in RequestIDs, NEW wanted \in RequestIDs,
                        latest[recorded] # Nothing, Trim(wanted) = Trim(recorded),
                        ~recorded.padded
                 PROVE  Found(wanted)
      BY DEF FoundUnlessPadded
    <3> QED
      BY TrimmedIsItself DEF ChainInv, Found, LookupKey
  <2> QED
    BY <2>1, <2>2, <2>3 DEF ChainsKept
<1> QED
  BY <1>1, ChainInvariant, PTL

-------------------------------------------------------------------------------
(* The tracers behind a trace. *)

\* What has been settled so far: collectors that had their turn have the trace,
\* the turn passes a panic only behind an adapter, and the call ends at a panic
\* of anything else or when every tracer had its turn.
ExportInv ==
  /\ tee \in Seq(Tracers) /\ protected \in BOOLEAN
  /\ ExportTypeOK
  /\ CallersUnharmed
  /\ \A i \in 1 .. turn - 1 : tee[i] = "collector" => i \in kept
  /\ returned \in {Nil, NoFailure} => panicked \subseteq 1 .. turn - 1
  /\ returned = NoFailure => turn = Len(tee) + 1
  /\ returned \in {Failed, Panic} => turn \in panicked

LEMMA ExportInitOK == ExportInit => ExportInv
<1> SUFFICES ASSUME ExportInit PROVE ExportInv
  OBVIOUS
<1>1. tee \in Seq(Tracers)
  <2>1. PICK n \in 0 .. MaxTracers : tee \in [1 .. n -> Tracers]
    BY DEF ExportInit
  <2> QED
    BY <2>1, ExportAssumption
<1>2. Len(tee) \in Nat
  BY <1>1
<1> QED
  BY <1>1, <1>2 DEF ExportInit, ExportInv, ExportTypeOK, CallersUnharmed, Nil, NoFailure,
     Failed, Panic

LEMMA TakesKeeps ==
  ASSUME ExportInv, NEW tracer \in Tracers, Takes(tracer)
  PROVE  ExportInv'
<1>1. Len(tee) \in Nat /\ DOMAIN tee = 1 .. Len(tee) /\ turn \in 1 .. Len(tee)
  BY DEF ExportInv, Takes, HasTurn
<1>2. /\ returned = Nil /\ kept' = kept \cup {turn} /\ turn' = turn + 1
      /\ UNCHANGED <<tee, protected, encodable, panicked, returned>>
  BY DEF Takes, HasTurn
<1>3. panicked \subseteq 1 .. turn - 1 /\ kept \subseteq 1 .. turn - 1
  BY <1>2 DEF ExportInv, ExportTypeOK
<1>4. ExportTypeOK'
  BY <1>1, <1>2, <1>3 DEF ExportInv, ExportTypeOK
<1>5. CallersUnharmed'
  BY <1>2 DEF CallersUnharmed, Nil, Panic
<1>6. \A i \in 1 .. turn' - 1 : tee'[i] = "collector" => i \in kept'
  BY <1>1, <1>2 DEF ExportInv
<1>7. panicked' \subseteq 1 .. turn' - 1
  BY <1>1, <1>2, <1>3
<1> QED
  BY <1>2, <1>4, <1>5, <1>6, <1>7 DEF ExportInv, Nil, NoFailure, Failed, Panic

LEMMA DropsKeeps ==
  ASSUME ExportInv, NEW tracer \in Tracers, Drops(tracer)
  PROVE  ExportInv'
<1>1. Len(tee) \in Nat /\ DOMAIN tee = 1 .. Len(tee) /\ turn \in 1 .. Len(tee)
  BY DEF ExportInv, Drops, HasTurn
<1>2. /\ returned = Nil /\ turn' = turn + 1
      /\ UNCHANGED <<tee, protected, encodable, kept, panicked, returned>>
  BY DEF Drops, HasTurn
<1>3. panicked \subseteq 1 .. turn - 1 /\ kept \subseteq 1 .. turn - 1
  BY <1>2 DEF ExportInv, ExportTypeOK
<1>4. ExportTypeOK'
  BY <1>1, <1>2, <1>3 DEF ExportInv, ExportTypeOK
<1>5. CallersUnharmed'
  BY <1>2 DEF CallersUnharmed, Nil, Panic
<1>6. tee[turn] # "collector"
  BY DEF Drops, HasTurn, CanEncode
<1>7. \A i \in 1 .. turn' - 1 : tee'[i] = "collector" => i \in kept'
  BY <1>1, <1>2, <1>6 DEF ExportInv
<1>8. panicked' \subseteq 1 .. turn' - 1
  BY <1>1, <1>2, <1>3
<1> QED
  BY <1>2, <1>4, <1>5, <1>7, <1>8 DEF ExportInv, Nil, NoFailure, Failed, Panic

LEMMA PanicsKeeps ==
  ASSUME ExportInv, NEW tracer \in Tracers, Panics(tracer)
  PROVE  ExportInv'
<1>1. /\ Len(tee) \in Nat /\ DOMAIN tee = 1 .. Len(tee) /\ turn \in 1 .. Len(tee)
      /\ returned = Nil /\ tee[turn] = tracer /\ tracer # "collector"
  BY DEF ExportInv, Panics, HasTurn
<1>2. /\ panicked' = panicked \cup {turn} /\ UNCHANGED <<tee, protected, encodable>>
      /\ kept \subseteq kept' /\ kept' \subseteq kept \cup {turn}
  BY DEF Panics
<1>3. panicked \subseteq 1 .. turn - 1 /\ kept \subseteq 1 .. turn - 1
  BY <1>1 DEF ExportInv, ExportTypeOK
<1>4. CASE tracer = "otel"
  <2>1. turn' = turn + 1 /\ UNCHANGED returned
    BY <1>4 DEF Panics, SwallowsPanics
  <2>2. ExportTypeOK'
    BY <1>1, <1>2, <1>3, <1>4, <2>1 DEF ExportInv, ExportTypeOK
  <2>3. CallersUnharmed'
    BY <1>1, <2>1 DEF CallersUnharmed, Nil, Panic
  <2>4. \A i \in 1 .. turn' - 1 : tee'[i] = "collector" => i \in kept'
    BY <1>1, <1>2, <2>1 DEF ExportInv
  <2>5. panicked' \subseteq 1 .. turn' - 1
    BY <1>1, <1>2, <1>3, <2>1
  <2> QED
    BY <1>1, <1>2, <2>1, <2>2, <2>3, <2>4, <2>5 DEF ExportInv, Nil, NoFailure, Failed, Panic
<1>5. CASE tracer # "otel"
  <2>1. returned' = StatusOfPanic /\ UNCHANGED turn
    BY <1>5 DEF Panics, SwallowsPanics
  <2>2. returned' = (IF protected THEN Failed ELSE Panic)
    BY <2>1 DEF StatusOfPanic
  <2>3. ExportTypeOK'
    BY <1>1, <1>2, <1>3, <2>1, <2>2 DEF ExportInv, ExportTypeOK
  <2>4. CallersUnharmed'
    BY <1>1, <1>2, <1>5, <2>1, <2>2 DEF CallersUnharmed, Failed, Panic
  <2>5. \A i \in 1 .. turn' - 1 : tee'[i] = "collector" => i \in kept'
    BY <1>1, <1>2, <2>1 DEF ExportInv
  <2> QED
    BY <1>1, <1>2, <2>1, <2>2, <2>3, <2>4, <2>5
       DEF ExportInv, Nil, NoFailure, Failed, Panic
<1> QED
  BY <1>4, <1>5

LEMMA ExportReturnsKeeps ==
  ASSUME ExportInv, ExportReturns
  PROVE  ExportInv'
BY DEF ExportInv, ExportTypeOK, ExportReturns, CallersUnharmed, Nil, NoFailure, Failed, Panic

LEMMA ExportInvariant == ExportSpec => []ExportInv
<1>1. ExportInv /\ [ExportNext]_exportVars => ExportInv'
  <2> SUFFICES ASSUME ExportInv, [ExportNext]_exportVars PROVE ExportInv'
    OBVIOUS
  <2>1. CASE \E tracer \in Tracers : Takes(tracer) \/ Drops(tracer) \/ Panics(tracer)
    BY <2>1, TakesKeeps, DropsKeeps, PanicsKeeps
  <2>2. CASE ExportReturns
    BY <2>2, ExportReturnsKeeps
  <2>3. CASE UNCHANGED exportVars
    BY <2>3 DEF exportVars, ExportInv, ExportTypeOK, CallersUnharmed
  <2> QED
    BY <2>1, <2>2, <2>3 DEF ExportNext
<1> QED
  BY <1>1, ExportInitOK, PTL DEF ExportSpec

\* export_failure.go:5-19 over the tee of p0.go, for any number of tracers in
\* any order: no protected caller sees a panic, and what it is told is true of
\* who has the trace.
THEOREM ExportStatusIsTrue == ExportSpec => []StatusIsTrue
<1>1. ExportInv => StatusIsTrue
  <2> SUFFICES ASSUME ExportInv PROVE StatusIsTrue
    OBVIOUS
  <2>1. Len(tee) \in Nat /\ DOMAIN tee = 1 .. Len(tee) /\ turn \in 1 .. Len(tee) + 1
    BY DEF ExportInv, ExportTypeOK
  <2>2. returned = NoFailure =>
          /\ \A i \in DOMAIN tee : tee[i] = "collector" => i \in kept
          /\ \A i \in panicked : tee[i] = "otel"
    BY <2>1 DEF ExportInv, ExportTypeOK
  <2>3. returned \in {Failed, Panic} =>
          /\ turn \in panicked
          /\ \A i \in DOMAIN tee : i > turn => i \notin kept
          /\ \A i \in 1 .. turn - 1 : tee[i] = "collector" => i \in kept
    BY <2>1 DEF ExportInv, ExportTypeOK
  <2> QED
    BY <2>2, <2>3 DEF ExportInv, StatusIsTrue, StatusSaysWhoHasIt
<1> QED
  BY <1>1, ExportInvariant, PTL
===============================================================================
