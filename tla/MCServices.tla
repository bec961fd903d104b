------------------------------ MODULE MCServices ------------------------------
(* Small instances of the rate limiter, the fallback cache, the tool registry *)
(* and the services of observability: the exporter's lifecycle, the recorder  *)
(* of request chains, and the tracers behind a trace.  They share no          *)
(* variable: `service` says which of them moves, the others rest.             *)
EXTENDS MCTokenBucket, FallbackCache, ToolRegistry, ObservabilityLifecycle,
        ChainRecorder, TraceExport, TLC

CONSTANTS tenant, ann, bob, hash, g1, g2, search, fetch, nameless, other, req

VARIABLE service

MCTTLs == {0, 1}
MCStaleTTLs == {0, 1}

\* Two tools of one name, one of another, one without a name.
MCNameOf == (search :> "search") @@ (other :> "search") @@ (fetch :> "fetch")
            @@ (nameless :> Unnamed)

\* Chains of one request id, spelled two ways, with one stage or two; and what
\* is refused: an unexplained failure, an unknown outcome, no stage, no trace.
MCChainInputs ==
  LET Input(request, trace, outcome, explanation, observations) ==
        [identity |-> [request |-> request, serviceTrace |-> Text("svc"),
                       span |-> Text("span"), aiTrace |-> trace,
                       evalRun |-> Empty],
         feature |-> Text("rag_qa"), outcome |-> outcome, failure |-> Blank,
         explanation |-> explanation, services |-> <<>>,
         observations |-> observations, evidence |-> <<>>]
  IN  {Input(request, Text("ai"), Text("success"), Empty, stages) :
         request \in {Text(req), Padded(req)},
         stages \in {<<"agent">>, <<"generation", "agent">>}}
      \cup {Input(Text(req), trace, outcome, Empty, stages) :
              trace \in {Text("ai"), Padded(Blank)},
              outcome \in {Padded("failure"), Text("successed"), Text("success")},
              stages \in {<<"agent">>, <<>>}}
      \cup {Input(Text(req), Text("ai"), Padded("failure"), Text("why"), <<"agent">>)}

\* A service that does not move rests in one of its initial states.
ServicesInit ==
  /\ service \in {"limiter", "cache", "registry", "lifecycle", "chains", "export"}
  /\ Init
  /\ service = "limiter" \/ now = 0
  /\ CacheInit
  /\ service = "cache" \/ staleTTL = 0
  /\ RegistryInit
  /\ service = "registry" \/ \A cell \in Cells : schema[cell] \in ValidSchemas
  /\ LifecycleInit
  /\ service = "lifecycle" \/ ~hasExporter
  /\ ChainInit
  /\ ExportInit
  /\ service = "export" \/ (tee = <<>> /\ protected /\ encodable = {})

\* Not a deadlock: the call that records a trace ends.
ExportEnded == returned # Nil /\ UNCHANGED exportVars

ServicesNext ==
  /\ UNCHANGED service
  /\ \/ service = "limiter" /\ Next
     \/ service # "limiter" /\ UNCHANGED vars
  /\ \/ service = "cache" /\ CacheNext
     \/ service # "cache" /\ UNCHANGED cacheVars
  /\ \/ service = "registry" /\ RegistryNext
     \/ service # "registry" /\ UNCHANGED registryVars
  /\ \/ service = "lifecycle" /\ LifecycleNext
     \/ service # "lifecycle" /\ UNCHANGED lifecycleVars
  /\ \/ service = "chains" /\ ChainNext
     \/ service # "chains" /\ UNCHANGED chainVars
  /\ \/ service = "export" /\ (ExportNext \/ ExportEnded)
     \/ service # "export" /\ UNCHANGED exportVars

servicesVars ==
  <<vars, cacheVars, registryVars, lifecycleVars, chainVars, exportVars,
    service>>

ServicesSpec ==
  /\ ServicesInit
  /\ [][ServicesNext]_servicesVars
  /\ LifecycleFairness
===============================================================================
