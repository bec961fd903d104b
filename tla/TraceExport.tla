------------------------------ MODULE TraceExport ------------------------------
(***************************************************************************)
(* How a trace reaches its tracers: RecordWithExportFailureProtection      *)
(* (pkg/ai/obs/export_failure.go) around a tee of tracers                  *)
(* (internal/eval/smoke/p0.go), each of them the smoke's collector, the    *)
(* JSON logger (logger.go), the OTel-style adapter (otel_tracer.go) or     *)
(* another implementation of obs.Tracer.  A tracer has no error to return: *)
(* what is behind it takes the trace, drops it or panics, before or after  *)
(* it has taken it.                                                        *)
(***************************************************************************)
EXTENDS Naturals, Sequences

CONSTANTS
  MaxTracers   \* bound: tracers behind one tee

ASSUME ExportAssumption == MaxTracers \in Nat

Tracers == {"collector", "logger", "otel", "other"}

VARIABLES
  tee,        \* the tracers, in order; nil ones are filtered out
  protected,  \* whether the caller is one of those that protect themselves
  encodable,  \* who can encode the trace: the logger unless a score is NaN,
              \* the adapter if the observation type is known
  turn,       \* the tracer whose turn it is
  kept,       \* the tracers that have the trace
  panicked,   \* the tracers behind which something panicked
  returned    \* what the caller sees

exportVars == <<tee, protected, encodable, turn, kept, panicked, returned>>

Nil       == "nil"          \* not returned yet
NoFailure == "none"         \* the empty status
Failed    == "telemetry_export_failed"
Panic     == "panic"

ExportInit ==
  /\ tee \in UNION {[1 .. n -> Tracers] : n \in 0 .. MaxTracers}
  /\ protected \in BOOLEAN
  /\ encodable \in SUBSET {"logger", "otel"}
  /\ turn = 1
  /\ kept = {}
  /\ panicked = {}
  /\ returned = Nil

-------------------------------------------------------------------------------

HasTurn(tracer) ==
  /\ returned = Nil
  /\ turn \in DOMAIN tee
  /\ tee[turn] = tracer

CanEncode(tracer) == tracer \in {"collector", "other"} \cup encodable

Takes(tracer) ==
  /\ HasTurn(tracer)
  /\ CanEncode(tracer)
  /\ kept' = kept \cup {turn}
  /\ turn' = turn + 1
  /\ UNCHANGED <<tee, protected, encodable, panicked, returned>>

\* The adapter drops what it cannot encode, the logger also what its writer
\* refuses: nobody hears of it.
Drops(tracer) ==
  /\ HasTurn(tracer)
  /\ tracer \in {"logger", "other"} \/ ~CanEncode(tracer)
  /\ turn' = turn + 1
  /\ UNCHANGED <<tee, protected, encodable, kept, panicked, returned>>

\* Mutant: the tee recovers from every panic and goes on.
SwallowsEveryPanic(tracer) == TRUE

\* otel_tracer.go:39-41
SwallowsPanics(tracer) == tracer = "otel"

\* Mutant: the caller is not protected.
StatusOfPanicUnprotected == Panic

\* Mutant: the panic is recovered from, but the status is not set.
StatusOfPanicSilent == IF protected THEN NoFailure ELSE Panic

\* export_failure.go:15-19; a caller that does not use it sees the panic.
StatusOfPanic == IF protected THEN Failed ELSE Panic

\* A sink, a writer or a tracer panics, and may have taken the trace before.
\* What the adapter does not swallow ends the tee's loop, and with it the call.
Panics(tracer) ==
  /\ HasTurn(tracer)
  /\ tracer # "collector"
  /\ CanEncode(tracer)
  /\ panicked' = panicked \cup {turn}
  /\ kept' \in {kept, kept \cup {turn}}
  /\ \/ /\ SwallowsPanics(tracer)
        /\ turn' = turn + 1
        /\ UNCHANGED returned
     \/ /\ ~SwallowsPanics(tracer)
        /\ returned' = StatusOfPanic
        /\ UNCHANGED turn
  /\ UNCHANGED <<tee, protected, encodable>>

ExportReturns ==
  /\ returned = Nil
  /\ turn = Len(tee) + 1
  /\ returned' = NoFailure
  /\ UNCHANGED <<tee, protected, encodable, turn, kept, panicked>>

ExportNext ==
  \/ \E tracer \in Tracers : Takes(tracer) \/ Drops(tracer) \/ Panics(tracer)
  \/ ExportReturns

ExportSpec == ExportInit /\ [][ExportNext]_exportVars

-------------------------------------------------------------------------------
(* Properties. *)

\* Types; who has the trace or panicked has had its turn, or has it now in a
\* panic, and the tee went on after a panic only where the adapter swallowed it.
ExportTypeOK ==
  /\ turn \in 1 .. Len(tee) + 1
  /\ kept \subseteq 1 .. turn - 1 \cup panicked
  /\ panicked \subseteq 1 .. turn
  /\ \A i \in panicked : i < turn => tee[i] = "otel"
  /\ returned \in {Nil, NoFailure, Failed, Panic}

\* export_failure.go:5-9: whatever is behind the tracers, a caller that
\* protects itself is never harmed, and an unprotected one (the P0 smoke) only
\* by a tracer that is not the adapter.
CallersUnharmed ==
  returned = Panic => /\ ~protected
                      /\ turn \in panicked
                      /\ tee[turn] # "otel"

\* What a caller may conclude about the trace.  An empty status: the tee came
\* to its end, so a collector has the trace wherever it stands; what the logger
\* or the adapter lost goes unmentioned.  A failure: the loop ended at the
\* tracer that panicked, and nobody behind it has the trace; the collectors
\* before it do, the one that panicked may.
StatusSaysWhoHasIt ==
  /\ returned = NoFailure =>
       /\ \A i \in DOMAIN tee : tee[i] = "collector" => i \in kept
       /\ \A i \in panicked : tee[i] = "otel"
  /\ returned \in {Failed, Panic} =>
       /\ turn \in panicked
       /\ \A i \in DOMAIN tee : i > turn => i \notin kept
       /\ \A i \in 1 .. turn - 1 : tee[i] = "collector" => i \in kept

\* What the protection does promise: no harm, and a failure status that bounds
\* who has the trace.
StatusIsTrue == ExportTypeOK /\ CallersUnharmed /\ StatusSaysWhoHasIt

\* What otel_tracer.go:26-28 and observability-v1-contract.md:63 ask: a panic of
\* an exporter leaves a status that tells of it, as FR-014 (spec.md:92) wants.
\* A panic in the adapter's sink does not: line 40 swallows it, so the outer
\* RecordWithExportFailureProtection has nothing to recover.
FailuresDiagnosable ==
  protected /\ returned = NoFailure => panicked = {}
===============================================================================
