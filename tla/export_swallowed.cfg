\* One tracer is enough: the adapter over a sink that panics.
SPECIFICATION ExportSpec
CONSTANT MaxTracers = 1
INVARIANT FailuresDiagnosable
\* The call returns and nothing more happens.
CHECK_DEADLOCK FALSE
