--------------------------- MODULE MCCircuitBreaker ---------------------------
(* Small instances of CircuitBreaker for TLC. *)
EXTENDS CircuitBreaker, TLC

CONSTANTS c1, c2, c3, c4

ThreeCallers == {c1, c2, c3}
FourCallers  == {c1, c2, c3, c4}

\* Callers differ by name only; sound for the runs without liveness.
CallerSymmetry == Permutations(Callers)
===============================================================================
