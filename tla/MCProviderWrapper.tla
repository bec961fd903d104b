--------------------------- MODULE MCProviderWrapper ---------------------------
(* Small instances of ProviderWrapper for TLC. *)
EXTENDS ProviderWrapper, TLC

CONSTANTS c1, c2, c3

TwoCallers   == {c1, c2}
ThreeCallers == {c1, c2, c3}

CallerSymmetry == Permutations(Callers)
===============================================================================
