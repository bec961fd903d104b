--------------------------- MODULE MCNativeExecutor ---------------------------
(* Small instances of NativeExecutor for TLC. *)
EXTENDS NativeExecutor

CONSTANTS search, fetch, unknown

TwoTools  == {search, fetch}
ThreeTools == {search, fetch, unknown}
===============================================================================
