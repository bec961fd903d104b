--------------------------- MODULE MCOpenAIAdapter ---------------------------
(* A small instance of the adapter behind the wrapper for TLC. *)
EXTENDS OpenAIAdapter

CONSTANTS c1, c2, c3

TwoCallers == {c1, c2}
===============================================================================
