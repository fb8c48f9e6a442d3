------------------------- MODULE MCExecutionStream -------------------------
(* Finite instances of ExecutionStream.                                    *)
EXTENDS ExecutionStream

CONSTANTS a, b  \* clicks
=============================================================================
