------------------------- MODULE MCExecutionService -------------------------
(* One run with two profiles, two requests in progress. *)
EXTENDS ExecutionService, TLC

CONSTANTS r1, o1, o2, c1, c2

OneRun == [o \in {o1, o2} |-> r1]
Requests == Permutations({c1, c2})
=============================================================================
