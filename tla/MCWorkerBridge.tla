--------------------------- MODULE MCWorkerBridge ---------------------------
(* Small instances of the worker bridge for TLC. *)
EXTENDS WorkerBridge, TLC

CONSTANTS p, c1, c2, o1, k1, s1, v1

(* The parent's own work: an effect that may be in doubt. *)
ParentRequests ==
  {[op |-> o1, key |-> k1, scope |-> s1, class |-> "idempotent", needs |-> {}, limit |-> 1]}

NoRequests == {}

ChildSymmetry == Permutations({c1, c2})
=============================================================================
