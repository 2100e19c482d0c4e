----------------------------- MODULE MCPushSeam -----------------------------
(* Small instances of the push seam for TLC. *)
EXTENDS PushSeam, TLC

CONSTANTS r, o, k, s, v, network, a, b, c

ThePush ==
  [op |-> o, key |-> k, scope |-> s, class |-> "approval-required",
   needs |-> {network}, limit |-> 2]

OnlyPush == {ThePush}

(* The calls are interchangeable. *)
CallSymmetry == Permutations(Calls)
=============================================================================
