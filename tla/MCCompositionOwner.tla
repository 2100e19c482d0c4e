------------------------- MODULE MCCompositionOwner -------------------------
(* Small instances of the durable owner for TLC. *)
EXTENDS OwnerRefinement

CONSTANTS r1, r2, o1, o2, k1, k2, s1, s2, v1, net

Ask(o, k, s, c, n, m) ==
  [op |-> o, key |-> k, scope |-> s, class |-> c, needs |-> n, limit |-> m]

(* One operation, two runs that compete for it; one scope is wrong. *)
RivalRequests ==
  {Ask(o1, k1, s1, "approval-required", {}, 2),
   Ask(o1, k1, s2, "approval-required", {}, 2),
   Ask(o1, k1, s1, "idempotent", {}, 2)}

(* One operation without an approval: what two linked runs need. *)
PlainRequests == {Ask(o1, k1, s1, "idempotent", {}, 2)}

(* Two operations of one run under declared boundaries: one key is used    *)
(* twice, one class is not allowed, one capability may not be granted.     *)
PairRequests ==
  {Ask(o1, k1, s1, "idempotent", {}, 2),
   Ask(o1, k1, s1, "approval-required", {net}, 1),
   Ask(o2, k1, s1, "approval-required", {}, 2),
   Ask(o2, k2, s2, "read-only", {}, 1),
   Ask(o2, k2, s1, "unlisted", {}, 1)}

Boundaries ==
  {[classes |-> {"idempotent", "approval-required"}, scopes |-> {s1}, grants |-> {net}],
   [classes |-> {"read-only"}, scopes |-> {s1, s2}, grants |-> {}]}

(* A run may name the other run, itself or, while that is not created, a   *)
(* missing run as its parent.                                              *)
SecondParent == {NoRun, r2}
AnyParent == Runs \union {NoRun}
NoParent == {NoRun}
NoBoundaries == {}
=============================================================================
