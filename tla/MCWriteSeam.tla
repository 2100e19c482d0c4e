----------------------------- MODULE MCWriteSeam -----------------------------
(* A small instance of the write path for TLC. *)
EXTENDS WriteSeam, FiniteSets, TLC

CONSTANTS r, o1, o2, k1, k2, s1, v, network, a, b, c, p1, p2, b1, b2

WriteOf(o, k) == [op |-> o, key |-> k, scope |-> s1, class |-> "approval-required",
                  needs |-> {}, limit |-> 2]
Writes == {WriteOf(o1, k1), WriteOf(o2, k2)}

(* The calls are interchangeable. *)
ApplySymmetry == Permutations(Applies)

(* What decides no step any more is not told apart: what was reviewed, the *)
(* saved diff once every call has read it, and the main repository once    *)
(* the worktree and its record are made.                                   *)
Relevant ==
  <<vars, apply, tree, fingerprint,
    IF \E x \in Applies : apply[x].pc = "idle" THEN patchFile ELSE NoPatch,
    IF NoBase \in {tree.base, fingerprint} THEN main ELSE NoBase>>

(* Three calls compete for one operation, two as soon as the run has a     *)
(* second one.                                                             *)
Busy == {x \in Applies : apply[x].pc # "idle"}
AskedFor == {apply[x].request.op : x \in Busy}
CallBound ==
  IF approval[o2] = NoRow /\ o2 \notin AskedFor THEN TRUE
  ELSE Cardinality(Busy) < 2 \/ (Cardinality(Busy) = 2 /\ Cardinality(AskedFor) = 2)
=============================================================================
