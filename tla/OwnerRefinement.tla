--------------------------- MODULE OwnerRefinement ---------------------------
(* The durable owner implements BoundedEffect: one effect per operation. *)
EXTENDS CompositionOwner

(* A status of the effects table, as a phase of the protocol. *)
PhaseOf(status) ==
  CASE status = "none"      -> "open"
    [] status = "claimed"   -> "trying"
    [] status = "uncertain" -> "doubtful"
    [] status = "retryable" -> "failed"
    [] status = "completed" -> "done"
    [] status = "unknown"   -> "lost"

AttemptOf(e) == IF e = NoRow THEN 0 ELSE e.attempt
LimitOf(e) == IF e = NoRow THEN 0 ELSE e.limit
PhysicalOf(e) == IF e = NoRow THEN 0 ELSE e.physical

Bounded == INSTANCE BoundedEffect WITH
  Effects <- Operations,
  phase <- [o \in Operations |-> PhaseOf(effect[o].status)],
  tries <- [o \in Operations |-> AttemptOf(effect[o])],
  limit <- [o \in Operations |-> LimitOf(effect[o])],
  count <- [o \in Operations |-> PhysicalOf(effect[o])]

(* Whatever callers do with runs, approvals and keys, the effect of each   *)
(* operation lives by the protocol: bounded tries, a retry only after an   *)
(* observation, one success (claim_effect, complete_effect,                *)
(* mark_effect_uncertain and reconcile_effect, across restart_run).        *)
ImplementsBoundedEffect == Bounded!Protocol
=============================================================================
