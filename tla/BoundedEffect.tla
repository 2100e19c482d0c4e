---------------------------- MODULE BoundedEffect ----------------------------
(***************************************************************************)
(* What the owner promises of the effect of each operation, whatever runs, *)
(* approvals, keys and callers surround it: it is tried at most `limit'    *)
(* times, it is tried again only after the last try was observed not to    *)
(* have been applied, a doubtful try is resolved by observation alone, and *)
(* a success is counted once and for good.                                 *)
(***************************************************************************)
EXTENDS Naturals

CONSTANT Effects

VARIABLES
  phase,   \* open, trying, doubtful, failed (may be retried), done or lost
  tries,   \* how often the effect has been tried
  limit,   \* how often it may be tried, fixed by the first try
  count    \* how often it is on record as applied

protocol == <<phase, tries, limit, count>>

Zero == [e \in Effects |-> 0]

Open ==
  /\ phase = [e \in Effects |-> "open"]
  /\ tries = Zero /\ limit = Zero /\ count = Zero

Becomes(e, from, to) ==
  /\ phase[e] \in from
  /\ phase' = [phase EXCEPT ![e] = to]

Counts(f, e) == [f EXCEPT ![e] = @ + 1]

FirstTry(e) ==
  /\ Becomes(e, {"open"}, "trying")
  /\ tries' = Counts(tries, e)
  /\ limit' = [limit EXCEPT ![e] = limit'[e]] /\ limit'[e] \in Nat \ {0}
  /\ UNCHANGED count

Retry(e) ==
  /\ Becomes(e, {"failed"}, "trying")
  /\ tries[e] < limit[e]
  /\ tries' = Counts(tries, e)
  /\ UNCHANGED <<limit, count>>

Doubt(e) ==
  /\ Becomes(e, {"trying"}, "doubtful")
  /\ UNCHANGED <<tries, limit, count>>

(* Reported by the caller, or observed later; then nothing changes it. *)
Succeed(e) ==
  /\ Becomes(e, {"trying", "doubtful", "failed"}, "done")
  /\ count' = Counts(count, e)
  /\ UNCHANGED <<tries, limit>>

(* Observed not to be applied, or impossible to tell. *)
Resolve(e) ==
  /\ Becomes(e, {"doubtful", "failed"}, "failed") \/ Becomes(e, {"doubtful", "failed"}, "lost")
  /\ UNCHANGED <<tries, limit, count>>

ProtocolStep(e) == FirstTry(e) \/ Retry(e) \/ Doubt(e) \/ Succeed(e) \/ Resolve(e)

Protocol == Open /\ [][\E e \in Effects : ProtocolStep(e)]_protocol
=============================================================================
