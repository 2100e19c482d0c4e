-------------------------- MODULE CompositionOwner --------------------------
(***************************************************************************)
(* The durable owner of ZWorkbench (src/zworkbench/composition.py): runs,  *)
(* approvals and effects in one SQLite file.  Every operation that changes *)
(* state is one BEGIN IMMEDIATE transaction, so it is one action here; an  *)
(* operation that raises is rolled back and is no step at all.             *)
(*                                                                         *)
(* An effect and an approval are rows keyed by operation_id, which both    *)
(* tables declare UNIQUE; effect_id and approval_id name the same row and  *)
(* are not kept apart.  An action and its resource are one `scope', which  *)
(* is all the code ever compares of them.                                  *)
(***************************************************************************)
EXTENDS Naturals, Sequences

CONSTANTS
  Runs, NoRun,          \* run identities, and the absence of a linked run
  Links,                \* the parent_run_id values a creator may write
  Operations, Keys,     \* operation_id and idempotency_key values
  Scopes,               \* an action together with its resource
  Capabilities,         \* network, credentials, subprocess
  Requests,             \* the effect requests that callers may submit
  Exposures,            \* the exposure boundaries that runs may declare
  Values, NoValue       \* result payloads, and the absence of a result

VARIABLES
  run,        \* runs.status of each run, "absent" before create_run
  link,       \* runs.metadata.parent_run_id
  approval,   \* the approvals table, by operation
  effect,     \* the effects table with its effect_attempts, by operation
  exposure,   \* the declared_exposure table, by run
  result,     \* the results rows with source_id "run", by run and kind
  suspected   \* runs whose identity scan found a broken link and whose
              \* caller has not yet opened the transaction that stops them

vars == <<run, link, approval, effect, exposure, result, suspected>>

ALLOWED_EFFECT_CLASSES == {"read-only", "idempotent", "approval-required"}
EffectClasses == ALLOWED_EFFECT_CLASSES \union {"unlisted"}

Request == [op : Operations, key : Keys, scope : Scopes, class : EffectClasses,
            needs : SUBSET Capabilities, limit : Nat \ {0}]
Exposure == [classes : SUBSET EffectClasses, scopes : SUBSET Scopes,
             grants : SUBSET Capabilities]

ASSUME OwnerAssumption ==
  /\ Requests \subseteq Request
  /\ Exposures \subseteq Exposure
  /\ Links \subseteq Runs \union {NoRun}
  /\ NoRun \notin Runs
  /\ NoValue \notin Values

Terminal == {"completed", "failed", "safe_stopped"}
Live == {"created", "running", "waiting_approval", "recovering"}
RUN_STATES == Live \union Terminal
EFFECT_STATES == {"claimed", "completed", "uncertain", "retryable", "unknown"}
AttemptStates == {"claimed", "succeeded", "uncertain", "reconciled_applied",
                  "reconciled_not_applied", "reconciled_unknown"}
ApprovalStates == {"pending", "approved", "denied", "consumed"}

NoRow == [status |-> "none"]

ApprovalRow == [run : Runs, key : Keys, scope : Scopes,
                status : ApprovalStates, validity : {"fresh", "expired"}]
EffectRow == [run : Runs, key : Keys, scope : Scopes,
              class : ALLOWED_EFFECT_CLASSES, limit : Nat \ {0},
              status : EFFECT_STATES, attempt : Nat \ {0},
              history : Seq(AttemptStates), physical : {0, 1}]

(* A run without a declaration is checked against nothing. *)
Undeclared == [classes |-> EffectClasses, scopes |-> Scopes, grants |-> Capabilities]

TypeOK ==
  /\ run \in [Runs -> RUN_STATES \union {"absent"}]
  /\ link \in [Runs -> Runs \union {NoRun}]
  /\ approval \in [Operations -> ApprovalRow \union {NoRow}]
  /\ effect \in [Operations -> EffectRow \union {NoRow}]
  /\ exposure \in [Runs -> Exposure]
  /\ result \in [Runs -> [{"semantic", "error"} -> Values \union {NoValue}]]
  /\ suspected \in SUBSET Runs

Init ==
  /\ run = [r \in Runs |-> "absent"]
  /\ link = [r \in Runs |-> NoRun]
  /\ approval = [o \in Operations |-> NoRow]
  /\ effect = [o \in Operations |-> NoRow]
  /\ exposure = [r \in Runs |-> Undeclared]
  /\ result = [r \in Runs |-> [k \in {"semantic", "error"} |-> NoValue]]
  /\ suspected = {}

-----------------------------------------------------------------------------
(* Helpers of the transactions. *)

Transitions ==
  ({"created", "waiting_approval", "recovering"}
     \X {"running", "failed", "safe_stopped"})
  \union {<<"created", "waiting_approval">>}
  \union ({"running"} \X {"waiting_approval", "recovering", "completed",
                          "failed", "safe_stopped"})

(* Mutant: the transition table is not consulted. *)
SetRunStatusUnchecked(r, new) == run' = [run EXCEPT ![r] = new]

(* Keeping the status is silently allowed; a move outside the table raises. *)
SetRunStatus(r, new) ==
  /\ run[r] # new => <<run[r], new>> \in Transitions
  /\ run' = [run EXCEPT ![r] = new]

(* Results are deduplicated by kind and source: the first value stays. *)
RecordResult(r, kind, v) ==
  result' = IF result[r][kind] = NoValue THEN [result EXCEPT ![r][kind] = v]
                                         ELSE result

EffectsOf(r, states) ==
  {o \in Operations : effect[o].status \in states /\ effect[o].run = r}

PendingApprovals(r) ==
  {o \in Operations : approval[o].status = "pending" /\ approval[o].run = r}

LinkBroken(r) == link[r] # NoRun /\ run[link[r]] = "absent"

(* Mutant: the lookup forgets the idempotency key. *)
ExistingByOperation(q) == {o \in {q.op} : effect[o].status # "none"}

(* The rows that claim_effect finds by operation_id or idempotency_key. *)
Existing(q) ==
  {o \in Operations : effect[o].status # "none" /\ (o = q.op \/ effect[o].key = q.key)}

SameEffect(r, q) ==
  /\ effect[q.op].status # "none"
  /\ effect[q.op].run = r
  /\ effect[q.op].key = q.key
  /\ effect[q.op].scope = q.scope
  /\ effect[q.op].class = q.class

Permitted(r, q) ==
  /\ q.class \in exposure[r].classes
  /\ q.scope \in exposure[r].scopes
  /\ q.needs \subseteq exposure[r].grants

(* Mutant: the approved action and resource are not compared. *)
ApprovalKeyMatches(q) ==
  approval[q.op] # NoRow /\ approval[q.op].key = q.key

ApprovalScopeMatches(q) ==
  /\ approval[q.op] # NoRow
  /\ approval[q.op].scope = q.scope
  /\ approval[q.op].key = q.key

-----------------------------------------------------------------------------
(* Run lifecycle. *)

CreateRun(r, parent) ==
  /\ run[r] = "absent"
  /\ run' = [run EXCEPT ![r] = "created"]
  /\ link' = [link EXCEPT ![r] = parent]
  /\ UNCHANGED <<approval, effect, exposure, result, suspected>>

StartRun(r) ==
  /\ SetRunStatus(r, "running")
  /\ UNCHANGED <<link, approval, effect, exposure, result, suspected>>

(* The one operation that ignores the transition table. *)
RestartRun(r) ==
  /\ run[r] \in RUN_STATES \ {"running"}
  /\ run' = [run EXCEPT ![r] = "running"]
  /\ UNCHANGED <<link, approval, effect, exposure, result, suspected>>

(* Mutant: a retryable effect counts as resolved, as it does for fail_run. *)
CompleteRunOverRetryable(r, v) ==
  /\ run[r] = "running"
  /\ PendingApprovals(r) = {}
  /\ ~LinkBroken(r)
  /\ EffectsOf(r, {"claimed", "uncertain", "unknown"}) = {}
  /\ RecordResult(r, "semantic", v)
  /\ SetRunStatus(r, "completed")
  /\ UNCHANGED <<link, approval, effect, exposure, suspected>>

CompleteRun(r, v) ==
  /\ run[r] = "running"
  /\ PendingApprovals(r) = {}
  /\ ~LinkBroken(r)
  /\ EffectsOf(r, {"claimed", "uncertain", "retryable", "unknown"}) = {}
  /\ RecordResult(r, "semantic", v)
  /\ SetRunStatus(r, "completed")
  /\ UNCHANGED <<link, approval, effect, exposure, suspected>>

(* Mutant: an attempt that has not reported does not count as doubt. *)
FailRunOverClaim(r, v) ==
  /\ EffectsOf(r, {"uncertain", "unknown"}) = {}
  /\ RecordResult(r, "error", v)
  /\ SetRunStatus(r, "failed")
  /\ UNCHANGED <<link, approval, effect, exposure, suspected>>

FailRun(r, v) ==
  /\ EffectsOf(r, {"claimed", "uncertain", "unknown"}) = {}
  /\ RecordResult(r, "error", v)
  /\ SetRunStatus(r, "failed")
  /\ UNCHANGED <<link, approval, effect, exposure, suspected>>

(* fail_run commits the safe stop and raises afterwards. *)
FailRunBlocked(r) ==
  /\ EffectsOf(r, {"claimed", "uncertain", "unknown"}) # {}
  /\ SetRunStatus(r, "safe_stopped")
  /\ UNCHANGED <<link, approval, effect, exposure, result, suspected>>

SafeStopRun(r) ==
  /\ SetRunStatus(r, "safe_stopped")
  /\ UNCHANGED <<link, approval, effect, exposure, result, suspected>>

BeginRecovery(r) ==
  /\ EffectsOf(r, {"claimed", "uncertain", "unknown"}) = {}
  /\ SetRunStatus(r, "recovering")
  /\ UNCHANGED <<link, approval, effect, exposure, result, suspected>>

DeclareExposure(r, boundary) ==
  /\ run[r] # "absent"
  /\ exposure' = [exposure EXCEPT ![r] = boundary]
  /\ UNCHANGED <<run, link, approval, effect, result, suspected>>

-----------------------------------------------------------------------------
(* Identity scan: the graph is read first, the run is stopped in a later   *)
(* transaction, and other callers may write in between.                    *)

ScanFindsViolation(r) ==
  /\ run[r] # "absent"
  /\ LinkBroken(r)
  /\ suspected' = suspected \union {r}
  /\ UNCHANGED <<run, link, approval, effect, exposure, result>>

(* From completed and failed the stop raises and the scan comes to nothing. *)
StopOnIdentityViolation(r) ==
  /\ r \in suspected
  /\ run[r] # "absent"
  /\ suspected' = suspected \ {r}
  /\ run' = IF run[r] \in {"completed", "failed"} THEN run
            ELSE [run EXCEPT ![r] = "safe_stopped"]
  /\ UNCHANGED <<link, approval, effect, exposure, result>>

-----------------------------------------------------------------------------
(* Approvals. *)

(* A known operation returns its row, whatever its status: no step. *)
RequestApproval(r, q) ==
  /\ run[r] # "absent"
  /\ approval[q.op] = NoRow
  /\ \A o \in Operations : approval[o].status # "none" => approval[o].key # q.key
  /\ approval' = [approval EXCEPT ![q.op] =
       [run |-> r, key |-> q.key, scope |-> q.scope, status |-> "pending",
        validity |-> "fresh"]]
  /\ UNCHANGED <<run, link, effect, exposure, result, suspected>>

DecideApproval(o, decision) ==
  /\ approval[o].status = "pending"
  /\ approval' = [approval EXCEPT ![o].status = decision]
  /\ UNCHANGED <<run, link, effect, exposure, result, suspected>>

Approve(o) == DecideApproval(o, "approved")
DenyApproval(o) == DecideApproval(o, "denied")

(* The clock passes expires_at; a decided expiry matters only until use. *)
ApprovalExpires(o) ==
  /\ approval[o].status = "approved"
  /\ approval[o].validity = "fresh"
  /\ approval' = [approval EXCEPT ![o].validity = "expired"]
  /\ UNCHANGED <<run, link, effect, exposure, result, suspected>>

-----------------------------------------------------------------------------
(* claim_effect, one action for each decision that changes state.  The     *)
(* decisions already_completed, in_flight, recovery_required and           *)
(* run_terminal change nothing.  A token is the one approve returned       *)
(* ("right"), some other string ("wrong") or none ("missing").             *)

Tokens == {"missing", "right", "wrong"}

ClaimStopsRun(r) ==
  /\ SetRunStatus(r, "safe_stopped")
  /\ UNCHANGED <<link, approval, effect, exposure, result, suspected>>

(* The operation or its key belongs to another run or to another scope. *)
ClaimConflict(r, q) ==
  /\ run[r] \in Live
  /\ Existing(q) # {}
  /\ ~SameEffect(r, q)
  /\ ClaimStopsRun(r)

ClaimExhausted(r, q) ==
  /\ run[r] \in Live
  /\ SameEffect(r, q)
  /\ effect[q.op].status = "retryable"
  /\ effect[q.op].attempt >= effect[q.op].limit
  /\ ClaimStopsRun(r)

NextAttempt(e) ==
  [e EXCEPT !.status = "claimed", !.attempt = @ + 1, !.history = Append(@, "claimed")]

(* Mutant: one attempt too many. *)
ClaimRetryPastLimit(r, q) ==
  /\ run[r] \in Live
  /\ SameEffect(r, q)
  /\ effect[q.op].status = "retryable"
  /\ effect[q.op].attempt <= effect[q.op].limit
  /\ effect' = [effect EXCEPT ![q.op] = NextAttempt(effect[q.op])]
  /\ SetRunStatus(r, "running")
  /\ UNCHANGED <<link, approval, exposure, result, suspected>>

(* Mutant: an uncertain attempt is taken to have failed. *)
ClaimRetryOverDoubt(r, q) ==
  /\ run[r] \in Live
  /\ SameEffect(r, q)
  /\ effect[q.op].status \in {"retryable", "uncertain"}
  /\ effect[q.op].attempt < effect[q.op].limit
  /\ effect' = [effect EXCEPT ![q.op] = NextAttempt(effect[q.op])]
  /\ SetRunStatus(r, "running")
  /\ UNCHANGED <<link, approval, exposure, result, suspected>>

(* Mutant: an attempt that has not reported is taken to have failed. *)
ClaimRetryOverClaim(r, q) ==
  /\ run[r] \in Live
  /\ SameEffect(r, q)
  /\ effect[q.op].status \in {"retryable", "claimed"}
  /\ effect[q.op].attempt < effect[q.op].limit
  /\ effect' = [effect EXCEPT ![q.op] = NextAttempt(effect[q.op])]
  /\ SetRunStatus(r, "running")
  /\ UNCHANGED <<link, approval, exposure, result, suspected>>

(* A bounded retry asks for no approval and looks at no exposure. *)
ClaimRetry(r, q) ==
  /\ run[r] \in Live
  /\ SameEffect(r, q)
  /\ effect[q.op].status = "retryable"
  /\ effect[q.op].attempt < effect[q.op].limit
  /\ effect' = [effect EXCEPT ![q.op] = NextAttempt(effect[q.op])]
  /\ SetRunStatus(r, "running")
  /\ UNCHANGED <<link, approval, exposure, result, suspected>>

FirstClaim(r, q) == run[r] \in Live /\ Existing(q) = {}

ClaimOutOfBounds(r, q) ==
  /\ FirstClaim(r, q)
  /\ ~Permitted(r, q) \/ q.class \notin ALLOWED_EFFECT_CLASSES
  /\ ClaimStopsRun(r)

Approvable(r, q) ==
  FirstClaim(r, q) /\ Permitted(r, q) /\ q.class = "approval-required"

(* From recovering the move raises, and the claim leaves no trace. *)
ClaimMustWait(r, q, token) ==
  /\ Approvable(r, q)
  /\ \/ approval[q.op].status # "approved"
     \/ ApprovalScopeMatches(q) /\ token = "missing"
  /\ SetRunStatus(r, "waiting_approval")
  /\ UNCHANGED <<link, approval, effect, exposure, result, suspected>>

ClaimBadApproval(r, q, token) ==
  /\ Approvable(r, q)
  /\ approval[q.op].status = "approved"
  /\ \/ ~ApprovalScopeMatches(q)
     \/ token = "wrong"
     \/ token = "right" /\ approval[q.op].validity = "expired"
  /\ ClaimStopsRun(r)

FirstAttempt(r, q) ==
  [run |-> r, key |-> q.key, scope |-> q.scope, class |-> q.class,
   limit |-> q.limit, status |-> "claimed", attempt |-> 1,
   history |-> <<"claimed">>, physical |-> 0]

(* Mutant: only approval-required is singled out, other classes pass. *)
ClaimAnyClass(r, q) ==
  /\ FirstClaim(r, q)
  /\ Permitted(r, q)
  /\ q.class # "approval-required"
  /\ effect' = [effect EXCEPT ![q.op] = FirstAttempt(r, q)]
  /\ SetRunStatus(r, "running")
  /\ UNCHANGED <<link, approval, exposure, result, suspected>>

(* Mutant: the claim leaves the run where it was. *)
ClaimWithoutStart(r, q) ==
  /\ FirstClaim(r, q)
  /\ Permitted(r, q)
  /\ q.class \in ALLOWED_EFFECT_CLASSES \ {"approval-required"}
  /\ effect' = [effect EXCEPT ![q.op] = FirstAttempt(r, q)]
  /\ UNCHANGED <<run, link, approval, exposure, result, suspected>>

ClaimUnapproved(r, q) ==
  /\ FirstClaim(r, q)
  /\ Permitted(r, q)
  /\ q.class \in ALLOWED_EFFECT_CLASSES \ {"approval-required"}
  /\ effect' = [effect EXCEPT ![q.op] = FirstAttempt(r, q)]
  /\ SetRunStatus(r, "running")
  /\ UNCHANGED <<link, approval, exposure, result, suspected>>

ClaimApproved(r, q, token) ==
  /\ Approvable(r, q)
  /\ approval[q.op].status = "approved"
  /\ ApprovalScopeMatches(q)
  /\ token = "right"
  /\ approval[q.op].validity = "fresh"
  /\ approval' = [approval EXCEPT ![q.op].status = "consumed"]
  /\ effect' = [effect EXCEPT ![q.op] = FirstAttempt(r, q)]
  /\ SetRunStatus(r, "running")
  /\ UNCHANGED <<link, exposure, result, suspected>>

-----------------------------------------------------------------------------
(* Outcomes of an attempt.  They name the effect, never the attempt. *)

Settled(e, status, outcome, count) ==
  [e EXCEPT !.status = status, !.physical = count,
            !.history = [@ EXCEPT ![e.attempt] = outcome]]

SettleAttempt(o, status, outcome, count) ==
  effect' = [effect EXCEPT ![o] = Settled(effect[o], status, outcome, count)]

CompleteEffect(o) ==
  /\ effect[o].status = "claimed"
  /\ SettleAttempt(o, "completed", "succeeded", 1)
  /\ UNCHANGED <<run, link, approval, exposure, result, suspected>>

(* Mutant: the doubt is recorded in the effect and not in its run. *)
MarkEffectUncertainQuietly(o) ==
  /\ effect[o].status = "claimed"
  /\ SettleAttempt(o, "uncertain", "uncertain", effect[o].physical)
  /\ UNCHANGED <<run, link, approval, exposure, result, suspected>>

(* Raises, and records nothing, unless the run is running or recovering. *)
MarkEffectUncertain(o) ==
  /\ effect[o].status = "claimed"
  /\ SettleAttempt(o, "uncertain", "uncertain", effect[o].physical)
  /\ SetRunStatus(effect[o].run, "recovering")
  /\ UNCHANGED <<link, approval, exposure, result, suspected>>

(* What reconciliation does to the run; a safe-stopped run stays stopped. *)
ReconcileRun(r, new) ==
  IF run[r] = "safe_stopped" THEN UNCHANGED run ELSE SetRunStatus(r, new)

(* Mutant: an unknown outcome may be reconciled once more. *)
ReconcileEvenUnknown(o, status, outcome, count, new) ==
  /\ effect[o].status \in {"uncertain", "retryable", "unknown"}
  /\ SettleAttempt(o, status, outcome, count)
  /\ ReconcileRun(effect[o].run, new)
  /\ UNCHANGED <<link, approval, exposure, result, suspected>>

Reconcile(o, status, outcome, count, new) ==
  /\ effect[o].status \in {"uncertain", "retryable"}
  /\ SettleAttempt(o, status, outcome, count)
  /\ ReconcileRun(effect[o].run, new)
  /\ UNCHANGED <<link, approval, exposure, result, suspected>>

ReconcileApplied(o) ==
  Reconcile(o, "completed", "reconciled_applied", 1, "running")
ReconcileNotApplied(o) ==
  Reconcile(o, "retryable", "reconciled_not_applied", effect[o].physical, "running")
ReconcileUnknown(o) ==
  Reconcile(o, "unknown", "reconciled_unknown", effect[o].physical, "safe_stopped")

-----------------------------------------------------------------------------
RunStep(r) ==
  \/ \E parent \in Links : CreateRun(r, parent)
  \/ StartRun(r)
  \/ RestartRun(r)
  \/ \E v \in Values : CompleteRun(r, v) \/ FailRun(r, v)
  \/ FailRunBlocked(r)
  \/ SafeStopRun(r)
  \/ BeginRecovery(r)
  \/ \E boundary \in Exposures : DeclareExposure(r, boundary)
  \/ ScanFindsViolation(r)
  \/ StopOnIdentityViolation(r)

ClaimStep(r, q) ==
  \/ ClaimConflict(r, q)
  \/ ClaimExhausted(r, q)
  \/ ClaimRetry(r, q)
  \/ ClaimOutOfBounds(r, q)
  \/ ClaimUnapproved(r, q)
  \/ \E token \in Tokens :
       \/ ClaimMustWait(r, q, token)
       \/ ClaimBadApproval(r, q, token)
       \/ ClaimApproved(r, q, token)

ApprovalStep(o) == Approve(o) \/ DenyApproval(o) \/ ApprovalExpires(o)

OutcomeStep(o) ==
  \/ CompleteEffect(o)
  \/ MarkEffectUncertain(o)
  \/ ReconcileApplied(o)
  \/ ReconcileNotApplied(o)
  \/ ReconcileUnknown(o)

Next ==
  \/ \E r \in Runs : RunStep(r)
  \/ \E r \in Runs, q \in Requests : RequestApproval(r, q) \/ ClaimStep(r, q)
  \/ \E o \in Operations : ApprovalStep(o) \/ OutcomeStep(o)

Spec == Init /\ [][Next]_vars

-----------------------------------------------------------------------------
(* Properties. *)

HasEffect(o) == effect[o] # NoRow

(* What each effect status says of its current attempt. *)
OutcomesOf(status) ==
  CASE status = "claimed"   -> {"claimed"}
    [] status = "completed" -> {"succeeded", "reconciled_applied"}
    [] status = "uncertain" -> {"uncertain"}
    [] status = "retryable" -> {"reconciled_not_applied"}
    [] status = "unknown"   -> {"reconciled_unknown"}

LedgerAgrees(e) ==
  /\ Len(e.history) = e.attempt
  /\ e.attempt <= e.limit
  /\ \A i \in 1 .. e.attempt :
       IF i < e.attempt THEN e.history[i] = "reconciled_not_applied"
                        ELSE e.history[i] \in OutcomesOf(e.status)
  /\ e.physical = 1 <=> e.status = "completed"

(* The effects row and its effect_attempts rows tell one story: there are  *)
(* as many attempt rows as attempts, within the budget; every attempt      *)
(* before the last was observed not applied before the next one was        *)
(* claimed; the last one agrees with the status of the effect; and the     *)
(* physical effect is counted exactly when the effect completes.  This is  *)
(* what makes "an uncertain effect is never retried" true of any sequence  *)
(* of claims, reports and reconciliations (composition.py, claim_effect,   *)
(* complete_effect, mark_effect_uncertain, reconcile_effect).              *)
AttemptLedgerAgrees ==
  \A o \in Operations : HasEffect(o) => LedgerAgrees(effect[o])

(* One approval buys one effect: an approval is consumed exactly when its  *)
(* operation has an approval-required effect, and that effect has the      *)
(* scope and the key that were approved.  Violating it takes a request, a  *)
(* decision and a claim, possibly of different callers.                    *)
ConsumedApprovalBacksEffect ==
  \A o \in Operations :
    /\ approval[o].status = "consumed" <=>
         HasEffect(o) /\ effect[o].class = "approval-required"
    /\ HasEffect(o) /\ effect[o].class = "approval-required" =>
         /\ effect[o].scope = approval[o].scope
         /\ effect[o].key = approval[o].key

(* An idempotency key belongs to at most one effect, whatever operation,   *)
(* run or scope later claims present it under.                             *)
IdempotencyKeyUsedOnce ==
  \A o, p \in Operations :
    HasEffect(o) /\ HasEffect(p) /\ effect[o].key = effect[p].key => o = p

(* A completed run stays settled: every effect it owns is completed, its   *)
(* parent exists and its result is on record, although completion checked  *)
(* that only once and claims, late reports and reconciliations go on.      *)
CompletedRunSettled ==
  \A r \in Runs : run[r] = "completed" =>
    /\ EffectsOf(r, EFFECT_STATES \ {"completed"}) = {}
    /\ ~LinkBroken(r)
    /\ result[r]["semantic"] # NoValue

(* A failed run has no effect in doubt (fail_run turns into a safe stop    *)
(* when it has), and nothing brings doubt into it afterwards.              *)
FailedRunNotInDoubt ==
  \A r \in Runs : run[r] = "failed" =>
    /\ EffectsOf(r, {"claimed", "uncertain", "unknown"}) = {}
    /\ result[r]["error"] # NoValue

(* No effect exists in a run that never started: the claim itself starts   *)
(* the run, in the same transaction as the effect row.                     *)
NoEffectBeforeStart ==
  \A r \in Runs : run[r] \in {"absent", "created"} => EffectsOf(r, EFFECT_STATES) = {}

(* A run leaves a terminal status only through restart_run, which touches  *)
(* no effect and no approval: nothing else re-arms it ("the single audited *)
(* escape hatch", composition.py, restart_run).                            *)
TerminalRunsLeaveOnlyByRestart ==
  [][\A r \in Runs : run[r] \in Terminal /\ run'[r] # run[r] =>
       /\ run'[r] = "running"
       /\ UNCHANGED <<link, approval, effect, exposure, result, suspected>>]_vars

(* A completed effect and an effect of unknown outcome are final in every  *)
(* column: no report, reconciliation or claim, in any run status and after *)
(* any restart of the run, changes them again.                             *)
SettledEffectsAreFinal ==
  [][\A o \in Operations : effect[o].status \in {"completed", "unknown"} =>
       effect'[o] = effect[o]]_vars

(* Doubt is visible in the run: when an effect becomes uncertain its run   *)
(* is recovering, and when one becomes unknown its run is safe-stopped, in *)
(* the same transaction.                                                   *)
DoubtStopsTheRun ==
  [][\A o \in Operations : effect'[o].status # effect[o].status =>
       /\ effect'[o].status = "uncertain" => run'[effect'[o].run] = "recovering"
       /\ effect'[o].status = "unknown" => run'[effect'[o].run] = "safe_stopped"
       /\ effect'[o].status = "claimed" => run'[effect'[o].run] = "running"]_vars

-----------------------------------------------------------------------------
(* What docs and docstrings say and the code does not do. *)

ClaimsAttempt(o) == effect'[o].status = "claimed" /\ effect'[o] # effect[o]

(* Every attempt of an approval-required effect spends an approval of its  *)
(* own, as push_seam.py promises an operator who retries "with a fresh     *)
(* approval".  claim_effect's retry branch consults no approval.           *)
FreshApprovalPerAttempt ==
  [][\A o \in Operations :
       ClaimsAttempt(o) /\ effect'[o].class = "approval-required" =>
         approval[o].status = "approved" /\ approval'[o].status = "consumed"]_vars

(* An identity stop hits a run whose identity graph is broken: "detection  *)
(* alone is never a reason to interrupt a healthy run".  The graph is read *)
(* before the transaction that stops the run, and may be mended between.   *)
HealthyRunsAreNotInterrupted ==
  [][\A r \in Runs :
       r \in suspected /\ r \notin suspected' /\ run'[r] # run[r] => LinkBroken(r)]_vars

=============================================================================
