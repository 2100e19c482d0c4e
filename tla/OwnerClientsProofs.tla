-------------------------- MODULE OwnerClientsProofs --------------------------
(***************************************************************************)
(* Proofs about two clients of the owner: the push seam, for any number of *)
(* calls, with and without --force-with-lease, and for any exposures,      *)
(* scopes and budgets; and the worker bridge, for every set of children,   *)
(* every error of the worker and every request that the parent makes of    *)
(* the owner.                                                              *)
(*                                                                         *)
(* The argument of the seam: the owner numbers the attempts, so a number   *)
(* belongs to one call; a call at work on its attempt keeps the effect in  *)
(* flight at that number; and only a call at work, or an operator who      *)
(* looked, says that the effect is completed.  That of the bridge: while   *)
(* the operation is at a step, only a stop may come between it and what    *)
(* that step has made of its child.                                        *)
(***************************************************************************)
EXTENDS PushSeam, WorkerBridge, CompositionOwnerProofs

-----------------------------------------------------------------------------
(* The push seam. *)

Row == effect[operation]

(* The number of attempts the owner has handed out. *)
Number == IF Row = NoRow THEN 0 ELSE Row.attempt

(* The steps at which a call works on the attempt it claimed. *)
Working == {"claimed", "ready", "pushing", "verifying", "doubtful", "completing"}

NumbersAreOwned ==
  /\ \A c \in Calls : call[c].attempt <= Number
  /\ \A c, d \in Calls : call[c].attempt # 0 /\ call[c].attempt = call[d].attempt => c = d
  /\ \A c \in Calls : call[c].pc \in {"idle", "declared"} => call[c].attempt = 0

WorkIsInFlight ==
  \A c \in Calls : call[c].pc \in Working =>
    /\ Row.status = "claimed"
    /\ call[c].attempt = Row.attempt

(* git push is issued once, by a call at work. *)
PushesAreClaimed ==
  \A c \in Calls :
    /\ wire[c] # "none" => call[c].attempt # 0
    /\ call[c].pc \in {"idle", "declared", "claimed", "doubted", "denied", "ready"} =>
         wire[c] = "none"

CompletionIsTrue ==
  /\ remote = "commit" => reached
  /\ Row.status = "completed" => reached
  /\ run[PushRun] = "completed" => Row.status = "completed"
  /\ \A c \in Calls :
       /\ CallAt(c, "completing") => reached
       /\ call[c].pc \in {"closing", "completed"} => Row.status = "completed"

PushInv ==
  /\ PushTypeOK
  /\ NumbersAreOwned
  /\ WorkIsInFlight
  /\ PushesAreClaimed
  /\ CompletionIsTrue

-----------------------------------------------------------------------------
(* What the steps of the owner do to the one effect. *)

LEMMA OperationType == PushRun \in Runs /\ operation \in Operations /\ PushRequest \in Requests
BY OwnerAssumption, PushAssumption DEF operation, Request

LEMMA RowType ==
  ASSUME TypeOK
  PROVE  /\ Row = NoRow \/ Row \in EffectRow
         /\ Row.status \in EFFECT_STATES => Row \in EffectRow
         /\ Row \in EffectRow => Row # NoRow /\ Row.attempt \in Nat \ {0} /\ Row.status \in EFFECT_STATES
         /\ Number \in Nat
BY OperationType, RowFields DEF TypeOK, Row, Number, EffectRow, NoRow, EFFECT_STATES

(* Every step of the push is one of the owner, or the declaration of the   *)
(* boundary that the seam pins.                                            *)
LEMMA PushSteps ==
  ASSUME [PushNext]_pushVars
  PROVE  [Next]_vars \/ DeclareExposure(PushRun, PUSH_EXPOSURE)
<1>1. ASSUME NEW c \in Calls, CallStep(c) PROVE [Next]_vars \/ DeclareExposure(PushRun, PUSH_EXPOSURE)
  <2>1. ClaimStep(PushRun, PushRequest) => Next
    BY OperationType DEF Next
  <2>2. OutcomeStep(operation) => Next
    BY OperationType DEF Next
  <2>3. (\E v \in Values : CompleteRun(PushRun, v)) => Next
    BY OperationType DEF Next, RunStep
  <2> QED BY <1>1, <2>1, <2>2, <2>3 DEF CallStep, Declare, Claim, PrecheckFails, ReportNotApplied,
       Probe, IssuePush, PushReturns, Verify, ReportDoubt, Complete, CloseRun, OutcomeStep
<1>2. ASSUME Operator PROVE Next
  <2>1. OutcomeStep(operation) \/ ApprovalStep(operation) => Next
    BY OperationType DEF Next
  <2>2. SafeStopRun(PushRun) \/ RestartRun(PushRun) => Next
    BY OperationType DEF Next, RunStep
  <2> QED BY <1>2, <2>1, <2>2 DEF Operator, Observe, GiveUpOnAttempt, OutcomeStep
<1> QED BY <1>1, <1>2 DEF PushNext, Crash, Arrive, ConnectionLost, OthersPush, pushVars

LEMMA OwnerTypePreserved ==
  ASSUME TypeOK, [PushNext]_pushVars
  PROVE  TypeOK'
<1>1. CASE [Next]_vars
  BY <1>1, TypePreserved
<1>2. CASE DeclareExposure(PushRun, PUSH_EXPOSURE)
  <2>1. PUSH_EXPOSURE \in Exposure
    <3>1. PushRequest.scope \in Scopes
      BY OperationType, OwnerAssumption DEF Request
    <3> QED BY <3>1 DEF PUSH_EXPOSURE, Exposure, EffectClasses, ALLOWED_EFFECT_CLASSES
  <2> QED BY <2>1, <1>2, OperationType DEF DeclareExposure, TypeOK
<1> QED BY <1>1, <1>2, PushSteps

LEMMA PushClaims ==
  ASSUME TypeOK, ClaimStep(PushRun, PushRequest)
  PROVE  /\ run'[PushRun] # "completed"
         /\ \/ effect' = effect
            \/ /\ Row' \in EffectRow
               /\ Row.status \in {"none", "retryable"} /\ Row'.status = "claimed"
               /\ Row'.attempt = Number + 1 /\ Number' = Number + 1
<1>1. run'[PushRun] # "completed"
  <2>1. \E new \in {"running", "waiting_approval", "safe_stopped"} : SetRunStatus(PushRun, new)
    BY DEF ClaimStep, ClaimConflict, ClaimExhausted, ClaimRetry, ClaimOutOfBounds, ClaimUnapproved,
       ClaimMustWait, ClaimBadApproval, ClaimApproved, ClaimStopsRun
  <2> QED BY <2>1, OperationType DEF SetRunStatus, TypeOK
<1>2. ASSUME effect' # effect
      PROVE  /\ Row' \in EffectRow
             /\ Row.status \in {"none", "retryable"} /\ Row'.status = "claimed"
             /\ Row'.attempt = Number + 1 /\ Number' = Number + 1
  <2>1. /\ Row' \in EffectRow /\ Row'.status = "claimed"
        /\ \/ Row = NoRow /\ Row'.attempt = 1
           \/ /\ Row \in EffectRow /\ Row.status = "retryable"
              /\ Row'.attempt = Row.attempt + 1
    BY <1>2, OperationType, ClaimMovesRow DEF Row, operation
  <2>2. Row' # NoRow /\ (Row \in EffectRow => Row # NoRow)
    BY <2>1, RowFields
  <2>3. NoRow.status = "none"
    BY DEF NoRow
  <2> QED BY <2>1, <2>2, <2>3 DEF Number
<1> QED BY <1>1, <1>2

LEMMA PushOutcomes ==
  ASSUME TypeOK, OutcomeStep(operation)
  PROVE  /\ Row \in EffectRow /\ Row' \in EffectRow
         /\ Row'.attempt = Row.attempt /\ Number' = Number /\ Number = Row.attempt
         /\ Row.status \in {"claimed", "uncertain", "retryable"}
         /\ run'[PushRun] = "completed" => run[PushRun] = "completed"
<1>1. /\ Row \in EffectRow /\ Row' \in EffectRow /\ Row'.attempt = Row.attempt
      /\ Row.status \in {"claimed", "uncertain", "retryable"}
  BY OperationType, OutcomeMovesRow DEF Row
<1>2. Row # NoRow /\ Row' # NoRow
  BY <1>1, RowFields
<1>3. run'[PushRun] = "completed" => run[PushRun] = "completed"
  <2>1. Row.run \in Runs
    BY <1>1 DEF EffectRow
  <2>2. \/ run' = run
        \/ \E new \in {"running", "recovering", "safe_stopped"} : SetRunStatus(Row.run, new)
    BY DEF OutcomeStep, CompleteEffect, MarkEffectUncertain, ReconcileApplied, ReconcileNotApplied,
       ReconcileUnknown, Reconcile, ReconcileRun, Row
  <2> QED BY <2>1, <2>2, OperationType DEF SetRunStatus, TypeOK
<1> QED BY <1>1, <1>2, <1>3 DEF Number

-----------------------------------------------------------------------------
(* The calls. *)

LEMMA CallFields ==
  ASSUME PushTypeOK, NEW c \in Calls
  PROVE  /\ call[c].pc \in CallSteps /\ call[c].attempt \in Nat
         /\ call[c].before \in Refs \union {"unknown"}
         /\ wire[c] \in {"none", "sent", "landed", "refused"}
BY DEF PushTypeOK

LEMMA Gone ==
  ASSUME PushTypeOK, NEW c \in Calls, NEW step \in CallSteps, CallGoto(c, step)
  PROVE  /\ call' \in [Calls -> [pc : CallSteps, before : Refs \union {"unknown"}, attempt : Nat]]
         /\ call'[c].pc = step /\ call'[c].attempt = call[c].attempt
         /\ \A d \in Calls \ {c} : call'[d] = call[d]
BY DEF PushTypeOK, CallGoto

(* A step of one call that leaves the row alone.                           *)
LEMMA QuietStep ==
  ASSUME PushInv, NEW c \in Calls, NEW step \in CallSteps,
         call'[c].pc = step, call'[c].attempt = call[c].attempt,
         \A d \in Calls \ {c} : call'[d] = call[d],
         effect' = effect, UNCHANGED <<remote, reached>>,
         run'[PushRun] = "completed" => run[PushRun] = "completed" \/ Row.status = "completed",
         step \in {"idle", "declared"} => call[c].pc = "idle",
         step \in Working => call[c].pc \in Working,
         step = "completing" => reached,
         step \in {"closing", "completed"} => Row.status = "completed"
  PROVE  NumbersAreOwned' /\ WorkIsInFlight' /\ CompletionIsTrue'
<1>1. Row' = Row /\ Number' = Number
  BY DEF Row, Number
<1>2. NumbersAreOwned'
  BY <1>1 DEF PushInv, NumbersAreOwned
<1>3. WorkIsInFlight'
  BY <1>1 DEF PushInv, WorkIsInFlight
<1>4. CompletionIsTrue'
  BY <1>1 DEF PushInv, CompletionIsTrue, CallAt
<1> QED BY <1>2, <1>3, <1>4

(* The steps of a call that leave the owner's tables alone.                *)
Waits(c) ==
  /\ UNCHANGED <<vars, remote, reached>>
  /\ \/ CallAt(c, "declared") /\ CallGoto(c, "failed")
     \/ CallAt(c, "declared") /\ Row.status = "completed" /\ CallGoto(c, "closing")
     \/ call[c].pc \in Working \union {"doubted"} /\ CallGoto(c, "failed")
     \/ call[c].pc \in {"pushing", "verifying"} /\ CallGoto(c, "doubtful")
     \/ CallAt(c, "ready") /\ CallGoto(c, "pushing")
     \/ CallAt(c, "pushing") /\ CallGoto(c, "verifying")
     \/ CallAt(c, "verifying") /\ remote = "commit" /\ CallGoto(c, "completing")
     \/ CallAt(c, "closing") /\ CallGoto(c, "failed")
     \/ CallAt(c, "closing") /\ run[PushRun] = "completed" /\ CallGoto(c, "completed")
     \/ call[c].pc \notin {"idle"} \union Over /\ CallGoto(c, "dead")

LEMMA WaitsPreserve ==
  ASSUME PushInv, NEW c \in Calls, Waits(c)
  PROVE  NumbersAreOwned' /\ WorkIsInFlight' /\ CompletionIsTrue'
<1> USE DEF CallSteps, Over, Working
<1>1. PICK step \in CallSteps :
        /\ CallGoto(c, step)
        /\ step \notin {"idle", "declared"}
        /\ step \in Working => call[c].pc \in Working
        /\ step = "completing" => remote = "commit"
        /\ step \in {"closing", "completed"} => Row.status = "completed" \/ run[PushRun] = "completed"
  BY DEF Waits, CallAt
<1>2. /\ call'[c].pc = step /\ call'[c].attempt = call[c].attempt
      /\ \A d \in Calls \ {c} : call'[d] = call[d]
  BY <1>1, Gone DEF PushInv
<1>3. UNCHANGED <<effect, run, remote, reached>>
  BY DEF Waits, vars
<1>4. step = "completing" => reached
  BY <1>1 DEF PushInv, CompletionIsTrue
<1>5. step \in {"closing", "completed"} => Row.status = "completed"
  BY <1>1 DEF PushInv, CompletionIsTrue
<1>6. run'[PushRun] = "completed" => run[PushRun] = "completed"
  BY <1>3
<1> QED BY <1>1, <1>2, <1>3, <1>4, <1>5, <1>6, QuietStep

LEMMA ProbePreserves ==
  ASSUME PushInv, NEW c \in Calls, Probe(c)
  PROVE  NumbersAreOwned' /\ WorkIsInFlight' /\ CompletionIsTrue'
<1>1. PICK seen \in {remote, "unknown"} :
        call' = [call EXCEPT ![c].pc = IF seen = "commit" THEN "completing" ELSE "ready",
                             ![c].before = seen]
  BY DEF Probe
<1> DEFINE step == IF seen = "commit" THEN "completing" ELSE "ready"
<1>2. /\ step \in CallSteps \cap Working /\ call[c].pc \in Working
      /\ step \notin {"idle", "declared", "closing", "completed"}
      /\ step = "completing" => reached
      /\ UNCHANGED <<effect, run, remote, reached>>
  BY <1>1 DEF Probe, CallAt, CallSteps, Working, PushInv, CompletionIsTrue, vars
<1>3. /\ call'[c].pc = step /\ call'[c].attempt = call[c].attempt
      /\ \A d \in Calls \ {c} : call'[d] = call[d]
  BY <1>1 DEF PushInv, PushTypeOK
<1>4. run'[PushRun] = "completed" => run[PushRun] = "completed"
  BY <1>2
<1> HIDE DEF step
<1> QED BY <1>2, <1>3, <1>4, QuietStep

(* The run is completed after the effect; a declaration changes no row.    *)
LEMMA CloseRunPreserves ==
  ASSUME PushInv, NEW c \in Calls, CloseRun(c) \/ Declare(c)
  PROVE  NumbersAreOwned' /\ WorkIsInFlight' /\ CompletionIsTrue'
<1>1. CASE CloseRun(c)
  <2>1. Row.status = "completed" /\ effect' = effect /\ UNCHANGED <<remote, reached>>
    BY <1>1 DEF CloseRun, CompleteRun, CallAt, PushInv, CompletionIsTrue, vars
  <2>2. PICK step \in {"completed", "failed"} : CallGoto(c, step)
    BY <1>1 DEF CloseRun
  <2>3. step \in CallSteps /\ step \notin {"idle", "declared", "completing"} \union Working
    BY <2>2 DEF CallSteps, Over, Working
  <2>4. /\ call'[c].pc = step /\ call'[c].attempt = call[c].attempt
        /\ \A d \in Calls \ {c} : call'[d] = call[d]
    BY <2>2, <2>3, Gone DEF PushInv
  <2> QED BY <2>1, <2>3, <2>4, QuietStep
<1>2. CASE Declare(c)
  <2>1. CallAt(c, "idle") /\ CallGoto(c, "declared") /\ UNCHANGED <<effect, run, remote, reached>>
    BY <1>2 DEF Declare, DeclareExposure
  <2>2. "declared" \in CallSteps /\ "declared" \notin Working
    BY DEF CallSteps, Working
  <2>3. /\ call'[c].pc = "declared" /\ call'[c].attempt = call[c].attempt
        /\ \A d \in Calls \ {c} : call'[d] = call[d]
    BY <2>1, <2>2, Gone DEF PushInv
  <2>4. run'[PushRun] = "completed" => run[PushRun] = "completed"
    BY <2>1
  <2> QED BY <2>1, <2>2, <2>3, <2>4, QuietStep DEF CallAt
<1> QED BY <1>1, <1>2

(* An outcome that a call reports of its own attempt, or of one that no    *)
(* call works on.                                                          *)
LEMMA OutcomePreserves ==
  ASSUME PushInv, OutcomeStep(operation), UNCHANGED <<remote, reached>>,
         NEW c \in Calls, NEW step \in CallSteps,
         call'[c].pc = step, call'[c].attempt = call[c].attempt,
         \A d \in Calls \ {c} : call'[d] = call[d],
         step \notin Working \union {"idle", "declared", "completed"},
         step = "closing" => Row'.status = "completed",
         Row'.status = "completed" => reached,
         Row.status = "claimed" => call[c].pc \in Working
  PROVE  NumbersAreOwned' /\ WorkIsInFlight' /\ CompletionIsTrue'
<1>1. /\ Row.status \in {"claimed", "uncertain", "retryable"}
      /\ Row.attempt = Number /\ Number' = Number
      /\ run'[PushRun] = "completed" => run[PushRun] = "completed"
  BY PushOutcomes DEF PushInv, PushTypeOK
<1>2. NumbersAreOwned'
  BY <1>1 DEF PushInv, NumbersAreOwned
<1>3. ASSUME NEW d \in Calls, call'[d].pc \in Working PROVE FALSE
  <2>1. d # c /\ call[d].pc \in Working
    BY <1>3
  <2>2. Row.status = "claimed" /\ call[d].attempt = Row.attempt
    BY <2>1 DEF PushInv, WorkIsInFlight
  <2>3. call[c].attempt = Row.attempt
    BY <2>2 DEF PushInv, WorkIsInFlight
  <2>4. Row.attempt # 0
    BY <2>2, RowType DEF PushInv, PushTypeOK, EFFECT_STATES
  <2> QED BY <2>1, <2>2, <2>3, <2>4 DEF PushInv, NumbersAreOwned
<1>4. CompletionIsTrue'
  <2>1. run[PushRun] # "completed" /\ \A d \in Calls : call[d].pc \notin {"closing", "completed"}
    BY <1>1 DEF PushInv, CompletionIsTrue
  <2> QED BY <1>1, <1>3, <2>1 DEF PushInv, CompletionIsTrue, CallAt, Working
<1> QED BY <1>2, <1>3, <1>4 DEF WorkIsInFlight

LEMMA ReportsPreserve ==
  ASSUME PushInv, NEW c \in Calls,
         PrecheckFails(c) \/ ReportNotApplied(c) \/ ReportDoubt(c) \/ Complete(c)
  PROVE  NumbersAreOwned' /\ WorkIsInFlight' /\ CompletionIsTrue'
<1> USE DEF CallSteps, Over, Working
<1>1. CASE UNCHANGED vars /\ CallGoto(c, "failed") /\ call[c].pc \in Working \union {"doubted"}
  <2>1. Waits(c)
    BY <1>1 DEF Waits, PrecheckFails, ReportNotApplied, ReportDoubt, Complete
  <2> QED BY <2>1, WaitsPreserve
<1>2. CASE PrecheckFails(c) /\ MarkEffectUncertain(operation) /\ CallGoto(c, "doubted")
  <2>1. OutcomeStep(operation) /\ call[c].pc \in Working /\ UNCHANGED <<remote, reached>>
    BY <1>2 DEF OutcomeStep, PrecheckFails, CallAt
  <2>2. Row'.status = "uncertain"
    BY <1>2, <2>1, OperationType, OutcomeMovesRow DEF Row, PushInv, PushTypeOK
  <2> QED BY <1>2, <2>1, <2>2, Gone, OutcomePreserves DEF PushInv
<1>3. CASE ReportDoubt(c) /\ MarkEffectUncertain(operation) /\ CallGoto(c, "uncertain")
  <2>1. OutcomeStep(operation) /\ call[c].pc \in Working /\ UNCHANGED <<remote, reached>>
    BY <1>3 DEF OutcomeStep, ReportDoubt, CallAt
  <2>2. Row'.status = "uncertain"
    BY <1>3, <2>1, OperationType, OutcomeMovesRow DEF Row, PushInv, PushTypeOK
  <2> QED BY <1>3, <2>1, <2>2, Gone, OutcomePreserves DEF PushInv
<1>4. CASE ReportNotApplied(c) /\ ReconcileNotApplied(operation) /\ CallGoto(c, "denied")
  <2>1. OutcomeStep(operation) /\ Row.status # "claimed" /\ UNCHANGED <<remote, reached>>
    BY <1>4 DEF OutcomeStep, ReportNotApplied, ReconcileNotApplied, Reconcile, Row
  <2>2. Row'.status = "retryable"
    BY <1>4, <2>1, OperationType, OutcomeMovesRow DEF Row, PushInv, PushTypeOK
  <2> QED BY <1>4, <2>1, <2>2, Gone, OutcomePreserves DEF PushInv
<1>5. CASE Complete(c) /\ CompleteEffect(operation) /\ CallGoto(c, "closing")
  <2>1. /\ OutcomeStep(operation) /\ call[c].pc \in Working /\ UNCHANGED <<remote, reached>>
        /\ reached
    BY <1>5 DEF OutcomeStep, Complete, CallAt, PushInv, CompletionIsTrue
  <2>2. Row'.status = "completed"
    BY <1>5, <2>1, OperationType, OutcomeMovesRow DEF Row, PushInv, PushTypeOK
  <2> QED BY <1>5, <2>1, <2>2, Gone, OutcomePreserves DEF PushInv
<1> QED BY <1>1, <1>2, <1>3, <1>4, <1>5 DEF PrecheckFails, ReportNotApplied, ReportDoubt, Complete, CallAt

(* A claim hands out a number that no call has.                            *)
LEMMA ClaimPreserves ==
  ASSUME PushInv, NEW c \in Calls, Claim(c)
  PROVE  NumbersAreOwned' /\ WorkIsInFlight' /\ CompletionIsTrue'
<1> USE DEF CallSteps, Over, Working
<1>1. CASE UNCHANGED vars /\ CallGoto(c, IF Row.status = "completed" THEN "closing" ELSE "failed")
  <2>1. Waits(c)
    BY <1>1 DEF Claim, Waits
  <2> QED BY <2>1, WaitsPreserve
<1>2. CASE ClaimStep(PushRun, PushRequest) /\ effect' = effect /\ CallGoto(c, "failed")
  <2>1. run'[PushRun] # "completed"
    BY <1>2, PushClaims DEF PushInv, PushTypeOK
  <2>2. UNCHANGED <<remote, reached>>
    BY DEF Claim
  <2> QED BY <1>2, <2>1, <2>2, Gone, QuietStep DEF PushInv
<1>3. CASE /\ ClaimStep(PushRun, PushRequest) /\ effect' # effect
           /\ call' = [call EXCEPT ![c].pc = "claimed", ![c].attempt = effect'[operation].attempt]
  <2>1. /\ run'[PushRun] # "completed" /\ Row.status \in {"none", "retryable"}
        /\ Row'.status = "claimed" /\ Row'.attempt = Number + 1 /\ Number' = Number + 1
        /\ Number \in Nat
    BY <1>3, PushClaims, RowType DEF PushInv, PushTypeOK
  <2>2. UNCHANGED <<remote, reached>>
    BY DEF Claim
  <2>3. /\ call'[c].pc = "claimed" /\ call'[c].attempt = Number'
        /\ \A d \in Calls \ {c} : call'[d] = call[d]
    BY <1>3, <2>1 DEF PushInv, PushTypeOK, Row
  <2>4. \A d \in Calls : call[d].attempt \in Nat /\ call[d].attempt <= Number
    BY CallFields DEF PushInv, NumbersAreOwned
  <2>5. NumbersAreOwned'
    BY <2>1, <2>3, <2>4 DEF PushInv, NumbersAreOwned
  <2>6. \A d \in Calls : call[d].pc \notin Working \union {"closing", "completed"}
    BY <2>1 DEF PushInv, WorkIsInFlight, CompletionIsTrue
  <2>7. WorkIsInFlight'
    BY <2>1, <2>3, <2>6 DEF WorkIsInFlight
  <2>8. CompletionIsTrue'
    BY <2>1, <2>2, <2>3, <2>6 DEF PushInv, CompletionIsTrue, CallAt
  <2> QED BY <2>5, <2>7, <2>8
<1> QED BY <1>1, <1>2, <1>3 DEF Claim, Row

(* The operator, and whoever else pushes.                                  *)
LEMMA SettlePreserves ==
  ASSUME PushInv, Observe \/ GiveUpOnAttempt
  PROVE  NumbersAreOwned' /\ WorkIsInFlight' /\ CompletionIsTrue'
<1>1. OutcomeStep(operation) /\ call' = call /\ UNCHANGED <<remote, reached>>
  BY DEF Observe, GiveUpOnAttempt, OutcomeStep, seamVars
<1>2. /\ Row.status \in {"claimed", "uncertain", "retryable"}
      /\ Row.attempt = Number /\ Number' = Number
      /\ run'[PushRun] = "completed" => run[PushRun] = "completed"
  BY <1>1, PushOutcomes DEF PushInv, PushTypeOK
<1>3. Row'.status = "completed" => reached
  <2>1. CASE Observe /\ ~reached
    <3>1. ReconcileNotApplied(operation) \/ ReconcileUnknown(operation)
      BY <2>1 DEF Observe
    <3> QED BY <3>1, <1>1, OperationType, OutcomeMovesRow DEF Row, PushInv, PushTypeOK
  <2>2. CASE GiveUpOnAttempt
    <3>1. MarkEffectUncertain(operation)
      BY <2>2 DEF GiveUpOnAttempt
    <3> QED BY <3>1, <1>1, OperationType, OutcomeMovesRow DEF Row, PushInv, PushTypeOK
  <2> QED BY <2>1, <2>2
<1>4. \A c \in Calls : call[c].pc \notin Working
  <2>1. CASE Row.status = "claimed"
    <3>1. GiveUpOnAttempt
      BY <2>1 DEF Observe, ReconcileApplied, ReconcileNotApplied, ReconcileUnknown, Reconcile, Row
    <3>2. \A c \in Calls : call[c].attempt = Row.attempt => call[c].pc \in Over
      BY <3>1 DEF GiveUpOnAttempt, Row
    <3> QED BY <3>2 DEF PushInv, WorkIsInFlight, Working, Over
  <2>2. CASE Row.status # "claimed"
    BY <2>2 DEF PushInv, WorkIsInFlight
  <2> QED BY <2>1, <2>2
<1>5. NumbersAreOwned'
  BY <1>1, <1>2 DEF PushInv, NumbersAreOwned
<1>6. WorkIsInFlight'
  BY <1>1, <1>4 DEF WorkIsInFlight
<1>7. CompletionIsTrue'
  BY <1>1, <1>2, <1>3 DEF PushInv, CompletionIsTrue, CallAt
<1> QED BY <1>5, <1>6, <1>7

LEMMA OthersPreserve ==
  ASSUME PushInv,
         \/ \E c \in Calls : Arrive(c)
         \/ OthersPush
         \/ (ApprovalStep(operation) \/ SafeStopRun(PushRun) \/ RestartRun(PushRun)) /\ UNCHANGED seamVars
         \/ UNCHANGED pushVars
  PROVE  NumbersAreOwned' /\ WorkIsInFlight' /\ CompletionIsTrue'
<1>1. /\ effect' = effect /\ call' = call
      /\ reached => reached'
      /\ remote' = "commit" => reached' \/ remote = "commit"
  <2>1. ASSUME NEW c \in Calls, Arrive(c)
        PROVE  /\ UNCHANGED <<effect, call>>
               /\ reached' = (reached \/ Accepts(c))
               /\ remote' = IF Accepts(c) THEN "commit" ELSE remote
    BY <2>1 DEF Arrive, vars
  <2>2. CASE OthersPush
    BY <2>2 DEF OthersPush, vars
  <2>3. CASE (ApprovalStep(operation) \/ SafeStopRun(PushRun) \/ RestartRun(PushRun)) /\ UNCHANGED seamVars
    BY <2>3 DEF ApprovalStep, Approve, DenyApproval, DecideApproval, ApprovalExpires,
       SafeStopRun, RestartRun, seamVars
  <2>4. CASE UNCHANGED pushVars
    BY <2>4 DEF seamVars, pushVars, vars
  <2> QED BY <2>1, <2>2, <2>3, <2>4
<1>2. run'[PushRun] = "completed" => run[PushRun] = "completed"
  <2>1. run' = run \/ SafeStopRun(PushRun) \/ RestartRun(PushRun)
    BY DEF Arrive, OthersPush, ApprovalStep, Approve, DenyApproval, DecideApproval, ApprovalExpires,
       pushVars, vars
  <2> QED BY <2>1, OperationType DEF SafeStopRun, SetRunStatus, RestartRun, PushInv, PushTypeOK, TypeOK
<1>3. Row' = Row /\ Number' = Number
  BY <1>1 DEF Row, Number
<1> QED BY <1>1, <1>2, <1>3
     DEF PushInv, NumbersAreOwned, WorkIsInFlight, CompletionIsTrue, CallAt

-----------------------------------------------------------------------------
(* All of it. *)

LEMMA PushTypePreserved ==
  ASSUME PushInv, [PushNext]_pushVars
  PROVE  PushTypeOK'
<1> USE DEF CallSteps, Over, Refs
<1>1. TypeOK'
  BY OwnerTypePreserved DEF PushInv, PushTypeOK
<1>2. call' \in [Calls -> [pc : CallSteps, before : Refs \union {"unknown"}, attempt : Nat]]
  <2> DEFINE CallsType == [Calls -> [pc : CallSteps, before : Refs \union {"unknown"}, attempt : Nat]]
  <2>1. call \in CallsType
    BY DEF PushInv, PushTypeOK
  <2>2. ASSUME NEW c \in Calls, NEW step \in CallSteps, CallGoto(c, step) PROVE call' \in CallsType
    BY <2>1, <2>2 DEF CallGoto
  <2>3. ASSUME NEW c \in Calls, CallStep(c), ~Claim(c), ~Probe(c) PROVE call' \in CallsType
    <3>1. \E step \in CallSteps : CallGoto(c, step)
      BY <2>3 DEF CallStep, Declare, PrecheckFails, ReportNotApplied, IssuePush, PushReturns,
         Verify, ReportDoubt, Complete, CloseRun
    <3> QED BY <3>1, <2>2
  <2>4. ASSUME NEW c \in Calls, Claim(c) PROVE call' \in CallsType
    <3>1. CASE \E step \in CallSteps : CallGoto(c, step)
      BY <3>1, <2>2
    <3>2. CASE ~ \E step \in CallSteps : CallGoto(c, step)
      <4>1. /\ effect' # effect /\ ClaimStep(PushRun, PushRequest)
            /\ call' = [call EXCEPT ![c].pc = "claimed", ![c].attempt = effect'[operation].attempt]
        BY <2>4, <3>2 DEF Claim
      <4>2. effect'[operation].attempt \in Nat
        BY <4>1, PushClaims, RowType DEF PushInv, PushTypeOK, Row
      <4>3. [call[c] EXCEPT !.pc = "claimed", !.attempt = effect'[operation].attempt] \in
              [pc : CallSteps, before : Refs \union {"unknown"}, attempt : Nat]
        BY <4>2, <2>1
      <4>4. call' = [call EXCEPT ![c] =
                       [call[c] EXCEPT !.pc = "claimed", !.attempt = effect'[operation].attempt]]
        BY <4>1
      <4> QED BY <4>3, <4>4, <2>1
    <3> QED BY <3>1, <3>2
  <2>5. ASSUME NEW c \in Calls, Probe(c) PROVE call' \in CallsType
    <3>1. PICK step \in CallSteps, seen \in Refs \union {"unknown"} :
            call' = [call EXCEPT ![c].pc = step, ![c].before = seen]
      BY <2>5 DEF Probe, PushInv, PushTypeOK
    <3>2. [call[c] EXCEPT !.pc = step, !.before = seen] \in
            [pc : CallSteps, before : Refs \union {"unknown"}, attempt : Nat]
      <4>1. call[c] \in [pc : CallSteps, before : Refs \union {"unknown"}, attempt : Nat]
        BY <2>1
      <4> HIDE DEF CallSteps, Refs
      <4> QED BY <4>1
    <3>3. call' = [call EXCEPT ![c] = [call[c] EXCEPT !.pc = step, !.before = seen]]
      BY <3>1
    <3> DEFINE row == [call[c] EXCEPT !.pc = step, !.before = seen]
    <3> HIDE DEF CallSteps, Refs, row
    <3> QED BY <3>2, <3>3, <2>1
  <2>6. ASSUME NEW c \in Calls, Crash(c) \/ ConnectionLost(c) PROVE call' \in CallsType
    <3>1. \E step \in CallSteps : CallGoto(c, step)
      BY <2>6 DEF Crash, ConnectionLost
    <3> QED BY <3>1, <2>2
  <2>7. (\E c \in Calls : Arrive(c)) \/ OthersPush \/ Operator \/ UNCHANGED pushVars => call' = call
    BY DEF Arrive, OthersPush, Operator, Observe, GiveUpOnAttempt, seamVars, pushVars
  <2> HIDE DEF CallsType
  <2>8. call' \in CallsType
    BY <2>1, <2>3, <2>4, <2>5, <2>6, <2>7 DEF PushNext
  <2> QED BY <2>8 DEF CallsType
<1>3. /\ wire' \in [Calls -> {"none", "sent", "landed", "refused"}]
      /\ remote' \in Refs /\ reached' \in BOOLEAN
  <2>1. /\ wire \in [Calls -> {"none", "sent", "landed", "refused"}]
        /\ remote \in Refs /\ reached \in BOOLEAN
    BY DEF PushInv, PushTypeOK
  <2>2. ASSUME NEW c \in Calls, CallStep(c) \/ Crash(c) \/ ConnectionLost(c)
        PROVE  /\ wire' = wire \/ wire' = [wire EXCEPT ![c] = "sent"]
               /\ remote' = remote /\ reached' = reached
    BY <2>2 DEF CallStep, Declare, Claim, PrecheckFails, ReportNotApplied, Probe, IssuePush,
       PushReturns, Verify, ReportDoubt, Complete, CloseRun, Crash, ConnectionLost
  <2>3. ASSUME NEW c \in Calls, Arrive(c)
        PROVE  /\ wire' = [wire EXCEPT ![c] = "landed"] \/ wire' = [wire EXCEPT ![c] = "refused"]
               /\ remote' \in {"commit", remote} /\ reached' \in BOOLEAN
    BY <2>3 DEF Arrive
  <2>4. ASSUME OthersPush \/ Operator \/ UNCHANGED pushVars
        PROVE  /\ wire' = wire
               /\ remote' \in {"commit", "other", remote} /\ reached' \in {reached, TRUE, FALSE}
    BY <2>4 DEF OthersPush, Operator, Observe, GiveUpOnAttempt, seamVars, pushVars
  <2> QED BY <2>1, <2>2, <2>3, <2>4 DEF PushNext
<1> QED BY <1>1, <1>2, <1>3 DEF PushTypeOK

LEMMA WirePreserved ==
  ASSUME PushInv, [PushNext]_pushVars
  PROVE  PushesAreClaimed'
<1> DEFINE Unsent == {"idle", "declared", "claimed", "doubted", "denied", "ready"}
<1>1. ASSUME NEW c \in Calls PROVE call[c].pc \in Working => call[c].attempt # 0
  BY RowType, CallFields DEF PushInv, PushTypeOK, WorkIsInFlight, EFFECT_STATES
<1>2. ASSUME NEW c \in Calls, IssuePush(c) PROVE PushesAreClaimed'
  <2>1. call[c].attempt # 0
    BY <1>1, <1>2 DEF IssuePush, CallAt, Working
  <2>2. "pushing" \in CallSteps /\ CallGoto(c, "pushing") /\ wire' = [wire EXCEPT ![c] = "sent"]
    BY <1>2 DEF IssuePush, CallSteps
  <2>3. /\ call'[c].pc = "pushing" /\ call'[c].attempt = call[c].attempt
        /\ \A d \in Calls \ {c} : call'[d] = call[d]
    BY <2>2, Gone DEF PushInv
  <2> QED BY <2>1, <2>2, <2>3 DEF PushesAreClaimed, PushInv, PushTypeOK
<1>3. ASSUME NEW c \in Calls, Arrive(c) PROVE PushesAreClaimed'
  BY <1>3 DEF Arrive, PushesAreClaimed, PushInv, PushTypeOK
<1>4. ASSUME NEW c \in Calls, CallStep(c), ~IssuePush(c) PROVE PushesAreClaimed'
  <2>1. wire' = wire /\ \A d \in Calls \ {c} : call'[d] = call[d]
    BY <1>4 DEF CallStep, Declare, Claim, PrecheckFails, ReportNotApplied, Probe, PushReturns, Verify,
       ReportDoubt, Complete, CloseRun, CallGoto, PushInv, PushTypeOK
  <2>2. /\ call'[c].pc \in Unsent => call[c].pc \in Unsent
        /\ call[c].pc \notin Unsent => call'[c].attempt = call[c].attempt
    BY <1>4 DEF CallStep, Declare, Claim, PrecheckFails, ReportNotApplied, Probe, PushReturns, Verify,
       ReportDoubt, Complete, CloseRun, CallGoto, CallAt, PushInv, PushTypeOK
  <2> QED BY <2>1, <2>2 DEF PushesAreClaimed, PushInv
<1>5. ASSUME NEW c \in Calls, Crash(c) \/ ConnectionLost(c) PROVE PushesAreClaimed'
  BY <1>5 DEF Crash, ConnectionLost, CallGoto, PushesAreClaimed, PushInv, PushTypeOK
<1>6. OthersPush \/ Operator \/ UNCHANGED pushVars => UNCHANGED <<call, wire>>
  BY DEF OthersPush, Operator, Observe, GiveUpOnAttempt, seamVars, pushVars
<1>7. UNCHANGED <<call, wire>> => PushesAreClaimed'
  BY DEF PushesAreClaimed, PushInv
<1> QED BY <1>2, <1>3, <1>4, <1>5, <1>6, <1>7 DEF PushNext

LEMMA PushInvInit == PushInit => PushInv
<1> SUFFICES ASSUME PushInit PROVE PushInv
  OBVIOUS
<1>1. TypeOK
  BY OperationType, OwnerAssumption DEF PushInit, TypeOK, RUN_STATES, Live, ApprovalRow,
     ApprovalStates, Request, Undeclared, Exposure
<1>2. PushTypeOK
  BY <1>1 DEF PushInit, PushTypeOK, CallSteps, Refs
<1>3. Row = NoRow /\ Number = 0 /\ Row.status = "none"
  BY OperationType DEF PushInit, Row, Number, NoRow
<1> QED BY <1>2, <1>3, OperationType DEF PushInit, PushInv, NumbersAreOwned, WorkIsInFlight,
     Working, PushesAreClaimed, CompletionIsTrue, CallAt

LEMMA PushInvPreserved == PushInv /\ [PushNext]_pushVars => PushInv'
<1> SUFFICES ASSUME PushInv, [PushNext]_pushVars PROVE PushInv'
  OBVIOUS
<1>1. PushTypeOK' /\ PushesAreClaimed'
  BY PushTypePreserved, WirePreserved
<1> DEFINE Kept == NumbersAreOwned' /\ WorkIsInFlight' /\ CompletionIsTrue'
<1>2. ASSUME NEW c \in Calls,
             IssuePush(c) \/ PushReturns(c) \/ Verify(c) \/ Crash(c) \/ ConnectionLost(c)
      PROVE  Kept
  <2>1. Waits(c)
    BY <1>2 DEF IssuePush, PushReturns, Verify, Crash, ConnectionLost, Waits, CallAt, Working
  <2> QED BY <2>1, WaitsPreserve
<1>3. ASSUME NEW c \in Calls, CallStep(c) PROVE Kept
  BY <1>2, <1>3, ClaimPreserves, ReportsPreserve, ProbePreserves, CloseRunPreserves DEF CallStep
<1>4. ASSUME Operator PROVE Kept
  BY <1>4, SettlePreserves, OthersPreserve DEF Operator
<1>5. Kept
  BY <1>2, <1>3, <1>4, OthersPreserve DEF PushNext
<1> QED BY <1>1, <1>5 DEF PushInv

(* What the calls, the effect and the remote say of one another holds      *)
(* after every step of push and of push_run.                               *)
THEOREM PushInvariant == PushSafety => []PushInv
<1>1. PushInit => PushInv
  BY PushInvInit
<1>2. PushInv /\ [PushNext]_pushVars => PushInv'
  BY PushInvPreserved
<1> QED BY <1>1, <1>2, PTL DEF PushSafety

(* However many calls of push are made for the approved operation, and     *)
(* wherever they die, no two issue git push under one claimed attempt: the *)
(* owner numbers the attempts, and issuing takes a number of one's own.    *)
THEOREM OneAttemptOnePush == PushSafety => []OnePushPerAttempt
<1>1. PushInv => OnePushPerAttempt
  BY DEF PushInv, NumbersAreOwned, PushesAreClaimed, OnePushPerAttempt
<1> QED BY <1>1, PushInvariant, PTL

(* A completed push effect means that the commit was at the branch, and    *)
(* write-push answers `completed' and `denied' truthfully, with and        *)
(* without a lease, whatever third parties and the operator do.            *)
THEOREM PushAnswersAreTrue == PushSafety => []ReceiptsAreTrue
<1>1. PushInv => ReceiptsAreTrue
  <2> SUFFICES ASSUME PushInv PROVE ReceiptsAreTrue
    OBVIOUS
  <2>1. effect[operation].status = "completed" => reached
    BY DEF PushInv, CompletionIsTrue, Row
  <2>2. ASSUME NEW c \in Calls, CallAt(c, "completed") PROVE effect[operation].status = "completed"
    BY <2>2 DEF CallAt, PushInv, CompletionIsTrue, Row
  <2>3. ASSUME NEW c \in Calls, CallAt(c, "denied") PROVE wire[c] = "none"
    BY <2>3 DEF CallAt, PushInv, PushesAreClaimed
  <2> QED BY <2>1, <2>2, <2>3 DEF ReceiptsAreTrue
<1> QED BY <1>1, PushInvariant, PTL

(* The push run is completed only when its push effect is.                 *)
THEOREM CompletedPushRun == PushSafety => []CompletedRunHasPushed
<1>1. PushInv => CompletedRunHasPushed
  BY DEF PushInv, CompletionIsTrue, CompletedRunHasPushed, Row
<1> QED BY <1>1, PushInvariant, PTL

(* An outcome names the effect and no attempt, and still settles the       *)
(* attempt of the call that reports it: while a call is at work, nobody    *)
(* else can settle the attempt or claim the next one.                      *)
THEOREM OutcomesHitOwnAttempt == PushSafety => OutcomeHitsOwnAttempt
<1> DEFINE Hits == \A c \in Calls :
       (CallAt(c, "doubtful") \/ CallAt(c, "completing")) /\ call'[c] # call[c] /\ effect' # effect =>
         effect[operation].attempt = call[c].attempt
<1>1. PushInv /\ [PushNext]_pushVars => [Hits]_pushVars
  BY DEF PushInv, WorkIsInFlight, Working, CallAt, Row
<1> QED BY <1>1, PushInvariant, PTL DEF PushSafety, OutcomeHitsOwnAttempt

(* The seam is a client of the owner. *)
LEMMA PushIsAClient ==
  ASSUME [PushNext]_pushVars
  PROVE  ClientStep
<1>1. PUSH_EXPOSURE \in Exposure
  <2>1. PushRequest.scope \in Scopes
    BY OperationType, OwnerAssumption DEF Request
  <2> QED BY <2>1 DEF PUSH_EXPOSURE, Exposure, EffectClasses, ALLOWED_EFFECT_CLASSES
<1> QED BY <1>1, PushSteps, OperationType DEF ClientStep

LEMMA PushStarts == PushInit => ClientStart
<1> SUFFICES ASSUME PushInit PROVE ClientStart
  OBVIOUS
<1>1. TypeOK
  BY PushInvInit DEF PushInv, PushTypeOK
<1>2. \A o \in Operations : effect[o] = NoRow /\ approval[o].status # "consumed"
  BY DEF PushInit, NoRow
<1>3. \A r \in Runs : run[r] \notin Terminal
  BY DEF PushInit, Terminal
<1> QED BY <1>1, <1>2, <1>3 DEF ClientStart

(* Whatever the seam, its crashes and the operator do, the tables of the   *)
(* owner stay in agreement: every invariant of the owner holds of them.    *)
THEOREM PushKeepsTheOwner ==
  PushSafety => /\ []OwnerInv
               /\ TerminalRunsLeaveOnlyByRestart /\ SettledEffectsAreFinal /\ DoubtStopsTheRun
<1>1. PushInit => OwnerInv
  BY PushStarts, ClientBegins
<1>2. OwnerInv /\ [PushNext]_pushVars => OwnerInv'
  BY PushIsAClient, ClientKeepsOwner
<1>3. PushSafety => []OwnerInv
  BY <1>1, <1>2, PTL DEF PushSafety
<1>4. OwnerInv /\ [PushNext]_pushVars =>
        /\ [\A r \in Runs : run[r] \in Terminal /\ run'[r] # run[r] =>
              /\ run'[r] = "running"
              /\ UNCHANGED <<link, approval, effect, exposure, result, suspected>>]_vars
        /\ [\A o \in Operations : effect[o].status \in {"completed", "unknown"} =>
              effect'[o] = effect[o]]_vars
        /\ [\A o \in Operations : effect'[o].status # effect[o].status =>
              /\ effect'[o].status = "uncertain" => run'[effect'[o].run] = "recovering"
              /\ effect'[o].status = "unknown" => run'[effect'[o].run] = "safe_stopped"
              /\ effect'[o].status = "claimed" => run'[effect'[o].run] = "running"]_vars
  BY PushIsAClient, ClientKeepsActions
<1>5. PushSafety => TerminalRunsLeaveOnlyByRestart /\ SettledEffectsAreFinal /\ DoubtStopsTheRun
  BY <1>3, <1>4, PTL
  DEF PushSafety, TerminalRunsLeaveOnlyByRestart, SettledEffectsAreFinal, DoubtStopsTheRun
<1> QED BY <1>3, <1>5

(* A push is tried within its budget, again only after an observation, and *)
(* counted once, also with the boundary that the seam pins.                *)
THEOREM PushImplementsBoundedEffect == PushSafety => ImplementsBoundedEffect
<1>1. PushSafety => Bounded!Open
  BY PushStarts, ClientBegins DEF PushSafety
<1>2. OwnerInv /\ [PushNext]_pushVars =>
        [\E e \in Operations : Bounded!ProtocolStep(e)]_(Bounded!protocol)
  BY PushIsAClient, ClientKeepsProtocol
<1>3. PushSafety => [][\E e \in Operations : Bounded!ProtocolStep(e)]_(Bounded!protocol)
  BY <1>2, PushKeepsTheOwner, PTL DEF PushSafety
<1> QED BY <1>1, <1>3 DEF ImplementsBoundedEffect, Bounded!Protocol

-----------------------------------------------------------------------------
(* The worker bridge. *)

(* What the operation has made of its child, by the step it has reached:   *)
(* only a stop may come between.  The child is running or safe-stopped     *)
(* until the operation itself ends it, one way or the other.               *)
Underway == {"started", "writing", "reading", "waited", "cleared", "validated", "failing",
             "stopped"}

(* A child that no operation works upon was never created, or is at its    *)
(* end and its caller knows which, unless a fault hit it.                  *)
ChildRests(status, answer, hit) ==
  /\ status \in {"absent"} \union Terminal \/ hit
  /\ answer = "success" => status = "completed"
  /\ status = "completed" => answer = "success" \/ hit

ChildStands(pc, status, answer, hit) ==
  /\ pc = "created" => status = "created"
  /\ pc = "collided" => \/ ChildRests(status, answer, hit)
                        \/ status = "created" /\ answer # "success"
  /\ pc \notin {"created", "collided"} => status \notin {"absent", "created"}
  /\ pc \in Underway => status \in {"running", "safe_stopped"} \/ hit
  /\ pc = "accounting" => status \in {"failed", "safe_stopped"} \/ hit
  /\ pc = "completed" => status = "completed"
  /\ pc \in {"closing", "wedged"} => ChildRests(status, answer, hit)
  /\ pc = "wedged" => answer = "raised"
  /\ pc \in {"created", "accounting", "completed"} \union Underway => answer # "success"

(* Where the operation may hold a process. *)
Holding == {"writing", "reading", "waited", "cleared", "validated", "completed", "failing", "closing"}

ParentStatuses == {"running", "waiting_approval", "recovering", "failed", "safe_stopped"}

Busy == ~(At("idle") \/ At("admitted"))

BridgeInv ==
  /\ BridgeTypeOK
  /\ run[Parent] \in ParentStatuses
  /\ \A o \in Operations : effect[o].status # "none" => effect[o].run = Parent
  /\ ~At("idle") => op.child \in Children
  /\ worker # "none" => op.pc \in Holding
  /\ Busy => ChildStands(op.pc, run[op.child], outcome[op.child], op.child \in faulted)
  /\ \A c \in Children : ~(Busy /\ op.child = c) => ChildRests(run[c], outcome[c], c \in faulted)
  /\ stopper.pc = "child" =>
       /\ stopper.child \in Children
       /\ run[stopper.child] \notin {"absent", "created"}

-----------------------------------------------------------------------------
(* Types. *)

LEMMA TypeOfFail ==
  ASSUME BridgeTypeOK, NEW error \in Errors, Fail(error)
  PROVE  /\ op' \in [pc : Steps, kind : Kinds, child : Children \union {NoRun}, error : Errors]
         /\ op'.pc = "failing" /\ op'.child = op.child
<1>1. "failing" \in Steps
  BY DEF Steps
<1> QED BY <1>1 DEF Fail, BridgeTypeOK

LEMMA TypeOfGoto ==
  ASSUME BridgeTypeOK, NEW step \in Steps, Goto(step)
  PROVE  /\ op' \in [pc : Steps, kind : Kinds, child : Children \union {NoRun}, error : Errors]
         /\ op'.pc = step /\ op'.child = op.child
BY DEF Goto, BridgeTypeOK

LEMMA TypeOfRaise ==
  ASSUME BridgeTypeOK, NEW step \in Steps, op.child \in Children, Raise(step)
  PROVE  /\ op' \in [pc : Steps, kind : Kinds, child : Children \union {NoRun}, error : Errors]
         /\ op'.pc = step /\ op'.child = op.child
         /\ outcome' \in [Children -> {"none", "success", "error", "fail_stop", "raised"}]
         /\ outcome'[op.child] = "raised"
         /\ \A d \in Children \ {op.child} : outcome'[d] = outcome[d]
         /\ faulted' \subseteq Children \union {Parent}
         /\ op.child \in faulted' /\ faulted \subseteq faulted'
BY TypeOfGoto DEF Raise, Fault, BridgeTypeOK

LEMMA TypeOfIdle ==
  ASSUME BridgeTypeOK
  PROVE  Idle \in [pc : Steps, kind : Kinds, child : Children \union {NoRun}, error : Errors]
<1>1. "idle" \in Steps /\ "handshake" \in Kinds /\ "none" \in Errors
  BY DEF Steps, Kinds, Errors
<1> QED BY <1>1 DEF Idle

LEMMA TypeOfCheck ==
  ASSUME BridgeTypeOK, ProcessGroupChecked
  PROVE  clean' \in {"unset", "clean", "dirty"} /\ receipt' \in {"none", "clean", "dirty"}
BY DEF BridgeTypeOK, ProcessGroupChecked

LEMMA TypeOfStop ==
  ASSUME BridgeTypeOK, StopProcess
  PROVE  /\ clean' \in {"unset", "clean", "dirty"} /\ receipt' \in {"none", "clean", "dirty"}
         /\ worker' = "none"
BY DEF BridgeTypeOK, ProcessGroupChecked, StopProcess

-----------------------------------------------------------------------------
(* What the bridge's calls of the owner do. *)

LEMMA FaultGrows ==
  ASSUME BridgeTypeOK, NEW r \in Children \union {Parent}, Fault(r)
  PROVE  faulted' \subseteq Children \union {Parent} /\ r \in faulted' /\ faulted \subseteq faulted'
BY DEF Fault, BridgeTypeOK

(* Only the status of one run changes. *)
OnlyStatus(r, new) ==
  /\ run' = [run EXCEPT ![r] = new]
  /\ effect' = effect

LEMMA StopAttempt ==
  ASSUME TypeOK, NEW r \in Runs, TrySafeStop(r)
  PROVE  /\ TypeOK' /\ effect' = effect
         /\ run' = [run EXCEPT ![r] = IF Movable(r, "safe_stopped") THEN "safe_stopped" ELSE run[r]]
<1>1. CASE ~Movable(r, "safe_stopped")
  BY <1>1 DEF TrySafeStop, vars, TypeOK
<1>2. CASE Movable(r, "safe_stopped")
  <2>1. SafeStopRun(r)
    BY <1>2 DEF TrySafeStop
  <2>2. Next
    BY <2>1 DEF Next, RunStep
  <2> QED BY <1>2, <2>1, <2>2, TypePreserved DEF SafeStopRun, SetRunStatus
<1> QED BY <1>1, <1>2

LEMMA FailAttempt ==
  ASSUME TypeOK, NEW r \in Runs, TryFail(r)
  PROVE  /\ TypeOK' /\ effect' = effect
         /\ \/ run' = run /\ ~(Movable(r, "failed") /\ Movable(r, "safe_stopped"))
            \/ run' = [run EXCEPT ![r] = "failed"]
            \/ run' = [run EXCEPT ![r] = "safe_stopped"]
<1>1. CASE ~(Movable(r, "failed") /\ Movable(r, "safe_stopped"))
  BY <1>1 DEF TryFail, vars, TypeOK
<1>2. CASE Movable(r, "failed") /\ Movable(r, "safe_stopped")
  <2>1. FailRunBlocked(r) \/ \E v \in Values : FailRun(r, v)
    BY <1>2 DEF TryFail
  <2>2. Next
    BY <2>1 DEF Next, RunStep
  <2> QED BY <2>1, <2>2, TypePreserved DEF FailRunBlocked, FailRun, SetRunStatus
<1> QED BY <1>1, <1>2

(* The parent's own work never reaches the child of an operation. *)
LEMMA ParentWorkStaysHome ==
  ASSUME BridgeInv, ParentWorks
  PROVE  /\ TypeOK'
         /\ \A r \in Runs \ {Parent} : run'[r] = run[r]
         /\ run'[Parent] \in ParentStatuses
         /\ \A o \in Operations : effect'[o].status # "none" => effect'[o].run = Parent
<1> USE BridgeAssumption
<1>1. TypeOK /\ run \in [Runs -> RUN_STATES \union {"absent"}] /\ run[Parent] \in ParentStatuses
      /\ \A o \in Operations : effect[o].status # "none" => effect[o].run = Parent
  BY DEF BridgeInv, BridgeTypeOK, TypeOK
<1>2. Next
  BY DEF ParentWorks, Next, RunStep
<1>3. TypeOK'
  BY <1>1, <1>2, TypePreserved
<1>4. ASSUME NEW new \in {"running", "waiting_approval", "recovering", "safe_stopped"},
             run' = run \/ SetRunStatus(Parent, new)
      PROVE  /\ \A r \in Runs \ {Parent} : run'[r] = run[r]
             /\ run'[Parent] \in ParentStatuses
  BY <1>1, <1>4 DEF SetRunStatus, ParentStatuses
<1>5. ASSUME NEW q \in Requests, ClaimStep(Parent, q)
      PROVE  /\ \E new \in {"running", "waiting_approval", "safe_stopped"} : SetRunStatus(Parent, new)
             /\ \A o \in Operations : effect'[o].status # "none" => effect'[o].run = Parent
  <2>1. \E new \in {"running", "waiting_approval", "safe_stopped"} : SetRunStatus(Parent, new)
    BY <1>5 DEF ClaimStep, ClaimConflict, ClaimExhausted, ClaimRetry, ClaimOutOfBounds,
       ClaimStopsRun, ClaimMustWait, ClaimBadApproval, ClaimUnapproved, ClaimApproved
  <2>2. CASE effect' = effect
    BY <2>1, <2>2, <1>1
  <2>3. CASE Claimed(Parent, q)
    <3>1. /\ q.op \in Operations
          /\ effect' = [effect EXCEPT ![q.op] = FirstAttempt(Parent, q)]
      BY <2>3, <1>1, ClaimedRow
    <3>2. FirstAttempt(Parent, q).run = Parent
      BY DEF FirstAttempt
    <3> QED BY <2>1, <3>1, <3>2, <1>1 DEF TypeOK
  <2>4. CASE ClaimRetry(Parent, q)
    <3>1. /\ q.op \in Operations /\ effect[q.op] \in EffectRow
          /\ effect'[q.op] = NextAttempt(effect[q.op])
          /\ \A p \in Operations \ {q.op} : effect'[p] = effect[p]
      BY <2>4, <1>1, ClaimRetryType
    <3>2. effect[q.op].run = Parent
      BY <2>4 DEF ClaimRetry, SameEffect
    <3>3. effect'[q.op].run = Parent
      BY <3>1, <3>2, SameIdentity
    <3> QED BY <2>1, <3>1, <3>3, <1>1
  <2> QED BY <1>5, <2>2, <2>3, <2>4, ClaimChanges
<1>6. ASSUME NEW o \in Operations, OutcomeStep(o)
      PROVE  /\ run' = run \/ \E new \in {"running", "recovering", "safe_stopped"} : SetRunStatus(Parent, new)
             /\ \A x \in Operations : effect'[x].status # "none" => effect'[x].run = Parent
  <2>1. /\ effect[o] \in EffectRow
        /\ effect'[o] \in EffectRow
        /\ \A x \in Operations \ {o} : effect'[x] = effect[x]
        /\ \E status \in EFFECT_STATES, told \in AttemptStates, count \in {0, 1} :
             effect'[o] = Settled(effect[o], status, told, count)
        /\ effect[o].status \in {"claimed", "uncertain", "retryable"}
    BY <1>1, <1>6, OutcomeRow
  <2>2. effect[o].run = Parent
    BY <1>1, <2>1
  <2>3. effect'[o].run = Parent
    BY <2>1, <2>2, SameIdentity
  <2>4. run' = run \/ \E new \in {"running", "recovering", "safe_stopped"} : SetRunStatus(Parent, new)
    BY <1>6, <2>2 DEF OutcomeStep, CompleteEffect, MarkEffectUncertain, ReconcileApplied,
       ReconcileNotApplied, ReconcileUnknown, Reconcile, ReconcileRun
  <2> QED BY <1>1, <2>1, <2>3, <2>4
<1>7. CASE SafeStopRun(Parent)
  BY <1>1, <1>3, <1>4, <1>7 DEF SafeStopRun
<1> QED BY <1>3, <1>4, <1>5, <1>6, <1>7 DEF ParentWorks

-----------------------------------------------------------------------------
(* The steps of the operation. *)

(* Between the start of its child and its end the operation moves without  *)
(* changing what anybody else sees.                                        *)
LEMMA OperationMoves ==
  ASSUME BridgeInv, BridgeTypeOK', UNCHANGED <<vars, stopper, outcome, faulted>>,
         op'.child = op.child, op.pc \in Underway, op'.pc \in Underway,
         worker' # "none" => op'.pc \in Holding
  PROVE  BridgeInv'
<1>1. Busy /\ Busy' /\ ~At("idle") /\ ~At("idle")'
  BY DEF Busy, At, Underway
<1>2. ChildStands(op'.pc, run'[op'.child], outcome'[op'.child], op'.child \in faulted')
  <2>1. ChildStands(op.pc, run[op.child], outcome[op.child], op.child \in faulted)
    BY <1>1 DEF BridgeInv
  <2> QED BY <2>1 DEF vars, ChildStands, Underway
<1> QED BY <1>1, <1>2 DEF BridgeInv, vars

LEMMA OperationReads ==
  ASSUME BridgeInv,
         SpawnWorker \/ RequestWritten \/ WriteFails \/ ReadFails \/ ReadEnds \/ AnswerMissing
         \/ RaiseIfStopRequested \/ ValidateAnswer
  PROVE  BridgeInv'
<1>1. BridgeTypeOK /\ TypeOK /\ (worker # "none" => op.pc \in Holding)
  BY DEF BridgeInv, BridgeTypeOK
<1>2. ASSUME NEW error \in Errors, Fail(error), BridgeTypeOK, op.pc \in Underway,
             UNCHANGED <<vars, code, worker, clean, receipt, monitor, stopper, outcome, faulted>>,
             escaped' \in BOOLEAN
      PROVE  BridgeInv'
  <2>1. /\ op' \in [pc : Steps, kind : Kinds, child : Children \union {NoRun}, error : Errors]
        /\ op'.pc = "failing" /\ op'.child = op.child
    BY <1>2, TypeOfFail
  <2>2. BridgeTypeOK'
    BY <1>1, <1>2, <2>1 DEF BridgeTypeOK, TypeOK, vars
  <2> QED BY <1>2, <2>1, <2>2, OperationMoves DEF Underway, Holding
<1>3. ASSUME NEW step \in Steps, Goto(step), step \in Underway, op.pc \in Underway,
             UNCHANGED <<vars, code, monitor, stopper, outcome, faulted>>, escaped' = escaped,
             worker' = worker,
             clean' \in {"unset", "clean", "dirty"}, receipt' \in {"none", "clean", "dirty"},
             worker' # "none" => step \in Holding
      PROVE  BridgeInv'
  <2>1. /\ op' \in [pc : Steps, kind : Kinds, child : Children \union {NoRun}, error : Errors]
        /\ op'.pc = step /\ op'.child = op.child
    BY <1>1, <1>3, TypeOfGoto
  <2>2. BridgeTypeOK'
    BY <1>1, <1>3, <2>1 DEF BridgeTypeOK, TypeOK, vars
  <2> QED BY <1>3, <2>1, <2>2, OperationMoves
<1>4. CASE SpawnWorker
  <2>1. CASE Fail("worker_start_failed") /\ UNCHANGED <<worker, monitor>>
    <3>1. "worker_start_failed" \in Errors /\ "started" \in Underway
      BY DEF Errors, Underway
    <3> QED BY <1>1, <1>2, <1>4, <2>1, <3>1 DEF SpawnWorker, At
  <2>2. CASE worker' = "up" /\ monitor' = "watching" /\ Goto("writing")
    <3>1. "writing" \in Steps /\ "writing" \in Underway /\ "writing" \in Holding /\ "started" \in Underway
      BY DEF Steps, Underway, Holding
    <3>2. /\ op' \in [pc : Steps, kind : Kinds, child : Children \union {NoRun}, error : Errors]
          /\ op'.pc = "writing" /\ op'.child = op.child
      BY <1>1, <2>2, <3>1, TypeOfGoto
    <3>3. BridgeTypeOK'
      BY <1>1, <1>4, <2>2, <3>2 DEF SpawnWorker, BridgeTypeOK, TypeOK, vars
    <3> QED BY <1>4, <3>1, <3>2, <3>3, OperationMoves DEF SpawnWorker, At
  <2> QED BY <1>4, <2>1, <2>2 DEF SpawnWorker
<1>11. CASE RequestWritten
  <2>1. "reading" \in Steps /\ "reading" \in Underway /\ "reading" \in Holding /\ "writing" \in Underway
    BY DEF Steps, Underway, Holding
  <2> QED BY <1>1, <1>3, <1>11, <2>1 DEF RequestWritten, At, BridgeTypeOK
<1>12. CASE WriteFails
  <2>1. "worker_request_failed" \in Errors /\ "writing" \in Underway
    BY DEF Errors, Underway
  <2> QED BY <1>1, <1>2, <1>12, <2>1 DEF WriteFails, At, BridgeTypeOK
<1>5. CASE ReadFails
  <2>1. \E error \in Errors : Fail(error)
    BY <1>1, <1>5 DEF ReadFails, Errors, Recoverable, BridgeTypeOK
  <2> QED BY <1>1, <1>2, <1>5, <2>1 DEF ReadFails, At, Underway, BridgeTypeOK
<1>6. CASE ReadEnds
  <2>1. "waited" \in Steps /\ "waited" \in Underway /\ "waited" \in Holding /\ "reading" \in Underway
    BY DEF Steps, Underway, Holding
  <2> QED BY <1>1, <1>3, <1>6, <2>1, TypeOfCheck DEF ReadEnds, At
<1>7. CASE AnswerMissing
  <2>1. \E error \in Errors : Fail(error)
    BY <1>7 DEF AnswerMissing, Errors, Recoverable
  <2> QED BY <1>1, <1>2, <1>7, <2>1 DEF AnswerMissing, At, Underway, BridgeTypeOK
<1>8. CASE RaiseIfStopRequested
  <2>1. "cleared" \in Steps /\ "cleared" \in Underway /\ "cleared" \in Holding /\ "waited" \in Underway
    BY DEF Steps, Underway, Holding
  <2>2. Goto("cleared") \/ \E error \in Errors : Fail(error)
    BY <1>1, <1>8 DEF RaiseIfStopRequested, BridgeTypeOK
  <2> QED BY <1>1, <1>2, <1>3, <1>8, <2>1, <2>2 DEF RaiseIfStopRequested, At, BridgeTypeOK
<1>9. CASE ValidateAnswer
  <2>1. "validated" \in Steps /\ "validated" \in Underway /\ "validated" \in Holding /\ "cleared" \in Underway
    BY DEF Steps, Underway, Holding
  <2>2. Goto("validated") \/ \E error \in Errors : Fail(error)
    BY <1>9 DEF ValidateAnswer, Errors, Recoverable
  <2> QED BY <1>1, <1>2, <1>3, <1>9, <2>1, <2>2 DEF ValidateAnswer, At, BridgeTypeOK
<1> QED BY <1>4, <1>5, <1>6, <1>7, <1>8, <1>9, <1>11, <1>12

(* Signals, exits, the monitor and a request to stop. *)
LEMMA ProcessMoves ==
  ASSUME BridgeInv,
         SignalStop \/ HeartbeatExpires \/ SignalLost \/ WorkerExits \/ WorkerDetachesChild
         \/ OrphanExits \/ \E stopCode \in StopCodes : RequestStop(stopCode)
  PROVE  BridgeInv'
<1>1. BridgeTypeOK
  BY DEF BridgeInv
<1>2. /\ UNCHANGED <<vars, op, outcome, faulted>> /\ (worker' # "none" => worker # "none")
      /\ worker' \in {"none", "up", "exited", "crashed"}
  BY <1>1 DEF SignalStop, HeartbeatExpires, SignalLost, WorkerExits, WorkerDetachesChild,
     OrphanExits, RequestStop, Terminate, BridgeTypeOK
<1>3. stopper' = stopper \/ stopper' = [stopper EXCEPT !.pc = "idle"]
      \/ \E stopCode \in StopCodes : RequestStop(stopCode)
  BY DEF SignalStop, HeartbeatExpires, SignalLost, WorkerExits, WorkerDetachesChild, OrphanExits
<1>4. /\ stopper' \in [pc : {"idle", "child", "parent", "signal"},
                       child : Children \union {NoRun}, code : StopCodes]
      /\ \/ stopper'.pc # "child"
         \/ stopper'.child = stopper.child /\ stopper.pc = "child"
         \/ stopper'.child = op.child /\ Active /\ worker # "none"
  <2>1. ASSUME NEW stopCode \in StopCodes, RequestStop(stopCode)
        PROVE  /\ Active /\ worker # "none"
               /\ stopper' = [pc |-> "child", child |-> op.child, code |-> stopCode]
    BY <2>1 DEF RequestStop
  <2>2. op.child \in Children \union {NoRun}
    BY <1>1 DEF BridgeTypeOK
  <2>3. /\ stopper.child \in Children \union {NoRun} /\ stopper.code \in StopCodes
        /\ stopper \in [pc : {"idle", "child", "parent", "signal"},
                       child : Children \union {NoRun}, code : StopCodes]
    BY <1>1 DEF BridgeTypeOK
  <2> QED BY <1>3, <2>1, <2>2, <2>3
<1>5. code' \in Errors /\ monitor' \in {"off", "watching", "lost", "signalled"}
  BY <1>1 DEF BridgeTypeOK, SignalStop, HeartbeatExpires, SignalLost, WorkerExits,
     WorkerDetachesChild, OrphanExits, RequestStop, Errors
<1>6. escaped' \in BOOLEAN /\ UNCHANGED <<clean, receipt>>
  BY <1>1 DEF BridgeTypeOK, SignalStop, HeartbeatExpires, SignalLost, WorkerExits,
     WorkerDetachesChild, OrphanExits, RequestStop
<1>7. BridgeTypeOK'
  BY <1>1, <1>2, <1>4, <1>5, <1>6 DEF BridgeTypeOK, TypeOK, vars
<1>8. UNCHANGED <<run, effect>>
  BY <1>2 DEF vars
<1>9. stopper'.pc = "child" => stopper'.child \in Children /\ run'[stopper'.child] \notin {"absent", "created"}
  <2>1. ASSUME Active, worker # "none"
        PROVE  op.child \in Children /\ run[op.child] \notin {"absent", "created"}
    <3>1. /\ op.child \in Children /\ op.pc \in Holding
          /\ ChildStands(op.pc, run[op.child], outcome[op.child], op.child \in faulted)
      BY <2>1 DEF BridgeInv, Active, Busy, At
    <3> QED BY <3>1 DEF Holding, ChildStands
  <2> QED BY <1>4, <1>8, <2>1 DEF BridgeInv
<1> QED BY <1>2, <1>7, <1>8, <1>9 DEF BridgeInv, Busy, At

-----------------------------------------------------------------------------
(* The steps that write the parent or the child. *)

LEMMA ParentMoves ==
  ASSUME BridgeInv, BridgeTypeOK', UNCHANGED <<op, worker, outcome, faulted>>,
         stopper'.pc = "child" => stopper' = stopper,
         \A r \in Runs \ {Parent} : run'[r] = run[r],
         run'[Parent] \in ParentStatuses,
         \A o \in Operations : effect'[o].status # "none" => effect'[o].run = Parent
  PROVE  BridgeInv'
<1>1. \A c \in Children : run'[c] = run[c]
  BY BridgeAssumption
<1>2. Busy => ChildStands(op.pc, run'[op.child], outcome[op.child], op.child \in faulted)
  BY <1>1 DEF BridgeInv, Busy
<1>3. stopper'.pc = "child" => /\ stopper'.child \in Children
                              /\ run'[stopper'.child] \notin {"absent", "created"}
  BY <1>1 DEF BridgeInv
<1> QED BY <1>1, <1>2, <1>3 DEF BridgeInv, Busy, At

LEMMA ParentSteps ==
  ASSUME BridgeInv,
         ParentWorks \/ StopParent \/ \E c \in Children : PrepareRecovery(c)
  PROVE  BridgeInv'
<1> USE BridgeAssumption
<1>1. BridgeTypeOK /\ TypeOK /\ run[Parent] \in ParentStatuses
      /\ \A o \in Operations : effect[o].status # "none" => effect[o].run = Parent
  BY DEF BridgeInv, BridgeTypeOK
<1>2. CASE ParentWorks
  <2>1. UNCHANGED bridgeVars
    BY <1>2 DEF ParentWorks
  <2>2. BridgeTypeOK'
    BY <1>1, <1>2, <2>1, ParentWorkStaysHome DEF BridgeTypeOK, bridgeVars
  <2> QED BY <1>2, <2>1, <2>2, ParentWorkStaysHome, ParentMoves DEF bridgeVars
<1>3. ASSUME NEW c \in Children, PrepareRecovery(c) PROVE BridgeInv'
  <2>1. StartRun(Parent) /\ UNCHANGED bridgeVars
    BY <1>3 DEF PrepareRecovery
  <2>2. Next
    BY <2>1 DEF Next, RunStep
  <2>3. TypeOK'
    BY <1>1, <2>2, TypePreserved
  <2>4. BridgeTypeOK'
    BY <1>1, <2>1, <2>3 DEF BridgeTypeOK, bridgeVars
  <2>5. run' = [run EXCEPT ![Parent] = "running"] /\ effect' = effect
    BY <2>1 DEF StartRun, SetRunStatus
  <2> QED BY <1>1, <2>1, <2>4, <2>5, ParentMoves DEF bridgeVars, ParentStatuses, TypeOK
<1>4. CASE StopParent
  <2>1. /\ stopper.pc = "parent" /\ (TrySafeStop(Parent) \/ UNCHANGED vars)
        /\ \E step \in {"idle", "signal"} : stopper' = [stopper EXCEPT !.pc = step]
        /\ UNCHANGED <<op, code, worker, escaped, clean, receipt, monitor, outcome, faulted>>
    BY <1>4 DEF StopParent, StopOne
  <2>2. /\ TypeOK' /\ effect' = effect
        /\ \/ run' = [run EXCEPT ![Parent] = IF Movable(Parent, "safe_stopped") THEN "safe_stopped" ELSE run[Parent]]
           \/ run' = run
    BY <1>1, <2>1, StopAttempt DEF vars, TypeOK
  <2>3. /\ stopper' \in [pc : {"idle", "child", "parent", "signal"},
                         child : Children \union {NoRun}, code : StopCodes]
        /\ stopper'.pc # "child"
    BY <1>1, <2>1 DEF BridgeTypeOK
  <2>4. BridgeTypeOK'
    BY <1>1, <2>1, <2>2, <2>3 DEF BridgeTypeOK
  <2>5. run'[Parent] \in ParentStatuses /\ \A r \in Runs \ {Parent} : run'[r] = run[r]
    BY <1>1, <2>2 DEF TypeOK, ParentStatuses
  <2> QED BY <1>1, <2>1, <2>2, <2>3, <2>4, <2>5, ParentMoves
<1> QED BY <1>2, <1>3, <1>4

(* A stop that reaches the child leaves it where its operation can end it, *)
(* and where it ended.                                                     *)
LEMMA ChildIsStopped == ASSUME BridgeInv, StopChild PROVE BridgeInv'
<1> USE BridgeAssumption
<1>1. BridgeTypeOK /\ TypeOK
  BY DEF BridgeInv, BridgeTypeOK
<1>2. /\ stopper.pc = "child" /\ (TrySafeStop(stopper.child) \/ UNCHANGED vars)
      /\ UNCHANGED <<op, code, worker, escaped, clean, receipt, monitor, outcome, faulted>>
      /\ \E step \in {"idle", "parent"} : stopper' = [stopper EXCEPT !.pc = step]
  BY DEF StopChild, StopOne
<1>3. /\ stopper' \in [pc : {"idle", "child", "parent", "signal"},
                       child : Children \union {NoRun}, code : StopCodes]
      /\ stopper'.pc # "child"
  BY <1>1, <1>2 DEF BridgeTypeOK
<1>4. PICK c \in Children : c = stopper.child /\ run[c] \notin {"absent", "created"}
  BY <1>2 DEF BridgeInv
<1>5. /\ TypeOK' /\ effect' = effect
      /\ \/ run' = [run EXCEPT ![c] = IF Movable(c, "safe_stopped") THEN "safe_stopped" ELSE run[c]]
         \/ run' = run
  BY <1>1, <1>2, <1>4, StopAttempt DEF vars, TypeOK
<1>6. BridgeTypeOK'
  BY <1>1, <1>2, <1>3, <1>5 DEF BridgeTypeOK
<1>7. /\ \A r \in Runs \ {c} : run'[r] = run[r]
      /\ run'[c] = run[c] \/ run'[c] = "safe_stopped"
      /\ run[c] \in Terminal => run'[c] = run[c]
      /\ run[c] \notin Terminal => run[c] # "completed"
  BY <1>1, <1>4, <1>5 DEF TypeOK, Movable, Transitions, Terminal
<1>8. c # Parent /\ c \in Runs
  BY <1>4
<1>9. ASSUME Busy
      PROVE  ChildStands(op.pc, run'[op.child], outcome[op.child], op.child \in faulted)
  <2>1. op.child \in Children /\ ChildStands(op.pc, run[op.child], outcome[op.child], op.child \in faulted)
    BY <1>9 DEF BridgeInv, Busy
  <2>2. CASE op.child # c
    BY <1>7, <2>1, <2>2
  <2>3. CASE op.child = c
    BY <1>4, <1>7, <2>1, <2>3 DEF ChildStands, ChildRests, Terminal, Underway
  <2> QED BY <2>2, <2>3
<1>10. ASSUME NEW d \in Children, ~(Busy /\ op.child = d)
       PROVE  ChildRests(run'[d], outcome[d], d \in faulted)
  <2>1. ChildRests(run[d], outcome[d], d \in faulted)
    BY <1>10 DEF BridgeInv
  <2> QED BY <1>4, <1>7, <2>1 DEF ChildRests, Terminal
<1>11. (Busy' <=> Busy) /\ (At("idle")' <=> At("idle"))
  BY <1>2 DEF Busy, At
<1> QED BY <1>2, <1>3, <1>5, <1>6, <1>7, <1>8, <1>9, <1>10, <1>11 DEF BridgeInv

LEMMA OperationSteps ==
  ASSUME BridgeInv, BridgeTypeOK', NEW c \in Children, stopper' = stopper, effect' = effect,
         (op.pc # "idle" /\ op.child = c) \/ UNCHANGED <<run, outcome>>,
         (op.pc # "idle" /\ op.child = c) \/ ~Busy,
         op'.child = c \/ op'.pc = "idle",
         \A d \in Children \ {c} : run'[d] = run[d] /\ outcome'[d] = outcome[d],
         faulted \subseteq faulted',
         run'[Parent] \in ParentStatuses,
         worker' # "none" => op'.pc \in Holding,
         Busy' => ChildStands(op'.pc, run'[c], outcome'[c], c \in faulted'),
         ~Busy' => ChildRests(run'[c], outcome'[c], c \in faulted'),
         run[c] \notin {"absent", "created"} => run'[c] \notin {"absent", "created"}
  PROVE  BridgeInv'
<1>1. Busy' => op'.pc # "idle"
  BY DEF Busy, At
<1>2. \A d \in Children \ {c} : ChildRests(run[d], outcome[d], d \in faulted)
  BY DEF BridgeInv
<1>3. \A d \in Children \ {c} : ChildRests(run'[d], outcome'[d], d \in faulted')
  BY <1>2 DEF ChildRests
<1>4. \A d \in Children : ~(Busy' /\ op'.child = d) => ChildRests(run'[d], outcome'[d], d \in faulted')
  BY <1>1, <1>3
<1>5. Busy' => ChildStands(op'.pc, run'[op'.child], outcome'[op'.child], op'.child \in faulted')
  BY <1>1
<1>6. stopper'.pc = "child" => /\ stopper'.child \in Children
                              /\ run'[stopper'.child] \notin {"absent", "created"}
  <2>1. stopper.pc = "child" => /\ stopper.child \in Children
                               /\ run[stopper.child] \notin {"absent", "created"}
    BY DEF BridgeInv
  <2> QED BY <2>1
<1>7. op'.pc # "idle" => op'.child \in Children
  OBVIOUS
<1> QED BY <1>4, <1>5, <1>6, <1>7 DEF BridgeInv, At

(* A fresh child: its name is unused, so no thread still stops it. *)
LEMMA OperationBegins ==
  ASSUME BridgeInv,
         CreateChild \/ ChildStartFailed \/ StartChild
         \/ \E kind \in Kinds, c \in Children : CheckParent(kind, c)
  PROVE  BridgeInv'
<1> USE BridgeAssumption
<1>1. /\ BridgeTypeOK /\ TypeOK /\ run[Parent] \in ParentStatuses
      /\ \A c \in Children : ~(Busy /\ op.child = c) => ChildRests(run[c], outcome[c], c \in faulted)
      /\ (worker # "none" => op.pc \in Holding)
  BY DEF BridgeInv, BridgeTypeOK
<1>2. \A c \in Children : c \in Runs /\ c # Parent
  OBVIOUS
<1>3. ASSUME NEW kind \in Kinds, NEW c \in Children, CheckParent(kind, c) PROVE BridgeInv'
  <2>1. /\ op' = [pc |-> "admitted", kind |-> kind, child |-> c, error |-> "none"]
        /\ op.pc = "idle"
        /\ UNCHANGED <<vars, code, worker, escaped, clean, receipt, monitor, stopper, outcome, faulted>>
    BY <1>3 DEF CheckParent, At
  <2>2. "admitted" \in Steps /\ "none" \in Errors
    BY DEF Steps, Errors
  <2>3. op' \in [pc : Steps, kind : Kinds, child : Children \union {NoRun}, error : Errors]
    BY <2>1, <2>2
  <2>4. BridgeTypeOK'
    BY <1>1, <2>1, <2>3 DEF BridgeTypeOK, TypeOK, vars
  <2>5. ~Busy /\ ~Busy' /\ op.pc \notin Holding
    BY <2>1 DEF Busy, At, Holding
  <2>6. ChildRests(run'[c], outcome'[c], c \in faulted')
    BY <1>1, <2>1, <2>5 DEF vars
  <2> QED BY <1>1, <2>1, <2>4, <2>5, <2>6, OperationSteps DEF vars
<1>4. CASE CreateChild
  <2>1. PICK c \in Children : c = op.child
    BY <1>4 DEF BridgeInv, CreateChild, At
  <2>2. op.pc = "admitted" /\ ~Busy /\ op.pc \notin Holding /\ worker = "none"
    BY <1>1, <1>4 DEF CreateChild, Busy, At, Holding
  <2>3. ChildRests(run[c], outcome[c], c \in faulted)
    BY <1>1, <2>2
  <2>4. /\ UNCHANGED <<worker, escaped, monitor, stopper, outcome, faulted>>
        /\ code' = "none" /\ clean' = "unset" /\ receipt' = "none" /\ code' \in Errors
    BY <1>4 DEF CreateChild, Errors
  <2>5. "created" \in Steps /\ "collided" \in Steps
    BY DEF Steps
  <2>6. CASE run[c] = "absent" /\ CreateRun(c, Parent) /\ Goto("created")
    <3>2. /\ op' \in [pc : Steps, kind : Kinds, child : Children \union {NoRun}, error : Errors]
          /\ op'.pc = "created" /\ op'.child = c
      BY <1>1, <2>1, <2>5, <2>6, TypeOfGoto
    <3>3. run' = [run EXCEPT ![c] = "created"] /\ effect' = effect
      BY <2>6 DEF CreateRun
    <3>4. TypeOK'
      BY <1>1, <1>2, <2>6 DEF CreateRun, TypeOK, RUN_STATES, Live
    <3>5. BridgeTypeOK'
      BY <1>1, <2>4, <3>2, <3>4 DEF BridgeTypeOK
    <3>6. run'[c] = "created" /\ \A r \in Runs \ {c} : run'[r] = run[r]
      BY <1>1, <1>2, <3>3 DEF TypeOK
    <3>7. Busy' /\ ChildStands(op'.pc, run'[c], outcome'[c], c \in faulted')
      BY <2>3, <2>4, <2>6, <3>2, <3>6 DEF Busy, At, ChildStands, ChildRests, Underway
    <3> QED BY <1>1, <1>2, <2>1, <2>2, <2>4, <2>6, <3>2, <3>3, <3>5, <3>6, <3>7, OperationSteps
  <2>7. CASE UNCHANGED vars /\ Goto("collided")
    <3>2. /\ op' \in [pc : Steps, kind : Kinds, child : Children \union {NoRun}, error : Errors]
          /\ op'.pc = "collided" /\ op'.child = c
      BY <1>1, <2>1, <2>5, <2>7, TypeOfGoto
    <3>3. BridgeTypeOK'
      BY <1>1, <2>4, <2>7, <3>2 DEF BridgeTypeOK, TypeOK, vars
    <3>4. Busy' /\ ChildStands(op'.pc, run'[c], outcome'[c], c \in faulted')
      BY <2>3, <2>4, <2>7, <3>2 DEF Busy, At, vars, ChildStands, Underway
    <3> QED BY <1>1, <2>1, <2>2, <2>4, <2>7, <3>2, <3>3, <3>4, OperationSteps DEF vars
  <2> QED BY <1>4, <2>1, <2>6, <2>7 DEF CreateChild
<1>5. CASE ChildStartFailed
  <2>1. PICK c \in Children : c = op.child
    BY <1>5 DEF BridgeInv, ChildStartFailed, At
  <2>2. op.pc = "collided" /\ Busy /\ op.pc \notin Holding /\ worker = "none"
    <3>1. op.pc = "collided"
      BY <1>5 DEF ChildStartFailed, At
    <3>2. Busy /\ op.pc \notin Holding
      BY <3>1 DEF Busy, At, Holding
    <3> QED BY <1>1, <3>1, <3>2
  <2>3. ChildRests(run[c], outcome[c], c \in faulted) \/ (run[c] = "created" /\ outcome[c] # "success")
    BY <2>1, <2>2 DEF BridgeInv, ChildStands
  <2>4. /\ UNCHANGED <<code, worker, escaped, clean, receipt, monitor, stopper, outcome>>
        /\ Swallowed(TrySafeStop(c), c) /\ op' = Idle
    BY <1>5, <2>1 DEF ChildStartFailed
  <2>5. /\ TypeOK' /\ effect' = effect
        /\ faulted \subseteq faulted' /\ faulted' \subseteq Children \union {Parent}
        /\ \/ run' = [run EXCEPT ![c] = IF Movable(c, "safe_stopped") THEN "safe_stopped" ELSE run[c]]
           \/ run' = run /\ c \in faulted'
    <3>1. CASE TrySafeStop(c) /\ UNCHANGED faulted
      BY <1>1, <1>2, <3>1, StopAttempt DEF BridgeTypeOK
    <3>2. CASE UNCHANGED vars /\ Fault(c)
      BY <1>1, <1>2, <3>2, FaultGrows DEF vars, TypeOK
    <3> QED BY <2>4, <3>1, <3>2 DEF Swallowed
  <2>6. BridgeTypeOK' /\ op'.pc = "idle" /\ ~Busy'
    BY <1>1, <2>4, <2>5, TypeOfIdle DEF BridgeTypeOK, Idle, Busy, At
  <2>7. /\ \A r \in Runs \ {c} : run'[r] = run[r]
        /\ run'[c] \in {run[c], "safe_stopped"}
    BY <1>1, <1>2, <2>5 DEF TypeOK
  <2>8. ChildRests(run'[c], outcome'[c], c \in faulted')
    <3>1. CASE run' = run /\ c \in faulted'
      BY <2>3, <2>4, <3>1 DEF ChildRests
    <3>2. CASE run'[c] = IF Movable(c, "safe_stopped") THEN "safe_stopped" ELSE run[c]
      <4>1. run[c] = "created" => run'[c] = "safe_stopped"
        BY <3>2 DEF Movable, Transitions
      <4>2. run[c] \in Terminal => run'[c] = run[c]
        BY <3>2 DEF Movable, Transitions, Terminal
      <4> QED BY <2>3, <2>4, <2>5, <2>7, <4>1, <4>2 DEF ChildRests, Terminal
    <3> QED BY <1>1, <1>2, <2>5, <3>1, <3>2 DEF TypeOK
  <2> QED BY <1>1, <1>2, <2>1, <2>2, <2>4, <2>5, <2>6, <2>7, <2>8, OperationSteps
<1>6. CASE StartChild
  <2>1. PICK c \in Children : c = op.child
    BY <1>6 DEF BridgeInv, StartChild, At
  <2>2. op.pc = "created" /\ op.pc \notin Holding /\ worker = "none" /\ Busy
    <3>1. op.pc = "created"
      BY <1>6 DEF StartChild, At
    <3>2. Busy /\ op.pc \notin Holding
      BY <3>1 DEF Busy, At, Holding
    <3> QED BY <1>1, <3>1, <3>2
  <2>3. run[c] = "created" /\ outcome[c] # "success"
    BY <2>1, <2>2 DEF BridgeInv, ChildStands
  <2>4. UNCHANGED <<code, worker, escaped, clean, receipt, monitor, stopper, outcome, faulted>>
    BY <1>6 DEF StartChild
  <2>5. "started" \in Steps /\ "collided" \in Steps
    BY DEF Steps
  <2>6. CASE StartRun(c) /\ Goto("started")
    <3>1. Next
      BY <1>2, <2>6 DEF Next, RunStep
    <3>2. TypeOK'
      BY <1>1, <3>1, TypePreserved
    <3>3. /\ op' \in [pc : Steps, kind : Kinds, child : Children \union {NoRun}, error : Errors]
          /\ op'.pc = "started" /\ op'.child = c
      BY <1>1, <2>1, <2>5, <2>6, TypeOfGoto
    <3>4. BridgeTypeOK'
      BY <1>1, <2>4, <3>2, <3>3 DEF BridgeTypeOK
    <3>5. run'[c] = "running" /\ effect' = effect /\ \A r \in Runs \ {c} : run'[r] = run[r]
      BY <1>1, <1>2, <2>6 DEF StartRun, SetRunStatus, TypeOK
    <3>6. Busy' /\ ChildStands(op'.pc, run'[c], outcome'[c], c \in faulted')
      BY <2>3, <2>4, <3>3, <3>5 DEF Busy, At, ChildStands, Underway
    <3> QED BY <1>1, <1>2, <2>1, <2>2, <2>4, <3>3, <3>4, <3>5, <3>6, OperationSteps
  <2>7. CASE UNCHANGED vars /\ Goto("collided")
    <3>1. /\ op' \in [pc : Steps, kind : Kinds, child : Children \union {NoRun}, error : Errors]
          /\ op'.pc = "collided" /\ op'.child = c
      BY <1>1, <2>1, <2>5, <2>7, TypeOfGoto
    <3>2. BridgeTypeOK'
      BY <1>1, <2>4, <2>7, <3>1 DEF BridgeTypeOK, TypeOK, vars
    <3>3. Busy' /\ ChildStands(op'.pc, run'[c], outcome'[c], c \in faulted')
      BY <2>3, <2>4, <2>7, <3>1 DEF Busy, At, vars, ChildStands, Underway
    <3> QED BY <1>1, <1>2, <2>1, <2>2, <2>4, <2>7, <3>1, <3>2, <3>3, OperationSteps DEF vars
  <2> QED BY <1>6, <2>1, <2>6, <2>7 DEF StartChild
<1> QED BY <1>3, <1>4, <1>5, <1>6

(* The thread leaves by an exception: at the snapshot, in the stop of the  *)
(* failing path, or when it releases the bridge.                           *)
LEMMA OperationRaises ==
  ASSUME BridgeInv, NEW step \in {"closing", "wedged"}, Raise(step),
         op.pc \in {"started", "failing", "closing"},
         UNCHANGED <<vars, escaped, stopper>>,
         code' \in Errors, worker' = "none" \/ worker' = worker,
         op.pc = "closing" => worker' = "none",
         op.pc = "failing" => worker' = "none",
         clean' \in {"unset", "clean", "dirty"}, receipt' \in {"none", "clean", "dirty"},
         monitor' \in {"off", monitor}
  PROVE  BridgeInv'
<1> USE BridgeAssumption
<1>1. BridgeTypeOK /\ TypeOK /\ run[Parent] \in ParentStatuses
      /\ (worker # "none" => op.pc \in Holding)
  BY DEF BridgeInv, BridgeTypeOK
<1>2. step \in Steps /\ "started" \notin Holding
  BY DEF Steps, Holding
<1>3. PICK c \in Children : c = op.child /\ ChildStands(op.pc, run[c], outcome[c], c \in faulted)
                            /\ op.pc # "idle" /\ Busy
  BY DEF BridgeInv, Busy, At
<1>4. /\ op' \in [pc : Steps, kind : Kinds, child : Children \union {NoRun}, error : Errors]
      /\ op'.pc = step /\ op'.child = c
      /\ outcome' \in [Children -> {"none", "success", "error", "fail_stop", "raised"}]
      /\ outcome'[c] = "raised"
      /\ \A d \in Children \ {c} : outcome'[d] = outcome[d]
      /\ faulted' \subseteq Children \union {Parent}
      /\ c \in faulted' /\ faulted \subseteq faulted'
  BY <1>1, <1>2, <1>3, TypeOfRaise
<1>5. worker' = "none"
  BY <1>1, <1>2
<1>6. BridgeTypeOK'
  BY <1>1, <1>4, <1>5 DEF BridgeTypeOK, TypeOK, vars
<1>7. run'[c] \notin {"absent", "created"}
  BY <1>3 DEF ChildStands, vars
<1>8. Busy' /\ ChildStands(op'.pc, run'[c], outcome'[c], c \in faulted')
  BY <1>4, <1>7 DEF Busy, At, ChildStands, ChildRests, Underway
<1> QED BY <1>1, <1>3, <1>4, <1>5, <1>6, <1>7, <1>8, OperationSteps DEF vars

LEMMA OperationMayRaise ==
  ASSUME BridgeInv, SnapshotRaises \/ StopFailedWorker \/ CloseRaises
  PROVE  BridgeInv'
<1>1. BridgeTypeOK
  BY DEF BridgeInv
<1>2. CASE SnapshotRaises
  BY <1>1, <1>2, OperationRaises DEF SnapshotRaises, At, BridgeTypeOK
<1>3. CASE CloseRaises
  BY <1>1, <1>3, OperationRaises DEF CloseRaises, At, BridgeTypeOK
<1>4. CASE StopFailedWorker
  <2>1. /\ op.pc = "failing" /\ code' \in Errors
        /\ UNCHANGED <<vars, escaped, monitor, stopper>>
    BY <1>1, <1>4 DEF StopFailedWorker, At, BridgeTypeOK
  <2>2. CASE StopProcess /\ Goto("stopped") /\ UNCHANGED <<outcome, faulted>>
    <3>1. "stopped" \in Steps /\ "stopped" \in Underway /\ "failing" \in Underway
      BY DEF Steps, Underway
    <3>2. /\ op' \in [pc : Steps, kind : Kinds, child : Children \union {NoRun}, error : Errors]
          /\ op'.pc = "stopped" /\ op'.child = op.child
      BY <1>1, <2>2, <3>1, TypeOfGoto
    <3>3. /\ clean' \in {"unset", "clean", "dirty"} /\ receipt' \in {"none", "clean", "dirty"}
          /\ worker' = "none"
      BY <1>1, <2>2, TypeOfStop
    <3>4. BridgeTypeOK'
      BY <1>1, <2>1, <2>2, <3>2, <3>3 DEF BridgeTypeOK, TypeOK, vars
    <3> QED BY <2>1, <2>2, <3>1, <3>2, <3>3, <3>4, OperationMoves
  <2>3. CASE StopProcess /\ Raise("closing")
    BY <1>1, <2>1, <2>3, TypeOfStop, OperationRaises
  <2>4. CASE worker' = "none" /\ Raise("closing") /\ UNCHANGED <<clean, receipt>>
    BY <1>1, <2>1, <2>4, OperationRaises DEF BridgeTypeOK
  <2> QED BY <1>4, <2>2, <2>3, <2>4 DEF StopFailedWorker
<1> QED BY <1>2, <1>3, <1>4

(* The child ends in the step that writes its end, the caller is told in   *)
(* the next, and the parent is stopped before a failure is reported.       *)
LEMMA OperationEndsChild ==
  ASSUME BridgeInv,
         CompleteChild \/ TellParent \/ RecordChildFailure \/ RecordParentFailure \/ Close
  PROVE  BridgeInv'
<1> USE BridgeAssumption
<1>1. BridgeTypeOK /\ TypeOK /\ run[Parent] \in ParentStatuses
      /\ (worker # "none" => op.pc \in Holding)
  BY DEF BridgeInv, BridgeTypeOK
<1>2. \A c \in Children : c \in Runs /\ c # Parent
  OBVIOUS
<1>3. op.pc \in {"validated", "completed", "stopped", "accounting", "closing"}
  BY DEF CompleteChild, TellParent, RecordChildFailure, RecordParentFailure, Close, At
<1>4. PICK c \in Children : c = op.child /\ ChildStands(op.pc, run[c], outcome[c], c \in faulted)
                            /\ op.pc # "idle" /\ Busy
  BY <1>3 DEF BridgeInv, Busy, At
<1>5. \A x \in {"success", "error", "fail_stop"} :
        LET told == [outcome EXCEPT ![c] = x]
        IN  /\ told \in [Children -> {"none", "success", "error", "fail_stop", "raised"}]
            /\ told[c] = x /\ \A d \in Children \ {c} : told[d] = outcome[d]
  BY <1>1 DEF BridgeTypeOK
<1>6. CASE CompleteChild
  <2>1. /\ UNCHANGED <<code, worker, escaped, clean, receipt, monitor, stopper, outcome, faulted>>
        /\ op.pc = "validated"
    BY <1>6 DEF CompleteChild, At
  <2>2. outcome[c] # "success"
    BY <1>4, <2>1 DEF ChildStands, Underway
  <2>3. ASSUME NEW v \in Values, CompleteRun(c, v), Goto("completed") PROVE BridgeInv'
    <3>3. Next
      BY <1>2, <2>3 DEF Next, RunStep
    <3>4. TypeOK'
      BY <1>1, <3>3, TypePreserved
    <3>5. "completed" \in Steps /\ "completed" \in Holding
      BY DEF Steps, Holding
    <3>6. /\ op' \in [pc : Steps, kind : Kinds, child : Children \union {NoRun}, error : Errors]
          /\ op'.pc = "completed" /\ op'.child = c
      BY <1>1, <1>4, <2>3, <3>5, TypeOfGoto
    <3>7. BridgeTypeOK'
      BY <1>1, <2>1, <3>4, <3>6 DEF BridgeTypeOK
    <3>8. run'[c] = "completed" /\ effect' = effect /\ \A r \in Runs \ {c} : run'[r] = run[r]
      BY <1>1, <1>2, <2>3 DEF CompleteRun, SetRunStatus, TypeOK
    <3>9. Busy' /\ ChildStands(op'.pc, run'[c], outcome'[c], c \in faulted')
      BY <2>1, <2>2, <3>6, <3>8 DEF Busy, At, ChildStands, Underway
    <3> QED BY <1>1, <1>2, <1>4, <2>1, <3>5, <3>6, <3>7, <3>8, <3>9, OperationSteps
  <2>4. CASE UNCHANGED vars /\ Fail("worker_bridge_failure")
    <3>2. "worker_bridge_failure" \in Errors
      BY DEF Errors
    <3>3. /\ op' \in [pc : Steps, kind : Kinds, child : Children \union {NoRun}, error : Errors]
          /\ op'.pc = "failing" /\ op'.child = op.child
      BY <1>1, <2>4, <3>2, TypeOfFail
    <3>4. BridgeTypeOK'
      BY <1>1, <2>1, <2>4, <3>3 DEF BridgeTypeOK, TypeOK, vars
    <3> QED BY <2>1, <2>4, <3>3, <3>4, OperationMoves DEF Underway, Holding
  <2> QED BY <1>4, <1>6, <2>3, <2>4 DEF CompleteChild
<1>7. CASE TellParent
  <2>1. /\ UNCHANGED <<vars, code, worker, escaped, clean, receipt, monitor, stopper>>
        /\ op.pc = "completed"
    BY <1>7 DEF TellParent, At
  <2>2. run[c] = "completed"
    BY <1>4, <2>1 DEF ChildStands
  <2>3. /\ "closing" \in Steps /\ "closing" \in Holding /\ "failing" \in Holding
        /\ "worker_bridge_failure" \in Errors
    BY DEF Steps, Holding, Errors
  <2>4. CASE outcome' = [outcome EXCEPT ![c] = "success"] /\ Goto("closing") /\ UNCHANGED faulted
    <3>1. /\ op' \in [pc : Steps, kind : Kinds, child : Children \union {NoRun}, error : Errors]
          /\ op'.pc = "closing" /\ op'.child = c
      BY <1>1, <1>4, <2>3, <2>4, TypeOfGoto
    <3>2. BridgeTypeOK'
      BY <1>1, <1>5, <2>1, <2>4, <3>1 DEF BridgeTypeOK, TypeOK, vars
    <3>3. Busy' /\ ChildStands(op'.pc, run'[c], outcome'[c], c \in faulted')
      BY <1>5, <2>1, <2>2, <2>4, <3>1 DEF Busy, At, ChildStands, ChildRests, Underway, Terminal, vars
    <3> QED BY <1>1, <1>2, <1>4, <1>5, <2>1, <2>3, <2>4, <3>1, <3>2, <3>3, OperationSteps DEF vars
  <2>5. CASE Fail("worker_bridge_failure") /\ Fault(c) /\ UNCHANGED outcome
    <3>1. /\ op' \in [pc : Steps, kind : Kinds, child : Children \union {NoRun}, error : Errors]
          /\ op'.pc = "failing" /\ op'.child = c
      BY <1>1, <1>4, <2>3, <2>5, TypeOfFail
    <3>2. faulted' \subseteq Children \union {Parent} /\ c \in faulted' /\ faulted \subseteq faulted'
      BY <1>1, <2>5, FaultGrows
    <3>3. BridgeTypeOK'
      BY <1>1, <2>1, <2>5, <3>1, <3>2 DEF BridgeTypeOK, TypeOK, vars
    <3>4. outcome[c] # "success"
      BY <1>4, <2>1 DEF ChildStands
    <3>5. Busy' /\ ChildStands(op'.pc, run'[c], outcome'[c], c \in faulted')
      BY <2>1, <2>2, <2>5, <3>1, <3>2, <3>4 DEF Busy, At, ChildStands, Underway, vars
    <3> QED BY <1>1, <1>2, <1>4, <2>1, <2>3, <2>5, <3>1, <3>2, <3>3, <3>5, OperationSteps DEF vars
  <2> QED BY <1>4, <1>7, <2>4, <2>5 DEF TellParent
<1>8. CASE RecordChildFailure
  <2>1. /\ UNCHANGED <<code, worker, escaped, clean, receipt, monitor, stopper, outcome>>
        /\ op.pc = "stopped" /\ Goto("accounting")
        /\ \/ (TrySafeStop(c) \/ TryFail(c)) /\ UNCHANGED faulted
           \/ UNCHANGED vars /\ Fault(c)
    BY <1>4, <1>8 DEF RecordChildFailure, At, Swallowed
  <2>2. /\ run[c] \in {"running", "safe_stopped"} \/ c \in faulted
        /\ outcome[c] # "success" /\ run[c] \notin {"absent", "created"}
    BY <1>4, <2>1 DEF ChildStands, Underway
  <2>3. "accounting" \in Steps /\ worker = "none"
    BY <1>1, <2>1 DEF Steps, Holding
  <2>4. /\ op' \in [pc : Steps, kind : Kinds, child : Children \union {NoRun}, error : Errors]
        /\ op'.pc = "accounting" /\ op'.child = c
    BY <1>1, <1>4, <2>1, <2>3, TypeOfGoto
  <2>5. /\ TypeOK' /\ effect' = effect
        /\ run'[c] \in {"failed", "safe_stopped"} \/ (run'[c] = run[c] /\ c \in faulted')
        /\ \A r \in Runs \ {c} : run'[r] = run[r]
        /\ faulted \subseteq faulted' /\ faulted' \subseteq Children \union {Parent}
    <3>1. CASE TrySafeStop(c) /\ UNCHANGED faulted
      <4>1. run[c] \in {"running", "safe_stopped"} => Movable(c, "safe_stopped")
        BY DEF Movable, Transitions
      <4>2. /\ TypeOK' /\ effect' = effect
            /\ run' = [run EXCEPT ![c] = IF Movable(c, "safe_stopped") THEN "safe_stopped" ELSE run[c]]
        BY <1>1, <1>2, <3>1, StopAttempt
      <4> QED BY <1>1, <1>2, <2>2, <3>1, <4>1, <4>2 DEF TypeOK, BridgeTypeOK
    <3>2. CASE TryFail(c) /\ UNCHANGED faulted
      <4>1. run[c] = "running" => Movable(c, "failed") /\ Movable(c, "safe_stopped")
        BY DEF Movable, Transitions
      <4>2. /\ TypeOK' /\ effect' = effect
            /\ \/ run' = run /\ ~(Movable(c, "failed") /\ Movable(c, "safe_stopped"))
               \/ run' = [run EXCEPT ![c] = "failed"]
               \/ run' = [run EXCEPT ![c] = "safe_stopped"]
        BY <1>1, <1>2, <3>2, FailAttempt
      <4> QED BY <1>1, <1>2, <2>2, <3>2, <4>1, <4>2 DEF TypeOK, BridgeTypeOK
    <3>3. CASE UNCHANGED vars /\ Fault(c)
      BY <1>1, <3>3, FaultGrows DEF vars, TypeOK
    <3> QED BY <2>1, <3>1, <3>2, <3>3
  <2>6. BridgeTypeOK'
    BY <1>1, <2>1, <2>4, <2>5 DEF BridgeTypeOK
  <2>7. Busy' /\ ChildStands(op'.pc, run'[c], outcome'[c], c \in faulted')
    BY <2>1, <2>2, <2>4, <2>5 DEF Busy, At, ChildStands, Underway
  <2>8. run'[c] \notin {"absent", "created"}
    BY <2>2, <2>5
  <2> QED BY <1>1, <1>2, <1>4, <2>1, <2>3, <2>4, <2>5, <2>6, <2>7, <2>8, OperationSteps
<1>9. CASE RecordParentFailure
  <2>1. /\ UNCHANGED <<code, worker, escaped, clean, receipt, monitor, stopper>>
        /\ op.pc = "accounting" /\ Goto("closing")
    BY <1>9 DEF RecordParentFailure, At
  <2>2. PICK x \in {"error", "fail_stop"} : outcome' = [outcome EXCEPT ![c] = x]
    BY <1>4, <1>9 DEF RecordParentFailure, ParentRecordRefused, FailureOutcome
  <2>3. run[c] \in {"failed", "safe_stopped"} \/ (c \in faulted /\ run[c] \notin {"absent", "created"})
    BY <1>4, <2>1 DEF ChildStands
  <2>4. "closing" \in Steps /\ "closing" \in Holding
    BY DEF Steps, Holding
  <2>5. /\ op' \in [pc : Steps, kind : Kinds, child : Children \union {NoRun}, error : Errors]
        /\ op'.pc = "closing" /\ op'.child = c
    BY <1>1, <1>4, <2>1, <2>4, TypeOfGoto
  <2>6. \/ (TrySafeStop(Parent) \/ TryFail(Parent) \/ BeginRecovery(Parent)) /\ UNCHANGED faulted
        \/ UNCHANGED vars /\ Fault(Parent)
    BY <1>9 DEF RecordParentFailure, ParentRecordRefused, Swallowed
  <2>7. /\ TypeOK' /\ effect' = effect /\ run'[Parent] \in ParentStatuses
        /\ \A r \in Runs \ {Parent} : run'[r] = run[r]
        /\ faulted \subseteq faulted' /\ faulted' \subseteq Children \union {Parent}
    <3>1. CASE TrySafeStop(Parent) /\ UNCHANGED faulted
      BY <1>1, <3>1, StopAttempt DEF TypeOK, ParentStatuses, BridgeTypeOK
    <3>2. CASE TryFail(Parent) /\ UNCHANGED faulted
      BY <1>1, <3>2, FailAttempt DEF TypeOK, ParentStatuses, BridgeTypeOK
    <3>3. CASE BeginRecovery(Parent) /\ UNCHANGED faulted
      <4>1. Next
        BY <3>3 DEF Next, RunStep
      <4> QED BY <1>1, <3>3, <4>1, TypePreserved
              DEF BeginRecovery, SetRunStatus, TypeOK, ParentStatuses, BridgeTypeOK
    <3>4. CASE UNCHANGED vars /\ Fault(Parent)
      BY <1>1, <3>4, FaultGrows DEF vars, TypeOK
    <3> QED BY <2>6, <3>1, <3>2, <3>3, <3>4
  <2>8. BridgeTypeOK' /\ outcome'[c] # "success" /\ \A d \in Children \ {c} : outcome'[d] = outcome[d]
    BY <1>1, <1>5, <2>1, <2>2, <2>5, <2>7 DEF BridgeTypeOK
  <2>9. Busy' /\ ChildStands(op'.pc, run'[c], outcome'[c], c \in faulted')
    BY <1>2, <2>3, <2>5, <2>7, <2>8 DEF Busy, At, ChildStands, ChildRests, Underway, Terminal
  <2> QED BY <1>1, <1>2, <1>4, <2>1, <2>4, <2>5, <2>7, <2>8, <2>9, OperationSteps
<1>10. CASE Close
  <2>1. /\ UNCHANGED <<vars, code, escaped, stopper, outcome, faulted>>
        /\ op.pc = "closing" /\ op' = Idle /\ monitor' = "off" /\ StopProcess
    BY <1>10 DEF Close, At
  <2>2. /\ clean' \in {"unset", "clean", "dirty"} /\ receipt' \in {"none", "clean", "dirty"}
        /\ worker' = "none"
    BY <1>1, <2>1, TypeOfStop
  <2>3. BridgeTypeOK' /\ op'.pc = "idle" /\ ~Busy'
    BY <1>1, <2>1, <2>2, TypeOfIdle DEF BridgeTypeOK, TypeOK, vars, Idle, Busy, At
  <2>4. ChildRests(run'[c], outcome'[c], c \in faulted')
    BY <1>4, <2>1 DEF ChildStands, vars
  <2> QED BY <1>1, <1>2, <1>4, <2>1, <2>2, <2>3, <2>4, OperationSteps DEF vars
<1> QED BY <1>6, <1>7, <1>8, <1>9, <1>10

-----------------------------------------------------------------------------
(* The theorems. *)

LEMMA BridgeInvPreserved == BridgeInv /\ [BridgeNext]_allVars => BridgeInv'
<1> SUFFICES ASSUME BridgeInv, [BridgeNext]_allVars PROVE BridgeInv'
  OBVIOUS
<1>1. CASE UNCHANGED allVars
  BY <1>1 DEF allVars, vars, bridgeVars, BridgeInv, BridgeTypeOK, TypeOK, Busy, At
<1>2. CASE OperationStep
  <2>1. CASE SpawnWorker \/ ReadFails \/ ReadEnds \/ AnswerMissing \/ RaiseIfStopRequested
             \/ ValidateAnswer
    BY <2>1, OperationReads
  <2>4. CASE SnapshotRaises \/ StopFailedWorker \/ CloseRaises
    BY <2>4, OperationMayRaise
  <2>2. CASE CreateChild \/ ChildStartFailed \/ StartChild
    BY <2>2, OperationBegins
  <2>3. CASE CompleteChild \/ TellParent \/ RecordChildFailure \/ RecordParentFailure \/ Close
    BY <2>3, OperationEndsChild
  <2> QED BY <1>2, <2>1, <2>2, <2>3, <2>4 DEF OperationStep
<1>7. CASE RequestWritten \/ WriteFails
  BY <1>7, OperationReads
<1>3. CASE \E kind \in Kinds, c \in Children : CheckParent(kind, c)
  BY <1>3, OperationBegins
<1>4. CASE ParentWorks \/ StopParent \/ \E c \in Children : PrepareRecovery(c)
  BY <1>4, ParentSteps
<1>5. CASE StopChild
  BY <1>5, ChildIsStopped
<1>6. CASE SignalStop \/ HeartbeatExpires \/ SignalLost \/ WorkerExits \/ WorkerDetachesChild
           \/ OrphanExits \/ \E stopCode \in StopCodes : RequestStop(stopCode)
  BY <1>6, ProcessMoves
<1> QED BY <1>1, <1>2, <1>3, <1>4, <1>5, <1>6, <1>7 DEF BridgeNext

LEMMA BridgeInvInit == BridgeInit => BridgeInv
<1> SUFFICES ASSUME BridgeInit PROVE BridgeInv
  OBVIOUS
<1> USE BridgeAssumption
<1>1. TypeOK
  BY OwnerAssumption DEF BridgeInit, TypeOK, NoRow, Undeclared, Exposure, RUN_STATES, Live, Terminal
<1>2. op \in [pc : Steps, kind : Kinds, child : Children \union {NoRun}, error : Errors]
  <2>1. "idle" \in Steps /\ "handshake" \in Kinds /\ "none" \in Errors
    BY DEF Steps, Kinds, Errors
  <2> QED BY <2>1 DEF BridgeInit, Idle
<1>3. BridgeTypeOK
  BY <1>1, <1>2 DEF BridgeInit, BridgeTypeOK, Errors, StopCodes
<1>4. run[Parent] = "running" /\ \A c \in Children : run[c] = "absent" /\ outcome[c] = "none"
  BY DEF BridgeInit
<1>5. op.pc = "idle" /\ worker = "none" /\ stopper.pc = "idle"
  BY DEF BridgeInit, Idle
<1>6. \A o \in Operations : effect[o].status = "none"
  BY DEF BridgeInit, NoRow
<1> QED BY <1>3, <1>4, <1>5, <1>6 DEF BridgeInv, ParentStatuses, Busy, At, ChildRests

(* The inductive invariant of the bridge: it says, for every step that the *)
(* operation can have reached, how its child stands, whoever else stops it *)
(* (worker_bridge.py, handshake and read_only_coding).                     *)
THEOREM BridgeInvariant == BridgeSafety => []BridgeInv
BY BridgeInvInit, BridgeInvPreserved, PTL DEF BridgeSafety

(* Between two operations there is no worker process, and every child run  *)
(* that was ever created is terminal, on every path through timeouts,      *)
(* crashes, stops, lost heartbeats and bad answers, unless a step raised   *)
(* that nothing accounts for or the owner refused the record; a bridge     *)
(* stays taken only behind an operation that raised.                       *)
THEOREM NothingStaysBehind == BridgeSafety => []NothingLeftBehind
<1>1. BridgeInv => NothingLeftBehind
  <2> SUFFICES ASSUME BridgeInv, op.pc = "idle" \/ op.pc = "wedged"
               PROVE  /\ worker = "none"
                      /\ \A c \in Children : run[c] = "absent" \/ run[c] \in Terminal \/ c \in faulted
                      /\ op.pc = "wedged" => outcome[op.child] = "raised"
    BY DEF NothingLeftBehind, Ended, At
  <2>1. worker = "none"
    BY DEF BridgeInv, Holding
  <2>2. op.pc = "wedged" => Busy /\ op.child \in Children
    BY DEF BridgeInv, Busy, At
  <2>3. op.pc = "wedged" => /\ ChildRests(run[op.child], outcome[op.child], op.child \in faulted)
                           /\ outcome[op.child] = "raised"
    BY <2>2 DEF BridgeInv, ChildStands
  <2>4. \A c \in Children : ChildRests(run[c], outcome[c], c \in faulted)
    BY <2>3 DEF BridgeInv, Busy, At
  <2> QED BY <2>1, <2>3, <2>4 DEF ChildRests
<1> QED BY <1>1, BridgeInvariant, PTL

(* An operation returns success only when the owner has its child run      *)
(* completed, and returns anything else for a completed child only after a *)
(* step that raised, however stops interleave with the completion.         *)
THEOREM CallersAreToldTheTruth == BridgeSafety => []OutcomeMatchesRun
<1>1. BridgeInv => OutcomeMatchesRun
  <2> SUFFICES ASSUME BridgeInv, NEW c \in Children, ~(Active /\ ~Ended /\ op.child = c)
               PROVE  /\ outcome[c] = "success" => run[c] = "completed"
                      /\ run[c] = "completed" => outcome[c] = "success" \/ c \in faulted
    BY DEF OutcomeMatchesRun
  <2>1. CASE ~(Busy /\ op.child = c)
    BY <2>1 DEF BridgeInv, ChildRests
  <2>2. CASE Busy /\ op.child = c
    <3>1. op.pc \in {"collided", "wedged"}
      BY <2>2 DEF Busy, Active, Ended, At
    <3>2. ChildStands(op.pc, run[c], outcome[c], c \in faulted)
      BY <2>2 DEF BridgeInv
    <3> QED BY <3>1, <3>2 DEF ChildStands, ChildRests
  <2> QED BY <2>1, <2>2
<1> QED BY <1>1, BridgeInvariant, PTL

(* When a failed operation has been accounted for its parent is stopped,   *)
(* failed or recovering, whatever stood in the way of the first choice,    *)
(* unless the owner refused the last resort too.                           *)
THEOREM FailureReachesTheParent == BridgeSafety => FailureStopsTheParent
<1> DEFINE Step == At("accounting") /\ op'.pc = "closing" =>
                     run'[Parent] \in {"safe_stopped", "failed", "recovering"} \/ Parent \in faulted'
<1>1. BridgeInv /\ [BridgeNext]_allVars => [Step]_allVars
  <2> SUFFICES ASSUME BridgeInv, BridgeNext, op.pc = "accounting", op'.pc = "closing"
               PROVE  run'[Parent] \in {"safe_stopped", "failed", "recovering"} \/ Parent \in faulted'
    BY DEF At
  <2>1. RecordParentFailure
    <3>1. ~UNCHANGED op
      OBVIOUS
    <3>2. ~(CreateChild \/ ChildStartFailed \/ StartChild \/ SnapshotRaises \/ SpawnWorker
            \/ RequestWritten \/ WriteFails \/ ReadFails \/ ReadEnds
            \/ AnswerMissing \/ RaiseIfStopRequested \/ ValidateAnswer \/ CompleteChild \/ TellParent
            \/ StopFailedWorker \/ RecordChildFailure \/ Close \/ CloseRaises)
      BY DEF CreateChild, ChildStartFailed, StartChild, SnapshotRaises, SpawnWorker, RequestWritten,
         WriteFails, ReadFails, ReadEnds, AnswerMissing, RaiseIfStopRequested, ValidateAnswer,
         CompleteChild, TellParent, StopFailedWorker, RecordChildFailure, Close, CloseRaises, At
    <3>3. ~(\E kind \in Kinds, c \in Children : CheckParent(kind, c))
      BY DEF CheckParent, At
    <3>4. ~(\E c \in Children : PrepareRecovery(c)) /\ ~ParentWorks
      BY <3>1 DEF PrepareRecovery, ParentWorks, bridgeVars
    <3>5. ~(\E stopCode \in StopCodes : RequestStop(stopCode))
      BY <3>1 DEF RequestStop
    <3>6. ~(StopChild \/ StopParent \/ SignalStop \/ HeartbeatExpires \/ SignalLost \/ WorkerExits
            \/ WorkerDetachesChild \/ OrphanExits)
      BY <3>1 DEF StopChild, StopParent, StopOne, SignalStop, HeartbeatExpires, SignalLost,
         WorkerExits, WorkerDetachesChild, OrphanExits
    <3> QED BY <3>2, <3>3, <3>4, <3>5, <3>6 DEF BridgeNext, OperationStep
  <2>2. /\ TypeOK /\ run \in [Runs -> RUN_STATES \union {"absent"}]
        /\ run[Parent] \in ParentStatuses /\ Parent \in Runs
    BY BridgeAssumption DEF BridgeInv, BridgeTypeOK, TypeOK
  <2>3. CASE TrySafeStop(Parent)
    BY <2>2, <2>3, StopAttempt DEF ParentStatuses, Movable, Transitions
  <2>4. CASE TryFail(Parent)
    BY <2>2, <2>4, FailAttempt DEF ParentStatuses, Movable, Transitions
  <2>5. CASE BeginRecovery(Parent)
    BY <2>2, <2>5 DEF BeginRecovery, SetRunStatus
  <2>6. CASE Fault(Parent)
    BY <2>6 DEF Fault
  <2> QED BY <2>1, <2>3, <2>4, <2>5, <2>6 DEF RecordParentFailure, ParentRecordRefused, Swallowed
<1> QED BY <1>1, BridgeInvariant, PTL DEF BridgeSafety, FailureStopsTheParent

(* The bridge is a client of the owner: it creates its children below a    *)
(* parent that need not be among the links of the owner's constants.       *)
LEMMA BridgeIsAClient ==
  ASSUME BridgeInv, [BridgeNext]_allVars
  PROVE  ClientStep
<1>1. Parent \in Runs /\ Children \subseteq Runs
  BY BridgeAssumption
<1>2. ASSUME NEW r \in Runs,
             \/ CreateRun(r, Parent) \/ StartRun(r) \/ SafeStopRun(r) \/ BeginRecovery(r)
             \/ TrySafeStop(r) \/ TryFail(r) \/ \E v \in Values : CompleteRun(r, v)
      PROVE  ClientStep
  BY <1>1, <1>2 DEF ClientStep, Next, RunStep, TrySafeStop, TryFail
<1>3. UNCHANGED vars => ClientStep
  BY DEF ClientStep
<1>4. ~At("idle") => op.child \in Runs
  BY <1>1 DEF BridgeInv
<1>5. CASE OperationStep
  <2>1. CASE CreateChild
    BY <1>2, <1>3, <1>4, <2>1 DEF CreateChild, At
  <2>2. CASE ChildStartFailed
    BY <1>2, <1>3, <1>4, <2>2 DEF ChildStartFailed, At, Swallowed
  <2>3. CASE StartChild
    BY <1>2, <1>3, <1>4, <2>3 DEF StartChild, At
  <2>4. CASE CompleteChild
    BY <1>2, <1>3, <1>4, <2>4 DEF CompleteChild, At
  <2>5. CASE RecordChildFailure
    BY <1>2, <1>3, <1>4, <2>5 DEF RecordChildFailure, At, Swallowed
  <2>6. CASE RecordParentFailure
    BY <1>1, <1>2, <1>3, <2>6 DEF RecordParentFailure, ParentRecordRefused, Swallowed
  <2>7. SnapshotRaises \/ SpawnWorker \/ ReadFails \/ ReadEnds \/ AnswerMissing
        \/ RaiseIfStopRequested \/ ValidateAnswer \/ TellParent \/ StopFailedWorker
        \/ Close \/ CloseRaises => UNCHANGED vars
    BY DEF SnapshotRaises, SpawnWorker, ReadFails, ReadEnds, AnswerMissing, RaiseIfStopRequested,
       ValidateAnswer, TellParent, StopFailedWorker, Close, CloseRaises
  <2> QED BY <1>3, <1>5, <2>1, <2>2, <2>3, <2>4, <2>5, <2>6, <2>7 DEF OperationStep
<1>6. CASE ParentWorks
  BY <1>1, <1>6 DEF ParentWorks, ClientStep, Next, RunStep
<1>7. StopChild \/ StopParent => ClientStep
  <2>1. StopChild => stopper.child \in Runs /\ (TrySafeStop(stopper.child) \/ UNCHANGED vars)
    BY <1>1 DEF StopChild, StopOne, BridgeInv
  <2> QED BY <1>1, <1>2, <1>3, <2>1 DEF StopParent, StopOne
<1>8. ASSUME NEW c \in Children, PrepareRecovery(c) PROVE ClientStep
  BY <1>1, <1>2, <1>8 DEF PrepareRecovery
<1>9. (\E kind \in Kinds, c \in Children : CheckParent(kind, c))
      \/ (\E stopCode \in StopCodes : RequestStop(stopCode))
      \/ SignalStop \/ HeartbeatExpires \/ SignalLost \/ RequestWritten \/ WriteFails
      \/ WorkerExits \/ WorkerDetachesChild \/ OrphanExits \/ UNCHANGED allVars => UNCHANGED vars
  BY DEF CheckParent, RequestStop, RequestWritten, WriteFails, SignalStop, HeartbeatExpires, SignalLost, WorkerExits,
     WorkerDetachesChild, OrphanExits, allVars
<1> QED BY <1>3, <1>5, <1>6, <1>7, <1>8, <1>9 DEF BridgeNext

LEMMA BridgeStarts == BridgeInit => ClientStart
<1> SUFFICES ASSUME BridgeInit PROVE ClientStart
  OBVIOUS
<1>1. TypeOK
  BY BridgeInvInit DEF BridgeInv, BridgeTypeOK
<1>2. \A o \in Operations : effect[o] = NoRow /\ approval[o].status # "consumed"
  BY DEF BridgeInit, NoRow
<1>3. \A r \in Runs : run[r] \notin Terminal
  BY DEF BridgeInit, Terminal
<1> QED BY <1>1, <1>2, <1>3 DEF ClientStart

(* Every invariant of the owner holds under the bridge: no child of an     *)
(* operation that timed out, crashed or was cancelled is completed without *)
(* a result or below a missing parent, and no failure that the bridge      *)
(* records leaves a parent failed with an effect in doubt.                 *)
THEOREM BridgeKeepsTheOwner ==
  BridgeSafety => /\ []OwnerInv
                 /\ TerminalRunsLeaveOnlyByRestart /\ SettledEffectsAreFinal /\ DoubtStopsTheRun
<1>1. BridgeInit => OwnerInv
  BY BridgeStarts, ClientBegins
<1>2. OwnerInv /\ BridgeInv /\ [BridgeNext]_allVars => OwnerInv'
  BY BridgeIsAClient, ClientKeepsOwner
<1>3. BridgeSafety => []OwnerInv
  BY <1>1, <1>2, BridgeInvariant, PTL DEF BridgeSafety
<1>4. OwnerInv /\ BridgeInv /\ [BridgeNext]_allVars =>
        /\ [\A r \in Runs : run[r] \in Terminal /\ run'[r] # run[r] =>
              /\ run'[r] = "running"
              /\ UNCHANGED <<link, approval, effect, exposure, result, suspected>>]_vars
        /\ [\A o \in Operations : effect[o].status \in {"completed", "unknown"} =>
              effect'[o] = effect[o]]_vars
        /\ [\A o \in Operations : effect'[o].status # effect[o].status =>
              /\ effect'[o].status = "uncertain" => run'[effect'[o].run] = "recovering"
              /\ effect'[o].status = "unknown" => run'[effect'[o].run] = "safe_stopped"
              /\ effect'[o].status = "claimed" => run'[effect'[o].run] = "running"]_vars
  BY BridgeIsAClient, ClientKeepsActions
<1>5. BridgeSafety => TerminalRunsLeaveOnlyByRestart /\ SettledEffectsAreFinal /\ DoubtStopsTheRun
  BY <1>3, <1>4, BridgeInvariant, PTL
  DEF BridgeSafety, TerminalRunsLeaveOnlyByRestart, SettledEffectsAreFinal, DoubtStopsTheRun
<1> QED BY <1>3, <1>5

(* The effects that the parent claims live by the protocol while the       *)
(* bridge stops, fails and recovers the parent between their steps.        *)
THEOREM BridgeImplementsBoundedEffect == BridgeSafety => ImplementsBoundedEffect
<1>1. BridgeSafety => Bounded!Open
  BY BridgeStarts, ClientBegins DEF BridgeSafety
<1>2. OwnerInv /\ BridgeInv /\ [BridgeNext]_allVars =>
        [\E e \in Operations : Bounded!ProtocolStep(e)]_(Bounded!protocol)
  BY BridgeIsAClient, ClientKeepsProtocol
<1>3. BridgeSafety => [][\E e \in Operations : Bounded!ProtocolStep(e)]_(Bounded!protocol)
  BY <1>2, BridgeKeepsTheOwner, BridgeInvariant, PTL DEF BridgeSafety
<1> QED BY <1>1, <1>3 DEF ImplementsBoundedEffect, Bounded!Protocol
===============================================================================
