----------------------- MODULE CompositionOwnerProofs -----------------------
(***************************************************************************)
(* Proofs about the durable owner, for every set of runs, operations,      *)
(* keys, scopes, requests and exposures.                                   *)
(***************************************************************************)
EXTENDS OwnerRefinement, SequenceTheorems, TLAPS

(* The shapes of the two kinds of change to an effect row. *)
LEMMA SettledType ==
  ASSUME NEW e \in EffectRow, NEW status \in EFFECT_STATES,
         NEW outcome \in AttemptStates, NEW count \in {0, 1}
  PROVE  Settled(e, status, outcome, count) \in EffectRow
<1> DEFINE h == [e.history EXCEPT ![e.attempt] = outcome]
<1>1. e.history \in Seq(AttemptStates) /\ e.attempt \in Nat
  BY DEF EffectRow
<1>2. h \in Seq(AttemptStates)
  <2>1. CASE e.attempt \in 1 .. Len(e.history)
    BY <1>1, <2>1, ExceptSeq
  <2>2. CASE e.attempt \notin 1 .. Len(e.history)
    <3>1. h = e.history
      BY <1>1, <2>2
    <3> QED BY <3>1, <1>1
  <2> QED BY <2>1, <2>2
<1>3. Settled(e, status, outcome, count) =
        [e EXCEPT !.status = status, !.physical = count, !.history = h]
  BY DEF Settled
<1> HIDE DEF h
<1> QED BY <1>2, <1>3 DEF EffectRow

LEMMA SettleAttemptType ==
  ASSUME TypeOK, NEW o \in Operations, NEW status \in EFFECT_STATES,
         NEW outcome \in AttemptStates, NEW count \in {0, 1},
         effect[o] # NoRow, SettleAttempt(o, status, outcome, count)
  PROVE  /\ effect' \in [Operations -> EffectRow \union {NoRow}]
         /\ effect'[o] \in EffectRow
         /\ effect'[o] = Settled(effect[o], status, outcome, count)
         /\ \A p \in Operations \ {o} : effect'[p] = effect[p]
<1>1. effect[o] \in EffectRow
  BY DEF TypeOK
<1>2. Settled(effect[o], status, outcome, count) \in EffectRow
  BY <1>1, SettledType
<1> QED BY <1>2 DEF TypeOK, SettleAttempt

LEMMA NextAttemptType ==
  ASSUME NEW e \in EffectRow
  PROVE  NextAttempt(e) \in EffectRow
<1> DEFINE h == Append(e.history, "claimed")
<1>1. h \in Seq(AttemptStates)
  BY AppendProperties DEF EffectRow, AttemptStates
<1>2. e.attempt + 1 \in Nat \ {0}
  BY DEF EffectRow
<1>3. NextAttempt(e) =
        [e EXCEPT !.status = "claimed", !.attempt = e.attempt + 1, !.history = h]
  BY DEF NextAttempt
<1> HIDE DEF h
<1> QED BY <1>1, <1>2, <1>3 DEF EffectRow, EFFECT_STATES

LEMMA SetRunStatusType ==
  ASSUME TypeOK, NEW r \in Runs, NEW new \in RUN_STATES, SetRunStatus(r, new)
  PROVE  run' \in [Runs -> RUN_STATES \union {"absent"}]
BY DEF TypeOK, SetRunStatus

LEMMA RecordResultType ==
  ASSUME TypeOK, NEW r \in Runs, NEW kind \in {"semantic", "error"},
         NEW v \in Values, RecordResult(r, kind, v)
  PROVE  result' \in [Runs -> [{"semantic", "error"} -> Values \union {NoValue}]]
BY DEF TypeOK, RecordResult

LEMMA FirstAttemptType ==
  ASSUME NEW r \in Runs, NEW q \in Requests, q.class \in ALLOWED_EFFECT_CLASSES
  PROVE  FirstAttempt(r, q) \in EffectRow
<1>1. q \in Request
  BY OwnerAssumption
<1>2. <<"claimed">> \in Seq(AttemptStates)
  BY DEF AttemptStates
<1> QED BY <1>1, <1>2 DEF FirstAttempt, EffectRow, Request, EFFECT_STATES

LEMMA ClaimRetryType ==
  ASSUME TypeOK, NEW r \in Runs, NEW q \in Requests, ClaimRetry(r, q)
  PROVE  /\ q.op \in Operations
         /\ effect[q.op] \in EffectRow
         /\ effect' \in [Operations -> EffectRow \union {NoRow}]
         /\ effect'[q.op] = NextAttempt(effect[q.op])
         /\ \A p \in Operations \ {q.op} : effect'[p] = effect[p]
<1>1. q.op \in Operations
  BY OwnerAssumption DEF Request
<1>2. effect[q.op] \in EffectRow
  BY <1>1 DEF TypeOK, ClaimRetry, NoRow
<1>3. NextAttempt(effect[q.op]) \in EffectRow
  BY <1>2, NextAttemptType
<1> QED BY <1>1, <1>2, <1>3 DEF ClaimRetry, TypeOK

(* The tables keep their types. *)
LEMMA TypePreserved ==
  ASSUME TypeOK, [Next]_vars
  PROVE  TypeOK'
<1> USE DEF RUN_STATES, Live, Terminal
<1>1. ASSUME NEW r \in Runs, NEW parent \in Links, CreateRun(r, parent) PROVE TypeOK'
  BY <1>1, OwnerAssumption DEF CreateRun, TypeOK
<1>2. ASSUME NEW r \in Runs, StartRun(r) PROVE TypeOK'
  BY <1>2, SetRunStatusType DEF StartRun, TypeOK
<1>3. ASSUME NEW r \in Runs, RestartRun(r) PROVE TypeOK'
  BY <1>3 DEF RestartRun, TypeOK
<1>4. ASSUME NEW r \in Runs, NEW v \in Values, CompleteRun(r, v) PROVE TypeOK'
  BY <1>4, SetRunStatusType, RecordResultType DEF CompleteRun, TypeOK
<1>5. ASSUME NEW r \in Runs, NEW v \in Values, FailRun(r, v) PROVE TypeOK'
  BY <1>5, SetRunStatusType, RecordResultType DEF FailRun, TypeOK
<1>6. ASSUME NEW r \in Runs, FailRunBlocked(r) PROVE TypeOK'
  BY <1>6, SetRunStatusType DEF FailRunBlocked, TypeOK
<1>7. ASSUME NEW r \in Runs, SafeStopRun(r) PROVE TypeOK'
  BY <1>7, SetRunStatusType DEF SafeStopRun, TypeOK
<1>8. ASSUME NEW r \in Runs, BeginRecovery(r) PROVE TypeOK'
  BY <1>8, SetRunStatusType DEF BeginRecovery, TypeOK
<1>9. ASSUME NEW r \in Runs, NEW b \in Exposures, DeclareExposure(r, b) PROVE TypeOK'
  BY <1>9, OwnerAssumption DEF DeclareExposure, TypeOK
<1>10. ASSUME NEW r \in Runs, ScanFindsViolation(r) PROVE TypeOK'
  BY <1>10 DEF ScanFindsViolation, TypeOK
<1>11. ASSUME NEW r \in Runs, StopOnIdentityViolation(r) PROVE TypeOK'
  BY <1>11 DEF StopOnIdentityViolation, TypeOK
<1>12. ASSUME NEW r \in Runs, NEW q \in Requests, RequestApproval(r, q) PROVE TypeOK'
  <2>1. q \in Request
    BY OwnerAssumption
  <2> QED BY <2>1, <1>12 DEF RequestApproval, TypeOK, ApprovalRow, ApprovalStates, Request
<1>13. ASSUME NEW o \in Operations, ApprovalStep(o) PROVE TypeOK'
  <2>1. approval[o] \in ApprovalRow
    BY <1>13 DEF ApprovalStep, Approve, DenyApproval, DecideApproval, ApprovalExpires, TypeOK, NoRow
  <2>2. /\ UNCHANGED <<run, link, effect, exposure, result, suspected>>
        /\ \/ \E decision \in ApprovalStates :
               approval' = [approval EXCEPT ![o] = [approval[o] EXCEPT !.status = decision]]
           \/ approval' = [approval EXCEPT ![o] = [approval[o] EXCEPT !.validity = "expired"]]
    BY <1>13 DEF ApprovalStep, Approve, DenyApproval, DecideApproval, ApprovalExpires, ApprovalStates
  <2>3. \E row \in ApprovalRow : approval' = [approval EXCEPT ![o] = row]
    <3>1. \A decision \in ApprovalStates : [approval[o] EXCEPT !.status = decision] \in ApprovalRow
      BY <2>1 DEF ApprovalRow
    <3>2. [approval[o] EXCEPT !.validity = "expired"] \in ApprovalRow
      BY <2>1 DEF ApprovalRow
    <3> QED BY <2>2, <3>1, <3>2
  <2>4. approval' \in [Operations -> ApprovalRow \union {NoRow}]
    BY <2>3 DEF TypeOK
  <2> QED BY <2>2, <2>4 DEF TypeOK
<1>14. ASSUME NEW r \in Runs, ClaimStopsRun(r) PROVE TypeOK'
  BY <1>14, SetRunStatusType DEF ClaimStopsRun, TypeOK
<1>15. ASSUME NEW r \in Runs, NEW q \in Requests, ClaimRetry(r, q) PROVE TypeOK'
  <2>1. UNCHANGED <<link, approval, exposure, result, suspected>> /\ SetRunStatus(r, "running")
    BY <1>15 DEF ClaimRetry
  <2> QED BY <2>1, <1>15, ClaimRetryType, SetRunStatusType DEF TypeOK
<1>16. ASSUME NEW r \in Runs, NEW q \in Requests, NEW token \in Tokens, ClaimMustWait(r, q, token)
       PROVE  TypeOK'
  BY <1>16, SetRunStatusType DEF ClaimMustWait, TypeOK
<1>17. ASSUME NEW r \in Runs, NEW q \in Requests, ClaimUnapproved(r, q) PROVE TypeOK'
  <2>1. q.class \in ALLOWED_EFFECT_CLASSES
    BY <1>17 DEF ClaimUnapproved
  <2> QED BY <2>1, <1>17, SetRunStatusType, FirstAttemptType DEF ClaimUnapproved, TypeOK
<1>18. ASSUME NEW r \in Runs, NEW q \in Requests, NEW token \in Tokens, ClaimApproved(r, q, token)
       PROVE  TypeOK'
  <2>1. q.class \in ALLOWED_EFFECT_CLASSES
    BY <1>18 DEF ClaimApproved, Approvable, ALLOWED_EFFECT_CLASSES
  <2>2. q.op \in Operations /\ approval[q.op] # NoRow
    BY <1>18, OwnerAssumption DEF ClaimApproved, ApprovalScopeMatches, Request
  <2>3. approval' \in [Operations -> ApprovalRow \union {NoRow}]
    <3>1. [approval[q.op] EXCEPT !.status = "consumed"] \in ApprovalRow
      BY <2>2 DEF TypeOK, ApprovalRow, ApprovalStates
    <3>2. approval' = [approval EXCEPT ![q.op] = [approval[q.op] EXCEPT !.status = "consumed"]]
      BY <1>18 DEF ClaimApproved
    <3> QED BY <2>2, <3>1, <3>2 DEF TypeOK
  <2> QED BY <2>1, <2>3, <1>18, SetRunStatusType, FirstAttemptType DEF ClaimApproved, TypeOK
<1>19. ASSUME NEW o \in Operations, OutcomeStep(o) PROVE TypeOK'
  <2>1. effect[o] \in EffectRow
    BY <1>19 DEF OutcomeStep, CompleteEffect, MarkEffectUncertain, ReconcileApplied,
       ReconcileNotApplied, ReconcileUnknown, Reconcile, TypeOK, NoRow
  <2>2. effect[o] # NoRow /\ effect[o].run \in Runs /\ effect[o].physical \in {0, 1}
    BY <2>1, <1>19 DEF EffectRow, OutcomeStep, CompleteEffect, MarkEffectUncertain,
       ReconcileApplied, ReconcileNotApplied, ReconcileUnknown, Reconcile, NoRow
  <2>3. PICK status \in EFFECT_STATES, outcome \in AttemptStates, count \in {0, 1} :
          SettleAttempt(o, status, outcome, count)
    BY <2>2, <1>19 DEF OutcomeStep, CompleteEffect, MarkEffectUncertain, ReconcileApplied,
       ReconcileNotApplied, ReconcileUnknown, Reconcile, EFFECT_STATES, AttemptStates
  <2>4. effect' \in [Operations -> EffectRow \union {NoRow}]
    BY <2>2, <2>3, SettleAttemptType
  <2>5. run' \in [Runs -> RUN_STATES \union {"absent"}]
    BY <2>2, <1>19, SetRunStatusType DEF OutcomeStep, CompleteEffect, MarkEffectUncertain,
       ReconcileApplied, ReconcileNotApplied, ReconcileUnknown, Reconcile, ReconcileRun, TypeOK
  <2> QED BY <2>4, <2>5, <1>19 DEF OutcomeStep, CompleteEffect, MarkEffectUncertain,
       ReconcileApplied, ReconcileNotApplied, ReconcileUnknown, Reconcile, TypeOK
<1>20. CASE UNCHANGED vars
  BY <1>20 DEF TypeOK, vars
<1> QED
  BY <1>1, <1>2, <1>3, <1>4, <1>5, <1>6, <1>7, <1>8, <1>9, <1>10, <1>11, <1>12, <1>13,
     <1>14, <1>15, <1>16, <1>17, <1>18, <1>19, <1>20
  DEF Next, RunStep, ClaimStep, ClaimConflict, ClaimExhausted, ClaimOutOfBounds, ClaimBadApproval

LEMMA InitType == Init => TypeOK
BY OwnerAssumption DEF Init, TypeOK, Undeclared, Exposure, NoRow

-----------------------------------------------------------------------------
(* Which steps change the effects, and how. *)

Claimed(r, q) ==
  /\ run[r] \in Live
  /\ Existing(q) = {}
  /\ q.class \in ALLOWED_EFFECT_CLASSES
  /\ effect' = [effect EXCEPT ![q.op] = FirstAttempt(r, q)]
  /\ run' = [run EXCEPT ![r] = "running"]
  /\ UNCHANGED <<link, result>>
  /\ IF q.class = "approval-required"
     THEN /\ ApprovalScopeMatches(q)
          /\ approval' = [approval EXCEPT ![q.op].status = "consumed"]
     ELSE approval' = approval

LEMMA ClaimChanges ==
  ASSUME NEW r \in Runs, NEW q \in Requests, ClaimStep(r, q)
  PROVE  effect' = effect \/ Claimed(r, q) \/ ClaimRetry(r, q)
<1>1. ClaimUnapproved(r, q) => Claimed(r, q)
  BY DEF ClaimUnapproved, FirstClaim, Claimed, SetRunStatus, ALLOWED_EFFECT_CLASSES
<1>2. \A token \in Tokens : ClaimApproved(r, q, token) => Claimed(r, q)
  BY DEF ClaimApproved, Approvable, FirstClaim, Claimed, SetRunStatus, ALLOWED_EFFECT_CLASSES
<1> QED BY <1>1, <1>2 DEF ClaimStep, ClaimConflict, ClaimExhausted, ClaimOutOfBounds,
     ClaimStopsRun, ClaimMustWait, ClaimBadApproval

LEMMA EffectSteps ==
  ASSUME TypeOK, [Next]_vars
  PROVE  \/ effect' = effect
         \/ \E r \in Runs, q \in Requests : Claimed(r, q) \/ ClaimRetry(r, q)
         \/ \E o \in Operations : OutcomeStep(o)
<1>1. ASSUME NEW r \in Runs, RunStep(r) PROVE effect' = effect
  BY <1>1 DEF RunStep, CreateRun, StartRun, RestartRun, CompleteRun, FailRun, FailRunBlocked,
     SafeStopRun, BeginRecovery, DeclareExposure, ScanFindsViolation, StopOnIdentityViolation
<1>2. ASSUME NEW r \in Runs, NEW q \in Requests, RequestApproval(r, q) PROVE effect' = effect
  BY <1>2 DEF RequestApproval
<1>3. ASSUME NEW o \in Operations, ApprovalStep(o) PROVE effect' = effect
  BY <1>3 DEF ApprovalStep, Approve, DenyApproval, DecideApproval, ApprovalExpires
<1>4. ASSUME NEW r \in Runs, NEW q \in Requests, ClaimStep(r, q)
      PROVE  effect' = effect \/ Claimed(r, q) \/ ClaimRetry(r, q)
  BY <1>4, ClaimChanges
<1>5. CASE UNCHANGED vars
  BY <1>5 DEF vars
<1> QED BY <1>1, <1>2, <1>3, <1>4, <1>5 DEF Next

LEMMA ClaimedRow ==
  ASSUME NEW r \in Runs, NEW q \in Requests, TypeOK, Claimed(r, q)
  PROVE  /\ q.op \in Operations
         /\ effect[q.op] = NoRow
         /\ effect' = [effect EXCEPT ![q.op] = FirstAttempt(r, q)]
         /\ effect'[q.op] \in EffectRow
<1>1. q.op \in Operations
  BY OwnerAssumption DEF Request
<1>2. effect[q.op].status = "none"
  BY <1>1 DEF Claimed, Existing
<1>3. effect[q.op] = NoRow
  BY <1>1, <1>2 DEF TypeOK, EffectRow, EFFECT_STATES
<1> QED BY <1>1, <1>3, FirstAttemptType DEF Claimed, TypeOK

(* What an outcome does, whichever it is. *)
LEMMA OutcomeRow ==
  ASSUME TypeOK, NEW o \in Operations, OutcomeStep(o)
  PROVE  /\ effect[o] \in EffectRow
         /\ effect'[o] \in EffectRow
         /\ \A p \in Operations \ {o} : effect'[p] = effect[p]
         /\ \E status \in EFFECT_STATES, outcome \in AttemptStates, count \in {0, 1} :
              /\ effect'[o] = Settled(effect[o], status, outcome, count)
              /\ outcome \in OutcomesOf(status)
              /\ count = 1 <=> status = "completed" \/ effect[o].physical = 1
              /\ effect[o].status \in {"claimed", "uncertain", "retryable"}
              /\ status # "claimed"
<1>1. effect[o].status \in {"claimed", "uncertain", "retryable"}
  BY DEF OutcomeStep, CompleteEffect, MarkEffectUncertain, ReconcileApplied,
     ReconcileNotApplied, ReconcileUnknown, Reconcile
<1>2. effect[o] \in EffectRow /\ effect[o] # NoRow
  BY <1>1 DEF TypeOK, NoRow
<1>3. PICK status \in EFFECT_STATES, outcome \in AttemptStates, count \in {0, 1} :
        /\ SettleAttempt(o, status, outcome, count)
        /\ outcome \in OutcomesOf(status)
        /\ count = 1 <=> status = "completed" \/ effect[o].physical = 1
        /\ status # "claimed"
  <2>1. effect[o].physical \in {0, 1}
    BY <1>2 DEF EffectRow
  <2> QED BY <2>1 DEF OutcomeStep, CompleteEffect, MarkEffectUncertain, ReconcileApplied,
     ReconcileNotApplied, ReconcileUnknown, Reconcile, EFFECT_STATES, AttemptStates, OutcomesOf
<1>4. /\ effect'[o] \in EffectRow
      /\ effect'[o] = Settled(effect[o], status, outcome, count)
      /\ \A p \in Operations \ {o} : effect'[p] = effect[p]
  <2>1. SettleAttempt(o, status, outcome, count)
    BY <1>3
  <2> QED BY <1>2, <2>1, SettleAttemptType
<1> QED BY <1>1, <1>2, <1>3, <1>4

-----------------------------------------------------------------------------
(* What claims and outcomes do to the row of their operation, for whoever  *)
(* builds upon the owner.                                                  *)

LEMMA SettledFields ==
  ASSUME NEW e \in EffectRow, NEW status, NEW outcome, NEW count
  PROVE  /\ Settled(e, status, outcome, count).status = status
         /\ Settled(e, status, outcome, count).physical = count
         /\ Settled(e, status, outcome, count).attempt = e.attempt
         /\ Settled(e, status, outcome, count).limit = e.limit
BY DEF Settled, EffectRow

LEMMA RowFields ==
  ASSUME NEW e \in EffectRow
  PROVE  e # NoRow /\ e.physical \in {0, 1}
BY DEF EffectRow, NoRow

(* A claim that changes the effects opens the next attempt of its row.     *)
LEMMA ClaimMovesRow ==
  ASSUME TypeOK, NEW r \in Runs, NEW q \in Requests, ClaimStep(r, q), effect' # effect
  PROVE  /\ q.op \in Operations
         /\ effect'[q.op] \in EffectRow
         /\ effect'[q.op].status = "claimed"
         /\ \A p \in Operations \ {q.op} : effect'[p] = effect[p]
         /\ \/ effect[q.op] = NoRow /\ effect'[q.op].attempt = 1
            \/ /\ effect[q.op] \in EffectRow
               /\ effect[q.op].status = "retryable"
               /\ effect'[q.op].attempt = effect[q.op].attempt + 1
<1>1. Claimed(r, q) \/ ClaimRetry(r, q)
  BY ClaimChanges
<1>2. CASE Claimed(r, q)
  <2>1. /\ q.op \in Operations /\ effect[q.op] = NoRow
        /\ effect' = [effect EXCEPT ![q.op] = FirstAttempt(r, q)]
        /\ effect'[q.op] \in EffectRow
    BY <1>2, ClaimedRow
  <2>2. /\ effect'[q.op] = FirstAttempt(r, q)
        /\ \A p \in Operations \ {q.op} : effect'[p] = effect[p]
    BY <2>1 DEF TypeOK
  <2> QED BY <2>1, <2>2 DEF FirstAttempt
<1>3. CASE ClaimRetry(r, q)
  <2>1. /\ q.op \in Operations /\ effect[q.op] \in EffectRow
        /\ effect'[q.op] = NextAttempt(effect[q.op])
        /\ \A p \in Operations \ {q.op} : effect'[p] = effect[p]
    BY <1>3, ClaimRetryType
  <2>2. effect[q.op].status = "retryable"
    BY <1>3 DEF ClaimRetry
  <2>3. /\ effect'[q.op].status = "claimed"
        /\ effect'[q.op].attempt = effect[q.op].attempt + 1
    BY <2>1 DEF NextAttempt, EffectRow
  <2> QED BY <2>1, <2>2, <2>3, NextAttemptType
<1> QED BY <1>1, <1>2, <1>3

(* An outcome settles its row and keeps the number of its attempt.         *)
LEMMA OutcomeMovesRow ==
  ASSUME TypeOK, NEW o \in Operations, OutcomeStep(o)
  PROVE  /\ effect[o] \in EffectRow
         /\ effect'[o] \in EffectRow
         /\ effect'[o].attempt = effect[o].attempt
         /\ effect[o].status \in {"claimed", "uncertain", "retryable"}
         /\ \A p \in Operations \ {o} : effect'[p] = effect[p]
         /\ CompleteEffect(o) \/ ReconcileApplied(o) => effect'[o].status = "completed"
         /\ MarkEffectUncertain(o) => effect'[o].status = "uncertain"
         /\ ReconcileNotApplied(o) => effect'[o].status = "retryable"
         /\ ReconcileUnknown(o) => effect'[o].status = "unknown"
<1>1. /\ effect[o] \in EffectRow /\ effect'[o] \in EffectRow
      /\ effect[o].status \in {"claimed", "uncertain", "retryable"}
      /\ \A p \in Operations \ {o} : effect'[p] = effect[p]
  BY OutcomeRow
<1>2. effect[o] # NoRow /\ effect[o].physical \in {0, 1}
  BY <1>1, RowFields
<1>3. ASSUME NEW status \in EFFECT_STATES, NEW outcome \in AttemptStates, NEW count \in {0, 1},
             SettleAttempt(o, status, outcome, count)
      PROVE  effect'[o].status = status /\ effect'[o].attempt = effect[o].attempt
  BY <1>1, <1>2, <1>3, SettleAttemptType, SettledFields
<1> USE DEF EFFECT_STATES, AttemptStates
<1>4. CompleteEffect(o) \/ ReconcileApplied(o) =>
        effect'[o].status = "completed" /\ effect'[o].attempt = effect[o].attempt
  BY <1>3 DEF CompleteEffect, ReconcileApplied, Reconcile
<1>5. MarkEffectUncertain(o) =>
        effect'[o].status = "uncertain" /\ effect'[o].attempt = effect[o].attempt
  BY <1>2, <1>3 DEF MarkEffectUncertain
<1>6. ReconcileNotApplied(o) =>
        effect'[o].status = "retryable" /\ effect'[o].attempt = effect[o].attempt
  BY <1>2, <1>3 DEF ReconcileNotApplied, Reconcile
<1>7. ReconcileUnknown(o) =>
        effect'[o].status = "unknown" /\ effect'[o].attempt = effect[o].attempt
  BY <1>2, <1>3 DEF ReconcileUnknown, Reconcile
<1> QED BY <1>1, <1>4, <1>5, <1>6, <1>7 DEF OutcomeStep

-----------------------------------------------------------------------------
(* The attempt ledger. *)

LEMMA LedgerFirst ==
  ASSUME NEW r \in Runs, NEW q \in Requests
  PROVE  LedgerAgrees(FirstAttempt(r, q))
<1>1. q.limit \in Nat \ {0}
  BY OwnerAssumption DEF Request
<1> QED BY <1>1 DEF LedgerAgrees, FirstAttempt, OutcomesOf

LEMMA LedgerNext ==
  ASSUME NEW e \in EffectRow, LedgerAgrees(e), e.status = "retryable", e.attempt < e.limit
  PROVE  LedgerAgrees(NextAttempt(e))
<1> DEFINE f == NextAttempt(e)
<1>1. /\ e.history \in Seq(AttemptStates) /\ e.attempt \in Nat \ {0}
      /\ e.limit \in Nat \ {0} /\ "claimed" \in AttemptStates
  BY DEF EffectRow, AttemptStates
<1>2. /\ f.status = "claimed" /\ f.attempt = e.attempt + 1
      /\ f.limit = e.limit /\ f.physical = e.physical
      /\ f.history = Append(e.history, "claimed")
  BY DEF NextAttempt, EffectRow
<1>3. \A i \in 1 .. e.attempt : e.history[i] = "reconciled_not_applied"
  BY <1>1 DEF LedgerAgrees, OutcomesOf
<1>4. Len(f.history) = f.attempt /\ f.attempt <= f.limit
  BY <1>1, <1>2, AppendProperties DEF LedgerAgrees
<1>5. ASSUME NEW i \in 1 .. f.attempt
      PROVE  f.history[i] = IF i < f.attempt THEN "reconciled_not_applied" ELSE "claimed"
  <2>1. Len(e.history) = e.attempt
    BY DEF LedgerAgrees
  <2> QED BY <2>1, <1>1, <1>2, <1>3, AppendProperties
<1>6. "claimed" \in OutcomesOf("claimed")
  BY DEF OutcomesOf
<1>7. f.physical = 1 <=> f.status = "completed"
  BY <1>2 DEF LedgerAgrees
<1> HIDE DEF f
<1>8. LedgerAgrees(f)
  BY <1>2, <1>4, <1>5, <1>6, <1>7 DEF LedgerAgrees
<1> QED BY <1>8 DEF f

LEMMA LedgerSettled ==
  ASSUME NEW e \in EffectRow, LedgerAgrees(e), e.status # "completed",
         NEW status \in EFFECT_STATES, NEW outcome \in OutcomesOf(status),
         outcome \in AttemptStates, NEW count \in {0, 1},
         count = 1 <=> status = "completed" \/ e.physical = 1
  PROVE  LedgerAgrees(Settled(e, status, outcome, count))
<1> DEFINE f == Settled(e, status, outcome, count)
           h == [e.history EXCEPT ![e.attempt] = outcome]
<1>1. /\ e.history \in Seq(AttemptStates) /\ e.attempt \in Nat \ {0}
      /\ Len(e.history) = e.attempt /\ e.attempt <= e.limit
  BY DEF EffectRow, LedgerAgrees
<1>2. f = [e EXCEPT !.status = status, !.physical = count, !.history = h]
  BY DEF Settled
<1>3. e.attempt \in 1 .. Len(e.history)
  BY <1>1
<1>4. /\ Len(h) = e.attempt
      /\ \A i \in 1 .. e.attempt : h[i] = IF i = e.attempt THEN outcome ELSE e.history[i]
  BY <1>1, <1>3, ExceptSeq
<1> HIDE DEF h, f
<1>5. /\ f.status = status /\ f.attempt = e.attempt /\ f.limit = e.limit
      /\ f.physical = count /\ f.history = h
  BY <1>2 DEF EffectRow
<1>6. \A i \in 1 .. e.attempt : i < e.attempt => e.history[i] = "reconciled_not_applied"
  BY DEF LedgerAgrees
<1>7. f.physical = 1 <=> f.status = "completed"
  BY <1>5 DEF LedgerAgrees
<1>8. LedgerAgrees(f)
  BY <1>1, <1>4, <1>5, <1>6, <1>7 DEF LedgerAgrees
<1> QED BY <1>8 DEF f

LEMMA LedgerPreserved ==
  ASSUME TypeOK, AttemptLedgerAgrees, [Next]_vars
  PROVE  AttemptLedgerAgrees'
<1>1. CASE effect' = effect
  BY <1>1 DEF AttemptLedgerAgrees, HasEffect
<1>2. ASSUME NEW r \in Runs, NEW q \in Requests, Claimed(r, q) PROVE AttemptLedgerAgrees'
  <2>1. LedgerAgrees(FirstAttempt(r, q))
    BY LedgerFirst
  <2> QED BY <2>1, <1>2, ClaimedRow DEF AttemptLedgerAgrees, HasEffect, TypeOK
<1>3. ASSUME NEW r \in Runs, NEW q \in Requests, ClaimRetry(r, q) PROVE AttemptLedgerAgrees'
  <2>1. /\ q.op \in Operations /\ effect[q.op] \in EffectRow
        /\ effect'[q.op] = NextAttempt(effect[q.op])
        /\ \A p \in Operations \ {q.op} : effect'[p] = effect[p]
    BY <1>3, ClaimRetryType
  <2>2. /\ effect[q.op].status = "retryable" /\ effect[q.op].attempt < effect[q.op].limit
        /\ HasEffect(q.op)
    BY <1>3 DEF ClaimRetry, SameEffect, HasEffect, NoRow
  <2>3. LedgerAgrees(effect'[q.op])
    BY <2>1, <2>2, LedgerNext DEF AttemptLedgerAgrees
  <2> QED BY <2>1, <2>3 DEF AttemptLedgerAgrees, HasEffect
<1>4. ASSUME NEW o \in Operations, OutcomeStep(o) PROVE AttemptLedgerAgrees'
  <2>1. /\ effect[o] \in EffectRow
        /\ \A p \in Operations \ {o} : effect'[p] = effect[p]
    BY <1>4, OutcomeRow
  <2>2. PICK status \in EFFECT_STATES, outcome \in AttemptStates, count \in {0, 1} :
          /\ effect'[o] = Settled(effect[o], status, outcome, count)
          /\ outcome \in OutcomesOf(status)
          /\ count = 1 <=> status = "completed" \/ effect[o].physical = 1
          /\ effect[o].status \in {"claimed", "uncertain", "retryable"}
    BY <1>4, OutcomeRow
  <2>3. LedgerAgrees(effect[o])
    BY <2>2 DEF AttemptLedgerAgrees, HasEffect, NoRow
  <2>4. LedgerAgrees(effect'[o])
    BY <2>1, <2>2, <2>3, LedgerSettled
  <2> QED BY <2>1, <2>4 DEF AttemptLedgerAgrees, HasEffect
<1> QED BY <1>1, <1>2, <1>3, <1>4, EffectSteps

-----------------------------------------------------------------------------
(* Approvals and keys. *)

LEMMA ClaimedRowFields ==
  ASSUME TypeOK, NEW r \in Runs, NEW q \in Requests, Claimed(r, q)
  PROVE  /\ q.op \in Operations
         /\ effect[q.op] = NoRow
         /\ effect'[q.op] # NoRow
         /\ effect'[q.op].run = r /\ effect'[q.op].key = q.key
         /\ effect'[q.op].scope = q.scope /\ effect'[q.op].class = q.class
         /\ effect'[q.op].status = "claimed"
         /\ \A p \in Operations \ {q.op} : effect'[p] = effect[p]
<1>1. effect'[q.op] = FirstAttempt(r, q)
  BY ClaimedRow DEF TypeOK
<1> QED BY <1>1, ClaimedRow DEF FirstAttempt, NoRow, TypeOK

(* A later attempt and an outcome leave the identity of the effect alone.  *)
LEMMA SameIdentity ==
  ASSUME NEW e \in EffectRow,
         NEW f, f = NextAttempt(e) \/ \E status \in EFFECT_STATES, outcome \in AttemptStates,
                     count \in {0, 1} : f = Settled(e, status, outcome, count)
  PROVE  /\ f.run = e.run /\ f.key = e.key /\ f.scope = e.scope /\ f.class = e.class
         /\ f # NoRow
<1>1. CASE f = NextAttempt(e)
  <2>1. f.status = "claimed" /\ f.run = e.run /\ f.key = e.key /\ f.scope = e.scope
        /\ f.class = e.class
    BY <1>1 DEF NextAttempt, EffectRow
  <2> QED BY <2>1 DEF NoRow
<1>2. ASSUME NEW status \in EFFECT_STATES, NEW outcome \in AttemptStates, NEW count \in {0, 1},
             f = Settled(e, status, outcome, count)
      PROVE  f.status = status /\ f.run = e.run /\ f.key = e.key /\ f.scope = e.scope
             /\ f.class = e.class
  BY <1>2 DEF Settled, EffectRow
<1> QED BY <1>1, <1>2 DEF NoRow, EFFECT_STATES

(* The steps that change effects, seen from any one row. *)
LEMMA EffectIdentity ==
  ASSUME TypeOK, [Next]_vars, NEW o \in Operations
  PROVE  \/ effect'[o] = effect[o]
         \/ \E r \in Runs, q \in Requests : Claimed(r, q) /\ q.op = o
         \/ /\ effect[o] # NoRow /\ effect'[o] # NoRow
            /\ effect'[o].run = effect[o].run /\ effect'[o].key = effect[o].key
            /\ effect'[o].scope = effect[o].scope /\ effect'[o].class = effect[o].class
<1>1. ASSUME NEW r \in Runs, NEW q \in Requests, Claimed(r, q)
      PROVE  effect'[o] = effect[o] \/ q.op = o
  BY <1>1, ClaimedRowFields
<1>2. ASSUME NEW r \in Runs, NEW q \in Requests, ClaimRetry(r, q), effect'[o] # effect[o]
      PROVE  /\ effect[o] \in EffectRow
             /\ effect'[o] = NextAttempt(effect[o])
  BY <1>2, ClaimRetryType
<1>3. ASSUME NEW p \in Operations, OutcomeStep(p), effect'[o] # effect[o]
      PROVE  /\ effect[o] \in EffectRow
             /\ \E status \in EFFECT_STATES, outcome \in AttemptStates, count \in {0, 1} :
                  effect'[o] = Settled(effect[o], status, outcome, count)
  BY <1>3, OutcomeRow
<1>4. ASSUME effect[o] \in EffectRow PROVE effect[o] # NoRow
  BY <1>4 DEF EffectRow, EFFECT_STATES, NoRow
<1> QED BY <1>1, <1>2, <1>3, <1>4, SameIdentity, EffectSteps

LEMMA KeysPreserved ==
  ASSUME TypeOK, IdempotencyKeyUsedOnce, [Next]_vars
  PROVE  IdempotencyKeyUsedOnce'
<1>1. ASSUME NEW r \in Runs, NEW q \in Requests, Claimed(r, q),
             NEW p \in Operations, HasEffect(p)
      PROVE  effect[p].key # q.key
  <2>1. effect[p].status # "none"
    BY <1>1 DEF TypeOK, EffectRow, EFFECT_STATES, HasEffect
  <2> QED BY <2>1, <1>1 DEF Claimed, Existing
<1>2. CASE \E r \in Runs, q \in Requests : Claimed(r, q)
  BY <1>1, <1>2, ClaimedRowFields DEF IdempotencyKeyUsedOnce, HasEffect
<1>3. CASE ~ \E r \in Runs, q \in Requests : Claimed(r, q)
  BY <1>3, EffectIdentity DEF IdempotencyKeyUsedOnce, HasEffect
<1> QED BY <1>2, <1>3

(* The steps that change approvals. *)
LEMMA ApprovalSteps ==
  ASSUME TypeOK, [Next]_vars, NEW o \in Operations, approval'[o] # approval[o]
  PROVE  \/ /\ approval[o] = NoRow
            /\ approval'[o].status = "pending"
            /\ effect' = effect
         \/ /\ approval[o].status # "consumed"
            /\ approval'[o].status # "consumed"
            /\ effect' = effect
         \/ \E r \in Runs, q \in Requests :
              Claimed(r, q) /\ q.op = o /\ q.class = "approval-required"
<1>1. ASSUME NEW r \in Runs, RunStep(r) PROVE approval' = approval
  BY <1>1 DEF RunStep, CreateRun, StartRun, RestartRun, CompleteRun, FailRun, FailRunBlocked,
     SafeStopRun, BeginRecovery, DeclareExposure, ScanFindsViolation, StopOnIdentityViolation
<1>2. ASSUME NEW r \in Runs, NEW q \in Requests, RequestApproval(r, q)
      PROVE  approval[o] = NoRow /\ approval'[o].status = "pending" /\ effect' = effect
  BY <1>2 DEF RequestApproval, TypeOK
<1>3. ASSUME NEW p \in Operations, ApprovalStep(p)
      PROVE  /\ approval[o].status # "consumed" /\ approval'[o].status # "consumed"
             /\ effect' = effect
  <2>1. p = o /\ effect' = effect
    BY <1>3 DEF ApprovalStep, Approve, DenyApproval, DecideApproval, ApprovalExpires, TypeOK
  <2>2. approval[o] \in ApprovalRow
    BY <2>1, <1>3 DEF ApprovalStep, Approve, DenyApproval, DecideApproval, ApprovalExpires,
       TypeOK, NoRow
  <2> QED BY <2>1, <2>2, <1>3 DEF ApprovalStep, Approve, DenyApproval, DecideApproval,
       ApprovalExpires, TypeOK, ApprovalRow
<1>4. ASSUME NEW r \in Runs, NEW q \in Requests, ClaimStep(r, q)
      PROVE  /\ \E token \in Tokens : ClaimApproved(r, q, token)
             /\ q.op = o
  <2>1. PICK token \in Tokens : ClaimApproved(r, q, token)
    BY <1>4 DEF ClaimStep, ClaimConflict, ClaimExhausted, ClaimRetry, ClaimOutOfBounds,
       ClaimStopsRun, ClaimMustWait, ClaimBadApproval, ClaimUnapproved
  <2> QED BY <2>1 DEF ClaimApproved, TypeOK
<1>5. ASSUME NEW r \in Runs, NEW q \in Requests, NEW token \in Tokens,
             ClaimApproved(r, q, token), q.op = o
      PROVE  Claimed(r, q) /\ q.class = "approval-required"
  BY <1>5 DEF ClaimApproved, Approvable, FirstClaim, Claimed, SetRunStatus, ALLOWED_EFFECT_CLASSES
<1>6. CASE UNCHANGED vars
  BY <1>6 DEF vars
<1> QED BY <1>1, <1>2, <1>3, <1>4, <1>5, <1>6 DEF Next, OutcomeStep, CompleteEffect,
     MarkEffectUncertain, ReconcileApplied, ReconcileNotApplied, ReconcileUnknown, Reconcile

LEMMA ConsumedRow ==
  ASSUME TypeOK, NEW r \in Runs, NEW q \in Requests, Claimed(r, q),
         q.class = "approval-required"
  PROVE  /\ approval'[q.op].status = "consumed"
         /\ approval'[q.op].scope = q.scope /\ approval'[q.op].key = q.key
<1>1. /\ q.op \in Operations /\ approval[q.op] \in ApprovalRow
      /\ approval[q.op].scope = q.scope /\ approval[q.op].key = q.key
  BY OwnerAssumption DEF Request, Claimed, ApprovalScopeMatches, TypeOK
<1>2. approval'[q.op] = [approval[q.op] EXCEPT !.status = "consumed"]
  BY <1>1 DEF Claimed, TypeOK
<1> QED BY <1>1, <1>2 DEF ApprovalRow

LEMMA ApprovalsPreserved ==
  ASSUME TypeOK, ConsumedApprovalBacksEffect, [Next]_vars
  PROVE  ConsumedApprovalBacksEffect'
<1> DEFINE Backs(o) ==
      /\ approval[o].status = "consumed" <=>
           HasEffect(o) /\ effect[o].class = "approval-required"
      /\ HasEffect(o) /\ effect[o].class = "approval-required" =>
           effect[o].scope = approval[o].scope /\ effect[o].key = approval[o].key
<1> SUFFICES ASSUME NEW o \in Operations PROVE Backs(o)'
  BY DEF ConsumedApprovalBacksEffect
<1>1. Backs(o)
  BY DEF ConsumedApprovalBacksEffect
<1>2. ASSUME NEW r \in Runs, NEW q \in Requests, Claimed(r, q), q.op = o PROVE Backs(o)'
  <2>1. CASE q.class = "approval-required"
    <3>1. /\ approval'[o].status = "consumed"
          /\ approval'[o].scope = q.scope /\ approval'[o].key = q.key
      BY <1>2, <2>1, ConsumedRow
    <3>2. /\ effect'[o] # NoRow /\ effect'[o].class = q.class
          /\ effect'[o].scope = q.scope /\ effect'[o].key = q.key
      BY <1>2, ClaimedRowFields
    <3> QED BY <2>1, <3>1, <3>2 DEF HasEffect
  <2>2. CASE q.class # "approval-required"
    <3>1. approval' = approval
      BY <1>2, <2>2 DEF Claimed
    <3>2. effect[o] = NoRow /\ effect'[o].class = q.class
      BY <1>2, ClaimedRowFields
    <3>3. approval[o].status # "consumed"
      BY <1>1, <3>2 DEF HasEffect
    <3> QED BY <2>2, <3>1, <3>2, <3>3
  <2> QED BY <2>1, <2>2
<1>3. CASE ~ \E r \in Runs, q \in Requests : Claimed(r, q) /\ q.op = o
  <2>1. /\ HasEffect(o)' <=> HasEffect(o)
        /\ HasEffect(o) => /\ effect'[o].class = effect[o].class
                           /\ effect'[o].scope = effect[o].scope
                           /\ effect'[o].key = effect[o].key
    BY <1>3, EffectIdentity DEF HasEffect
  <2>2. CASE approval'[o] = approval[o]
    BY <1>1, <2>1, <2>2
  <2>3. CASE approval'[o] # approval[o]
    <3>1. approval[o].status # "consumed" /\ approval'[o].status # "consumed"
      BY <1>3, <2>3, ApprovalSteps DEF NoRow
    <3> QED BY <1>1, <2>1, <3>1
  <2> QED BY <2>2, <2>3
<1> QED BY <1>2, <1>3

-----------------------------------------------------------------------------
(* Runs.                                                                   *)

LEMMA StatusSet ==
  ASSUME TypeOK, NEW r \in Runs, NEW x \in Runs, NEW new \in RUN_STATES, SetRunStatus(x, new)
  PROVE  /\ run'[r] = IF r = x THEN new ELSE run[r]
         /\ run[x] # "absent"
BY DEF TypeOK, SetRunStatus, Transitions, RUN_STATES, Live, Terminal

(* How a run can come to a status that an invariant speaks of. *)
LEMMA RunMoves ==
  ASSUME TypeOK, [Next]_vars, NEW r \in Runs
  PROVE  /\ run[r] # "absent" => run'[r] # "absent"
         /\ run'[r] \in {"absent", "created"} => run[r] = run'[r] \/ run[r] = "absent"
         /\ run'[r] = "completed" /\ run[r] # "completed" => \E v \in Values : CompleteRun(r, v)
         /\ run'[r] = "failed" /\ run[r] # "failed" => \E v \in Values : FailRun(r, v)
<1> DEFINE Goal == /\ run[r] # "absent" => run'[r] # "absent"
                   /\ run'[r] \in {"absent", "created"} => run[r] = run'[r] \/ run[r] = "absent"
                   /\ run'[r] \notin {"completed", "failed"} \/ run'[r] = run[r]
<1>1. ASSUME NEW x \in Runs, NEW new \in {"running", "waiting_approval", "recovering", "safe_stopped"},
             SetRunStatus(x, new)
      PROVE  Goal
  <2>1. new \in RUN_STATES
    BY DEF RUN_STATES, Live, Terminal
  <2> QED BY <2>1, <1>1, StatusSet
<1>2. CASE run' = run
  BY <1>2
<1>3. ASSUME NEW x \in Runs, NEW parent \in Links, CreateRun(x, parent) PROVE Goal
  BY <1>3 DEF CreateRun, TypeOK
<1>4. ASSUME NEW x \in Runs, RestartRun(x) PROVE Goal
  BY <1>4 DEF RestartRun, TypeOK
<1>5. ASSUME NEW x \in Runs, NEW v \in Values, CompleteRun(x, v)
      PROVE  IF x = r THEN run'[r] = "completed" /\ run[r] = "running" ELSE run'[r] = run[r]
  BY <1>5 DEF CompleteRun, SetRunStatus, TypeOK
<1>6. ASSUME NEW x \in Runs, NEW v \in Values, FailRun(x, v)
      PROVE  IF x = r THEN run'[r] = "failed" /\ run[r] # "absent" ELSE run'[r] = run[r]
  <2>1. "failed" \in RUN_STATES
    BY DEF RUN_STATES, Terminal
  <2> QED BY <2>1, <1>6, StatusSet DEF FailRun
<1>7. ASSUME NEW x \in Runs, StopOnIdentityViolation(x) PROVE Goal
  BY <1>7 DEF StopOnIdentityViolation, TypeOK
<1>8. ASSUME NEW x \in Runs, RunStep(x)
      PROVE  Goal \/ \E v \in Values : CompleteRun(x, v) \/ FailRun(x, v)
  <2>1. StartRun(x) \/ FailRunBlocked(x) \/ SafeStopRun(x) \/ BeginRecovery(x) => Goal
    BY <1>1 DEF StartRun, FailRunBlocked, SafeStopRun, BeginRecovery
  <2>2. ASSUME NEW b \in Exposures, DeclareExposure(x, b) PROVE Goal
    BY <2>2, <1>2 DEF DeclareExposure
  <2>3. ScanFindsViolation(x) => Goal
    BY <1>2 DEF ScanFindsViolation
  <2> QED BY <1>3, <1>4, <1>7, <1>8, <2>1, <2>2, <2>3 DEF RunStep
<1>9. ASSUME NEW x \in Runs, NEW q \in Requests, RequestApproval(x, q) \/ ClaimStep(x, q)
      PROVE  Goal
  <2>1. RequestApproval(x, q) => Goal
    BY <1>2 DEF RequestApproval
  <2>2. ClaimConflict(x, q) \/ ClaimExhausted(x, q) \/ ClaimOutOfBounds(x, q) => Goal
    BY <1>1 DEF ClaimConflict, ClaimExhausted, ClaimOutOfBounds, ClaimStopsRun
  <2>3. ClaimRetry(x, q) \/ ClaimUnapproved(x, q) => Goal
    BY <1>1 DEF ClaimRetry, ClaimUnapproved
  <2>4. ASSUME NEW token \in Tokens,
               ClaimMustWait(x, q, token) \/ ClaimBadApproval(x, q, token) \/ ClaimApproved(x, q, token)
        PROVE  Goal
    BY <2>4, <1>1 DEF ClaimMustWait, ClaimBadApproval, ClaimApproved, ClaimStopsRun
  <2> QED BY <1>9, <2>1, <2>2, <2>3, <2>4 DEF ClaimStep
<1>10. ASSUME NEW o \in Operations, ApprovalStep(o) \/ OutcomeStep(o) PROVE Goal
  <2>1. ApprovalStep(o) => Goal
    BY <1>2 DEF ApprovalStep, Approve, DenyApproval, DecideApproval, ApprovalExpires
  <2>2. CompleteEffect(o) => Goal
    BY <1>2 DEF CompleteEffect
  <2>3. OutcomeStep(o) => effect[o].run \in Runs
    BY OutcomeRow DEF EffectRow
  <2>4. OutcomeStep(o) /\ ~CompleteEffect(o) => Goal
    BY <2>3, <1>1, <1>2 DEF OutcomeStep, MarkEffectUncertain, ReconcileApplied,
       ReconcileNotApplied, ReconcileUnknown, Reconcile, ReconcileRun
  <2> QED BY <1>10, <2>1, <2>2, <2>4
<1>11. UNCHANGED vars => Goal
  BY <1>2 DEF vars
<1> QED BY <1>5, <1>6, <1>8, <1>9, <1>10, <1>11 DEF Next

(* While a run is not being started, only outcomes change its effects. *)
LEMMA OnlyOutcomes ==
  ASSUME TypeOK, [Next]_vars, NEW r \in Runs, run'[r] # "running",
         NEW o \in Operations, effect'[o].status # "none", effect'[o].run = r
  PROVE  \/ effect'[o] = effect[o]
         \/ /\ OutcomeStep(o)
            /\ effect[o].run = r
            /\ effect[o].status \in {"claimed", "uncertain", "retryable"}
<1>1. ASSUME NEW x \in Runs, NEW q \in Requests, Claimed(x, q) PROVE effect'[o] = effect[o]
  <2>1. CASE q.op = o
    <3>1. x = r
      BY <2>1, <1>1, ClaimedRowFields
    <3> QED BY <3>1, <1>1 DEF Claimed, TypeOK
  <2>2. CASE q.op # o
    BY <2>2, <1>1, ClaimedRowFields
  <2> QED BY <2>1, <2>2
<1>2. ASSUME NEW x \in Runs, NEW q \in Requests, ClaimRetry(x, q) PROVE effect'[o] = effect[o]
  <2>1. CASE q.op = o
    <3>1. effect[o] \in EffectRow /\ effect'[o] = NextAttempt(effect[o])
      BY <2>1, <1>2, ClaimRetryType
    <3>2. effect[o].run = r
      BY <3>1, SameIdentity
    <3>3. x = r
      BY <3>2, <2>1, <1>2 DEF ClaimRetry, SameEffect
    <3>4. SetRunStatus(r, "running")
      BY <3>3, <1>2 DEF ClaimRetry
    <3> QED BY <3>4 DEF SetRunStatus, TypeOK
  <2>2. CASE q.op # o
    BY <2>2, <1>2, ClaimRetryType
  <2> QED BY <2>1, <2>2
<1>3. ASSUME NEW p \in Operations, OutcomeStep(p), effect'[o] # effect[o]
      PROVE  /\ p = o /\ effect[o].run = r
             /\ effect[o].status \in {"claimed", "uncertain", "retryable"}
  <2>1. p = o
    BY <1>3, OutcomeRow
  <2>2. /\ effect[o] \in EffectRow
        /\ \E status \in EFFECT_STATES, outcome \in AttemptStates, count \in {0, 1} :
             effect'[o] = Settled(effect[o], status, outcome, count)
        /\ effect[o].status \in {"claimed", "uncertain", "retryable"}
    BY <2>1, <1>3, OutcomeRow
  <2> QED BY <2>1, <2>2, SameIdentity
<1> QED BY <1>1, <1>2, <1>3, EffectSteps

LEMMA OnlyRunSteps ==
  ASSUME [Next]_vars
  PROVE  UNCHANGED <<link, result>> \/ \E r \in Runs : RunStep(r)
<1>1. ASSUME NEW r \in Runs, NEW q \in Requests, ClaimStep(r, q) PROVE UNCHANGED <<link, result>>
  BY <1>1 DEF ClaimStep, ClaimConflict, ClaimExhausted, ClaimRetry, ClaimOutOfBounds,
     ClaimStopsRun, ClaimMustWait, ClaimBadApproval, ClaimUnapproved, ClaimApproved
<1>2. ASSUME NEW o \in Operations, ApprovalStep(o) PROVE UNCHANGED <<link, result>>
  BY <1>2 DEF ApprovalStep, Approve, DenyApproval, DecideApproval, ApprovalExpires
<1>3. ASSUME NEW o \in Operations, OutcomeStep(o) PROVE UNCHANGED <<link, result>>
  BY <1>3 DEF OutcomeStep, CompleteEffect, MarkEffectUncertain, ReconcileApplied,
     ReconcileNotApplied, ReconcileUnknown, Reconcile
<1> QED BY <1>1, <1>2, <1>3 DEF Next, RequestApproval, vars

LEMMA ResultsStay ==
  ASSUME TypeOK, [Next]_vars, NEW r \in Runs, NEW kind \in {"semantic", "error"},
         result[r][kind] # NoValue
  PROVE  result'[r][kind] # NoValue
<1>1. ASSUME NEW x \in Runs, NEW k \in {"semantic", "error"}, NEW v \in Values,
             RecordResult(x, k, v)
      PROVE  result'[r][kind] # NoValue
  BY <1>1, OwnerAssumption DEF RecordResult, TypeOK
<1>2. result' = result \/ \E x \in Runs, k \in {"semantic", "error"}, v \in Values : RecordResult(x, k, v)
  BY OnlyRunSteps DEF RunStep, CreateRun, StartRun, RestartRun, CompleteRun, FailRun,
     FailRunBlocked, SafeStopRun, BeginRecovery, DeclareExposure, ScanFindsViolation,
     StopOnIdentityViolation
<1> QED BY <1>1, <1>2

LEMMA LinksStay ==
  ASSUME TypeOK, [Next]_vars, NEW r \in Runs, run[r] # "absent"
  PROVE  link'[r] = link[r]
<1>1. ASSUME NEW x \in Runs, NEW parent \in Links, CreateRun(x, parent) PROVE link'[r] = link[r]
  BY <1>1 DEF CreateRun, TypeOK
<1>2. link' = link \/ \E x \in Runs, parent \in Links : CreateRun(x, parent)
  BY OnlyRunSteps DEF RunStep, StartRun, RestartRun, CompleteRun, FailRun,
     FailRunBlocked, SafeStopRun, BeginRecovery, DeclareExposure, ScanFindsViolation,
     StopOnIdentityViolation
<1> QED BY <1>1, <1>2

LEMMA StartPreserved ==
  ASSUME TypeOK, NoEffectBeforeStart, [Next]_vars
  PROVE  NoEffectBeforeStart'
<1> SUFFICES ASSUME NEW r \in Runs, run'[r] \in {"absent", "created"},
                    NEW o \in Operations, effect'[o].status \in EFFECT_STATES, effect'[o].run = r
             PROVE  FALSE
  BY DEF NoEffectBeforeStart, EffectsOf
<1>1. run[r] \in {"absent", "created"}
  BY RunMoves
<1>2. ~(effect[o].status \in EFFECT_STATES /\ effect[o].run = r)
  BY <1>1 DEF NoEffectBeforeStart, EffectsOf
<1> QED BY <1>2, OnlyOutcomes DEF EFFECT_STATES

LEMMA CompletedPreserved ==
  ASSUME TypeOK, CompletedRunSettled, [Next]_vars
  PROVE  CompletedRunSettled'
<1> SUFFICES ASSUME NEW r \in Runs, run'[r] = "completed"
             PROVE  /\ EffectsOf(r, EFFECT_STATES \ {"completed"})' = {}
                    /\ ~LinkBroken(r)'
                    /\ result'[r]["semantic"] # NoValue
  BY DEF CompletedRunSettled
<1>1. /\ run[r] # "absent"
      /\ EffectsOf(r, EFFECT_STATES \ {"completed"}) = {}
      /\ ~LinkBroken(r)
      /\ result[r]["semantic"] # NoValue \/ \E v \in Values : CompleteRun(r, v)
  <2>1. CASE run[r] = "completed"
    BY <2>1 DEF CompletedRunSettled
  <2>2. ASSUME NEW v \in Values, CompleteRun(r, v)
        PROVE  /\ run[r] # "absent" /\ ~LinkBroken(r)
               /\ EffectsOf(r, EFFECT_STATES \ {"completed"}) = {}
    BY <2>2 DEF CompleteRun, EFFECT_STATES, EffectsOf
  <2> QED BY <2>1, <2>2, RunMoves
<1>2. result'[r]["semantic"] # NoValue
  <2>1. ASSUME NEW v \in Values, CompleteRun(r, v) PROVE result'[r]["semantic"] # NoValue
    BY <2>1, OwnerAssumption DEF CompleteRun, RecordResult, TypeOK
  <2> QED BY <2>1, <1>1, ResultsStay
<1>3. ~LinkBroken(r)'
  <2>1. link'[r] = link[r] /\ link[r] \in Runs \union {NoRun}
    BY <1>1, LinksStay DEF TypeOK
  <2> QED BY <2>1, <1>1, RunMoves DEF LinkBroken
<1>4. ASSUME NEW o \in Operations, effect'[o].status \in EFFECT_STATES \ {"completed"},
             effect'[o].run = r
      PROVE  FALSE
  <2>1. ~(effect[o].status \in EFFECT_STATES \ {"completed"} /\ effect[o].run = r)
    BY <1>1 DEF EffectsOf
  <2> QED BY <2>1, <1>4, OnlyOutcomes DEF EFFECT_STATES
<1> QED BY <1>2, <1>3, <1>4 DEF EffectsOf

LEMMA FailedPreserved ==
  ASSUME TypeOK, FailedRunNotInDoubt, [Next]_vars
  PROVE  FailedRunNotInDoubt'
<1> DEFINE Doubt == {"claimed", "uncertain", "unknown"}
<1> SUFFICES ASSUME NEW r \in Runs, run'[r] = "failed"
             PROVE  EffectsOf(r, Doubt)' = {} /\ result'[r]["error"] # NoValue
  BY DEF FailedRunNotInDoubt
<1>1. CASE run[r] # "failed"
  <2>1. PICK v \in Values : FailRun(r, v)
    BY <1>1, RunMoves
  <2>2. effect' = effect /\ EffectsOf(r, Doubt) = {}
    BY <2>1 DEF FailRun
  <2>3. result'[r]["error"] # NoValue
    BY <2>1, OwnerAssumption DEF FailRun, RecordResult, TypeOK
  <2> QED BY <2>2, <2>3 DEF EffectsOf
<1>2. CASE run[r] = "failed"
  <2>1. EffectsOf(r, Doubt) = {} /\ result[r]["error"] # NoValue
    BY <1>2 DEF FailedRunNotInDoubt
  <2>2. ASSUME NEW o \in Operations, effect'[o].status \in Doubt, effect'[o].run = r
        PROVE  FALSE
    <3>1. ~(effect[o].status \in Doubt /\ effect[o].run = r)
      BY <2>1 DEF EffectsOf
    <3>2. effect'[o] # effect[o]
      BY <3>1, <2>2
    <3>3. OutcomeStep(o) /\ effect[o].run = r /\ effect[o].status = "retryable"
      BY <3>1, <3>2, <2>2, OnlyOutcomes
    <3>4. PICK new \in {"running", "safe_stopped"} : SetRunStatus(r, new)
      BY <3>3, <1>2 DEF OutcomeStep, CompleteEffect, MarkEffectUncertain, ReconcileApplied,
         ReconcileNotApplied, ReconcileUnknown, Reconcile, ReconcileRun
    <3> QED BY <3>4, <1>2 DEF SetRunStatus, Transitions
  <2> QED BY <2>1, <2>2, ResultsStay DEF EffectsOf
<1> QED BY <1>1, <1>2

-----------------------------------------------------------------------------
(* Steps. *)

LEMMA NextAttemptStatus ==
  ASSUME NEW e \in EffectRow
  PROVE  NextAttempt(e).status = "claimed" /\ NextAttempt(e).run = e.run
BY DEF NextAttempt, EffectRow

LEMMA SettledStatus ==
  ASSUME NEW e \in EffectRow, NEW status, NEW outcome, NEW count
  PROVE  Settled(e, status, outcome, count).status = status
BY DEF Settled, EffectRow

LEMMA FinalStep ==
  ASSUME TypeOK, [Next]_vars, NEW o \in Operations, effect[o].status \in {"completed", "unknown"}
  PROVE  effect'[o] = effect[o]
<1>1. effect[o] # NoRow
  BY DEF NoRow
<1>2. ASSUME NEW r \in Runs, NEW q \in Requests, Claimed(r, q) PROVE effect'[o] = effect[o]
  BY <1>1, <1>2, ClaimedRowFields
<1>3. ASSUME NEW r \in Runs, NEW q \in Requests, ClaimRetry(r, q) PROVE effect'[o] = effect[o]
  <2>1. q.op # o
    BY <1>3 DEF ClaimRetry
  <2> QED BY <2>1, <1>3, ClaimRetryType
<1>4. ASSUME NEW p \in Operations, OutcomeStep(p) PROVE effect'[o] = effect[o]
  <2>1. p # o
    BY <1>4, OutcomeRow
  <2> QED BY <2>1, <1>4, OutcomeRow
<1> QED BY <1>2, <1>3, <1>4, EffectSteps

LEMMA TerminalStep ==
  ASSUME TypeOK, [Next]_vars, NEW r \in Runs, run[r] \in Terminal, run'[r] # run[r]
  PROVE  RestartRun(r)
<1>1. ASSUME NEW x \in Runs, NEW new \in RUN_STATES, SetRunStatus(x, new) PROVE FALSE
  <2>1. x = r /\ run[r] # new
    BY <1>1, StatusSet
  <2> QED BY <2>1, <1>1 DEF SetRunStatus, Transitions, Terminal
<1>2. run' # run
  OBVIOUS
<1>3. /\ "running" \in RUN_STATES /\ "recovering" \in RUN_STATES /\ "completed" \in RUN_STATES
      /\ "failed" \in RUN_STATES /\ "safe_stopped" \in RUN_STATES
      /\ "waiting_approval" \in RUN_STATES
  BY DEF RUN_STATES, Live, Terminal
<1>4. ASSUME NEW x \in Runs, RunStep(x) PROVE RestartRun(r)
  <2>1. ~(StartRun(x) \/ FailRunBlocked(x) \/ SafeStopRun(x) \/ BeginRecovery(x))
    BY <1>1, <1>3 DEF StartRun, FailRunBlocked, SafeStopRun, BeginRecovery
  <2>2. ~ \E v \in Values : CompleteRun(x, v) \/ FailRun(x, v)
    BY <1>1, <1>3 DEF CompleteRun, FailRun
  <2>3. ~ \E parent \in Links : CreateRun(x, parent)
    BY DEF CreateRun, Terminal, TypeOK
  <2>4. ~ScanFindsViolation(x) /\ ~ \E b \in Exposures : DeclareExposure(x, b)
    BY <1>2 DEF ScanFindsViolation, DeclareExposure
  <2>5. ~StopOnIdentityViolation(x)
    BY DEF StopOnIdentityViolation, Terminal, TypeOK
  <2>6. RestartRun(x)
    BY <1>4, <2>1, <2>2, <2>3, <2>4, <2>5 DEF RunStep
  <2>7. x = r
    BY <2>6 DEF RestartRun, TypeOK
  <2> QED BY <2>6, <2>7
<1>5. ASSUME NEW x \in Runs, NEW q \in Requests, RequestApproval(x, q) \/ ClaimStep(x, q)
      PROVE  FALSE
  <2>1. ClaimStep(x, q)
    BY <1>2, <1>5 DEF RequestApproval
  <2> QED BY <2>1, <1>1, <1>3 DEF ClaimStep, ClaimConflict, ClaimExhausted, ClaimRetry,
       ClaimOutOfBounds, ClaimStopsRun, ClaimMustWait, ClaimBadApproval, ClaimUnapproved, ClaimApproved
<1>6. ASSUME NEW o \in Operations, ApprovalStep(o) \/ OutcomeStep(o) PROVE FALSE
  <2>1. OutcomeStep(o) /\ ~CompleteEffect(o)
    BY <1>2, <1>6 DEF ApprovalStep, Approve, DenyApproval, DecideApproval, ApprovalExpires,
       CompleteEffect
  <2>2. effect[o].run \in Runs
    BY <2>1, OutcomeRow DEF EffectRow
  <2>3. \E new \in RUN_STATES : SetRunStatus(effect[o].run, new)
    BY <1>2, <1>3, <2>1 DEF OutcomeStep, MarkEffectUncertain, ReconcileApplied,
       ReconcileNotApplied, ReconcileUnknown, Reconcile, ReconcileRun
  <2> QED BY <2>2, <2>3, <1>1
<1> QED BY <1>2, <1>4, <1>5, <1>6 DEF Next, vars

LEMMA DoubtStep ==
  ASSUME TypeOK, [Next]_vars, NEW o \in Operations, effect'[o].status # effect[o].status
  PROVE  /\ effect'[o].status = "uncertain" => run'[effect'[o].run] = "recovering"
         /\ effect'[o].status = "unknown" => run'[effect'[o].run] = "safe_stopped"
         /\ effect'[o].status = "claimed" => run'[effect'[o].run] = "running"
<1> DEFINE Goal == /\ effect'[o].status = "uncertain" => run'[effect'[o].run] = "recovering"
                   /\ effect'[o].status = "unknown" => run'[effect'[o].run] = "safe_stopped"
                   /\ effect'[o].status = "claimed" => run'[effect'[o].run] = "running"
<1>1. ASSUME NEW r \in Runs, NEW q \in Requests, Claimed(r, q) PROVE Goal
  <2>1. q.op = o
    BY <1>1, ClaimedRowFields
  <2>2. effect'[o].run = r /\ effect'[o].status = "claimed"
    BY <2>1, <1>1, ClaimedRowFields
  <2>3. run'[r] = "running"
    BY <1>1 DEF Claimed, TypeOK
  <2> QED BY <2>2, <2>3
<1>2. ASSUME NEW r \in Runs, NEW q \in Requests, ClaimRetry(r, q) PROVE Goal
  <2>1. q.op = o
    BY <1>2, ClaimRetryType
  <2>2. effect[o] \in EffectRow /\ effect'[o] = NextAttempt(effect[o])
    BY <2>1, <1>2, ClaimRetryType
  <2>3. effect[o].run = r
    BY <2>1, <1>2 DEF ClaimRetry, SameEffect
  <2>4. effect'[o].run = r /\ effect'[o].status = "claimed"
    BY <2>2, <2>3, NextAttemptStatus
  <2>5. run'[r] = "running"
    BY <1>2 DEF ClaimRetry, SetRunStatus, TypeOK
  <2> QED BY <2>4, <2>5
<1>3. ASSUME NEW p \in Operations, OutcomeStep(p) PROVE Goal
  <2>1. p = o
    BY <1>3, OutcomeRow
  <2>2. effect[o] \in EffectRow /\ effect'[o].run = effect[o].run /\ effect[o].run \in Runs
    BY <2>1, <1>3, OutcomeRow, SameIdentity DEF EffectRow
  <2>3. ASSUME NEW status \in EFFECT_STATES, NEW outcome \in AttemptStates, NEW count \in {0, 1},
               SettleAttempt(o, status, outcome, count)
        PROVE  effect'[o].status = status
    <3>1. effect'[o] = Settled(effect[o], status, outcome, count)
      BY <2>3 DEF SettleAttempt, TypeOK
    <3> QED BY <3>1, <2>2, SettledStatus
  <2>4. effect[o].physical \in {0, 1}
    BY <2>2 DEF EffectRow
  <2>5. CASE CompleteEffect(o)
    BY <2>3, <2>5 DEF CompleteEffect, EFFECT_STATES, AttemptStates
  <2>6. CASE MarkEffectUncertain(o)
    <3>1. effect'[o].status = "uncertain"
      BY <2>3, <2>4, <2>6 DEF MarkEffectUncertain, EFFECT_STATES, AttemptStates
    <3> QED BY <3>1, <2>2, <2>6 DEF MarkEffectUncertain, SetRunStatus, TypeOK
  <2>7. CASE ReconcileApplied(o)
    BY <2>3, <2>7 DEF ReconcileApplied, Reconcile, EFFECT_STATES, AttemptStates
  <2>8. CASE ReconcileNotApplied(o)
    BY <2>3, <2>4, <2>8 DEF ReconcileNotApplied, Reconcile, EFFECT_STATES, AttemptStates
  <2>9. CASE ReconcileUnknown(o)
    <3>1. effect'[o].status = "unknown"
      BY <2>3, <2>4, <2>9 DEF ReconcileUnknown, Reconcile, EFFECT_STATES, AttemptStates
    <3> QED BY <3>1, <2>2, <2>9 DEF ReconcileUnknown, Reconcile, ReconcileRun, SetRunStatus, TypeOK
  <2> QED BY <2>1, <2>5, <2>6, <2>7, <2>8, <2>9, <1>3 DEF OutcomeStep
<1> QED BY <1>1, <1>2, <1>3, EffectSteps

-----------------------------------------------------------------------------
(* The theorems of the specification. *)

(* Type correctness of every table, whatever the callers submit. *)
THEOREM OwnerTypes == Spec => []TypeOK
BY InitType, TypePreserved, PTL DEF Spec

OwnerInv ==
  /\ TypeOK
  /\ AttemptLedgerAgrees
  /\ ConsumedApprovalBacksEffect
  /\ IdempotencyKeyUsedOnce
  /\ CompletedRunSettled
  /\ FailedRunNotInDoubt
  /\ NoEffectBeforeStart

(* The conjunction is inductive; the type invariant is what the other      *)
(* parts need of each other.                                               *)
LEMMA OwnerInvariant == Spec => []OwnerInv
<1>1. Init => OwnerInv
  <2> SUFFICES ASSUME Init PROVE OwnerInv
    OBVIOUS
  <2>1. \A o \in Operations : effect[o] = NoRow /\ approval[o].status = "none"
    BY DEF Init, NoRow
  <2>2. \A o \in Operations : effect[o].status = "none"
    BY DEF Init, NoRow
  <2>3. \A r \in Runs : run[r] = "absent"
    BY DEF Init
  <2> QED BY <2>1, <2>2, <2>3, InitType DEF OwnerInv, AttemptLedgerAgrees,
       ConsumedApprovalBacksEffect, IdempotencyKeyUsedOnce, CompletedRunSettled,
       FailedRunNotInDoubt, NoEffectBeforeStart, HasEffect, EffectsOf, EFFECT_STATES
<1>2. OwnerInv /\ [Next]_vars => OwnerInv'
  BY TypePreserved, LedgerPreserved, ApprovalsPreserved, KeysPreserved, CompletedPreserved,
     FailedPreserved, StartPreserved DEF OwnerInv
<1> QED BY <1>1, <1>2, PTL DEF Spec

(* A claim and the start of its run are one step: no effect belongs to a   *)
(* run that never started.                                                 *)
THEOREM EffectsFollowStart == Spec => []NoEffectBeforeStart
<1>1. OwnerInv => NoEffectBeforeStart
  BY DEF OwnerInv
<1> QED BY <1>1, OwnerInvariant, PTL

(* No sequence of claims, reports and reconciliations retries an effect    *)
(* whose last attempt was not observed as not applied, or exceeds its      *)
(* budget, or counts a physical effect before completion.                  *)
THEOREM RetriesAreBoundedAndObserved == Spec => []AttemptLedgerAgrees
<1>1. OwnerInv => AttemptLedgerAgrees
  BY DEF OwnerInv
<1> QED BY <1>1, OwnerInvariant, PTL

(* An approval is consumed exactly when its operation has an effect that   *)
(* needed one, with the approved scope and key.                            *)
THEOREM OneApprovalOneEffect == Spec => []ConsumedApprovalBacksEffect
<1>1. OwnerInv => ConsumedApprovalBacksEffect
  BY DEF OwnerInv
<1> QED BY <1>1, OwnerInvariant, PTL

(* One effect per idempotency key. *)
THEOREM OneEffectPerKey == Spec => []IdempotencyKeyUsedOnce
<1>1. OwnerInv => IdempotencyKeyUsedOnce
  BY DEF OwnerInv
<1> QED BY <1>1, OwnerInvariant, PTL

(* A run that is completed has only completed effects, a resolved parent   *)
(* and a result, for as long as it is completed.                           *)
THEOREM CompletionIsSettled == Spec => []CompletedRunSettled
<1>1. OwnerInv => CompletedRunSettled
  BY DEF OwnerInv
<1> QED BY <1>1, OwnerInvariant, PTL

(* A run that is failed has no effect in doubt, for as long as it is       *)
(* failed.                                                                 *)
THEOREM FailureLeavesNoDoubt == Spec => []FailedRunNotInDoubt
<1>1. OwnerInv => FailedRunNotInDoubt
  BY DEF OwnerInv
<1> QED BY <1>1, OwnerInvariant, PTL

(* Only restart_run takes a run out of a terminal status. *)
THEOREM OnlyRestartRearms == Spec => TerminalRunsLeaveOnlyByRestart
<1>1. TypeOK /\ [Next]_vars =>
        [\A r \in Runs : run[r] \in Terminal /\ run'[r] # run[r] =>
           /\ run'[r] = "running"
           /\ UNCHANGED <<link, approval, effect, exposure, result, suspected>>]_vars
  <2> SUFFICES ASSUME TypeOK, [Next]_vars, NEW r \in Runs, run[r] \in Terminal, run'[r] # run[r]
               PROVE  /\ run'[r] = "running"
                      /\ UNCHANGED <<link, approval, effect, exposure, result, suspected>>
    OBVIOUS
  <2>1. RestartRun(r)
    BY TerminalStep
  <2> QED BY <2>1 DEF RestartRun, TypeOK
<1> QED BY <1>1, OwnerTypes, PTL DEF Spec, TerminalRunsLeaveOnlyByRestart

(* Completed effects and effects of unknown outcome never change again. *)
THEOREM SettledIsFinal == Spec => SettledEffectsAreFinal
<1>1. TypeOK /\ [Next]_vars =>
        [\A o \in Operations : effect[o].status \in {"completed", "unknown"} =>
           effect'[o] = effect[o]]_vars
  BY FinalStep
<1> QED BY <1>1, OwnerTypes, PTL DEF Spec, SettledEffectsAreFinal

(* The status of the run follows the doubt of its effects. *)
THEOREM DoubtIsVisible == Spec => DoubtStopsTheRun
<1>1. TypeOK /\ [Next]_vars =>
        [\A o \in Operations : effect'[o].status # effect[o].status =>
           /\ effect'[o].status = "uncertain" => run'[effect'[o].run] = "recovering"
           /\ effect'[o].status = "unknown" => run'[effect'[o].run] = "safe_stopped"
           /\ effect'[o].status = "claimed" => run'[effect'[o].run] = "running"]_vars
  BY DoubtStep
<1> QED BY <1>1, OwnerTypes, PTL DEF Spec, DoubtStopsTheRun


-----------------------------------------------------------------------------
(* The owner implements BoundedEffect, the protocol of one effect.         *)
(* The steps of one effect row, freed from runs, approvals and keys. *)
RowMoves(e, f) ==
  \/ /\ e = NoRow /\ f \in EffectRow
     /\ f.status = "claimed" /\ f.attempt = 1 /\ f.physical = 0
  \/ /\ e \in EffectRow /\ f \in EffectRow /\ f.limit = e.limit
     /\ \/ /\ e.status = "retryable" /\ f.status = "claimed"
           /\ e.attempt < e.limit /\ f.attempt = e.attempt + 1
           /\ f.physical = e.physical
        \/ /\ f.attempt = e.attempt /\ f.physical = e.physical
           /\ \/ e.status = "claimed" /\ f.status = "uncertain"
              \/ e.status \in {"uncertain", "retryable"} /\ f.status \in {"retryable", "unknown"}
        \/ /\ f.attempt = e.attempt /\ e.physical = 0 /\ f.physical = 1
           /\ e.status \in {"claimed", "uncertain", "retryable"} /\ f.status = "completed"

LEMMA FirstMove ==
  ASSUME NEW r \in Runs, NEW q \in Requests, q.class \in ALLOWED_EFFECT_CLASSES
  PROVE  RowMoves(NoRow, FirstAttempt(r, q))
<1>1. FirstAttempt(r, q) \in EffectRow
  BY FirstAttemptType
<1>2. FirstAttempt(r, q).status = "claimed" /\ FirstAttempt(r, q).attempt = 1
      /\ FirstAttempt(r, q).physical = 0
  BY DEF FirstAttempt
<1> QED
  BY <1>1, <1>2 DEF RowMoves

LEMMA RetryMove ==
  ASSUME NEW e \in EffectRow, e.status = "retryable", e.attempt < e.limit
  PROVE  RowMoves(e, NextAttempt(e))
<1>1. NextAttempt(e) \in EffectRow
  BY NextAttemptType
<1>2. /\ NextAttempt(e).status = "claimed" /\ NextAttempt(e).attempt = e.attempt + 1
      /\ NextAttempt(e).limit = e.limit /\ NextAttempt(e).physical = e.physical
  BY DEF NextAttempt, EffectRow
<1> QED
  BY <1>1, <1>2 DEF RowMoves

LEMMA NoRowIsNoEffectRow == NoRow \notin EffectRow
BY RowFields

LEMMA OutcomeMove ==
  ASSUME TypeOK, AttemptLedgerAgrees, NEW o \in Operations, OutcomeStep(o)
  PROVE  RowMoves(effect[o], effect'[o])
<1> DEFINE e == effect[o]
<1>1. e \in EffectRow /\ effect'[o] \in EffectRow
  BY OutcomeRow
<1>2. e # NoRow /\ e.physical \in {0, 1}
  BY <1>1, RowFields
<1>3. e.physical = 1 <=> e.status = "completed"
  BY <1>2 DEF AttemptLedgerAgrees, HasEffect, LedgerAgrees
<1>4. ASSUME NEW status \in EFFECT_STATES, NEW outcome \in AttemptStates, NEW count \in {0, 1},
             SettleAttempt(o, status, outcome, count)
      PROVE  /\ effect'[o].status = status /\ effect'[o].physical = count
             /\ effect'[o].attempt = e.attempt /\ effect'[o].limit = e.limit
  BY <1>1, <1>2, <1>4, SettleAttemptType, SettledFields
<1> USE DEF EFFECT_STATES, AttemptStates
<1>5. CASE CompleteEffect(o)
  <2>1. e.status = "claimed" /\ SettleAttempt(o, "completed", "succeeded", 1)
    BY <1>5 DEF CompleteEffect
  <2> QED
    BY <2>1, <1>1, <1>2, <1>3, <1>4 DEF RowMoves
<1>6. CASE MarkEffectUncertain(o)
  <2>1. e.status = "claimed" /\ SettleAttempt(o, "uncertain", "uncertain", e.physical)
    BY <1>6 DEF MarkEffectUncertain
  <2> QED
    BY <2>1, <1>1, <1>2, <1>4 DEF RowMoves
<1>7. CASE ReconcileApplied(o)
  <2>1. /\ e.status \in {"uncertain", "retryable"}
        /\ SettleAttempt(o, "completed", "reconciled_applied", 1)
    BY <1>7 DEF ReconcileApplied, Reconcile
  <2> QED
    BY <2>1, <1>1, <1>2, <1>3, <1>4 DEF RowMoves
<1>8. CASE ReconcileNotApplied(o)
  <2>1. /\ e.status \in {"uncertain", "retryable"}
        /\ SettleAttempt(o, "retryable", "reconciled_not_applied", e.physical)
    BY <1>8 DEF ReconcileNotApplied, Reconcile
  <2> QED
    BY <2>1, <1>1, <1>2, <1>4 DEF RowMoves
<1>9. CASE ReconcileUnknown(o)
  <2>1. /\ e.status \in {"uncertain", "retryable"}
        /\ SettleAttempt(o, "unknown", "reconciled_unknown", e.physical)
    BY <1>9 DEF ReconcileUnknown, Reconcile
  <2> QED
    BY <2>1, <1>1, <1>2, <1>4 DEF RowMoves
<1> QED
  BY <1>5, <1>6, <1>7, <1>8, <1>9 DEF OutcomeStep

(* A step of the owner moves at most one row, along the protocol. *)
LEMMA OneRowMoves ==
  ASSUME TypeOK, AttemptLedgerAgrees, [Next]_vars
  PROVE  \/ effect' = effect
         \/ \E o \in Operations :
              /\ RowMoves(effect[o], effect'[o])
              /\ \A p \in Operations \ {o} : effect'[p] = effect[p]
<1>1. ASSUME NEW r \in Runs, NEW q \in Requests, Claimed(r, q)
      PROVE  /\ q.op \in Operations
             /\ RowMoves(effect[q.op], effect'[q.op])
             /\ \A p \in Operations \ {q.op} : effect'[p] = effect[p]
  <2>1. /\ q.op \in Operations /\ effect[q.op] = NoRow
        /\ effect' = [effect EXCEPT ![q.op] = FirstAttempt(r, q)]
    BY <1>1, ClaimedRow
  <2>2. effect'[q.op] = FirstAttempt(r, q)
        /\ \A p \in Operations \ {q.op} : effect'[p] = effect[p]
    BY <2>1 DEF TypeOK
  <2>3. q.class \in ALLOWED_EFFECT_CLASSES
    BY <1>1 DEF Claimed
  <2> QED
    BY <2>1, <2>2, <2>3, FirstMove
<1>2. ASSUME NEW r \in Runs, NEW q \in Requests, ClaimRetry(r, q)
      PROVE  /\ q.op \in Operations
             /\ RowMoves(effect[q.op], effect'[q.op])
             /\ \A p \in Operations \ {q.op} : effect'[p] = effect[p]
  <2>1. /\ q.op \in Operations /\ effect[q.op] \in EffectRow
        /\ effect'[q.op] = NextAttempt(effect[q.op])
        /\ \A p \in Operations \ {q.op} : effect'[p] = effect[p]
    BY <1>2, ClaimRetryType
  <2>2. effect[q.op].status = "retryable" /\ effect[q.op].attempt < effect[q.op].limit
    BY <1>2 DEF ClaimRetry
  <2> QED
    BY <2>1, <2>2, RetryMove
<1>3. ASSUME NEW o \in Operations, OutcomeStep(o)
      PROVE  /\ RowMoves(effect[o], effect'[o])
             /\ \A p \in Operations \ {o} : effect'[p] = effect[p]
  BY <1>3, OutcomeMove, OutcomeRow
<1> QED
  BY <1>1, <1>2, <1>3, EffectSteps

-----------------------------------------------------------------------------
(* The refinement mapping. *)

Phases == [o \in Operations |-> PhaseOf(effect[o].status)]
Tries == [o \in Operations |-> AttemptOf(effect[o])]
Limits == [o \in Operations |-> LimitOf(effect[o])]
Counts == [o \in Operations |-> PhysicalOf(effect[o])]

LEMMA MappedRow ==
  ASSUME NEW e \in EffectRow
  PROVE  /\ AttemptOf(e) = e.attempt /\ LimitOf(e) = e.limit /\ PhysicalOf(e) = e.physical
         /\ e.limit \in Nat \ {0} /\ e.attempt \in Nat \ {0} /\ e.physical \in {0, 1}
BY DEF EffectRow, NoRow, AttemptOf, LimitOf, PhysicalOf

LEMMA MappedNoRow ==
  /\ PhaseOf(NoRow.status) = "open"
  /\ AttemptOf(NoRow) = 0 /\ LimitOf(NoRow) = 0 /\ PhysicalOf(NoRow) = 0
BY DEF NoRow, PhaseOf, AttemptOf, LimitOf, PhysicalOf

LEMMA MappedPhases ==
  /\ PhaseOf("claimed") = "trying" /\ PhaseOf("uncertain") = "doubtful"
  /\ PhaseOf("retryable") = "failed" /\ PhaseOf("completed") = "done"
  /\ PhaseOf("unknown") = "lost"
BY DEF PhaseOf

(* Where one row changes, each mapped function changes at that row alone. *)
LEMMA MappedUpdate ==
  ASSUME NEW o \in Operations, \A p \in Operations \ {o} : effect'[p] = effect[p]
  PROVE  /\ Phases' = [Phases EXCEPT ![o] = PhaseOf(effect'[o].status)]
         /\ Tries' = [Tries EXCEPT ![o] = AttemptOf(effect'[o])]
         /\ Limits' = [Limits EXCEPT ![o] = LimitOf(effect'[o])]
         /\ Counts' = [Counts EXCEPT ![o] = PhysicalOf(effect'[o])]
<1>1. Phases' = [Phases EXCEPT ![o] = PhaseOf(effect'[o].status)]
  BY DEF Phases
<1>2. Tries' = [Tries EXCEPT ![o] = AttemptOf(effect'[o])]
  BY DEF Tries
<1>3. Limits' = [Limits EXCEPT ![o] = LimitOf(effect'[o])]
  BY DEF Limits
<1>4. Counts' = [Counts EXCEPT ![o] = PhysicalOf(effect'[o])]
  BY DEF Counts
<1> QED
  BY <1>1, <1>2, <1>3, <1>4

LEMMA MappedStep ==
  ASSUME TypeOK, NEW o \in Operations, RowMoves(effect[o], effect'[o]),
         \A p \in Operations \ {o} : effect'[p] = effect[p]
  PROVE  Bounded!ProtocolStep(o)
<1> DEFINE e == effect[o]
           f == effect'[o]
<1>1. f \in EffectRow /\ (e = NoRow \/ e \in EffectRow)
  BY DEF RowMoves
<1>2. /\ Phases[o] = PhaseOf(e.status) /\ Tries[o] = AttemptOf(e)
      /\ Limits[o] = LimitOf(e) /\ Counts[o] = PhysicalOf(e)
  BY DEF Phases, Tries, Limits, Counts
<1>3. /\ AttemptOf(f) = f.attempt /\ LimitOf(f) = f.limit /\ PhysicalOf(f) = f.physical
      /\ f.limit \in Nat \ {0}
  BY <1>1, MappedRow
<1>4. /\ Phases' = [Phases EXCEPT ![o] = PhaseOf(f.status)]
      /\ Tries' = [Tries EXCEPT ![o] = f.attempt]
      /\ Limits' = [Limits EXCEPT ![o] = f.limit]
      /\ Counts' = [Counts EXCEPT ![o] = f.physical]
  BY <1>3, MappedUpdate
<1>5. /\ o \in DOMAIN Tries /\ o \in DOMAIN Limits /\ o \in DOMAIN Counts
      /\ Tries = [p \in Operations |-> Tries[p]] /\ Limits = [p \in Operations |-> Limits[p]]
      /\ Counts = [p \in Operations |-> Counts[p]]
  BY DEF Tries, Limits, Counts
<1>6. ASSUME f.limit = Limits[o] PROVE Limits' = Limits
  BY <1>4, <1>5, <1>6
<1>7. ASSUME f.physical = Counts[o] PROVE Counts' = Counts
  BY <1>4, <1>5, <1>7
<1>8. ASSUME f.attempt = Tries[o] PROVE Tries' = Tries
  BY <1>4, <1>5, <1>8
<1>9. Limits'[o] = f.limit
  BY <1>4, <1>5
<1> USE DEF Bounded!Becomes, Bounded!Counts
<1>10. CASE e = NoRow /\ f.status = "claimed" /\ f.attempt = 1 /\ f.physical = 0
  <2>1. /\ Phases[o] = "open" /\ Tries[o] = 0 /\ Counts[o] = 0
    BY <1>2, <1>10, MappedNoRow
  <2>2. PhaseOf(f.status) = "trying"
    BY <1>10, MappedPhases
  <2>3. Tries' = [Tries EXCEPT ![o] = Tries[o] + 1]
    BY <2>1, <1>4, <1>10
  <2>4. Counts' = Counts
    BY <2>1, <1>7, <1>10
  <2>5. Limits' = [Limits EXCEPT ![o] = Limits'[o]]
    BY <1>4, <1>9
  <2>6. Bounded!FirstTry(o)
    BY <2>1, <2>2, <2>3, <2>4, <2>5, <1>3, <1>4, <1>9
    DEF Bounded!FirstTry, Phases, Tries, Limits, Counts
  <2> QED
    BY <2>6 DEF Bounded!ProtocolStep
<1>11. CASE e \in EffectRow /\ f.limit = e.limit
  <2>1. Tries[o] = e.attempt /\ Limits[o] = e.limit /\ Counts[o] = e.physical
        /\ e.attempt \in Nat \ {0} /\ e.physical \in {0, 1}
    BY <1>2, <1>11, MappedRow
  <2>2. Limits' = Limits
    BY <2>1, <1>6, <1>11
  <2>3. CASE /\ e.status = "retryable" /\ f.status = "claimed"
             /\ e.attempt < e.limit /\ f.attempt = e.attempt + 1 /\ f.physical = e.physical
    <3>1. Phases[o] = "failed" /\ PhaseOf(f.status) = "trying"
      BY <2>3, <1>2, MappedPhases
    <3>2. Tries' = [Tries EXCEPT ![o] = Tries[o] + 1] /\ Counts' = Counts
      BY <2>1, <2>3, <1>4, <1>7
    <3>3. Bounded!Retry(o)
      BY <2>1, <2>2, <2>3, <3>1, <3>2, <1>4 DEF Bounded!Retry, Phases, Tries, Limits, Counts
    <3> QED
      BY <3>3 DEF Bounded!ProtocolStep
  <2>4. CASE /\ f.attempt = e.attempt /\ f.physical = e.physical
             /\ e.status = "claimed" /\ f.status = "uncertain"
    <3>1. Phases[o] = "trying" /\ PhaseOf(f.status) = "doubtful"
      BY <2>4, <1>2, MappedPhases
    <3>2. Tries' = Tries /\ Counts' = Counts
      BY <2>1, <2>4, <1>7, <1>8
    <3>3. Bounded!Doubt(o)
      BY <2>2, <3>1, <3>2, <1>4 DEF Bounded!Doubt, Phases, Tries, Limits, Counts
    <3> QED
      BY <3>3 DEF Bounded!ProtocolStep
  <2>5. CASE /\ f.attempt = e.attempt /\ f.physical = e.physical
             /\ e.status \in {"uncertain", "retryable"} /\ f.status \in {"retryable", "unknown"}
    <3>1. Phases[o] \in {"doubtful", "failed"} /\ PhaseOf(f.status) \in {"failed", "lost"}
      BY <2>5, <1>2, MappedPhases
    <3>2. Tries' = Tries /\ Counts' = Counts
      BY <2>1, <2>5, <1>7, <1>8
    <3>3. Bounded!Resolve(o)
      BY <2>2, <3>1, <3>2, <1>4 DEF Bounded!Resolve, Phases, Tries, Limits, Counts
    <3> QED
      BY <3>3 DEF Bounded!ProtocolStep
  <2>6. CASE /\ f.attempt = e.attempt /\ e.physical = 0 /\ f.physical = 1
             /\ e.status \in {"claimed", "uncertain", "retryable"} /\ f.status = "completed"
    <3>1. Phases[o] \in {"trying", "doubtful", "failed"} /\ PhaseOf(f.status) = "done"
      BY <2>6, <1>2, MappedPhases
    <3>2. Tries' = Tries /\ Counts' = [Counts EXCEPT ![o] = Counts[o] + 1]
      BY <2>1, <2>6, <1>4, <1>8
    <3>3. Bounded!Succeed(o)
      BY <2>2, <3>1, <3>2, <1>4 DEF Bounded!Succeed, Phases, Tries, Limits, Counts
    <3> QED
      BY <3>3 DEF Bounded!ProtocolStep
  <2> QED
    BY <2>3, <2>4, <2>5, <2>6, <1>11, NoRowIsNoEffectRow DEF RowMoves
<1> QED
  BY <1>10, <1>11 DEF RowMoves

LEMMA MappedInit == Init => Bounded!Open
<1> SUFFICES ASSUME Init PROVE Bounded!Open
  OBVIOUS
<1>1. \A o \in Operations : effect[o] = NoRow
  BY DEF Init
<1> QED
  BY <1>1, MappedNoRow DEF Bounded!Open, Bounded!Zero

LEMMA MappedNext ==
  ASSUME TypeOK, AttemptLedgerAgrees, [Next]_vars
  PROVE  [\E e \in Operations : Bounded!ProtocolStep(e)]_(Bounded!protocol)
<1>1. CASE effect' = effect
  BY <1>1 DEF Bounded!protocol
<1>2. ASSUME NEW o \in Operations, RowMoves(effect[o], effect'[o]),
             \A p \in Operations \ {o} : effect'[p] = effect[p]
      PROVE  Bounded!ProtocolStep(o)
  BY <1>2, MappedStep
<1> QED
  BY <1>1, <1>2, OneRowMoves

(* Every behaviour of the owner is one of the protocol: for any runs,      *)
(* requests and exposures, the effect of an operation is tried within its  *)
(* budget, again only after an observation, and counted once.              *)
THEOREM OwnerImplementsBoundedEffect == Spec => ImplementsBoundedEffect
<1>1. Spec => [](TypeOK /\ AttemptLedgerAgrees)
  BY OwnerTypes, RetriesAreBoundedAndObserved, PTL
<1>2. TypeOK /\ AttemptLedgerAgrees /\ [Next]_vars =>
        [\E e \in Operations : Bounded!ProtocolStep(e)]_(Bounded!protocol)
  BY MappedNext
<1>3. Spec => Bounded!Open
  BY MappedInit DEF Spec
<1>4. Spec => [][\E e \in Operations : Bounded!ProtocolStep(e)]_(Bounded!protocol)
  BY <1>1, <1>2, PTL DEF Spec
<1> QED
  BY <1>3, <1>4 DEF ImplementsBoundedEffect, Bounded!Protocol
-----------------------------------------------------------------------------
(* The clients of the owner.                                               *)
(*                                                                         *)
(* Beside the owner's own steps with the requests, boundaries and parents  *)
(* of its constants, a client creates runs below parents of its own choice *)
(* and pins boundaries of its own making.                                  *)
ClientStep ==
  \/ [Next]_vars
  \/ \E r \in Runs, parent \in Runs \union {NoRun} : CreateRun(r, parent)
  \/ \E r \in Runs, boundary \in Exposure : DeclareExposure(r, boundary)

(* What the owner keeps is kept under any of them. *)
LEMMA ClientKeepsOwner ==
  ASSUME OwnerInv, ClientStep
  PROVE  OwnerInv'
<1> USE DEF OwnerInv
<1>1. CASE [Next]_vars
  BY <1>1, TypePreserved, LedgerPreserved, ApprovalsPreserved, KeysPreserved, CompletedPreserved,
     FailedPreserved, StartPreserved
<1>2. ASSUME UNCHANGED <<approval, effect>>
      PROVE  AttemptLedgerAgrees' /\ ConsumedApprovalBacksEffect' /\ IdempotencyKeyUsedOnce'
  BY <1>2 DEF AttemptLedgerAgrees, ConsumedApprovalBacksEffect, IdempotencyKeyUsedOnce, HasEffect
<1>3. ASSUME NEW r \in Runs, NEW parent \in Runs \union {NoRun}, CreateRun(r, parent)
      PROVE  OwnerInv'
  <2>1. /\ run[r] = "absent" /\ run'[r] = "created"
        /\ \A x \in Runs \ {r} : run'[x] = run[x] /\ link'[x] = link[x]
        /\ UNCHANGED <<approval, effect, exposure, result, suspected>>
    BY <1>3 DEF CreateRun, TypeOK
  <2>2. TypeOK'
    BY <1>3, <2>1 DEF CreateRun, TypeOK, RUN_STATES, Live
  <2>3. CompletedRunSettled'
    <3> SUFFICES ASSUME NEW x \in Runs, run'[x] = "completed"
                 PROVE  /\ EffectsOf(x, EFFECT_STATES \ {"completed"})' = {}
                        /\ ~LinkBroken(x)'
                        /\ result'[x]["semantic"] # NoValue
      BY DEF CompletedRunSettled
    <3>1. x # r /\ run[x] = "completed" /\ link'[x] = link[x]
      BY <2>1
    <3>2. /\ EffectsOf(x, EFFECT_STATES \ {"completed"}) = {}
          /\ ~LinkBroken(x) /\ result[x]["semantic"] # NoValue
      BY <3>1 DEF CompletedRunSettled
    <3>3. ~LinkBroken(x)'
      BY <2>1, <3>1, <3>2 DEF LinkBroken, TypeOK
    <3> QED
      BY <2>1, <3>2, <3>3 DEF EffectsOf
  <2>4. FailedRunNotInDoubt'
    BY <2>1 DEF FailedRunNotInDoubt, EffectsOf
  <2>5. NoEffectBeforeStart'
    BY <2>1 DEF NoEffectBeforeStart, EffectsOf
  <2> QED
    BY <1>2, <2>1, <2>2, <2>3, <2>4, <2>5
<1>4. ASSUME NEW r \in Runs, NEW boundary \in Exposure, DeclareExposure(r, boundary)
      PROVE  OwnerInv'
  <2>1. UNCHANGED <<run, link, approval, effect, result, suspected>>
    BY <1>4 DEF DeclareExposure
  <2>2. TypeOK'
    BY <1>4 DEF DeclareExposure, TypeOK
  <2>3. CompletedRunSettled' /\ FailedRunNotInDoubt' /\ NoEffectBeforeStart'
    BY <2>1 DEF CompletedRunSettled, FailedRunNotInDoubt, NoEffectBeforeStart, EffectsOf, LinkBroken
  <2> QED
    BY <1>2, <2>1, <2>2, <2>3
<1> QED
  BY <1>1, <1>3, <1>4 DEF ClientStep

LEMMA ClientKeepsProtocol ==
  ASSUME OwnerInv, ClientStep
  PROVE  [\E e \in Operations : Bounded!ProtocolStep(e)]_(Bounded!protocol)
<1>1. CASE [Next]_vars
  BY <1>1, MappedNext DEF OwnerInv
<1>2. CASE effect' = effect
  BY <1>2 DEF Bounded!protocol
<1> QED
  BY <1>1, <1>2 DEF ClientStep, CreateRun, DeclareExposure

(* The steps that a client adds move no effect, and no run but a new one.  *)
LEMMA ClientKeepsActions ==
  ASSUME OwnerInv, ClientStep
  PROVE  /\ [\A r \in Runs : run[r] \in Terminal /\ run'[r] # run[r] =>
                /\ run'[r] = "running"
                /\ UNCHANGED <<link, approval, effect, exposure, result, suspected>>]_vars
         /\ [\A o \in Operations : effect[o].status \in {"completed", "unknown"} =>
                effect'[o] = effect[o]]_vars
         /\ [\A o \in Operations : effect'[o].status # effect[o].status =>
                /\ effect'[o].status = "uncertain" => run'[effect'[o].run] = "recovering"
                /\ effect'[o].status = "unknown" => run'[effect'[o].run] = "safe_stopped"
                /\ effect'[o].status = "claimed" => run'[effect'[o].run] = "running"]_vars
<1>1. TypeOK
  BY DEF OwnerInv
<1>2. CASE [Next]_vars
  <2>1. ASSUME NEW r \in Runs, run[r] \in Terminal, run'[r] # run[r]
        PROVE  /\ run'[r] = "running"
               /\ UNCHANGED <<link, approval, effect, exposure, result, suspected>>
    BY <1>1, <1>2, <2>1, TerminalStep DEF RestartRun, TypeOK
  <2>2. [\A o \in Operations : effect[o].status \in {"completed", "unknown"} =>
           effect'[o] = effect[o]]_vars
    BY <1>1, <1>2, FinalStep
  <2>3. [\A o \in Operations : effect'[o].status # effect[o].status =>
           /\ effect'[o].status = "uncertain" => run'[effect'[o].run] = "recovering"
           /\ effect'[o].status = "unknown" => run'[effect'[o].run] = "safe_stopped"
           /\ effect'[o].status = "claimed" => run'[effect'[o].run] = "running"]_vars
    BY <1>1, <1>2, DoubtStep
  <2> QED
    BY <2>1, <2>2, <2>3
<1>3. CASE \/ \E r \in Runs, parent \in Runs \union {NoRun} : CreateRun(r, parent)
           \/ \E r \in Runs, boundary \in Exposure : DeclareExposure(r, boundary)
  <2>1. effect' = effect
    BY <1>3 DEF CreateRun, DeclareExposure
  <2>2. \A r \in Runs : run[r] \in Terminal => run'[r] = run[r]
    BY <1>1, <1>3 DEF CreateRun, DeclareExposure, TypeOK, Terminal
  <2> QED
    BY <2>1, <2>2
<1> QED
  BY <1>2, <1>3 DEF ClientStep

(* A client may find runs under way, as long as it finds no effect, no     *)
(* decision on an approval, and no run at its end.                         *)
ClientStart ==
  /\ TypeOK
  /\ \A r \in Runs : run[r] \notin Terminal
  /\ \A o \in Operations : effect[o] = NoRow /\ approval[o].status # "consumed"

LEMMA ClientBegins ==
  ASSUME ClientStart
  PROVE  OwnerInv /\ Bounded!Open
<1>1. \A o \in Operations : effect[o] = NoRow /\ effect[o].status = "none"
  BY DEF ClientStart, NoRow
<1>2. Bounded!Open
  BY <1>1, MappedNoRow DEF Bounded!Open, Bounded!Zero
<1>3. AttemptLedgerAgrees /\ ConsumedApprovalBacksEffect /\ IdempotencyKeyUsedOnce
  BY <1>1 DEF ClientStart, AttemptLedgerAgrees, ConsumedApprovalBacksEffect, IdempotencyKeyUsedOnce,
     HasEffect
<1>4. CompletedRunSettled /\ FailedRunNotInDoubt /\ NoEffectBeforeStart
  BY <1>1 DEF ClientStart, CompletedRunSettled, FailedRunNotInDoubt, NoEffectBeforeStart, EffectsOf,
     EFFECT_STATES, Terminal
<1> QED
  BY <1>2, <1>3, <1>4 DEF ClientStart, OwnerInv

LEMMA OwnerStarts == Init => ClientStart
<1> SUFFICES ASSUME Init PROVE ClientStart
  OBVIOUS
<1>1. \A o \in Operations : effect[o] = NoRow /\ approval[o].status # "consumed"
  BY DEF Init, NoRow
<1>2. \A r \in Runs : run[r] \notin Terminal
  BY DEF Init, Terminal
<1> QED BY <1>1, <1>2, InitType DEF ClientStart
=============================================================================
