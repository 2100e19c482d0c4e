------------------------------ MODULE PushSeam ------------------------------
(***************************************************************************)
(* The push seam (src/zworkbench/push_seam.py, driven by push_run.py) over *)
(* the durable owner: processes that each make one call of push for the    *)
(* same approved operation, the remote they push to, third parties who     *)
(* push there too, and the operator who settles what is left in doubt.     *)
(*                                                                         *)
(* A call may die between any two of its steps, and its git push may still *)
(* reach the remote afterwards.  The branch is old, at the commit, or at   *)
(* something else; third parties only move it forward, and old may be      *)
(* fast-forwarded to the commit.  The operator tells the truth as it is    *)
(* when asked, and gives up on an attempt only when its call is over.      *)
(***************************************************************************)
EXTENDS CompositionOwner

CONSTANTS
  Calls,             \* calls of push, each made once: a retry is another call
  PushRun,           \* the run that owns the effect
  PushRequest,       \* the effect request the calls submit
  ForceWithLease     \* the force_with_lease argument

ASSUME PushAssumption ==
  /\ PushRun \in Runs
  /\ PushRequest \in Requests
  /\ PushRequest.class = "approval-required"
  /\ ForceWithLease \in BOOLEAN

VARIABLES
  call,      \* each call: its step, what its probe saw, the attempt it claimed
  wire,      \* the git push of each call: none, sent, landed or refused
  remote,    \* the branch on the remote
  reached    \* has the commit ever been at the branch?

seamVars == <<call, wire, remote, reached>>
pushVars == <<vars, seamVars>>

operation == PushRequest.op
Refs == {"old", "commit", "other"}
(* How a call ends: with the status that `write-push' prints, or silently. *)
Over == {"denied", "uncertain", "failed", "completed", "dead"}

CallSteps == {"idle", "declared", "claimed", "doubted", "ready", "pushing", "verifying",
              "doubtful", "completing", "closing"} \union Over

PushTypeOK ==
  /\ TypeOK
  /\ call \in [Calls -> [pc : CallSteps, before : Refs \union {"unknown"}, attempt : Nat]]
  /\ wire \in [Calls -> {"none", "sent", "landed", "refused"}]
  /\ remote \in Refs
  /\ reached \in BOOLEAN

(* The approval has been requested, the run created. *)
PushInit ==
  /\ run = [r \in Runs |-> IF r = PushRun THEN "created" ELSE "absent"]
  /\ link = [r \in Runs |-> NoRun]
  /\ approval = [o \in Operations |->
       IF o = operation
       THEN [run |-> PushRun, key |-> PushRequest.key, scope |-> PushRequest.scope,
             status |-> "pending", validity |-> "fresh"]
       ELSE NoRow]
  /\ effect = [o \in Operations |-> NoRow]
  /\ exposure = [r \in Runs |-> Undeclared]
  /\ result = [r \in Runs |-> [k \in {"semantic", "error"} |-> NoValue]]
  /\ suspected = {}
  /\ call = [c \in Calls |-> [pc |-> "idle", before |-> "unknown", attempt |-> 0]]
  /\ wire = [c \in Calls |-> "none"]
  /\ remote = "old"
  /\ reached = FALSE

-----------------------------------------------------------------------------
(* One call of push. *)

CallAt(c, step) == call[c].pc = step
CallGoto(c, step) == call' = [call EXCEPT ![c].pc = step]

PUSH_EXPOSURE ==
  [classes |-> {"approval-required"}, scopes |-> {PushRequest.scope}, grants |-> Capabilities]

Declare(c) ==
  /\ CallAt(c, "idle")
  /\ DeclareExposure(PushRun, PUSH_EXPOSURE)
  /\ CallGoto(c, "declared")
  /\ UNCHANGED <<wire, remote, reached>>

(* Mutant: a claim that finds the effect in flight takes the attempt over. *)
ClaimTakesOver(c) ==
  /\ CallAt(c, "declared")
  /\ \/ /\ ClaimStep(PushRun, PushRequest)
        /\ IF effect' = effect THEN CallGoto(c, "failed")
           ELSE call' = [call EXCEPT ![c].pc = "claimed", ![c].attempt = effect'[operation].attempt]
     \/ /\ effect[operation].status = "claimed"
        /\ call' = [call EXCEPT ![c].pc = "claimed", ![c].attempt = effect[operation].attempt]
        /\ UNCHANGED vars
  /\ UNCHANGED <<wire, remote, reached>>

(* Mutant: every decision but an executable one closes the run. *)
ClaimClosesAnyway(c) ==
  /\ CallAt(c, "declared")
  /\ ClaimStep(PushRun, PushRequest)
  /\ IF effect' = effect THEN CallGoto(c, "closing")
     ELSE call' = [call EXCEPT ![c].pc = "claimed", ![c].attempt = effect'[operation].attempt]
  /\ UNCHANGED <<wire, remote, reached>>

(* An executable claim goes on; a claim that finds the effect completed    *)
(* returns its receipt; every other decision ends the call with an error.  *)
Claim(c) ==
  /\ CallAt(c, "declared")
  /\ \/ /\ ClaimStep(PushRun, PushRequest)
        /\ IF effect' = effect THEN CallGoto(c, "failed")
           ELSE call' = [call EXCEPT ![c].pc = "claimed", ![c].attempt = effect'[operation].attempt]
     \/ /\ \/ run[PushRun] \in Terminal
           \/ effect[operation].status \in {"claimed", "uncertain", "unknown", "completed"}
        /\ CallGoto(c, IF effect[operation].status = "completed" THEN "closing" ELSE "failed")
        /\ UNCHANGED vars
  /\ UNCHANGED <<wire, remote, reached>>

(* May the owner record doubt?  Otherwise mark_effect_uncertain raises. *)
MayDoubt ==
  /\ effect[operation].status = "claimed"
  /\ run[PushRun] \in {"running", "recovering"}

(* A class: a precondition is violated, first half of the account. *)
PrecheckFails(c) ==
  /\ CallAt(c, "claimed")
  /\ IF MayDoubt THEN MarkEffectUncertain(operation) /\ CallGoto(c, "doubted")
                 ELSE UNCHANGED vars /\ CallGoto(c, "failed")
  /\ UNCHANGED <<wire, remote, reached>>

(* Second half, in a transaction of its own. *)
ReportNotApplied(c) ==
  /\ CallAt(c, "doubted")
  /\ \/ ReconcileNotApplied(operation) /\ CallGoto(c, "denied")
     \/ /\ \/ effect[operation].status \notin {"uncertain", "retryable"}
           \/ run[PushRun] \in {"completed", "failed"}
        /\ UNCHANGED vars
        /\ CallGoto(c, "failed")
  /\ UNCHANGED <<wire, remote, reached>>

(* Mutant: the empty output of a failed ls-remote is taken for a ref. *)
ProbeEmpty(c) ==
  /\ CallAt(c, "claimed")
  /\ \E seen \in {remote, "empty"} :
       call' = [call EXCEPT ![c].pc = IF seen = "commit" THEN "completing" ELSE "ready",
                            ![c].before = seen]
  /\ UNCHANGED <<vars, wire, remote, reached>>

(* The preconditions hold and the remote is probed; ls-remote may fail. *)
Probe(c) ==
  /\ CallAt(c, "claimed")
  /\ \E seen \in {remote, "unknown"} :
       call' = [call EXCEPT ![c].pc = IF seen = "commit" THEN "completing" ELSE "ready",
                            ![c].before = seen]
  /\ UNCHANGED <<vars, wire, remote, reached>>

IssuePush(c) ==
  /\ CallAt(c, "ready")
  /\ wire' = [wire EXCEPT ![c] = "sent"]
  /\ CallGoto(c, "pushing")
  /\ UNCHANGED <<vars, remote, reached>>

(* Mutant: the exit code of git push is not looked at. *)
PushReturnsUnchecked(c) ==
  /\ CallAt(c, "pushing")
  /\ wire[c] # "sent"
  /\ CallGoto(c, "completing")
  /\ UNCHANGED <<vars, wire, remote, reached>>

(* Exit code zero only for a push that landed; its report may be lost. *)
PushReturns(c) ==
  /\ CallAt(c, "pushing")
  /\ wire[c] # "sent"
  /\ \/ CallGoto(c, "doubtful")
     \/ wire[c] = "landed" /\ CallGoto(c, "verifying")
  /\ UNCHANGED <<vars, wire, remote, reached>>

Verify(c) ==
  /\ CallAt(c, "verifying")
  /\ \E seen \in {remote, "unknown"} :
       CallGoto(c, IF seen = "commit" THEN "completing" ELSE "doubtful")
  /\ UNCHANGED <<vars, wire, remote, reached>>

(* B class. *)
ReportDoubt(c) ==
  /\ CallAt(c, "doubtful")
  /\ IF MayDoubt THEN MarkEffectUncertain(operation) /\ CallGoto(c, "uncertain")
                 ELSE UNCHANGED vars /\ CallGoto(c, "failed")
  /\ UNCHANGED <<wire, remote, reached>>

Complete(c) ==
  /\ CallAt(c, "completing")
  /\ IF effect[operation].status = "claimed"
     THEN CompleteEffect(operation) /\ CallGoto(c, "closing")
     ELSE UNCHANGED vars /\ CallGoto(c, "failed")
  /\ UNCHANGED <<wire, remote, reached>>

(* The orchestrator completes the run, unless that has been done.  The     *)
(* owner refuses to complete a stopped run: the call fails, after its push.*)
CloseRun(c) ==
  /\ CallAt(c, "closing")
  /\ IF run[PushRun] = "running"
     THEN (\E v \in Values : CompleteRun(PushRun, v)) /\ CallGoto(c, "completed")
     ELSE UNCHANGED vars /\ CallGoto(c, IF run[PushRun] = "completed" THEN "completed" ELSE "failed")
  /\ UNCHANGED <<wire, remote, reached>>

CallStep(c) ==
  \/ Declare(c) \/ Claim(c) \/ PrecheckFails(c) \/ ReportNotApplied(c)
  \/ Probe(c) \/ IssuePush(c) \/ PushReturns(c) \/ Verify(c)
  \/ ReportDoubt(c) \/ Complete(c) \/ CloseRun(c)

(* The process dies, or an exception nobody handles ends the call. *)
Crash(c) ==
  /\ call[c].pc \notin {"idle"} \union Over
  /\ CallGoto(c, "dead")
  /\ UNCHANGED <<vars, wire, remote, reached>>

-----------------------------------------------------------------------------
(* The remote. *)

Lease(c) == ForceWithLease /\ call[c].before # "unknown"

Accepts(c) == IF Lease(c) THEN remote = call[c].before ELSE remote # "other"

(* A push arrives, perhaps long after its caller has gone. *)
Arrive(c) ==
  /\ wire[c] = "sent"
  /\ wire' = [wire EXCEPT ![c] = IF Accepts(c) THEN "landed" ELSE "refused"]
  /\ remote' = IF Accepts(c) THEN "commit" ELSE remote
  /\ reached' = (reached \/ Accepts(c))
  /\ UNCHANGED <<vars, call>>

(* The connection breaks while the remote is still at work. *)
ConnectionLost(c) ==
  /\ CallAt(c, "pushing")
  /\ wire[c] = "sent"
  /\ CallGoto(c, "doubtful")
  /\ UNCHANGED <<vars, wire, remote, reached>>

OthersPush ==
  /\ remote # "other"
  /\ remote' \in {"commit", "other"} \ {remote}
  /\ reached' = (reached \/ remote' = "commit")
  /\ UNCHANGED <<vars, call, wire>>

-----------------------------------------------------------------------------
(* The operator. *)

Observe ==
  /\ \/ reached /\ ReconcileApplied(operation)
     \/ ~reached /\ ReconcileNotApplied(operation)
     \/ ReconcileUnknown(operation)
  /\ UNCHANGED seamVars

GiveUpOnAttempt ==
  /\ effect[operation].status = "claimed"
  /\ \A c \in Calls : call[c].attempt = effect[operation].attempt => call[c].pc \in Over
  /\ MarkEffectUncertain(operation)
  /\ UNCHANGED seamVars

Operator ==
  \/ Observe
  \/ GiveUpOnAttempt
  \/ (ApprovalStep(operation) \/ SafeStopRun(PushRun) \/ RestartRun(PushRun)) /\ UNCHANGED seamVars

-----------------------------------------------------------------------------
PushNext ==
  \/ \E c \in Calls : CallStep(c) \/ Crash(c) \/ Arrive(c) \/ ConnectionLost(c)
  \/ OthersPush
  \/ Operator

PushSafety == PushInit /\ [][PushNext]_pushVars

-----------------------------------------------------------------------------
(* Properties. *)

(* One attempt, one push: however calls crash, retry and replay, no two    *)
(* git push commands were issued under the same claimed attempt.           *)
OnePushPerAttempt ==
  \A c, d \in Calls :
    wire[c] # "none" /\ wire[d] # "none" /\ call[c].attempt = call[d].attempt => c = d

(* A completed push effect is true: the commit has been at the branch,     *)
(* whether this call or another put it there, and whatever the operator    *)
(* and third parties did in the meantime.  And `write-push' answers with   *)
(* the truth: completed only for a completed effect, and denied only when  *)
(* the call has pushed nothing.                                            *)
ReceiptsAreTrue ==
  /\ effect[operation].status = "completed" => reached
  /\ \A c \in Calls :
       /\ CallAt(c, "completed") => effect[operation].status = "completed"
       /\ CallAt(c, "denied") => wire[c] = "none"

(* The run is completed only on the strength of a completed push.          *)
CompletedRunHasPushed ==
  run[PushRun] = "completed" => effect[operation].status = "completed"

(* An outcome that a call reports of its push settles the attempt that the *)
(* call claimed, not a later one: outcomes name only the effect.           *)
OutcomeHitsOwnAttempt ==
  [][\A c \in Calls :
       (CallAt(c, "doubtful") \/ CallAt(c, "completing")) /\ call'[c] # call[c] /\ effect' # effect =>
         effect[operation].attempt = call[c].attempt]_pushVars

-----------------------------------------------------------------------------
(* What docstrings say and the code does not do. *)

(* An attempt that a call reports as not applied has issued no push ("no   *)
(* physical push happened").  The report is two transactions, and a retry  *)
(* may be claimed between them.                                            *)
NotAppliedMeansNotPushed ==
  [][\A c, d \in Calls :
       /\ CallAt(c, "doubted") /\ call'[c] # call[c] /\ effect' # effect
       /\ call[d].attempt = effect[operation].attempt
       => wire[d] = "none"]_pushVars
=============================================================================
