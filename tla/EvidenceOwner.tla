--------------------------- MODULE EvidenceOwner ---------------------------
(* The durable owner of the workbench server (app/internal/evidence): the
   Go counterpart of CompositionOwner, over a database of its own.  Every
   exported operation runs in one transaction and is one action here; an
   operation that returns an error rolls back and is no step.

   An operation id of the server is derived from the run and the profile
   (execution/service.go, operationID), so a row of approvals or effects is
   named by its operation, RunOf gives its run, and the scope of a request
   always agrees with the row.  The effects the server claims are all
   approval-required.  Events, timestamps and payloads are left out. *)
EXTENDS Naturals

CONSTANTS Runs,         \* run identities
          Operations,   \* operation ids, one per run and profile
          RunOf,        \* the run of each operation
          MaxAttempts,  \* the attempts a claim allows (the service says 1)
          MaxCount      \* bound on the counted physical effects

ASSUME OwnerAssumption ==
    /\ RunOf \in [Operations -> Runs]
    /\ MaxAttempts \in Nat \ {0}
    /\ MaxCount \in Nat \ {0}

VARIABLES runs,       \* status of each run, "absent" before CreateRun
          graph,      \* does the parent or child named in the metadata exist
          exposure,   \* does the declared exposure, if any, cover a claim
          approvals,  \* one row per operation: status, and has it expired
          effects     \* one row per operation: status, attempt, count

ownerVars == <<runs, graph, exposure, approvals, effects>>

RunStatus == {"created", "running", "waiting_approval", "recovering",
              "completed", "failed", "safe_stopped"}
Terminal == {"completed", "failed", "safe_stopped"}
Unresolved == {"claimed", "uncertain", "retryable", "unknown"}
EffectStatus == Unresolved \cup {"none", "completed"}
Tokens == {"issued", "wrong", "missing"}

OwnerTypeOK ==
    /\ runs \in [Runs -> RunStatus \cup {"absent"}]
    /\ graph \in [Runs -> {"intact", "broken"}]
    /\ exposure \in [Runs -> {"covers", "excludes"}]
    /\ approvals \in [Operations ->
           [status : {"none", "pending", "approved", "denied", "consumed"},
            expired : BOOLEAN]]
    /\ effects \in [Operations ->
           [status : EffectStatus, attempt : 0..MaxAttempts,
            count : 0..MaxCount]]

OwnerInit ==
    /\ runs = [r \in Runs |-> "absent"]
    /\ graph = [r \in Runs |-> "intact"]
    /\ exposure = [r \in Runs |-> "covers"]
    /\ approvals = [o \in Operations |-> [status |-> "none", expired |-> FALSE]]
    /\ effects = [o \in Operations |->
                     [status |-> "none", attempt |-> 0, count |-> 0]]

-----------------------------------------------------------------------------
(* The table of transitions and what setRunStatus does with it. *)

Transitions(s) ==
    CASE s = "created" -> {"running", "waiting_approval", "failed", "safe_stopped"}
      [] s = "running" -> {"waiting_approval", "recovering"} \cup Terminal
      [] s \in {"waiting_approval", "recovering"} ->
             {"running", "failed", "safe_stopped"}
      [] OTHER -> {}

\* setRunStatus succeeds: the status stays, or the table has the transition
MayBecome(old, new) == old = new \/ new \in Transitions(old)

SetRunStatus(r, new) ==
    /\ MayBecome(runs[r], new)
    /\ runs' = [runs EXCEPT ![r] = new]

OpenEffects(r) ==
    {o \in Operations : RunOf[o] = r /\ effects[o].status \in Unresolved}
PendingApprovals(r) ==
    {o \in Operations : RunOf[o] = r /\ approvals[o].status = "pending"}

SetEffect(o, status, attempt, count) ==
    effects' = [effects EXCEPT ![o] =
                    [status |-> status, attempt |-> attempt, count |-> count]]

-----------------------------------------------------------------------------
(* Runs *)

CreateRun(r, link) ==
    /\ runs[r] = "absent"
    /\ runs' = [runs EXCEPT ![r] = "created"]
    /\ graph' = [graph EXCEPT ![r] = link]
    /\ UNCHANGED <<exposure, approvals, effects>>

StartRun(r) ==
    /\ SetRunStatus(r, "running")
    /\ UNCHANGED <<graph, exposure, approvals, effects>>

\* bypasses the table: any run that exists may be re-armed
RestartRun(r) ==
    /\ runs[r] \in RunStatus
    /\ runs' = [runs EXCEPT ![r] = "running"]
    /\ UNCHANGED <<graph, exposure, approvals, effects>>

\* Mutant: only claimed effects keep a run from completing.
CanCompleteOpen(r) ==
    /\ runs[r] = "running"
    /\ PendingApprovals(r) = {}
    /\ \A o \in OpenEffects(r) : effects[o].status # "claimed"
    /\ graph[r] = "intact"

CanComplete(r) ==
    /\ runs[r] = "running"
    /\ PendingApprovals(r) = {}
    /\ OpenEffects(r) = {}
    /\ graph[r] = "intact"

CompleteRun(r) ==
    /\ CanComplete(r)
    /\ SetRunStatus(r, "completed")
    /\ UNCHANGED <<graph, exposure, approvals, effects>>

\* with an unresolved effect the run is stopped instead, and the caller refused
FailedStatus(r) == IF OpenEffects(r) = {} THEN "failed" ELSE "safe_stopped"

FailRun(r) ==
    /\ SetRunStatus(r, FailedStatus(r))
    /\ UNCHANGED <<graph, exposure, approvals, effects>>

SafeStopRun(r) ==
    /\ SetRunStatus(r, "safe_stopped")
    /\ UNCHANGED <<graph, exposure, approvals, effects>>

BeginRecovery(r) ==
    /\ OpenEffects(r) = {}
    /\ SetRunStatus(r, "recovering")
    /\ UNCHANGED <<graph, exposure, approvals, effects>>

WaitForApproval(r) ==
    /\ SetRunStatus(r, "waiting_approval")
    /\ UNCHANGED <<graph, exposure, approvals, effects>>

\* a row is replaced by a later declaration
RecordDeclaredExposure(r, e) ==
    /\ exposure' = [exposure EXCEPT ![r] = e]
    /\ UNCHANGED <<runs, graph, approvals, effects>>

\* SafeStopOnIdentityViolation and the unresolved outcome of ReconcileIdentity:
\* the graph is read in the transaction that stops the run; a run that has
\* been stopped stays, and no transition leads out of completed and failed
StopOnViolation(r) ==
    /\ graph[r] = "broken"
    /\ SetRunStatus(r, "safe_stopped")
    /\ UNCHANGED <<graph, exposure, approvals, effects>>

\* the run that the metadata names is created
LinkedRunAppears(r) ==
    /\ graph[r] = "broken"
    /\ graph' = [graph EXCEPT ![r] = "intact"]
    /\ UNCHANGED <<runs, exposure, approvals, effects>>

-----------------------------------------------------------------------------
(* Approvals *)

\* idempotent: a second request finds the row, whatever became of it
RequestApproval(o) ==
    /\ runs[RunOf[o]] # "absent"
    /\ approvals' = [approvals EXCEPT ![o].status = IF @ = "none" THEN "pending" ELSE @]
    /\ UNCHANGED <<runs, graph, exposure, effects>>

Approve(o) ==
    /\ approvals[o].status = "pending"
    /\ approvals' = [approvals EXCEPT ![o].status = "approved"]
    /\ UNCHANGED <<runs, graph, exposure, effects>>

DenyApproval(o) ==
    /\ approvals[o].status = "pending"
    /\ approvals' = [approvals EXCEPT ![o].status = "denied"]
    /\ UNCHANGED <<runs, graph, exposure, effects>>

\* time passes the expiry of an approval that was given
ApprovalExpires(o) ==
    /\ approvals[o].status = "approved" /\ ~approvals[o].expired
    /\ approvals' = [approvals EXCEPT ![o].expired = TRUE]
    /\ UNCHANGED <<runs, graph, exposure, effects>>

-----------------------------------------------------------------------------
(* ClaimEffect: the decision, and what the transaction writes for it.  The
   checks are made in this order. *)

ApprovalVerdict(o, token) ==
    CASE approvals[o].status # "approved" -> "wait"
      [] token = "missing" -> "wait"
      [] token = "wrong" -> "stop"
      [] approvals[o].expired -> "stop"
      [] OTHER -> "claim"

\* Mutant: the limit is reached one attempt late.
ClaimVerdictOneMore(o, token) ==
    LET e == effects[o] IN
    CASE runs[RunOf[o]] \in Terminal -> "denied"
      [] e.status \in {"completed", "claimed", "uncertain", "unknown"} -> "denied"
      [] e.status = "retryable" ->
             IF e.attempt <= MaxAttempts THEN "retry" ELSE "stop"
      [] exposure[RunOf[o]] = "excludes" -> "stop"
      [] OTHER -> ApprovalVerdict(o, token)

ClaimVerdict(o, token) ==
    LET e == effects[o] IN
    CASE runs[RunOf[o]] \in Terminal -> "denied"
      [] e.status \in {"completed", "claimed", "uncertain", "unknown"} -> "denied"
      [] e.status = "retryable" ->
             IF e.attempt < MaxAttempts THEN "retry" ELSE "stop"
      [] exposure[RunOf[o]] = "excludes" -> "stop"
      [] OTHER -> ApprovalVerdict(o, token)

\* the status of the run after each verdict; a claim that may not change it
\* fails as a whole
ClaimStatus(o, token) ==
    [denied |-> runs[RunOf[o]], retry |-> "running", stop |-> "safe_stopped",
     wait |-> "waiting_approval", claim |-> "running"][ClaimVerdict(o, token)]

Executable(o, token) ==
    /\ ClaimVerdict(o, token) \in {"retry", "claim"}
    /\ MayBecome(runs[RunOf[o]], ClaimStatus(o, token))

\* Mutant: the approval is checked and not consumed.
ClaimKeepsToken(o, token) ==
    /\ runs[RunOf[o]] # "absent"
    /\ SetRunStatus(RunOf[o], ClaimStatus(o, token))
    /\ IF Executable(o, token)
       THEN SetEffect(o, "claimed", effects[o].attempt + 1, effects[o].count)
       ELSE UNCHANGED effects
    /\ UNCHANGED <<graph, exposure, approvals>>

ClaimEffect(o, token) ==
    /\ runs[RunOf[o]] # "absent"
    /\ SetRunStatus(RunOf[o], ClaimStatus(o, token))
    /\ IF Executable(o, token)
       THEN SetEffect(o, "claimed", effects[o].attempt + 1, effects[o].count)
       ELSE UNCHANGED effects
    /\ approvals' = [approvals EXCEPT ![o].status =
                        IF ClaimVerdict(o, token) = "claim" THEN "consumed" ELSE @]
    /\ UNCHANGED <<graph, exposure>>

-----------------------------------------------------------------------------
(* The outcome of an effect *)

\* idempotent when the effect is completed
CanReport(o) == effects[o].status \in {"claimed", "completed"}

CompleteEffect(o) ==
    /\ CanReport(o)
    /\ SetEffect(o, "completed", effects[o].attempt,
                 effects[o].count + (IF effects[o].status = "claimed" THEN 1 ELSE 0))
    /\ UNCHANGED <<runs, graph, exposure, approvals>>

\* the transition is checked from "running", whatever the status of the run is
MarkEffectUncertain(o) ==
    /\ effects[o].status = "claimed"
    /\ MayBecome("running", "recovering")
    /\ SetEffect(o, "uncertain", effects[o].attempt, effects[o].count)
    /\ runs' = [runs EXCEPT ![RunOf[o]] = "recovering"]
    /\ UNCHANGED <<graph, exposure, approvals>>

Outcomes == {"applied", "not-applied", "unknown"}

Settled(outcome) == CASE outcome = "applied" -> "completed"
                      [] outcome = "not-applied" -> "retryable"
                      [] OTHER -> "unknown"

ReconcileEffect(o, outcome) ==
    LET r == RunOf[o] IN
    /\ effects[o].status \in {"uncertain", "retryable"}
    /\ SetEffect(o, Settled(outcome), effects[o].attempt,
                 IF outcome = "applied" THEN 1 ELSE effects[o].count)
    /\ IF outcome = "unknown" THEN SetRunStatus(r, "safe_stopped")
       ELSE IF runs[r] = "safe_stopped" THEN UNCHANGED runs
       ELSE SetRunStatus(r, "running")
    /\ UNCHANGED <<graph, exposure, approvals>>
=============================================================================
