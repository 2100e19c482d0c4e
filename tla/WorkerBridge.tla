---------------------------- MODULE WorkerBridge ----------------------------
(***************************************************************************)
(* The worker bridge (src/zworkbench/worker_bridge.py) over the durable    *)
(* owner: one operation at a time runs one worker process for a child run  *)
(* of a parent run.  Four actors interleave: the thread of the operation   *)
(* (handshake or read_only_coding), a thread in cancel or stop_parent, the *)
(* heartbeat monitor, and the worker process itself.                       *)
(*                                                                         *)
(* Every call of the owner is one step, the owner's own action.  Error     *)
(* codes are kept apart as far as the bridge treats them differently:      *)
(* "protocol" stands for every rejected answer, "credential" for the       *)
(* content-policy rejections.  A SIGKILL is taken to settle the process it *)
(* is sent to; other members of its group may be beyond the bridge's reach.*)
(* Steps outside the handlers' reach may raise: the snapshot of the        *)
(* workspace, the signalling of the process group, and a write the owner   *)
(* refuses (its database, or the text of the error).                       *)
(***************************************************************************)
EXTENDS CompositionOwner, FiniteSets

CONSTANTS
  Parent, Children,   \* the parent run, and the child runs callers may name
  RecoveryMode,       \* the bridge's recovery_mode flag
  MaxFaults           \* bound: the runs a raising or refused step may hit

ASSUME BridgeAssumption ==
  /\ Parent \in Runs
  /\ Children \subseteq Runs \ {Parent}
  /\ RecoveryMode \in BOOLEAN
  /\ MaxFaults \in Nat

VARIABLES
  op,        \* the operation: where its thread is, its kind, child and error
  code,      \* _termination_code, "none" when nobody claimed the termination
  worker,    \* the process: none, up, exited (code 0) or crashed (any other)
  escaped,   \* does a descendant that left the worker's session live on?
  clean,     \* _process_group_clean: unset, clean or dirty (False and None)
  receipt,   \* process_group_clean of _last_exit_receipt, "none" without one
  monitor,   \* the heartbeat thread: off, watching, lost, or done signalling
  stopper,   \* the thread in cancel or stop_parent: its step, child and code
  outcome,   \* what the operation of each child returned to its caller
  faulted    \* runs left as they were by a step that raised unhandled

bridgeVars == <<op, code, worker, escaped, clean, receipt, monitor, stopper,
                outcome, faulted>>
allVars == <<vars, bridgeVars>>

Kinds == {"handshake", "read_only_coding"}
StopCodes == {"worker_cancelled", "worker_parent_stopped"}
Recoverable == {"worker_timeout", "worker_exit_timeout", "worker_exit_nonzero"}
Errors == StopCodes \union Recoverable
  \union {"none", "heartbeat_lost", "protocol", "credential", "worker_start_failed", "worker_request_failed",
          "worker_cleanup_unverified", "worker_bridge_failure"}
Steps == {"idle", "admitted", "collided", "created", "started", "writing", "reading",
          "waited", "cleared", "validated", "completed", "failing", "stopped",
          "accounting", "closing", "wedged"}
Idle == [pc |-> "idle", kind |-> "handshake", child |-> NoRun, error |-> "none"]

BridgeTypeOK ==
  /\ TypeOK
  /\ op \in [pc : Steps, kind : Kinds, child : Children \union {NoRun}, error : Errors]
  /\ code \in Errors
  /\ worker \in {"none", "up", "exited", "crashed"}
  /\ escaped \in BOOLEAN
  /\ clean \in {"unset", "clean", "dirty"}
  /\ receipt \in {"none", "clean", "dirty"}
  /\ monitor \in {"off", "watching", "lost", "signalled"}
  /\ stopper \in [pc : {"idle", "child", "parent", "signal"},
                  child : Children \union {NoRun}, code : StopCodes]
  /\ outcome \in [Children -> {"none", "success", "error", "fail_stop", "raised"}]
  /\ faulted \subseteq Children \union {Parent}

(* The parent has been created and started before the bridge is used. *)
BridgeInit ==
  /\ run = [r \in Runs |-> IF r = Parent THEN "running" ELSE "absent"]
  /\ link = [r \in Runs |-> NoRun]
  /\ approval = [o \in Operations |-> NoRow]
  /\ effect = [o \in Operations |-> NoRow]
  /\ exposure = [r \in Runs |-> Undeclared]
  /\ result = [r \in Runs |-> [k \in {"semantic", "error"} |-> NoValue]]
  /\ suspected = {}
  /\ op = Idle
  /\ code = "none" /\ worker = "none" /\ escaped = FALSE
  /\ clean = "unset" /\ receipt = "none" /\ monitor = "off"
  /\ stopper = [pc |-> "idle", child |-> NoRun, code |-> "worker_cancelled"]
  /\ outcome = [c \in Children |-> "none"]
  /\ faulted = {}

-----------------------------------------------------------------------------
(* Helpers. *)

At(step) == op.pc = step
Goto(step) == op' = [op EXCEPT !.pc = step]
Fail(error) == op' = [op EXCEPT !.pc = "failing", !.error = error]

Movable(r, new) == run[r] = new \/ <<run[r], new>> \in Transitions

(* A call of the owner whose error is swallowed. *)
TrySafeStop(r) == IF Movable(r, "safe_stopped") THEN SafeStopRun(r) ELSE UNCHANGED vars
TryFail(r) ==
  IF Movable(r, "failed") /\ Movable(r, "safe_stopped")
  THEN FailRunBlocked(r) \/ \E v \in Values : FailRun(r, v)
  ELSE UNCHANGED vars

Fault(r) ==
  /\ faulted' = faulted \union {r}
  /\ Cardinality(faulted') <= MaxFaults

(* One whose refusal by the owner is swallowed too. *)
Swallowed(call, r) == (call /\ UNCHANGED faulted) \/ (UNCHANGED vars /\ Fault(r))

(* The thread leaves by an exception that nothing accounts for. *)
Raise(step) ==
  /\ Goto(step)
  /\ outcome' = [outcome EXCEPT ![op.child] = "raised"]
  /\ Fault(op.child)

HeartbeatLost == monitor \in {"lost", "signalled"}

(* SIGTERM and SIGKILL reach the group, not what left it: the snapshot of  *)
(* descendants is taken when the leader is gone, and then it is empty.  A  *)
(* group found clean stays clean.                                          *)
ProcessGroupChecked ==
  /\ clean' \in IF clean = "clean" THEN {"clean"} ELSE {"clean", "dirty"}
  /\ receipt' = clean'

StopProcess ==
  IF worker = "none" THEN UNCHANGED <<worker, clean, receipt>>
                     ELSE worker' = "none" /\ ProcessGroupChecked

-----------------------------------------------------------------------------
(* The operation: handshake and read_only_coding. *)

(* The parent is looked at outside any transaction. *)
CheckParent(kind, c) ==
  /\ At("idle")
  /\ run[Parent] = "running"
  /\ op' = [pc |-> "admitted", kind |-> kind, child |-> c, error |-> "none"]
  /\ UNCHANGED <<vars, code, worker, escaped, clean, receipt, monitor, stopper, outcome, faulted>>

(* The bridge is taken and the child run created, or its name is in use, *)
(* or the owner refuses.                                                 *)
CreateChild ==
  /\ At("admitted")
  /\ \/ run[op.child] = "absent" /\ CreateRun(op.child, Parent) /\ Goto("created")
     \/ UNCHANGED vars /\ Goto("collided")
  /\ code' = "none" /\ clean' = "unset" /\ receipt' = "none"
  /\ UNCHANGED <<worker, escaped, monitor, stopper, outcome, faulted>>

(* Whatever run has the name is safe-stopped, and the caller gets an error. *)
ChildStartFailed ==
  /\ At("collided")
  /\ Swallowed(TrySafeStop(op.child), op.child)
  /\ op' = Idle
  /\ UNCHANGED <<code, worker, escaped, clean, receipt, monitor, stopper, outcome>>

StartChild ==
  /\ At("created")
  /\ \/ Movable(op.child, "running") /\ StartRun(op.child) /\ Goto("started")
     \/ UNCHANGED vars /\ Goto("collided")
  /\ UNCHANGED <<code, worker, escaped, clean, receipt, monitor, stopper, outcome, faulted>>

(* The coding operation takes its snapshot of the workspace between the    *)
(* two try blocks: if that raises, the run goes on and the bridge is taken *)
(* for good.                                                               *)
SnapshotRaises ==
  /\ At("started")
  /\ op.kind = "read_only_coding"
  /\ Raise("wedged")
  /\ UNCHANGED <<vars, code, worker, escaped, clean, receipt, monitor, stopper>>

SpawnWorker ==
  /\ At("started")
  /\ \/ worker' = "up" /\ monitor' = "watching" /\ Goto("writing")
     \/ UNCHANGED <<worker, monitor>> /\ Fail("worker_start_failed")
  /\ escaped' = FALSE
  /\ UNCHANGED <<vars, code, clean, receipt, stopper, outcome, faulted>>

(* The request is written to the worker's stdin, which has no deadline: a  *)
(* request larger than the pipe waits for the worker to read it, and when  *)
(* the worker is gone, for the last process that holds the other end.      *)
RequestWritten ==
  /\ At("writing")
  /\ worker = "up"
  /\ Goto("reading")
  /\ UNCHANGED <<vars, code, worker, escaped, clean, receipt, monitor, stopper, outcome, faulted>>

WriteFails ==
  /\ At("writing")
  /\ worker # "up"
  /\ Fail("worker_request_failed")
  /\ UNCHANGED <<vars, code, worker, escaped, clean, receipt, monitor, stopper, outcome, faulted>>

(* Mutant: the read loop has no deadline. *)
ReadFailsWithoutDeadline ==
  /\ At("reading")
  /\ worker # "up"
  /\ \E error \in {"protocol", "credential", code} :
       error # "none" /\ Fail(IF HeartbeatLost THEN code ELSE error)
  /\ UNCHANGED <<vars, code, worker, escaped, clean, receipt, monitor, stopper, outcome, faulted>>

(* The read loop gives up: on its deadline, on a bad or missing answer, or *)
(* because it notices a stop.  A lost heartbeat names the error whatever   *)
(* broke the loop.                                                         *)
ReadFails ==
  /\ At("reading")
  /\ \E error \in {"worker_timeout", "worker_exit_timeout", "protocol", "credential", code} :
       error # "none" /\ Fail(IF HeartbeatLost THEN code ELSE error)
  /\ UNCHANGED <<vars, code, worker, escaped, clean, receipt, monitor, stopper, outcome, faulted>>

(* Both streams are closed and the exit code is collected. *)
ReadEnds ==
  /\ At("reading")
  /\ worker \in {"exited", "crashed"}
  /\ ProcessGroupChecked
  /\ Goto("waited")
  /\ UNCHANGED <<vars, code, worker, escaped, monitor, stopper, outcome, faulted>>

(* The streams closed without the answer; a handshake that was stopped     *)
(* since the loop ended does not look for the stop again.                  *)
AnswerMissing ==
  /\ At("waited")
  /\ op.kind = "handshake" \/ code = "none"
  /\ Fail(IF worker = "crashed" THEN "worker_exit_nonzero" ELSE "protocol")
  /\ UNCHANGED <<vars, code, worker, escaped, clean, receipt, monitor, stopper, outcome, faulted>>

(* A stop is noticed here for the last time; the exit goes on record. *)
RaiseIfStopRequested ==
  /\ At("waited")
  /\ IF code = "none" THEN Goto("cleared") ELSE Fail(code)
  /\ UNCHANGED <<vars, code, worker, escaped, clean, receipt, monitor, stopper, outcome, faulted>>

(* Only a coding answer asks for a provably clean termination. *)
ValidateAnswer ==
  /\ At("cleared")
  /\ IF worker = "crashed" THEN Fail("worker_exit_nonzero")
     ELSE \/ Fail("protocol")
          \/ op.kind = "read_only_coding" /\ Fail("credential")
          \/ op.kind = "read_only_coding" /\ clean # "clean" /\ Fail("worker_cleanup_unverified")
          \/ (op.kind = "read_only_coding" => clean = "clean") /\ Goto("validated")
  /\ UNCHANGED <<vars, code, worker, escaped, clean, receipt, monitor, stopper, outcome, faulted>>

(* Mutant: a refused completion is swallowed and success reported. *)
CompleteChildQuietly ==
  /\ At("validated")
  /\ IF run[op.child] = "running"
     THEN \E v \in Values : CompleteRun(op.child, v)
     ELSE UNCHANGED vars
  /\ Goto("completed")
  /\ UNCHANGED <<code, worker, escaped, clean, receipt, monitor, stopper, outcome, faulted>>

CompleteChild ==
  /\ At("validated")
  /\ \/ run[op.child] = "running"
        /\ \E v \in Values : CompleteRun(op.child, v)
        /\ Goto("completed")
     \/ UNCHANGED vars /\ Fail("worker_bridge_failure")
  /\ UNCHANGED <<code, worker, escaped, clean, receipt, monitor, stopper, outcome, faulted>>

(* The parent's record of it; one that is refused makes the operation fail *)
(* with its child already completed.                                       *)
TellParent ==
  /\ At("completed")
  /\ \/ outcome' = [outcome EXCEPT ![op.child] = "success"]
        /\ Goto("closing") /\ UNCHANGED faulted
     \/ Fail("worker_bridge_failure")
        /\ Fault(op.child) /\ UNCHANGED outcome
  /\ UNCHANGED <<vars, code, worker, escaped, clean, receipt, monitor, stopper>>

(* The failing path: stop the process, record its exit, then account to    *)
(* child and parent, unless the stop or the record raises.                 *)
StopFailedWorker ==
  /\ At("failing")
  /\ code' = IF code = "none" /\ worker # "none" THEN op.error ELSE code
  /\ \/ StopProcess /\ Goto("stopped") /\ UNCHANGED <<outcome, faulted>>
     \/ StopProcess /\ Raise("closing")
     \/ worker # "none" /\ worker' = "none" /\ Raise("closing") /\ UNCHANGED <<clean, receipt>>
  /\ UNCHANGED <<vars, escaped, monitor, stopper>>

(* Mutant: a child that was not provably cleaned up is left as it is. *)
RecordCleanChildFailure ==
  /\ At("stopped")
  /\ Swallowed(IF op.error = "credential" \/ receipt = "clean"
               THEN TrySafeStop(op.child) ELSE UNCHANGED vars, op.child)
  /\ Goto("accounting")
  /\ UNCHANGED <<code, worker, escaped, clean, receipt, monitor, stopper, outcome>>

RecordChildFailure ==
  /\ At("stopped")
  /\ Swallowed(IF op.error = "credential" \/ receipt = "clean"
               THEN TrySafeStop(op.child) ELSE TryFail(op.child), op.child)
  /\ Goto("accounting")
  /\ UNCHANGED <<code, worker, escaped, clean, receipt, monitor, stopper, outcome>>

Recovers ==
  /\ RecoveryMode
  /\ op.error \in Recoverable
  /\ EffectsOf(Parent, {"claimed", "uncertain", "unknown"}) = {}
  /\ Movable(Parent, "recovering")

FailureOutcome ==
  outcome' = [outcome EXCEPT ![op.child] =
    IF op.error # "credential" /\ receipt # "clean" THEN "fail_stop" ELSE "error"]

(* The error on the parent's record was refused: it is stopped instead. *)
ParentRecordRefused ==
  /\ Swallowed(TrySafeStop(Parent), Parent)
  /\ outcome' = [outcome EXCEPT ![op.child] = "error"]

(* Mutant: a refused recovery has no fallback. *)
RecordParentFailureOnce ==
  /\ At("accounting")
  /\ \/ ParentRecordRefused
     \/ /\ Swallowed(IF op.error = "credential" THEN TrySafeStop(Parent)
                      ELSE IF receipt # "clean" THEN TryFail(Parent)
                      ELSE IF Recovers THEN BeginRecovery(Parent)
                      ELSE IF RecoveryMode /\ op.error \in Recoverable THEN UNCHANGED vars
                      ELSE TrySafeStop(Parent), Parent)
        /\ FailureOutcome
  /\ Goto("closing")
  /\ UNCHANGED <<code, worker, escaped, clean, receipt, monitor, stopper>>

RecordParentFailure ==
  /\ At("accounting")
  /\ \/ ParentRecordRefused
     \/ /\ Swallowed(CASE op.error = "credential" -> TrySafeStop(Parent)
             [] op.error # "credential" /\ receipt # "clean" -> TryFail(Parent)
             [] op.error # "credential" /\ receipt = "clean" ->
                  IF Recovers THEN BeginRecovery(Parent) ELSE TrySafeStop(Parent), Parent)
        /\ FailureOutcome
  /\ Goto("closing")
  /\ UNCHANGED <<code, worker, escaped, clean, receipt, monitor, stopper>>

(* The monitor is joined, the process stopped and the bridge released. *)
Close ==
  /\ At("closing")
  /\ monitor # "lost"
  /\ monitor' = "off"
  /\ StopProcess
  /\ op' = Idle
  /\ UNCHANGED <<vars, code, escaped, stopper, outcome, faulted>>

(* A stop that raises here leaves the bridge taken for good. *)
CloseRaises ==
  /\ At("closing")
  /\ monitor # "lost"
  /\ worker # "none"
  /\ monitor' = "off" /\ worker' = "none"
  /\ Raise("wedged")
  /\ UNCHANGED <<vars, code, escaped, clean, receipt, stopper>>

(* A recovering parent is started again on the strength of an ended child. *)
PrepareRecovery(previous) ==
  /\ run[Parent] = "recovering"
  /\ run[previous] \in {"failed", "safe_stopped"}
  /\ link[previous] = Parent
  /\ StartRun(Parent)
  /\ UNCHANGED bridgeVars

-----------------------------------------------------------------------------
(* cancel and stop_parent, in a thread of their own. *)

Active == ~(At("idle") \/ At("admitted") \/ At("collided"))

RequestStop(stopCode) ==
  /\ stopper.pc = "idle"
  /\ Active /\ worker # "none"
  /\ code' = stopCode
  /\ stopper' = [pc |-> "child", child |-> op.child, code |-> stopCode]
  /\ UNCHANGED <<vars, op, worker, escaped, clean, receipt, monitor, outcome, faulted>>

(* A run that is failed or safe-stopped may stay so; one that completed    *)
(* makes the request raise, and the remaining steps are not taken; nor are *)
(* they when the owner refuses a write.                                    *)
StopOne(r, step, next) ==
  /\ stopper.pc = step
  /\ \/ /\ TrySafeStop(r)
        /\ stopper' = [stopper EXCEPT !.pc = IF run[r] = "completed" THEN "idle" ELSE next]
     \/ UNCHANGED vars /\ stopper' = [stopper EXCEPT !.pc = "idle"]
  /\ UNCHANGED <<op, code, worker, escaped, clean, receipt, monitor, outcome, faulted>>

StopChild == StopOne(stopper.child, "child", "parent")
StopParent == StopOne(Parent, "parent", "signal")

(* SIGTERM; a worker may ignore it. *)
Terminate == worker' \in IF worker = "up" THEN {"up", "crashed"} ELSE {worker}

SignalStop ==
  /\ stopper.pc = "signal"
  /\ Terminate
  /\ stopper' = [stopper EXCEPT !.pc = "idle"]
  /\ UNCHANGED <<vars, op, code, escaped, clean, receipt, monitor, outcome, faulted>>

(* Mutant: the code is set to the reason. *)
HeartbeatExpiresAsReason ==
  /\ monitor = "watching"
  /\ IF code = "none" THEN code' = "heartbeat" /\ monitor' = "lost"
                      ELSE monitor' = "off" /\ UNCHANGED code
  /\ UNCHANGED <<vars, op, worker, escaped, clean, receipt, stopper, outcome, faulted>>

(* The monitor finds the worker silent; an earlier stop keeps the verdict. *)
HeartbeatExpires ==
  /\ monitor = "watching"
  /\ IF code = "none" THEN code' = "heartbeat_lost" /\ monitor' = "lost"
                      ELSE monitor' = "off" /\ UNCHANGED code
  /\ UNCHANGED <<vars, op, worker, escaped, clean, receipt, stopper, outcome, faulted>>

SignalLost ==
  /\ monitor = "lost"
  /\ Terminate
  /\ monitor' = "signalled"
  /\ UNCHANGED <<vars, op, code, escaped, clean, receipt, stopper, outcome, faulted>>

-----------------------------------------------------------------------------
(* The worker, and other users of the parent run. *)

WorkerExits ==
  /\ worker = "up"
  /\ worker' \in {"exited", "crashed"}
  /\ UNCHANGED <<vars, op, code, escaped, clean, receipt, monitor, stopper, outcome, faulted>>

WorkerDetachesChild ==
  /\ worker = "up"
  /\ escaped' = TRUE
  /\ UNCHANGED <<vars, op, code, worker, clean, receipt, monitor, stopper, outcome, faulted>>

OrphanExits ==
  /\ escaped
  /\ escaped' = FALSE
  /\ UNCHANGED <<vars, op, code, worker, clean, receipt, monitor, stopper, outcome, faulted>>

ParentWorks ==
  /\ \/ \E q \in Requests : ClaimStep(Parent, q)
     \/ \E o \in Operations : OutcomeStep(o)
     \/ SafeStopRun(Parent)
  /\ UNCHANGED bridgeVars

-----------------------------------------------------------------------------
OperationStep ==
  \/ CreateChild \/ ChildStartFailed \/ StartChild \/ SnapshotRaises \/ SpawnWorker
  \/ ReadFails \/ ReadEnds \/ AnswerMissing \/ RaiseIfStopRequested \/ ValidateAnswer
  \/ CompleteChild \/ TellParent
  \/ StopFailedWorker \/ RecordChildFailure \/ RecordParentFailure
  \/ Close \/ CloseRaises

BridgeNext ==
  \/ \E kind \in Kinds, c \in Children : CheckParent(kind, c)
  \/ OperationStep
  \/ RequestWritten \/ WriteFails
  \/ \E c \in Children : PrepareRecovery(c)
  \/ \E stopCode \in StopCodes : RequestStop(stopCode)
  \/ StopChild \/ StopParent \/ SignalStop
  \/ HeartbeatExpires \/ SignalLost
  \/ WorkerExits \/ WorkerDetachesChild \/ OrphanExits
  \/ ParentWorks

BridgeSafety == BridgeInit /\ [][BridgeNext]_allVars

(* The operation's thread is scheduled and its read loop has a deadline;   *)
(* the monitor's thread is scheduled.  Nothing is asked of the worker, nor *)
(* of the write of the request.                                            *)
BridgeSpec == BridgeSafety /\ WF_allVars(OperationStep) /\ WF_allVars(SignalLost)

-----------------------------------------------------------------------------
(* Properties. *)

(* When no operation is under way nothing is left behind: no worker        *)
(* process, and no child run that is not terminal unless a step raised     *)
(* outside the handlers or the owner refused the record of the failure; a  *)
(* bridge that stays taken is one whose operation raised.  On every path   *)
(* through timeouts, crashes, cancellations, lost heartbeats and bad       *)
(* answers (handshake and read_only_coding with their except and finally). *)
Ended == At("idle") \/ At("wedged")

NothingLeftBehind ==
  Ended =>
    /\ worker = "none"
    /\ \A c \in Children : run[c] = "absent" \/ run[c] \in Terminal \/ c \in faulted
    /\ At("wedged") => outcome[op.child] = "raised"

(* What the caller was told and what the owner recorded agree: success is  *)
(* never returned for a child run that is not completed, and a completed   *)
(* child's operation returned success unless a step raised after it,       *)
(* however stops and failures interleave with the completion.              *)
OutcomeMatchesRun ==
  \A c \in Children : ~(Active /\ ~Ended /\ op.child = c) =>
    /\ outcome[c] = "success" => run[c] = "completed"
    /\ run[c] = "completed" => outcome[c] = "success" \/ c \in faulted

(* A failed operation takes its parent out of execution: when the failure  *)
(* has been accounted for the parent is stopped, failed or recovering,     *)
(* also when the record or the intended transition was refused, unless the *)
(* owner refused the last resort too (_record_failure).                    *)
FailureStopsTheParent ==
  [][At("accounting") /\ op'.pc = "closing" =>
       run'[Parent] \in {"safe_stopped", "failed", "recovering"} \/ Parent \in faulted']_allVars

(* Every operation ends, whatever its worker does, unless it waits for     *)
(* ever to write its request: past that write the deadline, the stop       *)
(* requests and the escalating signals leave no way to hang.               *)
OperationEnds == []<>Ended \/ <>[]At("writing")

-----------------------------------------------------------------------------
(* What comments and docstrings say and the code does not do. *)

(* No run is completed unless its process group was provably clean         *)
(* (FailStopError).  Only read_only_coding asserts it, handshake does not. *)
CompletedOnlyWhenClean ==
  [][\A c \in Children : run[c] # "completed" /\ run'[c] = "completed" =>
       clean = "clean"]_allVars

(* A receipt that calls the termination clean leaves no orphan alive       *)
(* ("never reporting an un-reaped leader (or orphan) as clean").           *)
OrphansAreNeverClean == receipt = "clean" => ~escaped
=============================================================================
