------------------------------ MODULE Executions ------------------------------
(***************************************************************************)
(* Executions of runs: the local read-only orchestrator with its Codex     *)
(* adapter (local_run.py, codex_adapter.py) and the DSH runtime adapter    *)
(* (dsh_runtime.py), over the owner's runs and ledgers and the registry of *)
(* resident services (resident_service_registry.py).                       *)
(*                                                                         *)
(* An execution is one call of run or execute by some thread; a run is     *)
(* driven by executions of one kind.  A local execution opens an owner of  *)
(* its own and has a registry to itself, the DSH executions share one      *)
(* owner and its registry.  The owner's calls are single steps, what the   *)
(* code does between them interleaves.  The caller that names an existing  *)
(* run (the "assume" claim) is not part of the repository and left out.    *)
(***************************************************************************)
EXTENDS OwnerLedgers, FiniteSets

CONSTANTS
  ExecutionIds,  \* calls
  LocalRuns,     \* the runs that local executions drive; DSH drives the others
  Profile,       \* the DSH profile whose bootstraps are budgeted
  Capacity,      \* of the registry of the shared owner
  ReceiptLimit   \* bounds the exit receipts that are attached to a run

ASSUME ExecutionAssumption ==
  /\ LocalRuns \subseteq Runs /\ Profile \in Subjects /\ Capacity \in Nat \ {0}
  /\ ReceiptLimit \in Nat

VARIABLES
  exec,     \* each execution: its step, its run, its child process, its outcome
  leases    \* the slots taken in the shared registry, by run

execVars == <<vars, ledgers, exec, leases>>

Steps == {"idle", "restart", "rearm", "create", "created", "started", "leased",
          "loaded", "verified", "charged", "working", "turned", "failing", "judging", "stopping",
          "account", "insert", "raised", "gate", "closing", "ensure", "close",
          "release", "over"}
Outcomes == {"none", "completed", "failed", "refused"}

(* What a call may fail to do: write the exit entry, the class of the      *)
(* failure, the gate's decision or the end of the run, or get through      *)
(* adapter.close().                                                        *)
Losses == {"exit", "class", "gate", "error", "close"}

target(e) == exec[e].target
Local(e) == target(e) \in LocalRuns
Unfinished == {"created", "running", "waiting_approval", "recovering"}

ExecTypeOK ==
  /\ TypeOK /\ LedgerTypeOK
  /\ exec \in [ExecutionIds ->
       [pc : Steps, after : Steps, target : Runs, mine : BOOLEAN,
        rearmed : BOOLEAN, child : {"none", "alive", "gone"},
        seen : RUN_STATES \union {"absent"}, closed : BOOLEAN, outcome : Outcomes,
        secret : BOOLEAN, lost : SUBSET Losses]]
  /\ leases \subseteq Runs \ LocalRuns
  /\ Cardinality(leases) <= Capacity

ExecInit ==
  /\ Init /\ LedgerInit
  /\ exec \in [ExecutionIds ->
       [pc : {"idle"}, after : {"over"}, target : Runs, mine : {FALSE},
        rearmed : {FALSE}, child : {"none"},
        seen : {"absent"}, closed : {FALSE}, outcome : {"none"},
        secret : {FALSE}, lost : {{}}]]
  /\ leases = {}

At(e, step) == exec[e].pc = step
Goto(e, step) == exec' = [exec EXCEPT ![e].pc = step]
Ends(e, outcome) == exec' = [exec EXCEPT ![e].pc = "over", ![e].outcome = outcome]

(* Is the operation open to the caller now?  Otherwise it raises. *)
MayBecome(r, status) == run[r] = status \/ <<run[r], status>> \in Transitions

-----------------------------------------------------------------------------
(* Claiming the run. *)

(* A run that exists is a restart for DSH.  A local execution has to be    *)
(* the creator; when it is not, the error leaves the adapter unhandled.    *)
BeginLocal(e) ==
  /\ At(e, "idle") /\ Local(e)
  /\ \/ /\ CreateRun(target(e), NoRun)
        /\ exec' = [exec EXCEPT ![e].pc = "created", ![e].mine = TRUE]
     \/ run[target(e)] # "absent" /\ Goto(e, "raised") /\ UNCHANGED vars
     \/ Ends(e, "refused") /\ UNCHANGED vars      \* denied by the preflight
  /\ UNCHANGED <<ledgers, leases>>

BeginDsh(e) ==
  /\ At(e, "idle") /\ ~Local(e)
  /\ Goto(e, IF run[target(e)] = "absent" THEN "create" ELSE "restart")
  /\ UNCHANGED <<vars, ledgers, leases>>

CreateDsh(e) ==
  /\ At(e, "create")
  /\ \/ /\ CreateRun(target(e), NoRun)
        /\ exec' = [exec EXCEPT ![e].pc = "created", ![e].mine = TRUE]
     \/ run[target(e)] # "absent" /\ Ends(e, "refused") /\ UNCHANGED vars
  /\ UNCHANGED <<ledgers, leases>>

Start(e) ==
  /\ At(e, "created")
  /\ IF MayBecome(target(e), "running")
     THEN StartRun(target(e)) /\ Goto(e, "started")
     ELSE /\ IF Local(e) THEN Goto(e, "raised") ELSE Ends(e, "refused")
          /\ UNCHANGED vars
  /\ UNCHANGED <<ledgers, leases>>

ChargeRestart(e) ==
  /\ At(e, "restart")
  /\ IF WithinBudget(target(e), target(e))
     THEN RecordRunRestart(target(e)) /\ Goto(e, "rearm")
     ELSE Ends(e, "refused") /\ UNCHANGED ledgers
  /\ UNCHANGED <<vars, leases>>

(* Restarting a running run is a no-op, and the execution goes on. *)
Rearm(e) ==
  /\ At(e, "rearm")
  /\ \/ run[target(e)] = "running" /\ Goto(e, "started") /\ UNCHANGED vars
     \/ /\ RestartRun(target(e))
        /\ exec' = [exec EXCEPT ![e].pc = "started", ![e].rearmed = TRUE, ![e].mine = TRUE]
  /\ UNCHANGED <<ledgers, leases>>

-----------------------------------------------------------------------------
(* The resident service. *)

(* Mutant: the slots are not counted. *)
AcquireUncounted(e) ==
  /\ At(e, "started") /\ ~Local(e)
  /\ leases' = leases \union {target(e)} /\ Goto(e, "leased")
  /\ UNCHANGED <<vars, ledgers>>

(* A slot that the run holds is held again; without one the error leaves   *)
(* the adapter, and the run as it is.                                      *)
Acquire(e) ==
  /\ At(e, "started") /\ ~Local(e)
  /\ IF target(e) \in leases \/ Cardinality(leases) < Capacity
     THEN leases' = leases \union {target(e)} /\ Goto(e, "leased")
     ELSE Ends(e, "refused") /\ UNCHANGED leases
  /\ UNCHANGED <<vars, ledgers>>

(* The manifest is read and its identities are compared. *)
LoadManifest(e) ==
  /\ At(e, "leased")
  /\ Goto(e, "loaded") \/ Goto(e, "failing")
  /\ UNCHANGED <<vars, ledgers, leases>>

(* The files and the receipt it names are there and have its digests. *)
VerifyFiles(e) ==
  /\ At(e, "loaded")
  /\ Goto(e, "verified") \/ Goto(e, "failing")
  /\ UNCHANGED <<vars, ledgers, leases>>

(* A budget that is used up ends the execution without failure handling. *)
ChargeBootstrap(e) ==
  /\ At(e, "verified")
  /\ \/ ConsumeDshRetry(target(e), Profile) /\ Goto(e, "charged")
     \/ /\ ~WithinBudget(target(e), Profile)
        /\ exec' = [exec EXCEPT ![e].pc = "release", ![e].outcome = "refused"]
        /\ UNCHANGED ledgers
  /\ UNCHANGED <<vars, leases>>

Launch(e) ==
  /\ At(e, IF Local(e) THEN "started" ELSE "charged")
  /\ \/ exec' = [exec EXCEPT ![e].pc = "working", ![e].child = "alive"]
     \/ Goto(e, "failing")
  /\ UNCHANGED <<vars, ledgers, leases>>

(* The app-server asks for something: denied, and the run is stopped. *)
DenyServerRequest(e) ==
  /\ At(e, "working") /\ Local(e)
  /\ IF MayBecome(target(e), "safe_stopped") THEN SafeStopRun(target(e)) ELSE UNCHANGED vars
  /\ UNCHANGED <<ledgers, exec, leases>>

(* The turn, or the bootstrap, ends well; or it fails, times out, dies.    *)
TurnEnds(e) ==
  /\ At(e, "working")
  /\ \/ exec' = [exec EXCEPT ![e].pc = "turned",
                             ![e].child = IF Local(e) THEN "alive" ELSE "gone"]
     \/ Goto(e, "failing")
  /\ UNCHANGED <<vars, ledgers, leases>>

Completable(r) ==
  /\ run[r] = "running" /\ PendingApprovals(r) = {} /\ ~LinkBroken(r)
  /\ EffectsOf(r, EFFECT_STATES \ {"completed"}) = {}

(* Mutant: only failures are accounted for. *)
FinishUnaccounted(e) ==
  /\ At(e, "turned")
  /\ Completable(target(e))
  /\ \E v \in Values : CompleteRun(target(e), v)
  /\ exec' = [exec EXCEPT ![e].pc = IF Local(e) THEN "closing" ELSE "release",
                          ![e].outcome = "completed", ![e].closed = TRUE]
  /\ UNCHANGED <<ledgers, leases>>

(* A refusal is a failure for Codex.  DSH passes it on, runs no failure    *)
(* handling and leaves the run to whoever changed it.                      *)
Finish(e) ==
  /\ At(e, "turned")
  /\ IF Completable(target(e))
     THEN /\ \E v \in Values : CompleteRun(target(e), v)
          /\ exec' = [exec EXCEPT
               ![e].pc = "account", ![e].after = IF Local(e) THEN "closing" ELSE "release",
               ![e].outcome = "completed", ![e].closed = TRUE]
     ELSE /\ UNCHANGED vars
          /\ IF Local(e) THEN Goto(e, "failing")
             ELSE exec' = [exec EXCEPT ![e].pc = "release", ![e].outcome = "refused"]
  /\ UNCHANGED <<ledgers, leases>>

-----------------------------------------------------------------------------
(* record_provider_exit_ledger_once: two transactions, wherever it is called. *)

LookForExit(e) ==
  /\ At(e, "account")
  /\ Goto(e, IF ExitIsRecorded(target(e)) THEN exec[e].after ELSE "insert")
  /\ UNCHANGED <<vars, ledgers, leases>>

InsertExit(e) ==
  /\ At(e, "insert")
  /\ RecordProviderExit(target(e))
  /\ Goto(e, exec[e].after)
  /\ UNCHANGED <<vars, leases>>

(* Either fails.  All swallow that but the orchestrator on its way out of  *)
(* a completed run, which passes the error on and skips the gate.          *)
AccountingFails(e) ==
  /\ exec[e].pc \in {"account", "insert"}
  /\ exec' = [exec EXCEPT
       ![e].lost = @ \union {"exit"},
       ![e].pc = IF exec[e].after = "gate" /\ exec[e].outcome = "completed"
                 THEN "over" ELSE exec[e].after]
  /\ UNCHANGED <<vars, ledgers, leases>>

-----------------------------------------------------------------------------
(* Failure. *)

(* Codex accounts for the provider first, DSH stops its process first.     *)
(* The text of the error may repeat what the server said, and be shaped    *)
(* like a credential.                                                      *)
Fail(e) ==
  /\ At(e, "failing")
  /\ \E secret \in BOOLEAN : exec' = [exec EXCEPT
       ![e].outcome = "failed", ![e].secret = secret,
       ![e].pc = IF Local(e) THEN "account" ELSE "judging",
       ![e].after = IF Local(e) THEN "judging" ELSE @,
       ![e].child = IF Local(e) \/ @ = "none" THEN @ ELSE "gone"]
  /\ UNCHANGED <<vars, ledgers, leases>>

(* Both record what failed before they look at the run.  The owner refuses *)
(* a text shaped like a credential, and may fail to write: then Codex      *)
(* leaves the run to the orchestrator, and DSH leaves it as it is.         *)
Judge(e) ==
  /\ At(e, "judging")
  /\ \/ /\ ~exec[e].secret
        /\ exec' = [exec EXCEPT ![e].pc = "stopping", ![e].seen = run[target(e)]]
     \/ exec' = [exec EXCEPT ![e].pc = IF Local(e) THEN "raised" ELSE "release",
                             ![e].lost = @ \union {"class"}]
  /\ UNCHANGED <<vars, ledgers, leases>>

(* When the stop is refused, because the run has been closed since, DSH    *)
(* skips the accounting too.                                               *)
StopRun(e) ==
  /\ At(e, "stopping")
  /\ LET refused == exec[e].seen \in Unfinished /\ ~MayBecome(target(e), "safe_stopped")
     IN /\ IF exec[e].seen \in Unfinished /\ ~refused
           THEN SafeStopRun(target(e)) ELSE UNCHANGED vars
        /\ exec' = [exec EXCEPT
             ![e].pc = IF Local(e) THEN "raised" ELSE IF refused THEN "release" ELSE "account",
             ![e].after = "release"]
  /\ UNCHANGED <<ledgers, leases>>

(* The orchestrator, for every error of the adapter. *)
Raise(e) ==
  /\ At(e, "raised")
  /\ exec' = [exec EXCEPT ![e].pc = "account", ![e].after = "gate", ![e].outcome = "failed"]
  /\ UNCHANGED <<vars, ledgers, leases>>

(* Before the way out of a failure, after that of a success. *)
RecordGate(e) ==
  /\ At(e, "gate")
  /\ RecordAccessGate(target(e))
  /\ Goto(e, IF exec[e].outcome = "completed" THEN "over" ELSE "closing")
  /\ UNCHANGED <<vars, leases>>

(* Swallowed on the way out of a failure, the call's error after a success. *)
GateFails(e) ==
  /\ At(e, "gate")
  /\ exec' = [exec EXCEPT
       ![e].lost = @ \union {"gate"},
       ![e].pc = IF exec[e].outcome = "completed" THEN "over" ELSE "closing"]
  /\ UNCHANGED <<vars, ledgers, leases>>

-----------------------------------------------------------------------------
(* The way out. *)

(* Mutant: the app-server is left to notice that its input is closed. *)
CloseStreamsOnly(e) ==
  /\ At(e, "closing")
  /\ Goto(e, "ensure")
  /\ UNCHANGED <<vars, ledgers, leases>>

CloseAdapter(e) ==
  /\ At(e, "closing")
  /\ exec' = [exec EXCEPT ![e].pc = "ensure",
                          ![e].child = IF @ = "none" THEN @ ELSE "gone"]
  /\ UNCHANGED <<vars, ledgers, leases>>

(* With the server terminated, close() reads its stderr and writes it to a *)
(* file.  An error of that leaves the finally clause and the call.         *)
CloseRaises(e) ==
  /\ At(e, "closing") /\ exec[e].child # "none"
  /\ exec' = [exec EXCEPT ![e].pc = "over", ![e].child = "gone", ![e].lost = @ \union {"close"}]
  /\ UNCHANGED <<vars, ledgers, leases>>

(* A completed execution accounts for the provider once more. *)
Leave(e) ==
  IF exec[e].outcome = "completed"
  THEN [exec[e] EXCEPT !.pc = "account", !.after = "gate"] ELSE [exec[e] EXCEPT !.pc = "over"]

(* What _ensure_run_closed cannot read or write it leaves as it is.        *)
LeaveOpen(e) == [Leave(e) EXCEPT !.lost = @ \union {"error"}]

(* Mutant: the adapter is trusted to have closed its run. *)
EnsureNever(e) ==
  /\ At(e, "ensure")
  /\ exec' = [exec EXCEPT ![e] = Leave(e)]
  /\ UNCHANGED <<vars, ledgers, leases>>

(* _ensure_run_closed reads the status in one transaction ... *)
EnsureClosed(e) ==
  /\ At(e, "ensure")
  /\ \/ run[target(e)] = "running" /\ Goto(e, "close")
     \/ run[target(e)] # "running" /\ exec' = [exec EXCEPT ![e] = Leave(e)]
     \/ exec' = [exec EXCEPT ![e] = LeaveOpen(e)]
  /\ UNCHANGED <<vars, ledgers, leases>>

(* The owner looks for effects in doubt before it looks at the text.       *)
TextIsRefused(e) ==
  exec[e].secret /\ EffectsOf(target(e), {"claimed", "uncertain", "unknown"}) = {}

(* ... and fails the run in the next; what fail_run refuses is swallowed,  *)
(* the text that the adapter could not record among it.                    *)
CloseRun(e) ==
  /\ At(e, "close")
  /\ \/ /\ MayBecome(target(e), "failed") /\ ~TextIsRefused(e)
        /\ \E v \in Values : FailRun(target(e), v)
        /\ exec' = [exec EXCEPT ![e] = [Leave(e) EXCEPT !.closed = TRUE]]
     \/ /\ ~MayBecome(target(e), "failed")
        /\ exec' = [exec EXCEPT ![e] = Leave(e)] /\ UNCHANGED vars
     \/ exec' = [exec EXCEPT ![e] = LeaveOpen(e)] /\ UNCHANGED vars
  /\ UNCHANGED <<ledgers, leases>>

(* Mutant: only an execution that ran its process returns the slot. *)
ReleaseOfCompleted(e) ==
  /\ At(e, "release")
  /\ leases' = IF exec[e].child = "none" THEN leases ELSE leases \ {target(e)}
  /\ Goto(e, "over")
  /\ UNCHANGED <<vars, ledgers>>

Release(e) ==
  /\ At(e, "release")
  /\ leases' = leases \ {target(e)}
  /\ exec' = [exec EXCEPT ![e].pc = "over", ![e].child = IF @ = "none" THEN @ ELSE "gone"]
  /\ UNCHANGED <<vars, ledgers>>

Step(e) ==
  \/ BeginLocal(e) \/ BeginDsh(e) \/ CreateDsh(e) \/ Start(e) \/ ChargeRestart(e)
  \/ Rearm(e) \/ Acquire(e) \/ LoadManifest(e) \/ VerifyFiles(e)
  \/ ChargeBootstrap(e) \/ Launch(e) \/ DenyServerRequest(e)
  \/ TurnEnds(e) \/ Finish(e) \/ LookForExit(e) \/ InsertExit(e) \/ AccountingFails(e)
  \/ Fail(e) \/ Judge(e) \/ StopRun(e) \/ Raise(e) \/ RecordGate(e) \/ GateFails(e)
  \/ CloseAdapter(e) \/ CloseRaises(e) \/ EnsureClosed(e) \/ CloseRun(e) \/ Release(e)

-----------------------------------------------------------------------------
(* Others: the operator stops a run, declares a budget, attaches a receipt. *)
Interrupt(r) ==
  /\ run[r] \in Unfinished
  /\ SafeStopRun(r)
  /\ UNCHANGED <<ledgers, exec, leases>>

Declare(x, n) ==
  /\ DeclareBudget(x, n)
  /\ UNCHANGED <<vars, exec, leases>>

(* ReceiptLimit bounds the receipts an owner attaches to a run. *)
Attach(r) ==
  /\ Len(exits[r]) < ReceiptLimit
  /\ AttachReceipt(r)
  /\ UNCHANGED <<vars, exec, leases>>

ExecNext ==
  \/ \E e \in ExecutionIds : Step(e)
  \/ \E r \in Runs : Interrupt(r) \/ Attach(r)
  \/ \E x \in Runs \union {Profile}, n \in Ceilings : Declare(x, n)

ExecSpec == ExecInit /\ [][ExecNext]_execVars
-----------------------------------------------------------------------------
(* Properties. *)

Holding == {"leased", "loaded", "verified", "charged", "working", "turned", "failing", "judging",
            "stopping", "account", "insert", "release"}

(* A slot of the registry is taken for an execution that is under way: no  *)
(* way out of an execution, by refusal, failure or a run stopped by others *)
(* in the meantime, leaves the slot of its run behind.                     *)
LeasesBelongToExecutions ==
  \A r \in leases : \E e \in ExecutionIds : target(e) = r /\ exec[e].pc \in Holding

(* No child process is left when the call that started it has returned,    *)
(* whichever error it returned with.                                       *)
NothingOutlivesItsExecution ==
  \A e \in ExecutionIds : exec[e].child = "alive" => ~At(e, "over")

(* A local run has ended when the call that created it has, whoever else   *)
(* stops it meanwhile.  To leave it open takes two refusals: the adapter's *)
(* record of the failure, and then the orchestrator's way through close()  *)
(* and fail_run.  An error text shaped like a credential earns both.       *)
ClosedBy(e) ==
  Local(e) /\ At(e, "over") /\ exec[e].mine /\ run[target(e)] \notin Terminal
    => "class" \in exec[e].lost /\ exec[e].lost \cap {"error", "close"} # {}

LocalRunsAreClosed == \A e \in ExecutionIds : ClosedBy(e)

(* A run is re-armed at most as often as restarts were charged, and no     *)
(* charge that was recorded under a ceiling exceeds it, however many       *)
(* executions restart the run at the same time.                            *)
RestartsWithinBudget ==
  \A r \in Runs :
    /\ Cardinality({e \in ExecutionIds : target(e) = r /\ exec[e].rearmed}) <= Len(spent[r][r])
    /\ \A x \in Budgeted : \A i \in DOMAIN spent[r][x] :
         spent[r][x][i] # NoCeiling => i <= spent[r][x][i]

(* An execution that completed its run, and any local one that failed,     *)
(* leaves a provider exit entry, also when several account for one run,    *)
(* unless it failed to write one.  A local one leaves the decision of the  *)
(* access gate, unless it failed to write that or, having completed its    *)
(* run, stopped at an error before it.                                     *)
TerminationOf(e) ==
  At(e, "over") /\ (exec[e].outcome = "completed" \/ (Local(e) /\ exec[e].outcome = "failed"))
    => /\ ExitIsRecorded(target(e)) \/ "exit" \in exec[e].lost
       /\ Local(e) => \/ target(e) \in gated \/ "gate" \in exec[e].lost
                      \/ exec[e].outcome = "completed" /\ exec[e].lost \cap {"exit", "close"} # {}

TerminationIsAccounted == \A e \in ExecutionIds : TerminationOf(e)

-----------------------------------------------------------------------------
(* What docstrings say and the code does not do. *)

(* The orchestrator closes a run only when its own execution left it open  *)
(* ("adapter exception, not closed").  A second call for the same run      *)
(* cannot create it, and closes the running run of the first as failed.    *)
OnlyOwnRunsAreClosed == \A e \in ExecutionIds : exec[e].closed => exec[e].mine

(* Never more service processes than slots ("hard <= N capacity").  A      *)
(* second execution of a running run holds the slot of the first, and the  *)
(* first to end returns it for both.                                       *)
ServicesWithinCapacity ==
  Cardinality({e \in ExecutionIds : ~Local(e) /\ exec[e].child = "alive"}) <= Capacity
=============================================================================
