------------------------- MODULE LedgerClientsProofs -------------------------
(***************************************************************************)
(* Proofs about the clients of the owner's ledgers: the executions, the    *)
(* admission of commands and the provider router, for any number of calls, *)
(* commands, callers, runs, providers and budgets.                         *)
(***************************************************************************)
EXTENDS Executions, ProviderAdmission, ProviderFailover, CompositionOwnerProofs, FiniteSetTheorems

-----------------------------------------------------------------------------
(* Executions.  The argument is made for one call at a time: its step says *)
(* what it has done for its run so far, and what it did stays done,        *)
(* because ledgers grow and ended local runs are not restarted.            *)

Accounting(e) == exec[e].pc \in {"account", "insert"}

(* Local and DSH calls take different ways, and account on the way to      *)
(* different steps.                                                        *)
InOrder(e) ==
  /\ Local(e) => exec[e].pc \notin {"create", "restart", "rearm", "leased", "loaded", "verified",
                                    "charged", "release"}
  /\ ~Local(e) => exec[e].pc \notin {"raised", "gate", "closing", "ensure", "close"}
  /\ Accounting(e) =>
       exec[e].after \in IF Local(e) THEN {"closing", "judging", "gate"} ELSE {"release"}
  /\ Accounting(e) /\ exec[e].after = "closing" => exec[e].outcome = "completed"
  /\ At(e, "idle") => ~exec[e].mine

(* Where a call may have its child process, and where it has waited for it *)
(* to be gone.                                                             *)
Reaped(e) ==
  exec[e].child = "alive" =>
    IF Local(e)
    THEN /\ exec[e].pc \in {"working", "turned", "failing", "judging", "stopping", "account",
                            "insert", "raised", "gate", "closing"}
         /\ At(e, "gate") \/ (Accounting(e) /\ exec[e].after = "gate") =>
              exec[e].outcome # "completed"
    ELSE exec[e].pc \in {"working", "failing"}

(* The entry is there, or could not be written; so the gate's decision.    *)
HasExit(e) == ExitIsRecorded(target(e)) \/ "exit" \in exec[e].lost
HasGate(e) == target(e) \in gated \/ "gate" \in exec[e].lost

Accounted(e) ==
  IF Local(e)
  THEN /\ exec[e].pc \in {"gate", "closing", "ensure", "close"} => HasExit(e)
       /\ exec[e].pc \in {"closing", "ensure", "close"} =>
            exec[e].outcome = "completed" \/ HasGate(e)
       /\ At(e, "over") /\ exec[e].outcome \in {"completed", "failed"} =>
            /\ HasExit(e)
            /\ \/ HasGate(e)
               \/ exec[e].outcome = "completed" /\ exec[e].lost \cap {"exit", "close"} # {}
  ELSE exec[e].outcome = "completed" /\ ~Accounting(e) => HasExit(e)

(* Past the adapter's own handling of success and failure. *)
Handled(e) ==
  \/ exec[e].pc \in {"raised", "gate", "closing", "ensure", "close", "over"}
  \/ Accounting(e) /\ exec[e].after \in {"closing", "gate"}

(* What a local call knows of its run: the adapter has ended it or lost    *)
(* the failure's record, and then the orchestrator has ended it or lost    *)
(* that.                                                                   *)
KnowsRun(e) ==
  Local(e) =>
    /\ exec[e].outcome = "completed" => run[target(e)] \in Terminal
    /\ exec[e].mine => run[target(e)] # "absent"
    /\ exec[e].mine /\ ~At(e, "created") => run[target(e)] \in {"running"} \union Terminal
    /\ exec[e].mine /\ At(e, "stopping") /\ exec[e].seen \notin Unfinished =>
         run[target(e)] \in Terminal
    /\ exec[e].mine /\ Handled(e) => run[target(e)] \in Terminal \/ "class" \in exec[e].lost
    /\ exec[e].mine /\ At(e, "over") =>
         run[target(e)] \in Terminal \/ exec[e].lost \cap {"error", "close"} # {}

LocalRunsStayShut ==
  \A r \in LocalRuns : run[r] \in {"absent", "created", "running"} \union Terminal

(* The calls whose restart of the run is charged and not given up. *)
Charged(r) == {e \in ExecutionIds : target(e) = r /\ (exec[e].rearmed \/ At(e, "rearm"))}

RestartsAreCharged ==
  \A r \in Runs :
    /\ IsFiniteSet(Charged(r))
    /\ Cardinality(Charged(r)) <= Len(spent[r][r])

ChargesAreWithinCeilings ==
  \A r \in Runs, x \in Budgeted : \A i \in DOMAIN spent[r][x] :
    spent[r][x][i] # NoCeiling => i <= spent[r][x][i]

ExecInv ==
  /\ ExecTypeOK
  /\ IsFiniteSet(leases)
  /\ \A e \in ExecutionIds : InOrder(e) /\ Reaped(e) /\ Accounted(e) /\ KnowsRun(e)
  /\ LocalRunsStayShut
  /\ LeasesBelongToExecutions
  /\ RestartsAreCharged
  /\ ChargesAreWithinCeilings

-----------------------------------------------------------------------------
(* The steps of the owner and of the calls. *)

Call == [pc : Steps, after : Steps, target : Runs, mine : BOOLEAN,
         rearmed : BOOLEAN, child : {"none", "alive", "gone"},
         seen : RUN_STATES \union {"absent"}, closed : BOOLEAN, outcome : Outcomes,
         secret : BOOLEAN, lost : SUBSET Losses]

LEMMA CallFields ==
  ASSUME ExecTypeOK, NEW e \in ExecutionIds
  PROVE  /\ exec[e] \in Call /\ exec \in [ExecutionIds -> Call]
         /\ target(e) \in Runs /\ run[target(e)] \in RUN_STATES \union {"absent"}
BY DEF ExecTypeOK, TypeOK, Call, target

(* A step of a call changes its own record, and not the run it drives. *)
LEMMA CallMoves ==
  ASSUME ExecTypeOK, NEW e \in ExecutionIds, Step(e)
  PROVE  /\ exec' \in [ExecutionIds -> Call]
         /\ exec'[e].target = exec[e].target
         /\ \A d \in ExecutionIds \ {e} : exec'[d] = exec[d]
<1> DEFINE Moved == /\ exec' \in [ExecutionIds -> Call]
                    /\ exec'[e].target = exec[e].target
                    /\ \A d \in ExecutionIds \ {e} : exec'[d] = exec[d]
<1>1. exec[e] \in Call /\ exec \in [ExecutionIds -> Call] /\ run[target(e)] \in RUN_STATES \union {"absent"}
  BY CallFields
<1>100. ASSUME NEW x \in Call, x.target = exec[e].target, exec' = [exec EXCEPT ![e] = x] PROVE Moved
  BY <1>1, <1>100
<1>101. /\ \A step \in {"account", "gate", "over", "ensure", "release", "judging"} : step \in Steps
        /\ "failed" \in Outcomes
        /\ \A loss \in {"exit", "class", "gate", "error", "close"} :
             exec[e].lost \union {loss} \in SUBSET Losses
  BY <1>1 DEF Steps, Outcomes, Losses, Call
<1>102. ASSUME NEW step \in Steps, NEW child \in {"none", "alive", "gone"},
              NEW loss \in {"exit", "class", "gate", "error", "close"},
              exec' = [exec EXCEPT ![e].pc = step, ![e].child = child, ![e].lost = @ \union {loss}]
        PROVE  Moved
  <2> DEFINE x == [exec[e] EXCEPT !.pc = step, !.child = child, !.lost = @ \union {loss}]
  <2>1. x \in Call /\ x.target = exec[e].target
    BY <1>1, <1>101 DEF Call
  <2>2. exec' = [exec EXCEPT ![e] = x]
    BY <1>102
  <2> QED BY <2>1, <2>2, <1>100
<1>103. ASSUME NEW step \in Steps, NEW loss \in {"exit", "class", "gate", "error", "close"},
              exec' = [exec EXCEPT ![e].pc = step, ![e].lost = @ \union {loss}]
        PROVE  Moved
  <2> DEFINE x == [exec[e] EXCEPT !.pc = step, !.lost = @ \union {loss}]
  <2>1. x \in Call /\ x.target = exec[e].target
    BY <1>1, <1>101 DEF Call
  <2>2. exec' = [exec EXCEPT ![e] = x]
    BY <1>103
  <2> QED BY <2>1, <2>2, <1>100
<1> USE <1>1
<1>2. BeginLocal(e) => Moved
  BY DEF BeginLocal, Goto, Ends, Call, Steps, Outcomes
<1>3. BeginDsh(e) => Moved
  BY DEF BeginDsh, Goto, Ends, Call, Steps, Outcomes
<1>4. CreateDsh(e) => Moved
  BY DEF CreateDsh, Goto, Ends, Call, Steps, Outcomes
<1>5. Start(e) => Moved
  BY DEF Start, Goto, Ends, Call, Steps, Outcomes
<1>6. ChargeRestart(e) => Moved
  BY DEF ChargeRestart, Goto, Ends, Call, Steps, Outcomes
<1>7. Rearm(e) => Moved
  BY DEF Rearm, Goto, Ends, Call, Steps, Outcomes
<1>8. Acquire(e) => Moved
  BY DEF Acquire, Goto, Ends, Call, Steps, Outcomes
<1>9. LoadManifest(e) => Moved
  BY DEF LoadManifest, Goto, Ends, Call, Steps, Outcomes
<1>10. VerifyFiles(e) => Moved
  BY DEF VerifyFiles, Goto, Ends, Call, Steps, Outcomes
<1>11. ChargeBootstrap(e) => Moved
  BY DEF ChargeBootstrap, Goto, Ends, Call, Steps, Outcomes
<1>12. Launch(e) => Moved
  BY DEF Launch, Goto, Ends, Call, Steps, Outcomes
<1>13. DenyServerRequest(e) => Moved
  BY DEF DenyServerRequest, Goto, Ends, Call, Steps, Outcomes
<1>14. TurnEnds(e) => Moved
  BY DEF TurnEnds, Goto, Ends, Call, Steps, Outcomes
<1>15. Finish(e) => Moved
  BY DEF Finish, Goto, Ends, Call, Steps, Outcomes
<1>16. LookForExit(e) => Moved
  BY DEF LookForExit, Goto, Ends, Call, Steps, Outcomes
<1>17. InsertExit(e) => Moved
  BY DEF InsertExit, Goto, Ends, Call, Steps, Outcomes
<1>18. ASSUME Fail(e) PROVE Moved
  <2>1. PICK secret \in BOOLEAN, step \in Steps, next \in Steps, child \in {"none", "alive", "gone"} :
          exec' = [exec EXCEPT ![e].outcome = "failed", ![e].secret = secret, ![e].pc = step,
                               ![e].after = next, ![e].child = child]
    <3>1. exec[e].after \in Steps /\ exec[e].child \in {"none", "alive", "gone"}
      BY DEF Call
    <3> DEFINE step == IF Local(e) THEN "account" ELSE "judging"
               next == IF Local(e) THEN "judging" ELSE exec[e].after
               child == IF Local(e) \/ exec[e].child = "none" THEN exec[e].child ELSE "gone"
    <3>2. step \in Steps /\ next \in Steps /\ child \in {"none", "alive", "gone"}
      BY <3>1, <1>101
    <3>3. PICK secret \in BOOLEAN :
            exec' = [exec EXCEPT ![e].outcome = "failed", ![e].secret = secret, ![e].pc = step,
                                 ![e].after = next, ![e].child = child]
      BY <1>18 DEF Fail
    <3> HIDE DEF step, next, child
    <3> QED BY <3>2, <3>3
  <2> DEFINE x == [exec[e] EXCEPT !.outcome = "failed", !.secret = secret, !.pc = step,
                                  !.after = next, !.child = child]
  <2>2. x \in Call /\ x.target = exec[e].target
    BY <1>1, <1>101 DEF Call
  <2>3. exec' = [exec EXCEPT ![e] = x]
    BY <2>1
  <2> QED BY <2>2, <2>3, <1>100
<1>19. ASSUME Judge(e) PROVE Moved
  <2>1. CASE exec' = [exec EXCEPT ![e].pc = "stopping", ![e].seen = run[target(e)]]
    <3> DEFINE x == [exec[e] EXCEPT !.pc = "stopping", !.seen = run[target(e)]]
    <3>1. x \in Call /\ x.target = exec[e].target
      BY <1>1 DEF Call, Steps
    <3>2. exec' = [exec EXCEPT ![e] = x]
      BY <2>1
    <3> QED BY <3>1, <3>2, <1>100
  <2>2. CASE exec' = [exec EXCEPT ![e].pc = IF Local(e) THEN "raised" ELSE "release",
                                 ![e].lost = @ \union {"class"}]
    <3> DEFINE step == IF Local(e) THEN "raised" ELSE "release"
    <3>1. step \in Steps
      BY DEF Steps
    <3>2. exec' = [exec EXCEPT ![e].pc = step, ![e].lost = @ \union {"class"}]
      BY <2>2
    <3> HIDE DEF step
    <3> QED BY <3>1, <3>2, <1>103
  <2> QED BY <1>19, <2>1, <2>2 DEF Judge
<1>20. ASSUME StopRun(e) PROVE Moved
  <2>1. PICK step \in Steps :
          exec' = [exec EXCEPT ![e].pc = step, ![e].after = "release"]
    BY <1>20 DEF StopRun, Steps
  <2> DEFINE x == [exec[e] EXCEPT !.pc = step, !.after = "release"]
  <2>2. x \in Call /\ x.target = exec[e].target
    BY <1>1, <1>101 DEF Call
  <2>3. exec' = [exec EXCEPT ![e] = x]
    BY <2>1
  <2> QED BY <2>2, <2>3, <1>100
<1>21. ASSUME Raise(e) PROVE Moved
  <2> DEFINE x == [exec[e] EXCEPT !.pc = "account", !.after = "gate", !.outcome = "failed"]
  <2>2. x \in Call /\ x.target = exec[e].target
    BY <1>1, <1>101 DEF Call
  <2>3. exec' = [exec EXCEPT ![e] = x]
    BY <1>21 DEF Raise
  <2> QED BY <2>2, <2>3, <1>100
<1>22. RecordGate(e) => Moved
  BY DEF RecordGate, Goto, Ends, Call, Steps, Outcomes
<1>23. ASSUME CloseAdapter(e) PROVE Moved
  <2>1. PICK child \in {"none", "alive", "gone"} :
          exec' = [exec EXCEPT ![e].pc = "ensure", ![e].child = child]
    BY <1>23 DEF CloseAdapter, Call
  <2> DEFINE x == [exec[e] EXCEPT !.pc = "ensure", !.child = child]
  <2>2. x \in Call /\ x.target = exec[e].target
    BY <1>1, <1>101 DEF Call
  <2>3. exec' = [exec EXCEPT ![e] = x]
    BY <2>1
  <2> QED BY <2>2, <2>3, <1>100
<1>24. ASSUME EnsureClosed(e) PROVE Moved
  <2>1. /\ Leave(e) \in Call /\ Leave(e).target = exec[e].target
        /\ LeaveOpen(e) \in Call /\ LeaveOpen(e).target = exec[e].target
    BY <1>1, <1>101 DEF Leave, LeaveOpen, Call, Losses
  <2>2. Goto(e, "close") => Moved
    BY DEF Goto, Call, Steps
  <2> QED BY <1>24, <2>1, <2>2, <1>100 DEF EnsureClosed
<1>25. ASSUME CloseRun(e) PROVE Moved
  <2>1. /\ Leave(e) \in Call /\ Leave(e).target = exec[e].target
        /\ LeaveOpen(e) \in Call /\ LeaveOpen(e).target = exec[e].target
    BY <1>1, <1>101 DEF Leave, LeaveOpen, Call, Losses
  <2> DEFINE x == [Leave(e) EXCEPT !.closed = TRUE]
  <2>2. x \in Call /\ x.target = exec[e].target
    BY <2>1 DEF Call
  <2>3. \/ exec' = [exec EXCEPT ![e] = x] \/ exec' = [exec EXCEPT ![e] = Leave(e)]
        \/ exec' = [exec EXCEPT ![e] = LeaveOpen(e)]
    BY <1>25 DEF CloseRun
  <2> QED BY <2>1, <2>2, <2>3, <1>100
<1>26. ASSUME Release(e) PROVE Moved
  <2>1. PICK child \in {"none", "alive", "gone"} :
          exec' = [exec EXCEPT ![e].pc = "over", ![e].child = child]
    BY <1>26 DEF Release, Call
  <2> DEFINE x == [exec[e] EXCEPT !.pc = "over", !.child = child]
  <2>2. x \in Call /\ x.target = exec[e].target
    BY <1>1, <1>101 DEF Call
  <2>3. exec' = [exec EXCEPT ![e] = x]
    BY <2>1
  <2> QED BY <2>2, <2>3, <1>100
<1>27. ASSUME AccountingFails(e) PROVE Moved
  <2> DEFINE step == IF exec[e].after = "gate" /\ exec[e].outcome = "completed"
                     THEN "over" ELSE exec[e].after
  <2>1. step \in Steps
    BY <1>101 DEF Call
  <2>2. exec' = [exec EXCEPT ![e].pc = step, ![e].lost = @ \union {"exit"}]
    BY <1>27 DEF AccountingFails
  <2> HIDE DEF step
  <2> QED BY <2>1, <2>2, <1>103
<1>28. ASSUME GateFails(e) PROVE Moved
  <2> DEFINE step == IF exec[e].outcome = "completed" THEN "over" ELSE "closing"
  <2>1. step \in Steps
    BY DEF Steps
  <2>2. exec' = [exec EXCEPT ![e].pc = step, ![e].lost = @ \union {"gate"}]
    BY <1>28 DEF GateFails
  <2> HIDE DEF step
  <2> QED BY <2>1, <2>2, <1>103
<1>29. CloseRaises(e) => Moved
  BY <1>101, <1>102 DEF CloseRaises
<1> QED BY <1>2, <1>3, <1>4, <1>5, <1>6, <1>7, <1>8, <1>9, <1>10, <1>11, <1>12, <1>13, <1>14, <1>15, <1>16, <1>17, <1>18, <1>19, <1>20, <1>21, <1>22, <1>23, <1>24, <1>25, <1>26, <1>27, <1>28, <1>29, Step(e) DEF Step

(* What executions do to runs: a local run is never restarted. *)
RunMove(r) ==
  \/ CreateRun(r, NoRun) \/ StartRun(r) \/ SafeStopRun(r)
  \/ \E v \in Values : CompleteRun(r, v) \/ FailRun(r, v)
  \/ r \notin LocalRuns /\ RestartRun(r)

LEMMA ExecutionsMoveRuns ==
  ASSUME ExecInv, [ExecNext]_execVars
  PROVE  (UNCHANGED vars) \/ (\E r \in Runs : RunMove(r))
<1> DEFINE Moved == (UNCHANGED vars) \/ (\E r \in Runs : RunMove(r))
<1>1. ASSUME NEW e \in ExecutionIds, Step(e) PROVE Moved
  <2>1. target(e) \in Runs
    BY CallFields DEF ExecInv
  <2>2. RunMove(target(e)) => Moved
    BY <2>1
  <2>3. Rearm(e) => Moved
    <3>1. Rearm(e) => target(e) \notin LocalRuns
      BY DEF Rearm, At, ExecInv, InOrder, Local
    <3>2. Rearm(e) => UNCHANGED vars \/ RestartRun(target(e))
      BY DEF Rearm
    <3> QED BY <3>1, <3>2, <2>2 DEF RunMove
  <2>4. BeginLocal(e) \/ CreateDsh(e) => Moved
    BY <2>2 DEF BeginLocal, CreateDsh, RunMove
  <2>5. Start(e) \/ DenyServerRequest(e) \/ StopRun(e) => Moved
    BY <2>2 DEF Start, DenyServerRequest, StopRun, RunMove
  <2>6. Finish(e) \/ CloseRun(e) => Moved
    BY <2>2 DEF Finish, CloseRun, RunMove
  <2>7. Step(e) /\ ~Rearm(e) /\ ~BeginLocal(e) /\ ~CreateDsh(e) /\ ~Start(e) /\ ~DenyServerRequest(e)
          /\ ~StopRun(e) /\ ~Finish(e) /\ ~CloseRun(e) => UNCHANGED vars
    BY DEF Step, BeginDsh, ChargeRestart, Acquire, LoadManifest, VerifyFiles, ChargeBootstrap, Launch,
       TurnEnds, LookForExit, InsertExit, AccountingFails, Fail, Judge, Raise, RecordGate, GateFails,
       CloseAdapter, CloseRaises, EnsureClosed, Release
  <2> QED BY <1>1, <2>3, <2>4, <2>5, <2>6, <2>7
<1>2. ASSUME NEW r \in Runs, Interrupt(r) \/ Attach(r) PROVE Moved
  BY <1>2 DEF Interrupt, Attach, RunMove
<1>3. (\E x \in Runs \union {Profile}, n \in Ceilings : Declare(x, n)) \/ UNCHANGED execVars => UNCHANGED vars
  BY DEF Declare, execVars
<1>4. UNCHANGED vars => Moved
  OBVIOUS
<1> HIDE DEF Moved
<1>5. Moved
  BY <1>1, <1>2, <1>3, <1>4 DEF ExecNext
<1> QED BY <1>5 DEF Moved

LEMMA MovesKeepType ==
  ASSUME TypeOK, NEW r \in Runs, RunMove(r)
  PROVE  TypeOK'
<1>1. CASE CreateRun(r, NoRun)
  BY <1>1 DEF CreateRun, TypeOK, RUN_STATES, Live
<1>2. CASE ~CreateRun(r, NoRun)
  <2>1. Next
    BY <1>2 DEF RunMove, Next, RunStep
  <2> QED BY <2>1, TypePreserved
<1> QED BY <1>1, <1>2

(* What stays true of a local run, whoever moves it.                       *)
LEMMA LocalRunsMove ==
  ASSUME ExecInv, [ExecNext]_execVars
  PROVE  /\ TypeOK'
         /\ \A q \in LocalRuns :
              /\ run[q] \in Terminal => run'[q] \in Terminal
              /\ run[q] \in {"running"} \union Terminal => run'[q] \in {"running"} \union Terminal
              /\ run[q] # "absent" => run'[q] # "absent"
              /\ run'[q] \in {"absent", "created", "running"} \union Terminal
<1>1. TypeOK /\ LocalRunsStayShut /\ LocalRuns \subseteq Runs
  BY ExecutionAssumption DEF ExecInv, ExecTypeOK
<1>2. CASE UNCHANGED vars
  BY <1>1, <1>2 DEF vars, TypeOK, LocalRunsStayShut
<1>3. ASSUME NEW r \in Runs, RunMove(r)
      PROVE  \A q \in LocalRuns :
               /\ run[q] \in Terminal => run'[q] \in Terminal
               /\ run[q] \in {"running"} \union Terminal => run'[q] \in {"running"} \union Terminal
               /\ run[q] # "absent" => run'[q] # "absent"
               /\ run'[q] \in {"absent", "created", "running"} \union Terminal
  <2>1. \/ run[r] = "absent" /\ run' = [run EXCEPT ![r] = "created"]
        \/ \E new \in {"running", "safe_stopped", "completed", "failed"} : SetRunStatus(r, new)
        \/ r \notin LocalRuns /\ run' = [run EXCEPT ![r] = "running"]
    BY <1>3 DEF RunMove, CreateRun, StartRun, SafeStopRun, CompleteRun, FailRun, RestartRun
  <2>2. CASE run[r] = "absent" /\ run' = [run EXCEPT ![r] = "created"]
    BY <1>1, <2>2 DEF TypeOK, LocalRunsStayShut, Terminal
  <2>3. ASSUME NEW new \in {"running", "safe_stopped", "completed", "failed"}, SetRunStatus(r, new)
        PROVE  \A q \in LocalRuns :
               /\ run[q] \in Terminal => run'[q] \in Terminal
               /\ run[q] \in {"running"} \union Terminal => run'[q] \in {"running"} \union Terminal
               /\ run[q] # "absent" => run'[q] # "absent"
               /\ run'[q] \in {"absent", "created", "running"} \union Terminal
    BY <1>1, <2>3 DEF SetRunStatus, TypeOK, LocalRunsStayShut, Terminal, Transitions
  <2>4. CASE r \notin LocalRuns /\ run' = [run EXCEPT ![r] = "running"]
    BY <1>1, <2>4 DEF TypeOK, LocalRunsStayShut
  <2> QED BY <2>1, <2>2, <2>3, <2>4
<1>4. ASSUME NEW r \in Runs, RunMove(r) PROVE TypeOK'
  BY <1>1, <1>4, MovesKeepType
<1>5. CASE \E r \in Runs : RunMove(r)
  BY <1>3, <1>4, <1>5
<1> QED BY <1>2, <1>5, ExecutionsMoveRuns

(* What the clients do to the ledgers. *)
LedgerMove ==
  \/ \E r \in Runs, x \in Budgeted : Consume(r, x)
  \/ \E r \in Runs, class \in ExitClasses : RecordExit(r, class)
  \/ \E r \in Runs : RecordAccessGate(r)
  \/ \E x \in Budgeted, n \in Ceilings : DeclareBudget(x, n)

LEMMA LedgersGrow ==
  ASSUME LedgerTypeOK, ChargesAreWithinCeilings, LedgerMove \/ UNCHANGED ledgers
  PROVE  /\ LedgerTypeOK' /\ ChargesAreWithinCeilings'
         /\ \A r \in Runs : ExitIsRecorded(r) => ExitIsRecorded(r)'
         /\ gated \subseteq gated'
         /\ \A r \in Runs, x \in Budgeted :
              /\ Len(spent[r][x]) \in Nat /\ Len(spent'[r][x]) \in Nat
              /\ Len(spent[r][x]) <= Len(spent'[r][x])
<1>1. CASE UNCHANGED ledgers
  BY <1>1 DEF ledgers, LedgerTypeOK, ChargesAreWithinCeilings, ExitIsRecorded
<1>2. ASSUME NEW r \in Runs, NEW x \in Budgeted, Consume(r, x)
      PROVE  /\ LedgerTypeOK' /\ ChargesAreWithinCeilings'
             /\ UNCHANGED <<exits, gated>>
             /\ \A q \in Runs, y \in Budgeted :
                  /\ Len(spent[q][y]) \in Nat /\ Len(spent'[q][y]) \in Nat
                  /\ Len(spent[q][y]) <= Len(spent'[q][y])
  <2>1. /\ spent' = [spent EXCEPT ![r][x] = Append(@, ceiling[x])]
        /\ UNCHANGED <<ceiling, exits, gated>> /\ WithinBudget(r, x)
    BY <1>2 DEF Consume, RecordConsumption
  <2> DEFINE s == spent[r][x]
  <2>2. /\ s \in Seq(Nat \union {NoCeiling}) /\ ceiling[x] \in Nat \union {NoCeiling}
        /\ spent \in [Runs -> [Budgeted -> Seq(Nat \union {NoCeiling})]]
    BY DEF LedgerTypeOK
  <2>3. /\ Append(s, ceiling[x]) \in Seq(Nat \union {NoCeiling})
        /\ Len(Append(s, ceiling[x])) = Len(s) + 1 /\ Len(s) \in Nat
        /\ \A i \in 1 .. Len(s) : Append(s, ceiling[x])[i] = s[i]
        /\ Append(s, ceiling[x])[Len(s) + 1] = ceiling[x]
    BY <2>2
  <2>4. /\ spent'[r][x] = Append(s, ceiling[x])
        /\ \A q \in Runs, y \in Budgeted : q # r \/ y # x => spent'[q][y] = spent[q][y]
        /\ spent' \in [Runs -> [Budgeted -> Seq(Nat \union {NoCeiling})]]
    BY <2>1, <2>2, <2>3
  <2>5. LedgerTypeOK'
    BY <2>1, <2>4 DEF LedgerTypeOK
  <2>6. ASSUME NEW i \in DOMAIN spent'[r][x], spent'[r][x][i] # NoCeiling
        PROVE  i <= spent'[r][x][i]
    <3>1. i \in 1 .. Len(s) + 1
      BY <2>3, <2>4
    <3>2. CASE i \in 1 .. Len(s)
      BY <2>2, <2>3, <2>4, <2>6, <3>2 DEF ChargesAreWithinCeilings
    <3>3. CASE i = Len(s) + 1
      BY <2>1, <2>2, <2>3, <2>4, <2>6, <3>3 DEF WithinBudget
    <3> QED BY <3>1, <3>2, <3>3, <2>3
  <2>7. ChargesAreWithinCeilings'
    <3> SUFFICES ASSUME NEW q \in Runs, NEW y \in Budgeted, NEW i \in DOMAIN spent'[q][y],
                        spent'[q][y][i] # NoCeiling
                 PROVE  i <= spent'[q][y][i]
      BY DEF ChargesAreWithinCeilings
    <3>1. CASE q = r /\ y = x
      BY <2>6, <3>1
    <3>2. CASE q # r \/ y # x
      <4>1. spent'[q][y] = spent[q][y]
        BY <2>4, <3>2
      <4> QED BY <4>1 DEF ChargesAreWithinCeilings
    <3> QED BY <3>1, <3>2
  <2>8. ASSUME NEW q \in Runs, NEW y \in Budgeted
        PROVE  /\ Len(spent[q][y]) \in Nat /\ Len(spent'[q][y]) \in Nat
               /\ Len(spent[q][y]) <= Len(spent'[q][y])
    <3>1. Len(spent[q][y]) \in Nat
      BY <2>2, LenProperties
    <3>2. CASE q = r /\ y = x
      BY <2>3, <2>4, <3>2
    <3>3. CASE q # r \/ y # x
      BY <2>4, <3>1, <3>3
    <3> QED BY <3>1, <3>2, <3>3
  <2> QED BY <2>1, <2>5, <2>7, <2>8
<1>3. ASSUME NEW r \in Runs, NEW class \in ExitClasses, RecordExit(r, class)
      PROVE  /\ LedgerTypeOK' /\ UNCHANGED <<spent, gated>>
             /\ \A q \in Runs : ExitIsRecorded(q) => ExitIsRecorded(q)'
  <2>1. /\ exits' = [exits EXCEPT ![r] = Append(@, class)] /\ UNCHANGED <<ceiling, spent, gated>>
        /\ exits \in [Runs -> Seq(ExitClasses)]
    BY <1>3 DEF RecordExit, LedgerTypeOK
  <2>2. Append(exits[r], class) \in Seq(ExitClasses) /\ Append(exits[r], class) # <<>>
    BY <2>1
  <2> QED BY <2>1, <2>2 DEF LedgerTypeOK, ExitIsRecorded
<1>4. ASSUME NEW r \in Runs, RecordAccessGate(r)
      PROVE  LedgerTypeOK' /\ UNCHANGED <<spent, exits>> /\ gated \subseteq gated'
  BY <1>4 DEF RecordAccessGate, LedgerTypeOK
<1>5. ASSUME NEW x \in Budgeted, NEW n \in Ceilings, DeclareBudget(x, n)
      PROVE  LedgerTypeOK' /\ UNCHANGED <<spent, exits, gated>>
  BY <1>5, LedgerAssumption DEF DeclareBudget, LedgerTypeOK
<1>6. UNCHANGED spent =>
        /\ ChargesAreWithinCeilings'
        /\ \A r \in Runs, x \in Budgeted :
             /\ Len(spent[r][x]) \in Nat /\ Len(spent'[r][x]) \in Nat
             /\ Len(spent[r][x]) <= Len(spent'[r][x])
  BY DEF ChargesAreWithinCeilings, LedgerTypeOK
<1>7. /\ UNCHANGED exits => \A r \in Runs : ExitIsRecorded(r) => ExitIsRecorded(r)'
      /\ UNCHANGED gated => gated \subseteq gated'
  BY DEF ExitIsRecorded
<1> QED BY <1>1, <1>2, <1>3, <1>4, <1>5, <1>6, <1>7 DEF LedgerMove

LEMMA ExecutionsMoveLedgers ==
  ASSUME ExecTypeOK, [ExecNext]_execVars
  PROVE  LedgerMove \/ UNCHANGED ledgers
<1>1. ASSUME NEW e \in ExecutionIds, Step(e) PROVE LedgerMove \/ UNCHANGED ledgers
  <2>1. target(e) \in Runs /\ target(e) \in Budgeted /\ Profile \in Budgeted
    BY CallFields, ExecutionAssumption DEF Budgeted
  <2>2. ChargeRestart(e) \/ ChargeBootstrap(e) => LedgerMove \/ UNCHANGED ledgers
    BY <2>1 DEF ChargeRestart, ChargeBootstrap, RecordRunRestart, ConsumeDshRetry, LedgerMove
  <2>3. InsertExit(e) => LedgerMove
    BY <2>1 DEF InsertExit, RecordProviderExit, LedgerMove, ExitClasses
  <2>4. RecordGate(e) => LedgerMove
    BY <2>1 DEF RecordGate, LedgerMove
  <2>5. Step(e) /\ ~ChargeRestart(e) /\ ~ChargeBootstrap(e) /\ ~InsertExit(e) /\ ~RecordGate(e)
          => UNCHANGED ledgers
    BY DEF Step, BeginLocal, BeginDsh, CreateDsh, Start, Rearm, Acquire, LoadManifest, VerifyFiles,
       Launch, DenyServerRequest, TurnEnds, Finish, LookForExit, AccountingFails, Fail, Judge, StopRun,
       Raise, GateFails, CloseAdapter, CloseRaises, EnsureClosed, CloseRun, Release
  <2> QED BY <1>1, <2>2, <2>3, <2>4, <2>5
<1>2. ASSUME NEW r \in Runs, Interrupt(r) \/ Attach(r) PROVE LedgerMove \/ UNCHANGED ledgers
  BY <1>2 DEF Interrupt, Attach, AttachReceipt, LedgerMove, ExitClasses
<1>3. ASSUME NEW x \in Runs \union {Profile}, NEW n \in Ceilings, Declare(x, n) PROVE LedgerMove
  BY <1>3, ExecutionAssumption DEF Declare, LedgerMove, Budgeted
<1>4. UNCHANGED execVars => UNCHANGED ledgers
  BY DEF execVars
<1> QED BY <1>1, <1>2, <1>3, <1>4 DEF ExecNext

(* The way out of a local call leads to its end, or once more to the       *)
(* accounting.                                                             *)
LEMMA LeavesAreKnown ==
  ASSUME ExecTypeOK, NEW e \in ExecutionIds,
         \/ exec' = [exec EXCEPT ![e] = Leave(e)]
         \/ exec' = [exec EXCEPT ![e] = LeaveOpen(e)]
         \/ exec' = [exec EXCEPT ![e] = [Leave(e) EXCEPT !.closed = TRUE]]
  PROVE  /\ exec'[e].target = exec[e].target /\ exec'[e].child = exec[e].child
         /\ exec'[e].outcome = exec[e].outcome /\ exec'[e].mine = exec[e].mine
         /\ exec'[e].rearmed = exec[e].rearmed /\ exec[e].lost \subseteq exec'[e].lost
         /\ exec' = [exec EXCEPT ![e] = LeaveOpen(e)] => "error" \in exec'[e].lost
         /\ IF exec[e].outcome = "completed" THEN exec'[e].pc = "account" /\ exec'[e].after = "gate"
                                            ELSE exec'[e].pc = "over"
<1>1. exec[e] \in Call /\ exec \in [ExecutionIds -> Call]
  BY CallFields
<1> DEFINE x == Leave(e)
<1>2. /\ x.target = exec[e].target /\ x.child = exec[e].child /\ x.outcome = exec[e].outcome
      /\ x.mine = exec[e].mine /\ x.rearmed = exec[e].rearmed /\ x.lost = exec[e].lost
      /\ IF exec[e].outcome = "completed" THEN x.pc = "account" /\ x.after = "gate"
                                         ELSE x.pc = "over"
  BY <1>1 DEF Leave, Call
<1>3. x \in Call
  <2>1. "account" \in Steps /\ "gate" \in Steps /\ "over" \in Steps
    BY DEF Steps
  <2> QED BY <1>1, <2>1 DEF Leave, Call
<1> DEFINE y == [x EXCEPT !.lost = @ \union {"error"}]
<1>4. \/ exec'[e] = x \/ exec'[e] = y
      \/ exec'[e] = [x EXCEPT !.closed = TRUE]
  BY <1>1 DEF LeaveOpen
<1>5. exec' = [exec EXCEPT ![e] = LeaveOpen(e)] => exec'[e] = y
  BY <1>1 DEF LeaveOpen
<1>6. "error" \in y.lost
  <2> HIDE DEF x
  <2> QED BY <1>3 DEF Call
<1> HIDE DEF x
<1> QED BY <1>2, <1>3, <1>4, <1>5, <1>6 DEF Call

(* The way of the call that takes the step. *)
LEMMA StepsKeepOrder ==
  ASSUME ExecInv, NEW e \in ExecutionIds, Step(e)
  PROVE  InOrder(e)' /\ Reaped(e)'
<1>1. exec[e] \in Call /\ exec \in [ExecutionIds -> Call] /\ InOrder(e) /\ Reaped(e)
  BY CallFields DEF ExecInv
<1> USE <1>1
<1>100. ASSUME exec[e].pc \in {"ensure", "close"},
               \/ exec' = [exec EXCEPT ![e] = Leave(e)]
               \/ exec' = [exec EXCEPT ![e] = LeaveOpen(e)]
               \/ exec' = [exec EXCEPT ![e] = [Leave(e) EXCEPT !.closed = TRUE]]
        PROVE  InOrder(e)' /\ Reaped(e)'
  <2>1. /\ exec'[e].target = exec[e].target /\ exec'[e].child = exec[e].child
        /\ exec'[e].outcome = exec[e].outcome
        /\ IF exec[e].outcome = "completed" THEN exec'[e].pc = "account" /\ exec'[e].after = "gate"
                                           ELSE exec'[e].pc = "over"
    BY <1>100, LeavesAreKnown DEF ExecInv
  <2> QED BY <1>100, <2>1 DEF InOrder, Reaped, Accounting, At, Local, target
<1>2. BeginLocal(e) => InOrder(e)' /\ Reaped(e)'
  BY DEF BeginLocal, Goto, Ends, InOrder, Reaped, Accounting, At, Local, target, Call
<1>3. BeginDsh(e) => InOrder(e)' /\ Reaped(e)'
  BY DEF BeginDsh, Goto, Ends, InOrder, Reaped, Accounting, At, Local, target, Call
<1>4. CreateDsh(e) => InOrder(e)' /\ Reaped(e)'
  BY DEF CreateDsh, Goto, Ends, InOrder, Reaped, Accounting, At, Local, target, Call
<1>5. Start(e) => InOrder(e)' /\ Reaped(e)'
  BY DEF Start, Goto, Ends, InOrder, Reaped, Accounting, At, Local, target, Call
<1>6. ChargeRestart(e) => InOrder(e)' /\ Reaped(e)'
  BY DEF ChargeRestart, Goto, Ends, InOrder, Reaped, Accounting, At, Local, target, Call
<1>7. Rearm(e) => InOrder(e)' /\ Reaped(e)'
  BY DEF Rearm, Goto, Ends, InOrder, Reaped, Accounting, At, Local, target, Call
<1>8. Acquire(e) => InOrder(e)' /\ Reaped(e)'
  BY DEF Acquire, Goto, Ends, InOrder, Reaped, Accounting, At, Local, target, Call
<1>9. LoadManifest(e) => InOrder(e)' /\ Reaped(e)'
  BY DEF LoadManifest, Goto, Ends, InOrder, Reaped, Accounting, At, Local, target, Call
<1>10. VerifyFiles(e) => InOrder(e)' /\ Reaped(e)'
  BY DEF VerifyFiles, Goto, Ends, InOrder, Reaped, Accounting, At, Local, target, Call
<1>11. ChargeBootstrap(e) => InOrder(e)' /\ Reaped(e)'
  BY DEF ChargeBootstrap, Goto, Ends, InOrder, Reaped, Accounting, At, Local, target, Call
<1>12. Launch(e) => InOrder(e)' /\ Reaped(e)'
  BY DEF Launch, Goto, Ends, InOrder, Reaped, Accounting, At, Local, target, Call
<1>13. DenyServerRequest(e) => InOrder(e)' /\ Reaped(e)'
  BY DEF DenyServerRequest, Goto, Ends, InOrder, Reaped, Accounting, At, Local, target, Call
<1>14. TurnEnds(e) => InOrder(e)' /\ Reaped(e)'
  BY DEF TurnEnds, Goto, Ends, InOrder, Reaped, Accounting, At, Local, target, Call
<1>15. Finish(e) => InOrder(e)' /\ Reaped(e)'
  BY DEF Finish, Goto, Ends, InOrder, Reaped, Accounting, At, Local, target, Call
<1>16. LookForExit(e) => InOrder(e)' /\ Reaped(e)'
  BY DEF LookForExit, Goto, Ends, InOrder, Reaped, Accounting, At, Local, target, Call
<1>17. InsertExit(e) => InOrder(e)' /\ Reaped(e)'
  BY DEF InsertExit, Goto, Ends, InOrder, Reaped, Accounting, At, Local, target, Call
<1>18. Fail(e) => InOrder(e)' /\ Reaped(e)'
  BY DEF Fail, Goto, Ends, InOrder, Reaped, Accounting, At, Local, target, Call
<1>19. Judge(e) => InOrder(e)' /\ Reaped(e)'
  BY DEF Judge, Goto, Ends, InOrder, Reaped, Accounting, At, Local, target, Call
<1>20. StopRun(e) => InOrder(e)' /\ Reaped(e)'
  BY DEF StopRun, Goto, Ends, InOrder, Reaped, Accounting, At, Local, target, Call
<1>21. Raise(e) => InOrder(e)' /\ Reaped(e)'
  BY DEF Raise, Goto, Ends, InOrder, Reaped, Accounting, At, Local, target, Call
<1>22. RecordGate(e) => InOrder(e)' /\ Reaped(e)'
  BY DEF RecordGate, Goto, Ends, InOrder, Reaped, Accounting, At, Local, target, Call
<1>23. CloseAdapter(e) => InOrder(e)' /\ Reaped(e)'
  BY DEF CloseAdapter, Goto, Ends, InOrder, Reaped, Accounting, At, Local, target, Call
<1>24. ASSUME EnsureClosed(e) PROVE InOrder(e)' /\ Reaped(e)'
  <2>1. CASE Goto(e, "close")
    BY <1>24, <2>1 DEF EnsureClosed, Goto, InOrder, Reaped, Accounting, At, Local, target, Call
  <2>2. CASE exec' = [exec EXCEPT ![e] = Leave(e)] \/ exec' = [exec EXCEPT ![e] = LeaveOpen(e)]
    BY <1>24, <2>2, <1>100 DEF EnsureClosed, At
  <2> QED BY <1>24, <2>1, <2>2 DEF EnsureClosed
<1>25. ASSUME CloseRun(e) PROVE InOrder(e)' /\ Reaped(e)'
  <2>1. \/ exec' = [exec EXCEPT ![e] = Leave(e)]
        \/ exec' = [exec EXCEPT ![e] = LeaveOpen(e)]
        \/ exec' = [exec EXCEPT ![e] = [Leave(e) EXCEPT !.closed = TRUE]]
    BY <1>25 DEF CloseRun
  <2> QED BY <1>25, <2>1, <1>100 DEF CloseRun, At
<1>26. Release(e) => InOrder(e)' /\ Reaped(e)'
  BY DEF Release, Goto, Ends, InOrder, Reaped, Accounting, At, Local, target, Call
<1>27. AccountingFails(e) => InOrder(e)' /\ Reaped(e)'
  BY DEF AccountingFails, InOrder, Reaped, Accounting, At, Local, target, Call
<1>28. GateFails(e) => InOrder(e)' /\ Reaped(e)'
  BY DEF GateFails, InOrder, Reaped, Accounting, At, Local, target, Call
<1>29. CloseRaises(e) => InOrder(e)' /\ Reaped(e)'
  BY DEF CloseRaises, InOrder, Reaped, Accounting, At, Local, target, Call
<1> QED BY <1>2, <1>3, <1>4, <1>5, <1>6, <1>7, <1>8, <1>9, <1>10, <1>11, <1>12, <1>13, <1>14, <1>15, <1>16, <1>17, <1>18, <1>19, <1>20, <1>21, <1>22, <1>23, <1>24, <1>25, <1>26, <1>27, <1>28, <1>29, Zenon DEF Step

(* What the call that takes the step has recorded, and what it knows of    *)
(* its run.                                                                *)
LEMMA StepsKeepAccounts ==
  ASSUME ExecInv, NEW e \in ExecutionIds, Step(e)
  PROVE  Accounted(e)'
<1> DEFINE r == exec[e].target
<1>1. /\ exec[e] \in Call /\ exec \in [ExecutionIds -> Call] /\ r \in Runs
      /\ InOrder(e) /\ Accounted(e) /\ ExecTypeOK
  BY CallFields DEF ExecInv, target
<1>2. /\ exits[r] # <<>> => exits'[r] # <<>>
      /\ r \in gated => r \in gated'
  <2>1. LedgerMove \/ UNCHANGED ledgers
    BY ExecutionsMoveLedgers DEF ExecInv, ExecNext
  <2> QED BY <1>1, <2>1, LedgersGrow DEF ExecInv, ExecTypeOK, ExitIsRecorded
<1>3. exec'[e].target = r
  BY CallMoves DEF ExecInv
<1> USE <1>1, <1>2, <1>3
<1>4. BeginLocal(e) => Accounted(e)'
  BY DEF BeginLocal, Goto, Ends, InOrder, Accounting, At, Accounted, HasExit, HasGate, Local,
     target, Call, ExitIsRecorded
<1>5. BeginDsh(e) => Accounted(e)'
  BY DEF BeginDsh, Goto, Ends, InOrder, Accounting, At, Accounted, HasExit, HasGate, Local,
     target, Call, ExitIsRecorded
<1>6. CreateDsh(e) => Accounted(e)'
  BY DEF CreateDsh, Goto, Ends, InOrder, Accounting, At, Accounted, HasExit, HasGate, Local,
     target, Call, ExitIsRecorded
<1>7. Start(e) => Accounted(e)'
  BY DEF Start, Goto, Ends, InOrder, Accounting, At, Accounted, HasExit, HasGate, Local,
     target, Call, ExitIsRecorded
<1>8. ChargeRestart(e) => Accounted(e)'
  BY DEF ChargeRestart, Goto, Ends, InOrder, Accounting, At, Accounted, HasExit, HasGate, Local,
     target, Call, ExitIsRecorded
<1>9. Rearm(e) => Accounted(e)'
  BY DEF Rearm, Goto, Ends, InOrder, Accounting, At, Accounted, HasExit, HasGate, Local,
     target, Call, ExitIsRecorded
<1>10. Acquire(e) => Accounted(e)'
  BY DEF Acquire, Goto, Ends, InOrder, Accounting, At, Accounted, HasExit, HasGate, Local,
     target, Call, ExitIsRecorded
<1>11. LoadManifest(e) => Accounted(e)'
  BY DEF LoadManifest, Goto, Ends, InOrder, Accounting, At, Accounted, HasExit, HasGate, Local,
     target, Call, ExitIsRecorded
<1>12. VerifyFiles(e) => Accounted(e)'
  BY DEF VerifyFiles, Goto, Ends, InOrder, Accounting, At, Accounted, HasExit, HasGate, Local,
     target, Call, ExitIsRecorded
<1>13. ChargeBootstrap(e) => Accounted(e)'
  BY DEF ChargeBootstrap, Goto, Ends, InOrder, Accounting, At, Accounted, HasExit, HasGate, Local,
     target, Call, ExitIsRecorded
<1>14. Launch(e) => Accounted(e)'
  BY DEF Launch, Goto, Ends, InOrder, Accounting, At, Accounted, HasExit, HasGate, Local,
     target, Call, ExitIsRecorded
<1>15. DenyServerRequest(e) => Accounted(e)'
  BY DEF DenyServerRequest, Goto, Ends, InOrder, Accounting, At, Accounted, HasExit, HasGate, Local,
     target, Call, ExitIsRecorded
<1>16. TurnEnds(e) => Accounted(e)'
  BY DEF TurnEnds, Goto, Ends, InOrder, Accounting, At, Accounted, HasExit, HasGate, Local,
     target, Call, ExitIsRecorded
<1>17. Finish(e) => Accounted(e)'
  BY DEF Finish, Goto, Ends, InOrder, Accounting, At, Accounted, HasExit, HasGate, Local,
     target, Call, ExitIsRecorded
<1>18. LookForExit(e) => Accounted(e)'
  BY DEF LookForExit, Goto, Ends, InOrder, Accounting, At, Accounted, HasExit, HasGate, Local,
     target, Call, ExitIsRecorded
<1>19. ASSUME InsertExit(e) PROVE Accounted(e)'
  <2>1. exits'[r] # <<>>
    <3>1. exits' = [exits EXCEPT ![r] = Append(@, "local-inventory")] /\ exits \in [Runs -> Seq(ExitClasses)]
      BY <1>19 DEF InsertExit, RecordProviderExit, RecordExit, target, ExecInv, ExecTypeOK, LedgerTypeOK
    <3>2. Append(exits[r], "local-inventory") # <<>>
      BY <3>1 DEF ExitClasses
    <3> QED BY <3>1, <3>2
  <2> QED BY <1>19, <2>1 DEF InsertExit, Goto, InOrder, Accounting, At, Accounted, HasExit, HasGate,
            Local, target, Call,
            ExitIsRecorded
<1>20. Fail(e) => Accounted(e)'
  BY DEF Fail, Goto, Ends, InOrder, Accounting, At, Accounted, HasExit, HasGate, Local,
     target, Call, ExitIsRecorded
<1>21. Judge(e) => Accounted(e)'
  BY DEF Judge, Goto, Ends, InOrder, Accounting, At, Accounted, HasExit, HasGate, Local,
     target, Call, ExitIsRecorded
<1>22. StopRun(e) => Accounted(e)'
  BY DEF StopRun, Goto, Ends, InOrder, Accounting, At, Accounted, HasExit, HasGate, Local,
     target, Call, ExitIsRecorded
<1>23. Raise(e) => Accounted(e)'
  BY DEF Raise, Goto, Ends, InOrder, Accounting, At, Accounted, HasExit, HasGate, Local,
     target, Call, ExitIsRecorded
<1>24. ASSUME RecordGate(e) PROVE Accounted(e)'
  <2>1. r \in gated'
    BY <1>24 DEF RecordGate, RecordAccessGate, target
  <2> QED BY <1>24, <2>1 DEF RecordGate, Goto, InOrder, Accounting, At, Accounted, HasExit, HasGate,
            Local, target, Call,
            ExitIsRecorded
<1>25. CloseAdapter(e) => Accounted(e)'
  BY DEF CloseAdapter, Goto, Ends, InOrder, Accounting, At, Accounted, HasExit, HasGate, Local,
     target, Call, ExitIsRecorded
<1>26. ASSUME EnsureClosed(e) PROVE Accounted(e)'
  <2>1. CASE Goto(e, "close")
    BY <1>26, <2>1 DEF EnsureClosed, Goto, Accounting, At, Accounted, HasExit, HasGate, Local,
     target, Call, ExitIsRecorded
  <2>2. CASE exec' = [exec EXCEPT ![e] = Leave(e)] \/ exec' = [exec EXCEPT ![e] = LeaveOpen(e)]
    BY <1>26, <2>2, LeavesAreKnown DEF EnsureClosed, InOrder, Accounting, At, Accounted, HasExit,
       HasGate, Local, target, ExitIsRecorded
  <2> QED BY <1>26, <2>1, <2>2 DEF EnsureClosed
<1>27. ASSUME CloseRun(e) PROVE Accounted(e)'
  <2>1. \/ exec' = [exec EXCEPT ![e] = Leave(e)]
        \/ exec' = [exec EXCEPT ![e] = LeaveOpen(e)]
        \/ exec' = [exec EXCEPT ![e] = [Leave(e) EXCEPT !.closed = TRUE]]
    BY <1>27 DEF CloseRun
  <2> QED BY <1>27, <2>1, LeavesAreKnown DEF CloseRun, InOrder, Accounting, At, Accounted, HasExit,
            HasGate, Local, target, ExitIsRecorded
<1>28. Release(e) => Accounted(e)'
  BY DEF Release, Goto, Ends, InOrder, Accounting, At, Accounted, HasExit, HasGate, Local,
     target, Call, ExitIsRecorded
<1>29. ASSUME AccountingFails(e) PROVE Accounted(e)'
  <2>1. /\ exec'[e].lost = exec[e].lost \union {"exit"} /\ exec'[e].outcome = exec[e].outcome
        /\ exec'[e].pc = IF exec[e].after = "gate" /\ exec[e].outcome = "completed"
                         THEN "over" ELSE exec[e].after
    BY <1>29 DEF AccountingFails, Call
  <2> QED BY <1>29, <2>1 DEF AccountingFails, InOrder, Accounting, At, Accounted, HasExit, HasGate,
            Local, target, ExitIsRecorded
<1>30. ASSUME GateFails(e) PROVE Accounted(e)'
  <2>1. /\ exec'[e].lost = exec[e].lost \union {"gate"} /\ exec'[e].outcome = exec[e].outcome
        /\ exec'[e].pc = IF exec[e].outcome = "completed" THEN "over" ELSE "closing"
    BY <1>30 DEF GateFails, Call
  <2> QED BY <1>30, <2>1 DEF GateFails, InOrder, Accounting, At, Accounted, HasExit, HasGate,
            Local, target, ExitIsRecorded
<1>31. ASSUME CloseRaises(e) PROVE Accounted(e)'
  <2>1. /\ exec'[e].lost = exec[e].lost \union {"close"} /\ exec'[e].outcome = exec[e].outcome
        /\ exec'[e].pc = "over"
    BY <1>31 DEF CloseRaises, Call
  <2> QED BY <1>31, <2>1 DEF CloseRaises, InOrder, Accounting, At, Accounted, HasExit, HasGate,
            Local, target, ExitIsRecorded
<1> QED BY <1>4, <1>5, <1>6, <1>7, <1>8, <1>9, <1>10, <1>11, <1>12, <1>13, <1>14, <1>15, <1>16, <1>17, <1>18, <1>19, <1>20, <1>21, <1>22, <1>23, <1>24, <1>25, <1>26, <1>27, <1>28, <1>29, <1>30, <1>31, Zenon DEF Step

LEMMA StepsKeepKnowledge ==
  ASSUME ExecInv, NEW e \in ExecutionIds, Step(e)
  PROVE  KnowsRun(e)'
<1> DEFINE q == exec[e].target
           Known == /\ exec'[e].outcome = "completed" => run'[q] \in Terminal
                    /\ exec'[e].mine => run'[q] # "absent"
                    /\ exec'[e].mine /\ exec'[e].pc # "created" => run'[q] \in {"running"} \union Terminal
                    /\ exec'[e].mine /\ exec'[e].pc = "stopping" /\ exec'[e].seen \notin Unfinished =>
                         run'[q] \in Terminal
                    /\ exec'[e].mine /\ Handled(e)' =>
                         run'[q] \in Terminal \/ "class" \in exec'[e].lost
                    /\ exec'[e].mine /\ exec'[e].pc = "over" =>
                         run'[q] \in Terminal \/ exec'[e].lost \cap {"error", "close"} # {}
<1>1. exec'[e].target = q
  BY CallMoves DEF ExecInv
<1>2. SUFFICES ASSUME q \in LocalRuns PROVE Known
  BY <1>1 DEF KnowsRun, Local, target, At
<1>3. /\ exec[e] \in Call /\ exec \in [ExecutionIds -> Call] /\ q \in Runs
      /\ InOrder(e) /\ KnowsRun(e) /\ ExecTypeOK /\ run \in [Runs -> RUN_STATES \union {"absent"}]
      /\ run[q] \in {"absent", "created", "running"} \union Terminal
  BY <1>2, CallFields DEF ExecInv, target, ExecTypeOK, TypeOK, LocalRunsStayShut
<1>4. /\ run[q] \in Terminal => run'[q] \in Terminal
      /\ run[q] \in {"running"} \union Terminal => run'[q] \in {"running"} \union Terminal
      /\ run[q] # "absent" => run'[q] # "absent"
      /\ run'[q] \in {"absent", "created", "running"} \union Terminal
  BY <1>2, LocalRunsMove DEF ExecNext
<1>5. /\ exec[e].outcome = "completed" => run[q] \in Terminal
      /\ exec[e].mine => run[q] # "absent"
      /\ exec[e].mine /\ exec[e].pc # "created" => run[q] \in {"running"} \union Terminal
      /\ exec[e].mine /\ exec[e].pc = "stopping" /\ exec[e].seen \notin Unfinished =>
           run[q] \in Terminal
      /\ exec[e].mine /\ Handled(e) => run[q] \in Terminal \/ "class" \in exec[e].lost
      /\ exec[e].mine /\ exec[e].pc = "over" =>
           run[q] \in Terminal \/ exec[e].lost \cap {"error", "close"} # {}
  BY <1>2, <1>3 DEF KnowsRun, Local, target, At
<1> USE <1>2, <1>3, <1>4, <1>5
<1>6. ASSUME BeginLocal(e) PROVE Known
  <2>1. CASE CreateRun(q, NoRun)
    <3>1. run'[q] = "created" /\ run[q] = "absent"
      BY <2>1 DEF CreateRun
    <3> QED BY <1>6, <3>1 DEF BeginLocal, Goto, Ends, At, target, Call, InOrder, Handled, Accounting
  <2>2. CASE ~CreateRun(q, NoRun)
    BY <1>6, <2>2 DEF BeginLocal, Goto, Ends, At, target, Call, InOrder, Handled, Accounting
  <2> QED BY <2>1, <2>2
<1>7. BeginDsh(e) => Known
  BY DEF BeginDsh, Goto, Ends, InOrder, Accounting, At, Local, target, Call, Handled
<1>8. CreateDsh(e) => Known
  BY DEF CreateDsh, Goto, Ends, InOrder, Accounting, At, Local, target, Call, Handled
<1>9. ASSUME Start(e) PROVE Known
  <2>1. CASE StartRun(q)
    <3>1. run'[q] = "running"
      BY <2>1 DEF StartRun, SetRunStatus
    <3>2. run[q] = "created" \/ run[q] \notin Terminal
      BY <2>1 DEF StartRun, SetRunStatus, MayBecome, Transitions, Terminal
    <3>3. exec' = [exec EXCEPT ![e].pc = "started"] \/ run[q] \in Terminal
      BY <1>9, <2>1 DEF Start, Goto, target, StartRun, SetRunStatus, MayBecome, Transitions
    <3>4. exec'[e] = [exec[e] EXCEPT !.pc = "started"] /\ exec[e].outcome # "completed"
      BY <3>2, <3>3 DEF Call, Terminal
    <3> QED BY <3>1, <3>4 DEF Call, Handled, At, Accounting
  <2>2. CASE ~MayBecome(q, "running") /\ UNCHANGED vars
    <3>1. run[q] \in Terminal \union {"absent"}
      BY <2>2 DEF MayBecome, Transitions
    <3> QED BY <1>9, <3>1 DEF Start, Goto, Ends, At, target, Call, InOrder, Accounting, Local,
            Handled
  <2> QED BY <1>9, <2>1, <2>2 DEF Start, target
<1>10. ChargeRestart(e) => Known
  BY DEF ChargeRestart, Goto, Ends, InOrder, Accounting, At, Local, target, Call, Handled
<1>11. Rearm(e) => Known
  BY DEF Rearm, Goto, Ends, InOrder, Accounting, At, Local, target, Call, Handled
<1>12. Acquire(e) => Known
  BY DEF Acquire, Goto, Ends, InOrder, Accounting, At, Local, target, Call, Handled
<1>13. LoadManifest(e) => Known
  BY DEF LoadManifest, Goto, Ends, InOrder, Accounting, At, Local, target, Call, Handled
<1>14. VerifyFiles(e) => Known
  BY DEF VerifyFiles, Goto, Ends, InOrder, Accounting, At, Local, target, Call, Handled
<1>15. ChargeBootstrap(e) => Known
  BY DEF ChargeBootstrap, Goto, Ends, InOrder, Accounting, At, Local, target, Call, Handled
<1>16. Launch(e) => Known
  BY DEF Launch, Goto, Ends, InOrder, Accounting, At, Local, target, Call, Handled
<1>17. DenyServerRequest(e) => Known
  BY DEF DenyServerRequest, Goto, Ends, InOrder, Accounting, At, Local, target, Call, Handled
<1>18. TurnEnds(e) => Known
  BY DEF TurnEnds, Goto, Ends, InOrder, Accounting, At, Local, target, Call, Handled
<1>19. ASSUME Finish(e) PROVE Known
  <2>1. CASE \E v \in Values : CompleteRun(q, v)
    <3>1. run'[q] = "completed"
      BY <2>1 DEF CompleteRun, SetRunStatus
    <3> QED BY <1>19, <3>1 DEF Finish, Goto, At, target, Call, Terminal, Handled
  <2>2. CASE ~(\E v \in Values : CompleteRun(q, v))
    BY <1>19, <2>2 DEF Finish, Goto, At, target, Call, Local, Handled, Accounting
  <2> QED BY <2>1, <2>2
<1>20. LookForExit(e) => Known
  BY DEF LookForExit, Goto, Ends, InOrder, Accounting, At, Local, target, Call, Handled
<1>21. InsertExit(e) => Known
  BY DEF InsertExit, Goto, Ends, InOrder, Accounting, At, Local, target, Call, Handled
<1>22. Fail(e) => Known
  BY DEF Fail, Goto, Ends, InOrder, Accounting, At, Local, target, Call, Handled
<1>23. ASSUME Judge(e) PROVE Known
  <2>1. exec'[e].mine = exec[e].mine /\ exec'[e].outcome = exec[e].outcome /\ UNCHANGED vars
    BY <1>23 DEF Judge, Call
  <2>2. CASE exec'[e].pc = "stopping" /\ exec'[e].seen = run[q]
    <3>1. run[q] \notin Unfinished => run[q] \in Terminal \union {"absent"}
      BY DEF Unfinished, Terminal, RUN_STATES
    <3> QED BY <1>23, <2>1, <2>2, <3>1 DEF Judge, At, vars, Handled, Accounting
  <2>3. CASE exec'[e].pc = "raised" /\ "class" \in exec'[e].lost
    BY <1>23, <2>1, <2>3 DEF Judge, At, vars
  <2>4. \/ exec'[e].pc = "stopping" /\ exec'[e].seen = run[q]
        \/ exec'[e].pc = "raised" /\ "class" \in exec'[e].lost
    BY <1>23 DEF Judge, Call, Local, target
  <2> QED BY <2>2, <2>3, <2>4
<1>24. ASSUME StopRun(e) PROVE Known
  <2>1. /\ exec'[e].mine = exec[e].mine /\ exec'[e].outcome = exec[e].outcome
        /\ exec'[e].pc = "raised" /\ exec'[e].lost = exec[e].lost /\ exec[e].pc = "stopping"
    BY <1>24 DEF StopRun, Call, Local, target, At
  <2>2. exec[e].mine => run'[q] \in Terminal
    <3>1. CASE SafeStopRun(q)
      <4>1. run'[q] = "safe_stopped"
        BY <3>1 DEF SafeStopRun, SetRunStatus
      <4> QED BY <4>1 DEF Terminal
    <3>2. CASE exec[e].seen \in Unfinished /\ ~MayBecome(q, "safe_stopped")
      <4>1. run[q] \in Terminal \union {"absent"}
        BY <3>2 DEF MayBecome, Transitions
      <4> QED BY <4>1
    <3>3. CASE exec[e].seen \notin Unfinished
      BY <2>1, <3>3
    <3> QED BY <1>24, <3>1, <3>2, <3>3 DEF StopRun, target
  <2> QED BY <2>1, <2>2
<1>25. Raise(e) => Known
  BY DEF Raise, Goto, Ends, InOrder, Accounting, At, Local, target, Call, Handled
<1>26. RecordGate(e) => Known
  BY DEF RecordGate, Goto, Ends, InOrder, Accounting, At, Local, target, Call, Handled
<1>27. CloseAdapter(e) => Known
  BY DEF CloseAdapter, Goto, Ends, InOrder, Accounting, At, Local, target, Call, Handled
<1>28. ASSUME EnsureClosed(e) PROVE Known
  <2>1. CASE Goto(e, "close")
    BY <1>28, <2>1 DEF EnsureClosed, Goto, At, target, Call, Handled
  <2>2. CASE exec' = [exec EXCEPT ![e] = Leave(e)] /\ run[q] # "running"
    BY <1>28, <2>2, LeavesAreKnown DEF EnsureClosed, At, Handled
  <2>3. CASE exec' = [exec EXCEPT ![e] = LeaveOpen(e)]
    BY <1>28, <2>3, LeavesAreKnown DEF EnsureClosed, At, Handled
  <2> QED BY <1>28, <2>1, <2>2, <2>3 DEF EnsureClosed, target
<1>29. ASSUME CloseRun(e) PROVE Known
  <2>1. CASE /\ exec' = [exec EXCEPT ![e] = [Leave(e) EXCEPT !.closed = TRUE]]
             /\ \E v \in Values : FailRun(q, v)
    <3>1. run'[q] \in Terminal
      BY <2>1 DEF FailRun, SetRunStatus, Terminal
    <3> QED BY <1>29, <2>1, <3>1, LeavesAreKnown DEF CloseRun, At, Handled
  <2>2. CASE exec' = [exec EXCEPT ![e] = Leave(e)] /\ ~MayBecome(q, "failed")
    <3>1. run[q] \in Terminal \union {"absent"}
      BY <2>2 DEF MayBecome, Transitions
    <3> QED BY <1>29, <2>2, <3>1, LeavesAreKnown DEF CloseRun, At, Handled
  <2>3. CASE exec' = [exec EXCEPT ![e] = LeaveOpen(e)]
    BY <1>29, <2>3, LeavesAreKnown DEF CloseRun, At, Handled
  <2> QED BY <1>29, <2>1, <2>2, <2>3 DEF CloseRun, target
<1>30. Release(e) => Known
  BY DEF Release, Goto, Ends, InOrder, Accounting, At, Local, target, Call, Handled
<1>31. ASSUME AccountingFails(e) PROVE Known
  <2>1. /\ exec'[e].lost = exec[e].lost \union {"exit"} /\ exec'[e].outcome = exec[e].outcome
        /\ exec'[e].mine = exec[e].mine
        /\ exec'[e].pc = IF exec[e].after = "gate" /\ exec[e].outcome = "completed"
                         THEN "over" ELSE exec[e].after
    BY <1>31 DEF AccountingFails, Call
  <2> QED BY <1>31, <2>1 DEF AccountingFails, InOrder, Accounting, Local, target, Handled
<1>32. ASSUME GateFails(e) PROVE Known
  <2>1. /\ exec'[e].lost = exec[e].lost \union {"gate"} /\ exec'[e].outcome = exec[e].outcome
        /\ exec'[e].mine = exec[e].mine
        /\ exec'[e].pc = IF exec[e].outcome = "completed" THEN "over" ELSE "closing"
    BY <1>32 DEF GateFails, Call
  <2> QED BY <1>32, <2>1 DEF GateFails, At, Handled, Accounting
<1>33. ASSUME CloseRaises(e) PROVE Known
  <2>1. /\ exec'[e].lost = exec[e].lost \union {"close"} /\ exec'[e].outcome = exec[e].outcome
        /\ exec'[e].mine = exec[e].mine /\ exec'[e].pc = "over"
    BY <1>33 DEF CloseRaises, Call
  <2> QED BY <1>33, <2>1 DEF CloseRaises, At, Handled, Accounting
<1> HIDE DEF Known
<1> QED BY <1>6, <1>7, <1>8, <1>9, <1>10, <1>11, <1>12, <1>13, <1>14, <1>15, <1>16, <1>17, <1>18, <1>19, <1>20, <1>21, <1>22, <1>23, <1>24, <1>25, <1>26, <1>27, <1>28, <1>29, <1>30, <1>31, <1>32, <1>33, Zenon DEF Step

(* A call that holds a slot goes on holding it until it releases it. *)
LEMMA HoldersHold ==
  ASSUME ExecInv, NEW e \in ExecutionIds, Step(e), ~Release(e), ~Local(e), exec[e].pc \in Holding
  PROVE  exec'[e].pc \in Holding
<1>1. exec[e] \in Call /\ exec \in [ExecutionIds -> Call] /\ InOrder(e)
  BY CallFields DEF ExecInv
<1> USE <1>1 DEF Holding
<1>2. BeginLocal(e) => exec'[e].pc \in Holding
  BY DEF BeginLocal, Goto, Ends, InOrder, Accounting, At, Call
<1>3. BeginDsh(e) => exec'[e].pc \in Holding
  BY DEF BeginDsh, Goto, Ends, InOrder, Accounting, At, Call
<1>4. CreateDsh(e) => exec'[e].pc \in Holding
  BY DEF CreateDsh, Goto, Ends, InOrder, Accounting, At, Call
<1>5. Start(e) => exec'[e].pc \in Holding
  BY DEF Start, Goto, Ends, InOrder, Accounting, At, Call
<1>6. ChargeRestart(e) => exec'[e].pc \in Holding
  BY DEF ChargeRestart, Goto, Ends, InOrder, Accounting, At, Call
<1>7. Rearm(e) => exec'[e].pc \in Holding
  BY DEF Rearm, Goto, Ends, InOrder, Accounting, At, Call
<1>8. Acquire(e) => exec'[e].pc \in Holding
  BY DEF Acquire, Goto, Ends, InOrder, Accounting, At, Call
<1>9. LoadManifest(e) => exec'[e].pc \in Holding
  BY DEF LoadManifest, Goto, Ends, InOrder, Accounting, At, Call
<1>10. VerifyFiles(e) => exec'[e].pc \in Holding
  BY DEF VerifyFiles, Goto, Ends, InOrder, Accounting, At, Call
<1>11. ChargeBootstrap(e) => exec'[e].pc \in Holding
  BY DEF ChargeBootstrap, Goto, Ends, InOrder, Accounting, At, Call
<1>12. Launch(e) => exec'[e].pc \in Holding
  BY DEF Launch, Goto, Ends, InOrder, Accounting, At, Call
<1>13. DenyServerRequest(e) => exec'[e].pc \in Holding
  BY DEF DenyServerRequest, Goto, Ends, InOrder, Accounting, At, Call
<1>14. TurnEnds(e) => exec'[e].pc \in Holding
  BY DEF TurnEnds, Goto, Ends, InOrder, Accounting, At, Call
<1>15. Finish(e) => exec'[e].pc \in Holding
  BY DEF Finish, Goto, Ends, InOrder, Accounting, At, Call
<1>16. LookForExit(e) => exec'[e].pc \in Holding
  BY DEF LookForExit, Goto, Ends, InOrder, Accounting, At, Call
<1>17. InsertExit(e) => exec'[e].pc \in Holding
  BY DEF InsertExit, Goto, Ends, InOrder, Accounting, At, Call
<1>18. Fail(e) => exec'[e].pc \in Holding
  BY DEF Fail, Goto, Ends, InOrder, Accounting, At, Call
<1>19. Judge(e) => exec'[e].pc \in Holding
  BY DEF Judge, Goto, Ends, InOrder, Accounting, At, Call
<1>20. StopRun(e) => exec'[e].pc \in Holding
  BY DEF StopRun, Goto, Ends, InOrder, Accounting, At, Call
<1>21. Raise(e) => exec'[e].pc \in Holding
  BY DEF Raise, Goto, Ends, InOrder, Accounting, At, Call
<1>22. RecordGate(e) => exec'[e].pc \in Holding
  BY DEF RecordGate, Goto, Ends, InOrder, Accounting, At, Call
<1>23. CloseAdapter(e) => exec'[e].pc \in Holding
  BY DEF CloseAdapter, Goto, Ends, InOrder, Accounting, At, Call
<1>24. EnsureClosed(e) => exec'[e].pc \in Holding
  BY DEF EnsureClosed, Goto, Ends, InOrder, Accounting, At, Call
<1>25. CloseRun(e) => exec'[e].pc \in Holding
  BY DEF CloseRun, Goto, Ends, InOrder, Accounting, At, Call
<1>26. AccountingFails(e) => exec'[e].pc \in Holding
  BY DEF AccountingFails, InOrder, Accounting, Call
<1>27. GateFails(e) \/ CloseRaises(e) => exec'[e].pc \in Holding
  BY DEF GateFails, CloseRaises, At
<1> QED BY <1>2, <1>3, <1>4, <1>5, <1>6, <1>7, <1>8, <1>9, <1>10, <1>11, <1>12, <1>13, <1>14, <1>15, <1>16, <1>17, <1>18, <1>19, <1>20, <1>21, <1>22, <1>23, <1>24, <1>25, <1>26, <1>27, Zenon DEF Step

LEMMA LeasesMove ==
  ASSUME ExecInv, [ExecNext]_execVars
  PROVE  /\ leases' \subseteq Runs \ LocalRuns /\ IsFiniteSet(leases')
         /\ Cardinality(leases') <= Capacity /\ LeasesBelongToExecutions'
<1> DEFINE Kept == /\ leases' \subseteq Runs \ LocalRuns /\ IsFiniteSet(leases')
                   /\ Cardinality(leases') <= Capacity /\ LeasesBelongToExecutions'
<1>1. /\ leases \subseteq Runs \ LocalRuns /\ IsFiniteSet(leases) /\ Cardinality(leases) <= Capacity
      /\ LeasesBelongToExecutions /\ Cardinality(leases) \in Nat /\ Capacity \in Nat
  BY FS_CardinalityType, ExecutionAssumption DEF ExecInv, ExecTypeOK
<1>2. CASE UNCHANGED <<exec, leases>>
  BY <1>1, <1>2 DEF LeasesBelongToExecutions, target
<1>3. ASSUME NEW e \in ExecutionIds, Step(e) PROVE Kept
  <2>1. /\ target(e) \in Runs /\ exec'[e].target = target(e)
        /\ \A d \in ExecutionIds \ {e} : exec'[d] = exec[d]
        /\ exec[e] \in Call /\ exec \in [ExecutionIds -> Call]
    BY <1>3, CallFields, CallMoves DEF ExecInv, target
  <2>2. CASE UNCHANGED leases /\ ~Release(e)
    <3>1. ASSUME NEW r \in leases PROVE \E d \in ExecutionIds : exec'[d].target = r /\ exec'[d].pc \in Holding
      <4>1. PICK d \in ExecutionIds : target(d) = r /\ exec[d].pc \in Holding
        BY <1>1 DEF LeasesBelongToExecutions
      <4>2. CASE d # e
        BY <2>1, <4>1, <4>2 DEF target
      <4>3. CASE d = e
        <5>1. ~Local(e)
          BY <1>1, <4>1, <4>3 DEF Local
        <5> QED BY <1>3, <2>1, <2>2, <4>1, <4>3, <5>1, HoldersHold
      <4> QED BY <4>2, <4>3
    <3> QED BY <1>1, <2>2, <3>1 DEF LeasesBelongToExecutions, target
  <2>3. CASE /\ Acquire(e) /\ leases' = leases \union {target(e)}
             /\ target(e) \in leases \/ Cardinality(leases) < Capacity
    <3>1. IsFiniteSet(leases') /\ Cardinality(leases') <= Capacity
      <4>1. /\ IsFiniteSet(leases \union {target(e)})
            /\ Cardinality(leases \union {target(e)}) =
                 IF target(e) \in leases THEN Cardinality(leases) ELSE Cardinality(leases) + 1
        BY <1>1, FS_AddElement
      <4> QED BY <1>1, <2>3, <4>1
    <3>2. exec'[e].pc = "leased" /\ ~Local(e)
      <4>1. ~Local(e) /\ (Goto(e, "leased") \/ leases' = leases)
        BY <2>3 DEF Acquire
      <4>2. Goto(e, "leased")
        BY <2>3 DEF Acquire
      <4> QED BY <2>1, <4>1, <4>2 DEF Goto, Call
    <3>3. ASSUME NEW r \in leases' PROVE \E d \in ExecutionIds : exec'[d].target = r /\ exec'[d].pc \in Holding
      <4>1. CASE r = target(e)
        BY <2>1, <3>2, <4>1 DEF Holding
      <4>2. CASE r # target(e)
        <5>1. PICK d \in ExecutionIds : target(d) = r /\ exec[d].pc \in Holding
          BY <1>1, <2>3, <4>2 DEF LeasesBelongToExecutions
        <5> QED BY <2>1, <4>2, <5>1 DEF target
      <4> QED BY <4>1, <4>2
    <3> QED BY <1>1, <2>1, <2>3, <3>1, <3>2, <3>3 DEF LeasesBelongToExecutions, target, Local
  <2>4. CASE Release(e)
    <3>1. leases' = leases \ {target(e)}
      BY <2>4 DEF Release
    <3>2. IsFiniteSet(leases') /\ Cardinality(leases') <= Capacity
      BY <1>1, <3>1, FS_RemoveElement
    <3>3. ASSUME NEW r \in leases' PROVE \E d \in ExecutionIds : exec'[d].target = r /\ exec'[d].pc \in Holding
      <4>1. PICK d \in ExecutionIds : target(d) = r /\ exec[d].pc \in Holding
        BY <1>1, <3>1 DEF LeasesBelongToExecutions
      <4> QED BY <2>1, <3>1, <4>1 DEF target
    <3> QED BY <1>1, <3>1, <3>2, <3>3 DEF LeasesBelongToExecutions, target
  <2>5. Acquire(e) \/ Release(e) \/ UNCHANGED leases
    BY <1>3 DEF Step, BeginLocal, BeginDsh, CreateDsh, Start, ChargeRestart, Rearm, LoadManifest,
       VerifyFiles, ChargeBootstrap, Launch, DenyServerRequest, TurnEnds, Finish, LookForExit,
       InsertExit, AccountingFails, Fail, Judge, StopRun, Raise, RecordGate, GateFails, CloseAdapter,
       CloseRaises, EnsureClosed, CloseRun
  <2>6. Acquire(e) => \/ UNCHANGED leases
                     \/ /\ leases' = leases \union {target(e)}
                        /\ target(e) \in leases \/ Cardinality(leases) < Capacity
    BY DEF Acquire
  <2> QED BY <2>2, <2>3, <2>4, <2>5, <2>6
<1>4. ASSUME NEW r \in Runs, Interrupt(r) \/ Attach(r) PROVE UNCHANGED <<exec, leases>>
  BY <1>4 DEF Interrupt, Attach
<1>5. ASSUME NEW x \in Runs \union {Profile}, NEW n \in Ceilings, Declare(x, n)
      PROVE  UNCHANGED <<exec, leases>>
  BY <1>5 DEF Declare
<1>6. UNCHANGED execVars => UNCHANGED <<exec, leases>>
  BY DEF execVars
<1> QED BY <1>2, <1>3, <1>4, <1>5, <1>6 DEF ExecNext

(* Only a call that is charged for it sets out to restart its run. *)
LEMMA OnlyChargedRearm ==
  ASSUME ExecInv, NEW e \in ExecutionIds, Step(e), exec'[e].rearmed \/ exec'[e].pc = "rearm"
  PROVE  \/ exec[e].rearmed \/ exec[e].pc = "rearm"
         \/ Consume(target(e), target(e))
<1> DEFINE Armed == \/ exec[e].rearmed \/ exec[e].pc = "rearm"
                    \/ Consume(target(e), target(e))
<1>1. exec[e] \in Call /\ exec \in [ExecutionIds -> Call] /\ InOrder(e)
  BY CallFields DEF ExecInv
<1> USE <1>1
<1>2. BeginLocal(e) => Armed
  BY DEF BeginLocal, Goto, Ends, InOrder, Accounting, At, Call
<1>3. BeginDsh(e) => Armed
  BY DEF BeginDsh, Goto, Ends, InOrder, Accounting, At, Call
<1>4. CreateDsh(e) => Armed
  BY DEF CreateDsh, Goto, Ends, InOrder, Accounting, At, Call
<1>5. Start(e) => Armed
  BY DEF Start, Goto, Ends, InOrder, Accounting, At, Call
<1>6. ChargeRestart(e) => Armed
  BY DEF ChargeRestart, RecordRunRestart, Ends, At, Call
<1>7. Rearm(e) => Armed
  BY DEF Rearm, Goto, Ends, InOrder, Accounting, At, Call
<1>8. Acquire(e) => Armed
  BY DEF Acquire, Goto, Ends, InOrder, Accounting, At, Call
<1>9. LoadManifest(e) => Armed
  BY DEF LoadManifest, Goto, Ends, InOrder, Accounting, At, Call
<1>10. VerifyFiles(e) => Armed
  BY DEF VerifyFiles, Goto, Ends, InOrder, Accounting, At, Call
<1>11. ChargeBootstrap(e) => Armed
  BY DEF ChargeBootstrap, Goto, Ends, InOrder, Accounting, At, Call
<1>12. Launch(e) => Armed
  BY DEF Launch, Goto, Ends, InOrder, Accounting, At, Call
<1>13. DenyServerRequest(e) => Armed
  BY DEF DenyServerRequest, Goto, Ends, InOrder, Accounting, At, Call
<1>14. TurnEnds(e) => Armed
  BY DEF TurnEnds, Goto, Ends, InOrder, Accounting, At, Call
<1>15. Finish(e) => Armed
  BY DEF Finish, Goto, Ends, InOrder, Accounting, At, Call
<1>16. LookForExit(e) => Armed
  BY DEF LookForExit, Goto, Ends, InOrder, Accounting, At, Call
<1>17. InsertExit(e) => Armed
  BY DEF InsertExit, Goto, Ends, InOrder, Accounting, At, Call
<1>18. Fail(e) => Armed
  BY DEF Fail, Goto, Ends, InOrder, Accounting, At, Call
<1>19. Judge(e) => Armed
  BY DEF Judge, Goto, Ends, InOrder, Accounting, At, Call
<1>20. StopRun(e) => Armed
  BY DEF StopRun, Goto, Ends, InOrder, Accounting, At, Call
<1>21. Raise(e) => Armed
  BY DEF Raise, Goto, Ends, InOrder, Accounting, At, Call
<1>22. RecordGate(e) => Armed
  BY DEF RecordGate, Goto, Ends, InOrder, Accounting, At, Call
<1>23. CloseAdapter(e) => Armed
  BY DEF CloseAdapter, Goto, Ends, InOrder, Accounting, At, Call
<1>24. ASSUME EnsureClosed(e) PROVE Armed
  <2>1. CASE Goto(e, "close")
    BY <1>24, <2>1 DEF EnsureClosed, Goto, At, Call
  <2>2. CASE exec' = [exec EXCEPT ![e] = Leave(e)] \/ exec' = [exec EXCEPT ![e] = LeaveOpen(e)]
    BY <2>2, LeavesAreKnown DEF ExecInv
  <2> QED BY <1>24, <2>1, <2>2 DEF EnsureClosed
<1>25. ASSUME CloseRun(e) PROVE Armed
  <2>1. \/ exec' = [exec EXCEPT ![e] = Leave(e)]
        \/ exec' = [exec EXCEPT ![e] = LeaveOpen(e)]
        \/ exec' = [exec EXCEPT ![e] = [Leave(e) EXCEPT !.closed = TRUE]]
    BY <1>25 DEF CloseRun
  <2> QED BY <2>1, LeavesAreKnown DEF ExecInv
<1>26. Release(e) => Armed
  BY DEF Release, Goto, Ends, InOrder, Accounting, At, Call
<1>27. AccountingFails(e) => Armed
  BY DEF AccountingFails, InOrder, Accounting, Call
<1>28. GateFails(e) \/ CloseRaises(e) => Armed
  BY DEF GateFails, CloseRaises, Call
<1> HIDE DEF Armed
<1>100. Armed
  BY <1>2, <1>3, <1>4, <1>5, <1>6, <1>7, <1>8, <1>9, <1>10, <1>11, <1>12, <1>13, <1>14, <1>15, <1>16, <1>17, <1>18, <1>19, <1>20, <1>21, <1>22, <1>23, <1>24, <1>25, <1>26, <1>27, <1>28, Zenon DEF Step
<1> QED BY <1>100 DEF Armed

LEMMA RestartsStayCharged ==
  ASSUME ExecInv, [ExecNext]_execVars
  PROVE  RestartsAreCharged'
<1> DEFINE Charged1(r) == {d \in ExecutionIds :
                             exec'[d].target = r /\ (exec'[d].rearmed \/ exec'[d].pc = "rearm")}
<1>1. \A r \in Runs : /\ IsFiniteSet(Charged(r)) /\ Cardinality(Charged(r)) <= Len(spent[r][r])
                       /\ Cardinality(Charged(r)) \in Nat
  BY FS_CardinalityType DEF ExecInv, RestartsAreCharged
<1>2. \A r \in Runs : /\ Len(spent[r][r]) \in Nat /\ Len(spent'[r][r]) \in Nat
                       /\ Len(spent[r][r]) <= Len(spent'[r][r])
  BY ExecutionsMoveLedgers, LedgersGrow DEF ExecInv, ExecTypeOK, Budgeted
<1>3. SUFFICES ASSUME NEW r \in Runs
               PROVE  IsFiniteSet(Charged1(r)) /\ Cardinality(Charged1(r)) <= Len(spent'[r][r])
  BY DEF RestartsAreCharged, Charged, At, target
<1>4. CASE Charged1(r) \subseteq Charged(r)
  <2>1. /\ IsFiniteSet(Charged1(r)) /\ Cardinality(Charged1(r)) <= Cardinality(Charged(r))
        /\ Cardinality(Charged1(r)) \in Nat
    BY <1>1, <1>4, FS_Subset, FS_CardinalityType
  <2> QED BY <1>1, <1>2, <2>1
<1>5. CASE UNCHANGED exec
  BY <1>4, <1>5 DEF Charged, At, target
<1>6. ASSUME NEW e \in ExecutionIds, Step(e), ~(Charged1(r) \subseteq Charged(r))
      PROVE  IsFiniteSet(Charged1(r)) /\ Cardinality(Charged1(r)) <= Len(spent'[r][r])
  <2>1. /\ exec'[e].target = exec[e].target
        /\ \A d \in ExecutionIds \ {e} : exec'[d] = exec[d]
    BY <1>6, CallMoves DEF ExecInv
  <2>2. e \in Charged1(r) /\ e \notin Charged(r)
    BY <1>6, <2>1 DEF Charged, At, target
  <2>3. target(e) = r /\ Consume(r, r)
    BY <1>6, <2>1, <2>2, OnlyChargedRearm DEF Charged, At, target
  <2>4. Charged1(r) \subseteq Charged(r) \union {e}
    BY <2>1 DEF Charged, At, target
  <2>5. /\ IsFiniteSet(Charged(r) \union {e})
        /\ Cardinality(Charged(r) \union {e}) = Cardinality(Charged(r)) + 1
    BY <1>1, <2>2, FS_AddElement
  <2>6. /\ IsFiniteSet(Charged1(r)) /\ Cardinality(Charged1(r)) <= Cardinality(Charged(r)) + 1
        /\ Cardinality(Charged1(r)) \in Nat
    BY <2>4, <2>5, FS_Subset, FS_CardinalityType
  <2>7. Len(spent'[r][r]) = Len(spent[r][r]) + 1
    <3>1. spent \in [Runs -> [Budgeted -> Seq(Nat \union {NoCeiling})]] /\ r \in Budgeted
          /\ ceiling[r] \in Nat \union {NoCeiling}
      BY DEF ExecInv, ExecTypeOK, LedgerTypeOK, Budgeted
    <3>2. spent'[r][r] = Append(spent[r][r], ceiling[r])
      BY <2>3, <3>1 DEF Consume, RecordConsumption
    <3> QED BY <3>1, <3>2
  <2> QED BY <1>1, <1>2, <2>6, <2>7
<1>7. ASSUME NEW q \in Runs, Interrupt(q) \/ Attach(q) PROVE UNCHANGED exec
  BY <1>7 DEF Interrupt, Attach
<1>8. ASSUME NEW x \in Runs \union {Profile}, NEW n \in Ceilings, Declare(x, n) PROVE UNCHANGED exec
  BY <1>8 DEF Declare
<1>9. UNCHANGED execVars => UNCHANGED exec
  BY DEF execVars
<1> HIDE DEF Charged1
<1> QED BY <1>4, <1>5, <1>6, <1>7, <1>8, <1>9 DEF ExecNext

(* What the other calls have done stays done. *)
LEMMA OtherCallsKeep ==
  ASSUME ExecInv, [ExecNext]_execVars, NEW d \in ExecutionIds, exec'[d] = exec[d]
  PROVE  InOrder(d)' /\ Reaped(d)' /\ Accounted(d)' /\ KnowsRun(d)'
<1>1. /\ InOrder(d) /\ Reaped(d) /\ Accounted(d) /\ KnowsRun(d)
      /\ exec[d].target \in Runs
  BY CallFields DEF ExecInv, target
<1>2. /\ exits[exec[d].target] # <<>> => exits'[exec[d].target] # <<>>
      /\ exec[d].target \in gated => exec[d].target \in gated'
  BY <1>1, ExecutionsMoveLedgers, LedgersGrow DEF ExecInv, ExecTypeOK, ExitIsRecorded
<1>3. InOrder(d)' /\ Reaped(d)'
  BY <1>1 DEF InOrder, Reaped, Accounting, At, Local, target
<1>4. Accounted(d)'
  BY <1>1, <1>2 DEF Accounted, HasExit, HasGate, Accounting, At, Local, target, ExitIsRecorded
<1>5. KnowsRun(d)'
  BY <1>1, LocalRunsMove DEF KnowsRun, Handled, Accounting, At, Local, target
<1> QED BY <1>3, <1>4, <1>5

LEMMA ExecInvPreserved ==
  ASSUME ExecInv, [ExecNext]_execVars
  PROVE  ExecInv'
<1>1. TypeOK' /\ LocalRunsStayShut'
  BY LocalRunsMove DEF LocalRunsStayShut
<1>2. LedgerTypeOK' /\ ChargesAreWithinCeilings'
  BY ExecutionsMoveLedgers, LedgersGrow DEF ExecInv, ExecTypeOK
<1>3. /\ leases' \subseteq Runs \ LocalRuns /\ IsFiniteSet(leases')
      /\ Cardinality(leases') <= Capacity /\ LeasesBelongToExecutions'
  BY LeasesMove
<1>4. RestartsAreCharged'
  BY RestartsStayCharged
<1>5. \/ UNCHANGED exec
      \/ \E e \in ExecutionIds : Step(e)
  BY DEF ExecNext, execVars, Interrupt, Attach, Declare
<1>6. exec' \in [ExecutionIds -> Call]
  BY <1>5, CallMoves DEF ExecInv, ExecTypeOK, Call
<1>7. \A d \in ExecutionIds : InOrder(d)' /\ Reaped(d)' /\ Accounted(d)' /\ KnowsRun(d)'
  <2>1. CASE UNCHANGED exec
    BY <2>1, OtherCallsKeep
  <2>2. ASSUME NEW e \in ExecutionIds, Step(e), NEW d \in ExecutionIds
        PROVE  InOrder(d)' /\ Reaped(d)' /\ Accounted(d)' /\ KnowsRun(d)'
    <3>1. CASE d = e
      BY <2>2, <3>1, StepsKeepOrder, StepsKeepAccounts, StepsKeepKnowledge
    <3>2. CASE d # e
      <4>1. exec'[d] = exec[d]
        BY <2>2, <3>2, CallMoves DEF ExecInv
      <4> QED BY <4>1, OtherCallsKeep
    <3> QED BY <3>1, <3>2
  <2> QED BY <1>5, <2>1, <2>2
<1> QED BY <1>1, <1>2, <1>3, <1>4, <1>6, <1>7 DEF ExecInv, ExecTypeOK, Call

LEMMA ExecInvInit == ExecInit => ExecInv
<1> SUFFICES ASSUME ExecInit PROVE ExecInv
  OBVIOUS
<1>1. TypeOK
  BY InitType DEF ExecInit
<1>2. LedgerTypeOK /\ ChargesAreWithinCeilings
  BY DEF ExecInit, LedgerInit, LedgerTypeOK, ChargesAreWithinCeilings
<1>3. exec \in [ExecutionIds -> Call]
  <2>1. [pc : {"idle"}, after : {"over"}, target : Runs, mine : {FALSE},
         rearmed : {FALSE}, child : {"none"},
         seen : {"absent"}, closed : {FALSE}, outcome : {"none"},
         secret : {FALSE}, lost : {{}}] \subseteq Call
    BY DEF Call, Steps, Outcomes
  <2> QED BY <2>1 DEF ExecInit
<1>4. /\ leases \subseteq Runs \ LocalRuns /\ IsFiniteSet(leases)
      /\ Cardinality(leases) <= Capacity /\ LeasesBelongToExecutions
  BY FS_EmptySet, ExecutionAssumption DEF ExecInit, LeasesBelongToExecutions
<1>5. ASSUME NEW e \in ExecutionIds PROVE InOrder(e) /\ Reaped(e) /\ Accounted(e) /\ KnowsRun(e)
  BY DEF ExecInit, InOrder, Reaped, Accounted, Accounting, KnowsRun, Handled, At
<1>6. RestartsAreCharged
  <2> SUFFICES ASSUME NEW r \in Runs
               PROVE  IsFiniteSet(Charged(r)) /\ Cardinality(Charged(r)) <= Len(spent[r][r])
    BY DEF RestartsAreCharged
  <2>1. Charged(r) = {}
    BY DEF ExecInit, Charged, At
  <2>2. Len(spent[r][r]) = 0
    BY DEF ExecInit, LedgerInit, Budgeted
  <2>3. IsFiniteSet({}) /\ Cardinality({}) = 0
    BY FS_EmptySet
  <2> QED BY <2>1, <2>2, <2>3
<1>7. LocalRunsStayShut
  BY ExecutionAssumption DEF ExecInit, Init, LocalRunsStayShut
<1> QED BY <1>1, <1>2, <1>3, <1>4, <1>5, <1>6, <1>7 DEF ExecInv, ExecTypeOK, Call

(* Whatever calls, operators and other owners do in between: every call is *)
(* where its kind may be, its child and its accounts are as its step says, *)
(* slots have holders and restarts are charged.  It is this, for each call *)
(* and about its run, that makes the properties below inductive.           *)
THEOREM ExecInvariant == ExecSpec => []ExecInv
<1>1. ExecInv /\ [ExecNext]_execVars => ExecInv'
  BY ExecInvPreserved
<1> QED BY <1>1, ExecInvInit, PTL DEF ExecSpec

(* A slot of the shared registry belongs to a call that is under way       *)
(* (dsh_runtime.py, execute; resident_service_registry.py).                *)
THEOREM SlotsHaveHolders == ExecSpec => []LeasesBelongToExecutions
<1>1. ExecInv => LeasesBelongToExecutions
  BY DEF ExecInv
<1> QED BY <1>1, ExecInvariant, PTL

(* A call that returns has waited for its child (codex_adapter.py, close;  *)
(* dsh_runtime.py, execute).                                               *)
THEOREM ChildrenAreReaped == ExecSpec => []NothingOutlivesItsExecution
<1>1. ExecInv => NothingOutlivesItsExecution
  BY DEF ExecInv, NothingOutlivesItsExecution, Reaped, At
<1> QED BY <1>1, ExecInvariant, PTL

(* The run of a local call has ended when the call has, unless both the    *)
(* adapter's record of the failure and the way through close() and         *)
(* fail_run were refused (local_run.py, _ensure_run_closed).               *)
THEOREM LocalRunsEnd == ExecSpec => []LocalRunsAreClosed
<1>1. ExecInv => LocalRunsAreClosed
  BY DEF ExecInv, LocalRunsAreClosed, ClosedBy, KnowsRun, Handled, At
<1> QED BY <1>1, ExecInvariant, PTL

(* As many restarts as were charged, and no charge past its ceiling        *)
(* (composition.py, record_run_restart; dsh_runtime.py, execute).          *)
THEOREM RestartsAreBudgeted == ExecSpec => []RestartsWithinBudget
<1>1. ExecInv => RestartsWithinBudget
  <2> SUFFICES ASSUME ExecInv, NEW r \in Runs
               PROVE  Cardinality({e \in ExecutionIds : target(e) = r /\ exec[e].rearmed}) <= Len(spent[r][r])
    BY DEF RestartsWithinBudget, ExecInv, ChargesAreWithinCeilings
  <2> DEFINE S == {e \in ExecutionIds : target(e) = r /\ exec[e].rearmed}
  <2>1. IsFiniteSet(Charged(r)) /\ Cardinality(Charged(r)) <= Len(spent[r][r]) /\ Len(spent[r][r]) \in Nat
    BY LenProperties DEF ExecInv, RestartsAreCharged, ExecTypeOK, LedgerTypeOK, Budgeted
  <2>2. S \subseteq Charged(r)
    BY DEF Charged
  <2>3. /\ Cardinality(S) <= Cardinality(Charged(r))
        /\ Cardinality(S) \in Nat /\ Cardinality(Charged(r)) \in Nat
    BY <2>1, <2>2, FS_Subset, FS_CardinalityType
  <2> QED BY <2>1, <2>3
<1> QED BY <1>1, ExecInvariant, PTL

(* A completed call, and a local one that failed, has accounted for the    *)
(* provider, a local one for the access gate too, and where it has not the *)
(* write or close() failed (local_run.py).                                 *)
THEOREM EndsAreAccounted == ExecSpec => []TerminationIsAccounted
<1>1. ExecInv => TerminationIsAccounted
  <2> SUFFICES ASSUME ExecInv, NEW e \in ExecutionIds PROVE TerminationOf(e)
    BY DEF TerminationIsAccounted
  <2> QED BY DEF ExecInv, TerminationOf, Accounted, HasExit, HasGate, Accounting, At
<1> QED BY <1>1, ExecInvariant, PTL

(* Executions are clients of the owner: they create runs without a parent. *)
LEMMA MovesAreAClients ==
  ASSUME NEW r \in Runs, RunMove(r)
  PROVE  ClientStep
<1>1. CASE CreateRun(r, NoRun)
  BY <1>1 DEF ClientStep
<1>2. CASE ~CreateRun(r, NoRun)
  <2>1. Next
    BY <1>2 DEF RunMove, Next, RunStep
  <2> QED BY <2>1 DEF ClientStep
<1> QED BY <1>1, <1>2

LEMMA ExecutionsAreClients ==
  ASSUME ExecInv, [ExecNext]_execVars
  PROVE  ClientStep
<1>1. UNCHANGED vars => ClientStep
  BY DEF ClientStep
<1> QED BY <1>1, ExecutionsMoveRuns, MovesAreAClients

(* Every invariant of the owner holds under executions, restarts included: *)
(* a run that a call re-arms was left by restart_run alone, and no call    *)
(* completes a run without a result.                                       *)
THEOREM ExecutionsKeepTheOwner ==
  ExecSpec => /\ []OwnerInv
             /\ TerminalRunsLeaveOnlyByRestart /\ SettledEffectsAreFinal /\ DoubtStopsTheRun
<1>1. ExecInit => OwnerInv
  BY OwnerStarts, ClientBegins DEF ExecInit
<1>2. OwnerInv /\ ExecInv /\ [ExecNext]_execVars => OwnerInv'
  BY ExecutionsAreClients, ClientKeepsOwner
<1>3. ExecSpec => []ExecInv
  BY ExecInvariant
<1>4. ExecSpec => []OwnerInv
  BY <1>1, <1>2, <1>3, PTL DEF ExecSpec
<1>5. OwnerInv /\ ExecInv /\ [ExecNext]_execVars =>
        /\ [\A r \in Runs : run[r] \in Terminal /\ run'[r] # run[r] =>
              /\ run'[r] = "running"
              /\ UNCHANGED <<link, approval, effect, exposure, result, suspected>>]_vars
        /\ [\A o \in Operations : effect[o].status \in {"completed", "unknown"} =>
              effect'[o] = effect[o]]_vars
        /\ [\A o \in Operations : effect'[o].status # effect[o].status =>
              /\ effect'[o].status = "uncertain" => run'[effect'[o].run] = "recovering"
              /\ effect'[o].status = "unknown" => run'[effect'[o].run] = "safe_stopped"
              /\ effect'[o].status = "claimed" => run'[effect'[o].run] = "running"]_vars
  BY ExecutionsAreClients, ClientKeepsActions
<1>6. ExecSpec => TerminalRunsLeaveOnlyByRestart /\ SettledEffectsAreFinal /\ DoubtStopsTheRun
  BY <1>3, <1>4, <1>5, PTL
  DEF ExecSpec, TerminalRunsLeaveOnlyByRestart, SettledEffectsAreFinal, DoubtStopsTheRun
<1> QED BY <1>4, <1>6

-----------------------------------------------------------------------------
(* Provider admission.  A config.toml in CODEX_HOME was staged by a        *)
(* command with a profile, and what is admitted with a profile has passed  *)
(* the gate; without one it was admitted for its loopback endpoint only.   *)

Explained ==
  \E d \in Commands : /\ command[d].pc \in {"started", "over"}
                      /\ command[d].config.profile /\ command[d].config.gate

Admitted(c) ==
  LET config == command[c].config
  IN  /\ config.path => config.profile
      /\ ~config.profile => config.authorized = {}
      /\ command[c].pc \in {"admitted", "acquired", "started", "over"} => Admissible(config)
      /\ command[c].recorded # "none" => command[c].pc = "over"
      /\ command[c].recorded = "baseline" => ~config.profile

AdmissionInv ==
  /\ AdmissionTypeOK
  /\ \A c \in Commands : Admitted(c)
  /\ \A c \in Commands : command[c].reached = "remote" => staged # NotStaged
  /\ staged # NotStaged => Explained

CommandRow ==
  [pc : CommandSteps, config : Configuration \union {Unconfigured},
   reached : Endpoints \union {"nothing"}, recorded : {"none", "real", "baseline"}]

LEMMA AdmissionInvInit == AdmissionInit => AdmissionInv
BY DEF AdmissionInit, AdmissionInv, AdmissionTypeOK, Admitted, Unconfigured, CommandSteps, Endpoints

(* What a command's step makes of its row, of config.toml and of the rest. *)
LEMMA CommandKept ==
  ASSUME AdmissionInv, NEW c \in Commands, NEW row \in CommandRow,
         command' = [command EXCEPT ![c] = row], UNCHANGED file,
         staged' \in Files \union {NotStaged}, staged # NotStaged => staged' # NotStaged,
         Admitted(c)',
         row.reached = "remote" => staged' # NotStaged,
         command[c].pc \in {"started", "over"} => row.config = command[c].config /\ row.pc = "over",
         \/ staged' = staged
         \/ row.pc = "started" /\ row.config.profile /\ row.config.gate
  PROVE  AdmissionInv'
<1>1. command \in [Commands -> CommandRow] /\ file \in Files
  BY DEF AdmissionInv, AdmissionTypeOK, CommandRow
<1>2. command'[c] = row /\ \A d \in Commands \ {c} : command'[d] = command[d]
  BY <1>1
<1>3. AdmissionTypeOK'
  BY <1>1 DEF AdmissionTypeOK, CommandRow
<1>4. \A d \in Commands : Admitted(d)'
  BY <1>2 DEF AdmissionInv, Admitted
<1>5. \A d \in Commands : command'[d].reached = "remote" => staged' # NotStaged
  BY <1>2 DEF AdmissionInv
<1>6. staged' # NotStaged => Explained'
  <2>1. CASE row.pc = "started" /\ row.config.profile /\ row.config.gate
    BY <1>2, <2>1 DEF Explained
  <2>2. CASE staged' = staged
    <3> SUFFICES ASSUME staged # NotStaged PROVE Explained'
      BY <2>2
    <3>1. PICK d \in Commands : /\ command[d].pc \in {"started", "over"}
                                /\ command[d].config.profile /\ command[d].config.gate
      BY DEF AdmissionInv, Explained
    <3>2. /\ command'[d].pc \in {"started", "over"}
          /\ command'[d].config.profile /\ command'[d].config.gate
      BY <1>2, <3>1
    <3> QED BY <3>2 DEF Explained
  <2> QED BY <2>1, <2>2
<1> QED BY <1>3, <1>4, <1>5, <1>6 DEF AdmissionInv

LEMMA AdmissionInvPreserved ==
  ASSUME AdmissionInv, [AdmissionNext]_admissionVars
  PROVE  AdmissionInv'
<1>1. /\ command \in [Commands -> CommandRow] /\ file \in Files /\ staged \in Files \union {NotStaged}
      /\ NotStaged \notin Files
  BY AdmissionAssumption DEF AdmissionInv, AdmissionTypeOK, CommandRow
<1>2. CASE UNCHANGED admissionVars \/ EditFile
  BY <1>2 DEF admissionVars, EditFile, AdmissionInv, AdmissionTypeOK, Admitted, Explained
<1>3. ASSUME NEW c \in Commands, NEW step \in CommandSteps, Proceed(c, step), UNCHANGED <<file, staged>>,
             command[c].pc \notin {"started", "over"},
             step \in {"admitted", "acquired", "started", "over"} => Admissible(command[c].config)
      PROVE  AdmissionInv'
  <2> DEFINE row == [command[c] EXCEPT !.pc = step]
  <2>1. /\ row \in CommandRow /\ row.config = command[c].config /\ row.pc = step
        /\ row.reached = command[c].reached /\ row.recorded = command[c].recorded
    BY <1>1 DEF CommandRow
  <2>2. command' = [command EXCEPT ![c] = row]
    BY <1>3 DEF Proceed
  <2>3. command'[c] = row
    BY <1>1, <2>2
  <2> HIDE DEF row
  <2>4. Admitted(c)'
    BY <1>3, <2>1, <2>3 DEF AdmissionInv, Admitted, Admissible
  <2>5. row.reached = "remote" => staged' # NotStaged
    BY <1>3, <2>1 DEF AdmissionInv
  <2> QED BY <1>1, <1>3, <2>1, <2>2, <2>4, <2>5, CommandKept
<1>4. ASSUME NEW c \in Commands, Configure(c) PROVE AdmissionInv'
  <2>1. CASE Proceed(c, "denied")
    BY <1>3, <1>4, <2>1 DEF Configure, CommandSteps
  <2>2. ASSUME NEW config \in Configuration, Configured(c, config),
               config.path => config.profile, ~config.profile => config.authorized = {}
        PROVE  AdmissionInv'
    <3> DEFINE row == [command[c] EXCEPT !.pc = "configured", !.config = config]
    <3>1. /\ row \in CommandRow /\ row.config = config /\ row.pc = "configured"
          /\ row.reached = command[c].reached /\ row.recorded = command[c].recorded
      BY <1>1 DEF CommandRow, CommandSteps
    <3>2. command' = [command EXCEPT ![c] = row]
      BY <2>2 DEF Configured
    <3>3. command'[c] = row
      BY <1>1, <3>2
    <3> HIDE DEF row
    <3>4. Admitted(c)'
      BY <1>4, <2>2, <3>1, <3>3 DEF AdmissionInv, Admitted, Configure
    <3>5. row.reached = "remote" => staged' # NotStaged
      BY <1>4, <3>1 DEF AdmissionInv, Configure
    <3> QED BY <1>1, <1>4, <3>1, <3>2, <3>4, <3>5, CommandKept DEF Configure
  <2>3. ASSUME NEW gate \in BOOLEAN, NEW p \in Profiles, p \in DOMAIN file,
               Configured(c, ProfileConfig(p, gate))
        PROVE  AdmissionInv'
    <3>1. file[p] \in Endpoints /\ DOMAIN file \subseteq Profiles
      BY <1>1, <2>3 DEF Files
    <3>2. ProfileConfig(p, gate) \in Configuration
      BY <3>1 DEF ProfileConfig, Configuration
    <3> QED BY <2>2, <2>3, <3>2 DEF ProfileConfig
  <2>4. ASSUME NEW gate \in BOOLEAN, NEW name \in Names, NEW endpoint \in Endpoints \union {"invalid"},
               Configured(c, BaselineConfig(name, endpoint, gate))
        PROVE  AdmissionInv'
    <3>1. BaselineConfig(name, endpoint, gate) \in Configuration
      BY DEF BaselineConfig, Configuration, ModelProvider
    <3> QED BY <2>2, <2>4, <3>1 DEF BaselineConfig
  <2> QED BY <1>4, <2>1, <2>3, <2>4 DEF Configure
<1>5. ASSUME NEW c \in Commands, Preflight(c) PROVE AdmissionInv'
  BY <1>3, <1>5 DEF Preflight, CommandSteps
<1>6. ASSUME NEW c \in Commands, AcquireProvider(c) PROVE AdmissionInv'
  <2>1. Admissible(command[c].config)
    BY <1>6 DEF AcquireProvider, AdmissionInv, Admitted
  <2>2. PICK step \in {"over", "acquired"} : Proceed(c, step)
    BY <1>6 DEF AcquireProvider
  <2> QED BY <1>3, <1>6, <2>1, <2>2 DEF AcquireProvider, CommandSteps
<1>7. ASSUME NEW c \in Commands, StartServer(c) PROVE AdmissionInv'
  <2>1. PICK reached \in {Backend(staged', command[c].config.backend), "nothing"} :
          command' = [command EXCEPT ![c].pc = "started", ![c].reached = reached]
    BY <1>7 DEF StartServer
  <2> DEFINE row == [command[c] EXCEPT !.pc = "started", !.reached = reached]
  <2>2. staged' \in Files \union {NotStaged} /\ (staged # NotStaged => staged' # NotStaged)
    BY <1>1, <1>7 DEF StartServer, StageConfig
  <2>3. Backend(staged', command[c].config.backend) \in Endpoints \union {"nothing"}
    BY <2>2 DEF Backend, Files, Endpoints
  <2>4. /\ row \in CommandRow /\ row.config = command[c].config /\ row.pc = "started"
        /\ row.reached = reached /\ row.recorded = command[c].recorded
    BY <1>1, <2>3 DEF CommandRow, CommandSteps
  <2>5. command' = [command EXCEPT ![c] = row]
    BY <2>1
  <2>6. command'[c] = row
    BY <1>1, <2>5
  <2> HIDE DEF row
  <2>7. Admitted(c) /\ command[c].pc = "acquired" /\ UNCHANGED file
    BY <1>7 DEF AdmissionInv, StartServer
  <2>8. Admitted(c)'
    BY <2>4, <2>6, <2>7 DEF Admitted, Admissible
  <2>9. row.reached = "remote" => staged' # NotStaged
    BY <2>4 DEF Backend
  <2>10. staged' = staged \/ (row.pc = "started" /\ row.config.profile /\ row.config.gate)
    BY <1>7, <2>4, <2>7 DEF StartServer, StageConfig, Admitted, Admissible
  <2> QED BY <2>2, <2>4, <2>5, <2>7, <2>8, <2>9, <2>10, CommandKept
<1>8. ASSUME NEW c \in Commands, RecordDecision(c) PROVE AdmissionInv'
  <2>1. PICK recorded \in {IF command[c].config.profile THEN "real" ELSE "baseline", "none"} :
          command' = [command EXCEPT ![c].pc = "over", ![c].recorded = recorded]
    BY <1>8 DEF RecordDecision
  <2> DEFINE row == [command[c] EXCEPT !.pc = "over", !.recorded = recorded]
  <2>2. /\ row \in CommandRow /\ row.config = command[c].config /\ row.pc = "over"
        /\ row.reached = command[c].reached /\ row.recorded = recorded
    BY <1>1, <2>1 DEF CommandRow, CommandSteps
  <2>3. command' = [command EXCEPT ![c] = row]
    BY <2>1
  <2>4. command'[c] = row
    BY <1>1, <2>3
  <2> HIDE DEF row
  <2>5. Admitted(c) /\ command[c].pc = "started" /\ UNCHANGED <<file, staged>>
    BY <1>8 DEF AdmissionInv, RecordDecision
  <2>6. Admitted(c)'
    BY <2>1, <2>2, <2>4, <2>5 DEF Admitted, Admissible
  <2>7. row.reached = "remote" => staged' # NotStaged
    BY <2>2, <2>5 DEF AdmissionInv
  <2> QED BY <1>1, <2>2, <2>3, <2>5, <2>6, <2>7, CommandKept
<1> QED BY <1>2, <1>4, <1>5, <1>6, <1>7, <1>8 DEF AdmissionNext

(* A remote provider is reached only where a command with the gate has     *)
(* been started, and what the ledger calls baseline was admitted for a     *)
(* loopback endpoint (local_run.py, the preflight; codex_adapter.py, the   *)
(* staging of the provider file).  The invariant carries who staged the    *)
(* file and what every admitted configuration has passed.                  *)
THEOREM RemotesAreExplained == AdmissionSpec => []GatesExplainRemotes
<1>1. AdmissionInv /\ [AdmissionNext]_admissionVars => AdmissionInv'
  BY AdmissionInvPreserved
<1>2. AdmissionInv => GatesExplainRemotes
  <2> SUFFICES ASSUME AdmissionInv, NEW c \in Commands
               PROVE  /\ command[c].reached = "remote" => Explained
                      /\ command[c].recorded = "baseline" => command[c].config.endpoint = "loopback"
    BY DEF GatesExplainRemotes, Explained
  <2> QED BY DEF AdmissionInv, Admitted, Admissible
<1> QED BY <1>1, <1>2, AdmissionInvInit, PTL DEF AdmissionSpec

-----------------------------------------------------------------------------
(* The provider router.  For each run a tale: the providers asked (A), the *)
(* attempts (T), the fallback decisions (F) and the charges (S) on record. *)
(* How much of it is written, and what is left to ask (L), is determined   *)
(* by the step of the one caller whose run it is.                          *)

NoRepeat(L) == \A m, n \in 1 .. Len(L) : L[m] = L[n] => m = n

Turned(A, T, F, S, n) ==
  /\ T[n].status = "failed" /\ S[A[n]] # <<>>
  /\ F[n].from = A[n] /\ F[n].to = A[n + 1]

Tale(A, T, F, S) ==
  /\ NoRepeat(A)
  /\ Len(A) = Len(T) \/ Len(A) = Len(T) + 1
  /\ \A n \in 1 .. Len(T) : T[n].provider = A[n] /\ T[n].number = n
  /\ \A n \in 1 .. Len(A) - 1 : Turned(A, T, F, S, n)

Unasked == {"created", "started", "built", "cold"}
Turning == {"trying", "failed", "counted", "cooling", "decided", "succeeded"}
Recorded == {"trying", "counted", "cooling", "decided", "exhausted", "stopping", "safe_stopped"}

Standing(pc, L, A, T, F, S, status) ==
  /\ pc \in Unasked => A = <<>> /\ T = <<>> /\ F = <<>>
  /\ pc \in Turning => L # <<>> /\ NoRepeat(L)
  /\ pc \in Turning \ {"trying"} =>
       /\ Len(A) > 0 /\ A[Len(A)] = L[1]
       /\ \A m \in 1 .. Len(A), n \in 2 .. Len(L) : A[m] # L[n]
  /\ pc = "trying" =>
       /\ \A m \in 1 .. Len(A), n \in 1 .. Len(L) : A[m] # L[n]
       /\ Len(A) > 0 => /\ S[A[Len(A)]] # <<>>
                        /\ F[Len(A)].from = A[Len(A)] /\ F[Len(A)].to = L[1]
  /\ pc = "decided" =>
       /\ F[Len(A)].from = A[Len(A)]
       /\ F[Len(A)].to = IF Len(L) = 1 THEN NoProvider ELSE L[2]
  /\ pc \in {"failed", "succeeded"} => Len(T) + 1 = Len(A)
  /\ pc \in Recorded => /\ Len(T) = Len(A)
                        /\ Len(A) > 0 => T[Len(A)].status = "failed"
  /\ pc \in {"failed", "succeeded", "counted", "cooling"} => Len(F) + 1 = Len(A)
  /\ pc \in {"trying", "decided", "exhausted"} => Len(F) = Len(A)
  /\ pc = "exhausted" => Len(A) > 0
  /\ pc \in {"stopping", "safe_stopped"} => Len(F) = IF Len(A) = 0 THEN 1 ELSE Len(A)
  /\ pc \in {"answered", "completed"} =>
       Len(A) > 0 /\ Len(T) = Len(A) /\ T[Len(A)].status = "succeeded"
  /\ pc = "completed" => status = "completed"
  /\ pc = "safe_stopped" => status = "safe_stopped"

LEMMA AppendOne ==
  ASSUME NEW D, NEW s \in Seq(D), NEW x \in D
  PROVE  /\ Append(s, x) \in Seq(D) /\ Len(s) \in Nat /\ Len(Append(s, x)) = Len(s) + 1
         /\ \A n \in 1 .. Len(s) : Append(s, x)[n] = s[n]
         /\ Append(s, x)[Len(s) + 1] = x
OBVIOUS

LEMMA AppendIsLonger ==
  ASSUME NEW D, NEW s \in Seq(D), NEW x \in D
  PROVE  Append(s, x) # <<>>
BY AppendOne

LEMMA SecondOf ==
  ASSUME NEW D, NEW s \in Seq(D), s # <<>>, Len(s) # 1
  PROVE  s[2] \in D
<1>1. PICK n \in Nat : n = Len(s)
  OBVIOUS
<1>2. n # 0 /\ n # 1
  BY <1>1
<1>3. 2 \in 1 .. n
  BY <1>2
<1> QED BY <1>1, <1>3

(* The next provider is asked. *)
LEMMA TaleAsked ==
  ASSUME NEW P, NEW A \in Seq(P), NEW T, NEW F, NEW S, NEW L \in Seq(P), NEW status,
         Tale(A, T, F, S), Standing("trying", L, A, T, F, S, status), Len(T) \in Nat
  PROVE  /\ Tale(Append(A, Head(L)), T, F, S)
         /\ \A pc \in {"failed", "succeeded"} :
              Standing(pc, L, Append(A, Head(L)), T, F, S, status)
<1>1. /\ L # <<>> /\ NoRepeat(L) /\ Len(T) = Len(A) /\ Len(F) = Len(A)
      /\ \A m \in 1 .. Len(A), n \in 1 .. Len(L) : A[m] # L[n]
      /\ Len(A) > 0 => /\ S[A[Len(A)]] # <<>> /\ T[Len(A)].status = "failed"
                       /\ F[Len(A)].from = A[Len(A)] /\ F[Len(A)].to = L[1]
  BY DEF Standing, Turning, Recorded
<1>2. Head(L) = L[1] /\ L[1] \in P /\ Len(L) \in Nat /\ Len(L) > 0
  BY <1>1
<1> DEFINE B == Append(A, L[1])
<1>3. /\ B \in Seq(P) /\ Len(A) \in Nat /\ Len(B) = Len(A) + 1
      /\ \A n \in 1 .. Len(A) : B[n] = A[n]
      /\ B[Len(A) + 1] = L[1]
  BY <1>2, AppendOne
<1> HIDE DEF B
<1>4. NoRepeat(B)
  BY <1>1, <1>2, <1>3 DEF NoRepeat, Tale
<1>5. \A n \in 1 .. Len(T) : T[n].provider = B[n] /\ T[n].number = n
  BY <1>1, <1>3 DEF Tale
<1>6. ASSUME NEW n \in 1 .. Len(B) - 1 PROVE Turned(B, T, F, S, n)
  <2>1. CASE n = Len(A)
    BY <1>1, <1>3, <1>6, <2>1 DEF Turned
  <2>2. CASE n # Len(A)
    <3>1. n \in 1 .. Len(A) - 1
      BY <1>3, <1>6, <2>2
    <3>2. B[n] = A[n] /\ B[n + 1] = A[n + 1]
      BY <1>3, <3>1
    <3> QED BY <3>1, <3>2 DEF Tale, Turned
  <2> QED BY <2>1, <2>2
<1>7. Tale(B, T, F, S)
  BY <1>1, <1>3, <1>4, <1>5, <1>6 DEF Tale
<1>8. ASSUME NEW m \in 1 .. Len(B), NEW n \in 2 .. Len(L) PROVE B[m] # L[n]
  BY <1>1, <1>2, <1>3 DEF NoRepeat
<1>9. \A pc \in {"failed", "succeeded"} : Standing(pc, L, B, T, F, S, status)
  BY <1>1, <1>2, <1>3, <1>8 DEF Standing, Turning, Recorded, Unasked
<1> QED BY <1>2, <1>7, <1>9 DEF B

(* Its answer is recorded as an attempt. *)
LEMMA TaleCounted ==
  ASSUME NEW P, NEW A \in Seq(P), NEW R, NEW T \in Seq(R), NEW F, NEW S, NEW L, NEW status,
         NEW pc \in {"failed", "succeeded"}, NEW row \in R,
         row.provider = L[1], row.number = Len(A), row.status = pc,
         Tale(A, T, F, S), Standing(pc, L, A, T, F, S, status)
  PROVE  /\ Tale(A, Append(T, row), F, S)
         /\ Standing(IF pc = "failed" THEN "counted" ELSE "answered", L, A, Append(T, row), F, S, status)
<1>1. /\ Len(A) > 0 /\ Len(T) + 1 = Len(A) /\ A[Len(A)] = L[1] /\ Len(A) \in Nat
  BY DEF Standing, Turning
<1> DEFINE U == Append(T, row)
<1>2. /\ U \in Seq(R) /\ Len(T) \in Nat /\ Len(U) = Len(T) + 1
      /\ \A n \in 1 .. Len(T) : U[n] = T[n]
      /\ U[Len(T) + 1] = row
  BY AppendOne
<1> HIDE DEF U
<1>3. \A n \in 1 .. Len(U) : U[n].provider = A[n] /\ U[n].number = n
  BY <1>1, <1>2 DEF Tale
<1>4. \A n \in 1 .. Len(A) - 1 : Turned(A, U, F, S, n)
  BY <1>1, <1>2 DEF Tale, Turned
<1>5. Tale(A, U, F, S)
  BY <1>1, <1>2, <1>3, <1>4 DEF Tale
<1>6. U[Len(A)].status = pc
  BY <1>1, <1>2
<1>7. Standing(IF pc = "failed" THEN "counted" ELSE "answered", L, A, U, F, S, status)
  BY <1>1, <1>2, <1>6 DEF Standing, Turning, Recorded, Unasked
<1> QED BY <1>5, <1>7 DEF U

(* The decision of the router is recorded. *)
LEMMA TaleDecided ==
  ASSUME NEW P, NEW A \in Seq(P), NEW T, NEW R, NEW F \in Seq(R), NEW S, NEW L, NEW status, NEW row \in R,
         Tale(A, T, F, S),
         \/ /\ Standing("cooling", L, A, T, F, S, status)
            /\ row.from = L[1] /\ row.to = IF Len(L) = 1 THEN NoProvider ELSE L[2]
         \/ Standing("cold", L, A, T, F, S, status)
  PROVE  /\ Tale(A, T, Append(F, row), S)
         /\ Standing("cooling", L, A, T, F, S, status) =>
              Standing("decided", L, A, T, Append(F, row), S, status)
         /\ Standing("cold", L, A, T, F, S, status) =>
              Standing("stopping", L, A, T, Append(F, row), S, status)
<1> DEFINE G == Append(F, row)
<1>1. /\ G \in Seq(R) /\ Len(F) \in Nat /\ Len(G) = Len(F) + 1 /\ Len(A) \in Nat
      /\ \A n \in 1 .. Len(F) : G[n] = F[n]
      /\ G[Len(F) + 1] = row
  BY AppendOne
<1> HIDE DEF G
<1>2. Standing("cooling", L, A, T, F, S, status) => Len(F) + 1 = Len(A)
  BY DEF Standing
<1>3. Standing("cold", L, A, T, F, S, status) => Len(A) = 0
  BY DEF Standing, Unasked
<1>9. Len(F) + 1 = Len(A) \/ Len(A) = 0
  BY <1>2, <1>3
<1>4. ASSUME NEW n \in 1 .. Len(A) - 1 PROVE Turned(A, T, G, S, n)
  <2>1. G[n] = F[n]
    BY <1>1, <1>9
  <2> QED BY <2>1 DEF Tale, Turned
<1>5. Tale(A, T, G, S)
  BY <1>4 DEF Tale
<1>6. ASSUME Standing("cooling", L, A, T, F, S, status), row.from = L[1],
             row.to = IF Len(L) = 1 THEN NoProvider ELSE L[2]
      PROVE  Standing("decided", L, A, T, G, S, status)
  BY <1>1, <1>2, <1>6 DEF Standing, Turning, Recorded, Unasked
<1>7. ASSUME Standing("cold", L, A, T, F, S, status) PROVE Standing("stopping", L, A, T, G, S, status)
  BY <1>1, <1>3, <1>7 DEF Standing, Turning, Recorded, Unasked
<1>8. Standing("cooling", L, A, T, F, S, status) /\ Standing("cold", L, A, T, F, S, status) => FALSE
  BY <1>2, <1>3, <1>1
<1> QED BY <1>5, <1>6, <1>7, <1>8 DEF G

(* The failure is charged, and the next provider's turn comes. *)
LEMMA TaleCharged ==
  ASSUME NEW P, NEW A \in Seq(P), NEW T, NEW F, NEW S, NEW S1, NEW L \in Seq(P), NEW status,
         \A x \in P : S[x] # <<>> => S1[x] # <<>>,
         S1[L[1]] # <<>>, NoProvider \notin P,
         Tale(A, T, F, S), Standing("decided", L, A, T, F, S, status)
  PROVE  /\ Tale(A, T, F, S1)
         /\ Len(L) = 1 => Standing("stopping", Tail(L), A, T, F, S1, status)
         /\ Len(L) # 1 => Standing("trying", Tail(L), A, T, F, S1, status)
<1>1. /\ L # <<>> /\ NoRepeat(L) /\ Len(A) \in Nat /\ Len(A) > 0 /\ A[Len(A)] = L[1]
      /\ \A m \in 1 .. Len(A), n \in 2 .. Len(L) : A[m] # L[n]
      /\ F[Len(A)].from = A[Len(A)] /\ Len(F) = Len(A) /\ Len(T) = Len(A)
      /\ F[Len(A)].to = IF Len(L) = 1 THEN NoProvider ELSE L[2]
      /\ T[Len(A)].status = "failed"
  BY DEF Standing, Turning, Recorded
<1>2. \A n \in 1 .. Len(A) - 1 : Turned(A, T, F, S1, n)
  BY <1>1 DEF Tale, Turned
<1>3. Tale(A, T, F, S1)
  BY <1>2 DEF Tale
<1> DEFINE M == Tail(L)
<1>4. /\ M \in Seq(P) /\ Len(L) \in Nat /\ Len(L) > 0 /\ Len(M) = Len(L) - 1
      /\ \A n \in 1 .. Len(M) : M[n] = L[n + 1]
  BY <1>1
<1> HIDE DEF M
<1>5. ASSUME Len(L) = 1 PROVE Standing("stopping", M, A, T, F, S1, status)
  BY <1>1, <1>5 DEF Standing, Turning, Recorded, Unasked
<1>6. ASSUME Len(L) # 1 PROVE Standing("trying", M, A, T, F, S1, status)
  <2>1. /\ NoRepeat(M) /\ M # <<>> /\ M[1] = L[2]
        /\ \A m \in 1 .. Len(A), n \in 1 .. Len(M) : A[m] # M[n]
    <3>1. NoRepeat(M)
      BY <1>1, <1>4 DEF NoRepeat
    <3>2. M # <<>> /\ M[1] = L[2]
      BY <1>4, <1>6
    <3>3. ASSUME NEW m \in 1 .. Len(A), NEW n \in 1 .. Len(M) PROVE A[m] # M[n]
      <4>1. n + 1 \in 2 .. Len(L) /\ M[n] = L[n + 1]
        BY <1>4
      <4> QED BY <1>1, <4>1
    <3> QED BY <3>1, <3>2, <3>3
  <2> QED BY <1>1, <1>6, <2>1 DEF Standing, Turning, Recorded, Unasked
<1> QED BY <1>3, <1>5, <1>6 DEF M

(* Charges of the run that are added elsewhere do not matter. *)
LEMMA TaleKept ==
  ASSUME NEW P, NEW A \in Seq(P), NEW T, NEW F, NEW S, NEW S1, Tale(A, T, F, S),
         \A x \in P : S[x] # <<>> => S1[x] # <<>>
  PROVE  Tale(A, T, F, S1)
BY DEF Tale, Turned

LEMMA StandingKept ==
  ASSUME NEW P, NEW A \in Seq(P), NEW T, NEW F, NEW S, NEW S1, NEW pc, NEW L, NEW status, NEW new,
         Standing(pc, L, A, T, F, S, status),
         status \in {"completed", "safe_stopped"} => new = status,
         \A x \in P : S[x] # <<>> => S1[x] # <<>>
  PROVE  Standing(pc, L, A, T, F, S1, new)
<1>1. \A n \in 1 .. Len(A) : S[A[n]] # <<>> => S1[A[n]] # <<>>
  OBVIOUS
<1>2. Len(A) \in Nat
  OBVIOUS
<1> QED BY <1>1, <1>2 DEF Standing

(* The state of the router: which runs have a caller, and where it is.     *)

RouterRow == [pc : RouterSteps, run : Runs \union {NoRun}, time : Times,
              known : [Providers -> Nat], left : Seq(Providers)]

TaleOf(r) == Tale(asked[r], attempts[r], fallbacks[r], spent[r])
StandingOf(c) ==
  LET r == router[c].run
  IN  Standing(router[c].pc, router[c].left, asked[r], attempts[r], fallbacks[r], spent[r], run[r])

RouterInv ==
  /\ TypeOK /\ LedgerTypeOK /\ ChargesAreWithinCeilings /\ FailoverTypeOK
  /\ \A r \in Runs : run[r] = "absent" => asked[r] = <<>> /\ attempts[r] = <<>> /\ fallbacks[r] = <<>>
  /\ \A r \in Runs : TaleOf(r)
  /\ \A c \in Callers : router[c].run \in Runs => run[router[c].run] # "absent"
  /\ \A c \in Callers : ~RouterAt(c, "idle") => router[c].run \in Runs /\ StandingOf(c)
  /\ \A c, d \in Callers : router[c].run \in Runs /\ router[d].run = router[c].run => c = d

LEMMA MaxOfTwo ==
  ASSUME NEW m \in Nat, NEW n \in Nat
  PROVE  Max({m, n}) \in Nat
<1>1. \E x \in {m, n} : \A y \in {m, n} : x >= y
  OBVIOUS
<1> QED BY <1>1 DEF Max

LEMMA RouterTypes ==
  /\ Providers \subseteq Subjects /\ Providers \subseteq Budgeted
  /\ IsFiniteSet(Providers) /\ NoProvider \notin Providers
<1>1. Routes \in Seq(Subjects) /\ Len(Routes) \in Nat /\ Providers = {Routes[i] : i \in 1 .. Len(Routes)}
  BY FailoverAssumption DEF Providers, ToSet
<1>2. [i \in 1 .. Len(Routes) |-> Routes[i]] \in Surjection(1 .. Len(Routes), Providers)
  BY <1>1 DEF Surjection
<1>3. IsFiniteSet(Providers)
  BY <1>1, <1>2, FS_NatSurjection DEF ExistsSurjection
<1> QED BY <1>1, <1>3, FailoverAssumption DEF Budgeted

(* A step of one caller, and all that it leaves alone. *)
LEMMA RouterKept ==
  ASSUME RouterInv, NEW c \in Callers, NEW r \in Runs, NEW row \in RouterRow,
         router' = [router EXCEPT ![c] = row], row.run = r, row.pc # "idle",
         router[c].run = r \/ run[r] = "absent",
         TypeOK', LedgerTypeOK', ChargesAreWithinCeilings', FailoverTypeOK',
         run'[r] # "absent", \A q \in Runs \ {r} : run'[q] = run[q],
         \A q \in Runs \ {r} :
           asked'[q] = asked[q] /\ attempts'[q] = attempts[q] /\ fallbacks'[q] = fallbacks[q],
         \A q \in Runs, x \in Budgeted : Len(spent[q][x]) <= Len(spent'[q][x]),
         Tale(asked'[r], attempts'[r], fallbacks'[r], spent'[r]),
         Standing(row.pc, row.left, asked'[r], attempts'[r], fallbacks'[r], spent'[r], run'[r])
  PROVE  RouterInv'
<1>1. /\ router \in [Callers -> RouterRow] /\ asked \in [Runs -> Seq(Providers)]
      /\ \A q \in Runs, x \in Budgeted : Len(spent[q][x]) \in Nat /\ Len(spent'[q][x]) \in Nat
  <2>1. router \in [Callers -> RouterRow] /\ asked \in [Runs -> Seq(Providers)]
    BY DEF RouterInv, FailoverTypeOK, RouterRow
  <2>2. \A q \in Runs, x \in Budgeted : spent[q][x] \in Seq(Nat \union {NoCeiling})
    BY DEF RouterInv, LedgerTypeOK
  <2>3. \A q \in Runs, x \in Budgeted : spent'[q][x] \in Seq(Nat \union {NoCeiling})
    BY DEF LedgerTypeOK
  <2> QED BY <2>1, <2>2, <2>3, LenProperties
<1>2. router'[c] = row /\ \A d \in Callers \ {c} : router'[d] = router[d]
  BY <1>1
<1>3. \A d \in Callers \ {c} : router[d].run # r
  BY DEF RouterInv
<1>4. \A q \in Runs, x \in Providers : spent[q][x] # <<>> => spent'[q][x] # <<>>
  <2> SUFFICES ASSUME NEW q \in Runs, NEW x \in Providers, spent[q][x] # <<>>, spent'[q][x] = <<>>
               PROVE  FALSE
    OBVIOUS
  <2>1. x \in Budgeted /\ spent[q][x] \in Seq(Nat \union {NoCeiling})
    BY RouterTypes DEF RouterInv, LedgerTypeOK
  <2>2. Len(spent[q][x]) > 0
    BY <2>1
  <2>3. Len(spent'[q][x]) = 0
    OBVIOUS
  <2> QED BY <1>1, <2>1, <2>2, <2>3
<1>5. ASSUME NEW q \in Runs, q # r
      PROVE  /\ TaleOf(q)'
             /\ run'[q] = "absent" => asked'[q] = <<>> /\ attempts'[q] = <<>> /\ fallbacks'[q] = <<>>
  <2>1. Tale(asked[q], attempts[q], fallbacks[q], spent[q])
    BY DEF RouterInv, TaleOf
  <2>2. asked[q] \in Seq(Providers)
    BY <1>1
  <2>3. Tale(asked[q], attempts[q], fallbacks[q], spent'[q])
    BY <1>4, <2>1, <2>2, TaleKept
  <2> QED BY <1>5, <2>3 DEF TaleOf, RouterInv
<1>6. ASSUME NEW d \in Callers, d # c, router'[d].pc # "idle"
      PROVE  router'[d].run \in Runs /\ StandingOf(d)'
  <2>1. /\ router'[d] = router[d] /\ router[d].run \in Runs /\ router[d].run # r
        /\ StandingOf(d)
    BY <1>2, <1>3, <1>6 DEF RouterInv, RouterAt
  <2> DEFINE q == router[d].run
  <2>2. Standing(router[d].pc, router[d].left, asked[q], attempts[q], fallbacks[q], spent[q], run[q])
    BY <2>1 DEF StandingOf
  <2>3. asked[q] \in Seq(Providers) /\ \A x \in Providers : spent[q][x] # <<>> => spent'[q][x] # <<>>
    BY <1>1, <1>4, <2>1
  <2>4. Standing(router[d].pc, router[d].left, asked[q], attempts[q], fallbacks[q], spent'[q], run[q])
    BY <2>2, <2>3, StandingKept
  <2> QED BY <2>1, <2>4 DEF StandingOf
<1>7. \A q \in Runs : TaleOf(q)'
  BY <1>5 DEF TaleOf
<1>8. \A q \in Runs : run'[q] = "absent" => asked'[q] = <<>> /\ attempts'[q] = <<>> /\ fallbacks'[q] = <<>>
  BY <1>5
<1>9. \A d \in Callers : router'[d].run \in Runs => run'[router'[d].run] # "absent"
  BY <1>2, <1>3 DEF RouterInv
<1>10. \A d \in Callers : ~RouterAt(d, "idle")' => router'[d].run \in Runs /\ StandingOf(d)'
  <2>1. router'[c].run \in Runs /\ StandingOf(c)'
    BY <1>2 DEF StandingOf
  <2> QED BY <1>6, <2>1 DEF RouterAt
<1>11. \A d, e \in Callers : router'[d].run \in Runs /\ router'[e].run = router'[d].run => d = e
  BY <1>2, <1>3 DEF RouterInv
<1> QED BY <1>7, <1>8, <1>9, <1>10, <1>11 DEF RouterInv

(* Steps that touch the caller's own row only. *)
LEMMA RowKept ==
  ASSUME RouterInv, NEW c \in Callers, NEW r \in Runs, NEW row \in RouterRow, row.run = r,
         router' = [router EXCEPT ![c] = row], row.pc # "idle", router[c].run = r,
         UNCHANGED <<vars, ledgers, cooled, attempts, fallbacks, asked>>,
         Standing(row.pc, row.left, asked[r], attempts[r], fallbacks[r], spent[r], run[r])
  PROVE  RouterInv'
<1>1. TypeOK' /\ LedgerTypeOK' /\ ChargesAreWithinCeilings'
  BY DEF RouterInv, vars, ledgers, TypeOK, LedgerTypeOK, ChargesAreWithinCeilings
<1>2. FailoverTypeOK'
  BY DEF RouterInv, FailoverTypeOK, RouterRow
<1>3. \A q \in Runs, x \in Budgeted : Len(spent[q][x]) \in Nat /\ Len(spent[q][x]) <= Len(spent'[q][x])
  <2>1. \A q \in Runs, x \in Budgeted : spent[q][x] \in Seq(Nat \union {NoCeiling})
    BY DEF RouterInv, LedgerTypeOK
  <2> QED BY <2>1, LenProperties DEF ledgers
<1>4. UNCHANGED <<run, spent, attempts, fallbacks, asked>> /\ run[r] # "absent" /\ TaleOf(r)
  BY DEF RouterInv, vars, ledgers
<1> QED BY <1>1, <1>2, <1>3, <1>4, RouterKept DEF TaleOf

LEMMA RouterSteps1 ==
  ASSUME RouterInv, NEW c \in Callers,
         LoadCooldowns(c) \/ Route(c) \/ Die(c)
  PROVE  RouterInv'
<1>1. router[c].pc # "idle"
  BY DEF LoadCooldowns, Route, Die, RouterAt
<1>2. PICK r \in Runs : router[c].run = r
  BY <1>1 DEF RouterInv, RouterAt
<1>3. /\ router[c] \in RouterRow /\ router \in [Callers -> RouterRow] /\ cooled \in [Providers -> Nat]
      /\ Standing(router[c].pc, router[c].left, asked[r], attempts[r], fallbacks[r], spent[r], run[r])
  BY <1>1, <1>2 DEF RouterInv, FailoverTypeOK, RouterRow, RouterAt, StandingOf
<1>4. CASE LoadCooldowns(c)
  <2> DEFINE row == [router[c] EXCEPT !.pc = "built", !.known = cooled]
  <2>1. /\ row \in RouterRow /\ row.run = r /\ row.pc = "built" /\ row.left = router[c].left
        /\ router' = [router EXCEPT ![c] = row]
    BY <1>2, <1>3, <1>4 DEF LoadCooldowns, RouterRow, RouterSteps
  <2> HIDE DEF row
  <2>2. Standing(row.pc, row.left, asked[r], attempts[r], fallbacks[r], spent[r], run[r])
    BY <1>3, <1>4, <2>1 DEF LoadCooldowns, RouterAt, Standing, Unasked, Turning, Recorded
  <2> QED BY <1>2, <1>4, <2>1, <2>2, RowKept DEF LoadCooldowns
<1>5. CASE Die(c)
  <2> DEFINE row == [router[c] EXCEPT !.pc = "dead"]
  <2>1. /\ row \in RouterRow /\ row.run = r /\ row.pc = "dead"
        /\ router' = [router EXCEPT ![c] = row]
    BY <1>2, <1>3, <1>5 DEF Die, RouterGoto, RouterRow, RouterSteps
  <2> HIDE DEF row
  <2>2. Standing(row.pc, row.left, asked[r], attempts[r], fallbacks[r], spent[r], run[r])
    BY <2>1 DEF Standing, Unasked, Turning, Recorded
  <2> QED BY <1>2, <1>5, <2>1, <2>2, RowKept DEF Die
<1>6. CASE Route(c)
  <2>10. PICK time \in Times : \E left \in Available(c, time) :
          router' = [router EXCEPT ![c].time = time, ![c].left = left,
                                   ![c].pc = IF left = <<>> THEN "cold" ELSE "trying"]
    BY <1>6 DEF Route
  <2>1. PICK left \in Available(c, time) :
          router' = [router EXCEPT ![c].time = time, ![c].left = left,
                                   ![c].pc = IF left = <<>> THEN "cold" ELSE "trying"]
    BY <2>10
  <2> DEFINE P == {p \in Providers : router[c].known[p] <= time}
  <2>2. IsFiniteSet(P) /\ Cardinality(P) \in Nat /\ P \subseteq Providers
    BY RouterTypes, FS_Subset, FS_CardinalityType
  <2>3. left \in [1 .. Cardinality(P) -> P] /\ \A m, n \in 1 .. Cardinality(P) : m # n => left[m] # left[n]
    BY DEF Available, Ordered, SetToSeqs
  <2> HIDE DEF P
  <2>4. left \in Seq(Providers) /\ NoRepeat(left)
    BY <2>2, <2>3 DEF NoRepeat
  <2> DEFINE pc == IF left = <<>> THEN "cold" ELSE "trying"
             row == [router[c] EXCEPT !.time = time, !.left = left, !.pc = pc]
  <2>5. pc \in RouterSteps
    BY DEF RouterSteps
  <2>6. /\ row \in RouterRow /\ row.run = r /\ row.pc = pc /\ row.left = left
        /\ router' = [router EXCEPT ![c] = row]
    BY <1>2, <1>3, <2>1, <2>4, <2>5 DEF RouterRow
  <2> HIDE DEF row
  <2>7. asked[r] = <<>> /\ attempts[r] = <<>> /\ fallbacks[r] = <<>>
    BY <1>3, <1>6 DEF Route, RouterAt, Standing, Unasked
  <2>8. Standing(pc, left, asked[r], attempts[r], fallbacks[r], spent[r], run[r])
    BY <2>4, <2>7 DEF Standing, Unasked, Turning, Recorded
  <2>9. pc # "idle"
    OBVIOUS
  <2> HIDE DEF pc
  <2> QED BY <1>2, <1>6, <2>6, <2>8, <2>9, RowKept DEF Route
<1> QED BY <1>4, <1>5, <1>6

(* What a caller under way knows. *)
LEMMA CallerFacts ==
  ASSUME RouterInv, NEW c \in Callers, router[c].pc # "idle"
  PROVE  \E r \in Runs :
           /\ router[c].run = r /\ run[r] # "absent" /\ Tale(asked[r], attempts[r], fallbacks[r], spent[r])
           /\ Standing(router[c].pc, router[c].left, asked[r], attempts[r], fallbacks[r], spent[r], run[r])
           /\ router[c] \in RouterRow /\ router \in [Callers -> RouterRow]
           /\ asked[r] \in Seq(Providers) /\ attempts[r] \in Seq(AttemptRow)
           /\ fallbacks[r] \in Seq(FallbackRow) /\ router[c].left \in Seq(Providers)
<1>1. router[c].run \in Runs /\ StandingOf(c)
  BY DEF RouterInv, RouterAt
<1>2. PICK r \in Runs : router[c].run = r
  BY <1>1
<1>3. /\ router[c] \in RouterRow /\ router \in [Callers -> RouterRow]
      /\ asked[r] \in Seq(Providers) /\ attempts[r] \in Seq(AttemptRow)
      /\ fallbacks[r] \in Seq(FallbackRow) /\ router[c].left \in Seq(Providers)
  BY DEF RouterInv, FailoverTypeOK, RouterRow
<1>4. Tale(asked[r], attempts[r], fallbacks[r], spent[r]) /\ run[r] # "absent"
  BY <1>2 DEF RouterInv, TaleOf
<1> QED BY <1>1, <1>2, <1>3, <1>4 DEF StandingOf

(* The ledgers of the owner, for the steps that do not charge. *)
LEMMA LedgersAtRest ==
  ASSUME RouterInv, UNCHANGED ledgers
  PROVE  /\ LedgerTypeOK' /\ ChargesAreWithinCeilings' /\ UNCHANGED spent
         /\ \A q \in Runs, x \in Budgeted : Len(spent[q][x]) <= Len(spent'[q][x])
<1>1. LedgerTypeOK' /\ ChargesAreWithinCeilings' /\ UNCHANGED spent
  BY DEF RouterInv, ledgers, LedgerTypeOK, ChargesAreWithinCeilings
<1>2. \A q \in Runs, x \in Budgeted : spent[q][x] \in Seq(Nat \union {NoCeiling})
  BY DEF RouterInv, LedgerTypeOK
<1> QED BY <1>1, <1>2, LenProperties

LEMMA RouterAsks ==
  ASSUME RouterInv, NEW c \in Callers, Dispatch(c)
  PROVE  RouterInv'
<1>1. PICK r \in Runs :
           /\ router[c].run = r /\ run[r] # "absent" /\ Tale(asked[r], attempts[r], fallbacks[r], spent[r])
           /\ Standing(router[c].pc, router[c].left, asked[r], attempts[r], fallbacks[r], spent[r], run[r])
           /\ router[c] \in RouterRow /\ router \in [Callers -> RouterRow]
           /\ asked[r] \in Seq(Providers) /\ attempts[r] \in Seq(AttemptRow)
           /\ fallbacks[r] \in Seq(FallbackRow) /\ router[c].left \in Seq(Providers)
  BY CallerFacts DEF Dispatch, RouterAt
<1> DEFINE L == router[c].left
           p == Head(L)
<1>2. router[c].pc = "trying" /\ L # <<>> /\ p \in Providers
  BY <1>1 DEF Dispatch, RouterAt, Standing, Turning
<1>3. /\ Tale(Append(asked[r], p), attempts[r], fallbacks[r], spent[r])
      /\ \A pc \in {"failed", "succeeded"} :
           Standing(pc, L, Append(asked[r], p), attempts[r], fallbacks[r], spent[r], run[r])
  BY <1>1, <1>2, TaleAsked
<1>4. asked' = [asked EXCEPT ![r] = Append(asked[r], p)] /\ asked \in [Runs -> Seq(Providers)]
  BY <1>1 DEF Dispatch, Asking, RouterInv, FailoverTypeOK
<1>5. /\ asked' \in [Runs -> Seq(Providers)] /\ asked'[r] = Append(asked[r], p)
      /\ \A q \in Runs \ {r} : asked'[q] = asked[q]
  BY <1>1, <1>2, <1>4
<1>6. UNCHANGED <<vars, ledgers, cooled, attempts, fallbacks>>
  BY DEF Dispatch
<1>7. TypeOK' /\ UNCHANGED <<run, spent>>
  BY <1>6 DEF RouterInv, vars, ledgers, TypeOK
<1>8. /\ LedgerTypeOK' /\ ChargesAreWithinCeilings'
      /\ \A q \in Runs, x \in Budgeted : Len(spent[q][x]) <= Len(spent'[q][x])
  BY <1>6, LedgersAtRest
<1>9. ASSUME NEW row \in RouterRow, row.run = r, row.pc \in {"failed", "succeeded", "raised"},
             row.left = L, router' = [router EXCEPT ![c] = row]
      PROVE  RouterInv'
  <2>1. Standing(row.pc, row.left, asked'[r], attempts'[r], fallbacks'[r], spent'[r], run'[r])
    <3>1. CASE row.pc = "raised"
      BY <3>1 DEF Standing, Unasked, Turning, Recorded
    <3>2. CASE row.pc \in {"failed", "succeeded"}
      BY <1>3, <1>5, <1>6, <1>7, <1>9, <3>2
    <3> QED BY <1>9, <3>1, <3>2
  <2>2. FailoverTypeOK'
    BY <1>1, <1>5, <1>6, <1>9 DEF RouterInv, FailoverTypeOK, RouterRow
  <2>3. row.pc # "idle"
    BY <1>9
  <2>4. Tale(asked'[r], attempts'[r], fallbacks'[r], spent'[r])
    BY <1>3, <1>5, <1>6, <1>7
  <2> HIDE DEF L, p
  <2> QED BY <1>1, <1>5, <1>6, <1>7, <1>8, <1>9, <2>1, <2>2, <2>3, <2>4, RouterKept
<1>10. CASE RouterGoto(c, "succeeded") \/ RouterGoto(c, "raised")
  <2>1. PICK pc \in {"succeeded", "raised"} : router' = [router EXCEPT ![c].pc = pc]
    BY <1>10 DEF RouterGoto
  <2> DEFINE row == [router[c] EXCEPT !.pc = pc]
  <2>2. /\ row \in RouterRow /\ row.run = r /\ row.pc = pc /\ row.left = L
        /\ router' = [router EXCEPT ![c] = row]
    BY <1>1, <2>1 DEF RouterRow, RouterSteps
  <2> HIDE DEF row
  <2> QED BY <1>9, <2>1, <2>2
<1>11. CASE router' = [router EXCEPT ![c].pc = "failed",
                ![c].known[Asking(c)] = Max({@, router[c].time + CooldownTicks})]
  <2> DEFINE until == Max({router[c].known[p], router[c].time + CooldownTicks})
             known == [router[c].known EXCEPT ![p] = until]
             row == [router[c] EXCEPT !.pc = "failed", !.known = known]
  <2>1. router[c].known \in [Providers -> Nat] /\ router[c].time + CooldownTicks \in Nat
    BY <1>1, FailoverAssumption DEF RouterRow, Times
  <2>2. until \in Nat
    BY <1>2, <2>1, MaxOfTwo
  <2>3. router' = [router EXCEPT ![c] = row]
    BY <1>1, <1>11 DEF Asking, RouterRow
  <2> HIDE DEF until
  <2>4. known \in [Providers -> Nat]
    BY <2>1, <2>2
  <2> HIDE DEF known
  <2>5. row \in RouterRow /\ row.run = r /\ row.pc = "failed" /\ row.left = L
    BY <1>1, <2>4 DEF RouterRow, RouterSteps
  <2> HIDE DEF row
  <2> QED BY <1>9, <2>3, <2>5
<1> QED BY <1>10, <1>11 DEF Dispatch

LEMMA RouterCounts ==
  ASSUME RouterInv, NEW c \in Callers, CountFailure(c) \/ CountSuccess(c)
  PROVE  RouterInv'
<1>1. PICK r \in Runs :
           /\ router[c].run = r /\ run[r] # "absent" /\ Tale(asked[r], attempts[r], fallbacks[r], spent[r])
           /\ Standing(router[c].pc, router[c].left, asked[r], attempts[r], fallbacks[r], spent[r], run[r])
           /\ router[c] \in RouterRow /\ router \in [Callers -> RouterRow]
           /\ asked[r] \in Seq(Providers) /\ attempts[r] \in Seq(AttemptRow)
           /\ fallbacks[r] \in Seq(FallbackRow) /\ router[c].left \in Seq(Providers)
  BY CallerFacts DEF CountFailure, CountSuccess, RouterAt
<1>2. PICK pc \in {"failed", "succeeded"} : router[c].pc = pc /\ RecordAttempt(c, pc)
  BY DEF CountFailure, CountSuccess, RouterAt
<1> DEFINE L == router[c].left
           entry == [provider |-> Head(L), number |-> Len(asked[r]), status |-> pc]
           then == IF pc = "failed" THEN "counted" ELSE "answered"
           row == [router[c] EXCEPT !.pc = then]
<1>3. L # <<>> /\ Head(L) \in Providers /\ Head(L) = L[1] /\ Len(asked[r]) \in Nat \ {0}
  BY <1>1, <1>2 DEF Standing, Turning
<1>4. entry \in AttemptRow /\ entry.provider = L[1] /\ entry.number = Len(asked[r]) /\ entry.status = pc
  BY <1>2, <1>3 DEF AttemptRow
<1>5. attempts' = [attempts EXCEPT ![r] = Append(attempts[r], entry)]
  BY <1>1, <1>2 DEF RecordAttempt, Asking, Number
<1> HIDE DEF entry
<1>6. /\ Tale(asked[r], Append(attempts[r], entry), fallbacks[r], spent[r])
      /\ Standing(then, L, asked[r], Append(attempts[r], entry), fallbacks[r], spent[r], run[r])
  <2>1. Standing(pc, L, asked[r], attempts[r], fallbacks[r], spent[r], run[r])
    BY <1>1, <1>2
  <2>2. Tale(asked[r], attempts[r], fallbacks[r], spent[r])
    BY <1>1
  <2>3. asked[r] \in Seq(Providers) /\ attempts[r] \in Seq(AttemptRow)
    BY <1>1
  <2> HIDE DEF L
  <2> QED BY <1>4, <2>1, <2>2, <2>3, TaleCounted, Zenon
<1>7. /\ attempts' \in [Runs -> Seq(AttemptRow)] /\ attempts'[r] = Append(attempts[r], entry)
      /\ \A q \in Runs \ {r} : attempts'[q] = attempts[q]
  BY <1>1, <1>4, <1>5 DEF RouterInv, FailoverTypeOK
<1>8. UNCHANGED <<vars, ledgers, cooled, fallbacks, asked>>
  BY DEF CountFailure, CountSuccess
<1>9. TypeOK' /\ UNCHANGED <<run, spent>>
  BY <1>8 DEF RouterInv, vars, ledgers, TypeOK
<1>10. /\ LedgerTypeOK' /\ ChargesAreWithinCeilings'
       /\ \A q \in Runs, x \in Budgeted : Len(spent[q][x]) <= Len(spent'[q][x])
  BY <1>8, LedgersAtRest
<1>11. router' = [router EXCEPT ![c] = row]
  BY <1>1, <1>2 DEF CountFailure, CountSuccess, RouterGoto, RouterAt
<1>12. then \in RouterSteps /\ then # "idle"
  BY DEF RouterSteps
<1>13. row \in RouterRow /\ row.run = r /\ row.pc = then /\ row.left = L
  BY <1>1, <1>12 DEF RouterRow
<1> HIDE DEF then, row
<1>14. FailoverTypeOK'
  BY <1>1, <1>7, <1>8, <1>11, <1>13 DEF RouterInv, FailoverTypeOK, RouterRow
<1>15. /\ Tale(asked'[r], attempts'[r], fallbacks'[r], spent'[r])
       /\ Standing(row.pc, row.left, asked'[r], attempts'[r], fallbacks'[r], spent'[r], run'[r])
  BY <1>6, <1>7, <1>8, <1>9, <1>13
<1> HIDE DEF L
<1> QED BY <1>1, <1>7, <1>8, <1>9, <1>10, <1>11, <1>12, <1>13, <1>14, <1>15, RouterKept

LEMMA RouterCools ==
  ASSUME RouterInv, NEW c \in Callers, RecordCooldown(c)
  PROVE  RouterInv'
<1>1. PICK r \in Runs :
           /\ router[c].run = r /\ run[r] # "absent" /\ Tale(asked[r], attempts[r], fallbacks[r], spent[r])
           /\ Standing(router[c].pc, router[c].left, asked[r], attempts[r], fallbacks[r], spent[r], run[r])
           /\ router[c] \in RouterRow /\ router \in [Callers -> RouterRow]
           /\ asked[r] \in Seq(Providers) /\ attempts[r] \in Seq(AttemptRow)
           /\ fallbacks[r] \in Seq(FallbackRow) /\ router[c].left \in Seq(Providers)
  BY CallerFacts DEF RecordCooldown, RouterAt
<1> DEFINE L == router[c].left
           until == Max({cooled[Head(L)], router[c].known[Head(L)]})
           row == [router[c] EXCEPT !.pc = "cooling"]
<1>2. router[c].pc = "counted" /\ L # <<>> /\ Head(L) \in Providers
  BY <1>1 DEF RecordCooldown, RouterAt, Standing, Turning
<1>3. cooled \in [Providers -> Nat] /\ router[c].known \in [Providers -> Nat]
  BY <1>1 DEF RouterInv, FailoverTypeOK, RouterRow
<1>4. until \in Nat
  BY <1>2, <1>3, MaxOfTwo
<1>5. cooled' = [cooled EXCEPT ![Head(L)] = until]
  BY DEF RecordCooldown, Asking
<1> HIDE DEF until
<1>6. cooled' \in [Providers -> Nat]
  BY <1>2, <1>3, <1>4, <1>5
<1>7. UNCHANGED <<vars, ledgers, attempts, fallbacks, asked>>
  BY DEF RecordCooldown
<1>8. TypeOK' /\ UNCHANGED <<run, spent>>
  BY <1>7 DEF RouterInv, vars, ledgers, TypeOK
<1>9. /\ LedgerTypeOK' /\ ChargesAreWithinCeilings'
      /\ \A q \in Runs, x \in Budgeted : Len(spent[q][x]) <= Len(spent'[q][x])
  BY <1>7, LedgersAtRest
<1>10. /\ row \in RouterRow /\ row.run = r /\ row.pc = "cooling" /\ row.left = L
       /\ router' = [router EXCEPT ![c] = row]
  BY <1>1 DEF RecordCooldown, RouterGoto, RouterRow, RouterSteps
<1> HIDE DEF row
<1>11. FailoverTypeOK'
  BY <1>1, <1>6, <1>7, <1>10 DEF RouterInv, FailoverTypeOK, RouterRow
<1>12. Standing("cooling", L, asked[r], attempts[r], fallbacks[r], spent[r], run[r])
  BY <1>1, <1>2 DEF Standing, Unasked, Turning, Recorded
<1> HIDE DEF L
<1>13. row.pc # "idle"
  BY <1>10
<1>14. UNCHANGED <<attempts, fallbacks, asked>>
  BY <1>7
<1> QED BY <1>1, <1>8, <1>9, <1>10, <1>11, <1>12, <1>13, <1>14, RouterKept

LEMMA RouterDecides ==
  ASSUME RouterInv, NEW c \in Callers, Decide(c)
  PROVE  RouterInv'
<1>1. PICK r \in Runs :
           /\ router[c].run = r /\ run[r] # "absent" /\ Tale(asked[r], attempts[r], fallbacks[r], spent[r])
           /\ Standing(router[c].pc, router[c].left, asked[r], attempts[r], fallbacks[r], spent[r], run[r])
           /\ router[c] \in RouterRow /\ router \in [Callers -> RouterRow]
           /\ asked[r] \in Seq(Providers) /\ attempts[r] \in Seq(AttemptRow)
           /\ fallbacks[r] \in Seq(FallbackRow) /\ router[c].left \in Seq(Providers)
  BY CallerFacts DEF Decide, RouterAt
<1> DEFINE L == router[c].left
<1>2. PICK entry \in FallbackRow, then \in {"decided", "stopping"} :
        /\ fallbacks' = [fallbacks EXCEPT ![r] = Append(fallbacks[r], entry)]
        /\ router' = [router EXCEPT ![c].pc = then]
        /\ \/ /\ router[c].pc = "cooling" /\ then = "decided"
              /\ entry.from = L[1] /\ entry.to = IF Len(L) = 1 THEN NoProvider ELSE L[2]
           \/ router[c].pc = "cold" /\ then = "stopping"
  <2>1. CASE RouterAt(c, "cooling")
    <3>1. L # <<>> /\ Head(L) \in Providers /\ Head(L) = L[1] /\ Len(asked[r]) \in Nat /\ Len(L) \in Nat
      BY <1>1, <2>1 DEF RouterAt, Standing, Turning
    <3>2. Len(L) # 1 => L[2] \in Providers
      BY <1>1, <3>1, SecondOf
    <3> DEFINE to == IF Len(L) = 1 THEN NoProvider ELSE L[2]
               mode == IF to = NoProvider THEN "safe_stop" ELSE "fallback"
               entry == [from |-> Head(L), to |-> to, number |-> Len(asked[r]), mode |-> mode]
    <3>3. to \in Providers \union {NoProvider} /\ mode \in {"fallback", "safe_stop"}
      BY <3>2
    <3>4. fallbacks' = [fallbacks EXCEPT ![r] = Append(fallbacks[r], entry)]
      BY <1>1, <2>1 DEF Decide, RecordFallback, RouterAt, Asking, Successor, Number
    <3>5. router' = [router EXCEPT ![c].pc = "decided"] /\ router[c].pc = "cooling"
      BY <2>1 DEF Decide, RouterGoto, RouterAt
    <3> HIDE DEF mode
    <3>6. entry \in FallbackRow /\ entry.from = L[1] /\ entry.to = to
      BY <3>1, <3>3 DEF FallbackRow
    <3> HIDE DEF entry, L
    <3> QED BY <3>4, <3>5, <3>6
  <2>2. CASE RouterAt(c, "cold")
    <3> DEFINE entry == [from |-> NoProvider, to |-> NoProvider, number |-> 0, mode |-> "safe_stop"]
    <3>1. entry \in FallbackRow
      BY DEF FallbackRow
    <3>2. fallbacks' = [fallbacks EXCEPT ![r] = Append(fallbacks[r], entry)]
      BY <1>1, <2>2 DEF Decide, RecordFallback, RouterAt
    <3>3. router' = [router EXCEPT ![c].pc = "stopping"] /\ router[c].pc = "cold"
      BY <2>2 DEF Decide, RouterGoto, RouterAt
    <3> HIDE DEF entry, L
    <3> QED BY <3>1, <3>2, <3>3
  <2> QED BY <2>1, <2>2 DEF Decide
<1> DEFINE row == [router[c] EXCEPT !.pc = then]
<1>3. /\ row \in RouterRow /\ row.run = r /\ row.pc = then /\ row.left = L
      /\ router' = [router EXCEPT ![c] = row] /\ row.pc # "idle"
  BY <1>1, <1>2 DEF RouterRow, RouterSteps
<1> HIDE DEF row, L
<1>4. /\ fallbacks' \in [Runs -> Seq(FallbackRow)] /\ fallbacks'[r] = Append(fallbacks[r], entry)
      /\ \A q \in Runs \ {r} : fallbacks'[q] = fallbacks[q]
  BY <1>1, <1>2 DEF RouterInv, FailoverTypeOK
<1>5. UNCHANGED <<vars, ledgers, cooled, attempts, asked>>
  BY DEF Decide
<1>6. TypeOK' /\ UNCHANGED <<run, spent, attempts, asked>>
  BY <1>5 DEF RouterInv, vars, ledgers, TypeOK
<1>7. /\ LedgerTypeOK' /\ ChargesAreWithinCeilings'
      /\ \A q \in Runs, x \in Budgeted : Len(spent[q][x]) <= Len(spent'[q][x])
  BY <1>5, LedgersAtRest
<1>8. FailoverTypeOK'
  BY <1>1, <1>3, <1>4, <1>5 DEF RouterInv, FailoverTypeOK, RouterRow
<1>9. /\ Tale(asked[r], attempts[r], Append(fallbacks[r], entry), spent[r])
      /\ Standing(then, L, asked[r], attempts[r], Append(fallbacks[r], entry), spent[r], run[r])
  <2>1. Standing(router[c].pc, L, asked[r], attempts[r], fallbacks[r], spent[r], run[r])
    BY <1>1 DEF L
  <2>2. \/ /\ Standing("cooling", L, asked[r], attempts[r], fallbacks[r], spent[r], run[r])
           /\ entry.from = L[1] /\ entry.to = (IF Len(L) = 1 THEN NoProvider ELSE L[2])
           /\ then = "decided"
        \/ /\ Standing("cold", L, asked[r], attempts[r], fallbacks[r], spent[r], run[r])
           /\ then = "stopping"
    BY <1>2, <2>1
  <2>3. entry \in FallbackRow
    BY <1>2
  <2>4. CASE then = "decided"
    <3>1. /\ Standing("cooling", L, asked[r], attempts[r], fallbacks[r], spent[r], run[r])
          /\ entry.from = L[1] /\ entry.to = (IF Len(L) = 1 THEN NoProvider ELSE L[2])
      BY <2>2, <2>4
    <3> QED BY <1>1, <2>3, <2>4, <3>1, TaleDecided
  <2>5. CASE then = "stopping"
    <3>1. Standing("cold", L, asked[r], attempts[r], fallbacks[r], spent[r], run[r])
      BY <2>2, <2>5
    <3> QED BY <1>1, <2>3, <2>5, <3>1, TaleDecided
  <2> QED BY <1>2, <2>4, <2>5
<1>10. /\ Tale(asked'[r], attempts'[r], fallbacks'[r], spent'[r])
       /\ Standing(row.pc, row.left, asked'[r], attempts'[r], fallbacks'[r], spent'[r], run'[r])
  BY <1>3, <1>4, <1>6, <1>9
<1> QED BY <1>1, <1>3, <1>4, <1>6, <1>7, <1>8, <1>10, RouterKept

LEMMA RouterCharges ==
  ASSUME RouterInv, NEW c \in Callers, Charge(c)
  PROVE  RouterInv'
<1>1. PICK r \in Runs :
           /\ router[c].run = r /\ run[r] # "absent" /\ Tale(asked[r], attempts[r], fallbacks[r], spent[r])
           /\ Standing(router[c].pc, router[c].left, asked[r], attempts[r], fallbacks[r], spent[r], run[r])
           /\ router[c] \in RouterRow /\ router \in [Callers -> RouterRow]
           /\ asked[r] \in Seq(Providers) /\ attempts[r] \in Seq(AttemptRow)
           /\ fallbacks[r] \in Seq(FallbackRow) /\ router[c].left \in Seq(Providers)
  BY CallerFacts DEF Charge, RouterAt
<1> DEFINE L == router[c].left
           p == Head(L)
<1>2. router[c].pc = "decided" /\ L # <<>> /\ p \in Providers /\ p = L[1] /\ Len(L) \in Nat
  BY <1>1 DEF Charge, RouterAt, Standing, Turning
<1>3. UNCHANGED <<vars, cooled, attempts, fallbacks, asked>>
  BY DEF Charge
<1>4. TypeOK' /\ UNCHANGED <<run, attempts, fallbacks, asked>>
  BY <1>3 DEF RouterInv, vars, TypeOK
<1>5. CASE ~WithinBudget(r, p)
  <2>1. UNCHANGED ledgers /\ router' = [router EXCEPT ![c].pc = "exhausted"]
    BY <1>1, <1>5 DEF Charge, Asking, RouterGoto
  <2> DEFINE row == [router[c] EXCEPT !.pc = "exhausted"]
  <2>2. /\ row \in RouterRow /\ row.run = r /\ row.pc = "exhausted" /\ row.left = L
        /\ router' = [router EXCEPT ![c] = row] /\ row.pc # "idle"
    BY <1>1, <2>1 DEF RouterRow, RouterSteps
  <2> HIDE DEF row
  <2>3. Standing("exhausted", L, asked[r], attempts[r], fallbacks[r], spent[r], run[r])
    BY <1>1, <1>2 DEF Standing, Unasked, Turning, Recorded
  <2> HIDE DEF L, p
  <2> QED BY <1>1, <1>3, <2>1, <2>2, <2>3, RowKept
<1>6. CASE WithinBudget(r, p)
  <2>1. /\ Consume(r, p)
        /\ router' = [router EXCEPT ![c].left = Tail(@),
                        ![c].pc = IF Successor(c) = NoProvider THEN "stopping" ELSE "trying"]
    BY <1>1, <1>6 DEF Charge, Asking, ConsumeProviderRetry, Advance
  <2>2. p \in Budgeted
    BY <1>2, RouterTypes
  <2>3. LedgerMove
    BY <2>1, <2>2 DEF LedgerMove
  <2>4. /\ LedgerTypeOK' /\ ChargesAreWithinCeilings'
        /\ \A q \in Runs, x \in Budgeted : /\ Len(spent[q][x]) \in Nat /\ Len(spent'[q][x]) \in Nat
                                          /\ Len(spent[q][x]) <= Len(spent'[q][x])
    BY <2>3, LedgersGrow DEF RouterInv
  <2>5. /\ spent \in [Runs -> [Budgeted -> Seq(Nat \union {NoCeiling})]]
        /\ spent' \in [Runs -> [Budgeted -> Seq(Nat \union {NoCeiling})]]
    BY <2>4 DEF RouterInv, LedgerTypeOK
  <2>6. spent'[r][p] # <<>>
    <3>1. spent'[r][p] = Append(spent[r][p], ceiling[p])
      BY <2>1, <2>2, <2>5 DEF Consume, RecordConsumption
    <3>2. spent[r][p] \in Seq(Nat \union {NoCeiling}) /\ ceiling[p] \in Nat \union {NoCeiling}
      BY <2>2, <2>5 DEF RouterInv, LedgerTypeOK
    <3>3. Append(spent[r][p], ceiling[p]) # <<>>
      BY <3>2, AppendIsLonger
    <3> QED BY <3>1, <3>3
  <2>7. \A x \in Providers : spent[r][x] # <<>> => spent'[r][x] # <<>>
    <3> SUFFICES ASSUME NEW x \in Providers, spent[r][x] # <<>>, spent'[r][x] = <<>> PROVE FALSE
      OBVIOUS
    <3>1. x \in Budgeted /\ spent[r][x] \in Seq(Nat \union {NoCeiling})
      BY <2>5, RouterTypes
    <3>2. Len(spent[r][x]) > 0 /\ Len(spent'[r][x]) = 0
      BY <3>1
    <3> QED BY <2>4, <3>1, <3>2
  <2>8. Successor(c) = NoProvider <=> Len(L) = 1
    <3>1. Len(L) # 1 => L[2] \in Providers
      BY <1>1, <1>2, SecondOf
    <3> QED BY <3>1, RouterTypes DEF Successor
  <2> DEFINE then == IF Len(L) = 1 THEN "stopping" ELSE "trying"
             row == [router[c] EXCEPT !.left = Tail(L), !.pc = then]
  <2>9. router' = [router EXCEPT ![c].left = Tail(L), ![c].pc = then]
    BY <1>1, <2>1, <2>8
  <2>10. /\ Tale(asked[r], attempts[r], fallbacks[r], spent'[r])
         /\ Standing(then, Tail(L), asked[r], attempts[r], fallbacks[r], spent'[r], run[r])
    <3>1. Standing("decided", L, asked[r], attempts[r], fallbacks[r], spent[r], run[r])
      BY <1>1, <1>2
    <3>2. spent'[r][L[1]] # <<>> /\ NoProvider \notin Providers
      BY <1>2, <2>6, RouterTypes
    <3>3. L \in Seq(Providers) /\ asked[r] \in Seq(Providers) /\ Tale(asked[r], attempts[r], fallbacks[r], spent[r])
      BY <1>1
    <3> HIDE DEF L
    <3> QED BY <2>7, <3>1, <3>2, <3>3, TaleCharged
  <2>11. then \in RouterSteps /\ then # "idle" /\ Tail(L) \in Seq(Providers)
    BY <1>1, <1>2 DEF RouterSteps
  <2>12. /\ row \in RouterRow /\ row.run = r /\ row.pc = then /\ row.left = Tail(L)
         /\ router' = [router EXCEPT ![c] = row]
    BY <1>1, <2>9, <2>11 DEF RouterRow
  <2> HIDE DEF row, then
  <2>13. FailoverTypeOK'
    BY <1>1, <1>3, <2>12 DEF RouterInv, FailoverTypeOK, RouterRow
  <2> DEFINE M == Tail(L)
  <2>14. Standing(row.pc, row.left, asked'[r], attempts'[r], fallbacks'[r], spent'[r], run'[r])
    BY <1>4, <2>10, <2>12
  <2>15. Tale(asked'[r], attempts'[r], fallbacks'[r], spent'[r])
    BY <1>4, <2>10
  <2>16. row.pc # "idle"
    BY <2>11, <2>12
  <2> HIDE DEF L, p, M
  <2> QED BY <1>1, <1>4, <2>4, <2>12, <2>13, <2>14, <2>15, <2>16, RouterKept
<1> QED BY <1>5, <1>6

(* A caller that moves its run. *)
LEMMA RunMoved ==
  ASSUME RouterInv, NEW c \in Callers, NEW r \in Runs, RunMove(r), run'[r] # "absent",
         \A q \in Runs \ {r} : run'[q] = run[q],
         UNCHANGED <<ledgers, cooled, attempts, fallbacks, asked>>,
         router[c].run = r \/ run[r] = "absent",
         NEW row \in RouterRow, row.run = r, row.pc # "idle", router' = [router EXCEPT ![c] = row],
         Standing(row.pc, row.left, asked[r], attempts[r], fallbacks[r], spent[r], run'[r])
  PROVE  RouterInv'
<1>1. TypeOK'
  BY MovesKeepType DEF RouterInv
<1>2. FailoverTypeOK'
  BY DEF RouterInv, FailoverTypeOK, RouterRow
<1>3. /\ LedgerTypeOK' /\ ChargesAreWithinCeilings' /\ UNCHANGED spent
      /\ \A q \in Runs, x \in Budgeted : Len(spent[q][x]) <= Len(spent'[q][x])
  BY LedgersAtRest
<1>4. UNCHANGED <<attempts, fallbacks, asked>> /\ TaleOf(r)
  BY DEF RouterInv
<1> QED BY <1>1, <1>2, <1>3, <1>4, RouterKept DEF TaleOf

LEMMA RouterEnds ==
  ASSUME RouterInv, NEW c \in Callers, SafeStop(c) \/ Complete(c)
  PROVE  RouterInv'
<1>1. PICK r \in Runs :
           /\ router[c].run = r /\ run[r] # "absent" /\ Tale(asked[r], attempts[r], fallbacks[r], spent[r])
           /\ Standing(router[c].pc, router[c].left, asked[r], attempts[r], fallbacks[r], spent[r], run[r])
           /\ router[c] \in RouterRow /\ router \in [Callers -> RouterRow]
           /\ asked[r] \in Seq(Providers) /\ attempts[r] \in Seq(AttemptRow)
           /\ fallbacks[r] \in Seq(FallbackRow) /\ router[c].left \in Seq(Providers)
  BY CallerFacts DEF SafeStop, Complete, RouterAt
<1>2. run \in [Runs -> RUN_STATES \union {"absent"}] /\ UNCHANGED <<ledgers, cooled, attempts, fallbacks, asked>>
  BY DEF RouterInv, TypeOK, SafeStop, Complete
<1>3. ASSUME NEW pc \in {"safe_stopped", "completed"}, RouterGoto(c, pc), RunMove(r),
             run' = [run EXCEPT ![r] = pc],
             Standing(pc, router[c].left, asked[r], attempts[r], fallbacks[r], spent[r], pc)
      PROVE  RouterInv'
  <2> DEFINE row == [router[c] EXCEPT !.pc = pc]
  <2>1. /\ row \in RouterRow /\ row.run = r /\ row.pc = pc /\ row.left = router[c].left
        /\ router' = [router EXCEPT ![c] = row] /\ row.pc # "idle"
    BY <1>1, <1>3 DEF RouterGoto, RouterRow, RouterSteps
  <2> HIDE DEF row
  <2>2. run'[r] = pc /\ run'[r] # "absent" /\ \A q \in Runs \ {r} : run'[q] = run[q]
    BY <1>2, <1>3
  <2>3. Standing(row.pc, row.left, asked[r], attempts[r], fallbacks[r], spent[r], run'[r])
    BY <1>3, <2>1, <2>2
  <2> QED BY <1>1, <1>2, <1>3, <2>1, <2>2, <2>3, RunMoved
<1>4. CASE SafeStop(c)
  <2>1. /\ SafeStopRun(r) /\ RouterGoto(c, "safe_stopped") /\ router[c].pc \in {"stopping", "exhausted"}
    BY <1>1, <1>4 DEF SafeStop
  <2>2. run' = [run EXCEPT ![r] = "safe_stopped"] /\ RunMove(r)
    BY <2>1 DEF SafeStopRun, SetRunStatus, RunMove
  <2>3. Standing("safe_stopped", router[c].left, asked[r], attempts[r], fallbacks[r], spent[r], "safe_stopped")
    BY <1>1, <2>1 DEF Standing, Unasked, Turning, Recorded
  <2> QED BY <1>3, <2>1, <2>2, <2>3
<1>5. CASE Complete(c) /\ \E v \in Values : CompleteRun(r, v)
  <2>1. RouterGoto(c, "completed") /\ router[c].pc = "answered"
    BY <1>1, <1>5 DEF Complete, RouterAt, CompleteRun
  <2>2. run' = [run EXCEPT ![r] = "completed"] /\ RunMove(r)
    BY <1>5 DEF CompleteRun, SetRunStatus, RunMove
  <2>3. Standing("completed", router[c].left, asked[r], attempts[r], fallbacks[r], spent[r], "completed")
    BY <1>1, <2>1 DEF Standing, Unasked, Turning, Recorded
  <2> QED BY <1>3, <2>1, <2>2, <2>3
<1>6. CASE Complete(c) /\ ~(\E v \in Values : CompleteRun(r, v))
  <2>1. RouterGoto(c, "raised") /\ UNCHANGED vars
    BY <1>1, <1>6 DEF Complete
  <2> DEFINE row == [router[c] EXCEPT !.pc = "raised"]
  <2>2. /\ row \in RouterRow /\ row.run = r /\ row.pc = "raised"
        /\ router' = [router EXCEPT ![c] = row] /\ row.pc # "idle"
    BY <1>1, <2>1 DEF RouterGoto, RouterRow, RouterSteps
  <2> HIDE DEF row
  <2>3. Standing(row.pc, row.left, asked[r], attempts[r], fallbacks[r], spent[r], run[r])
    BY <2>2 DEF Standing, Unasked, Turning, Recorded
  <2> QED BY <1>1, <1>2, <2>1, <2>2, <2>3, RowKept
<1> QED BY <1>4, <1>5, <1>6

LEMMA RouterPrepares ==
  ASSUME RouterInv, NEW c \in Callers, Prepare(c)
  PROVE  RouterInv'
<1>1. /\ run \in [Runs -> RUN_STATES \union {"absent"}]
      /\ UNCHANGED <<ledgers, cooled, attempts, fallbacks, asked>>
      /\ router[c] \in RouterRow /\ router \in [Callers -> RouterRow]
  BY DEF RouterInv, TypeOK, Prepare, FailoverTypeOK, RouterRow
<1>2. ASSUME NEW r \in Runs, CreateRun(r, NoRun),
             router' = [router EXCEPT ![c].pc = "created", ![c].run = r]
      PROVE  RouterInv'
  <2> DEFINE row == [router[c] EXCEPT !.pc = "created", !.run = r]
  <2>1. /\ row \in RouterRow /\ row.run = r /\ row.pc = "created"
        /\ router' = [router EXCEPT ![c] = row] /\ row.pc # "idle"
    BY <1>1, <1>2 DEF RouterRow, RouterSteps
  <2> HIDE DEF row
  <2>2. /\ run[r] = "absent" /\ run'[r] = "created" /\ run'[r] # "absent" /\ RunMove(r)
        /\ \A q \in Runs \ {r} : run'[q] = run[q]
    BY <1>1, <1>2 DEF CreateRun, RunMove
  <2>3. asked[r] = <<>> /\ attempts[r] = <<>> /\ fallbacks[r] = <<>>
    BY <2>2 DEF RouterInv
  <2>4. Standing(row.pc, row.left, asked[r], attempts[r], fallbacks[r], spent[r], run'[r])
    BY <2>1, <2>3 DEF Standing, Unasked, Turning, Recorded
  <2> QED BY <1>1, <2>1, <2>2, <2>4, RunMoved
<1>3. CASE RouterAt(c, "created")
  <2>1. PICK r \in Runs :
             /\ router[c].run = r /\ run[r] # "absent" /\ Tale(asked[r], attempts[r], fallbacks[r], spent[r])
             /\ Standing(router[c].pc, router[c].left, asked[r], attempts[r], fallbacks[r], spent[r], run[r])
             /\ router[c] \in RouterRow /\ router \in [Callers -> RouterRow]
             /\ asked[r] \in Seq(Providers) /\ attempts[r] \in Seq(AttemptRow)
             /\ fallbacks[r] \in Seq(FallbackRow) /\ router[c].left \in Seq(Providers)
    BY <1>3, CallerFacts DEF RouterAt
  <2>2. asked[r] = <<>> /\ attempts[r] = <<>> /\ fallbacks[r] = <<>>
    BY <1>3, <2>1 DEF RouterAt, Standing, Unasked
  <2>3. ASSUME StartRun(r), RouterGoto(c, "started") PROVE RouterInv'
    <3> DEFINE row == [router[c] EXCEPT !.pc = "started"]
    <3>1. /\ row \in RouterRow /\ row.run = r /\ row.pc = "started"
          /\ router' = [router EXCEPT ![c] = row] /\ row.pc # "idle"
      BY <2>1, <2>3 DEF RouterGoto, RouterRow, RouterSteps
    <3> HIDE DEF row
    <3>2. run'[r] # "absent" /\ RunMove(r) /\ \A q \in Runs \ {r} : run'[q] = run[q]
      BY <1>1, <2>3 DEF StartRun, SetRunStatus, RunMove
    <3>3. Standing(row.pc, row.left, asked[r], attempts[r], fallbacks[r], spent[r], run'[r])
      BY <2>2, <3>1 DEF Standing, Unasked, Turning, Recorded
    <3> QED BY <1>1, <2>1, <3>1, <3>2, <3>3, RunMoved
  <2>4. ASSUME RouterGoto(c, "raised"), UNCHANGED vars PROVE RouterInv'
    <3> DEFINE row == [router[c] EXCEPT !.pc = "raised"]
    <3>1. /\ row \in RouterRow /\ row.run = r /\ row.pc = "raised"
          /\ router' = [router EXCEPT ![c] = row] /\ row.pc # "idle"
      BY <2>1, <2>4 DEF RouterGoto, RouterRow, RouterSteps
    <3> HIDE DEF row
    <3>2. Standing(row.pc, row.left, asked[r], attempts[r], fallbacks[r], spent[r], run[r])
      BY <3>1 DEF Standing, Unasked, Turning, Recorded
    <3> QED BY <1>1, <2>1, <2>4, <3>1, <3>2, RowKept
  <2> QED BY <1>3, <2>1, <2>3, <2>4 DEF Prepare, RouterAt
<1> QED BY <1>2, <1>3 DEF Prepare

LEMMA RouterInvPreserved ==
  ASSUME RouterInv, [FailoverNext]_<<vars, ledgers, failoverVars>>
  PROVE  RouterInv'
<1>1. ASSUME UNCHANGED failoverVars, TypeOK', LedgerTypeOK', ChargesAreWithinCeilings', UNCHANGED spent,
             \A q \in Runs : /\ run'[q] = "absent" <=> run[q] = "absent"
                             /\ run[q] \in {"completed", "safe_stopped"} => run'[q] = run[q]
      PROVE  RouterInv'
  <2>1. UNCHANGED <<cooled, attempts, fallbacks, router, asked>>
    BY <1>1 DEF failoverVars
  <2>2. FailoverTypeOK'
    BY <2>1 DEF RouterInv, FailoverTypeOK
  <2>3. ASSUME NEW c \in Callers, router[c].pc # "idle" PROVE StandingOf(c)'
    <3>1. PICK r \in Runs :
            /\ router[c].run = r /\ asked[r] \in Seq(Providers)
            /\ Standing(router[c].pc, router[c].left, asked[r], attempts[r], fallbacks[r], spent[r], run[r])
      BY <2>3, CallerFacts
    <3>2. run[r] \in {"completed", "safe_stopped"} => run'[r] = run[r]
      BY <1>1
    <3>3. Standing(router[c].pc, router[c].left, asked[r], attempts[r], fallbacks[r], spent[r], run'[r])
      BY <3>1, <3>2, StandingKept
    <3> QED BY <1>1, <2>1, <3>1, <3>3 DEF StandingOf
  <2> QED BY <1>1, <2>1, <2>2, <2>3 DEF RouterInv, RouterAt, TaleOf
<1>2. CASE UNCHANGED <<vars, ledgers, failoverVars>>
  <2>1. TypeOK' /\ LedgerTypeOK' /\ ChargesAreWithinCeilings' /\ UNCHANGED <<spent, run>>
    BY <1>2 DEF RouterInv, vars, ledgers, TypeOK, LedgerTypeOK, ChargesAreWithinCeilings
  <2> QED BY <1>1, <1>2, <2>1
<1>3. ASSUME NEW r \in Runs, StopRouted(r) PROVE RouterInv'
  <2>1. TypeOK'
    BY <1>3, MovesKeepType DEF StopRouted, RunMove, RouterInv
  <2>2. UNCHANGED ledgers /\ UNCHANGED failoverVars
    BY <1>3 DEF StopRouted
  <2>3. LedgerTypeOK' /\ ChargesAreWithinCeilings' /\ UNCHANGED spent
    BY <2>2, LedgersAtRest
  <2>4. \A q \in Runs : /\ run'[q] = "absent" <=> run[q] = "absent"
                        /\ run[q] \in {"completed", "safe_stopped"} => run'[q] = run[q]
    BY <1>3 DEF StopRouted, SafeStopRun, SetRunStatus, RouterInv, TypeOK
  <2> QED BY <1>1, <2>1, <2>2, <2>3, <2>4
<1>4. ASSUME NEW p \in Providers, NEW n \in Ceilings, DeclareRetries(p, n) PROVE RouterInv'
  <2>1. UNCHANGED vars /\ UNCHANGED failoverVars /\ DeclareBudget(p, n) /\ p \in Budgeted
    BY <1>4, RouterTypes DEF DeclareRetries
  <2>2. LedgerMove
    BY <2>1 DEF LedgerMove
  <2>3. LedgerTypeOK' /\ ChargesAreWithinCeilings'
    BY <2>2, LedgersGrow DEF RouterInv
  <2>4. UNCHANGED spent /\ UNCHANGED run /\ TypeOK'
    BY <2>1 DEF DeclareBudget, vars, RouterInv, TypeOK
  <2> QED BY <1>1, <2>1, <2>3, <2>4
<1>5. ASSUME NEW c \in Callers,
             Prepare(c) \/ LoadCooldowns(c) \/ Route(c) \/ Dispatch(c) \/ CountFailure(c)
             \/ RecordCooldown(c) \/ Decide(c) \/ Charge(c) \/ SafeStop(c) \/ CountSuccess(c)
             \/ Complete(c) \/ Die(c)
      PROVE  RouterInv'
  BY <1>5, RouterPrepares, RouterSteps1, RouterAsks, RouterCounts, RouterCools, RouterDecides,
     RouterCharges, RouterEnds
<1> QED BY <1>2, <1>3, <1>4, <1>5 DEF FailoverNext

LEMMA RouterInvInit == Init /\ LedgerInit /\ FailoverInit => RouterInv
<1> SUFFICES ASSUME Init, LedgerInit, FailoverInit PROVE RouterInv
  OBVIOUS
<1>1. TypeOK /\ LedgerTypeOK /\ ChargesAreWithinCeilings
  BY InitType DEF LedgerInit, LedgerTypeOK, ChargesAreWithinCeilings
<1>2. FailoverTypeOK
  BY FailoverAssumption DEF FailoverInit, FailoverTypeOK, RouterSteps, Times
<1>3. ASSUME NEW r \in Runs PROVE TaleOf(r)
  <2>1. asked[r] = <<>> /\ attempts[r] = <<>> /\ fallbacks[r] = <<>>
    BY <1>3 DEF FailoverInit
  <2>2. Len(<<>>) = 0
    OBVIOUS
  <2>3. NoRepeat(<<>>)
    BY <2>2 DEF NoRepeat
  <2> QED BY <2>1, <2>2, <2>3 DEF TaleOf, Tale
<1>4. \A c \in Callers : router[c].pc = "idle" /\ router[c].run \notin Runs
  BY OwnerAssumption DEF FailoverInit
<1> QED BY <1>1, <1>2, <1>3, <1>4 DEF RouterInv, RouterAt, FailoverInit

LEMMA RouterInvariant == FailoverSpec => []RouterInv
<1>1. RouterInv /\ [FailoverNext]_<<vars, ledgers, failoverVars>> => RouterInv'
  BY RouterInvPreserved
<1> QED BY <1>1, RouterInvInit, PTL DEF FailoverSpec

(* The attempt, fallback and retry-budget ledgers tell every request, also *)
(* of a router that died or whose run others stopped, and a request that   *)
(* was answered or given up left its run as they say (router.py, route).   *)
THEOREM RequestsAreTold == FailoverSpec => []RequestsAreAccounted
<1>1. RouterInv => RequestsAreAccounted
  <2> SUFFICES ASSUME RouterInv PROVE LedgersTellTheRequest /\ AnswersAreAccounted
    BY DEF RequestsAreAccounted
  <2>1. LedgersTellTheRequest
    <3> SUFFICES ASSUME NEW r \in Runs
                 PROVE  /\ IsInjective(asked[r])
                        /\ Len(asked[r]) - Len(attempts[r]) \in {0, 1}
                        /\ \A n \in DOMAIN attempts[r] :
                             attempts[r][n].provider = asked[r][n] /\ attempts[r][n].number = n
                        /\ \A n \in 1 .. Len(asked[r]) - 1 :
                             /\ attempts[r][n].status = "failed"
                             /\ spent[r][asked[r][n]] # <<>>
                             /\ fallbacks[r][n].from = asked[r][n] /\ fallbacks[r][n].to = asked[r][n + 1]
      BY DEF LedgersTellTheRequest
    <3>1. /\ Tale(asked[r], attempts[r], fallbacks[r], spent[r])
          /\ asked[r] \in Seq(Providers) /\ attempts[r] \in Seq(AttemptRow)
      BY DEF RouterInv, TaleOf, FailoverTypeOK
    <3>2. /\ DOMAIN asked[r] = 1 .. Len(asked[r]) /\ DOMAIN attempts[r] = 1 .. Len(attempts[r])
          /\ Len(asked[r]) \in Nat /\ Len(attempts[r]) \in Nat
      BY <3>1
    <3>3. IsInjective(asked[r])
      BY <3>1, <3>2 DEF Tale, NoRepeat, IsInjective
    <3> QED BY <3>1, <3>2, <3>3 DEF Tale, Turned
  <2>2. AnswersAreAccounted
    <3> SUFFICES ASSUME NEW c \in Callers, router[c].pc \in {"completed", "safe_stopped"}
                 PROVE  LET r == router[c].run
                        IN  /\ RouterAt(c, "completed") =>
                                 run[r] = "completed" /\ Last(attempts[r]).status = "succeeded"
                            /\ RouterAt(c, "safe_stopped") =>
                                 /\ run[r] = "safe_stopped"
                                 /\ Len(attempts[r]) = Len(asked[r])
                                 /\ Len(fallbacks[r]) = IF asked[r] = <<>> THEN 1 ELSE Len(asked[r])
                                 /\ \A n \in DOMAIN attempts[r] : attempts[r][n].status = "failed"
      BY DEF AnswersAreAccounted, RouterAt
    <3>1. PICK r \in Runs :
               /\ router[c].run = r /\ run[r] # "absent" /\ Tale(asked[r], attempts[r], fallbacks[r], spent[r])
               /\ Standing(router[c].pc, router[c].left, asked[r], attempts[r], fallbacks[r], spent[r], run[r])
               /\ router[c] \in RouterRow /\ router \in [Callers -> RouterRow]
               /\ asked[r] \in Seq(Providers) /\ attempts[r] \in Seq(AttemptRow)
               /\ fallbacks[r] \in Seq(FallbackRow) /\ router[c].left \in Seq(Providers)
      BY CallerFacts
    <3>2. CASE router[c].pc = "completed"
      BY <3>1, <3>2 DEF Standing, Last, RouterAt
    <3>3. CASE router[c].pc = "safe_stopped"
      <4>1. /\ run[r] = "safe_stopped" /\ Len(attempts[r]) = Len(asked[r])
            /\ Len(fallbacks[r]) = IF Len(asked[r]) = 0 THEN 1 ELSE Len(asked[r])
            /\ Len(asked[r]) > 0 => attempts[r][Len(asked[r])].status = "failed"
        BY <3>1, <3>3 DEF Standing, Recorded
      <4>2. DOMAIN attempts[r] = 1 .. Len(attempts[r]) /\ Len(attempts[r]) \in Nat
        BY <3>1
      <4>3. asked[r] = <<>> <=> Len(asked[r]) = 0
        BY <3>1
      <4>4. \A n \in 1 .. Len(asked[r]) - 1 : attempts[r][n].status = "failed"
        BY <3>1 DEF Tale, Turned
      <4>5. \A n \in DOMAIN attempts[r] : attempts[r][n].status = "failed"
        BY <4>1, <4>2, <4>4
      <4> QED BY <3>1, <3>3, <4>1, <4>3, <4>5 DEF RouterAt
    <3> QED BY <3>2, <3>3
  <2> QED BY <2>1, <2>2
<1> QED BY <1>1, RouterInvariant, PTL

(* Callers of the router are clients of the owner. *)
LEMMA CallersAreClients ==
  ASSUME RouterInv, [FailoverNext]_<<vars, ledgers, failoverVars>>
  PROVE  ClientStep
<1>1. UNCHANGED vars => ClientStep
  BY DEF ClientStep
<1>2. ASSUME NEW r \in Runs, StopRouted(r) PROVE ClientStep
  BY <1>2, MovesAreAClients DEF StopRouted, RunMove
<1>3. ASSUME NEW c \in Callers, Prepare(c) \/ SafeStop(c) \/ Complete(c) PROVE ClientStep
  <2>1. router[c].pc # "idle" => router[c].run \in Runs
    BY DEF RouterInv, RouterAt
  <2>2. CASE Prepare(c)
    BY <1>1, <2>1, <2>2, MovesAreAClients DEF Prepare, RunMove, RouterAt
  <2>3. CASE SafeStop(c)
    BY <2>1, <2>3, MovesAreAClients DEF SafeStop, RunMove
  <2>4. CASE Complete(c)
    BY <1>1, <2>1, <2>4, MovesAreAClients DEF Complete, RunMove, RouterAt
  <2> QED BY <1>3, <2>2, <2>3, <2>4
<1>4. ASSUME NEW c \in Callers,
             LoadCooldowns(c) \/ Route(c) \/ Dispatch(c) \/ CountFailure(c) \/ RecordCooldown(c)
             \/ Decide(c) \/ Charge(c) \/ CountSuccess(c) \/ Die(c)
      PROVE  UNCHANGED vars
  BY <1>4 DEF LoadCooldowns, Route, Dispatch, CountFailure, RecordCooldown, Decide, Charge,
     CountSuccess, Die
<1>5. (\E p \in Providers, n \in Ceilings : DeclareRetries(p, n))
      \/ UNCHANGED <<vars, ledgers, failoverVars>> => UNCHANGED vars
  BY DEF DeclareRetries
<1> QED BY <1>1, <1>2, <1>3, <1>4, <1>5 DEF FailoverNext

(* Every invariant of the owner holds under routed requests, though their  *)
(* runs are stopped by others while a provider is asked.                   *)
THEOREM CallersKeepTheOwner ==
  FailoverSpec => /\ []OwnerInv
                 /\ TerminalRunsLeaveOnlyByRestart /\ SettledEffectsAreFinal /\ DoubtStopsTheRun
<1>1. Init /\ LedgerInit /\ FailoverInit => OwnerInv
  BY OwnerStarts, ClientBegins
<1>2. OwnerInv /\ RouterInv /\ [FailoverNext]_<<vars, ledgers, failoverVars>> => OwnerInv'
  BY CallersAreClients, ClientKeepsOwner
<1>3. FailoverSpec => []RouterInv
  BY RouterInvariant
<1>4. FailoverSpec => []OwnerInv
  BY <1>1, <1>2, <1>3, PTL DEF FailoverSpec
<1>5. OwnerInv /\ RouterInv /\ [FailoverNext]_<<vars, ledgers, failoverVars>> =>
        /\ [\A r \in Runs : run[r] \in Terminal /\ run'[r] # run[r] =>
              /\ run'[r] = "running"
              /\ UNCHANGED <<link, approval, effect, exposure, result, suspected>>]_vars
        /\ [\A o \in Operations : effect[o].status \in {"completed", "unknown"} =>
              effect'[o] = effect[o]]_vars
        /\ [\A o \in Operations : effect'[o].status # effect[o].status =>
              /\ effect'[o].status = "uncertain" => run'[effect'[o].run] = "recovering"
              /\ effect'[o].status = "unknown" => run'[effect'[o].run] = "safe_stopped"
              /\ effect'[o].status = "claimed" => run'[effect'[o].run] = "running"]_vars
  BY CallersAreClients, ClientKeepsActions
<1>6. FailoverSpec => TerminalRunsLeaveOnlyByRestart /\ SettledEffectsAreFinal /\ DoubtStopsTheRun
  BY <1>3, <1>4, <1>5, PTL
  DEF FailoverSpec, TerminalRunsLeaveOnlyByRestart, SettledEffectsAreFinal, DoubtStopsTheRun
<1> QED BY <1>4, <1>6
=============================================================================
