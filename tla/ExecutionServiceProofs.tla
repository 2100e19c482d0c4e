----------------------- MODULE ExecutionServiceProofs -----------------------
(***************************************************************************)
(* Proofs about the execution service of the workbench server, for every   *)
(* set of runs, profiles, requests and remote or lingering operations.     *)
(* The service allows one attempt for each effect (service.go, Confirm:    *)
(* MaxAttempts 1), and so do the theorems about it.  That its owner lives  *)
(* by the protocol of one effect holds for any number of attempts.         *)
(***************************************************************************)
EXTENDS ExecutionService, TLAPS

EffectRow == [status : EffectStatus, attempt : 0..MaxAttempts, count : 0..MaxCount]
ApprovalRow == [status : {"none", "pending", "approved", "denied", "consumed"}, expired : BOOLEAN]

TypesHold ==
    /\ runs \in [Runs -> RunStatus \cup {"absent"}]
    /\ approvals \in [Operations -> ApprovalRow]
    /\ effects \in [Operations -> EffectRow]
    /\ calls \in [Callers -> CallStates]
    /\ starts \in [Operations -> Nat]

\* a request that made the claim of its operation
Owns(c) == calls[c].pc \notin {"idle", "requested"}
\* where the effect has been claimed and nothing is reported yet
InHand == {"claimed", "running", "ended", "unlisted", "listed"}

\* the rows of an operation: what has been spent, started and counted
RowsAgree(o) ==
    /\ effects[o].status = "none" => effects[o].attempt = 0 /\ starts[o] = 0
    /\ effects[o].status # "none" =>
           effects[o].attempt = 1 /\ approvals[o].status = "consumed"
    /\ effects[o].count = IF effects[o].status = "completed" THEN 1 ELSE 0
    /\ starts[o] <= 1

\* what a request knows of the operation it has in hand
CallStands(c) ==
    Owns(c) =>
        /\ effects[calls[c].op].status # "none"
        /\ calls[c].pc = "claimed" => starts[calls[c].op] = 0
        /\ calls[c].pc \in InHand => effects[calls[c].op].status = "claimed"

OneOwner ==
    \A c, d \in Callers : Owns(c) /\ Owns(d) /\ calls[c].op = calls[d].op => c = d

ServiceInv ==
    /\ TypesHold
    /\ \A o \in Operations : RowsAgree(o)
    /\ \A c \in Callers : CallStands(c)
    /\ OneOwner
    /\ \A r \in Runs : runs[r] = "completed" => OpenEffects(r) = {}

-----------------------------------------------------------------------------
(* The steps that leave effects and starts alone. *)

LEMMA StatusWritten ==
  ASSUME TypesHold, NEW r \in Runs, NEW new \in RunStatus, SetRunStatus(r, new)
  PROVE  /\ runs' \in [Runs -> RunStatus \cup {"absent"}]
         /\ runs'[r] = new /\ \A q \in Runs \ {r} : runs'[q] = runs[q]
BY DEF TypesHold, SetRunStatus

\* a run that comes to be completed has no open effect
LEMMA RunsMove ==
  ASSUME TypesHold, NEW r \in Runs,
         Handler(r) \/ RestartRun(r) \/ WaitForApproval(r)
         \/ \E e \in {"covers", "excludes"} : RecordDeclaredExposure(r, e)
  PROVE  /\ runs' \in [Runs -> RunStatus \cup {"absent"}]
         /\ UNCHANGED <<effects, approvals>>
         /\ \A q \in Runs : runs'[q] = "completed" =>
                runs[q] = "completed" \/ OpenEffects(q) = {}
<1> DEFINE Goal == /\ runs' \in [Runs -> RunStatus \cup {"absent"}]
                   /\ UNCHANGED <<effects, approvals>>
                   /\ \A q \in Runs : runs'[q] = "completed" =>
                        runs[q] = "completed" \/ OpenEffects(q) = {}
<1>1. ASSUME NEW new \in RunStatus, new # "completed" \/ OpenEffects(r) = {},
             SetRunStatus(r, new), UNCHANGED <<effects, approvals>>
      PROVE  Goal
  BY <1>1, StatusWritten
<1>2. ASSUME runs' = runs, UNCHANGED <<effects, approvals>> PROVE Goal
  BY <1>2 DEF TypesHold
<1>3. {"running", "completed", "failed", "safe_stopped", "recovering", "waiting_approval"} \subseteq RunStatus
  BY DEF RunStatus
<1>4. CASE StartRun(r) \/ SafeStopRun(r) \/ BeginRecovery(r) \/ StopOnViolation(r) \/ WaitForApproval(r)
  BY <1>1, <1>3, <1>4 DEF StartRun, SafeStopRun, BeginRecovery, StopOnViolation, WaitForApproval
<1>5. CASE CompleteRun(r)
  BY <1>1, <1>3, <1>5 DEF CompleteRun, CanComplete
<1>6. CASE FailRun(r)
  BY <1>1, <1>3, <1>6 DEF FailRun, FailedStatus
<1>7. CASE LinkedRunAppears(r) \/ \E e \in {"covers", "excludes"} : RecordDeclaredExposure(r, e)
  BY <1>2, <1>7 DEF LinkedRunAppears, RecordDeclaredExposure
<1>8. CASE RestartRun(r) \/ \E link \in {"intact", "broken"} : CreateRun(r, link)
  BY <1>8 DEF RestartRun, CreateRun, TypesHold, RunStatus
<1> QED BY <1>4, <1>5, <1>6, <1>7, <1>8 DEF Handler, Transition

LEMMA QuietSteps ==
  ASSUME ServiceInv, TypesHold', effects' = effects, starts' = starts,
         \A o \in Operations :
            approvals[o].status = "consumed" => approvals'[o].status = "consumed",
         \A r \in Runs : runs'[r] = "completed" =>
            runs[r] = "completed" \/ OpenEffects(r) = {},
         \A c \in Callers : Owns(c)' =>
            /\ Owns(c) /\ calls'[c].op = calls[c].op
            /\ calls'[c].pc = "claimed" => calls[c].pc = "claimed"
            /\ calls'[c].pc \in InHand => calls[c].pc \in InHand
  PROVE  ServiceInv'
<1>1. \A o \in Operations : RowsAgree(o)'
  BY DEF ServiceInv, RowsAgree
<1>2. ASSUME NEW c \in Callers, Owns(c)' PROVE CallStands(c)'
  BY <1>2 DEF ServiceInv, CallStands
<1>3. \A c \in Callers : CallStands(c)'
  BY <1>2 DEF CallStands
<1>4. OneOwner'
  BY DEF ServiceInv, OneOwner
<1>5. \A r \in Runs : OpenEffects(r)' = OpenEffects(r)
  BY DEF OpenEffects
<1>6. \A r \in Runs : (runs[r] = "completed" => OpenEffects(r) = {})'
  BY <1>5 DEF ServiceInv
<1> QED BY <1>1, <1>3, <1>4, <1>6 DEF ServiceInv

LEMMA ReviewsMove ==
  ASSUME TypesHold, NEW o \in Operations, Review(o) \/ RequestApproval(o)
  PROVE  /\ approvals' \in [Operations -> ApprovalRow]
         /\ UNCHANGED <<runs, effects>>
         /\ \A p \in Operations :
               approvals[p].status = "consumed" => approvals'[p].status = "consumed"
<1> DEFINE Row == [status : {"none", "pending", "approved", "denied", "consumed"}, expired : BOOLEAN]
<1>1. approvals \in [Operations -> Row]
  BY DEF TypesHold, ApprovalRow
<1>2. ASSUME NEW s \in {"pending", "approved", "denied"},
             approvals[o].status # "consumed",
             approvals' = [approvals EXCEPT ![o].status = s]
      PROVE  /\ approvals' \in [Operations -> Row]
             /\ \A p \in Operations :
                   approvals[p].status = "consumed" => approvals'[p].status = "consumed"
  BY <1>1, <1>2
<1>3. CASE ApprovalExpires(o)
  BY <1>1, <1>3 DEF ApprovalExpires, ApprovalRow
<1>4. CASE Approve(o) \/ DenyApproval(o)
  BY <1>2, <1>4 DEF Approve, DenyApproval, ApprovalRow
<1>5. CASE RequestApproval(o)
  <2>1. CASE approvals[o].status = "none"
    BY <1>2, <1>5, <2>1 DEF RequestApproval, ApprovalRow
  <2>2. CASE approvals[o].status # "none"
    BY <1>1, <1>5, <2>2 DEF RequestApproval, ApprovalRow
  <2> QED BY <2>1, <2>2
<1> QED BY <1>3, <1>4, <1>5 DEF Review

-----------------------------------------------------------------------------
(* The states of a request. *)

LEMMA CallShapes ==
  ASSUME NEW call \in CallStates
  PROVE  /\ call.pc # "idle" => call.op \in Operations
         /\ call.pc \in {"idle", "requested", "claimed", "running", "ended", "unlisted", "listed",
                        "reported", "unreported"}
         /\ call.pc = "claimed" => /\ [call EXCEPT !.pc = "running"] \in CallStates
                                   /\ [call EXCEPT !.pc = "running"].pc = "running"
                                   /\ [call EXCEPT !.pc = "running"].op = call.op
BY DEF CallStates, Idle

LEMMA EndedCallShapes ==
  ASSUME NEW call \in CallStates,
         NEW pc \in {"ended", "unlisted", "listed", "reported", "unreported"},
         call.pc \in {"ended", "unlisted", "listed", "reported", "unreported"}
  PROVE  /\ [call EXCEPT !.pc = pc] \in CallStates
         /\ [call EXCEPT !.pc = pc].pc = pc
         /\ [call EXCEPT !.pc = pc].op = call.op
BY DEF CallStates, Idle

\* a request moves to a next state, and the others stay
LEMMA OneCallMoves ==
  ASSUME TypesHold, NEW c \in Callers, NEW state \in CallStates, GoTo(c, state)
  PROVE  /\ calls' \in [Callers -> CallStates]
         /\ calls'[c] = state /\ \A d \in Callers \ {c} : calls'[d] = calls[d]
BY DEF TypesHold, GoTo

LEMMA StatesOfCalls ==
  /\ Idle \in CallStates /\ Idle.pc = "idle"
  /\ \A o \in Operations, pc \in {"requested", "claimed", "running"} :
        [pc |-> pc, op |-> o] \in CallStates
  /\ \A o \in Operations, x \in Outcome : [pc |-> "ended", op |-> o, outcome |-> x] \in CallStates
BY DEF CallStates, Idle

-----------------------------------------------------------------------------
(* The steps of the server that claim, start and report nothing. *)

LEMMA OwnersQuietSteps ==
  ASSUME ServiceInv, UNCHANGED serviceVars,
         \/ \E r \in Runs : Handler(r) \/ RestartRun(r)
         \/ \E o \in Operations : Review(o)
         \/ Declaration
  PROVE  ServiceInv'
<1>1. TypesHold /\ UNCHANGED <<calls, starts>>
  BY DEF ServiceInv, serviceVars
<1>2. ASSUME NEW r \in Runs, Handler(r) \/ RestartRun(r)
             \/ \E e \in {"covers", "excludes"} : RecordDeclaredExposure(r, e)
      PROVE  ServiceInv'
  <2>1. /\ runs' \in [Runs -> RunStatus \cup {"absent"}]
        /\ UNCHANGED <<effects, approvals>>
        /\ \A q \in Runs : runs'[q] = "completed" =>
              runs[q] = "completed" \/ OpenEffects(q) = {}
    BY <1>1, <1>2, RunsMove
  <2>2. TypesHold'
    BY <1>1, <2>1 DEF TypesHold
  <2> QED BY <1>1, <2>1, <2>2, QuietSteps DEF Owns
<1>3. ASSUME NEW o \in Operations, Review(o) PROVE ServiceInv'
  <2>1. /\ approvals' \in [Operations -> ApprovalRow]
        /\ UNCHANGED <<runs, effects>>
        /\ \A p \in Operations :
              approvals[p].status = "consumed" => approvals'[p].status = "consumed"
    BY <1>1, <1>3, ReviewsMove
  <2>2. TypesHold'
    BY <1>1, <2>1 DEF TypesHold
  <2> QED BY <1>1, <2>1, <2>2, QuietSteps DEF Owns
<1> QED BY <1>2, <1>3 DEF Declaration

\* a request that is let go, or that goes on with what it has in hand
LEMMA CallsQuietSteps ==
  ASSUME ServiceInv, NEW c \in Callers, NEW state \in CallStates, GoTo(c, state),
         UNCHANGED <<effects, starts>>,
         runs' \in [Runs -> RunStatus \cup {"absent"}],
         approvals' \in [Operations -> ApprovalRow],
         \A o \in Operations :
            approvals[o].status = "consumed" => approvals'[o].status = "consumed",
         \A r \in Runs : runs'[r] = "completed" =>
            runs[r] = "completed" \/ OpenEffects(r) = {},
         state.pc \notin {"idle", "requested"} =>
            /\ Owns(c) /\ state.op = calls[c].op /\ state.pc # "claimed"
            /\ state.pc \in InHand => calls[c].pc \in InHand
  PROVE  ServiceInv'
<1>1. TypesHold
  BY DEF ServiceInv
<1>2. /\ calls' \in [Callers -> CallStates]
      /\ calls'[c] = state /\ \A d \in Callers \ {c} : calls'[d] = calls[d]
  BY <1>1, OneCallMoves
<1>3. TypesHold'
  BY <1>1, <1>2 DEF TypesHold
<1>4. \A d \in Callers : Owns(d)' =>
            /\ Owns(d) /\ calls'[d].op = calls[d].op
            /\ calls'[d].pc = "claimed" => calls[d].pc = "claimed"
            /\ calls'[d].pc \in InHand => calls[d].pc \in InHand
  BY <1>2 DEF Owns
<1> QED BY <1>3, <1>4, QuietSteps

LEMMA RequestSteps ==
  ASSUME ServiceInv, NEW c \in Callers,
         (\E o \in Operations : Request(c, o)) \/ RequestWaits(c) \/ RequestRefused(c)
  PROVE  ServiceInv'
<1>1. TypesHold /\ calls[c] \in CallStates
  BY DEF ServiceInv, TypesHold
<1>2. ASSUME NEW o \in Operations, Request(c, o) PROVE ServiceInv'
  <2>1. /\ approvals' \in [Operations -> ApprovalRow]
        /\ UNCHANGED <<runs, effects>>
        /\ \A p \in Operations :
              approvals[p].status = "consumed" => approvals'[p].status = "consumed"
    BY <1>1, <1>2, ReviewsMove DEF Request
  <2>2. /\ [pc |-> "requested", op |-> o] \in CallStates
        /\ GoTo(c, [pc |-> "requested", op |-> o]) /\ starts' = starts
    BY <1>2, StatesOfCalls DEF Request
  <2> QED BY <1>1, <2>1, <2>2, CallsQuietSteps DEF TypesHold
<1>3. CASE RequestWaits(c)
  <2>1. calls[c].op \in Operations
    BY <1>1, <1>3, CallShapes DEF RequestWaits, At
  <2>2. RunOf[calls[c].op] \in Runs
    BY <2>1, OwnerAssumption
  <2>3. WaitForApproval(RunOf[calls[c].op]) /\ GoTo(c, Idle) /\ starts' = starts
    BY <1>3 DEF RequestWaits
  <2> DEFINE r == RunOf[calls[c].op]
  <2>4. /\ runs' \in [Runs -> RunStatus \cup {"absent"}]
        /\ UNCHANGED <<effects, approvals>>
        /\ \A q \in Runs : runs'[q] = "completed" =>
              runs[q] = "completed" \/ OpenEffects(q) = {}
    BY <1>1, <2>2, <2>3, RunsMove
  <2> QED BY <1>1, <2>3, <2>4, StatesOfCalls, CallsQuietSteps DEF TypesHold
<1>4. CASE RequestRefused(c)
  <2>1. GoTo(c, Idle) /\ starts' = starts /\ UNCHANGED <<runs, approvals, effects>>
    BY <1>4 DEF RequestRefused, ownerVars
  <2> QED BY <1>1, <2>1, StatesOfCalls, CallsQuietSteps DEF TypesHold
<1> QED BY <1>2, <1>3, <1>4

LEMMA WaitingSteps ==
  ASSUME ServiceInv, NEW c \in Callers,
         StartFails(c) \/ (\E x \in Outcome : ProcessEnds(c, x)) \/ LookForExit(c) \/ RecordExit(c)
         \/ ReportRefused(c)
  PROVE  ServiceInv'
<1>1. TypesHold /\ calls[c] \in CallStates
  BY DEF ServiceInv, TypesHold
<1>2. UNCHANGED <<runs, approvals, effects, starts>>
  BY DEF StartFails, ProcessEnds, LookForExit, RecordExit, ReportRefused, ownerVars
<1>3. calls[c].pc \in InHand /\ Owns(c) /\ calls[c].op \in Operations
  BY <1>1, CallShapes DEF StartFails, ProcessEnds, LookForExit, RecordExit, ReportRefused, At, InHand, Owns
<1>4. \E state \in CallStates :
         GoTo(c, state) /\ state.op = calls[c].op /\ state.pc # "claimed"
  <2>1. ASSUME NEW x \in Outcome, GoTo(c, WithOutcome(c, "ended", x))
        PROVE  \E state \in CallStates :
                  GoTo(c, state) /\ state.op = calls[c].op /\ state.pc # "claimed"
    <3> DEFINE state == [pc |-> "ended", op |-> calls[c].op, outcome |-> x]
    <3>1. state \in CallStates
      BY <1>3, StatesOfCalls
    <3> QED BY <2>1, <3>1 DEF WithOutcome
  <2>2. ASSUME NEW pc \in {"unlisted", "listed", "unreported"}, GoTo(c, After(c, pc)),
               calls[c].pc \in {"ended", "unlisted", "listed"}
        PROVE  \E state \in CallStates :
                  GoTo(c, state) /\ state.op = calls[c].op /\ state.pc # "claimed"
    <3>1. pc \in {"ended", "unlisted", "listed", "reported", "unreported"}
      BY <2>2
    <3>2. calls[c].pc \in {"ended", "unlisted", "listed", "reported", "unreported"}
      BY <2>2
    <3>3. /\ After(c, pc) \in CallStates /\ After(c, pc).pc = pc
          /\ After(c, pc).op = calls[c].op
      BY <1>1, <3>1, <3>2, EndedCallShapes DEF After
    <3> QED BY <2>2, <3>3
  <2>3. CASE StartFails(c) \/ \E x \in Outcome : ProcessEnds(c, x)
    BY <2>1, <2>3 DEF StartFails, ProcessEnds, Outcome
  <2>4. CASE LookForExit(c) \/ RecordExit(c) \/ ReportRefused(c)
    BY <2>2, <2>4 DEF LookForExit, RecordExit, ReportRefused, At
  <2> QED BY <2>3, <2>4
<1>5. PICK state \in CallStates : GoTo(c, state) /\ state.op = calls[c].op /\ state.pc # "claimed"
  BY <1>4
<1> QED BY <1>1, <1>2, <1>3, <1>5, CallsQuietSteps DEF TypesHold

LEMMA ClosingSteps ==
  ASSUME ServiceInv, NEW c \in Callers,
         StopUnreported(c) \/ FinalizeRun(c) \/ FinalizeRefused(c)
  PROVE  ServiceInv'
<1>1. TypesHold /\ calls[c] \in CallStates
  BY DEF ServiceInv, TypesHold
<1>2. calls[c].op \in Operations
  BY <1>1, CallShapes DEF StopUnreported, FinalizeRun, FinalizeRefused, At
<1>3. PICK r \in Runs : r = RunOf[calls[c].op]
  BY <1>2, OwnerAssumption
<1>4. GoTo(c, Idle) /\ starts' = starts
  BY DEF StopUnreported, FinalizeRun, FinalizeRefused
<1>5. Handler(r) \/ UNCHANGED <<runs, approvals, effects>>
  BY <1>3 DEF StopUnreported, FinalizeRun, FinalizeRefused, Close, Handler, Transition, ownerVars
<1>6. CASE Handler(r)
  BY <1>1, <1>4, <1>6, RunsMove, StatesOfCalls, CallsQuietSteps DEF TypesHold
<1>7. CASE UNCHANGED <<runs, approvals, effects>>
  BY <1>1, <1>4, <1>7, StatesOfCalls, CallsQuietSteps DEF TypesHold
<1> QED BY <1>5, <1>6, <1>7

LEMMA CrashSteps ==
  ASSUME ServiceInv, Crash \/ \E o \in Operations : LeftProcessEnds(o)
  PROVE  ServiceInv'
<1>1. TypesHold /\ UNCHANGED <<runs, approvals, effects, starts>>
  BY DEF ServiceInv, Crash, LeftProcessEnds, ownerVars
<1>2. calls' = calls \/ calls' = [c \in Callers |-> Idle]
  BY DEF Crash, LeftProcessEnds
<1>3. TypesHold'
  BY <1>1, <1>2, StatesOfCalls DEF TypesHold
<1>4. \A c \in Callers : Owns(c)' => Owns(c) /\ calls'[c] = calls[c]
  BY <1>2, StatesOfCalls DEF Owns
<1> QED BY <1>1, <1>3, <1>4, QuietSteps

-----------------------------------------------------------------------------
(* The steps that claim, start, report and reconcile. *)

LEMMA EffectWritten ==
  ASSUME TypesHold, NEW o \in Operations, NEW status \in EffectStatus,
         NEW attempt \in 0..MaxAttempts, NEW count \in {0, 1},
         SetEffect(o, status, attempt, count)
  PROVE  /\ effects' \in [Operations -> EffectRow]
         /\ effects'[o] = [status |-> status, attempt |-> attempt, count |-> count]
         /\ \A p \in Operations \ {o} : effects'[p] = effects[p]
<1>1. count \in 0..MaxCount
  BY OwnerAssumption
<1>2. [status |-> status, attempt |-> attempt, count |-> count] \in EffectRow
  BY <1>1 DEF EffectRow
<1> QED BY <1>2 DEF TypesHold, SetEffect

\* an effect is reported, marked or reconciled: its row is settled, and the
\* requests that have others in hand stay as they are
LEMMA RowSettles ==
  ASSUME ServiceInv, TypesHold', NEW o \in Operations,
         UNCHANGED <<approvals, starts>>,
         \A p \in Operations \ {o} : effects'[p] = effects[p],
         effects[o].status # "none",
         effects'[o].attempt = effects[o].attempt,
         effects'[o].status # "none",
         effects'[o].count = IF effects'[o].status = "completed" THEN 1 ELSE 0,
         effects'[o].status # "completed" => runs'[RunOf[o]] # "completed",
         effects'[o].status # "completed" => effects[o].status # "completed",
         \A r \in Runs : runs'[r] = "completed" => runs[r] = "completed",
         \A c \in Callers : Owns(c)' =>
            /\ Owns(c) /\ calls'[c].op = calls[c].op
            /\ calls'[c].pc = "claimed" => calls[c].pc = "claimed"
            /\ calls'[c].pc \in InHand => calls[c].pc \in InHand /\ calls[c].op # o
  PROVE  ServiceInv'
<1>1. \A p \in Operations : RowsAgree(p)'
  BY DEF ServiceInv, RowsAgree
<1>2. ASSUME NEW c \in Callers, Owns(c)' PROVE CallStands(c)'
  <2>1. CallStands(c) /\ Owns(c) /\ calls'[c].op = calls[c].op /\ calls[c].op \in Operations
    <3>1. calls[c] \in CallStates /\ Owns(c)
      BY <1>2 DEF ServiceInv, TypesHold
    <3> QED BY <1>2, <3>1, CallShapes DEF ServiceInv, Owns
  <2>2. effects'[calls'[c].op].status # "none"
    BY <2>1 DEF CallStands
  <2>3. calls'[c].pc = "claimed" => starts'[calls'[c].op] = 0
    BY <1>2, <2>1 DEF CallStands
  <2>4. calls'[c].pc \in InHand => effects'[calls'[c].op].status = "claimed"
    BY <1>2, <2>1 DEF CallStands
  <2> QED BY <2>2, <2>3, <2>4 DEF CallStands
<1>3. \A c \in Callers : CallStands(c)'
  BY <1>2 DEF CallStands
<1>4. OneOwner'
  BY DEF ServiceInv, OneOwner
<1>5. ASSUME NEW r \in Runs, runs'[r] = "completed" PROVE OpenEffects(r)' = {}
  <2>1. OpenEffects(r) = {}
    BY <1>5 DEF ServiceInv
  <2>2. ASSUME NEW p \in Operations, RunOf[p] = r PROVE effects'[p].status \notin Unresolved
    <3>1. effects[p].status \notin Unresolved
      BY <2>1, <2>2 DEF OpenEffects
    <3>2. CASE p # o
      BY <3>1, <3>2
    <3>3. CASE p = o
      BY <1>5, <2>2, <3>3 DEF Unresolved
    <3> QED BY <3>2, <3>3
  <2> QED BY <2>2 DEF OpenEffects
<1> QED BY <1>1, <1>3, <1>4, <1>5 DEF ServiceInv

LEMMA ReportSteps == ASSUME ServiceInv, NEW c \in Callers, ReportEffect(c) PROVE ServiceInv'
<1>1. TypesHold /\ calls[c] \in CallStates
  BY DEF ServiceInv, TypesHold
<1>2. calls[c].pc = "listed" /\ Owns(c) /\ calls[c].pc \in InHand
  BY DEF ReportEffect, At, Owns, InHand
<1>3. PICK o \in Operations : o = calls[c].op /\ effects[o].status = "claimed" /\ RowsAgree(o)
  BY <1>1, <1>2, CallShapes DEF ServiceInv, CallStands
<1>4. effects[o] \in EffectRow /\ effects[o].attempt \in 0..MaxAttempts /\ effects[o].count = 0
  BY <1>1, <1>3 DEF TypesHold, EffectRow, RowsAgree
<1>5. /\ SetEffect(o, "completed", effects[o].attempt, 1) /\ UNCHANGED <<runs, approvals, starts>>
      /\ GoTo(c, After(c, "reported"))
  BY <1>3, <1>4 DEF ReportEffect, CompleteEffect
<1>6. "completed" \in EffectStatus /\ "completed" \notin Unresolved
  BY DEF EffectStatus, Unresolved
<1>7. /\ effects' \in [Operations -> EffectRow]
      /\ effects'[o] = [status |-> "completed", attempt |-> effects[o].attempt, count |-> 1]
      /\ \A p \in Operations \ {o} : effects'[p] = effects[p]
  BY <1>1, <1>4, <1>5, <1>6, EffectWritten
<1>8. PICK state \in CallStates : GoTo(c, state) /\ state.op = o /\ state.pc = "reported"
  BY <1>1, <1>2, <1>3, <1>5, EndedCallShapes DEF After
<1>9. /\ calls' \in [Callers -> CallStates]
      /\ calls'[c] = state /\ \A d \in Callers \ {c} : calls'[d] = calls[d]
  BY <1>1, <1>8, OneCallMoves
<1>10. TypesHold'
  BY <1>1, <1>5, <1>7, <1>9 DEF TypesHold
<1>11. \A d \in Callers : Owns(d)' =>
            /\ Owns(d) /\ calls'[d].op = calls[d].op
            /\ calls'[d].pc = "claimed" => calls[d].pc = "claimed"
            /\ calls'[d].pc \in InHand => calls[d].pc \in InHand /\ calls[d].op # o
  BY <1>2, <1>3, <1>8, <1>9 DEF Owns, ServiceInv, OneOwner, InHand
<1> QED BY <1>3, <1>5, <1>7, <1>10, <1>11, RowSettles

\* only an effect that no request has in hand comes into doubt
LEMMA RecoverySteps ==
  ASSUME ServiceInv, UNCHANGED serviceVars,
         \/ \E o \in Operations : Abandoned(o) /\ MarkEffectUncertain(o)
         \/ \E o \in Operations, x \in Outcomes : ReconcileEffect(o, x)
  PROVE  ServiceInv'
<1>1. TypesHold /\ UNCHANGED <<calls, starts>>
  BY DEF ServiceInv, serviceVars
<1>2. PICK o \in Operations :
         \/ Abandoned(o) /\ MarkEffectUncertain(o)
         \/ \E x \in Outcomes : ReconcileEffect(o, x)
  OBVIOUS
<1>3. /\ effects[o] \in EffectRow /\ effects[o].attempt \in 0..MaxAttempts
      /\ RowsAgree(o) /\ RunOf[o] \in Runs
  BY <1>1, OwnerAssumption DEF TypesHold, EffectRow, ServiceInv
<1>4. effects[o].status \in {"claimed", "uncertain", "retryable"} /\ effects[o].count = 0
  BY <1>2, <1>3 DEF MarkEffectUncertain, ReconcileEffect, RowsAgree
<1>5. runs[RunOf[o]] # "completed"
  BY <1>3, <1>4 DEF ServiceInv, OpenEffects, Unresolved
<1>6. \A c \in Callers : calls[c].pc \in InHand => calls[c].op # o
  <2>1. ASSUME NEW c \in Callers, calls[c].pc \in InHand, calls[c].op = o PROVE FALSE
    <3>1. effects[o].status = "claimed" /\ calls[c].pc # "idle"
      BY <2>1 DEF ServiceInv, CallStands, Owns, InHand
    <3> QED BY <1>2, <2>1, <3>1 DEF Abandoned, At, ReconcileEffect
  <2> QED BY <2>1
<1>7. \E status \in EffectStatus \ {"none"}, count \in {0, 1} :
         /\ SetEffect(o, status, effects[o].attempt, count)
         /\ count = IF status = "completed" THEN 1 ELSE 0
  BY <1>2, <1>4 DEF MarkEffectUncertain, ReconcileEffect, Outcomes, Settled, EffectStatus, Unresolved
<1>8. PICK status \in EffectStatus \ {"none"}, count \in {0, 1} :
         /\ SetEffect(o, status, effects[o].attempt, count)
         /\ count = IF status = "completed" THEN 1 ELSE 0
  BY <1>7
<1>9. /\ effects' \in [Operations -> EffectRow]
      /\ effects'[o] = [status |-> status, attempt |-> effects[o].attempt, count |-> count]
      /\ \A p \in Operations \ {o} : effects'[p] = effects[p]
  BY <1>1, <1>3, <1>8, EffectWritten
<1>10. /\ approvals' = approvals
       /\ runs' = runs \/ \E new \in {"running", "recovering", "safe_stopped"} :
                            runs' = [runs EXCEPT ![RunOf[o]] = new]
  BY <1>2 DEF MarkEffectUncertain, ReconcileEffect, SetRunStatus
<1>11. /\ runs' \in [Runs -> RunStatus \cup {"absent"}]
       /\ \A r \in Runs : runs'[r] = "completed" => runs[r] = "completed"
       /\ runs'[RunOf[o]] # "completed"
  BY <1>1, <1>3, <1>5, <1>10 DEF TypesHold, RunStatus
<1>12. TypesHold'
  BY <1>1, <1>9, <1>10, <1>11 DEF TypesHold
<1>13. \A c \in Callers : Owns(c)' =>
            /\ Owns(c) /\ calls'[c].op = calls[c].op
            /\ calls'[c].pc = "claimed" => calls[c].pc = "claimed"
            /\ calls'[c].pc \in InHand => calls[c].pc \in InHand /\ calls[c].op # o
  BY <1>1, <1>6 DEF Owns
<1>14. /\ effects[o].status # "none" /\ effects[o].status # "completed"
       /\ effects'[o].attempt = effects[o].attempt
       /\ effects'[o].status # "none"
       /\ effects'[o].count = IF effects'[o].status = "completed" THEN 1 ELSE 0
  BY <1>4, <1>8, <1>9
<1> QED BY <1>1, <1>9, <1>10, <1>11, <1>12, <1>13, <1>14, RowSettles

LEMMA StartSteps == ASSUME ServiceInv, NEW c \in Callers, StartProcess(c) PROVE ServiceInv'
<1>1. TypesHold /\ calls[c] \in CallStates
  BY DEF ServiceInv, TypesHold
<1>2. calls[c].pc = "claimed" /\ Owns(c) /\ UNCHANGED <<runs, approvals, effects>>
  BY DEF StartProcess, At, Owns, ownerVars
<1>3. PICK o \in Operations :
         o = calls[c].op /\ starts[o] = 0 /\ effects[o].status = "claimed" /\ RowsAgree(o)
  BY <1>1, <1>2, CallShapes DEF ServiceInv, CallStands, InHand
<1>4. PICK state \in CallStates : GoTo(c, state) /\ state.op = o /\ state.pc = "running"
  BY <1>1, <1>2, <1>3, CallShapes DEF StartProcess, After
<1>5. /\ calls' \in [Callers -> CallStates]
      /\ calls'[c] = state /\ \A d \in Callers \ {c} : calls'[d] = calls[d]
  BY <1>1, <1>4, OneCallMoves
<1>6. /\ starts' \in [Operations -> Nat] /\ starts'[o] = 1
      /\ \A p \in Operations \ {o} : starts'[p] = starts[p]
  BY <1>1, <1>3 DEF StartProcess, TypesHold
<1>7. TypesHold'
  BY <1>1, <1>2, <1>5, <1>6 DEF TypesHold
<1>8. \A p \in Operations : RowsAgree(p)'
  BY <1>2, <1>3, <1>6 DEF ServiceInv, RowsAgree
<1>9. \A d \in Callers \ {c} : Owns(d) => calls[d].op # o
  BY <1>2, <1>3 DEF ServiceInv, OneOwner
<1>10. ASSUME NEW d \in Callers, Owns(d)' PROVE CallStands(d)'
  <2>1. CASE d = c
    BY <1>2, <1>3, <1>4, <1>5, <2>1 DEF CallStands, InHand
  <2>2. CASE d # c
    <3>1. calls'[d] = calls[d] /\ Owns(d) /\ calls[d] \in CallStates
      BY <1>1, <1>5, <1>10, <2>2 DEF Owns, TypesHold
    <3>2. calls[d].op \in Operations \ {o} /\ CallStands(d)
      BY <1>9, <2>2, <3>1, CallShapes DEF ServiceInv, Owns
    <3> QED BY <1>2, <1>6, <3>1, <3>2 DEF CallStands
  <2> QED BY <2>1, <2>2
<1>11. \A d \in Callers : CallStands(d)'
  BY <1>10 DEF CallStands
<1>12. \A d \in Callers : Owns(d)' => Owns(d) /\ calls'[d].op = calls[d].op
  BY <1>2, <1>3, <1>4, <1>5 DEF Owns
<1>13. OneOwner'
  BY <1>12 DEF ServiceInv, OneOwner
<1>14. \A r \in Runs : (runs[r] = "completed" => OpenEffects(r) = {})'
  BY <1>2 DEF ServiceInv, OpenEffects
<1> QED BY <1>7, <1>8, <1>11, <1>13, <1>14 DEF ServiceInv

\* the claim is made once: the row of a claimed effect never returns to none,
\* and with one attempt there is no retry
LEMMA VerdictsOfClaims ==
  ASSUME MaxAttempts = 1, ServiceInv, NEW o \in Operations, NEW token \in Tokens,
         ClaimEffect(o, token)
  PROVE  /\ ClaimStatus(o, token) \in RunStatus
         /\ SetRunStatus(RunOf[o], ClaimStatus(o, token))
         /\ ClaimStatus(o, token) = "completed" => runs[RunOf[o]] = "completed"
         /\ Executable(o, token) => /\ effects[o].status = "none"
                                    /\ approvals[o].status = "approved"
                                    /\ ClaimVerdict(o, token) = "claim"
                                    /\ ClaimStatus(o, token) = "running"
                                    /\ runs[RunOf[o]] \notin Terminal
         /\ ~Executable(o, token) => ClaimVerdict(o, token) # "claim"
<1>1. TypesHold /\ RowsAgree(o) /\ RunOf[o] \in Runs
  BY OwnerAssumption DEF ServiceInv
<1>2. /\ runs[RunOf[o]] \in RunStatus /\ effects[o] \in EffectRow
      /\ SetRunStatus(RunOf[o], ClaimStatus(o, token))
  BY <1>1 DEF TypesHold, ClaimEffect
<1>3. effects[o].status \in {"none", "completed", "claimed", "uncertain", "retryable", "unknown"}
      /\ effects[o].attempt \in Nat
  BY <1>2 DEF EffectRow, EffectStatus, Unresolved
<1>4. /\ ClaimVerdict(o, token) \in {"denied", "stop", "wait", "claim"}
      /\ ClaimVerdict(o, token) = "claim" =>
             /\ effects[o].status = "none" /\ approvals[o].status = "approved"
             /\ runs[RunOf[o]] \notin Terminal
  BY <1>1, <1>3 DEF ClaimVerdict, ApprovalVerdict, RowsAgree
<1>5. /\ ClaimVerdict(o, token) = "denied" => ClaimStatus(o, token) = runs[RunOf[o]]
      /\ ClaimVerdict(o, token) = "stop" => ClaimStatus(o, token) = "safe_stopped"
      /\ ClaimVerdict(o, token) = "wait" => ClaimStatus(o, token) = "waiting_approval"
      /\ ClaimVerdict(o, token) = "claim" => ClaimStatus(o, token) = "running"
  BY DEF ClaimStatus
<1>6. ClaimStatus(o, token) \in RunStatus
  BY <1>2, <1>4, <1>5 DEF RunStatus
<1>7. MayBecome(runs[RunOf[o]], ClaimStatus(o, token))
  BY <1>2 DEF SetRunStatus
<1> QED BY <1>2, <1>4, <1>5, <1>6, <1>7 DEF Executable

LEMMA ClaimSteps ==
  ASSUME MaxAttempts = 1, ServiceInv, NEW c \in Callers, NEW o \in Operations, NEW token \in Tokens,
         Confirm(c, o, token)
  PROVE  ServiceInv'
<1>1. TypesHold /\ RowsAgree(o) /\ RunOf[o] \in Runs /\ calls[c].pc = "idle"
  BY OwnerAssumption DEF ServiceInv, Confirm, At
<1>2. ClaimEffect(o, token) /\ starts' = starts
  BY DEF Confirm
<1>3. /\ ClaimStatus(o, token) \in RunStatus
      /\ SetRunStatus(RunOf[o], ClaimStatus(o, token))
      /\ ClaimStatus(o, token) = "completed" => runs[RunOf[o]] = "completed"
  BY <1>2, VerdictsOfClaims
<1>4. /\ runs' \in [Runs -> RunStatus \cup {"absent"}]
      /\ \A r \in Runs : runs'[r] = "completed" => runs[r] = "completed"
      /\ runs'[RunOf[o]] = ClaimStatus(o, token)
  BY <1>1, <1>3, StatusWritten
<1>5. CASE ~Executable(o, token)
  <2>1. ClaimVerdict(o, token) # "claim"
    BY <1>2, <1>5, VerdictsOfClaims
  <2>2. approvals' = [approvals EXCEPT ![o].status = @] /\ effects' = effects /\ GoTo(c, Idle)
    BY <1>2, <1>5, <2>1 DEF ClaimEffect, Confirm
  <2>3. approvals' = approvals
    BY <1>1, <2>2 DEF TypesHold, ApprovalRow
  <2> QED BY <1>1, <1>2, <1>4, <2>2, <2>3, StatesOfCalls, CallsQuietSteps DEF TypesHold
<1>6. CASE Executable(o, token)
  <2>1. /\ effects[o].status = "none" /\ approvals[o].status = "approved"
        /\ ClaimVerdict(o, token) = "claim" /\ ClaimStatus(o, token) = "running"
        /\ runs[RunOf[o]] \notin Terminal
    BY <1>2, <1>6, VerdictsOfClaims
  <2>2. /\ SetEffect(o, "claimed", effects[o].attempt + 1, effects[o].count)
        /\ approvals' = [approvals EXCEPT ![o].status = "consumed"]
        /\ GoTo(c, [pc |-> "claimed", op |-> o])
    BY <1>2, <1>6, <2>1 DEF ClaimEffect, Confirm
  <2>3. effects[o].attempt = 0 /\ effects[o].count = 0 /\ starts[o] = 0
    BY <1>1, <2>1 DEF RowsAgree
  <2>4. SetEffect(o, "claimed", 1, 0) /\ "claimed" \in EffectStatus /\ 1 \in 0..MaxAttempts
    BY <2>2, <2>3 DEF EffectStatus, Unresolved
  <2>5. /\ effects' \in [Operations -> EffectRow]
        /\ effects'[o] = [status |-> "claimed", attempt |-> 1, count |-> 0]
        /\ \A p \in Operations \ {o} : effects'[p] = effects[p]
    BY <1>1, <2>4, EffectWritten
  <2>6. /\ approvals' \in [Operations -> ApprovalRow]
        /\ approvals'[o].status = "consumed"
        /\ \A p \in Operations \ {o} : approvals'[p] = approvals[p]
    BY <1>1, <2>2 DEF TypesHold, ApprovalRow
  <2> DEFINE state == [pc |-> "claimed", op |-> o]
  <2>7. state \in CallStates
    BY StatesOfCalls
  <2>8. /\ calls' \in [Callers -> CallStates]
        /\ calls'[c] = state /\ \A d \in Callers \ {c} : calls'[d] = calls[d]
    BY <1>1, <2>2, <2>7, OneCallMoves
  <2>9. TypesHold'
    BY <1>1, <1>2, <1>4, <2>5, <2>6, <2>8 DEF TypesHold
  <2>10. \A p \in Operations : RowsAgree(p)'
    BY <1>2, <2>3, <2>5, <2>6 DEF ServiceInv, RowsAgree
  <2>11. \A d \in Callers : Owns(d) => calls[d].op # o
    BY <2>1 DEF ServiceInv, CallStands
  <2>12. ASSUME NEW d \in Callers, Owns(d)' PROVE CallStands(d)'
    <3>1. CASE d = c
      BY <1>2, <2>3, <2>5, <2>8, <3>1 DEF CallStands
    <3>2. CASE d # c
      <4>1. calls'[d] = calls[d] /\ Owns(d) /\ calls[d] \in CallStates
        BY <1>1, <2>8, <2>12, <3>2 DEF Owns, TypesHold
      <4>2. calls[d].op \in Operations \ {o} /\ CallStands(d)
        BY <2>11, <4>1, CallShapes DEF ServiceInv, Owns
      <4> QED BY <1>2, <2>5, <4>1, <4>2 DEF CallStands
    <3> QED BY <3>1, <3>2
  <2>13. \A d \in Callers : CallStands(d)'
    BY <2>12 DEF CallStands
  <2>14. \A d \in Callers \ {c} : Owns(d)' => Owns(d) /\ calls'[d].op = calls[d].op
    BY <2>8 DEF Owns
  <2>15. calls'[c].op = o
    BY <2>8
  <2>16. OneOwner'
    BY <2>11, <2>14, <2>15 DEF ServiceInv, OneOwner
  <2>17. ASSUME NEW r \in Runs, runs'[r] = "completed" PROVE OpenEffects(r)' = {}
    <3>1. OpenEffects(r) = {} /\ r # RunOf[o]
      BY <1>4, <2>1, <2>17 DEF ServiceInv
    <3> QED BY <2>5, <3>1 DEF OpenEffects
  <2> QED BY <2>9, <2>10, <2>13, <2>16, <2>17 DEF ServiceInv
<1> QED BY <1>5, <1>6

-----------------------------------------------------------------------------
(* The theorems. *)

LEMMA ServiceInvPreserved ==
  ASSUME MaxAttempts = 1, ServiceInv, [Next]_vars
  PROVE  ServiceInv'
<1>1. CASE UNCHANGED vars
  BY <1>1 DEF vars, ownerVars, serviceVars, ServiceInv, TypesHold, RowsAgree, CallStands, Owns,
     OneOwner, OpenEffects
<1>2. CASE OwnerStep
  <2>1. UNCHANGED serviceVars
    BY <1>2 DEF OwnerStep
  <2> QED BY <1>2, <2>1, OwnersQuietSteps, RecoverySteps DEF OwnerStep, Recovery
<1>3. ASSUME NEW c \in Callers, CallStep(c) PROVE ServiceInv'
  BY <1>3, RequestSteps, ClaimSteps, StartSteps, WaitingSteps, ReportSteps, ClosingSteps DEF CallStep
<1>4. CASE Crash \/ \E o \in Operations : LeftProcessEnds(o)
  BY <1>4, CrashSteps
<1> QED BY <1>1, <1>2, <1>3, <1>4 DEF Next

LEMMA ServiceInvInit == ASSUME Init PROVE ServiceInv
<1> USE DEF Init, OwnerInit
<1>1. TypesHold
  <2>1. 0 \in 0..MaxAttempts /\ 0 \in 0..MaxCount
    BY OwnerAssumption
  <2>2. [status |-> "none", attempt |-> 0, count |-> 0] \in EffectRow
    BY <2>1 DEF EffectRow, EffectStatus
  <2>3. [status |-> "none", expired |-> FALSE] \in ApprovalRow
    BY DEF ApprovalRow
  <2> QED BY <2>2, <2>3, StatesOfCalls DEF TypesHold
<1>2. \A o \in Operations : RowsAgree(o)
  BY DEF RowsAgree
<1>3. \A c \in Callers : ~Owns(c)
  BY StatesOfCalls DEF Owns
<1>4. (\A c \in Callers : CallStands(c)) /\ OneOwner
  BY <1>3 DEF CallStands, OneOwner
<1> QED BY <1>1, <1>2, <1>4 DEF ServiceInv

(* The inductive invariant of the service: the rows of an operation, the   *)
(* processes started for it and the one request that has it in hand agree  *)
(* (service.go, Confirm), with the one attempt that the service allows.    *)
THEOREM ServiceInvariant ==
  ASSUME MaxAttempts = 1
  PROVE  Spec => []ServiceInv
<1>1. Init => ServiceInv
  BY ServiceInvInit
<1>2. ServiceInv /\ [Next]_vars => ServiceInv'
  BY ServiceInvPreserved
<1> QED BY <1>1, <1>2, PTL DEF Spec

(* A process is started only for a spent approval, once, and its end is    *)
(* counted once, through rival confirmations, crashes, restarts of the run *)
(* and every order of reports and reconciliations.                         *)
THEOREM ApprovalsStartOnce ==
  ASSUME MaxAttempts = 1
  PROVE  Spec => []OneStartPerApproval
<1>1. ASSUME ServiceInv, NEW o \in Operations
      PROVE  /\ starts[o] <= IF approvals[o].status = "consumed" THEN 1 ELSE 0
             /\ effects[o].count <= 1
  <2>1. RowsAgree(o) /\ starts[o] \in Nat
    BY <1>1 DEF ServiceInv, TypesHold
  <2> QED BY <2>1 DEF RowsAgree
<1>2. ServiceInv => OneStartPerApproval
  BY <1>1 DEF OneStartPerApproval
<1> QED BY <1>2, ServiceInvariant, PTL

(* A completed run has no open effect, and no request waits for a process  *)
(* of it.                                                                  *)
THEOREM CompletionIsQuiet ==
  ASSUME MaxAttempts = 1
  PROVE  Spec => []CompletedRunIsQuiet
<1>1. ASSUME ServiceInv, NEW r \in Runs, runs[r] = "completed", NEW c \in Callers,
             calls[c].pc = "running", RunOf[calls[c].op] = r
      PROVE  FALSE
  <2>1. effects[calls[c].op].status = "claimed" /\ calls[c].op \in Operations
    BY <1>1, CallShapes DEF ServiceInv, TypesHold, CallStands, Owns, InHand
  <2>2. OpenEffects(r) = {}
    BY <1>1 DEF ServiceInv
  <2> QED BY <1>1, <2>1, <2>2 DEF OpenEffects, Unresolved
<1>2. ServiceInv => CompletedRunIsQuiet
  BY <1>1 DEF CompletedRunIsQuiet, At, ServiceInv
<1> QED BY <1>2, ServiceInvariant, PTL

-----------------------------------------------------------------------------
(* The server's owner keeps the promise that the Python owner keeps, for   *)
(* any limit on attempts: its effects live by the protocol BoundedEffect.  *)

PhaseOf(status) ==
    CASE status = "none"      -> "open"
      [] status = "claimed"   -> "trying"
      [] status = "uncertain" -> "doubtful"
      [] status = "retryable" -> "failed"
      [] status = "completed" -> "done"
      [] status = "unknown"   -> "lost"

Phases == [o \in Operations |-> PhaseOf(effects[o].status)]
Tries == [o \in Operations |-> effects[o].attempt]
Limits == [o \in Operations |-> IF effects[o].status = "none" THEN 0 ELSE MaxAttempts]
Counts == [o \in Operations |-> effects[o].count]

Bounded == INSTANCE BoundedEffect WITH
    Effects <- Operations, phase <- Phases, tries <- Tries, limit <- Limits, count <- Counts

ImplementsBoundedEffect == Bounded!Protocol

\* what the columns of a row say of each other
RowStands(e) ==
    /\ e = [status |-> e.status, attempt |-> e.attempt, count |-> e.count]
    /\ e.status \in EffectStatus /\ e.attempt \in 0..MaxAttempts
    /\ e.status = "none" <=> e.attempt = 0
    /\ e.count = IF e.status = "completed" THEN 1 ELSE 0

EffectsStand == /\ effects = [o \in Operations |-> effects[o]]
                /\ \A o \in Operations : RowStands(effects[o])

\* the steps of one row
RowMoves(e, f) ==
    \/ /\ e.status = "none" /\ f.status = "claimed" /\ f.attempt = 1 /\ f.count = 0
    \/ /\ e.status = "retryable" /\ e.attempt < MaxAttempts
       /\ f.status = "claimed" /\ f.attempt = e.attempt + 1 /\ f.count = e.count
    \/ /\ e.status = "claimed" /\ f.status = "uncertain"
       /\ f.attempt = e.attempt /\ f.count = e.count
    \/ /\ e.status \in {"uncertain", "retryable"} /\ f.status \in {"retryable", "unknown"}
       /\ f.attempt = e.attempt /\ f.count = e.count
    \/ /\ e.status \in {"claimed", "uncertain", "retryable"} /\ f.status = "completed"
       /\ f.attempt = e.attempt /\ f.count = 1

OneRowMoves(o) ==
    /\ RowMoves(effects[o], effects'[o])
    /\ effects'[o] = [status |-> effects'[o].status, attempt |-> effects'[o].attempt,
                      count |-> effects'[o].count]
    /\ effects' = [p \in Operations |-> IF p = o THEN effects'[o] ELSE effects[p]]

\* a row that is written anew; an operation that does not exist has none
LEMMA RowWritten ==
  ASSUME EffectsStand, NEW o, NEW status, NEW attempt, NEW count,
         SetEffect(o, status, attempt, count)
  PROVE  IF o \in Operations
         THEN /\ effects'[o] = [status |-> status, attempt |-> attempt, count |-> count]
              /\ effects' = [p \in Operations |-> IF p = o THEN effects'[o] ELSE effects[p]]
         ELSE effects' = effects
<1> DEFINE row == [status |-> status, attempt |-> attempt, count |-> count]
<1>1. effects = [p \in Operations |-> effects[p]] /\ effects' = [effects EXCEPT ![o] = row]
  BY DEF EffectsStand, SetEffect
<1> HIDE DEF row
<1>2. effects' = [p \in Operations |-> IF p = o THEN row ELSE effects[p]]
  BY <1>1
<1>3. o \in Operations => effects'[o] = row
  BY <1>2
<1>4. o \notin Operations => effects' = effects
  BY <1>1, <1>2
<1> QED BY <1>2, <1>3, <1>4 DEF row

LEMMA ClaimMovesRow ==
  ASSUME EffectsStand, NEW o \in Operations, NEW token \in Tokens, ClaimEffect(o, token)
  PROVE  effects' = effects \/ OneRowMoves(o)
<1>1. CASE ~Executable(o, token)
  BY <1>1 DEF ClaimEffect
<1>2. CASE Executable(o, token)
  <2> DEFINE e == effects[o]
  <2>1. SetEffect(o, "claimed", e.attempt + 1, e.count)
    BY <1>2 DEF ClaimEffect
  <2>2. /\ effects'[o] = [status |-> "claimed", attempt |-> e.attempt + 1, count |-> e.count]
        /\ effects' = [p \in Operations |-> IF p = o THEN effects'[o] ELSE effects[p]]
    BY <2>1, RowWritten
  <2>3. ClaimVerdict(o, token) \in {"retry", "claim"} /\ RowStands(e)
    BY <1>2 DEF Executable, EffectsStand
  <2>4. ApprovalVerdict(o, token) # "retry"
    BY DEF ApprovalVerdict
  <2>5. \/ e.status = "retryable" /\ e.attempt < MaxAttempts
        \/ e.status \notin {"completed", "claimed", "uncertain", "unknown", "retryable"}
    BY <2>3, <2>4 DEF ClaimVerdict
  <2>6. e.status = "none" => e.attempt = 0 /\ e.count = 0
    BY <2>3 DEF RowStands
  <2>7. RowMoves(e, effects'[o])
    BY <2>2, <2>3, <2>5, <2>6 DEF RowStands, RowMoves, EffectStatus, Unresolved
  <2> QED BY <2>2, <2>7 DEF OneRowMoves
<1> QED BY <1>1, <1>2

LEMMA ReportMovesRow ==
  ASSUME EffectsStand, NEW o, CompleteEffect(o)
  PROVE  effects' = effects \/ (o \in Operations /\ OneRowMoves(o))
<1> DEFINE e == effects[o]
<1>1. /\ e.status \in {"claimed", "completed"}
      /\ SetEffect(o, "completed", e.attempt, e.count + (IF e.status = "claimed" THEN 1 ELSE 0))
  BY DEF CompleteEffect, CanReport
<1>2. CASE o \notin Operations
  BY <1>1, <1>2, RowWritten
<1>3. CASE o \in Operations
  <2>1. RowStands(e)
    BY <1>3 DEF EffectsStand
  <2>2. /\ effects'[o] = [status |-> "completed", attempt |-> e.attempt,
                          count |-> e.count + (IF e.status = "claimed" THEN 1 ELSE 0)]
        /\ effects' = [p \in Operations |-> IF p = o THEN effects'[o] ELSE effects[p]]
    BY <1>1, <1>3, RowWritten
  <2>3. CASE e.status = "claimed"
    <3>1. RowMoves(e, effects'[o])
      BY <2>1, <2>2, <2>3 DEF RowStands, RowMoves
    <3> QED BY <1>3, <2>2, <3>1 DEF OneRowMoves
  <2>4. CASE e.status = "completed"
    <3>1. effects'[o] = [status |-> e.status, attempt |-> e.attempt, count |-> e.count]
      BY <2>1, <2>2, <2>4 DEF RowStands
    <3>2. effects'[o] = effects[o]
      BY <2>1, <3>1 DEF RowStands
    <3> QED BY <2>2, <3>2 DEF EffectsStand
  <2> QED BY <1>1, <2>3, <2>4
<1> QED BY <1>2, <1>3

LEMMA DoubtMovesRow ==
  ASSUME EffectsStand, NEW o \in Operations,
         MarkEffectUncertain(o) \/ \E x \in Outcomes : ReconcileEffect(o, x)
  PROVE  OneRowMoves(o)
<1> DEFINE e == effects[o]
<1>1. RowStands(e)
  BY DEF EffectsStand
<1>2. ASSUME NEW status, NEW count, SetEffect(o, status, e.attempt, count)
      PROVE  /\ effects'[o] = [status |-> status, attempt |-> e.attempt, count |-> count]
             /\ effects' = [p \in Operations |-> IF p = o THEN effects'[o] ELSE effects[p]]
  BY <1>2, RowWritten
<1>3. CASE MarkEffectUncertain(o)
  <2>1. e.status = "claimed" /\ SetEffect(o, "uncertain", e.attempt, e.count)
    BY <1>3 DEF MarkEffectUncertain
  <2>2. /\ effects'[o] = [status |-> "uncertain", attempt |-> e.attempt, count |-> e.count]
        /\ effects' = [p \in Operations |-> IF p = o THEN effects'[o] ELSE effects[p]]
    BY <1>2, <2>1
  <2> QED BY <2>1, <2>2 DEF OneRowMoves, RowMoves
<1>4. ASSUME NEW x \in Outcomes, ReconcileEffect(o, x) PROVE OneRowMoves(o)
  <2> DEFINE count == IF x = "applied" THEN 1 ELSE e.count
  <2>1. /\ e.status \in {"uncertain", "retryable"}
        /\ SetEffect(o, Settled(x), e.attempt, count)
    BY <1>4 DEF ReconcileEffect
  <2>2. /\ x = "applied" => Settled(x) = "completed" /\ count = 1
        /\ x # "applied" => Settled(x) \in {"retryable", "unknown"} /\ count = e.count
    BY <1>4 DEF Settled, Outcomes
  <2> HIDE DEF count
  <2>3. /\ effects'[o] = [status |-> Settled(x), attempt |-> e.attempt, count |-> count]
        /\ effects' = [p \in Operations |-> IF p = o THEN effects'[o] ELSE effects[p]]
    BY <1>2, <2>1
  <2> QED BY <2>1, <2>2, <2>3 DEF OneRowMoves, RowMoves
<1> QED BY <1>3, <1>4

\* whatever requests, handlers, operators and crashes do
LEMMA EffectsMove ==
  ASSUME EffectsStand, [Next]_vars
  PROVE  effects' = effects \/ \E o \in Operations : OneRowMoves(o)
<1>1. ASSUME NEW c \in Callers, CallStep(c)
      PROVE  effects' = effects \/ \E o \in Operations : OneRowMoves(o)
  <2>1. ASSUME NEW o \in Operations, NEW t \in Tokens, Confirm(c, o, t)
        PROVE  effects' = effects \/ OneRowMoves(o)
    BY <2>1, ClaimMovesRow DEF Confirm
  <2>2. CASE ReportEffect(c)
    BY <2>2, ReportMovesRow DEF ReportEffect
  <2>3. (\E o \in Operations : Request(c, o)) \/ RequestWaits(c) \/ RequestRefused(c)
        \/ StopUnreported(c) \/ FinalizeRun(c) \/ FinalizeRefused(c) => effects' = effects
    BY DEF Request, RequestApproval, RequestWaits, WaitForApproval, RequestRefused, StopUnreported,
       FinalizeRun, Close, SafeStopRun, CompleteRun, FailRun, FinalizeRefused, ownerVars
  <2>4. StartProcess(c) \/ StartFails(c) \/ (\E x \in Outcome : ProcessEnds(c, x)) \/ LookForExit(c)
        \/ RecordExit(c) \/ ReportRefused(c) => effects' = effects
    BY DEF StartProcess, StartFails, ProcessEnds, LookForExit, RecordExit, ReportRefused, ownerVars
  <2> QED BY <1>1, <2>1, <2>2, <2>3, <2>4 DEF CallStep
<1>2. CASE OwnerStep
  <2>1. \A r \in Runs : Handler(r) \/ RestartRun(r) => effects' = effects
    BY DEF Handler, Transition, StartRun, CompleteRun, FailRun, SafeStopRun, BeginRecovery,
       CreateRun, StopOnViolation, LinkedRunAppears, RestartRun
  <2>2. \A o \in Operations : Review(o) => effects' = effects
    BY DEF Review, Approve, DenyApproval, ApprovalExpires
  <2>3. Declaration => effects' = effects
    BY DEF Declaration, RecordDeclaredExposure
  <2> QED BY <1>2, <2>1, <2>2, <2>3, DoubtMovesRow DEF OwnerStep, Recovery
<1>3. Crash \/ (\E o \in Operations : LeftProcessEnds(o)) \/ UNCHANGED vars => effects' = effects
  BY DEF Crash, LeftProcessEnds, vars, ownerVars
<1> QED BY <1>1, <1>2, <1>3 DEF Next

LEMMA EffectsStandPreserved ==
  ASSUME EffectsStand, [Next]_vars
  PROVE  EffectsStand'
<1>1. CASE effects' = effects
  BY <1>1 DEF EffectsStand
<1>2. ASSUME NEW o \in Operations, OneRowMoves(o) PROVE EffectsStand'
  <2> DEFINE e == effects[o]
             f == effects'[o]
  <2>1. RowStands(e) /\ MaxAttempts \in Nat \ {0}
    BY OwnerAssumption DEF EffectsStand
  <2>2. /\ RowMoves(e, f)
        /\ f = [status |-> f.status, attempt |-> f.attempt, count |-> f.count]
        /\ effects' = [p \in Operations |-> IF p = o THEN f ELSE effects[p]]
    BY <1>2 DEF OneRowMoves
  <2>3. f.status \in EffectStatus /\ f.attempt \in 0..MaxAttempts
        /\ (f.status = "none" <=> f.attempt = 0)
        /\ f.count = IF f.status = "completed" THEN 1 ELSE 0
    BY <2>1, <2>2 DEF RowStands, RowMoves, EffectStatus, Unresolved
  <2>4. RowStands(f)
    BY <2>2, <2>3 DEF RowStands
  <2>5. \A p \in Operations : effects'[p] = IF p = o THEN f ELSE effects[p]
    BY <2>2
  <2>6. \A p \in Operations : RowStands(effects'[p])
    BY <2>4, <2>5 DEF EffectsStand
  <2>7. effects' = [p \in Operations |-> effects'[p]]
    BY <2>2
  <2> QED BY <2>6, <2>7 DEF EffectsStand
<1> QED BY <1>1, <1>2, EffectsMove

LEMMA PhasesOfStatuses ==
  /\ PhaseOf("none") = "open" /\ PhaseOf("claimed") = "trying"
  /\ PhaseOf("uncertain") = "doubtful" /\ PhaseOf("retryable") = "failed"
  /\ PhaseOf("completed") = "done" /\ PhaseOf("unknown") = "lost"
BY DEF PhaseOf

LEMMA MovesAreProtocolSteps ==
  ASSUME EffectsStand, EffectsStand', NEW o \in Operations, OneRowMoves(o)
  PROVE  Bounded!ProtocolStep(o)
<1> DEFINE e == effects[o]
           f == effects'[o]
           lim(s) == IF s = "none" THEN 0 ELSE MaxAttempts
<1>1. RowStands(e) /\ RowStands(f) /\ RowMoves(e, f) /\ MaxAttempts \in Nat \ {0}
  BY OwnerAssumption DEF EffectsStand, OneRowMoves
<1>2. /\ Phases[o] = PhaseOf(e.status) /\ Tries[o] = e.attempt
      /\ Limits[o] = lim(e.status) /\ Counts[o] = e.count
  BY DEF Phases, Tries, Limits, Counts
<1>3. \A p \in Operations : effects'[p] = IF p = o THEN f ELSE effects[p]
  BY DEF OneRowMoves
<1>4. /\ Phases' = [Phases EXCEPT ![o] = PhaseOf(f.status)]
      /\ Tries' = [Tries EXCEPT ![o] = f.attempt]
      /\ Limits' = [Limits EXCEPT ![o] = lim(f.status)]
      /\ Counts' = [Counts EXCEPT ![o] = f.count]
  <2>1. Phases' = [Phases EXCEPT ![o] = PhaseOf(f.status)]
    BY <1>3 DEF Phases
  <2>2. Tries' = [Tries EXCEPT ![o] = f.attempt]
    BY <1>3 DEF Tries
  <2>3. Limits' = [Limits EXCEPT ![o] = lim(f.status)]
    BY <1>3 DEF Limits
  <2>4. Counts' = [Counts EXCEPT ![o] = f.count]
    BY <1>3 DEF Counts
  <2> QED BY <2>1, <2>2, <2>3, <2>4
<1>5. /\ Tries = [p \in Operations |-> Tries[p]] /\ Limits = [p \in Operations |-> Limits[p]]
      /\ Counts = [p \in Operations |-> Counts[p]]
  BY DEF Tries, Limits, Counts
<1>6. /\ f.attempt = e.attempt => Tries' = Tries
      /\ f.count = e.count => Counts' = Counts
      /\ lim(f.status) = lim(e.status) => Limits' = Limits
      /\ Limits'[o] = lim(f.status)
  BY <1>2, <1>4, <1>5
<1>7. e.status # "none" /\ f.status # "none" => Limits' = Limits
  BY <1>6
<1>8. /\ f.attempt = e.attempt + 1 => Tries' = [Tries EXCEPT ![o] = Tries[o] + 1]
      /\ f.count = e.count + 1 => Counts' = [Counts EXCEPT ![o] = Counts[o] + 1]
  BY <1>2, <1>4
<1>9. /\ e.status = "none" <=> e.attempt = 0
      /\ e.count = IF e.status = "completed" THEN 1 ELSE 0
      /\ e.attempt \in 0..MaxAttempts
  BY <1>1 DEF RowStands
<1> USE PhasesOfStatuses DEF Bounded!ProtocolStep, Bounded!Becomes, Bounded!Counts
<1>10. CASE e.status = "none" /\ f.status = "claimed" /\ f.attempt = 1 /\ f.count = 0
  <2>1. f.attempt = e.attempt + 1 /\ f.count = e.count /\ lim(f.status) = MaxAttempts
    BY <1>9, <1>10
  <2>2. Limits' = [Limits EXCEPT ![o] = Limits'[o]] /\ Limits'[o] \in Nat \ {0}
    BY <1>1, <1>4, <1>6, <2>1
  <2>3. Bounded!Becomes(o, {"open"}, "trying")
    BY <1>2, <1>4, <1>10
  <2>4. Tries' = Bounded!Counts(Tries, o) /\ Counts' = Counts
    BY <1>6, <1>8, <2>1
  <2>5. Bounded!FirstTry(o)
    BY <2>2, <2>3, <2>4 DEF Bounded!FirstTry
  <2> QED BY <2>5
<1>11. CASE /\ e.status = "retryable" /\ e.attempt < MaxAttempts
            /\ f.status = "claimed" /\ f.attempt = e.attempt + 1 /\ f.count = e.count
  <2>1. Tries[o] < Limits[o]
    BY <1>2, <1>11
  <2>2. Bounded!Becomes(o, {"failed"}, "trying")
    BY <1>2, <1>4, <1>11
  <2>3. Tries' = Bounded!Counts(Tries, o) /\ Counts' = Counts /\ Limits' = Limits
    BY <1>6, <1>7, <1>8, <1>11
  <2>4. Bounded!Retry(o)
    BY <2>1, <2>2, <2>3 DEF Bounded!Retry
  <2> QED BY <2>4
<1>12. CASE /\ e.status = "claimed" /\ f.status = "uncertain"
            /\ f.attempt = e.attempt /\ f.count = e.count
  <2>1. Bounded!Becomes(o, {"trying"}, "doubtful")
    BY <1>2, <1>4, <1>12
  <2>2. UNCHANGED <<Tries, Limits, Counts>>
    BY <1>6, <1>7, <1>12
  <2>3. Bounded!Doubt(o)
    BY <2>1, <2>2 DEF Bounded!Doubt
  <2> QED BY <2>3
<1>13. CASE /\ e.status \in {"uncertain", "retryable"} /\ f.status \in {"retryable", "unknown"}
            /\ f.attempt = e.attempt /\ f.count = e.count
  <2>1. Phases[o] \in {"doubtful", "failed"} /\ PhaseOf(f.status) \in {"failed", "lost"}
    BY <1>2, <1>13
  <2>2. UNCHANGED <<Tries, Limits, Counts>>
    BY <1>6, <1>7, <1>13
  <2>3. Bounded!Resolve(o)
    BY <1>4, <2>1, <2>2 DEF Bounded!Resolve
  <2> QED BY <2>3
<1>14. CASE /\ e.status \in {"claimed", "uncertain", "retryable"} /\ f.status = "completed"
            /\ f.attempt = e.attempt /\ f.count = 1
  <2>1. f.count = e.count + 1
    BY <1>9, <1>14
  <2>2. Counts' = [Counts EXCEPT ![o] = Counts[o] + 1] /\ Tries' = Tries /\ Limits' = Limits
    BY <1>6, <1>7, <1>8, <1>14, <2>1
  <2>3. Phases[o] \in {"trying", "doubtful", "failed"} /\ PhaseOf(f.status) = "done"
    BY <1>2, <1>14
  <2>4. Bounded!Succeed(o)
    BY <1>4, <2>2, <2>3 DEF Bounded!Succeed
  <2> QED BY <2>4
<1> QED BY <1>1, <1>10, <1>11, <1>12, <1>13, <1>14 DEF RowMoves

\* The service implements the protocol of one effect, for any limit on its
\* attempts: an effect is tried within its limit, again only after somebody
\* observed that it was not applied, and it is counted once, however requests
\* race, callers vanish and operators reconcile (evidence/effect.go,
\* reconcile.go; service.go, Confirm).
THEOREM ServiceImplementsBoundedEffect == Spec => ImplementsBoundedEffect
<1>1. Init => EffectsStand
  BY OwnerAssumption DEF Init, OwnerInit, EffectsStand, RowStands, EffectStatus
<1>2. Init => Bounded!Open
  BY PhasesOfStatuses DEF Init, OwnerInit, Bounded!Open, Bounded!Zero, Phases, Tries, Limits, Counts
<1>3. EffectsStand /\ [Next]_vars => EffectsStand'
  BY EffectsStandPreserved
<1>4. EffectsStand /\ EffectsStand' /\ [Next]_vars =>
        [\E e \in Operations : Bounded!ProtocolStep(e)]_(Bounded!protocol)
  <2>1. effects' = effects => UNCHANGED Bounded!protocol
    BY DEF Bounded!protocol, Phases, Tries, Limits, Counts
  <2> QED BY <2>1, EffectsMove, MovesAreProtocolSteps
<1>5. Spec => []EffectsStand
  BY <1>1, <1>3, PTL DEF Spec
<1>6. Spec => [][\E e \in Operations : Bounded!ProtocolStep(e)]_(Bounded!protocol)
  BY <1>4, <1>5, PTL DEF Spec
<1>7. Spec => Bounded!Open
  BY <1>2 DEF Spec
<1> QED BY <1>6, <1>7 DEF ImplementsBoundedEffect, Bounded!Protocol
=============================================================================
