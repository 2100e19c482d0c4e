--------------------------- MODULE WriteSeamProofs ---------------------------
(***************************************************************************)
(* Proofs about the local write path, for any number of calls of apply,    *)
(* any proposals, requests and bases, and any exposures and budgets.       *)
(*                                                                         *)
(* The argument: a call at work keeps its effect in flight under a number  *)
(* of its own; its diff is in the worktree from the moment it commits; and *)
(* the operator, who looks before settling an attempt, then finds it, so   *)
(* that no attempt follows one that committed.                             *)
(***************************************************************************)
EXTENDS WriteSeam, CompositionOwnerProofs

(* The number of attempts the owner has handed out for an operation. *)
Number(o) == IF effect[o] = NoRow THEN 0 ELSE effect[o].attempt

(* The steps at which a call works on the attempt it claimed, those before *)
(* it has one, and those at which it gave the claim up unsettled.          *)
Working == {"claimed", "checked", "applied", "committed", "doubtful"}
Waiting == {"idle", "started", "treed", "recorded", "declared"}
Lost == {"refused", "unreported", "dead"}

CallsAreStarted ==
  \A c \in Applies :
    /\ apply[c].pc # "idle" => apply[c].request \in Requests
    /\ apply[c].pc \in Waiting => apply[c].attempt = 0
    /\ apply[c].pc = "treed" => tree.base # NoBase

CallsHaveDiffs == \A c \in Applies : apply[c].pc # "idle" => apply[c].diff \in Patches

NumbersAreOwned ==
  /\ \A c \in Applies : apply[c].attempt # 0 =>
       apply[c].pc # "idle" /\ apply[c].attempt <= Number(operation(c))
  /\ \A c, d \in Applies :
       apply[c].attempt # 0 /\ apply[c].attempt = apply[d].attempt /\ operation(c) = operation(d)
         => c = d

WorkIsInFlight ==
  \A c \in Applies : apply[c].pc \in Working =>
    /\ effect[operation(c)].status = "claimed"
    /\ apply[c].attempt = effect[operation(c)].attempt

ClaimsAreHeld ==
  \A o \in Operations : effect[o].status = "claimed" =>
    \E c \in HeldBy(o) : apply[c].pc \in Working \union Lost

TreeStands ==
  /\ \A c \in Applies : apply[c].pc \in {"checked", "applied"} =>
       tree.base = fingerprint /\ tree.base # NoBase
  /\ tree.commits # <<>> => tree.base = fingerprint /\ tree.base # NoBase

(* What is committed was claimed last and can only be found applied. *)
CommitsAreCurrent ==
  \A c \in Applies :
    /\ apply[c].pc = "applied" => apply[c].diff \in tree.dirty \union Committed
    /\ apply[c].pc = "committed" => apply[c].made # 0
    /\ apply[c].made # 0 =>
         /\ apply[c].attempt # 0
         /\ apply[c].diff \in Committed
         /\ effect[operation(c)].status \in {"claimed", "uncertain", "completed"}
         /\ apply[c].attempt = effect[operation(c)].attempt

ClosedIsCompleted ==
  \A c \in Applies : apply[c].pc \in {"closing", "completed"} =>
    effect[operation(c)].status = "completed"

(* The calls' part of the invariant, and the worktree's. *)
CallsInv == CallsAreStarted /\ NumbersAreOwned /\ WorkIsInFlight /\ ClaimsAreHeld
TreeInv == TreeStands /\ CommitsAreCurrent /\ ClosedIsCompleted /\ CompletedWriteLanded

WriteInv ==
  /\ WriteTypeOK
  /\ CallsAreStarted
  /\ CallsHaveDiffs
  /\ NumbersAreOwned
  /\ WorkIsInFlight
  /\ ClaimsAreHeld
  /\ TreeStands
  /\ CommitsAreCurrent
  /\ ClosedIsCompleted
  /\ CompletedWriteLanded

-----------------------------------------------------------------------------
(* The steps of the owner, and what they do to the effects. *)

LEMMA NumberType ==
  ASSUME TypeOK, NEW o \in Operations
  PROVE  /\ effect[o] = NoRow \/ effect[o] \in EffectRow
         /\ effect[o] \in EffectRow => /\ effect[o] # NoRow
                                       /\ effect[o].attempt \in Nat \ {0}
                                       /\ effect[o].status \in EFFECT_STATES
         /\ effect[o].status \in EFFECT_STATES => effect[o] \in EffectRow
         /\ Number(o) \in Nat
BY RowFields DEF TypeOK, Number, EffectRow, NoRow, EFFECT_STATES

LEMMA RequestType ==
  ASSUME NEW q \in Requests
  PROVE  q.op \in Operations /\ q.scope \in Scopes
BY OwnerAssumption DEF Request

(* What a call adds to the owner's own steps: the run it ensures, and the  *)
(* boundary it pins.                                                       *)
LEMMA WriteSteps ==
  ASSUME WriteInv, [WriteNext]_writeVars
  PROVE  \/ [Next]_vars
         \/ CreateRun(WriteRun, NoRun)
         \/ \E c \in Applies : apply[c].request \in Requests /\ DeclareExposure(WriteRun, WRITE_EXPOSURE(c))
<1> DEFINE Goal == \/ [Next]_vars
                   \/ CreateRun(WriteRun, NoRun)
                   \/ \E c \in Applies : /\ apply[c].request \in Requests
                                         /\ DeclareExposure(WriteRun, WRITE_EXPOSURE(c))
<1>1. EnsureRun => Goal
  BY DEF EnsureRun
<1>2. ASSUME NEW c \in Applies, ApplyStep(c) PROVE Goal
  <2>1. apply[c].pc # "idle" => apply[c].request \in Requests /\ operation(c) \in Operations
    BY RequestType DEF WriteInv, CallsAreStarted, operation
  <2>2. StartApply(c) => Goal
    BY <1>1 DEF StartApply
  <2>3. DeclareWrite(c) => Goal
    BY <2>1 DEF DeclareWrite, At
  <2>4. ClaimWrite(c) => Goal
    BY <2>1, WriteAssumption DEF ClaimWrite, Executable, At, Next
  <2>5. ReportDoubt(c) \/ CompleteWrite(c) => Goal
    BY <2>1 DEF ReportDoubt, CompleteWrite, At, Next, OutcomeStep
  <2>6. CloseRun(c) => Goal
    BY WriteAssumption DEF CloseRun, Next, RunStep
  <2>7. MakeWorktree(c) \/ RecordFingerprint(c) \/ CheckTarget(c) \/ ApplyPatch(c) \/ Commit(c) => Goal
    BY DEF MakeWorktree, RecordFingerprint, CheckTarget, ApplyPatch, Commit
  <2> QED BY <1>2, <2>2, <2>3, <2>4, <2>5, <2>6, <2>7 DEF ApplyStep
<1>3. ASSUME NEW o \in Operations, Operator(o) PROVE Next
  <2>1. OutcomeStep(o) \/ ApprovalStep(o) => Next
    BY DEF Next
  <2>2. SafeStopRun(WriteRun) \/ RestartRun(WriteRun) => Next
    BY WriteAssumption DEF Next, RunStep
  <2> QED BY <1>3, <2>1, <2>2 DEF Operator, ApproveWrite, Observe, GiveUpOnAttempt, OutcomeStep, ApprovalStep
<1>4. ASSUME NEW q \in Requests, RequestWrite(q) PROVE Next
  BY <1>4, WriteAssumption DEF RequestWrite, Next
<1>5. ASSUME NEW c \in Applies, Crash(c) PROVE Goal
  BY <1>5 DEF Crash
<1>6. ASSUME NEW p \in Patches, Propose(p) PROVE Goal
  BY <1>6, <1>1 DEF Propose
<1>7. Develop \/ UNCHANGED writeVars => Goal
  BY DEF Develop, writeVars
<1> QED BY <1>2, <1>3, <1>4, <1>5, <1>6, <1>7 DEF WriteNext

LEMMA OwnerTypePreserved ==
  ASSUME WriteInv, [WriteNext]_writeVars
  PROVE  TypeOK'
<1>1. TypeOK
  BY DEF WriteInv, WriteTypeOK
<1>2. CASE [Next]_vars
  BY <1>1, <1>2, TypePreserved
<1>3. CASE CreateRun(WriteRun, NoRun)
  BY <1>1, <1>3, WriteAssumption DEF CreateRun, TypeOK, RUN_STATES, Live
<1>4. ASSUME NEW c \in Applies, apply[c].request \in Requests, DeclareExposure(WriteRun, WRITE_EXPOSURE(c))
      PROVE  TypeOK'
  <2>1. WRITE_EXPOSURE(c) \in Exposure
    BY <1>4, RequestType DEF WRITE_EXPOSURE, Exposure, EffectClasses, ALLOWED_EFFECT_CLASSES
  <2> QED BY <1>1, <1>4, <2>1, WriteAssumption DEF DeclareExposure, TypeOK
<1> QED BY <1>2, <1>3, <1>4, WriteSteps

-----------------------------------------------------------------------------
(* Calls and their attempts. *)

LEMMA CallFields ==
  ASSUME WriteInv, NEW c \in Applies
  PROVE  /\ apply[c].pc \in ApplySteps /\ apply[c].attempt \in Nat /\ apply[c].made \in Nat
         /\ apply[c].diff \in Patches \union {NoPatch}
         /\ apply[c].attempt # 0 => operation(c) \in Operations
         /\ apply[c].pc # "idle" => operation(c) \in Operations
BY RequestType DEF WriteInv, WriteTypeOK, CallsAreStarted, NumbersAreOwned, operation

LEMMA Gone ==
  ASSUME WriteInv, NEW c \in Applies, NEW step, Goto(c, step)
  PROVE  /\ apply'[c].pc = step
         /\ apply'[c].attempt = apply[c].attempt /\ apply'[c].made = apply[c].made
         /\ apply'[c].request = apply[c].request /\ apply'[c].diff = apply[c].diff
         /\ \A d \in Applies \ {c} : apply'[d] = apply[d]
BY DEF WriteInv, WriteTypeOK, Goto

(* A step of one call, or of none, that leaves the effects alone.          *)
LEMMA QuietStep ==
  ASSUME WriteInv, NEW c \in Applies, effect' = effect,
         tree.base # NoBase => tree'.base # NoBase,
         apply'[c].attempt = apply[c].attempt,
         \/ apply'[c].request = apply[c].request
         \/ apply[c].pc = "idle" /\ apply'[c].request \in Requests,
         \A d \in Applies \ {c} : apply'[d] = apply[d],
         apply'[c].pc # "idle" => apply'[c].request \in Requests,
         apply'[c].pc = "idle" => apply[c].pc = "idle",
         apply'[c].pc = "treed" => tree'.base # NoBase,
         apply'[c].pc \in Working => apply[c].pc \in Working,
         apply'[c].pc \in Waiting => apply[c].pc \in Waiting,
         apply[c].pc \in Working \union Lost /\ effect[operation(c)].status = "claimed" =>
           apply'[c].pc \in Working \union Lost
  PROVE  CallsInv'
<1>1. \A o \in Operations : Number(o)' = Number(o)
  BY DEF Number
<1>2. apply[c].attempt # 0 => apply'[c].request = apply[c].request
  BY DEF WriteInv, NumbersAreOwned
<1>3. CallsAreStarted'
  BY DEF WriteInv, CallsAreStarted
<1>4. NumbersAreOwned'
  <2>1. ASSUME NEW d \in Applies, apply'[d].attempt # 0
        PROVE  /\ apply[d].attempt = apply'[d].attempt /\ apply'[d].pc # "idle"
               /\ operation(d)' = operation(d) /\ operation(d) \in Operations
    BY <2>1, <1>2, CallFields DEF WriteInv, NumbersAreOwned, operation
  <2>2. ASSUME NEW d \in Applies, apply'[d].attempt # 0
        PROVE  apply'[d].attempt <= Number(operation(d))'
    BY <2>1, <2>2, <1>1 DEF WriteInv, NumbersAreOwned
  <2> QED BY <2>1, <2>2 DEF WriteInv, NumbersAreOwned
<1>5. WorkIsInFlight'
  <2>1. apply'[c].pc \in Working => apply'[c].request = apply[c].request
    BY DEF Working
  <2> QED BY <2>1 DEF WriteInv, WorkIsInFlight, operation
<1>6. ClaimsAreHeld'
  <2> SUFFICES ASSUME NEW o \in Operations, effect[o].status = "claimed"
               PROVE  \E d \in Applies : /\ apply'[d].attempt = effect[o].attempt
                                        /\ operation(d)' = o
                                        /\ apply'[d].pc \in Working \union Lost
    BY DEF ClaimsAreHeld, HeldBy
  <2>1. PICK d \in HeldBy(o) : apply[d].pc \in Working \union Lost
    BY DEF WriteInv, ClaimsAreHeld
  <2>2. d \in Applies /\ apply[d].attempt = effect[o].attempt /\ operation(d) = o
    BY <2>1 DEF HeldBy
  <2>3. apply[d].attempt # 0
    BY <2>2, NumberType DEF WriteInv, WriteTypeOK, EFFECT_STATES
  <2>4. apply'[d].attempt = effect[o].attempt /\ operation(d)' = o
    BY <2>2, <2>3, <1>2 DEF operation
  <2>5. apply'[d].pc \in Working \union Lost
    BY <2>1, <2>2
  <2> QED BY <2>2, <2>4, <2>5
<1> QED BY <1>3, <1>4, <1>5, <1>6 DEF CallsInv

(* An outcome, whoever reports it: nobody is at work on its effect after   *)
(* it, and the calls of other effects stay where they are.                 *)
LEMMA OutcomeStepKeeps ==
  ASSUME WriteInv, NEW o \in Operations, OutcomeStep(o), effect'[o].status # "claimed",
         tree' = tree,
         \A d \in Applies :
           /\ apply'[d].attempt = apply[d].attempt /\ apply'[d].request = apply[d].request
           /\ \/ apply'[d].pc = apply[d].pc
              \/ /\ apply'[d].pc \notin Working \union Waiting
                 /\ apply[d].pc # "idle" /\ operation(d) = o
           /\ apply'[d].pc \in Working => operation(d) # o
  PROVE  CallsInv'
<1>1. /\ effect[o] \in EffectRow /\ effect'[o] \in EffectRow
      /\ effect'[o].attempt = effect[o].attempt
      /\ \A p \in Operations \ {o} : effect'[p] = effect[p]
  BY OutcomeMovesRow DEF WriteInv, WriteTypeOK
<1>2. \A p \in Operations : Number(p)' = Number(p)
  BY <1>1, RowFields DEF Number
<1>3. \A d \in Applies : operation(d)' = operation(d)
  BY DEF operation
<1>4. CallsAreStarted'
  BY DEF WriteInv, CallsAreStarted, Waiting
<1>5. NumbersAreOwned'
  <2>1. ASSUME NEW d \in Applies, apply'[d].attempt # 0
        PROVE  apply'[d].pc # "idle" /\ apply'[d].attempt <= Number(operation(d))'
    BY <2>1, <1>2, <1>3, CallFields DEF WriteInv, NumbersAreOwned, Waiting
  <2> QED BY <2>1, <1>3 DEF WriteInv, NumbersAreOwned
<1>6. WorkIsInFlight'
  <2> SUFFICES ASSUME NEW d \in Applies, apply'[d].pc \in Working
               PROVE  /\ effect'[operation(d)].status = "claimed"
                      /\ apply'[d].attempt = effect'[operation(d)].attempt
    BY <1>3 DEF WorkIsInFlight
  <2>1. apply[d].pc \in Working /\ operation(d) # o
    OBVIOUS
  <2>2. operation(d) \in Operations
    BY <2>1, CallFields DEF Working
  <2> QED BY <2>1, <2>2, <1>1 DEF WriteInv, WorkIsInFlight
<1>7. ClaimsAreHeld'
  <2> SUFFICES ASSUME NEW p \in Operations, effect'[p].status = "claimed"
               PROVE  \E d \in Applies : /\ apply'[d].attempt = effect'[p].attempt
                                        /\ operation(d)' = p
                                        /\ apply'[d].pc \in Working \union Lost
    BY DEF ClaimsAreHeld, HeldBy
  <2>1. p # o /\ effect'[p] = effect[p]
    BY <1>1
  <2>2. PICK d \in HeldBy(p) : apply[d].pc \in Working \union Lost
    BY <2>1 DEF WriteInv, ClaimsAreHeld
  <2> QED BY <2>1, <2>2, <1>3 DEF HeldBy
<1> QED BY <1>4, <1>5, <1>6, <1>7 DEF CallsInv

(* Two calls at work on one operation are one. *)
LEMMA OneAtWork ==
  ASSUME WriteInv, NEW c \in Applies, NEW d \in Applies,
         apply[c].pc \in Working, apply[d].pc \in Working, operation(c) = operation(d)
  PROVE  c = d
<1>1. operation(c) \in Operations
  BY CallFields DEF Working
<1>2. /\ effect[operation(c)].status = "claimed"
      /\ apply[c].attempt = effect[operation(c)].attempt /\ apply[d].attempt = apply[c].attempt
  BY DEF WriteInv, WorkIsInFlight
<1>3. apply[c].attempt # 0
  BY <1>1, <1>2, NumberType DEF WriteInv, WriteTypeOK, EFFECT_STATES
<1> QED BY <1>2, <1>3 DEF WriteInv, NumbersAreOwned

(* The steps of a call that neither claim nor settle. *)
LEMMA CallKeepsInv ==
  ASSUME WriteInv, NEW c \in Applies,
         \/ StartApply(c) \/ MakeWorktree(c) \/ RecordFingerprint(c) \/ DeclareWrite(c)
         \/ CheckTarget(c) \/ ApplyPatch(c) \/ Commit(c) \/ CloseRun(c) \/ Crash(c)
  PROVE  CallsInv'
<1> USE DEF Waiting, Working, Lost
<1>1. CASE StartApply(c)
  <2>1. effect' = effect /\ tree' = tree /\ At(c, "idle")
    BY <1>1 DEF StartApply, EnsureRun, CreateRun, vars
  <2>2. PICK q \in Requests :
          apply' = [apply EXCEPT ![c].pc = "started", ![c].request = q, ![c].diff = patchFile]
    BY <1>1 DEF StartApply
  <2>3. /\ apply'[c].pc = "started" /\ apply'[c].request = q /\ apply'[c].attempt = apply[c].attempt
        /\ \A d \in Applies \ {c} : apply'[d] = apply[d]
    BY <2>2 DEF WriteInv, WriteTypeOK
  <2> QED BY <2>1, <2>3, QuietStep DEF At
<1>2. ASSUME NEW step, Goto(c, step), effect' = effect, tree.base # NoBase => tree'.base # NoBase,
             step # "idle", step = "treed" => tree'.base # NoBase,
             apply[c].pc # "idle",
             step \in Working => apply[c].pc \in Working,
             step \in Waiting => apply[c].pc \in Waiting,
             apply[c].pc \in Working \union Lost /\ effect[operation(c)].status = "claimed" =>
               step \in Working \union Lost
      PROVE  CallsInv'
  <2>1. /\ apply'[c].pc = step /\ apply'[c].attempt = apply[c].attempt
        /\ apply'[c].request = apply[c].request /\ \A d \in Applies \ {c} : apply'[d] = apply[d]
    BY <1>2, Gone
  <2>2. apply[c].request \in Requests
    BY <1>2 DEF WriteInv, CallsAreStarted
  <2> QED BY <1>2, <2>1, <2>2, QuietStep
<1>3. CASE MakeWorktree(c)
  <2>1. main # NoBase /\ effect' = effect /\ At(c, "started")
    BY <1>3, WriteAssumption DEF MakeWorktree, vars, WriteInv, WriteTypeOK
  <2>2. \/ tree' = tree /\ tree.base # NoBase /\ Goto(c, "treed")
        \/ tree' = tree /\ Goto(c, "ended")
        \/ tree' = [tree EXCEPT !.base = main] /\ Goto(c, "treed")
    BY <1>3 DEF MakeWorktree
  <2>3. tree' = [tree EXCEPT !.base = main] => tree'.base # NoBase
    BY <2>1 DEF WriteInv, WriteTypeOK
  <2> QED BY <2>1, <2>2, <2>3, <1>2 DEF At
<1>4. CASE RecordFingerprint(c)
  <2>1. effect' = effect /\ tree' = tree /\ At(c, "treed") /\ Goto(c, "recorded")
    BY <1>4 DEF RecordFingerprint, vars
  <2> QED BY <2>1, <1>2 DEF At
<1>5. CASE DeclareWrite(c)
  <2>1. effect' = effect /\ tree' = tree /\ At(c, "recorded") /\ Goto(c, "declared")
    BY <1>5 DEF DeclareWrite, DeclareExposure
  <2> QED BY <2>1, <1>2 DEF At
<1>6. CASE CheckTarget(c)
  <2>1. effect' = effect /\ tree' = tree /\ At(c, "claimed") /\ (Goto(c, "checked") \/ Goto(c, "refused"))
    BY <1>6 DEF CheckTarget, vars
  <2> QED BY <2>1, <1>2 DEF At
<1>7. CASE ApplyPatch(c)
  <2>1. /\ effect' = effect /\ At(c, "checked") /\ (Goto(c, "applied") \/ Goto(c, "doubtful"))
        /\ tree.base # NoBase => tree'.base # NoBase
    BY <1>7 DEF ApplyPatch, vars, WriteInv, WriteTypeOK
  <2> QED BY <2>1, <1>2 DEF At
<1>8. CASE Commit(c)
  <2>1. CASE Goto(c, "doubtful") /\ UNCHANGED tree
    <3>1. effect' = effect /\ At(c, "applied")
      BY <1>8 DEF Commit, vars
    <3> QED BY <2>1, <3>1, <1>2 DEF At
  <2>2. CASE /\ tree' = [tree EXCEPT !.commits = Append(@, tree.dirty), !.dirty = {}]
             /\ apply' = [apply EXCEPT ![c].pc = "committed", ![c].made = Len(tree.commits) + 1]
    <3>1. effect' = effect /\ At(c, "applied")
      BY <1>8 DEF Commit, vars
    <3>2. tree'.base = tree.base
      BY <2>2 DEF WriteInv, WriteTypeOK
    <3>3. /\ apply'[c].pc = "committed" /\ apply'[c].attempt = apply[c].attempt
          /\ apply'[c].request = apply[c].request /\ \A d \in Applies \ {c} : apply'[d] = apply[d]
      BY <2>2 DEF WriteInv, WriteTypeOK
    <3>4. apply[c].request \in Requests
      BY <3>1 DEF At, WriteInv, CallsAreStarted
    <3> QED BY <3>1, <3>2, <3>3, <3>4, QuietStep DEF At
  <2> QED BY <1>8, <2>1, <2>2 DEF Commit
<1>9. CASE CloseRun(c)
  <2>1. /\ effect' = effect /\ tree' = tree /\ At(c, "closing")
        /\ Goto(c, "completed") \/ Goto(c, "ended")
    BY <1>9 DEF CloseRun, CompleteRun, vars
  <2> QED BY <2>1, <1>2 DEF At
<1>10. CASE Crash(c)
  <2>1. effect' = effect /\ tree' = tree /\ apply[c].pc # "idle" /\ Goto(c, "dead")
    BY <1>10 DEF Crash, vars
  <2> QED BY <2>1, <1>2
<1> QED BY <1>1, <1>3, <1>4, <1>5, <1>6, <1>7, <1>8, <1>9, <1>10

(* A call that reports: its attempt is settled, or the claim is left.      *)
LEMMA ReportKeepsInv ==
  ASSUME WriteInv, NEW c \in Applies, ReportDoubt(c) \/ CompleteWrite(c)
  PROVE  CallsInv'
<1> DEFINE o == operation(c)
<1>1. /\ apply[c].pc \in Working /\ tree' = tree /\ o \in Operations
      /\ apply[c].pc # "idle" /\ apply[c].request \in Requests
  BY CallFields DEF ReportDoubt, CompleteWrite, At, Working, WriteInv, CallsAreStarted
<1>2. CASE UNCHANGED vars /\ Goto(c, "unreported")
  <2>1. effect' = effect
    BY <1>2 DEF vars
  <2>2. /\ apply'[c].pc = "unreported" /\ apply'[c].attempt = apply[c].attempt
        /\ apply'[c].request = apply[c].request /\ \A d \in Applies \ {c} : apply'[d] = apply[d]
    BY <1>2, Gone
  <2> QED BY <1>1, <2>1, <2>2, QuietStep DEF Working, Waiting, Lost
<1>3. CASE (MarkEffectUncertain(o) \/ CompleteEffect(o)) /\ (Goto(c, "ended") \/ Goto(c, "closing"))
  <2>1. OutcomeStep(o) /\ effect'[o].status # "claimed"
    BY <1>1, <1>3, OutcomeMovesRow DEF OutcomeStep, WriteInv, WriteTypeOK
  <2>2. PICK step \in {"ended", "closing"} : Goto(c, step)
    BY <1>3
  <2>3. /\ apply'[c].pc = step /\ apply'[c].attempt = apply[c].attempt
        /\ apply'[c].request = apply[c].request /\ \A d \in Applies \ {c} : apply'[d] = apply[d]
    BY <2>2, Gone
  <2>4. step \notin Working \union Waiting
    BY DEF Working, Waiting
  <2>5. ASSUME NEW d \in Applies, apply'[d].pc \in Working PROVE operation(d) # o
    <3>1. d # c /\ apply[d].pc \in Working
      BY <2>3, <2>4, <2>5
    <3> QED BY <3>1, <1>1, OneAtWork
  <2>6. \A d \in Applies :
           /\ apply'[d].attempt = apply[d].attempt /\ apply'[d].request = apply[d].request
           /\ \/ apply'[d].pc = apply[d].pc
              \/ /\ apply'[d].pc \notin Working \union Waiting
                 /\ apply[d].pc # "idle" /\ operation(d) = o
           /\ apply'[d].pc \in Working => operation(d) # o
    BY <1>1, <2>3, <2>4, <2>5
  <2> HIDE DEF o
  <2> QED BY <1>1, <2>1, <2>6, OutcomeStepKeeps
<1> QED BY <1>2, <1>3 DEF ReportDoubt, CompleteWrite

(* A claim hands out a number that no call of the operation has.           *)
LEMMA ClaimKeepsInv ==
  ASSUME WriteInv, NEW c \in Applies, ClaimWrite(c)
  PROVE  CallsInv'
<1>0. /\ apply[c].request \in Requests /\ operation(c) \in Operations /\ tree' = tree
      /\ apply[c].pc = "declared" /\ apply[c].attempt = 0
  BY CallFields DEF ClaimWrite, At, WriteInv, CallsAreStarted, Waiting
<1>1. PICK q \in Requests, o \in Operations :
        q = apply[c].request /\ o = operation(c) /\ o = q.op
  BY <1>0 DEF operation
<1>2. CASE effect' = effect /\ \E step \in {"ended", "closing"} : Goto(c, step)
  <2>1. PICK step \in {"ended", "closing"} : Goto(c, step)
    BY <1>2
  <2>2. /\ apply'[c].pc = step /\ apply'[c].attempt = apply[c].attempt
        /\ apply'[c].request = apply[c].request /\ \A d \in Applies \ {c} : apply'[d] = apply[d]
    BY <2>1, Gone
  <2> QED BY <1>0, <1>2, <2>2, QuietStep DEF Working, Waiting, Lost
<1>3. CASE /\ ClaimStep(WriteRun, q) /\ effect' # effect
           /\ apply' = [apply EXCEPT ![c].pc = "claimed", ![c].attempt = effect'[o].attempt]
  <2>1. /\ effect'[o] \in EffectRow /\ effect'[o].status = "claimed"
        /\ \A p \in Operations \ {o} : effect'[p] = effect[p]
        /\ effect[o].status \in {"none", "retryable"}
        /\ effect'[o].attempt = Number(o) + 1 /\ Number(o)' = Number(o) + 1 /\ Number(o) \in Nat
    <3>1. /\ effect'[o] \in EffectRow /\ effect'[o].status = "claimed"
          /\ \A p \in Operations \ {o} : effect'[p] = effect[p]
          /\ \/ effect[o] = NoRow /\ effect'[o].attempt = 1
             \/ /\ effect[o] \in EffectRow /\ effect[o].status = "retryable"
                /\ effect'[o].attempt = effect[o].attempt + 1
      BY <1>1, <1>3, WriteAssumption, ClaimMovesRow DEF WriteInv, WriteTypeOK
    <3>2. effect'[o] # NoRow /\ (effect[o] \in EffectRow => effect[o] # NoRow) /\ NoRow.status = "none"
      BY <3>1, RowFields DEF NoRow
    <3>3. Number(o) \in Nat
      BY <1>1, NumberType DEF WriteInv, WriteTypeOK
    <3> QED BY <3>1, <3>2, <3>3 DEF Number
  <2>2. /\ apply'[c].pc = "claimed" /\ apply'[c].attempt = Number(o) + 1
        /\ apply'[c].request = apply[c].request /\ \A d \in Applies \ {c} : apply'[d] = apply[d]
    BY <1>3, <2>1 DEF WriteInv, WriteTypeOK
  <2>3. \A d \in Applies : operation(d)' = operation(d)
    BY <2>2 DEF operation
  <2>4. \A p \in Operations \ {o} : Number(p)' = Number(p)
    BY <2>1 DEF Number
  <2>5. ASSUME NEW d \in Applies, operation(d) = o
        PROVE  apply[d].attempt \in Nat /\ apply[d].attempt <= Number(o) /\ apply[d].pc \notin Working
    <3>1. apply[d].attempt \in Nat /\ apply[d].attempt <= Number(o)
      BY <2>1, <2>5, CallFields DEF WriteInv, NumbersAreOwned
    <3>2. apply[d].pc \notin Working
      BY <2>1, <2>5 DEF WriteInv, WorkIsInFlight
    <3> QED BY <3>1, <3>2
  <2>6. CallsAreStarted'
    BY <1>0, <2>2 DEF WriteInv, CallsAreStarted, Waiting
  <2>7. NumbersAreOwned'
    <3>1. ASSUME NEW d \in Applies, apply'[d].attempt # 0
          PROVE  apply'[d].pc # "idle" /\ apply'[d].attempt <= Number(operation(d))'
      <4>1. CASE d = c
        <5>1. operation(d)' = o
          BY <4>1, <1>1, <2>2 DEF operation
        <5>2. apply'[d].pc = "claimed" /\ apply'[d].attempt = Number(o)'
          BY <4>1, <2>1, <2>2
        <5>3. Number(o)' \in Nat
          BY <2>1
        <5>4. apply'[d].attempt <= Number(o)'
          BY <5>2, <5>3
        <5> QED BY <5>1, <5>2, <5>4
      <4>2. CASE d # c /\ operation(d) = o
        <5>1. apply[d].attempt # 0 /\ apply'[d] = apply[d]
          BY <4>2, <3>1, <2>2
        <5> QED BY <5>1, <4>2, <2>1, <2>3, <2>5 DEF WriteInv, NumbersAreOwned
      <4>3. CASE d # c /\ operation(d) # o
        <5>1. apply[d].attempt # 0 /\ apply'[d] = apply[d] /\ operation(d) \in Operations
          BY <4>3, <3>1, <2>2, CallFields
        <5> QED BY <5>1, <4>3, <2>3, <2>4 DEF WriteInv, NumbersAreOwned
      <4> QED BY <4>1, <4>2, <4>3
    <3>2. ASSUME NEW d \in Applies, d # c, apply'[d].attempt = apply'[c].attempt,
                 operation(d) = operation(c)
          PROVE  FALSE
      BY <1>1, <3>2, <2>1, <2>2, <2>5
    <3> QED BY <3>1, <3>2, <2>2, <2>3 DEF WriteInv, NumbersAreOwned
  <2>8. WorkIsInFlight'
    <3> SUFFICES ASSUME NEW d \in Applies, apply'[d].pc \in Working
                 PROVE  /\ effect'[operation(d)].status = "claimed"
                        /\ apply'[d].attempt = effect'[operation(d)].attempt
      BY <2>3 DEF WorkIsInFlight
    <3>1. CASE d = c
      BY <1>1, <3>1, <2>1, <2>2
    <3>2. CASE d # c
      <4>1. apply[d].pc \in Working /\ apply'[d] = apply[d]
        BY <3>2, <2>2
      <4>2. operation(d) \in Operations \ {o}
        BY <4>1, <2>5, CallFields DEF Working
      <4> QED BY <4>1, <4>2, <2>1 DEF WriteInv, WorkIsInFlight
    <3> QED BY <3>1, <3>2
  <2>9. ClaimsAreHeld'
    <3> SUFFICES ASSUME NEW p \in Operations, effect'[p].status = "claimed"
                 PROVE  \E d \in Applies : /\ apply'[d].attempt = effect'[p].attempt
                                          /\ operation(d)' = p
                                          /\ apply'[d].pc \in Working \union Lost
      BY DEF ClaimsAreHeld, HeldBy
    <3>1. CASE p = o
      <4>1. apply'[c].attempt = effect'[p].attempt /\ operation(c)' = p /\ apply'[c].pc \in Working
        BY <1>1, <3>1, <2>1, <2>2, <2>3 DEF Working
      <4> QED BY <4>1
    <3>2. CASE p # o
      <4>1. PICK d \in HeldBy(p) : apply[d].pc \in Working \union Lost
        BY <3>2, <2>1 DEF WriteInv, ClaimsAreHeld
      <4>2. d \in Applies \ {c} /\ apply[d].attempt = effect[p].attempt /\ operation(d) = p
        BY <4>1, <3>2, <1>1 DEF HeldBy
      <4> QED BY <4>1, <4>2, <3>2, <2>1, <2>2, <2>3
    <3> QED BY <3>1, <3>2
  <2> QED BY <2>6, <2>7, <2>8, <2>9 DEF CallsInv
<1> QED BY <1>1, <1>2, <1>3 DEF ClaimWrite, Executable, vars

(* The operator settles what nobody works on. *)
LEMMA SettleKeepsInv ==
  ASSUME WriteInv, NEW o \in Operations, Observe(o) \/ GiveUpOnAttempt(o)
  PROVE  CallsInv'
<1>1. OutcomeStep(o) /\ apply' = apply /\ tree' = tree
  BY DEF Observe, GiveUpOnAttempt, OutcomeStep, writeState
<1>2. effect'[o].status # "claimed"
  <2>1. ReconcileApplied(o) \/ ReconcileNotApplied(o) \/ MarkEffectUncertain(o)
    BY DEF Observe, GiveUpOnAttempt
  <2> QED BY <1>1, <2>1, OutcomeMovesRow DEF WriteInv, WriteTypeOK
<1>3. ASSUME NEW d \in Applies, apply[d].pc \in Working, operation(d) = o PROVE FALSE
  <2>1. effect[o].status = "claimed" /\ apply[d].attempt = effect[o].attempt
    BY <1>3 DEF WriteInv, WorkIsInFlight
  <2>2. d \in HeldBy(o)
    BY <1>3, <2>1 DEF HeldBy
  <2>3. GiveUpOnAttempt(o)
    BY <2>1 DEF Observe
  <2> QED BY <1>3, <2>2, <2>3 DEF GiveUpOnAttempt, Working, Over
<1>4. \A d \in Applies :
           /\ apply'[d].attempt = apply[d].attempt /\ apply'[d].request = apply[d].request
           /\ \/ apply'[d].pc = apply[d].pc
              \/ /\ apply'[d].pc \notin Working \union Waiting
                 /\ apply[d].pc # "idle" /\ operation(d) = o
           /\ apply'[d].pc \in Working => operation(d) # o
  BY <1>1, <1>3
<1> QED BY <1>1, <1>2, <1>4, OutcomeStepKeeps

(* The steps that touch neither calls nor effects nor the worktree.        *)
OthersStep ==
  \/ \E p \in Patches : Propose(p)
  \/ \E q \in Requests : RequestWrite(q)
  \/ \E o \in Operations : ApproveWrite(o) \/ (DenyApproval(o) /\ UNCHANGED writeState)
  \/ (SafeStopRun(WriteRun) \/ RestartRun(WriteRun)) /\ UNCHANGED writeState
  \/ Develop
  \/ UNCHANGED writeVars

LEMMA OthersTouchNothing ==
  ASSUME OthersStep
  PROVE  UNCHANGED <<effect, apply, tree, fingerprint>>
BY DEF OthersStep, Propose, EnsureRun, CreateRun, RequestWrite, RequestApproval, ApproveWrite, Approve,
   DenyApproval, DecideApproval, SafeStopRun, RestartRun, Develop, writeState, writeVars, vars

LEMMA OthersKeepInv ==
  ASSUME WriteInv, OthersStep
  PROVE  CallsInv' /\ TreeInv'
<1>1. UNCHANGED <<effect, apply, tree, fingerprint>>
  BY OthersTouchNothing
<1>2. \A c \in Applies : operation(c)' = operation(c)
  BY <1>1 DEF operation
<1>3. \A o \in Operations : Number(o)' = Number(o) /\ HeldBy(o)' = HeldBy(o)
  BY <1>1, <1>2 DEF Number, HeldBy
<1>4. Committed' = Committed
  BY <1>1 DEF Committed, Range
<1>5. CallsAreStarted' /\ WorkIsInFlight' /\ ClaimsAreHeld'
  BY <1>1, <1>2, <1>3 DEF WriteInv, CallsAreStarted, WorkIsInFlight, ClaimsAreHeld
<1>6. NumbersAreOwned'
  <2>1. ASSUME NEW c \in Applies, apply[c].attempt # 0
        PROVE  Number(operation(c))' = Number(operation(c))
    BY <1>1, <1>2 DEF Number
  <2> QED BY <1>1, <1>2, <2>1 DEF WriteInv, NumbersAreOwned
<1>7. TreeStands' /\ CommitsAreCurrent' /\ ClosedIsCompleted' /\ CompletedWriteLanded'
  BY <1>1, <1>2, <1>4 DEF WriteInv, TreeStands, CommitsAreCurrent, ClosedIsCompleted,
     CompletedWriteLanded, At
<1> QED BY <1>5, <1>6, <1>7 DEF CallsInv, TreeInv

-----------------------------------------------------------------------------
(* The worktree. *)

LEMMA CommittedGrows ==
  ASSUME WriteInv, tree' = [tree EXCEPT !.commits = Append(@, tree.dirty), !.dirty = {}]
  PROVE  /\ Committed' = Committed \union tree.dirty
         /\ tree'.base = tree.base /\ tree'.dirty = {} /\ tree'.commits # <<>>
<1>1. tree.commits \in Seq(SUBSET Patches) /\ tree.dirty \in SUBSET Patches
  BY DEF WriteInv, WriteTypeOK
<1> DEFINE s == tree.commits
           t == Append(s, tree.dirty)
<1>2. tree'.commits = t /\ tree'.base = tree.base /\ tree'.dirty = {}
  BY DEF WriteInv, WriteTypeOK
<1>3. /\ Len(t) = Len(s) + 1 /\ t[Len(s) + 1] = tree.dirty /\ t # <<>>
      /\ \A i \in 1 .. Len(s) : t[i] = s[i]
      /\ DOMAIN t = 1 .. Len(s) + 1 /\ DOMAIN s = 1 .. Len(s) /\ Len(s) \in Nat
  BY <1>1, AppendProperties, LenProperties
<1>4. Range(t) = Range(s) \union {tree.dirty}
  BY <1>3 DEF Range
<1> QED BY <1>2, <1>3, <1>4 DEF Committed

(* A call moves on, while worktree, record and effects stay.               *)
LEMMA QuietTree ==
  ASSUME WriteInv, NEW c \in Applies, UNCHANGED <<effect, tree, fingerprint>>,
         \A d \in Applies \ {c} : apply'[d] = apply[d],
         apply'[c].attempt = apply[c].attempt, apply'[c].made = apply[c].made,
         \/ apply'[c].request = apply[c].request /\ apply'[c].diff = apply[c].diff
         \/ apply[c].pc = "idle",
         apply'[c].pc \notin {"applied", "committed"},
         apply'[c].pc = "checked" => tree.base = fingerprint /\ tree.base # NoBase,
         apply'[c].pc \in {"closing", "completed"} =>
           apply[c].pc # "idle" /\ effect[operation(c)].status = "completed"
  PROVE  TreeInv'
<1>1. Committed' = Committed
  BY DEF Committed, Range
<1>2. \A d \in Applies : apply[d].pc # "idle" =>
        apply'[d].request = apply[d].request /\ apply'[d].diff = apply[d].diff
  OBVIOUS
<1>3. \A d \in Applies : apply[d].attempt # 0 => apply[d].pc # "idle"
  BY DEF WriteInv, NumbersAreOwned
<1>4. TreeStands'
  BY DEF WriteInv, TreeStands
<1>5. CommitsAreCurrent'
  <2>1. ASSUME NEW d \in Applies, apply'[d].made # 0
        PROVE  /\ apply'[d].attempt # 0 /\ apply'[d].diff \in Committed
               /\ effect[operation(d)'].status \in {"claimed", "uncertain", "completed"}
               /\ apply'[d].attempt = effect[operation(d)'].attempt
    <3>1. apply[d].made # 0 /\ apply[d].attempt # 0 /\ apply'[d].attempt = apply[d].attempt
      BY <2>1 DEF WriteInv, CommitsAreCurrent
    <3>2. apply'[d].request = apply[d].request /\ apply'[d].diff = apply[d].diff
      BY <3>1, <1>2, <1>3
    <3> QED BY <3>1, <3>2 DEF WriteInv, CommitsAreCurrent, operation
  <2>2. ASSUME NEW d \in Applies, apply'[d].pc \in {"applied", "committed"}
        PROVE  apply'[d] = apply[d]
    BY <2>2
  <2> QED BY <1>1, <2>1, <2>2 DEF WriteInv, CommitsAreCurrent
<1>6. ClosedIsCompleted'
  <2>1. ASSUME NEW d \in Applies, apply'[d].pc \in {"closing", "completed"}
        PROVE  effect[operation(d)'].status = "completed"
    BY <2>1, <1>2 DEF WriteInv, ClosedIsCompleted, operation
  <2> QED BY <2>1 DEF ClosedIsCompleted
<1>7. CompletedWriteLanded'
  <2>1. ASSUME NEW o \in Operations, effect[o].status = "completed"
        PROVE  \E d \in Applies : apply'[d].attempt > 0 /\ operation(d)' = o /\ apply'[d].diff \in Committed
    <3>1. PICK d \in Applies : apply[d].attempt > 0 /\ operation(d) = o /\ apply[d].diff \in Committed
      BY <2>1 DEF WriteInv, CompletedWriteLanded
    <3>2. apply[d].attempt # 0 /\ apply'[d].attempt = apply[d].attempt
      BY <3>1
    <3>3. apply'[d].request = apply[d].request /\ apply'[d].diff = apply[d].diff
      BY <3>2, <1>2, <1>3
    <3> QED BY <3>1, <3>2, <3>3 DEF operation
  <2> QED BY <1>1, <1>6, <2>1 DEF CompletedWriteLanded, ClosedIsCompleted, At
<1> QED BY <1>4, <1>5, <1>6, <1>7 DEF TreeInv

(* While a step leaves the calls' attempts, requests and diffs alone and   *)
(* the effects too, what has landed stays landed.                          *)
LEMMA TreeGrows ==
  ASSUME WriteInv, effect' = effect, Committed \subseteq Committed',
         \A d \in Applies :
           /\ apply'[d].attempt = apply[d].attempt
           /\ apply'[d].request = apply[d].request /\ apply'[d].diff = apply[d].diff
           /\ apply'[d].pc \in {"closing", "completed"} => apply'[d].pc = apply[d].pc
  PROVE  ClosedIsCompleted' /\ CompletedWriteLanded'
<1>1. \A d \in Applies : operation(d)' = operation(d)
  BY DEF operation
<1>2. ClosedIsCompleted'
  BY <1>1 DEF WriteInv, ClosedIsCompleted
<1>3. ASSUME NEW o \in Operations, effect[o].status = "completed"
      PROVE  \E d \in Applies : apply'[d].attempt > 0 /\ operation(d)' = o /\ apply'[d].diff \in Committed'
  <2>1. PICK d \in Applies : apply[d].attempt > 0 /\ operation(d) = o /\ apply[d].diff \in Committed
    BY <1>3 DEF WriteInv, CompletedWriteLanded
  <2> QED BY <2>1, <1>1
<1> QED BY <1>2, <1>3 DEF CompletedWriteLanded, ClosedIsCompleted, At

LEMMA BasesAreKnown ==
  ASSUME WriteInv, NEW c \in Applies, apply[c].pc \in Working
  PROVE  tree.base # NoBase /\ fingerprint # NoBase
BY DEF WriteInv, WriteTypeOK, Working, Over

LEMMA CallKeepsTree ==
  ASSUME WriteInv, NEW c \in Applies,
         StartApply(c) \/ DeclareWrite(c) \/ CheckTarget(c) \/ CloseRun(c) \/ Crash(c)
  PROVE  TreeInv'
<1>1. CASE StartApply(c)
  <2>1. UNCHANGED <<effect, tree, fingerprint>> /\ At(c, "idle")
    BY <1>1 DEF StartApply, EnsureRun, CreateRun, vars
  <2>2. PICK q \in Requests :
          apply' = [apply EXCEPT ![c].pc = "started", ![c].request = q, ![c].diff = patchFile]
    BY <1>1 DEF StartApply
  <2>3. /\ apply'[c].pc = "started" /\ apply'[c].attempt = apply[c].attempt
        /\ apply'[c].made = apply[c].made /\ \A d \in Applies \ {c} : apply'[d] = apply[d]
    BY <2>2 DEF WriteInv, WriteTypeOK
  <2> QED BY <2>1, <2>3, QuietTree DEF At
<1>2. ASSUME NEW step, Goto(c, step), UNCHANGED <<effect, tree, fingerprint>>,
             step \notin {"applied", "committed"},
             step = "checked" => tree.base = fingerprint /\ tree.base # NoBase,
             step \in {"closing", "completed"} =>
               apply[c].pc # "idle" /\ effect[operation(c)].status = "completed"
      PROVE  TreeInv'
  <2>1. /\ apply'[c].pc = step
        /\ apply'[c].attempt = apply[c].attempt /\ apply'[c].made = apply[c].made
        /\ apply'[c].request = apply[c].request /\ apply'[c].diff = apply[c].diff
        /\ \A d \in Applies \ {c} : apply'[d] = apply[d]
    BY <1>2, Gone
  <2> QED BY <1>2, <2>1, QuietTree
<1>3. CASE DeclareWrite(c)
  <2>1. UNCHANGED <<effect, tree, fingerprint>> /\ Goto(c, "declared")
    BY <1>3 DEF DeclareWrite, DeclareExposure
  <2> QED BY <2>1, <1>2
<1>4. CASE CheckTarget(c)
  <2>1. /\ UNCHANGED <<effect, tree, fingerprint>>
        /\ (HeadIsFingerprint /\ Goto(c, "checked")) \/ Goto(c, "refused")
    BY <1>4 DEF CheckTarget, vars
  <2>2. tree.base # NoBase
    BY <1>4, BasesAreKnown DEF CheckTarget, At, Working
  <2> QED BY <2>1, <2>2, <1>2 DEF HeadIsFingerprint
<1>5. CASE CloseRun(c)
  <2>1. /\ UNCHANGED <<effect, tree, fingerprint>> /\ apply[c].pc = "closing"
        /\ Goto(c, "completed") \/ Goto(c, "ended")
    BY <1>5 DEF CloseRun, CompleteRun, vars, At
  <2>2. effect[operation(c)].status = "completed"
    BY <2>1 DEF WriteInv, ClosedIsCompleted
  <2> QED BY <2>1, <2>2, <1>2
<1>6. CASE Crash(c)
  <2>1. UNCHANGED <<effect, tree, fingerprint>> /\ Goto(c, "dead")
    BY <1>6 DEF Crash, vars
  <2> QED BY <2>1, <1>2
<1> QED BY <1>1, <1>3, <1>4, <1>5, <1>6

(* A worktree is made where there is none, a record where there is none:   *)
(* then nothing stands on them yet.                                        *)
LEMMA MakingKeepsTree ==
  ASSUME WriteInv, NEW c \in Applies, MakeWorktree(c) \/ RecordFingerprint(c)
  PROVE  TreeInv'
<1>1. PICK step \in {"treed", "ended", "recorded"} : Goto(c, step)
  BY DEF MakeWorktree, RecordFingerprint
<1>2. /\ apply'[c].pc = step
      /\ apply'[c].attempt = apply[c].attempt /\ apply'[c].made = apply[c].made
      /\ apply'[c].request = apply[c].request /\ apply'[c].diff = apply[c].diff
      /\ \A d \in Applies \ {c} : apply'[d] = apply[d]
  BY <1>1, Gone
<1>3. /\ effect' = effect
      /\ tree'.commits = tree.commits /\ tree'.dirty = tree.dirty
      /\ tree.base # NoBase => tree'.base = tree.base
      /\ fingerprint # NoBase => fingerprint' = fingerprint
  BY DEF MakeWorktree, RecordFingerprint, vars, WriteInv, WriteTypeOK
<1>4. Committed' = Committed
  BY <1>3 DEF Committed, Range
<1>5. TreeStands'
  <2>1. \A d \in Applies : apply'[d].pc \in {"checked", "applied"} => apply[d].pc = apply'[d].pc
    BY <1>2
  <2> QED BY <1>3, <2>1 DEF WriteInv, TreeStands
<1>6. \A d \in Applies : operation(d)' = operation(d)
  BY <1>2 DEF operation
<1>7. CommitsAreCurrent'
  <2>1. \A d \in Applies :
          /\ apply'[d].pc \in {"applied", "committed"} => apply[d].pc = apply'[d].pc
          /\ apply'[d].made = apply[d].made /\ apply'[d].attempt = apply[d].attempt
          /\ apply'[d].diff = apply[d].diff
    BY <1>2
  <2> QED BY <1>3, <1>4, <1>6, <2>1 DEF WriteInv, CommitsAreCurrent
<1>8. \A d \in Applies :
           /\ apply'[d].attempt = apply[d].attempt
           /\ apply'[d].request = apply[d].request /\ apply'[d].diff = apply[d].diff
           /\ apply'[d].pc \in {"closing", "completed"} => apply'[d].pc = apply[d].pc
  BY <1>2
<1> QED BY <1>3, <1>4, <1>5, <1>7, <1>8, TreeGrows DEF TreeInv

LEMMA PatchKeepsTree ==
  ASSUME WriteInv, NEW c \in Applies, ApplyPatch(c)
  PROVE  TreeInv'
<1>1. CASE Goto(c, "doubtful") /\ UNCHANGED tree
  <2>1. UNCHANGED <<effect, tree, fingerprint>>
    BY <1>1 DEF ApplyPatch, vars
  <2>2. /\ apply'[c].pc = "doubtful"
        /\ apply'[c].attempt = apply[c].attempt /\ apply'[c].made = apply[c].made
        /\ apply'[c].request = apply[c].request /\ apply'[c].diff = apply[c].diff
        /\ \A d \in Applies \ {c} : apply'[d] = apply[d]
    BY <1>1, Gone
  <2> QED BY <2>1, <2>2, QuietTree
<1>2. CASE tree' = [tree EXCEPT !.dirty = @ \union {apply[c].diff}] /\ Goto(c, "applied")
  <2>1. /\ apply'[c].pc = "applied"
        /\ apply'[c].attempt = apply[c].attempt /\ apply'[c].made = apply[c].made
        /\ apply'[c].request = apply[c].request /\ apply'[c].diff = apply[c].diff
        /\ \A d \in Applies \ {c} : apply'[d] = apply[d]
    BY <1>2, Gone
  <2>2. /\ effect' = effect /\ fingerprint' = fingerprint /\ apply[c].pc = "checked"
        /\ tree'.base = tree.base /\ tree'.commits = tree.commits
        /\ tree'.dirty = tree.dirty \union {apply[c].diff}
    BY <1>2 DEF ApplyPatch, At, vars, WriteInv, WriteTypeOK
  <2>3. Committed' = Committed
    BY <2>2 DEF Committed, Range
  <2>4. TreeStands'
    BY <2>1, <2>2 DEF WriteInv, TreeStands
  <2>5. \A d \in Applies : operation(d)' = operation(d)
    BY <2>1 DEF operation
  <2>6. CommitsAreCurrent'
    <3>1. \A d \in Applies :
            /\ apply'[d].pc = "applied" => d = c \/ apply[d].pc = "applied"
            /\ apply'[d].pc = "committed" => apply[d].pc = "committed"
            /\ apply'[d].made = apply[d].made /\ apply'[d].attempt = apply[d].attempt
            /\ apply'[d].diff = apply[d].diff
      BY <2>1
    <3> QED BY <2>2, <2>3, <2>5, <3>1 DEF WriteInv, CommitsAreCurrent
  <2>7. \A d \in Applies :
           /\ apply'[d].attempt = apply[d].attempt
           /\ apply'[d].request = apply[d].request /\ apply'[d].diff = apply[d].diff
           /\ apply'[d].pc \in {"closing", "completed"} => apply'[d].pc = apply[d].pc
    BY <2>1
  <2> QED BY <2>2, <2>3, <2>4, <2>6, <2>7, TreeGrows DEF TreeInv
<1> QED BY <1>1, <1>2 DEF ApplyPatch

(* The patch that a call commits is in the history from then on. *)
LEMMA CommitKeepsTree ==
  ASSUME WriteInv, NEW c \in Applies, Commit(c)
  PROVE  TreeInv'
<1>1. CASE Goto(c, "doubtful") /\ UNCHANGED tree
  <2>1. UNCHANGED <<effect, tree, fingerprint>>
    BY <1>1 DEF Commit, vars
  <2>2. /\ apply'[c].pc = "doubtful"
        /\ apply'[c].attempt = apply[c].attempt /\ apply'[c].made = apply[c].made
        /\ apply'[c].request = apply[c].request /\ apply'[c].diff = apply[c].diff
        /\ \A d \in Applies \ {c} : apply'[d] = apply[d]
    BY <1>1, Gone
  <2> QED BY <2>1, <2>2, QuietTree
<1>2. CASE /\ tree' = [tree EXCEPT !.commits = Append(@, tree.dirty), !.dirty = {}]
           /\ apply' = [apply EXCEPT ![c].pc = "committed", ![c].made = Len(tree.commits) + 1]
  <2>1. /\ apply'[c].pc = "committed" /\ apply'[c].made = Len(tree.commits) + 1
        /\ apply'[c].attempt = apply[c].attempt
        /\ apply'[c].request = apply[c].request /\ apply'[c].diff = apply[c].diff
        /\ \A d \in Applies \ {c} : apply'[d] = apply[d]
    BY <1>2 DEF WriteInv, WriteTypeOK
  <2>2. effect' = effect /\ fingerprint' = fingerprint /\ apply[c].pc = "applied"
    BY <1>2 DEF Commit, At, vars
  <2>3. /\ Committed' = Committed \union tree.dirty /\ tree'.base = tree.base
        /\ tree'.commits # <<>>
    BY <1>2, CommittedGrows
  <2>4. TreeStands'
    <3>1. tree.base = fingerprint /\ tree.base # NoBase
      BY <2>2 DEF WriteInv, TreeStands
    <3> QED BY <2>1, <2>2, <2>3, <3>1 DEF TreeStands
  <2>5. \A d \in Applies : operation(d)' = operation(d)
    BY <2>1 DEF operation
  <2>6. CommitsAreCurrent'
    <3>1. /\ apply[c].diff \in tree.dirty \union Committed
          /\ effect[operation(c)].status = "claimed" /\ operation(c) \in Operations
          /\ apply[c].attempt = effect[operation(c)].attempt
      BY <2>2, CallFields DEF WriteInv, CommitsAreCurrent, WorkIsInFlight, Working
    <3>2. apply[c].attempt # 0
      BY <3>1, NumberType DEF WriteInv, WriteTypeOK, EFFECT_STATES
    <3>3. Len(tree.commits) + 1 # 0
      BY LenProperties DEF WriteInv, WriteTypeOK
    <3>4. ASSUME NEW d \in Applies \ {c}
          PROVE  /\ apply'[d].pc = "applied" => apply'[d].diff \in Committed'
                 /\ apply'[d].pc = "committed" => apply'[d].made # 0
                 /\ apply'[d].made # 0 =>
                      /\ apply'[d].attempt # 0
                      /\ apply'[d].diff \in Committed'
                      /\ effect'[operation(d)'].status \in {"claimed", "uncertain", "completed"}
                      /\ apply'[d].attempt = effect'[operation(d)'].attempt
      BY <2>1, <2>2, <2>3, <2>5 DEF WriteInv, CommitsAreCurrent
    <3>5. /\ apply'[c].pc # "applied" /\ apply'[c].made # 0
          /\ apply'[c].attempt # 0 /\ apply'[c].diff \in Committed'
          /\ effect'[operation(c)'].status = "claimed"
          /\ apply'[c].attempt = effect'[operation(c)'].attempt
      BY <2>1, <2>2, <2>3, <2>5, <3>1, <3>2, <3>3
    <3> QED BY <3>4, <3>5 DEF CommitsAreCurrent
  <2>7. \A d \in Applies :
           /\ apply'[d].attempt = apply[d].attempt
           /\ apply'[d].request = apply[d].request /\ apply'[d].diff = apply[d].diff
           /\ apply'[d].pc \in {"closing", "completed"} => apply'[d].pc = apply[d].pc
    BY <2>1
  <2> QED BY <2>2, <2>3, <2>4, <2>6, <2>7, TreeGrows DEF TreeInv
<1> QED BY <1>1, <1>2 DEF Commit

(* A claim opens an attempt where nothing has been committed.              *)
LEMMA ClaimKeepsTree ==
  ASSUME WriteInv, NEW c \in Applies, ClaimWrite(c)
  PROVE  TreeInv'
<1>1. /\ apply[c].request \in Requests /\ operation(c) \in Operations
      /\ UNCHANGED <<tree, fingerprint>> /\ apply[c].pc = "declared" /\ apply[c].attempt = 0
  BY CallFields DEF ClaimWrite, At, WriteInv, CallsAreStarted, Waiting
<1>2. ASSUME NEW step \in {"ended", "closing"}, Goto(c, step), effect' = effect,
             step = "closing" => effect[operation(c)].status = "completed"
      PROVE  TreeInv'
  <2>1. /\ apply'[c].pc = step
        /\ apply'[c].attempt = apply[c].attempt /\ apply'[c].made = apply[c].made
        /\ apply'[c].request = apply[c].request /\ apply'[c].diff = apply[c].diff
        /\ \A d \in Applies \ {c} : apply'[d] = apply[d]
    BY <1>2, Gone
  <2> QED BY <1>1, <1>2, <2>1, QuietTree
<1>3. PICK q \in Requests, o \in Operations :
        q = apply[c].request /\ o = operation(c) /\ o = q.op
  BY <1>1 DEF operation
<1>4. CASE /\ ClaimStep(WriteRun, q) /\ effect' # effect
           /\ apply' = [apply EXCEPT ![c].pc = "claimed", ![c].attempt = effect'[o].attempt]
  <2>1. /\ effect'[o].status = "claimed" /\ effect[o].status \in {"none", "retryable"}
        /\ \A p \in Operations \ {o} : effect'[p] = effect[p]
    BY <1>3, <1>4, WriteAssumption, ClaimMovesRow DEF WriteInv, WriteTypeOK, NoRow
  <2>2. /\ apply'[c].pc = "claimed" /\ apply'[c].made = apply[c].made
        /\ \A d \in Applies :
             /\ apply'[d].request = apply[d].request /\ apply'[d].diff = apply[d].diff
        /\ \A d \in Applies \ {c} : apply'[d] = apply[d]
    BY <1>4 DEF WriteInv, WriteTypeOK
  <2>3. \A d \in Applies : operation(d)' = operation(d)
    BY <2>2 DEF operation
  <2>4. Committed' = Committed
    BY <1>1 DEF Committed, Range
  <2>5. TreeStands'
    BY <1>1, <2>2 DEF WriteInv, TreeStands
  <2>6. apply[c].made = 0
    BY <1>1 DEF WriteInv, CommitsAreCurrent
  <2>7. ASSUME NEW d \in Applies, apply[d].made # 0 \/ apply[d].pc \in {"closing", "completed"}
        PROVE  operation(d) \in Operations \ {o}
    <3>1. apply[d].pc # "idle"
      BY <2>7 DEF WriteInv, CommitsAreCurrent, NumbersAreOwned
    <3>2. operation(d) \in Operations
      BY <3>1, CallFields
    <3>3. operation(d) # o
      BY <2>1, <2>7 DEF WriteInv, CommitsAreCurrent, ClosedIsCompleted
    <3> QED BY <3>2, <3>3
  <2>8. CommitsAreCurrent'
    <3>1. ASSUME NEW d \in Applies, apply'[d].made # 0
          PROVE  /\ apply'[d].attempt # 0 /\ apply'[d].diff \in Committed
                 /\ effect'[operation(d)].status \in {"claimed", "uncertain", "completed"}
                 /\ apply'[d].attempt = effect'[operation(d)].attempt
      <4>1. d # c /\ apply'[d] = apply[d]
        BY <2>2, <2>6, <3>1
      <4> QED BY <3>1, <4>1, <2>1, <2>7 DEF WriteInv, CommitsAreCurrent
    <3>2. \A d \in Applies : apply'[d].pc \in {"applied", "committed"} => apply'[d] = apply[d]
      BY <2>2
    <3> QED BY <1>1, <2>3, <2>4, <3>1, <3>2 DEF WriteInv, CommitsAreCurrent
  <2>9. ClosedIsCompleted'
    <3>1. ASSUME NEW d \in Applies, apply'[d].pc \in {"closing", "completed"}
          PROVE  effect'[operation(d)].status = "completed"
      <4>1. d # c /\ apply'[d] = apply[d]
        BY <2>2, <3>1
      <4> QED BY <3>1, <4>1, <2>1, <2>7 DEF WriteInv, ClosedIsCompleted
    <3> QED BY <2>3, <3>1 DEF ClosedIsCompleted
  <2>10. CompletedWriteLanded'
    <3>1. ASSUME NEW p \in Operations, effect'[p].status = "completed"
          PROVE  \E d \in Applies : apply'[d].attempt > 0 /\ operation(d)' = p /\ apply'[d].diff \in Committed'
      <4>1. effect[p].status = "completed"
        BY <2>1, <3>1
      <4>2. PICK d \in Applies : apply[d].attempt > 0 /\ operation(d) = p /\ apply[d].diff \in Committed
        BY <4>1 DEF WriteInv, CompletedWriteLanded
      <4>3. d # c
        BY <4>2, <1>1
      <4> QED BY <4>2, <4>3, <2>2, <2>3, <2>4
    <3> QED BY <2>9, <3>1 DEF CompletedWriteLanded, ClosedIsCompleted, At
  <2> QED BY <2>5, <2>8, <2>9, <2>10 DEF TreeInv
<1> QED BY <1>2, <1>3, <1>4 DEF ClaimWrite, Executable, vars

(* An outcome: completed only for what has landed, and found not applied   *)
(* only where nothing has.                                                 *)
LEMMA OutcomeKeepsTree ==
  ASSUME WriteInv, NEW o \in Operations, OutcomeStep(o), UNCHANGED <<tree, fingerprint>>,
         effect'[o].status \in {"completed", "uncertain", "retryable"},
         effect'[o].status = "completed" => Landed(o),
         effect'[o].status = "retryable" => ~Landed(o),
         \A d \in Applies :
           /\ apply'[d].attempt = apply[d].attempt /\ apply'[d].made = apply[d].made
           /\ apply'[d].request = apply[d].request /\ apply'[d].diff = apply[d].diff
           /\ \/ apply'[d].pc = apply[d].pc
              \/ apply'[d].pc = "ended"
              \/ apply'[d].pc = "closing" /\ operation(d) = o /\ effect'[o].status = "completed"
  PROVE  TreeInv'
<1>1. /\ effect[o] \in EffectRow /\ effect'[o] \in EffectRow
      /\ effect'[o].attempt = effect[o].attempt
      /\ effect[o].status \in {"claimed", "uncertain", "retryable"}
      /\ \A p \in Operations \ {o} : effect'[p] = effect[p]
  BY OutcomeMovesRow DEF WriteInv, WriteTypeOK
<1>2. \A d \in Applies : operation(d)' = operation(d)
  BY DEF operation
<1>3. Committed' = Committed
  BY DEF Committed, Range
<1>4. TreeStands'
  BY DEF WriteInv, TreeStands
<1>5. CommitsAreCurrent'
  <2>1. ASSUME NEW d \in Applies, apply[d].made # 0
        PROVE  /\ apply[d].attempt # 0 /\ apply[d].diff \in Committed
               /\ effect'[operation(d)].status \in {"claimed", "uncertain", "completed"}
               /\ apply[d].attempt = effect'[operation(d)].attempt
    <3>1. /\ apply[d].attempt # 0 /\ apply[d].diff \in Committed
          /\ effect[operation(d)].status \in {"claimed", "uncertain", "completed"}
          /\ apply[d].attempt = effect[operation(d)].attempt
      BY <2>1 DEF WriteInv, CommitsAreCurrent
    <3>2. operation(d) \in Operations
      BY <3>1, CallFields
    <3>3. CASE operation(d) = o
      <4>1. d \in HeldBy(o)
        BY <3>1, <3>3 DEF HeldBy
      <4>2. effect'[o].status # "retryable"
        BY <3>1, <4>1 DEF Landed
      <4> QED BY <3>1, <3>3, <4>2, <1>1
    <3>4. CASE operation(d) # o
      BY <3>1, <3>2, <3>4, <1>1
    <3> QED BY <3>3, <3>4
  <2>2. \A d \in Applies : apply'[d].pc \in {"applied", "committed"} => apply'[d].pc = apply[d].pc
    OBVIOUS
  <2> QED BY <1>2, <1>3, <2>1, <2>2 DEF WriteInv, CommitsAreCurrent
<1>6. ClosedIsCompleted'
  <2>1. ASSUME NEW d \in Applies, apply'[d].pc \in {"closing", "completed"}
        PROVE  effect'[operation(d)].status = "completed"
    <3>1. CASE apply'[d].pc = apply[d].pc
      <4>1. effect[operation(d)].status = "completed" /\ apply[d].pc # "idle"
        BY <2>1, <3>1 DEF WriteInv, ClosedIsCompleted
      <4>2. operation(d) \in Operations \ {o}
        BY <4>1, <1>1, CallFields
      <4> QED BY <4>1, <4>2, <1>1
    <3>2. CASE apply'[d].pc # apply[d].pc
      BY <2>1, <3>2
    <3> QED BY <3>1, <3>2
  <2> QED BY <1>2, <2>1 DEF ClosedIsCompleted
<1>7. CompletedWriteLanded'
  <2>1. ASSUME NEW p \in Operations, effect'[p].status = "completed"
        PROVE  \E d \in Applies : apply[d].attempt > 0 /\ operation(d) = p /\ apply[d].diff \in Committed
    <3>1. CASE p = o
      <4>1. PICK d \in HeldBy(o) : apply[d].diff \in Committed
        BY <2>1, <3>1 DEF Landed
      <4>2. d \in Applies /\ apply[d].attempt = effect[o].attempt /\ operation(d) = o
        BY <4>1 DEF HeldBy
      <4>3. effect[o].attempt \in Nat \ {0}
        BY <1>1 DEF EffectRow
      <4> QED BY <3>1, <4>1, <4>2, <4>3
    <3>2. CASE p # o
      BY <2>1, <3>2, <1>1 DEF WriteInv, CompletedWriteLanded
    <3> QED BY <3>1, <3>2
  <2> QED BY <1>2, <1>3, <1>6, <2>1 DEF CompletedWriteLanded, ClosedIsCompleted, At
<1> QED BY <1>4, <1>5, <1>6, <1>7 DEF TreeInv

LEMMA ReportKeepsTree ==
  ASSUME WriteInv, NEW c \in Applies, ReportDoubt(c) \/ CompleteWrite(c)
  PROVE  TreeInv'
<1>1. /\ apply[c].pc \in {"doubtful", "committed"} /\ UNCHANGED <<tree, fingerprint>>
      /\ apply[c].pc = "doubtful" => ReportDoubt(c)
      /\ apply[c].pc = "committed" => CompleteWrite(c)
  BY DEF ReportDoubt, CompleteWrite, At
<1>2. PICK o \in Operations : o = operation(c)
  BY <1>1, CallFields
<1>3. PICK step \in {"ended", "unreported", "closing"} : Goto(c, step)
  BY DEF ReportDoubt, CompleteWrite
<1>4. /\ apply'[c].pc = step
      /\ apply'[c].attempt = apply[c].attempt /\ apply'[c].made = apply[c].made
      /\ apply'[c].request = apply[c].request /\ apply'[c].diff = apply[c].diff
      /\ \A d \in Applies \ {c} : apply'[d] = apply[d]
  BY <1>3, Gone
<1>5. CASE UNCHANGED vars /\ Goto(c, "unreported")
  <2>1. /\ apply'[c].pc = "unreported" /\ effect' = effect
        /\ apply'[c].attempt = apply[c].attempt /\ apply'[c].made = apply[c].made
        /\ apply'[c].request = apply[c].request /\ apply'[c].diff = apply[c].diff
        /\ \A d \in Applies \ {c} : apply'[d] = apply[d]
    BY <1>5, Gone DEF vars
  <2> QED BY <1>1, <2>1, QuietTree
<1>6. CASE ReportDoubt(c) /\ MarkEffectUncertain(o) /\ Goto(c, "ended")
  <2>1. OutcomeStep(o) /\ effect'[o].status = "uncertain"
    BY <1>6, OutcomeMovesRow DEF OutcomeStep, WriteInv, WriteTypeOK
  <2>2. apply'[c].pc = "ended"
    BY <1>6, Gone
  <2> QED BY <1>1, <1>4, <2>1, <2>2, OutcomeKeepsTree
<1>7. CASE CompleteWrite(c) /\ CompleteEffect(o) /\ Goto(c, "closing")
  <2>1. OutcomeStep(o) /\ effect'[o].status = "completed"
    BY <1>7, OutcomeMovesRow DEF OutcomeStep, WriteInv, WriteTypeOK
  <2>2. apply'[c].pc = "closing" /\ apply[c].pc = "committed"
    BY <1>7, Gone DEF CompleteWrite, At
  <2>3. Landed(o)
    <3>1. /\ apply[c].diff \in Committed /\ apply[c].attempt = effect[o].attempt
      BY <1>2, <2>2 DEF WriteInv, CommitsAreCurrent
    <3>2. c \in HeldBy(o)
      BY <1>2, <3>1 DEF HeldBy
    <3> QED BY <3>1, <3>2 DEF Landed
  <2> QED BY <1>1, <1>2, <1>4, <2>1, <2>2, <2>3, OutcomeKeepsTree
<1> QED BY <1>2, <1>5, <1>6, <1>7 DEF ReportDoubt, CompleteWrite

LEMMA SettleKeepsTree ==
  ASSUME WriteInv, NEW o \in Operations, Observe(o) \/ GiveUpOnAttempt(o)
  PROVE  TreeInv'
<1>1. OutcomeStep(o) /\ UNCHANGED <<apply, tree, fingerprint>>
  BY DEF Observe, GiveUpOnAttempt, OutcomeStep, writeState
<1>2. /\ ReconcileApplied(o) => effect'[o].status = "completed"
      /\ ReconcileNotApplied(o) => effect'[o].status = "retryable"
      /\ MarkEffectUncertain(o) => effect'[o].status = "uncertain"
  BY <1>1, OutcomeMovesRow DEF WriteInv, WriteTypeOK
<1>3. \/ Landed(o) /\ effect'[o].status = "completed"
      \/ ~Landed(o) /\ effect'[o].status = "retryable"
      \/ effect'[o].status = "uncertain"
  BY <1>2 DEF Observe, GiveUpOnAttempt
<1> QED BY <1>1, <1>3, OutcomeKeepsTree

-----------------------------------------------------------------------------
(* The whole invariant. *)

LEMMA CallsTypePreserved ==
  ASSUME WriteInv, [WriteNext]_writeVars
  PROVE  apply' \in [Applies -> [pc : ApplySteps, request : Requests \union {NoRow},
                                 diff : Patches \union {NoPatch},
                                 attempt : Nat, made : Nat]]
<1> USE DEF ApplySteps, Over
<1> DEFINE Call == [pc : ApplySteps, request : Requests \union {NoRow},
                    diff : Patches \union {NoPatch}, attempt : Nat, made : Nat]
<1>1. apply \in [Applies -> Call] /\ patchFile \in Patches \union {NoPatch}
  BY DEF WriteInv, WriteTypeOK
<1>2. ASSUME NEW c \in Applies, NEW step \in ApplySteps, Goto(c, step)
      PROVE  apply' \in [Applies -> Call]
  BY <1>1, <1>2 DEF Goto
<1>3. ASSUME NEW c \in Applies, StartApply(c) PROVE apply' \in [Applies -> Call]
  <2>1. PICK q \in Requests :
          apply' = [apply EXCEPT ![c].pc = "started", ![c].request = q, ![c].diff = patchFile]
    BY <1>3 DEF StartApply
  <2>2. [apply[c] EXCEPT !.pc = "started", !.request = q, !.diff = patchFile] \in Call
    BY <1>1
  <2>3. apply' = [apply EXCEPT ![c] =
                    [apply[c] EXCEPT !.pc = "started", !.request = q, !.diff = patchFile]]
    BY <2>1
  <2> QED BY <2>2, <2>3, <1>1
<1>4. ASSUME NEW c \in Applies, ClaimWrite(c) PROVE apply' \in [Applies -> Call]
  <2>1. CASE \E step \in ApplySteps : Goto(c, step)
    BY <2>1, <1>2
  <2>2. CASE ~ \E step \in ApplySteps : Goto(c, step)
    <3>1. /\ ClaimStep(WriteRun, apply[c].request) /\ effect' # effect
          /\ apply' = [apply EXCEPT ![c].pc = "claimed",
                                    ![c].attempt = effect'[operation(c)].attempt]
      BY <1>4, <2>2 DEF ClaimWrite, Executable
    <3>2. PICK q \in Requests : q = apply[c].request
      BY <1>4 DEF ClaimWrite, At, WriteInv, CallsAreStarted
    <3>3. effect'[q.op] \in EffectRow
      BY <3>1, <3>2, WriteAssumption, ClaimMovesRow DEF WriteInv, WriteTypeOK
    <3>4. effect'[operation(c)].attempt \in Nat
      BY <3>2, <3>3 DEF operation, EffectRow
    <3>5. PICK n \in Nat : apply' = [apply EXCEPT ![c].pc = "claimed", ![c].attempt = n]
      BY <3>1, <3>4
    <3>6. [apply[c] EXCEPT !.pc = "claimed", !.attempt = n] \in Call
      BY <1>1
    <3>7. apply' = [apply EXCEPT ![c] = [apply[c] EXCEPT !.pc = "claimed", !.attempt = n]]
      BY <3>5
    <3> QED BY <3>6, <3>7, <1>1
  <2> QED BY <2>1, <2>2
<1>5. ASSUME NEW c \in Applies, Commit(c) PROVE apply' \in [Applies -> Call]
  <2>1. CASE Goto(c, "doubtful")
    BY <2>1, <1>2
  <2>2. CASE apply' = [apply EXCEPT ![c].pc = "committed", ![c].made = Len(tree.commits) + 1]
    <3>1. PICK n \in Nat : n = Len(tree.commits) + 1
      BY LenProperties DEF WriteInv, WriteTypeOK
    <3>2. [apply[c] EXCEPT !.pc = "committed", !.made = n] \in Call
      BY <1>1
    <3>3. apply' = [apply EXCEPT ![c] = [apply[c] EXCEPT !.pc = "committed", !.made = n]]
      BY <2>2, <3>1
    <3> QED BY <3>2, <3>3, <1>1
  <2> QED BY <1>5, <2>1, <2>2 DEF Commit
<1>6. ASSUME NEW c \in Applies, ApplyStep(c) \/ Crash(c),
             ~StartApply(c), ~ClaimWrite(c), ~Commit(c)
      PROVE  apply' \in [Applies -> Call]
  <2>1. \E step \in ApplySteps : Goto(c, step)
    BY <1>6 DEF ApplyStep, MakeWorktree, RecordFingerprint, DeclareWrite, CheckTarget, ApplyPatch,
       ReportDoubt, CompleteWrite, CloseRun, Crash
  <2> QED BY <2>1, <1>2
<1>7. (\E p \in Patches : Propose(p)) \/ (\E q \in Requests : RequestWrite(q))
        \/ (\E o \in Operations : Operator(o)) \/ Develop \/ UNCHANGED writeVars
      => apply' = apply
  BY DEF Propose, RequestWrite, Operator, ApproveWrite, Observe, GiveUpOnAttempt, Develop,
     writeState, writeVars
<1> HIDE DEF Call
<1>8. apply' \in [Applies -> Call]
  BY <1>1, <1>3, <1>4, <1>5, <1>6, <1>7 DEF WriteNext
<1> QED BY <1>8 DEF Call

(* From the fingerprint on, both the worktree and the record of its base   *)
(* are there.                                                              *)
LEMMA TreeTypePreserved ==
  ASSUME WriteInv, [WriteNext]_writeVars
  PROVE  /\ tree' \in [base : Bases \union {NoBase}, commits : Seq(SUBSET Patches),
                       dirty : SUBSET Patches]
         /\ main' \in Bases /\ fingerprint' \in Bases \union {NoBase}
         /\ tree.base # NoBase => tree'.base # NoBase
         /\ fingerprint # NoBase => fingerprint' # NoBase
<1> DEFINE Tree == [base : Bases \union {NoBase}, commits : Seq(SUBSET Patches), dirty : SUBSET Patches]
<1> DEFINE Good == /\ tree' \in Tree
                   /\ main' \in Bases /\ fingerprint' \in Bases \union {NoBase}
                   /\ tree.base # NoBase => tree'.base # NoBase
                   /\ fingerprint # NoBase => fingerprint' # NoBase
<1>1. /\ tree \in Tree /\ main \in Bases /\ fingerprint \in Bases \union {NoBase}
      /\ NoBase \notin Bases
  BY WriteAssumption DEF WriteInv, WriteTypeOK
<1>2. UNCHANGED <<tree, main, fingerprint>> => Good
  BY <1>1
<1>3. ASSUME NEW c \in Applies, MakeWorktree(c) PROVE Good
  BY <1>1, <1>3 DEF MakeWorktree
<1>4. ASSUME NEW c \in Applies, RecordFingerprint(c) PROVE Good
  BY <1>1, <1>4 DEF RecordFingerprint
<1>5. ASSUME NEW c \in Applies, ApplyPatch(c) PROVE Good
  <2>1. CASE UNCHANGED tree
    BY <1>5, <1>2, <2>1 DEF ApplyPatch
  <2>2. CASE apply[c].diff \notin tree.dirty \union Committed
             /\ tree' = [tree EXCEPT !.dirty = @ \union {apply[c].diff}]
    <3>1. apply[c].diff \in Patches
      BY <1>5 DEF ApplyPatch, At, WriteInv, CallsHaveDiffs
    <3> QED BY <1>1, <1>5, <2>2, <3>1 DEF ApplyPatch
  <2> QED BY <1>5, <2>1, <2>2 DEF ApplyPatch
<1>6. ASSUME NEW c \in Applies, Commit(c) PROVE Good
  <2>1. CASE UNCHANGED tree
    BY <1>6, <1>2, <2>1 DEF Commit
  <2>2. CASE tree' = [tree EXCEPT !.commits = Append(@, tree.dirty), !.dirty = {}]
    <3>1. Append(tree.commits, tree.dirty) \in Seq(SUBSET Patches)
      BY <1>1
    <3> QED BY <1>1, <1>6, <2>2, <3>1 DEF Commit
  <2> QED BY <1>6, <2>1, <2>2 DEF Commit
<1>7. Develop => Good
  BY <1>1 DEF Develop
<1>8. ASSUME NEW c \in Applies, ApplyStep(c) \/ Crash(c),
             ~MakeWorktree(c), ~RecordFingerprint(c), ~ApplyPatch(c), ~Commit(c)
      PROVE  Good
  BY <1>2, <1>8 DEF ApplyStep, StartApply, DeclareWrite, ClaimWrite, CheckTarget, ReportDoubt,
     CompleteWrite, CloseRun, Crash
<1>9. (\E p \in Patches : Propose(p)) \/ (\E q \in Requests : RequestWrite(q))
        \/ (\E o \in Operations : Operator(o)) \/ UNCHANGED writeVars
      => Good
  BY <1>2 DEF Propose, RequestWrite, Operator, ApproveWrite, Observe, GiveUpOnAttempt,
     writeState, writeVars
<1> HIDE DEF Good
<1>10. Good
  BY <1>3, <1>4, <1>5, <1>6, <1>7, <1>8, <1>9 DEF WriteNext
<1> QED BY <1>10 DEF Good

LEMMA DiffsPreserved ==
  ASSUME WriteInv, [WriteNext]_writeVars
  PROVE  CallsHaveDiffs'
<1>1. ASSUME NEW c \in Applies, NEW step, step # "idle", apply[c].pc # "idle", Goto(c, step)
      PROVE  CallsHaveDiffs'
  BY <1>1, Gone DEF WriteInv, CallsHaveDiffs
<1>2. ASSUME NEW c \in Applies, StartApply(c) PROVE CallsHaveDiffs'
  <2>1. PICK q \in Requests :
          apply' = [apply EXCEPT ![c].pc = "started", ![c].request = q, ![c].diff = patchFile]
    BY <1>2 DEF StartApply
  <2>2. apply'[c].diff = patchFile /\ \A d \in Applies \ {c} : apply'[d] = apply[d]
    BY <2>1 DEF WriteInv, WriteTypeOK
  <2>3. patchFile \in Patches
    BY <1>2 DEF StartApply, WriteInv, WriteTypeOK
  <2> QED BY <2>2, <2>3 DEF WriteInv, CallsHaveDiffs
<1>3. ASSUME NEW c \in Applies, ClaimWrite(c) \/ Commit(c) PROVE CallsHaveDiffs'
  <2>1. /\ apply[c].pc # "idle" /\ apply'[c].diff = apply[c].diff
        /\ \A d \in Applies \ {c} : apply'[d] = apply[d]
    BY <1>3 DEF ClaimWrite, Executable, Commit, Goto, At, WriteInv, WriteTypeOK
  <2> QED BY <2>1 DEF WriteInv, CallsHaveDiffs
<1>4. ASSUME NEW c \in Applies, ApplyStep(c) \/ Crash(c),
             ~StartApply(c), ~ClaimWrite(c), ~Commit(c)
      PROVE  CallsHaveDiffs'
  <2>1. \E step : step # "idle" /\ apply[c].pc # "idle" /\ Goto(c, step)
    BY <1>4 DEF ApplyStep, MakeWorktree, RecordFingerprint, DeclareWrite, CheckTarget, ApplyPatch,
       ReportDoubt, CompleteWrite, CloseRun, Crash, At
  <2> QED BY <2>1, <1>1
<1>5. apply' = apply => CallsHaveDiffs'
  BY DEF WriteInv, CallsHaveDiffs
<1>6. (\E p \in Patches : Propose(p)) \/ (\E q \in Requests : RequestWrite(q))
        \/ (\E o \in Operations : Operator(o)) \/ Develop \/ UNCHANGED writeVars
      => apply' = apply
  BY DEF Propose, RequestWrite, Operator, ApproveWrite, Observe, GiveUpOnAttempt, Develop,
     writeState, writeVars
<1> QED BY <1>2, <1>3, <1>4, <1>5, <1>6 DEF WriteNext

(* The last part of the type invariant: whoever passed the fingerprint     *)
(* has seen a worktree.                                                    *)
LEMMA BasesStayKnown ==
  ASSUME WriteInv, [WriteNext]_writeVars, NEW d \in Applies,
         apply'[d].pc \notin {"idle", "started", "treed"} \union Over
  PROVE  NoBase \notin {tree'.base, fingerprint'}
<1> USE DEF Over
<1>1. /\ tree.base # NoBase => tree'.base # NoBase
      /\ fingerprint # NoBase => fingerprint' # NoBase
  BY TreeTypePreserved
<1>2. CASE apply[d].pc \notin {"idle", "started", "treed"} \union Over
  BY <1>1, <1>2 DEF WriteInv, WriteTypeOK
<1>3. CASE apply[d].pc \in {"idle", "started", "treed"} \union Over
  <2>1. RecordFingerprint(d)
    <3>1. ASSUME NEW c \in Applies, NEW step, Goto(c, step),
                 step \in {"idle", "started", "treed"} \union Over
                   \/ apply[c].pc \notin {"idle", "started", "treed"} \union Over
          PROVE  FALSE
      BY <3>1, <1>3, Gone
    <3>2. ASSUME NEW c \in Applies, StartApply(c) \/ ClaimWrite(c) \/ Commit(c) PROVE FALSE
      <4>1. StartApply(c) => apply'[c].pc = "started" /\ \A e \in Applies \ {c} : apply'[e] = apply[e]
        BY DEF StartApply, WriteInv, WriteTypeOK
      <4>2. ClaimWrite(c) \/ Commit(c) =>
              /\ apply[c].pc \in {"declared", "applied"}
              /\ \A e \in Applies \ {c} : apply'[e] = apply[e]
        BY DEF ClaimWrite, Executable, Commit, Goto, At, WriteInv, WriteTypeOK
      <4> QED BY <1>3, <3>2, <4>1, <4>2
    <3>3. ASSUME NEW c \in Applies, ApplyStep(c) \/ Crash(c), ~RecordFingerprint(c),
                 ~StartApply(c), ~ClaimWrite(c), ~Commit(c)
          PROVE  FALSE
      <4>1. \E step : /\ Goto(c, step)
                      /\ \/ step \in {"idle", "started", "treed"} \union Over
                         \/ apply[c].pc \notin {"idle", "started", "treed"} \union Over
        BY <3>3 DEF ApplyStep, MakeWorktree, DeclareWrite, CheckTarget, ApplyPatch,
           ReportDoubt, CompleteWrite, CloseRun, Crash, At
      <4> QED BY <4>1, <3>1
    <3>4. apply' # apply
      BY <1>3
    <3>5. ~((\E p \in Patches : Propose(p)) \/ (\E q \in Requests : RequestWrite(q))
            \/ (\E o \in Operations : Operator(o)) \/ Develop \/ UNCHANGED writeVars)
      BY <3>4 DEF Propose, RequestWrite, Operator, ApproveWrite, Observe, GiveUpOnAttempt, Develop,
         writeState, writeVars
    <3>6. PICK c \in Applies : RecordFingerprint(c)
      BY <3>2, <3>3, <3>5 DEF WriteNext
    <3>7. c = d
      BY <3>6, <1>3, Gone DEF RecordFingerprint
    <3> QED BY <3>6, <3>7
  <2>2. apply[d].pc = "treed" /\ tree' = tree
    BY <2>1 DEF RecordFingerprint, At
  <2>3. tree.base # NoBase
    BY <2>2 DEF WriteInv, CallsAreStarted
  <2>4. fingerprint' # NoBase
    BY <2>1, WriteAssumption DEF RecordFingerprint, WriteInv, WriteTypeOK
  <2> QED BY <2>2, <2>3, <2>4
<1> QED BY <1>2, <1>3

LEMMA WriteTypePreserved ==
  ASSUME WriteInv, [WriteNext]_writeVars
  PROVE  WriteTypeOK'
<1>1. TypeOK'
  BY OwnerTypePreserved
<1>2. patchFile' \in Patches \union {NoPatch} /\ reviewed' \in [Operations -> Patches \union {NoPatch}]
  <2>1. patchFile \in Patches \union {NoPatch} /\ reviewed \in [Operations -> Patches \union {NoPatch}]
    BY DEF WriteInv, WriteTypeOK
  <2>2. ASSUME NEW c \in Applies, ApplyStep(c) \/ Crash(c)
        PROVE  UNCHANGED <<patchFile, reviewed>>
    BY <2>2 DEF ApplyStep, StartApply, MakeWorktree, RecordFingerprint, DeclareWrite, ClaimWrite,
       CheckTarget, ApplyPatch, Commit, ReportDoubt, CompleteWrite, CloseRun, Crash
  <2>3. ASSUME NEW o \in Operations, Operator(o)
        PROVE  patchFile' = patchFile /\ reviewed' \in [Operations -> Patches \union {NoPatch}]
    BY <2>1, <2>3 DEF Operator, ApproveWrite, Observe, GiveUpOnAttempt, writeState
  <2>4. ASSUME NEW p \in Patches, Propose(p)
        PROVE  patchFile' \in Patches /\ reviewed' = reviewed
    BY <2>4 DEF Propose
  <2>5. (\E q \in Requests : RequestWrite(q)) \/ Develop \/ UNCHANGED writeVars
          => UNCHANGED <<patchFile, reviewed>>
    BY DEF RequestWrite, Develop, writeState, writeVars
  <2> QED BY <2>1, <2>2, <2>3, <2>4, <2>5 DEF WriteNext
<1>3. /\ tree' \in [base : Bases \union {NoBase}, commits : Seq(SUBSET Patches),
                    dirty : SUBSET Patches]
      /\ main' \in Bases /\ fingerprint' \in Bases \union {NoBase}
  BY TreeTypePreserved
<1>4. apply' \in [Applies -> [pc : ApplySteps, request : Requests \union {NoRow},
                              diff : Patches \union {NoPatch},
                              attempt : Nat, made : Nat]]
  BY CallsTypePreserved
<1>5. (\E c \in Applies : apply'[c].pc \notin {"idle", "started", "treed"} \union Over)
        => NoBase \notin {tree'.base, fingerprint'}
  BY BasesStayKnown
<1> QED BY <1>1, <1>2, <1>3, <1>4, <1>5 DEF WriteTypeOK

LEMMA WriteInvInit == WriteInit => WriteInv
<1> SUFFICES ASSUME WriteInit PROVE WriteInv
  OBVIOUS
<1>1. TypeOK
  BY InitType DEF WriteInit
<1>2. tree.commits \in Seq(SUBSET Patches)
  BY DEF WriteInit
<1>3. WriteTypeOK
  BY <1>1, <1>2 DEF WriteInit, WriteTypeOK, ApplySteps
<1>4. \A o \in Operations : effect[o].status = "none"
  BY DEF WriteInit, Init, NoRow
<1>5. /\ CallsAreStarted /\ CallsHaveDiffs /\ NumbersAreOwned /\ WorkIsInFlight /\ TreeStands
      /\ CommitsAreCurrent /\ ClosedIsCompleted
  BY DEF WriteInit, CallsAreStarted, CallsHaveDiffs, NumbersAreOwned, WorkIsInFlight, TreeStands,
     CommitsAreCurrent, ClosedIsCompleted, Working, Waiting
<1>6. ClaimsAreHeld /\ CompletedWriteLanded
  BY <1>4 DEF WriteInit, ClaimsAreHeld, CompletedWriteLanded, At
<1> QED BY <1>3, <1>5, <1>6 DEF WriteInv

LEMMA WriteInvPreserved == WriteInv /\ [WriteNext]_writeVars => WriteInv'
<1> SUFFICES ASSUME WriteInv, [WriteNext]_writeVars PROVE WriteInv'
  OBVIOUS
<1>1. WriteTypeOK' /\ CallsHaveDiffs'
  BY WriteTypePreserved, DiffsPreserved
<1> DEFINE Kept == CallsInv' /\ TreeInv'
<1>2. ASSUME NEW c \in Applies, ApplyStep(c) \/ Crash(c) PROVE Kept
  BY <1>2, CallKeepsInv, ReportKeepsInv, ClaimKeepsInv, CallKeepsTree, MakingKeepsTree,
     PatchKeepsTree, CommitKeepsTree, ClaimKeepsTree, ReportKeepsTree DEF ApplyStep
<1>3. ASSUME NEW o \in Operations, Operator(o) PROVE Kept
  <2>1. CASE Observe(o) \/ GiveUpOnAttempt(o)
    BY <2>1, SettleKeepsInv, SettleKeepsTree
  <2>2. CASE ~(Observe(o) \/ GiveUpOnAttempt(o))
    <3>1. \/ ApproveWrite(o)
          \/ DenyApproval(o) /\ UNCHANGED writeState
          \/ (SafeStopRun(WriteRun) \/ RestartRun(WriteRun)) /\ UNCHANGED writeState
      BY <1>3, <2>2 DEF Operator
    <3>2. OthersStep
      BY <3>1, Zenon DEF OthersStep
    <3> QED BY <3>2, OthersKeepInv
  <2> QED BY <2>1, <2>2
<1>4. ASSUME \/ \E p \in Patches : Propose(p)
             \/ \E q \in Requests : RequestWrite(q)
             \/ Develop
             \/ UNCHANGED writeVars
      PROVE  Kept
  <2>1. OthersStep
    BY <1>4 DEF OthersStep
  <2> QED BY <2>1, OthersKeepInv
<1>5. Kept
  BY <1>2, <1>3, <1>4 DEF WriteNext
<1> QED BY <1>1, <1>5 DEF WriteInv, CallsInv, TreeInv

(* The inductive invariant of the write path holds of every behaviour: who *)
(* holds which attempt, what it has put into the worktree, and what the    *)
(* owner's row says of it, agree.                                          *)
THEOREM WriteInvariant == WriteSafety => []WriteInv
BY WriteInvInit, WriteInvPreserved, PTL DEF WriteSafety

(* However many calls of apply are made for an operation, and wherever     *)
(* they crash, at most one of them makes a commit: a call commits under    *)
(* the attempt it claimed, and after that no attempt follows.              *)
THEOREM OneCommit == WriteSafety => []OneCommitPerOperation
<1>1. WriteInv => OneCommitPerOperation
  <2> SUFFICES ASSUME WriteInv, NEW c \in Applies, NEW d \in Applies,
                      apply[c].made # 0, apply[d].made # 0, operation(c) = operation(d)
               PROVE  c = d
    BY DEF OneCommitPerOperation
  <2>1. /\ apply[c].attempt # 0 /\ apply[c].attempt = effect[operation(c)].attempt
        /\ apply[d].attempt = effect[operation(d)].attempt
    BY DEF WriteInv, CommitsAreCurrent
  <2> QED BY <2>1 DEF WriteInv, NumbersAreOwned
<1> QED BY <1>1, WriteInvariant, PTL

(* A completed write is in the worktree's history, and write-apply answers *)
(* completed only for a completed write: the operator looks before         *)
(* settling, a call completes what it has committed.                       *)
THEOREM CompletedWrites == WriteSafety => []CompletedWriteLanded
<1>1. WriteInv => CompletedWriteLanded
  BY DEF WriteInv
<1> QED BY <1>1, WriteInvariant, PTL

(* Commits are only made in a worktree that starts at the recorded base.   *)
THEOREM CommitsAreOnTheRecord == WriteSafety => []CommitsStandOnTheRecord
<1>1. WriteInv => CommitsStandOnTheRecord
  BY DEF WriteInv, TreeStands, CommitsStandOnTheRecord
<1> QED BY <1>1, WriteInvariant, PTL

(* A claim that nobody works on any more was left by a crash, a refused    *)
(* target or a report that the owner did not take.                         *)
THEOREM LostClaims == WriteSafety => []LostClaimsAreExplained
<1>1. WriteInv => LostClaimsAreExplained
  BY DEF WriteInv, ClaimsAreHeld, LostClaimsAreExplained, Working, Lost, Over, HeldBy
<1> QED BY <1>1, WriteInvariant, PTL

-----------------------------------------------------------------------------
(* The write path as a client of the owner. *)

LEMMA WriteIsAClient ==
  ASSUME WriteInv, [WriteNext]_writeVars
  PROVE  ClientStep
<1>1. ASSUME NEW c \in Applies, apply[c].request \in Requests
      PROVE  WRITE_EXPOSURE(c) \in Exposure
  BY <1>1, RequestType DEF WRITE_EXPOSURE, Exposure, EffectClasses, ALLOWED_EFFECT_CLASSES
<1> QED BY <1>1, WriteSteps, WriteAssumption DEF ClientStep

(* However calls of apply crash, repeat and overtake each other, the       *)
(* tables of the owner stay in agreement: each of its invariants holds.    *)
THEOREM WriteKeepsTheOwner ==
  WriteSafety => /\ []OwnerInv
                /\ TerminalRunsLeaveOnlyByRestart /\ SettledEffectsAreFinal /\ DoubtStopsTheRun
<1>1. WriteInit => OwnerInv
  BY OwnerStarts, ClientBegins DEF WriteInit
<1>2. OwnerInv /\ WriteInv /\ [WriteNext]_writeVars => OwnerInv'
  BY WriteIsAClient, ClientKeepsOwner
<1>3. WriteSafety => []OwnerInv
  BY <1>1, <1>2, WriteInvariant, PTL DEF WriteSafety
<1>4. OwnerInv /\ WriteInv /\ [WriteNext]_writeVars =>
        /\ [\A r \in Runs : run[r] \in Terminal /\ run'[r] # run[r] =>
              /\ run'[r] = "running"
              /\ UNCHANGED <<link, approval, effect, exposure, result, suspected>>]_vars
        /\ [\A o \in Operations : effect[o].status \in {"completed", "unknown"} =>
              effect'[o] = effect[o]]_vars
        /\ [\A o \in Operations : effect'[o].status # effect[o].status =>
              /\ effect'[o].status = "uncertain" => run'[effect'[o].run] = "recovering"
              /\ effect'[o].status = "unknown" => run'[effect'[o].run] = "safe_stopped"
              /\ effect'[o].status = "claimed" => run'[effect'[o].run] = "running"]_vars
  BY WriteIsAClient, ClientKeepsActions
<1>5. WriteSafety => TerminalRunsLeaveOnlyByRestart /\ SettledEffectsAreFinal /\ DoubtStopsTheRun
  BY <1>3, <1>4, WriteInvariant, PTL
  DEF WriteSafety, TerminalRunsLeaveOnlyByRestart, SettledEffectsAreFinal, DoubtStopsTheRun
<1> QED BY <1>3, <1>5

(* The effect of a write is tried within its budget, again only after an   *)
(* observation of the worktree, and counted once, though calls pin the     *)
(* boundary anew each time.                                                *)
THEOREM WriteImplementsBoundedEffect == WriteSafety => ImplementsBoundedEffect
<1>1. WriteSafety => Bounded!Open
  BY OwnerStarts, ClientBegins DEF WriteSafety, WriteInit
<1>2. OwnerInv /\ WriteInv /\ [WriteNext]_writeVars =>
        [\E e \in Operations : Bounded!ProtocolStep(e)]_(Bounded!protocol)
  BY WriteIsAClient, ClientKeepsProtocol
<1>3. WriteSafety => [][\E e \in Operations : Bounded!ProtocolStep(e)]_(Bounded!protocol)
  BY <1>2, WriteKeepsTheOwner, WriteInvariant, PTL DEF WriteSafety
<1> QED BY <1>1, <1>3 DEF ImplementsBoundedEffect, Bounded!Protocol
=============================================================================
