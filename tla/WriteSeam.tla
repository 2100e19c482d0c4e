------------------------------ MODULE WriteSeam ------------------------------
(***************************************************************************)
(* The local write path over the durable owner: `write propose' saves a    *)
(* diff and requests its approval, `write apply' (write_run.py) makes the  *)
(* run's worktree and applies and commits the diff through the write seam  *)
(* (write_seam.py).  Processes that each make one call of apply, whoever   *)
(* proposes, developers of the main repository and the operator interleave.*)
(*                                                                         *)
(* A commit of the worktree is the set of patches it brought in; the       *)
(* worktree's head is its base followed by its commits.  A call may die    *)
(* between any two steps.  The operator looks into the worktree before     *)
(* settling an attempt, and gives up on one only when its call is over.    *)
(***************************************************************************)
EXTENDS CompositionOwner, Functions

CONSTANTS
  Applies,           \* calls of apply, each made once: a retry is another call
  WriteRun,          \* the run that owns the worktree
  Patches, NoPatch,  \* diffs, and the absence of one
  Bases, NoBase      \* commits of the main repository, and the absence of one

ASSUME WriteAssumption ==
  /\ WriteRun \in Runs
  /\ \A q \in Requests : q.class = "approval-required"
  /\ NoPatch \notin Patches /\ NoBase \notin Bases

VARIABLES
  apply,        \* each call: its step, request, diff, attempt, and its commit
  patchFile,    \* the diff saved for the run by the last proposal
  reviewed,     \* the saved diff at the moment each operation was approved
  main,         \* the head of the main repository
  tree,         \* the worktree: its base, its commits, what is not committed
  fingerprint   \* the base recorded with the owner when the tree was made

writeState == <<apply, patchFile, reviewed, main, tree, fingerprint>>
writeVars == <<vars, writeState>>

ApplySteps == {"idle", "started", "treed", "recorded", "declared", "claimed",
               "checked", "applied", "committed", "doubtful", "closing",
               "completed", "ended", "refused", "unreported", "dead"}

(* How a call ends: `write-apply' prints completed, or an error (ended, or *)
(* with the claim left behind: refused and unreported), or nothing.        *)
Over == {"completed", "ended", "refused", "unreported", "dead"}

operation(c) == apply[c].request.op
Committed == UNION Range(tree.commits)

WriteTypeOK ==
  /\ TypeOK
  /\ apply \in [Applies -> [pc : ApplySteps, request : Requests \union {NoRow},
                            diff : Patches \union {NoPatch},
                            attempt : Nat, made : Nat]]
  /\ patchFile \in Patches \union {NoPatch}
  /\ reviewed \in [Operations -> Patches \union {NoPatch}]
  /\ main \in Bases
  /\ tree \in [base : Bases \union {NoBase}, commits : Seq(SUBSET Patches),
               dirty : SUBSET Patches]
  /\ fingerprint \in Bases \union {NoBase}
  /\ (\E c \in Applies : apply[c].pc \notin {"idle", "started", "treed"} \union Over)
       => NoBase \notin {tree.base, fingerprint}

WriteInit ==
  /\ Init
  /\ apply = [c \in Applies |->
       [pc |-> "idle", request |-> NoRow, diff |-> NoPatch, attempt |-> 0, made |-> 0]]
  /\ patchFile = NoPatch
  /\ reviewed = [o \in Operations |-> NoPatch]
  /\ main \in Bases
  /\ tree = [base |-> NoBase, commits |-> <<>>, dirty |-> {}]
  /\ fingerprint = NoBase

-----------------------------------------------------------------------------
(* write propose: the diff of one codex session replaces the run's patch   *)
(* file, and an approval is requested; a known one is left as it is.       *)

EnsureRun ==
  IF run[WriteRun] = "absent" THEN CreateRun(WriteRun, NoRun) ELSE UNCHANGED vars

Propose(p) ==
  /\ patchFile' = p
  /\ EnsureRun
  /\ UNCHANGED <<apply, reviewed, main, tree, fingerprint>>

RequestWrite(q) ==
  /\ RequestApproval(WriteRun, q)
  /\ UNCHANGED writeState

(* write approve: the human has the saved diff of the run to look at. *)
ApproveWrite(o) ==
  /\ Approve(o)
  /\ reviewed' = [reviewed EXCEPT ![o] = patchFile]
  /\ UNCHANGED <<apply, patchFile, main, tree, fingerprint>>

-----------------------------------------------------------------------------
(* One call of apply. *)

At(c, step) == apply[c].pc = step
Goto(c, step) == apply' = [apply EXCEPT ![c].pc = step]

StartApply(c) ==
  /\ At(c, "idle")
  /\ patchFile # NoPatch
  /\ \E q \in Requests :
       apply' = [apply EXCEPT ![c].pc = "started", ![c].request = q, ![c].diff = patchFile]
  /\ EnsureRun
  /\ UNCHANGED <<patchFile, reviewed, main, tree, fingerprint>>

(* An existing worktree is reused; git worktree add may fail. *)
MakeWorktree(c) ==
  /\ At(c, "started")
  /\ \/ tree.base # NoBase /\ Goto(c, "treed") /\ UNCHANGED tree
     \/ /\ tree.base = NoBase
        /\ \/ tree' = [tree EXCEPT !.base = main] /\ Goto(c, "treed")
           \/ Goto(c, "ended") /\ UNCHANGED tree
  /\ UNCHANGED <<vars, patchFile, reviewed, main, fingerprint>>

(* Mutant: only the call that makes the worktree records the fingerprint. *)
RecordFingerprintOfNew(c) ==
  /\ At(c, "treed")
  /\ \/ fingerprint' = IF fingerprint = NoBase THEN main ELSE fingerprint
     \/ UNCHANGED fingerprint
  /\ Goto(c, "recorded")
  /\ UNCHANGED <<vars, patchFile, reviewed, main, tree>>

(* rev-parse in the repository, not in the worktree; the first one stays. *)
RecordFingerprint(c) ==
  /\ At(c, "treed")
  /\ fingerprint' = IF fingerprint = NoBase THEN main ELSE fingerprint
  /\ Goto(c, "recorded")
  /\ UNCHANGED <<vars, patchFile, reviewed, main, tree>>

WRITE_EXPOSURE(c) ==
  [classes |-> {"approval-required"}, scopes |-> {apply[c].request.scope}, grants |-> {}]

DeclareWrite(c) ==
  /\ At(c, "recorded")
  /\ DeclareExposure(WriteRun, WRITE_EXPOSURE(c))
  /\ Goto(c, "declared")
  /\ UNCHANGED <<patchFile, reviewed, main, tree, fingerprint>>

(* The decisions that change nothing in the owner. *)
NotExecutable(o) ==
  \/ run[WriteRun] \in Terminal
  \/ effect[o].status \in {"claimed", "uncertain", "unknown", "completed"}

Executable(c) ==
  /\ ClaimStep(WriteRun, apply[c].request)
  /\ IF effect' = effect THEN Goto(c, "ended")
     ELSE apply' = [apply EXCEPT ![c].pc = "claimed",
                                 ![c].attempt = effect'[operation(c)].attempt]

(* Mutant: a claim in flight is taken over. *)
ClaimWriteInFlight(c) ==
  /\ At(c, "declared")
  /\ \/ Executable(c)
     \/ /\ effect[operation(c)].status = "claimed"
        /\ apply' = [apply EXCEPT ![c].pc = "claimed",
                                  ![c].attempt = effect[operation(c)].attempt]
        /\ UNCHANGED vars
  /\ UNCHANGED <<patchFile, reviewed, main, tree, fingerprint>>

ClaimWrite(c) ==
  /\ At(c, "declared")
  /\ \/ Executable(c)
     \/ /\ NotExecutable(operation(c))
        /\ Goto(c, IF effect[operation(c)].status = "completed" THEN "closing" ELSE "ended")
        /\ UNCHANGED vars
  /\ UNCHANGED <<patchFile, reviewed, main, tree, fingerprint>>

HeadIsFingerprint == tree.commits = <<>> /\ tree.base = fingerprint

(* Mutant: the worktree's head is not compared. *)
CheckTargetOnly(c) ==
  /\ At(c, "claimed")
  /\ Goto(c, "checked") \/ Goto(c, "refused")
  /\ UNCHANGED <<vars, patchFile, reviewed, main, tree, fingerprint>>

(* A mismatch of the head, or of the call's worktree and the approved      *)
(* resource, raises, and nothing tells the owner about the claim.          *)
CheckTarget(c) ==
  /\ At(c, "claimed")
  /\ (HeadIsFingerprint /\ Goto(c, "checked")) \/ Goto(c, "refused")
  /\ UNCHANGED <<vars, patchFile, reviewed, main, tree, fingerprint>>

(* A patch applies at most once; it may be refused for other reasons. *)
ApplyPatch(c) ==
  /\ At(c, "checked")
  /\ \/ /\ apply[c].diff \notin tree.dirty \union Committed
        /\ tree' = [tree EXCEPT !.dirty = @ \union {apply[c].diff}]
        /\ Goto(c, "applied")
     \/ Goto(c, "doubtful") /\ UNCHANGED tree
  /\ UNCHANGED <<vars, patchFile, reviewed, main, fingerprint>>

(* git add -A and git commit: everything that is not committed goes in.    *)
(* A refused commit (a hook, a lock, nothing staged) leaves it all behind. *)
Commit(c) ==
  /\ At(c, "applied")
  /\ \/ /\ tree.dirty # {}
        /\ tree' = [tree EXCEPT !.commits = Append(@, tree.dirty), !.dirty = {}]
        /\ apply' = [apply EXCEPT ![c].pc = "committed", ![c].made = Len(tree.commits) + 1]
     \/ Goto(c, "doubtful") /\ UNCHANGED tree
  /\ UNCHANGED <<vars, patchFile, reviewed, main, fingerprint>>

MayDoubt(o) ==
  effect[o].status = "claimed" /\ run[WriteRun] \in {"running", "recovering"}

(* Mutant: a rejected patch leaves the claim as it is. *)
ReportDoubtNever(c) ==
  /\ At(c, "doubtful")
  /\ UNCHANGED vars
  /\ Goto(c, "ended")
  /\ UNCHANGED <<patchFile, reviewed, main, tree, fingerprint>>

ReportDoubt(c) ==
  /\ At(c, "doubtful")
  /\ IF MayDoubt(operation(c))
     THEN MarkEffectUncertain(operation(c)) /\ Goto(c, "ended")
     ELSE UNCHANGED vars /\ Goto(c, "unreported")
  /\ UNCHANGED <<patchFile, reviewed, main, tree, fingerprint>>

(* Mutant: the effect is completed before the commit is made. *)
CompleteEarly(c) ==
  /\ apply[c].pc \in {"applied", "committed"}
  /\ IF effect[operation(c)].status = "claimed"
     THEN CompleteEffect(operation(c)) /\ Goto(c, "closing")
     ELSE UNCHANGED vars /\ Goto(c, "unreported")
  /\ UNCHANGED <<patchFile, reviewed, main, tree, fingerprint>>

CompleteWrite(c) ==
  /\ At(c, "committed")
  /\ IF effect[operation(c)].status = "claimed"
     THEN CompleteEffect(operation(c)) /\ Goto(c, "closing")
     ELSE UNCHANGED vars /\ Goto(c, "unreported")
  /\ UNCHANGED <<patchFile, reviewed, main, tree, fingerprint>>

Completable ==
  /\ run[WriteRun] = "running"
  /\ PendingApprovals(WriteRun) = {}
  /\ EffectsOf(WriteRun, EFFECT_STATES \ {"completed"}) = {}

(* The orchestrator completes the run, unless that has been done; the      *)
(* owner refuses when another operation of the run is still open, or the   *)
(* run is stopped: the call fails although its commit is made.             *)
CloseRun(c) ==
  /\ At(c, "closing")
  /\ IF Completable
     THEN (\E v \in Values : CompleteRun(WriteRun, v)) /\ Goto(c, "completed")
     ELSE UNCHANGED vars /\ Goto(c, IF run[WriteRun] = "completed" THEN "completed" ELSE "ended")
  /\ UNCHANGED <<patchFile, reviewed, main, tree, fingerprint>>

ApplyStep(c) ==
  \/ StartApply(c) \/ MakeWorktree(c) \/ RecordFingerprint(c) \/ DeclareWrite(c)
  \/ ClaimWrite(c) \/ CheckTarget(c) \/ ApplyPatch(c) \/ Commit(c)
  \/ ReportDoubt(c) \/ CompleteWrite(c) \/ CloseRun(c)

(* The process dies, or git raises what nobody handles. *)
Crash(c) ==
  /\ apply[c].pc \notin {"idle"} \union Over
  /\ Goto(c, "dead")
  /\ UNCHANGED <<vars, patchFile, reviewed, main, tree, fingerprint>>

-----------------------------------------------------------------------------
(* Everybody else. *)

Develop ==
  /\ \E b \in Bases \ {main} : main' = b
  /\ UNCHANGED <<vars, apply, patchFile, reviewed, tree, fingerprint>>

HeldBy(o) ==
  {c \in Applies : apply[c].attempt = effect[o].attempt /\ operation(c) = o}

(* Is the diff of the current attempt in the worktree's history? *)
Landed(o) == \E c \in HeldBy(o) : apply[c].diff \in Committed

Observe(o) ==
  /\ effect[o].status \in {"uncertain", "retryable"}
  /\ \/ Landed(o) /\ ReconcileApplied(o)
     \/ ~Landed(o) /\ ReconcileNotApplied(o)
  /\ UNCHANGED writeState

GiveUpOnAttempt(o) ==
  /\ effect[o].status = "claimed"
  /\ \A c \in HeldBy(o) : apply[c].pc \in Over
  /\ MarkEffectUncertain(o)
  /\ UNCHANGED writeState

Operator(o) ==
  \/ ApproveWrite(o) \/ Observe(o) \/ GiveUpOnAttempt(o)
  \/ DenyApproval(o) /\ UNCHANGED writeState
  \/ (SafeStopRun(WriteRun) \/ RestartRun(WriteRun)) /\ UNCHANGED writeState

-----------------------------------------------------------------------------
WriteNext ==
  \/ \E p \in Patches : Propose(p)
  \/ \E q \in Requests : RequestWrite(q)
  \/ \E c \in Applies : ApplyStep(c) \/ Crash(c)
  \/ \E o \in Operations : Operator(o)
  \/ Develop

WriteSafety == WriteInit /\ [][WriteNext]_writeVars

-----------------------------------------------------------------------------
(* Properties. *)

(* One operation, one commit: however its calls crash, are retried and     *)
(* replayed, at most one of them makes a commit ("a repeated request       *)
(* cannot produce a second physical side effect").                         *)
OneCommitPerOperation ==
  \A c, d \in Applies :
    apply[c].made # 0 /\ apply[d].made # 0 /\ operation(c) = operation(d) => c = d

(* A completed write is in the worktree's history: some call of the        *)
(* operation has had its diff committed, whoever's commit took it in; and  *)
(* `write-apply' answers completed only for a completed write.             *)
CompletedWriteLanded ==
  /\ \A o \in Operations : effect[o].status = "completed" =>
       \E c \in Applies : apply[c].attempt > 0 /\ operation(c) = o /\ apply[c].diff \in Committed
  /\ \A c \in Applies : At(c, "completed") => effect[operation(c)].status = "completed"

(* Commits are only made in a worktree that starts where the owner's       *)
(* record says, though tree and record are made in separate steps, by      *)
(* different calls, while the main repository moves.                       *)
CommitsStandOnTheRecord == tree.commits # <<>> => tree.base = fingerprint

(* A claim that nobody works on any more was left by a crash, by a check   *)
(* that raised after the claim, or by a report the owner refused: every    *)
(* other end of a call settles its attempt.                                *)
LostClaimsAreExplained ==
  \A o \in Operations :
    effect[o].status = "claimed" /\ (\A c \in HeldBy(o) : apply[c].pc \in Over) =>
      \E c \in HeldBy(o) : apply[c].pc \in {"refused", "unreported", "dead"}

-----------------------------------------------------------------------------
(* What docstrings say and the code does not do. *)

(* The diff that is committed is the one whose approval was given: the     *)
(* proposal says its diff is "bound to a PENDING owner approval".  The     *)
(* approval row names the operation and no digest, and a later proposal of *)
(* the same run replaces the file.                                         *)
ApprovedDiffIsTheOneCommitted ==
  \A c \in Applies :
    apply[c].made # 0 /\ reviewed[operation(c)] # NoPatch =>
      apply[c].diff = reviewed[operation(c)]
=============================================================================
