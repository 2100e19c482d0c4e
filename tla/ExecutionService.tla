-------------------------- MODULE ExecutionService --------------------------
(* The execution service of the workbench server (app/internal/execution)
   over the evidence owner, with the executors that run the process and the
   HTTP handlers that call both.  A call is one HTTP request; each of its
   transactions is a step of its own, and calls, operators and the end of a
   process interleave freely.

   The configuration is fixed: profiles, environments, executors and
   directories are resolved before the first write, and a request that one
   of them refuses changes nothing, so Operations holds the servable ones. *)
EXTENDS EvidenceOwner

CONSTANTS Callers,     \* HTTP requests in progress
          Lingering,   \* operations whose process may outlive a kill
                       \* (a remote host, a container that cannot be removed)
          Remote       \* operations that run on a remote host

ASSUME ServiceAssumption == Lingering \cup Remote \subseteq Operations

VARIABLES calls,      \* what each request does
          live,       \* operations with a running process
          starts,     \* processes ever started for each operation
          exits,      \* remote entries of the exit ledger, per run
          answer      \* the last answer: the outcome, and the run it shows

serviceVars == <<calls, live, starts, exits, answer>>
vars == <<ownerVars, serviceVars>>

StartLimit == 2   \* bound on what starts and exits can count
Outcome == {"zero", "nonzero", "timed_out", "canceled", "failure"}
Interrupted == {"timed_out", "canceled"}
Idle == [pc |-> "idle"]

CallStates ==
    {Idle}
    \cup [pc : {"requested", "claimed", "running"}, op : Operations]
    \cup [pc : {"ended", "unlisted", "listed", "reported", "unreported"},
          op : Operations, outcome : Outcome]

NoAnswer == [outcome |-> "none", run |-> "absent"]

ServiceTypeOK ==
    /\ OwnerTypeOK
    /\ calls \in [Callers -> CallStates]
    /\ live \subseteq Operations
    /\ starts \in [Operations -> 0..StartLimit]
    /\ exits \in [Runs -> 0..StartLimit]
    /\ answer \in [outcome : Outcome, run : RunStatus] \cup {NoAnswer}

Init ==
    /\ OwnerInit
    /\ calls = [c \in Callers |-> Idle]
    /\ live = {}
    /\ starts = [o \in Operations |-> 0]
    /\ exits = [r \in Runs |-> 0]
    /\ answer = NoAnswer

At(c, pc) == calls[c].pc = pc
GoTo(c, state) == calls' = [calls EXCEPT ![c] = state]
After(c, pc) == [calls[c] EXCEPT !.pc = pc]
WithOutcome(c, pc, x) == [pc |-> pc, op |-> calls[c].op, outcome |-> x]

-----------------------------------------------------------------------------
(* Request: an approval row, then the run waits for it.  The second
   transaction may be refused, by the table or by a rival writer. *)

Request(c, o) ==
    /\ At(c, "idle")
    /\ RequestApproval(o)
    /\ GoTo(c, [pc |-> "requested", op |-> o])
    /\ UNCHANGED <<live, starts, exits, answer>>

RequestWaits(c) ==
    /\ At(c, "requested")
    /\ WaitForApproval(RunOf[calls[c].op])
    /\ GoTo(c, Idle)
    /\ UNCHANGED <<live, starts, exits, answer>>

RequestRefused(c) ==
    /\ At(c, "requested")
    /\ GoTo(c, Idle)
    /\ UNCHANGED <<ownerVars, live, starts, exits, answer>>

-----------------------------------------------------------------------------
(* Confirm: claim, run, list the exit, complete the effect, close the run. *)

\* the approval exists and names the profile; all else is decided by the claim
Confirm(c, o, token) ==
    /\ At(c, "idle")
    /\ approvals[o].status # "none"
    /\ ClaimEffect(o, token)
    /\ GoTo(c, IF Executable(o, token) THEN [pc |-> "claimed", op |-> o] ELSE Idle)
    /\ answer' = NoAnswer
    /\ UNCHANGED <<live, starts, exits>>

StartProcess(c) ==
    /\ At(c, "claimed")
    /\ starts[calls[c].op] < StartLimit
    /\ live' = live \cup {calls[c].op}
    /\ starts' = [starts EXCEPT ![calls[c].op] = @ + 1]
    /\ GoTo(c, After(c, "running"))
    /\ UNCHANGED <<ownerVars, exits, answer>>

\* the executor refuses the specification or finds no binary
StartFails(c) ==
    /\ At(c, "claimed")
    /\ GoTo(c, WithOutcome(c, "ended", "failure"))
    /\ UNCHANGED <<ownerVars, live, starts, exits, answer>>

\* the executor returns: the process has ended, or was killed at its timeout
\* or when the client went away; only then may something of it be left
ProcessEnds(c, x) ==
    /\ At(c, "running")
    /\ \/ live' = live \ {calls[c].op}
       \/ x \in Interrupted /\ calls[c].op \in Lingering /\ UNCHANGED live
    /\ GoTo(c, WithOutcome(c, "ended", x))
    /\ UNCHANGED <<ownerVars, starts, exits, answer>>

\* RecordRemoteProviderExitLedgerOnce looks for an entry and inserts one in
\* two transactions; a failure of either is only noted
LookForExit(c) ==
    /\ At(c, "ended")
    /\ GoTo(c, After(c, IF calls[c].op \in Remote /\ exits[RunOf[calls[c].op]] = 0
                        THEN "unlisted" ELSE "listed"))
    /\ UNCHANGED <<ownerVars, live, starts, exits, answer>>

RecordExit(c) ==
    /\ At(c, "unlisted")
    /\ exits' = [exits EXCEPT ![RunOf[calls[c].op]] = @ + 1]
    /\ GoTo(c, After(c, "listed"))
    /\ UNCHANGED <<ownerVars, live, starts, answer>>

ReportEffect(c) ==
    /\ At(c, "listed")
    /\ CompleteEffect(calls[c].op)
    /\ GoTo(c, After(c, "reported"))
    /\ UNCHANGED <<live, starts, exits, answer>>

\* the owner refuses the completion, or the write loses to a rival writer
ReportRefused(c) ==
    /\ At(c, "listed")
    /\ GoTo(c, After(c, "unreported"))
    /\ UNCHANGED <<ownerVars, live, starts, exits, answer>>

\* the run is stopped if that can be done; the caller gets the error
StopUnreported(c) ==
    /\ At(c, "unreported")
    /\ \/ SafeStopRun(RunOf[calls[c].op])
       \/ UNCHANGED ownerVars
    /\ GoTo(c, Idle)
    /\ UNCHANGED <<live, starts, exits, answer>>

\* finalizeRun: what each outcome makes of the run
Close(r, x) ==
    CASE x \in Interrupted -> SafeStopRun(r)
      [] x = "zero" -> CompleteRun(r)
      [] OTHER -> FailRun(r)

FinalizeRun(c) ==
    LET r == RunOf[calls[c].op]
        x == calls[c].outcome
    IN  /\ At(c, "reported")
        /\ Close(r, x)
        /\ answer' = [outcome |-> x, run |-> runs'[r]]
        /\ GoTo(c, Idle)
        /\ UNCHANGED <<live, starts, exits>>

\* orFallback: the transition failed, and the answer shows the run as it is
FinalizeRefused(c) ==
    /\ At(c, "reported")
    /\ answer' = [outcome |-> calls[c].outcome, run |-> runs[RunOf[calls[c].op]]]
    /\ GoTo(c, Idle)
    /\ UNCHANGED <<ownerVars, live, starts, exits>>

\* the server dies: its requests are gone, the processes it started are not
Crash ==
    /\ calls' = [c \in Callers |-> Idle]
    /\ UNCHANGED <<ownerVars, live, starts, exits, answer>>

\* a process nobody waits for any more ends
LeftProcessEnds(o) ==
    /\ o \in live
    /\ \A c \in Callers : ~(At(c, "running") /\ calls[c].op = o)
    /\ live' = live \ {o}
    /\ UNCHANGED <<ownerVars, calls, starts, exits, answer>>

-----------------------------------------------------------------------------
(* The operations that other handlers and the operator call, one transaction
   each. *)

Transition(r) ==
    \/ StartRun(r) \/ CompleteRun(r) \/ FailRun(r)
    \/ SafeStopRun(r) \/ BeginRecovery(r)

Handler(r) ==
    \/ \E link \in {"intact", "broken"} : CreateRun(r, link)
    \/ Transition(r)
    \/ StopOnViolation(r)
    \/ LinkedRunAppears(r)

Review(o) == Approve(o) \/ DenyApproval(o) \/ ApprovalExpires(o)

\* a caller is given up for crashed (reconcile.go) when no request has the
\* operation in hand
Abandoned(o) == \A c \in Callers : ~At(c, "idle") => calls[c].op # o

Recovery ==
    \/ \E r \in Runs : RestartRun(r)
    \/ \E o \in Operations : Abandoned(o) /\ MarkEffectUncertain(o)
    \/ \E o \in Operations, x \in Outcomes : ReconcileEffect(o, x)

Declaration ==
    \E r \in Runs, e \in {"covers", "excludes"} : RecordDeclaredExposure(r, e)

OwnerStep ==
    /\ \/ \E r \in Runs : Handler(r)
       \/ \E o \in Operations : Review(o)
       \/ Recovery
       \/ Declaration
    /\ UNCHANGED serviceVars

CallStep(c) ==
    \/ \E o \in Operations : Request(c, o)
    \/ RequestWaits(c) \/ RequestRefused(c)
    \/ \E o \in Operations, t \in Tokens : Confirm(c, o, t)
    \/ StartProcess(c) \/ StartFails(c)
    \/ \E x \in Outcome : ProcessEnds(c, x)
    \/ LookForExit(c) \/ RecordExit(c)
    \/ ReportEffect(c) \/ ReportRefused(c) \/ StopUnreported(c)
    \/ FinalizeRun(c) \/ FinalizeRefused(c)

Next ==
    \/ OwnerStep
    \/ \E c \in Callers : CallStep(c)
    \/ Crash
    \/ \E o \in Operations : LeftProcessEnds(o)

Spec == Init /\ [][Next]_vars

-----------------------------------------------------------------------------
(* Properties *)

\* A process is started only for an approval that has been spent, and once:
\* neither two confirmations with one token, nor a retry, a restart of the run
\* or a crash of the server starts it again, and however its end is reported
\* and reconciled it is counted once.
OneStartPerApproval ==
    \A o \in Operations :
        /\ starts[o] <= IF approvals[o].status = "consumed" THEN 1 ELSE 0
        /\ effects[o].count <= 1

\* A run that is completed has no effect whose outcome is open, and no
\* process of its own that a request still waits for: the effect is completed
\* before the run, and every rival of the last confirmation is looked at.
CompletedRunIsQuiet ==
    \A r \in Runs : runs[r] = "completed" =>
        /\ OpenEffects(r) = {}
        /\ \A c \in Callers : At(c, "running") => RunOf[calls[c].op] # r

\* A run leaves a terminal status by RestartRun only (the transition table
\* and the invariants of safe_stop.go): whatever is reported late, a stopped
\* run stays stopped.
TerminalIsFinal ==
    [][\A r \in Runs :
          runs[r] \in Terminal /\ runs'[r] # runs[r] => RestartRun(r)]_vars

\* The outcomes that Confirm maps to run statuses: an execution that exits
\* with an error is never answered with a completed run.
ErrorIsNotCompletion ==
    answer.outcome = "nonzero" => answer.run # "completed"
=============================================================================
