---------------------------- MODULE MCExecutions ----------------------------
(* A small instance of the clients of the owner's ledgers for TLC: the     *)
(* executions, the admission of commands before them, and the router.      *)
EXTENDS Executions, ProviderAdmission, ProviderFailover, TLC

CONSTANTS local, dsh1, dsh2, profile, p, q, v, a, b, c, c1, c2, r1, r2

PreferPThenQ == <<p, q>>

(* The three share no state: a behaviour looks at one, and the others rest. *)
VARIABLE part

LocalInit ==
  /\ part \in {"executions", "commands", "routers"}
  /\ ExecInit /\ AdmissionInit /\ FailoverInit
  /\ part # "executions" => \A e \in ExecutionIds : target(e) = local
  /\ part # "commands" => DOMAIN file = {}
LocalNext ==
  /\ UNCHANGED part
  /\ \/ part = "executions" /\ ExecNext /\ UNCHANGED <<admissionVars, failoverVars>>
     \/ part = "commands" /\ AdmissionNext /\ UNCHANGED <<execVars, failoverVars>>
     \/ part = "routers" /\ FailoverNext /\ UNCHANGED <<exec, leases, admissionVars>>
LocalSpec == LocalInit /\ [][LocalNext]_<<part, execVars, admissionVars, failoverVars>>

(* The calls are interchangeable. *)
CallSymmetry == Permutations(ExecutionIds)

(* Local and DSH calls share nothing and are looked at apart.  For one run *)
(* there are three calls, two of them under way at a time, for two runs two. *)
UnderWay == {e \in ExecutionIds : exec[e].pc \notin {"idle", "over"}}
Begun == {e \in ExecutionIds : ~At(e, "idle")}
CallBound ==
  /\ (\A e \in ExecutionIds : Local(e)) \/ (\A e \in ExecutionIds : ~Local(e))
  /\ Cardinality(UnderWay) <= 2
  /\ Cardinality({target(e) : e \in Begun}) = 2 => Cardinality(Begun) = 2

(* Two budgets are not declared in the same behaviour; those of providers  *)
(* by the routers only, and a request fails a provider once, so that only  *)
(* a ceiling of none is ever used up there.                                *)
OneBudget ==
  /\ Cardinality({x \in Budgeted : ceiling[x] # NoCeiling}) <= 1
  /\ \A x \in Budgeted : ceiling[x] = 0 => x \in Providers

(* Each router has its run. *)
OwnRuns == router[r1].run \in {NoRun, dsh1} /\ router[r2].run \in {NoRun, dsh2}

(* A receipt comes from the provider's console when the run has ended. *)
LateReceipts ==
  \A r \in Runs : exits[r] # <<>> /\ Head(exits[r]) = "owner-backed" => run[r] \in Terminal

(* What decides no step and no property any more is not told apart:        *)
(* results, the ceilings nobody is charged under, what a call did before   *)
(* it was over, the look at a status that has been acted on, and of a DSH  *)
(* call what only a local one is asked for.                                *)
Owing(e) == ~TerminationOf(e) \/ ~ClosedBy(e)
RelevantCall(e) ==
  IF At(e, "over")
  THEN <<target(e), exec[e].rearmed, exec[e].child = "alive", Owing(e)>>
  ELSE IF Local(e)
  THEN [exec[e] EXCEPT !.closed = FALSE,
                       !.seen = IF At(e, "stopping") THEN @ ELSE "absent"]
  ELSE <<exec[e].pc, target(e), exec[e].rearmed, exec[e].child,
         exec[e].outcome = "completed", "exit" \in exec[e].lost,
         exec[e].secret /\ At(e, "judging"),
         IF At(e, "stopping") THEN exec[e].seen ELSE "absent">>
RelevantCommand(n) ==
  IF command[n].pc \in {"idle", "denied"} THEN command[n].pc
  ELSE IF command[n].pc \in {"started", "over"}
  THEN [command[n] EXCEPT !.config.authorized = {}, !.config.path = FALSE]
  ELSE command[n]
Gone == {"dead", "raised", "completed", "safe_stopped"}
RelevantRouter(n) ==
  LET r == router[n].run
  IN  IF router[n].pc \in Gone
      THEN <<router[n].pc \in Returned>>
      ELSE <<router[n].pc, router[n].time, router[n].left,
             IF RouterAt(n, "built") THEN router[n].known
             ELSE IF router[n].pc \in {"failed", "counted"} THEN router[n].known[Asking(n)]
             ELSE 0,
             IF r = NoRun THEN <<>> ELSE <<asked[r], attempts[r], fallbacks[r], spent[r]>> >>
RelevantCeilings ==
  LET charged == {x \in Runs \union {Profile} :
                    \E e \in ExecutionIds : ~Local(e) /\ x \in {target(e), Profile}}
  IN  [x \in charged |-> ceiling[x]]

(* Only the part that does not rest is looked at. *)
Relevant ==
  IF part = "routers"
  THEN <<"routers", [n \in Callers |-> RelevantRouter(n)], cooled, run,
         [x \in Providers |-> ceiling[x]]>>
  ELSE IF part = "commands"
  THEN <<"commands", file, staged, [n \in Commands |-> RelevantCommand(n)]>>
  ELSE <<"executions", [e \in ExecutionIds |-> RelevantCall(e)], run, leases, spent,
         [r \in Runs |-> ExitIsRecorded(r)], gated, RelevantCeilings>>
=============================================================================
