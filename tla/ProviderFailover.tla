--------------------------- MODULE ProviderFailover ---------------------------
(***************************************************************************)
(* The owner-backed provider router (router.py of the remote provider      *)
(* failover fixture, which the real failover script uses too): the client  *)
(* of the owner's attempt, fallback and retry-budget ledgers.              *)
(*                                                                         *)
(* A caller creates and starts a run of its own, builds a router, which    *)
(* reads the recorded cooldowns, and has one request routed at a logical   *)
(* time.  The routes that are not cooling down are tried in order.  Every  *)
(* record is a transaction of the owner; in between callers interleave,    *)
(* die, and the operator stops runs and declares budgets.                  *)
(***************************************************************************)
EXTENDS OwnerLedgers, SequencesExt, FiniteSetsExt

CONSTANTS
  Callers,        \* each routes one request
  Routes,         \* the providers, in the order in which they are preferred
  CooldownTicks,
  TimeLimit,      \* bounds the logical times
  NoProvider

Providers == ToSet(Routes)
Times == 0 .. TimeLimit

ASSUME FailoverAssumption ==
  /\ Routes \in Seq(Subjects) /\ Routes # <<>> /\ IsInjective(Routes)
  /\ CooldownTicks \in Nat \ {0} /\ TimeLimit \in Nat
  /\ NoProvider \notin Subjects

VARIABLES
  cooled,      \* the latest cooldown recorded for each provider
  attempts,    \* the attempt ledger of each run
  fallbacks,   \* the fallback ledger of each run
  router,      \* each caller: its step, run, time, cooldowns, remaining routes
  asked        \* history: the providers that each run's request went to

failoverVars == <<cooled, attempts, fallbacks, router, asked>>

RouterSteps == {"idle", "created", "started", "built", "cold", "trying", "failed",
                "counted", "cooling", "decided", "exhausted", "stopping", "succeeded",
                "answered", "completed", "safe_stopped", "raised", "dead"}
Returned == {"completed", "safe_stopped"}

AttemptRow ==
  [provider : Providers, number : Nat \ {0}, status : {"failed", "succeeded"}]
FallbackRow ==
  [from : Providers \union {NoProvider}, to : Providers \union {NoProvider},
   mode : {"fallback", "safe_stop"}, number : Nat]

FailoverTypeOK ==
  /\ cooled \in [Providers -> Nat]
  /\ attempts \in [Runs -> Seq(AttemptRow)]
  /\ fallbacks \in [Runs -> Seq(FallbackRow)]
  /\ router \in [Callers -> [pc : RouterSteps, run : Runs \union {NoRun}, time : Times,
                             known : [Providers -> Nat], left : Seq(Providers)]]
  /\ asked \in [Runs -> Seq(Providers)]

FailoverInit ==
  /\ cooled = [p \in Providers |-> 0]
  /\ attempts = [r \in Runs |-> <<>>]
  /\ fallbacks = [r \in Runs |-> <<>>]
  /\ router = [c \in Callers |->
       [pc |-> "idle", run |-> NoRun, time |-> 0, known |-> cooled, left |-> <<>>]]
  /\ asked = [r \in Runs |-> <<>>]

RouterAt(c, step) == router[c].pc = step
RouterGoto(c, step) == router' = [router EXCEPT ![c].pc = step]
Asking(c) == Head(router[c].left)
Number(c) == Len(asked[router[c].run])

-----------------------------------------------------------------------------
(* The caller's run. *)

Prepare(c) ==
  /\ \/ /\ RouterAt(c, "idle")
        /\ \E r \in Runs :
             /\ CreateRun(r, NoRun)
             /\ router' = [router EXCEPT ![c].pc = "created", ![c].run = r]
     \/ /\ RouterAt(c, "created")
        /\ IF run[router[c].run] = "created"
           THEN StartRun(router[c].run) /\ RouterGoto(c, "started")
           ELSE RouterGoto(c, "raised") /\ UNCHANGED vars
  /\ UNCHANGED <<ledgers, cooled, attempts, fallbacks, asked>>

(* Cooldowns are read once; what others record afterwards is not seen. *)
LoadCooldowns(c) ==
  /\ RouterAt(c, "started")
  /\ router' = [router EXCEPT ![c].pc = "built", ![c].known = cooled]
  /\ UNCHANGED <<vars, ledgers, cooled, attempts, fallbacks, asked>>

(* Of the orders of a set of providers, the one in which the routes are. *)
Preferred(p, q) == \E m, n \in DOMAIN Routes : m < n /\ Routes[m] = p /\ Routes[n] = q
Ordered(providers) ==
  {left \in SetToSeqs(providers) :
     \A m, n \in DOMAIN left : m < n => Preferred(left[m], left[n])}

Available(c, time) == Ordered({p \in Providers : router[c].known[p] <= time})

Route(c) ==
  /\ RouterAt(c, "built")
  /\ \E time \in Times : \E left \in Available(c, time) :
       router' = [router EXCEPT ![c].time = time, ![c].left = left,
                                ![c].pc = IF left = <<>> THEN "cold" ELSE "trying"]
  /\ UNCHANGED <<vars, ledgers, cooled, attempts, fallbacks, asked>>

-----------------------------------------------------------------------------
(* Attempts.  A failure is cooled down in memory at once; an error that is *)
(* not a provider failure leaves the router, and the run as it is.         *)

Dispatch(c) ==
  /\ RouterAt(c, "trying")
  /\ asked' = [asked EXCEPT ![router[c].run] = Append(@, Asking(c))]
  /\ \/ router' = [router EXCEPT ![c].pc = "failed",
          ![c].known[Asking(c)] = Max({@, router[c].time + CooldownTicks})]
     \/ RouterGoto(c, "succeeded")
     \/ RouterGoto(c, "raised")
  /\ UNCHANGED <<vars, ledgers, cooled, attempts, fallbacks>>

RecordAttempt(c, status) ==
  attempts' = [attempts EXCEPT ![router[c].run] =
    Append(@, [provider |-> Asking(c), number |-> Number(c), status |-> status])]

CountFailure(c) ==
  /\ RouterAt(c, "failed")
  /\ RecordAttempt(c, "failed") /\ RouterGoto(c, "counted")
  /\ UNCHANGED <<vars, ledgers, cooled, fallbacks, asked>>

RecordCooldown(c) ==
  /\ RouterAt(c, "counted")
  /\ cooled' = [cooled EXCEPT ![Asking(c)] = Max({@, router[c].known[Asking(c)]})]
  /\ RouterGoto(c, "cooling")
  /\ UNCHANGED <<vars, ledgers, attempts, fallbacks, asked>>

RecordFallback(r, from, to, number) ==
  fallbacks' = [fallbacks EXCEPT ![r] =
    Append(@, [from |-> from, to |-> to, number |-> number,
               mode |-> IF to = NoProvider THEN "safe_stop" ELSE "fallback"])]

Successor(c) == IF Len(router[c].left) = 1 THEN NoProvider ELSE router[c].left[2]

Decide(c) ==
  /\ \/ /\ RouterAt(c, "cooling")
        /\ RecordFallback(router[c].run, Asking(c), Successor(c), Number(c))
        /\ RouterGoto(c, "decided")
     \/ /\ RouterAt(c, "cold")
        /\ RecordFallback(router[c].run, NoProvider, NoProvider, 0)
        /\ RouterGoto(c, "stopping")
  /\ UNCHANGED <<vars, ledgers, cooled, attempts, asked>>

(* The loop goes on, or gives up when no route is left. *)
Advance(c) ==
  router' = [router EXCEPT ![c].left = Tail(@),
                           ![c].pc = IF Successor(c) = NoProvider THEN "stopping" ELSE "trying"]

(* Mutant: an exhausted budget is taken note of, and the next provider asked. *)
ChargeAnyway(c) ==
  /\ RouterAt(c, "decided")
  /\ \/ ConsumeProviderRetry(router[c].run, Asking(c))
     \/ ~WithinBudget(router[c].run, Asking(c)) /\ UNCHANGED ledgers
  /\ Advance(c)
  /\ UNCHANGED <<vars, cooled, attempts, fallbacks, asked>>

(* The failure is charged to the budget of its provider; a budget that is  *)
(* used up ends the request, whatever the decision said.                   *)
Charge(c) ==
  /\ RouterAt(c, "decided")
  /\ IF WithinBudget(router[c].run, Asking(c))
     THEN /\ ConsumeProviderRetry(router[c].run, Asking(c))
          /\ Advance(c)
     ELSE RouterGoto(c, "exhausted") /\ UNCHANGED ledgers
  /\ UNCHANGED <<vars, cooled, attempts, fallbacks, asked>>

SafeStop(c) ==
  /\ router[c].pc \in {"stopping", "exhausted"}
  /\ SafeStopRun(router[c].run)
  /\ RouterGoto(c, "safe_stopped")
  /\ UNCHANGED <<ledgers, cooled, attempts, fallbacks, asked>>

CountSuccess(c) ==
  /\ RouterAt(c, "succeeded")
  /\ RecordAttempt(c, "succeeded") /\ RouterGoto(c, "answered")
  /\ UNCHANGED <<vars, ledgers, cooled, fallbacks, asked>>

(* The run may have been stopped in the meantime: complete_run raises. *)
Complete(c) ==
  /\ RouterAt(c, "answered")
  /\ LET r == router[c].run
     IN  IF run[r] = "running"
         THEN (\E v \in Values : CompleteRun(r, v)) /\ RouterGoto(c, "completed")
         ELSE RouterGoto(c, "raised") /\ UNCHANGED vars
  /\ UNCHANGED <<ledgers, cooled, attempts, fallbacks, asked>>

Die(c) ==
  /\ router[c].pc \notin {"idle", "dead", "raised"} \union Returned
  /\ RouterGoto(c, "dead")
  /\ UNCHANGED <<vars, ledgers, cooled, attempts, fallbacks, asked>>

-----------------------------------------------------------------------------
(* The operator. *)
StopRouted(r) ==
  /\ run[r] \in {"created", "running"} /\ SafeStopRun(r)
  /\ UNCHANGED <<ledgers, failoverVars>>

DeclareRetries(p, n) == DeclareBudget(p, n) /\ UNCHANGED <<vars, failoverVars>>

FailoverNext ==
  \/ \E c \in Callers :
       Prepare(c) \/ LoadCooldowns(c) \/ Route(c) \/ Dispatch(c) \/ CountFailure(c)
       \/ RecordCooldown(c) \/ Decide(c) \/ Charge(c) \/ SafeStop(c) \/ CountSuccess(c)
       \/ Complete(c) \/ Die(c)
  \/ \E r \in Runs : StopRouted(r)
  \/ \E p \in Providers, n \in Ceilings : DeclareRetries(p, n)

FailoverSpec ==
  /\ Init /\ LedgerInit /\ FailoverInit
  /\ [][FailoverNext]_<<vars, ledgers, failoverVars>>

-----------------------------------------------------------------------------
(* Properties. *)

(* The owner's ledgers tell the story of every request: the attempts are   *)
(* the providers that were asked, in order and none of them twice, at most *)
(* the last one missing when the router died; a provider is asked after    *)
(* another only when the other's failure is on record, was charged to its  *)
(* budget and names the next in its decision.                              *)
LedgersTellTheRequest ==
  \A r \in Runs :
    /\ IsInjective(asked[r])
    /\ Len(asked[r]) - Len(attempts[r]) \in {0, 1}
    /\ \A n \in DOMAIN attempts[r] :
         attempts[r][n].provider = asked[r][n] /\ attempts[r][n].number = n
    /\ \A n \in 1 .. Len(asked[r]) - 1 :
         /\ attempts[r][n].status = "failed"
         /\ spent[r][asked[r][n]] # <<>>
         /\ fallbacks[r][n].from = asked[r][n] /\ fallbacks[r][n].to = asked[r][n + 1]

(* A request that was answered has a completed run whose last attempt      *)
(* succeeded; one that was given up has a safe-stopped run and a decision  *)
(* for each of its failures.                                               *)
AnswersAreAccounted ==
  \A c \in Callers :
    LET r == router[c].run
    IN  /\ RouterAt(c, "completed") =>
             run[r] = "completed" /\ Last(attempts[r]).status = "succeeded"
        /\ RouterAt(c, "safe_stopped") =>
             /\ run[r] = "safe_stopped"
             /\ Len(attempts[r]) = Len(asked[r])
             /\ Len(fallbacks[r]) = IF asked[r] = <<>> THEN 1 ELSE Len(asked[r])
             /\ \A n \in DOMAIN attempts[r] : attempts[r][n].status = "failed"

(* Both: whoever reads the ledgers and the run knows what a request did.   *)
RequestsAreAccounted == LedgersTellTheRequest /\ AnswersAreAccounted
=============================================================================
