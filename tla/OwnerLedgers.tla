---------------------------- MODULE OwnerLedgers ----------------------------
(***************************************************************************)
(* The append-only ledgers the durable owner keeps beside its runs         *)
(* (composition.py): retry and restart budgets, the provider-side exit     *)
(* accounting and the decisions of provider routing.                       *)
(*                                                                         *)
(* The owner has one budget table and one ledger for each of providers,    *)
(* DSH profiles, workers and run restarts, with the same rules.  Here a    *)
(* budget belongs to a subject, and the subject of a run's restarts is the *)
(* run itself.  A ledger row keeps what a rule is about: for a consumption *)
(* the ceiling it was recorded under, for an exit its evidence class.      *)
(***************************************************************************)
EXTENDS CompositionOwner

CONSTANTS
  Subjects,    \* providers, DSH profiles and workers with a retry budget
  Ceilings,    \* the ceilings that are declared
  NoCeiling  \* the bound of a consumption nobody declared a budget for

Budgeted == Subjects \union Runs

ASSUME LedgerAssumption ==
  /\ Subjects \cap Runs = {}
  /\ Ceilings \subseteq Nat /\ NoCeiling \notin Nat

VARIABLES
  ceiling,   \* the declared ceiling of each subject
  spent,     \* the consumptions of each subject in each run
  exits,     \* the evidence classes of each run's exit entries
  gated      \* runs with a recorded decision of the provider access gate

ledgers == <<ceiling, spent, exits, gated>>

ExitClasses == {"local-inventory", "owner-backed"}

LedgerTypeOK ==
  /\ ceiling \in [Budgeted -> Nat \union {NoCeiling}]
  /\ spent \in [Runs -> [Budgeted -> Seq(Nat \union {NoCeiling})]]
  /\ exits \in [Runs -> Seq(ExitClasses)]
  /\ gated \subseteq Runs

LedgerInit ==
  /\ ceiling = [x \in Budgeted |-> NoCeiling]
  /\ spent = [r \in Runs |-> [x \in Budgeted |-> <<>>]]
  /\ exits = [r \in Runs |-> <<>>]
  /\ gated = {}

-----------------------------------------------------------------------------
(* Declaring replaces; a ceiling may also be lowered.  Only a restart      *)
(* budget asks for its run to exist.                                       *)
DeclareBudget(x, n) ==
  /\ x \in Runs => run[x] # "absent"
  /\ ceiling' = [ceiling EXCEPT ![x] = n]
  /\ UNCHANGED <<spent, exits, gated>>

(* Every consumption counts, also those recorded before the declaration. *)
WithinBudget(r, x) ==
  IF ceiling[x] = NoCeiling THEN TRUE ELSE Len(spent[r][x]) + 1 <= ceiling[x]

RecordConsumption(r, x) ==
  /\ spent' = [spent EXCEPT ![r][x] = Append(@, ceiling[x])]
  /\ UNCHANGED <<ceiling, exits, gated>>

(* Mutant: the ceiling is compared with the consumptions already made. *)
ConsumeOneMore(r, x) ==
  /\ run[r] # "absent"
  /\ IF ceiling[x] = NoCeiling THEN TRUE ELSE Len(spent[r][x]) <= ceiling[x]
  /\ RecordConsumption(r, x)

(* Counted and recorded in one transaction; RetryBudgetExhausted otherwise. *)
Consume(r, x) ==
  /\ run[r] # "absent"
  /\ WithinBudget(r, x)
  /\ RecordConsumption(r, x)

(* The four of them: a run's restart is charged to the run itself. *)
ConsumeProviderRetry(r, x) == x \in Subjects /\ Consume(r, x)
ConsumeDshRetry(r, x) == x \in Subjects /\ Consume(r, x)
ConsumeWorkerRetry(r, x) == x \in Subjects /\ Consume(r, x)
RecordRunRestart(r) == Consume(r, r)

(* One entry for each call: the journal is not unique for a run. *)
RecordExit(r, class) ==
  /\ run[r] # "absent"
  /\ exits' = [exits EXCEPT ![r] = Append(@, class)]
  /\ UNCHANGED <<ceiling, spent, gated>>

RecordProviderExit(r) == RecordExit(r, "local-inventory")

(* A receipt from the provider's console; it supplements the inventory. *)
AttachReceipt(r) == RecordExit(r, "owner-backed")

(* The look-up of record_provider_exit_ledger_once, a transaction before.  *)
ExitIsRecorded(r) == exits[r] # <<>>

RecordAccessGate(r) ==
  /\ run[r] # "absent"
  /\ gated' = gated \union {r}
  /\ UNCHANGED <<ceiling, spent, exits>>
=============================================================================
