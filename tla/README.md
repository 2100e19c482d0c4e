# A verification of ZWorkbench in TLA+

ZWorkbench runs agents and coding tools on a developer's machine and keeps
evidence of what they did. Its core is a *durable owner* (one SQLite file) of
runs, approvals and external effects; everything that starts a process, writes
to a repository or pushes to a remote asks the owner first and reports back
afterwards. This directory models that core and the components around it, checks
them with TLC and proves their safety guarantees with TLAPS.

Paths are relative to the repository; `py/` stands for `src/zworkbench/`.

## The system

| Component | State | Operations | Talks to | What is hard |
|---|---|---|---|---|
| Durable owner, `py/composition.py` | runs, approvals, effects and attempts, exposure, results, events | create/start/restart/complete/fail/stop runs, request/approve/deny, claim/complete/mark/reconcile effects, declare exposure, scan identity | everybody, by method calls; each call is one `BEGIN IMMEDIATE` transaction | callers in several processes, late reports, retries, stale reads between transactions |
| Owner ledgers, same file | retry and restart budgets, provider exit, attempt, fallback and access records | declare, record, read | adapters, router | look-up and insertion in separate transactions |
| Owner file, same file | database, write-ahead log, schema version, backup directory | open, migrate, snapshot, export, backup, restore | file system, other processes | concurrent migration, a live database copied and read again, a log left by a crash |
| Evidence replay, `py/replay.py` | cassettes (files) | recorded_view, simulated_replay, live_replay | owner | a view put together from several reads |
| Worker bridge, `py/worker_bridge.py`, `worker_heartbeat.py`, `subprocess_supervisor.py` | the operation, the worker process, the termination code, the exit receipt | handshake, read_only_coding, cancel, stop_parent, heartbeat verdict | owner; a worker over stdin/stdout; threads of the caller | three threads and a process; signals, deadlines, orphans; what one read brings |
| Worker contract, `py/worker_contract.py` | none | construct and validate messages, decide what a complete result is | bridge | two places that decide completeness |
| Push seam, `py/push_seam.py`, `push_run.py` | none of its own | push | owner, git, a remote | an irreversible act whose report may be lost |
| Write seam, `py/write_seam.py`, `write_run.py`, `write_propose.py` | worktree, fingerprint, proposed diff | propose, apply | owner, git | crash between commit and report, a proposal replaced under its approval |
| Local read-only orchestrator, `py/local_run.py` | none | preflight, run | owner, one adapter | closing the run after a failed adapter |
| Provider admission, `py/cli.py`, `local_run.py`, `provider_facade.py` | the staged provider file | configure, preflight, acquire, record | user's file, adapter | a file read once and copied later |
| Codex adapter, `py/codex_adapter.py` | app-server process, buffers, messages | start, execute, close | owner, subprocess, registry | late answers, questions of the server, blocking reads |
| DSH runtime, `py/dsh_runtime.py` | bootstrap process | execute | owner, subprocess, registry | restart of terminal runs, budgets |
| Resident registry, `py/resident_service_registry.py` | leases | acquire, release | the two adapters | capacity, shared leases |
| Failover router, `evaluation/fixtures/w8_remote_provider_failover/v1/router.py`, used by `scripts/run_real_ark_failover.py` | cooldowns | route a request | owner ledgers, providers | several records for one failure |
| Workbench server in Go, `app/internal/evidence`, `execution`, `executor` | its own SQLite owner | a port of the owner; request, confirm, execute, settle | HTTP, local processes, docker, ssh | effect and run closed in two transactions |
| CLI, doctor, scanners, vocabularies; data sources, HTTP API, UI, shells; evaluation harness | | | | |

`PROJECT.json` lists each with its status, and the hazards line by line. What
makes each correct is stated in the runs' properties below.

## Modules

| Module | Models | Built on |
|---|---|---|
| `CompositionOwner` | the owner: one action per operation, and per decision of `claim_effect`, that changes state | |
| `BoundedEffect` | abstract: what the owner promises of one effect (bounded tries, a retry only after an observation, one success) | |
| `OwnerRefinement` | the refinement mapping from the owner to `BoundedEffect` | `CompositionOwner` |
| `OwnerLedgers` | budgets, exit entries, access gate | `CompositionOwner` |
| `OwnerStore` | the owner's file: opening, migration, log, backup, restore, crashes | |
| `EvidenceReplay` | the replay service | `OwnerStore` |
| `WorkerBridge` | the bridge's threads over the owner | `CompositionOwner` |
| `WorkerContract` | the wire contract: pure decisions | |
| `WorkerExchange` | one turn of a worker, line by line | `WorkerContract` |
| `PushSeam` | calls of push, with the remote, third parties and the operator | `CompositionOwner` |
| `WriteSeam` | calls of propose and apply, with the worktree, developers and the operator | `CompositionOwner` |
| `Executions` | executions of local and DSH runs, with the registry | `OwnerLedgers` |
| `ProviderAdmission` | which provider a local run may reach | |
| `ProviderFailover` | the router over the ledgers | `OwnerLedgers` |
| `AppServerSession` | the Codex adapter's session with its app-server | |
| `EvidenceOwner` | the Go owner, with the decisions in which it differs | |
| `ExecutionService` | the Go execution service, handlers and executors | `EvidenceOwner` |
| `CompositionOwnerProofs` | theorems on the owner and its refinement | `OwnerRefinement` |
| `OwnerClientsProofs` | theorems on the push seam and the bridge | `PushSeam`, `WorkerBridge`, `CompositionOwnerProofs` |
| `WriteSeamProofs` | theorems on the write seam | `WriteSeam`, `CompositionOwnerProofs` |
| `LedgerClientsProofs` | theorems on executions, admission and router | their modules, `CompositionOwnerProofs` |
| `EvidenceReplayProofs` | theorems on the owner's file and the replay service | `EvidenceReplay` |
| `WorkerExchangeProofs`, `AppServerSessionProofs` | theorems on the worker's turn and on the session | the module |
| `ExecutionServiceProofs` | theorems on the Go service and its refinement | `ExecutionService`, `BoundedEffect` |
| `MC...` | small instances for TLC (`session` and `exchange` run their modules themselves) | |

A module built on another EXTENDS it, and each of its steps that calls the owner
is that owner action: the composition has the owner's own state and guards, not a
copy of them.

### CompositionOwner

A row of `effects` with its `effect_attempts` is one record `effect[o]`; a row
of `approvals` is `approval[o]`. Both tables declare `operation_id` UNIQUE, so
the operation names the row. An action and its resource are one *scope*, since
the code only ever compares the pair. Tokens are "right" (what `approve`
returned), "wrong" or "missing".

Every state-changing method runs in one immediate transaction and is rolled
back when it raises, so it is one action whose guard includes "does not raise".
Two exceptions are kept: `fail_run` on an effect in doubt commits the safe stop
and raises afterwards (`FailRunBlocked`), and the identity stop reads the graph
in one step (`ScanFindsViolation`) and stops the run in another
(`StopOnIdentityViolation`). `claim_effect` is split by decision: conflict,
exhausted, retry, out of bounds, wait, bad approval, unapproved, approved; the
decisions that write nothing are no steps.

Left out: events, digests, timestamps (an approval's expiry is a step
`ApprovalExpires`), credential redaction, caller authentication (callers are
taken to be admitted).

### OwnerLedgers

The owner has a budget table and a consumption table each for providers, DSH
profiles, workers and run restarts, all with one rule; here a budget belongs to a
subject, and a run is the subject of its own restarts. A consumption row keeps
the ceiling it was recorded under, an exit row its evidence class.
`record_provider_exit_ledger_once` is a look-up (`ExitIsRecorded`) and an
insertion (`RecordProviderExit`) that its callers make in two steps.

### OwnerStore and EvidenceReplay

The content of the database is the version of each of three tables (runs;
effects, standing for attempts and results too; events). A connection reads
`file[f].data` overlaid by `log`; a checkpoint or an orderly last close moves
the log into the file, a crash leaves it. SQLite pairs file and log by name, so
`Replace` (`os.replace`) puts a new file under the log that is there, while
connections keep the file they have opened. Migration is a look at the version,
then for each column a look and an `ALTER TABLE`, then the bump; a column
somebody else has added since makes the opener fail. `backup` is copy, one SELECT
per table, `state.json`, manifest, each a step; `restore` is validation, copy
beside, replace. Assumption: `Connection.backup` copies one consistent state. The
pragmas are those of production (WAL, FULL); with `ZW_OWNER_SANDBOX=1`
(`py/composition.py:2694-2696`) the journal is in memory and nothing is synchronised,
and `CommittedIsDurable` promises nothing.

`EvidenceReplay` adds the replay service in the same processes: a pin taken of
the events at some time, a view read table by table with the events last, a
cassette sealed from a view, and simulated or denied replays.

### WorkerBridge

The operation's thread is a sequence of steps (`op.pc`), one per call of the
owner and one per blocking or racing point between them; a thread in `cancel` or
`stop_parent` (`stopper`), the heartbeat thread (`monitor`) and the worker
process act in between. `CheckParent` reads the parent outside the transaction
that later creates the child, as the code does. The two records `handshake`
writes for the parent at its end are one step. Assumptions: SIGKILL settles the
leader of the process group; what left the worker's session is out of the
group's reach (`escaped`). Other users of the parent are `ParentWorks`.

The request is written to the worker's stdin before any deadline is set; that wait is
a step of its own (`writing`, `RequestWritten`, `WriteFails`). Steps that raise where
no handler accounts for them are actions too, and so are writes the owner refuses:
the snapshot of the workspace between the two `try` blocks (`SnapshotRaises`), the
stop and the exit record of a failed worker (`StopFailedWorker`), the final stop
(`CloseRaises`), and every swallowed refusal (`Swallowed`). `faulted` keeps the runs
such a step was about, `wedged` is a bridge that stays taken.

### WorkerContract and WorkerExchange

In `WorkerContract` a message is its type, its identity and provenance (functions
on the contract's field names) and the set of its other defects; the
construction checks are sequences of (defect, code) in the code's order, so the
first that fails decides. Completion is an operator on messages. `CapabilityFacade`
keeps no state and is called by nothing in the source; it is left out.

`WorkerExchange` takes one operation of the bridge apart where `WorkerBridge`
has a single choice: the worker says lines and writes files, properly or with
one thing wrong (`Misbehaves`), leaves helper processes inside or outside its
process group, with or without its stdout, and exits or crashes. `ReadBurst` is
one `os.read` with any number of lines; the size bound is put to the buffer. Then
the group is settled, response and result are validated field by field,
artifacts are compared with their digests, and the workspace with its snapshot.
`Undeclared` is what the bridge itself was constructed without: it compares the
worker's provenance with its own, "unknown" included. The snapshot sees the contents
of plain files; symbolic links, empty directories and modes are invisible to it, and
so no `Paths` of the model. A cleanup that is not provably clean stops the parent
whatever the error was (`AccountFailure`). Everything that stops the operation from
outside is `Interrupt`; the races of that are in `WorkerBridge`.

### PushSeam

A call is a sequence of steps: declare, claim, probe, push, verify, report,
complete, close the run. A failed precondition is reported in two transactions
(`PrecheckFails`, `ReportNotApplied`), as in the code. A call may crash at every
step, its push (`wire`) may arrive after it is gone, and the answer may be lost.
Assumptions: the operator reports what is true at the moment of looking, and
gives up on an attempt only when its call is over; third parties only move the
branch forward. The push run exists at the start (`_ensure_run`), which of the
preconditions fails is not distinguished.

### WriteSeam

`Propose` replaces the run's saved diff, `RequestWrite` and `ApproveWrite` are the
approval; a call of apply ensures the run, reads the diff, makes or reuses the
worktree, records its fingerprint (the first stays), declares the exposure,
claims, compares worktree and head with the record, applies, commits what is
uncommitted, completes the effect and the run. A commit is the set of patches it
brought in: `git add -A` takes along what an earlier call left. A call dies
between any two steps; the main repository moves on. The operator looks into the
worktree before settling an attempt.

### Executions, ProviderAdmission and ProviderFailover

An execution is one call of the local orchestrator or of the DSH adapter, step by
step between the owner's transactions, including what each way out does: release
of the slot, stop of the process, the exit entry, the access gate,
`_ensure_run_closed` (read, then fail). A local execution owns its registry, the
DSH executions share one. `record_provider_exit_ledger_once` is called from
several places through the pair `LookForExit`, `InsertExit`.

What the code swallows is kept: the exit entry (`AccountingFails`) and the gate's
decision (`GateFails`) may fail to be written and the execution goes on without;
`close()` may raise (`CloseRaises`), and then the closing of the run, its entry and
its gate are skipped; and an error text that looks like a credential is refused by
the owner twice, once to the adapter and once to `_ensure_run_closed` (`secret`,
`TextIsRefused`). `lost` is what a call failed to do. Left out: `state_digest`
raising after the completion, and the DSH adapter's `_stop_process` raising.

`ProviderAdmission` follows a command from arguments and the user's provider file
to a configuration, through the preflight and the facade, to the app-server that
reads the staged `config.toml`; commands share that file and the user edits
theirs at any time. Of an endpoint it matters whether it is loopback.

`ProviderFailover` is the router's loop: attempt row, cooldown, fallback row,
budget charge, next provider or stop; each a transaction, with crashes, stops and
budget declarations in between. Time is a caller's argument, as in the code.

### AppServerSession

One adapter and its thread (`call`), any number of calls of `execute` after each
other; the server answers late or never, asks, dies in the middle of a line, is
replaced, leaves a helper that holds its pipes. `pipe` is the server's stdout
with what waits in `stdout_buffer`; `read_one`, `request`, `wait_for`,
`_wait_turn_completed`, failure classification and `close` are the actions. Each write
to the server (a request, the notification, a denial) is a step that waits until the
server reads, with no deadline (`Unread`). A helper is in the server's group, or in it
and deaf to SIGTERM ("stubborn": `terminate_process` kills the group only when its
leader outlives SIGTERM), or beyond it. The registry may refuse the slot, the event
log or the run's record a write.

### EvidenceOwner and ExecutionService

The Go owner's operations with its own decisions: a restart re-arms any run that
exists, a token that is missing makes a claim wait, doubt sets the run to recovering
as if it were running, and the operation id is derived from run and profile. A call of the service is one HTTP
request; each of its transactions is a step, in between the server dies,
processes end or linger, other handlers and the operator change runs. A process
that is killed may leave something behind only where the executor cannot remove
it (`Lingering`).

## Runs

| Run | Instance | Properties | Shows |
|---|---|---|---|
| `owner_rivals` | two runs, one possibly the missing parent of the other, one operation; an approved, a mis-scoped and an approval-free request, limit 2 | `AttemptLedgerAgrees`, `ConsumedApprovalBacksEffect`, `CompletedRunSettled`, `TerminalRunsLeaveOnlyByRestart`, `SettledEffectsAreFinal`, `DoubtStopsTheRun` | attempts, approvals, settled effects and terminal runs stay consistent under every interleaving |
| `owner_pair` | one run, two operations that collide on a key, every effect class, two exposure boundaries | `IdempotencyKeyUsedOnce`, `ImplementsBoundedEffect` | keys are unique; the owner implements `BoundedEffect` |
| `bridge_recovery` | two interchangeable children, recovery mode, one run hit by a raising or refused step | `NothingLeftBehind`, `OutcomeMatchesRun` | child and caller agree and no process or open child is left, but for the run the fault hit |
| `bridge_ends` | one child, recovery mode, a parent with an effect of its own, one run hit by a raising or refused step, fairness | `FailureStopsTheParent`, `OperationEnds` | a failure takes the parent out of execution, and the operation returns unless the write of its request never does |
| `exchange` | two attempts, an artifact, two files, one misbehaviour, three lines, a bridge declared without a policy | `OnlyProperTurnsAreAccepted`, `RefusalsHaveAReason`, `AcceptedResultsMayComplete` | a turn is accepted exactly when it was proper, but for the excuses named, and what is accepted lacks nothing but what the bridge was declared without |
| `push_seam` | three interchangeable calls, limit 2, with a lease | `OnePushPerAttempt`, `ReceiptsAreTrue`, `CompletedRunHasPushed`, `OutcomeHitsOwnAttempt` | one push per attempt, true receipts, outcomes hit their attempt |
| `write_seam` | three calls, two diffs, two bases, a second operation | `OneCommitPerOperation`, `CompletedWriteLanded`, `CommitsStandOnTheRecord`, `LostClaimsAreExplained` | one commit per operation, on the recorded base; every stranded claim has a cause |
| `executions` | three executions, a local and two DSH runs, one slot; two commands; two routers over two providers | `LeasesBelongToExecutions`, `LocalRunsAreClosed`, `NothingOutlivesItsExecution`, `RestartsWithinBudget`, `TerminationIsAccounted`, `GatesExplainRemotes`, `RequestsAreAccounted` | slots and processes are given back on every way out; a run left open, an end without entry or gate is due to writes that failed |
| `owner_store` | two processes, two files, two transactions | `SchemaIsCompleteInUse`, `ColdRestoreIsExact`, `CommittedIsDurable`, `AnswersAreOfThePinnedRun` | no half-migrated file in use, nothing committed lost, exact cold restores, replays of the pinned state |
| `store_restore` | the same | `RestoredStateIsRead` (violated) | the finding below |
| `session` | two calls, a pipe of two lines, fairness | `AskedTurnsNeverComplete`, `ServersHoldSlots`, `ResultIsOfItsTurn`, `CallsEnd` | results belong to their turn, and calls return but for three system calls without a deadline |
| `exec_service` | one run, two profiles, two requests in progress, one lingering process | `OneStartPerApproval`, `CompletedRunIsQuiet` | one start per spent approval, nothing open in a completed run |

### Bounds

* Owner: two attempts are enough for every decision about retries (first, retry,
  exhausted); two runs or two operations for every conflict, since all checks are
  pairwise; two linked runs for a missing and a mended parent. Nothing is capped:
  attempts are bounded by the code's own limit.
* Bridge: two children, because each operation meets at most its predecessor's
  leftovers, and the first a fresh bridge; one where the question is about one
  operation and its parent, or whether it ends. `MaxFaults` bounds the runs that a
  raising or refused step may hit: one, because every property excuses the run it
  hit and asks the others for all.
* Exchange: `LineLimit` 3 is one line more than a coding turn has; `FaultLimit` 1,
  because the checks of a line, a file and the exit look at one thing each;
  `Flaws` takes one defect of each kind of check; `RetryCeiling` 2 leaves both
  attempts their charge. `Undeclared` is the policy: the three optional fields of the
  bridge's own provenance are treated alike.
* Push and write: three calls so that two stale callers can interfere with a third.
  `WriteSeam`'s `CallBound` allows three calls for one operation and two when a
  second operation is in play; its VIEW forgets what no step and no property reads
  any more.
* Executions: the three parts share no state, and a behaviour looks at one
  (`part`). `CallBound`: three calls of one run, two under way, or one call each
  of two runs; local and DSH calls apart. `OneBudget`: one declared budget, a
  ceiling of none for providers only (a request fails a provider once).
  `ReceiptLimit` 1, `LateReceipts`: a console receipt comes after the run's end.
  `OwnRuns`: each router has its run. `TimeLimit` 1 and `CooldownTicks` 1: before
  and after a cooldown. Capacity 1: the full registry is the interesting one.
* Store: `FileLimit` 2 (before and after a replacement), `WriteLimit` 2 (before and
  after a backup), `ReplayBound`: replays are not mixed with a backup under way,
  which reads and writes nothing they read.
* Session: two calls, for what the first leaves to the second; a pipe of two
  lines, so that it can be full, cut and read in bursts.
* Service: `MaxAttempts` 1 is the service's own; `MaxCount` and `StartLimit` 2
  count one more than should happen.

Deadlock is checked in the owner's runs. Everywhere else calls, children or
transactions are each used up and the system then stops. Symmetry (calls or
processes) is used only where no liveness is checked.

### Fairness

`BridgeSpec` asks weak fairness of the operation's thread, whose read loop has a
deadline and whose waits are bounded, and of the heartbeat thread's signalling;
nothing of the worker, of cancellations, of the parent's users, nor of the write of
the request: `OperationEnds` excuses an operation that stays in it. `SessionSpec`
asks weak fairness of the adapter's thread while no write keeps it (`Client /\
~Unread`) and strong fairness of its deadline, which is looked at after every line and
so passes also in a session that is read without end; nothing of the server or its
helper. `CallsEnd` names the three system calls that need not return: the write to a
server that does not read, the read from a server that replaced a dead one, and
`close`'s read of a stderr that a helper holds which SIGTERM does not end or reach.
The other specifications are for safety.

### Finding

`store_restore`: `restore` puts the backup under the database's name
(`py/composition.py:2671`) and leaves the write-ahead log of an owner that died
beside it. The next owner opens file and log together and reads committed pages of
the old database over the restored one; the state is not the one `restore` has
reported. `ColdRestoreIsExact` shows the converse: after an orderly close it is.

### Other disagreements

These configurations are not among the runs; each checks one statement of a
docstring, a comment or a test, and TLC shows a behaviour of the code that
contradicts it (`tlc -config X.cfg Module`; `MCExchangeBurst` with `WorkerExchange`, the others
with the MC module of their component). A statement may be meant for fewer
situations than it says: they are listed for the reader of the code.

| Configuration | Statement | Behaviour |
|---|---|---|
| `MCOwnerFreshApproval` | a retry needs a fresh approval (`py/push_seam.py:67-68`) | the retry branch of `claim_effect` (`py/composition.py:622`) asks for none, and looks at no exposure either |
| `MCOwnerHealthy` | a healthy run is not interrupted (`py/composition.py:1050-1052`) | the scan may be stale when the run is stopped (1055) |
| `MCBridgeClean` | completed only when cleanup was clean (`py/worker_bridge.py:78-80`) | handshake does not assert it (1399) |
| `MCBridgeOrphan` | an orphan is never reported clean (`py/worker_bridge.py:1528`) | descendants are listed after the leader is reaped (1531) |
| `MCExchangeBurst` | a message is refused for its size when it is too large | the bound is put to the whole buffer (`py/worker_bridge.py:1108`) |
| `MCPushNotApplied` | not applied means no push happened (`py/push_seam.py:438-439`) | the second half of the report hits a retry (445) |
| `MCWriteApproved` | the diff is bound to its approval (`py/write_propose.py:7-8`) | a later proposal of the run replaces the file; the approval holds no digest |
| `MCExecutionsOwnRuns` | the orchestrator closes what its execution left open (`py/local_run.py:309-314`) | a second call of the same run closes the first one's |
| `MCExecutionsSlots` | never more services than slots (`py/resident_service_registry.py:1`) | two executions of one run share a slot, and the first to end returns it |
| `MCAdmission` | the recorded class reflects the admitted path (`py/local_run.py:277-282`) | a `config.toml` staged before by a run with the gate stays |
| `MCAdmission`, with `-continue` | identity and transport have one source | the file is copied after it was read, and an earlier copy is kept |
| `MCSessionHealthy` | a turn wait that ran out means a healthy transport (`py/codex_adapter.py:126-134`) | the second wait does not look at the process |
| `MCServiceVerdict` | an execution that fails is not answered with a completed run (`app/internal/execution/service.go:191-199`) | effect and run are closed apart: another handler completes the run in between, `FailRun` is refused and the answer shows the run as it is (285, 302-324) |
| `MCServiceStopped` | a stopped run stays stopped (`app/internal/evidence/safe_stop.go`) | late doubt sets it to recovering (`reconcile.go:49`) |

Met while reading, without a configuration:

* Owner: `backup` makes directories that `restore` refuses when somebody writes
  between copy and snapshot (`py/composition.py:2586`, 2603); a concurrent migration
  makes the second opener fail; an exit entry may be inserted twice (1346), in Go
  too (`exit_ledger.go:306`).
* Bridge: a heartbeat verdict claimed after the last look at the termination code
  does not keep the child from completing (`py/worker_bridge.py:407`, against 963);
  a child name that is in use stops the run that has it (393); a recovered attempt
  in the same non-empty artifact root is refused; a refusal before any process
  exists is reported as "termination not provably clean"; a result's artifact id
  and the event ids are not compared.
  An error in the workspace snapshot (553) leaves the bridge taken, its child running
  and no failure recorded; so does one in the stop or the exit record of a failed
  worker (593-594) for its run. The request is written before any deadline is set
  (1003), so a worker that does not read it keeps the operation. A field in which the
  bridge itself is declared "unknown" is compared as a value (221-226), where
  `validate_worker_completion` does not let it complete a run.
* Contract: `_reject_secrets` refuses any field name with "token" in it, such as
  `token_count`. `CapabilityFacade.authorize` decides by `is_complete()`
  (`py/worker_contract.py:721`), which `docs/zj-adr/0011-*.md:43-47` says the default
  path does not use any more.
* Push: `git push` has no timeout (`py/push_seam.py:401`, against 155); a push in a
  run that was stopped meanwhile leaves its effect claimed (250, against 156-157),
  or is reported failed although its effect is completed (`py/push_run.py:91-93`);
  `py/push_run.py:10` names `metadata.parent_run_id`, which is passed as input.
* Executions: a restart of a running DSH run is a no-op, so a second execute is
  charged and runs a second process (`py/dsh_runtime.py:473`); a refusal for
  capacity leaves the run running (486), although `execute` says that all failures
  safe-stop it. "`local_run` ensures that the run reaches a terminal state and does
  not hang in running" (`py/local_run.py:309-314`) does not hold when the owner
  refuses the error text as a credential, the refusal being swallowed (328-339), or
  when `close()` raises before (267). A failed exit entry or gate is swallowed too.
* Session: a replaced server's stdout stays registered, so `os.read` may block past
  the deadline; `_write_message` has no deadline (`py/codex_adapter.py:514`); `close`
  reads stderr to its end (810), and `terminate_process` does not kill the group once
  its leader has ended on SIGTERM (`py/subprocess_supervisor.py:43-49`), so a helper
  that ignores it keeps `close`; a
  failure between acquiring the slot (300) and the `try` keeps it until `close`.
* Replay: a simulated replay answers with the cassette's result without comparing it
  with the source; `record_result` with a used source id returns the earlier value,
  where `record_event` refuses.
* Router: a "fallback" decision stays recorded when the exhausted budget then stops
  the run; `route` does not look at the run between attempts; a crash between
  failure and cooldown loses the cooldown.
* Service: a pending approval of another profile leaves a run that exited with 0
  running; a stop between claim and start does not prevent the start.

## Proofs

A run shows a property of one small instance; the theorems below show it for
every value of the constants: any number of runs, operations, calls, processes,
children, providers, any limits. Sets need not be finite, except where a theorem
counts (`RestartsWithinBudget`: the calls that have started are finitely many,
which the invariant carries).

Assumptions: the named `ASSUME`s of the modules, which the runs evaluate: types of
requests, limits and routes, and absence values distinct from real ones
(`NoContentAssumption` says that "no content" is not the content of any set of
tables). One theorem module has a hypothesis of its own: `ExecutionServiceProofs`
assumes `MaxAttempts = 1`, the value `Confirm` passes
(`app/internal/execution/service.go:236-239`) in the theorems on its handlers, and
not in its refinement. `ExchangeAssumption` asks that no attempt has the name of a
value that is missing and that the bridge knows its replay mode. `MaxFaults` is any natural number.
Bounds on traces that the runs add as
constraints (`CallBound`, `ReplayBound` and so on) are in no theorem. `WriteLimit`,
`FileLimit` and `MaxCount` are in the models' own guards and stay, with any value.

Every theorem rests on an inductive invariant, named in the table. Each was
checked with TLC on the run's instance before it was proved, and is proved action
by action, mostly through a frame lemma that says what a step of one actor leaves
of everybody else's part.

| Module | Theorems (properties) | Inductive invariant, and why the property alone is not inductive |
|---|---|---|
| `CompositionOwnerProofs` | `OwnerTypes`; `EffectsFollowStart`, `RetriesAreBoundedAndObserved` (`AttemptLedgerAgrees`), `OneApprovalOneEffect` (`ConsumedApprovalBacksEffect`), `OneEffectPerKey` (`IdempotencyKeyUsedOnce`), `CompletionIsSettled` (`CompletedRunSettled`), `FailureLeavesNoDoubt`; the action properties `OnlyRestartRearms`, `SettledIsFinal`, `DoubtIsVisible`; `OwnerImplementsBoundedEffect` (`ImplementsBoundedEffect`) | the conjunction of these. "A completed run is settled" needs "no effect before start": else a first claim in a run that never ran would come from nothing. The refinement uses types and ledger: a row about to succeed has count zero, a retry is within the limit |
| `OwnerClientsProofs`, push | `OneAttemptOnePush`, `PushAnswersAreTrue` (`ReceiptsAreTrue`), `CompletedPushRun`, `OutcomesHitOwnAttempt`; `PushKeepsTheOwner`, `PushImplementsBoundedEffect` | `PushInv`: attempt numbers belong to one call (`NumbersAreOwned`), a call at work keeps the effect claimed at its number (`WorkIsInFlight`), a push is on the wire only for a claim, "completed" is said only when the commit was at the branch. Without the numbers a stale call could report on a later attempt |
| `WriteSeamProofs` | `OneCommit`, `CompletedWrites`, `CommitsAreOnTheRecord`, `LostClaims`; `WriteKeepsTheOwner`, `WriteImplementsBoundedEffect` | `WriteInv`: numbers and claims as above, the worktree at its recorded base from the comparison on (`TreeStands`), and `CommitsAreCurrent`: a call that committed holds the latest attempt, and its diff is in the tree, so the operator can only find it applied. That is what excludes a second commit |
| `OwnerClientsProofs`, bridge | `NothingStaysBehind`, `CallersAreToldTheTruth` (`OutcomeMatchesRun`), `FailureReachesTheParent`; `BridgeKeepsTheOwner`, `BridgeImplementsBoundedEffect` | `BridgeInv`: at each step of the operation, which status its child may have (only a stop may come between), where a process may exist, and that every other child is at its end or among the runs a fault hit (`faulted`) |
| `LedgerClientsProofs` | executions: `SlotsHaveHolders`, `ChildrenAreReaped`, `LocalRunsEnd`, `RestartsAreBudgeted`, `EndsAreAccounted`; `ExecutionsKeepTheOwner`; admission: `RemotesAreExplained`; router: `RequestsAreTold`, `CallersKeepTheOwner` | `ExecInv`: by step of each call, what it has done for its run; what it failed to do (`lost`), and whether its error text is refused; a finite set of charged calls against the charges on record. `AdmissionInv`: a staged file was staged by a run with profile and gate. `RouterInv`: for each request a tale of providers asked, attempts, decisions and charges, and how much of it is written at each step |
| `EvidenceReplayProofs` | `SchemaIsComplete`, `ColdRestores`, `CommitsAreDurable`, `AnswersArePinned` | `StoreInv`: whoever migrates has still to look for what a file lacks; one process works in the backup directory; nothing was written since a reported cold restore; and while every file was put in place cold all who have it open have the current one, so what is read is in the past, where the events' version names one state. `ReplayInv`: what has been viewed so far agrees with the file unless the events have moved on |
| `WorkerExchangeProofs` | `ExchangeTyped`, `AcceptedTurnsAreProper` (`OnlyProperTurnsAreAccepted`), `RefusalsAreForFaults` (`RefusalsHaveAReason`), `AcceptedResultsComplete` (`AcceptedResultsMayComplete`) | `ExchangeInv`: what was read is a prefix of what was said; nobody speaks after the end of the stream; once the group is settled and nothing has escaped the files stand still; a refusal that no excuse explains has a fault that lasts (`Faulty`); a line that passed its checks is the greeting or the result the request asked for (`MessagesInv`). `Faulty` is what "refused for a reason" lacks: the worker goes on after the check that refused it |
| `AppServerSessionProofs` | `ServersKeepTheirSlots`, `QuestionsEndTheRun` (`AskedTurnsNeverComplete`), `ResultsAreOfTheirTurn` | `SessionInv` is about the order of lines in the stream: a request of the server and the agent's message stand before the end of their turn until read; a cut line of a dead server stands before every answer to the call that started its successor |
| `ExecutionServiceProofs` | `ApprovalsStartOnce`, `CompletionIsQuiet`; `ServiceImplementsBoundedEffect` | `ServiceInv`: one request has an operation in hand, and rows, starts and counts agree. For the refinement `EffectsStand`: a row has attempt 0 exactly when there is no effect, and success count 1 exactly when it is completed |

`TypeOK`, `NoEffectBeforeStart` and `FailedRunNotInDoubt` are proved and no run
checks them any more: what a run would show of one instance is known of all.

### The owner under its clients

The push and write seams, the bridge and the ledgers' clients are over the owner,
and their proofs use its lemmas: each of their steps that calls the owner *is* an
owner action, and `CompositionOwnerProofs` says what an owner action does to a row.

Its theorems are about `CompositionOwner!Spec`, where the owner's constants say who
may be whose parent and which boundaries may be pinned; a client chooses both as it
goes. `ClientStep` is the owner's step extended by these two, and `ClientStart` a
start with runs under way but no effects and no run at its end. From any such start,
such steps keep `OwnerInv` (`ClientKeepsOwner`), have the three action properties
(`ClientKeepsActions`), and are a step or a stutter of `BoundedEffect`
(`ClientKeepsProtocol`). What remains for a client is one case per action: it is
such a step, or leaves the owner alone. Hence `...KeepsTheOwner`: nothing a crashed,
repeated or late caller does takes the owner's tables apart, re-arms a run that is
over, changes a settled effect or hides a doubt; and `...ImplementsBoundedEffect`.

The Go owner is another implementation of the same protocol, with its own claim and
its own reconciliation, so its refinement is proved from its own actions
(`ServiceImplementsBoundedEffect`), with the status names mapped to the abstract ones
and for any number of attempts, not only the one that `Confirm` allows. TLC checked
the same formula once on one run, one operation and two attempts before the proof;
no run repeats it.

### The worker's turn

The contract's checks are sequences of which the first failing one decides. The
proofs need of them only that the answer is "ok" exactly when no check fails
(`FirstFailureIsOk`), which follows from the least index of a non-empty set of
numbers (`MinIsLeast`, from the well-foundedness of `<`); no induction over the
messages is used. An accepted turn then is one whose lines, read as a prefix of what
was said up to the end of the stream, all passed.

### Model-checked only

* liveness (`OperationEnds`, `CallsEnd`): TLAPS reasons about neither fairness nor
  ENABLED here;
* the statements of the two lists above that the code contradicts, of course: there
  is a counterexample for each.

## Plan

1. Done: the owner, its abstraction and proofs; ledgers, file, replay; bridge and
   exchange; push and write; executions, admission, router; session; the Go service.
2. Done: every invariant and action property a run checks is a theorem. The Python
   owner alone, under push, write and bridge, and the Go owner under its service,
   implement `BoundedEffect`.
3. Open: an abstraction of the push itself ("at most one push per approved attempt,
   true reports") above `BoundedEffect`; the hazards that `PROJECT.json` lists without
   a property, each of which the code is exposed to and a configuration above shows;
   handshakes of several workers at once; the DSH runtime's and the command line's
   remaining operations.

## Not modelled

* Caller authentication (`py/composition.py`, sessions): decided before any of the
  modelled transactions; it changes no run. That `caller_auth_required` is read once
  at open (176) was noted while reading.
* Diagnosis, scanners, vocabularies and the parser of the command line: pure
  classification of strings or probes of the machine, without state.
* `CapabilityFacade`: nothing in the source calls it, and it keeps no state.
* Event contents, digests, redaction and receipts' wording, throughout.
* The server's data sources, market, review and research tabs: read-only views over
  a fetch with a fallback chain; its HTTP parsing, settings and agent provider.
* The UI and the desktop shells: presentation and process start-up.
* The evaluation harness (`evaluation/runner`, most of `evaluation/fixtures`,
  `scripts`): about two thirds of the Python lines. Its programs drive fakes through
  one fixed scenario each, write a report and end; the behaviour they measure is
  that of the components modelled here. A model of one would be its script. The
  exception is the failover router, which is a client of the owner in its own right.
