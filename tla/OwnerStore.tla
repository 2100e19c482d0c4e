------------------------------ MODULE OwnerStore ------------------------------
(***************************************************************************)
(* The file under the durable owner (composition.py): opening and          *)
(* migrating it, snapshots and exports, backups and restores, by several   *)
(* processes that may crash.                                               *)
(*                                                                         *)
(* The content of the database is the version of each of its tables; a     *)
(* transaction gives the tables it writes a new one.  SQLite keeps what is *)
(* committed in the write-ahead log beside the file until a checkpoint     *)
(* moves it, and pairs log and file by their names: os.replace puts a new  *)
(* file under the name, and the log stays.                                 *)
(***************************************************************************)
EXTENDS Naturals, FiniteSets, Sequences

CONSTANTS
  Procs,       \* processes, each with one owner at a time
  WriteLimit,  \* bounds the transactions
  FileLimit,   \* bounds the files that have been under the name
  NoContent

ASSUME StoreAssumption == WriteLimit \in Nat /\ FileLimit \in Nat \ {0}

VARIABLES
  file,     \* every file that has been under the name, the current one last; cold:
            \* put there when nobody had it open and nothing was in the log
  log,      \* the tables in the write-ahead log, with their versions
  writes,   \* transactions so far
  proc,     \* each process: its step, its file, what it has read or copied
  backup,   \* the backup directory
  past,     \* history: what an owner could read at some time
  report    \* history: what the last restore reported, until the next write

storeVars == <<file, log, writes, proc, backup, past, report>>

(* The tables of a run, in the order in which the snapshot reads them:     *)
(* effects stand for attempts and results too.                             *)
Order == <<"runs", "effects", "events">>
Tables == {Order[i] : i \in DOMAIN Order}
Content == [Tables -> 0..WriteLimit]
ASSUME NoContentAssumption ==
  \A ts \in SUBSET Tables : NoContent \notin [ts -> 0..WriteLimit]
SCHEMA_VERSION == 3
MigratedColumns == {"results.evidence_source", "provider_exit_ledger.evidence_class"}

current == Len(file)
NoFile == 0
Nothing == [t \in {} |-> 0]
Idle == [pc |-> "closed", file |-> NoFile, read |-> Nothing, column |-> "none",
         todo |-> {}, copy |-> NoContent]
NoBackup == [database |-> NoContent, state |-> NoContent, manifest |-> FALSE]
NoReport == [state |-> NoContent, cold |-> FALSE]

Over(c, l) == [t \in Tables |-> IF t \in DOMAIN l THEN l[t] ELSE c[t]]
Seen(f) == Over(file[f].data, log)       \* what a connection to file f reads
View(p) == Seen(proc[p].file)
At(p, step) == proc[p].pc = step
Openers(f) == {p \in Procs : proc[p].file = f}
Opening == {"opening", "migrating", "looked"}
Replaying == {"viewing", "viewed", "loading", "loaded", "simulated", "denied"}  \* EvidenceReplay
InUse == {"open", "copying", "reading", "stating", "stated"} \union Replaying
Restoring == {"valid", "copied"}

StoreTypeOK ==
  /\ Len(file) \in 1..FileLimit
  /\ \A i \in DOMAIN file :
       /\ file[i].data \in Content /\ file[i].version \in {2, SCHEMA_VERSION}
       /\ file[i].lacks \subseteq MigratedColumns /\ file[i].cold \in BOOLEAN
  /\ DOMAIN log \subseteq Tables /\ \A t \in DOMAIN log : log[t] \in 0..WriteLimit
  /\ writes \in 0..WriteLimit
  /\ \A p \in Procs :
       /\ proc[p].pc \in {"closed"} \union Opening \union InUse \union Restoring
       /\ proc[p].file \in 0..Len(file)
       /\ proc[p].file # NoFile <=> proc[p].pc \in Opening \union InUse
  /\ past \subseteq Content

StoreInit ==
  /\ \E old \in BOOLEAN :
       file = <<[data |-> [t \in Tables |-> 0],
                 version |-> IF old THEN 2 ELSE SCHEMA_VERSION,
                 lacks |-> IF old THEN MigratedColumns ELSE {}, cold |-> TRUE]>>
  /\ log = Nothing
  /\ writes = 0
  /\ proc = [p \in Procs |-> Idle]
  /\ backup = NoBackup
  /\ past = {[t \in Tables |-> 0]}
  /\ report = NoReport

-----------------------------------------------------------------------------
(* Opening an owner: the schema script and the migration. *)

Open(p) ==
  /\ At(p, "closed")
  /\ proc' = [proc EXCEPT ![p].pc = "opening", ![p].file = current]
  /\ past' = past \union {Seen(current)}
  /\ UNCHANGED <<file, log, writes, backup, report>>

ReadVersion(p) ==
  /\ At(p, "opening")
  /\ proc' = IF file[proc[p].file].version < SCHEMA_VERSION
             THEN [proc EXCEPT ![p].pc = "migrating", ![p].todo = MigratedColumns]
             ELSE [proc EXCEPT ![p].pc = "open"]
  /\ UNCHANGED <<file, log, writes, backup, past, report>>

(* PRAGMA table_info; a column that is there is left alone. *)
LookForColumn(p) ==
  /\ At(p, "migrating")
  /\ \E c \in proc[p].todo :
       proc' = [proc EXCEPT ![p].todo = @ \ {c}, ![p].column = c,
                  ![p].pc = IF c \in file[proc[p].file].lacks THEN "looked" ELSE @]
  /\ UNCHANGED <<file, log, writes, backup, past, report>>

(* Mutant: the failed owner keeps its connection. *)
AddColumnLeaks(p) ==
  /\ At(p, "looked")
  /\ LET missing == proc[p].column \in file[proc[p].file].lacks
     IN /\ file' = [file EXCEPT ![proc[p].file].lacks = @ \ {proc[p].column}]
        /\ proc' = [proc EXCEPT ![p].pc = IF missing THEN "migrating" ELSE "closed"]
  /\ UNCHANGED <<log, writes, backup, past, report>>

(* ALTER TABLE; a column that has been added since is an error, and the    *)
(* owner does not open.                                                    *)
AddColumn(p) ==
  /\ At(p, "looked")
  /\ LET missing == proc[p].column \in file[proc[p].file].lacks
     IN /\ file' = [file EXCEPT ![proc[p].file].lacks = @ \ {proc[p].column}]
        /\ proc' = [proc EXCEPT ![p] = IF missing THEN [@ EXCEPT !.pc = "migrating"] ELSE Idle]
  /\ UNCHANGED <<log, writes, backup, past, report>>

(* Mutant: the version is bumped before the columns are there. *)
BumpEarly(p) ==
  /\ At(p, "migrating")
  /\ file' = [file EXCEPT ![proc[p].file].version = SCHEMA_VERSION]
  /\ proc' = [proc EXCEPT ![p].pc = IF proc[p].todo = {} THEN "open" ELSE @]
  /\ UNCHANGED <<log, writes, backup, past, report>>

BumpVersion(p) ==
  /\ At(p, "migrating") /\ proc[p].todo = {}
  /\ file' = [file EXCEPT ![proc[p].file].version = SCHEMA_VERSION]
  /\ proc' = [proc EXCEPT ![p].pc = "open"]
  /\ UNCHANGED <<log, writes, backup, past, report>>

-----------------------------------------------------------------------------
(* Working with an open owner. *)

(* One transaction on a run; it is as good as in the file once it is in    *)
(* the log.  Whatever it changes, it appends an event.                     *)
Write(p, ts) ==
  /\ proc[p].pc \in InUse /\ writes < WriteLimit
  /\ writes' = writes + 1
  /\ LET written == ts \union {"events"}
     IN log' = [t \in written \union DOMAIN log |-> IF t \in written THEN writes + 1 ELSE log[t]]
  /\ past' = past \union {Over(file[proc[p].file].data, log')}
  /\ report' = NoReport
  /\ UNCHANGED <<file, proc, backup>>

MoveLog(p) ==
  /\ file' = [file EXCEPT ![proc[p].file].data = View(p)]
  /\ log' = Nothing

(* SQLite checkpoints for any connection when the log is long enough. *)
Checkpoint(p) ==
  /\ proc[p].pc \in InUse /\ log # Nothing
  /\ MoveLog(p)
  /\ UNCHANGED <<writes, proc, backup, past, report>>

(* Mutant: the log is removed and its content with it. *)
CloseDropsLog(p) ==
  /\ At(p, "open")
  /\ proc' = [proc EXCEPT ![p] = Idle]
  /\ log' = IF Openers(proc[p].file) = {p} THEN Nothing ELSE log
  /\ UNCHANGED <<file, writes, backup, past, report>>

(* The last connection to a file takes the log with it. *)
Close(p) ==
  /\ At(p, "open")
  /\ proc' = [proc EXCEPT ![p] = Idle]
  /\ IF Openers(proc[p].file) = {p} THEN MoveLog(p) ELSE UNCHANGED <<file, log>>
  /\ UNCHANGED <<writes, backup, past, report>>

Crash(p) ==
  /\ ~At(p, "closed")
  /\ proc' = [proc EXCEPT ![p] = Idle]
  /\ UNCHANGED <<file, log, writes, backup, past, report>>

-----------------------------------------------------------------------------
(* backup: checkpoint, copy, snapshot, state.json, manifest. *)

(* The destination has to be empty. *)
StartBackup(p) ==
  /\ At(p, "open") /\ backup = NoBackup
  /\ MoveLog(p)
  /\ backup' = [NoBackup EXCEPT !.database = Nothing]
  /\ proc' = [proc EXCEPT ![p].pc = "copying"]
  /\ UNCHANGED <<writes, past, report>>

(* SQLite copies one state of the database. *)
CopyDatabase(p) ==
  /\ At(p, "copying")
  /\ backup' = [backup EXCEPT !.database = View(p)]
  /\ proc' = [proc EXCEPT ![p].pc = "reading", ![p].read = Nothing]
  /\ UNCHANGED <<file, log, writes, past, report>>

(* A SELECT of its own for each table, without a transaction around them. *)
ReadTable(p) ==
  /\ At(p, "reading")
  /\ LET next == Order[Cardinality(DOMAIN proc[p].read) + 1]
         read == [t \in DOMAIN proc[p].read \union {next} |->
                    IF t = next THEN View(p)[t] ELSE proc[p].read[t]]
     IN proc' = [proc EXCEPT ![p].read = read,
                             ![p].pc = IF DOMAIN read = Tables THEN "stating" ELSE @]
  /\ UNCHANGED <<file, log, writes, backup, past, report>>

WriteState(p) ==
  /\ At(p, "stating")
  /\ backup' = [backup EXCEPT !.state = proc[p].read]
  /\ proc' = [proc EXCEPT ![p].pc = "stated", ![p].read = Nothing]
  /\ UNCHANGED <<file, log, writes, past, report>>

WriteManifest(p) ==
  /\ At(p, "stated")
  /\ backup' = [backup EXCEPT !.manifest = TRUE]
  /\ proc' = [proc EXCEPT ![p].pc = "open"]
  /\ UNCHANGED <<file, log, writes, past, report>>

(* Somebody clears the directory when nobody works in it. *)
DiscardBackup ==
  /\ backup # NoBackup
  /\ \A p \in Procs : proc[p].pc \in {"closed", "open"} \union Opening
  /\ backup' = NoBackup
  /\ UNCHANGED <<file, log, writes, proc, past, report>>

-----------------------------------------------------------------------------
(* restore, by a process that has no owner open. *)

(* Mutant: the database is not compared with state.json. *)
ValidateDigests(p) ==
  /\ At(p, "closed")
  /\ backup.manifest
  /\ proc' = [proc EXCEPT ![p].pc = "valid"]
  /\ UNCHANGED <<file, log, writes, backup, past, report>>

(* All three files are there, with their digests, and say the same. *)
Acceptable == backup.manifest /\ backup.database = backup.state

Validate(p) ==
  /\ At(p, "closed")
  /\ Acceptable
  /\ proc' = [proc EXCEPT ![p].pc = "valid"]
  /\ UNCHANGED <<file, log, writes, backup, past, report>>

(* Beside the target; a crash leaves the target as it was. *)
CopyBeside(p) ==
  /\ At(p, "valid")
  /\ proc' = [proc EXCEPT ![p].pc = "copied", ![p].copy = backup.database]
  /\ UNCHANGED <<file, log, writes, backup, past, report>>

(* os.replace, with replace=True for the target exists.  Connections keep  *)
(* the file they have opened, and nobody looks for a log.                  *)
Replace(p) ==
  /\ At(p, "copied") /\ Len(file) < FileLimit
  /\ LET cold == log = Nothing /\ \A q \in Procs : proc[q].file = NoFile
     IN /\ file' = Append(file, [data |-> proc[p].copy, version |-> SCHEMA_VERSION,
                                lacks |-> {}, cold |-> cold])
        /\ report' = [state |-> backup.state, cold |-> cold]
  /\ proc' = [proc EXCEPT ![p] = Idle]
  /\ UNCHANGED <<log, writes, backup, past>>

-----------------------------------------------------------------------------
StoreStep(p) ==
  \/ Open(p) \/ ReadVersion(p) \/ LookForColumn(p) \/ AddColumn(p) \/ BumpVersion(p)
  \/ \E ts \in SUBSET (Tables \ {"events"}) : Write(p, ts)
  \/ Checkpoint(p) \/ Close(p) \/ Crash(p)
  \/ StartBackup(p) \/ CopyDatabase(p) \/ ReadTable(p) \/ WriteState(p) \/ WriteManifest(p)
  \/ Validate(p) \/ CopyBeside(p) \/ Replace(p)

StoreNext == (\E p \in Procs : StoreStep(p)) \/ DiscardBackup

StoreSpec == StoreInit /\ [][StoreNext]_storeVars

-----------------------------------------------------------------------------
(* Properties. *)

(* An owner that works with its file finds every migrated column in it,    *)
(* also while another process is still migrating, or has died doing so.    *)
SchemaIsCompleteInUse ==
  \A p \in Procs : proc[p].pc \in InUse => file[proc[p].file].lacks = {}

(* A restore into a place that nobody has open and that was closed in      *)
(* order gives back exactly the state whose digest it reports, whatever    *)
(* was written while the backup was taken and whichever backups and        *)
(* restores have died half-way; and if every restore before it was such a  *)
(* one, a state that an owner could once read.                             *)
ColdRestoreIsExact ==
  report.cold =>
    /\ Seen(current) = report.state
    /\ (\A i \in DOMAIN file : file[i].cold) => report.state \in past

(* No transaction is lost by a crash of the process that committed it, of  *)
(* a backup or of a restore: without a restore, the last version written   *)
(* to a table is the version that is read.                                 *)
CommittedIsDurable ==
  current = 1 =>
    \E t \in Tables : Seen(1)[t] = writes /\ \A u \in Tables : Seen(1)[u] <= writes

-----------------------------------------------------------------------------
(* What docstrings and tests say and the code does not do. *)

(* A restore gives back the state it reports to the next owner, nobody     *)
(* having the database open: a process that died has left a log beside the *)
(* replaced file, and the next owner reads both.                           *)
RestoredStateIsRead ==
  report # NoReport /\ (\A p \in Procs : proc[p].file = NoFile) => Seen(current) = report.state
=============================================================================
