------------------------- MODULE EvidenceReplayProofs -------------------------
(***************************************************************************)
(* What holds of the owner's file (OwnerStore) and of the replay service   *)
(* over it (EvidenceReplay), for any number of processes, transactions and *)
(* replacements of the file.                                               *)
(*                                                                         *)
(* Two things carry the argument.  While every file has been put in place  *)
(* cold, all processes that have it open have the current one, so what     *)
(* they read has been read by an owner before; and a version is given to   *)
(* the events once, so the events tell which state it was.                 *)
(***************************************************************************)
EXTENDS EvidenceReplay, FiniteSetTheorems, TLAPS

Partial == UNION {[ts -> 0 .. WriteLimit] : ts \in SUBSET Tables}
Maybe == Partial \union {NoContent}

FileRecord == [data : Content, version : {2, SCHEMA_VERSION},
               lacks : SUBSET MigratedColumns, cold : BOOLEAN]
Pcs == {"closed"} \union Opening \union InUse \union Restoring
ProcRecord == [pc : Pcs, file : Nat, read : Partial, column : MigratedColumns \union {"none"},
               todo : SUBSET MigratedColumns, copy : Maybe]
BackupRecord == [database : Maybe, state : Maybe, manifest : BOOLEAN]
ReportRecord == [state : Maybe, cold : BOOLEAN]

StoreTypes ==
  /\ file \in Seq(FileRecord) /\ Len(file) > 0
  /\ log \in Partial /\ writes \in 0 .. WriteLimit
  /\ proc \in [Procs -> ProcRecord]
  /\ backup \in BackupRecord /\ report \in ReportRecord
  /\ past \subseteq Content

(* A process has a file open exactly in the steps that use one. *)
FilesInv ==
  \A p \in Procs :
    /\ proc[p].file \in 0 .. Len(file)
    /\ proc[p].file # NoFile <=> proc[p].pc \in Opening \union InUse

(* The tables are read in their order. *)
Prefixes == {{}, {"runs"}, {"runs", "effects"}}
Reading == {"reading", "viewing"}
HasRead == {"stating", "viewed"}

ReadInv ==
  \A p \in Procs :
    /\ proc[p].pc \in Reading => DOMAIN proc[p].read \in Prefixes
    /\ proc[p].pc \in HasRead => proc[p].read \in Content
    /\ proc[p].pc \notin Reading \union HasRead => proc[p].read = Nothing

(* What a file still lacks, whoever migrates it has still to look for; and *)
(* none has the new version before it has all.                             *)
MigrationInv ==
  /\ \A i \in 1 .. Len(file) : file[i].version = SCHEMA_VERSION => file[i].lacks = {}
  /\ \A p \in Procs :
       /\ At(p, "migrating") => file[proc[p].file].lacks \subseteq proc[p].todo
       /\ At(p, "looked") => file[proc[p].file].lacks \subseteq proc[p].todo \union {proc[p].column}
       /\ proc[p].pc \in InUse => file[proc[p].file].lacks = {}

BackingUp == {"copying", "reading", "stating", "stated"}

(* One process works in the backup directory; a finished backup is left    *)
(* alone by everybody who has one open.                                    *)
BackupInv ==
  /\ \A p \in Procs :
       /\ proc[p].pc \in BackingUp => ~backup.manifest /\ backup.database # NoContent
       /\ proc[p].pc \in BackingUp \ {"copying"} => backup.database \in Content
       /\ proc[p].pc \in Restoring => Acceptable
       /\ At(p, "copied") => proc[p].copy = backup.database
  /\ \A p, q \in Procs :
       proc[p].pc \in BackingUp /\ proc[q].pc \in BackingUp => p = q
  /\ backup.manifest => backup.database \in Content

(* Nothing has been written since the cold restore that was reported.      *)
ColdInv ==
  report.cold =>
    /\ log = Nothing
    /\ \A p \in Procs : proc[p].file \in {NoFile, current}
    /\ file[current].data = report.state

AllCold == \A i \in 1 .. Len(file) : file[i].cold

(* The states that owners could read, while every file was put in place    *)
(* cold.                                                                   *)
PastInv ==
  AllCold =>
    /\ \A p \in Procs : proc[p].file \in {NoFile, current}
    /\ Seen(current) \in past
    /\ backup.database \in Content => backup.database \in past
    /\ \A c \in past : c["events"] <= writes
    /\ \A c, d \in past : c["events"] = d["events"] => c = d

StoreInv ==
  /\ StoreTypes /\ FilesInv /\ ReadInv /\ MigrationInv
  /\ BackupInv /\ ColdInv /\ PastInv /\ CommittedIsDurable

PinRecord == [events : (0 .. WriteLimit) \union {NoContent},
              cassette : Sealed \union {NoCassette}]

(* What is sealed is of a state in the past. *)
IsOfThePast(events, semantic) ==
  \E c \in past : c["events"] = events /\ c["effects"] = semantic

(* What holds of process q while every file was put in place cold. *)
AskedInv(q) ==
  /\ At(q, "viewing") =>
       /\ \E c \in past : c["events"] = pin[q].events
       /\ View(q)["events"] = pin[q].events =>
            \A t \in DOMAIN proc[q].read : proc[q].read[t] = View(q)[t]
  /\ At(q, "viewed") =>
       proc[q].read \in past /\ proc[q].read["events"] = pin[q].events
  /\ proc[q].pc \in {"loading", "loaded", "simulated", "denied"} =>
       /\ pin[q].cassette.events = pin[q].events
       /\ IsOfThePast(pin[q].events, pin[q].cassette.semantic)

CassetteInv == cassette # NoCassette => IsOfThePast(cassette.events, cassette.semantic)

PinTypes == pin \in [Procs -> PinRecord] /\ cassette \in Sealed \union {NoCassette}

ReplayInv ==
  /\ PinTypes
  /\ AllCold => CassetteInv /\ \A q \in Procs : AskedInv(q)
-----------------------------------------------------------------------------
(* Contents *)

LEMMA TablesAre ==
  /\ Tables = {"runs", "effects", "events"}
  /\ Order[1] = "runs" /\ Order[2] = "effects" /\ Order[3] = "events"
  /\ ViewOrder = Order
BY DEF Tables, Order, ViewOrder

LEMMA PartialIs ==
  /\ \A l \in Partial : DOMAIN l \subseteq Tables /\ \A t \in DOMAIN l : l[t] \in 0 .. WriteLimit
  /\ \A l \in Partial : l = [t \in DOMAIN l |-> l[t]]
  /\ \A ts \in SUBSET Tables : [ts -> 0 .. WriteLimit] \subseteq Partial
  /\ Content \subseteq Partial /\ Nothing \in Partial /\ Nothing \notin Content
  /\ NoContent \notin Partial
<1>1. \A ts \in SUBSET Tables : [ts -> 0 .. WriteLimit] \subseteq Partial
  BY DEF Partial
<1>2. \A l \in Partial : \E ts \in SUBSET Tables : l \in [ts -> 0 .. WriteLimit]
  BY DEF Partial
<1>3. Content \subseteq Partial
  BY <1>1 DEF Content
<1>4. Nothing \in [{} -> 0 .. WriteLimit]
  BY DEF Nothing
<1>5. Nothing \in Partial
  BY <1>1, <1>4
<1>6. Nothing \notin Content
  <2>1. DOMAIN Nothing = {} /\ Tables # {}
    BY TablesAre DEF Nothing
  <2> QED
    BY <2>1 DEF Content
<1>7. NoContent \notin Partial
  BY <1>2, NoContentAssumption
<1>8. \A l \in Partial : l = [t \in DOMAIN l |-> l[t]]
  BY <1>2
<1> QED
  BY <1>1, <1>2, <1>3, <1>5, <1>6, <1>7, <1>8

LEMMA OverIs ==
  ASSUME NEW c \in Content, NEW l \in Partial
  PROVE  /\ Over(c, l) \in Content
         /\ \A t \in Tables : Over(c, l)[t] = IF t \in DOMAIN l THEN l[t] ELSE c[t]
<1>1. /\ \A t \in DOMAIN l : l[t] \in 0 .. WriteLimit
      /\ \A t \in Tables : c[t] \in 0 .. WriteLimit
  BY PartialIs DEF Content
<1> QED
  BY <1>1 DEF Over, Content

LEMMA OverNothing ==
  ASSUME NEW c \in Content
  PROVE  Over(c, Nothing) = c
<1>1. DOMAIN Nothing = {} /\ c = [t \in Tables |-> c[t]]
  BY DEF Nothing, Content
<1> QED
  BY <1>1 DEF Over

(* A content is what its tables are. *)
LEMMA SameContent ==
  ASSUME NEW c \in Content, NEW d \in Content, \A t \in Tables : c[t] = d[t]
  PROVE  c = d
<1>1. c = [t \in Tables |-> c[t]] /\ d = [t \in Tables |-> d[t]]
  BY DEF Content
<1> QED
  BY <1>1

-----------------------------------------------------------------------------
(* What a step does to one process or one file *)

LEMMA RecordsAre ==
  ASSUME StoreTypes
  PROVE  /\ \A p \in Procs :
              /\ proc[p] \in ProcRecord /\ proc[p].pc \in Pcs /\ proc[p].file \in Nat
              /\ proc[p].read \in Partial /\ proc[p].column \in MigratedColumns \union {"none"}
              /\ proc[p].todo \subseteq MigratedColumns /\ proc[p].copy \in Maybe
         /\ \A i \in 1 .. Len(file) :
              /\ file[i] \in FileRecord /\ file[i].data \in Content
              /\ file[i].version \in {2, SCHEMA_VERSION}
              /\ file[i].lacks \subseteq MigratedColumns /\ file[i].cold \in BOOLEAN
         /\ Len(file) \in Nat /\ current = Len(file) /\ current \in 1 .. Len(file)
         /\ backup.database \in Maybe /\ backup.state \in Maybe /\ backup.manifest \in BOOLEAN
         /\ report.state \in Maybe /\ report.cold \in BOOLEAN
<1>1. /\ Len(file) \in Nat /\ current = Len(file) /\ current \in 1 .. Len(file)
      /\ \A i \in 1 .. Len(file) : file[i] \in FileRecord
  BY DEF StoreTypes, current
<1>2. \A p \in Procs : proc[p] \in ProcRecord
  BY DEF StoreTypes
<1>3. backup \in BackupRecord /\ report \in ReportRecord
  BY DEF StoreTypes
<1>4. \A r \in ProcRecord :
        /\ r.pc \in Pcs /\ r.file \in Nat
        /\ r.read \in Partial /\ r.column \in MigratedColumns \union {"none"}
        /\ r.todo \subseteq MigratedColumns /\ r.copy \in Maybe
  BY DEF ProcRecord
<1>5. \A r \in FileRecord :
        /\ r.data \in Content /\ r.version \in {2, SCHEMA_VERSION}
        /\ r.lacks \subseteq MigratedColumns /\ r.cold \in BOOLEAN
  BY DEF FileRecord
<1>6. /\ backup.database \in Maybe /\ backup.state \in Maybe /\ backup.manifest \in BOOLEAN
      /\ report.state \in Maybe /\ report.cold \in BOOLEAN
  BY <1>3 DEF BackupRecord, ReportRecord
<1> QED
  BY <1>1, <1>2, <1>4, <1>5, <1>6

LEMMA SeenIs ==
  ASSUME StoreTypes
  PROVE  /\ \A i \in 1 .. Len(file) :
              /\ Seen(i) \in Content
              /\ \A t \in Tables :
                   Seen(i)[t] = IF t \in DOMAIN log THEN log[t] ELSE file[i].data[t]
         /\ Seen(current) \in Content
BY RecordsAre, OverIs DEF Seen, StoreTypes

(* Process p becomes r. *)
Becomes(p, r) == p \in Procs /\ r \in ProcRecord /\ proc' = [proc EXCEPT ![p] = r]

LEMMA BecomesIs ==
  ASSUME StoreTypes, NEW p, NEW r, Becomes(p, r)
  PROVE  /\ proc' \in [Procs -> ProcRecord] /\ proc'[p] = r /\ p \in Procs
         /\ \A q \in Procs : q # p => proc'[q] = proc[q]
         /\ \A q \in Procs : proc'[q] = proc[q] \/ (q = p /\ proc'[q] = r)
BY DEF Becomes, StoreTypes

(* File f becomes r. *)
Changes(f, r) == f \in 1 .. Len(file) /\ r \in FileRecord /\ file' = [file EXCEPT ![f] = r]

LEMMA ChangesIs ==
  ASSUME StoreTypes, NEW f, NEW r, Changes(f, r)
  PROVE  /\ file' \in Seq(FileRecord) /\ Len(file') = Len(file) /\ file'[f] = r
         /\ \A i \in 1 .. Len(file) : i # f => file'[i] = file[i]
         /\ current' = current
BY DEF Changes, StoreTypes, current

LEMMA IdleIs ==
  /\ Idle \in ProcRecord /\ Idle.pc = "closed" /\ Idle.file = NoFile /\ Idle.read = Nothing
BY PartialIs DEF Idle, ProcRecord, Pcs, NoFile, Maybe

-----------------------------------------------------------------------------
(* Steps that write nothing into the tables *)

(* Files gain columns only, and the version when they have all. *)
FilesGain ==
  /\ file' \in Seq(FileRecord) /\ Len(file') = Len(file)
  /\ \A i \in 1 .. Len(file) :
       /\ file'[i].cold = file[i].cold
       /\ file'[i].lacks \subseteq file[i].lacks
       /\ file'[i].version = SCHEMA_VERSION => file'[i].lacks = {}

(* The tables are as they were, be it from the log or from the file. *)
TablesStay ==
  /\ log' \in Partial /\ writes' = writes
  /\ AllCold => Seen(current)' = Seen(current)
  /\ report.cold => log' = Nothing /\ file'[current].data = file[current].data
  /\ CommittedIsDurable'

(* What a process may become, its file being f. *)
MayBecome(r, f) ==
  /\ r.file # NoFile <=> r.pc \in Opening \union InUse
  /\ r.pc \in Reading => DOMAIN r.read \in Prefixes
  /\ r.pc \in HasRead => r.read \in Content
  /\ r.pc \notin Reading \union HasRead => r.read = Nothing
  /\ r.pc = "migrating" => f.lacks \subseteq r.todo
  /\ r.pc = "looked" => f.lacks \subseteq r.todo \union {r.column}
  /\ r.pc \in InUse => f.lacks = {}

Parts ==
  /\ InUse = {"open"} \union BackingUp \union Replaying
  /\ Opening \intersect InUse = {} /\ "closed" \notin Opening \union InUse
  /\ BackingUp \intersect Replaying = {} /\ Restoring \intersect (Opening \union InUse) = {}

LEMMA PartsAre == Parts
BY DEF Parts, InUse, BackingUp, Replaying, Opening, Restoring

LEMMA NothingStored ==
  ASSUME StoreInv, UNCHANGED <<log, writes>>, FilesGain,
         \A i \in 1 .. Len(file) : file'[i].data = file[i].data
  PROVE  /\ TablesStay
         /\ \A i \in 1 .. Len(file) : Seen(i)' = Seen(i)
<1>1. current' = current /\ current \in 1 .. Len(file) /\ Len(file') = Len(file)
  BY RecordsAre DEF StoreInv, FilesGain, current
<1>2. \A i \in 1 .. Len(file) : Seen(i)' = Seen(i)
  BY DEF Seen
<1>3. Seen(current)' = Seen(current)
  BY <1>1, <1>2 DEF Seen
<1>4. CommittedIsDurable'
  <2>1. current = 1 => Seen(1)' = Seen(1)
    BY <1>1, <1>2
  <2> QED
    BY <1>1, <2>1 DEF StoreInv, CommittedIsDurable
<1>5. report.cold => log' = Nothing /\ file'[current].data = file[current].data
  BY <1>1 DEF StoreInv, ColdInv
<1> QED
  BY <1>2, <1>3, <1>4, <1>5 DEF TablesStay, StoreInv, StoreTypes

LEMMA LogMoves ==
  ASSUME StoreInv, NEW p \in Procs, proc[p].file # NoFile, MoveLog(p), writes' = writes
  PROVE  /\ TablesStay /\ FilesGain
         /\ \A i \in 1 .. Len(file) : file'[i].lacks = file[i].lacks
<1> SUFFICES ASSUME NEW f, f = proc[p].file
             PROVE  /\ TablesStay /\ FilesGain
                    /\ \A i \in 1 .. Len(file) : file'[i].lacks = file[i].lacks
  OBVIOUS
<1> DEFINE r == [file[f] EXCEPT !.data = Seen(f)]
<1>1. StoreTypes /\ FilesInv /\ MigrationInv /\ ColdInv /\ PastInv /\ CommittedIsDurable
  BY DEF StoreInv
<1>2. f \in 1 .. Len(file)
  BY <1>1, RecordsAre DEF FilesInv, NoFile
<1>3. Seen(f) \in Content
  BY <1>1, <1>2, SeenIs
<1>4. file[f] \in FileRecord
  BY <1>1, <1>2, RecordsAre
<1>5. /\ r \in FileRecord /\ r.data = Seen(f) /\ r.lacks = file[f].lacks
      /\ r.version = file[f].version /\ r.cold = file[f].cold
  BY <1>3, <1>4 DEF FileRecord
<1>6. Changes(f, r) /\ log' = Nothing
  BY <1>2, <1>5 DEF Changes, MoveLog, View
<1>7. /\ file' \in Seq(FileRecord) /\ Len(file') = Len(file) /\ file'[f] = r
      /\ \A i \in 1 .. Len(file) : i # f => file'[i] = file[i]
      /\ current' = current
  BY <1>1, <1>6, ChangesIs
<1>8. \A i \in 1 .. Len(file) :
        /\ file'[i].lacks = file[i].lacks /\ file'[i].version = file[i].version
        /\ file'[i].cold = file[i].cold
  BY <1>5, <1>7
<1>9. FilesGain
  BY <1>1, <1>7, <1>8 DEF FilesGain, MigrationInv
<1>10. Seen(f)' = Seen(f)
  BY <1>3, <1>5, <1>6, <1>7, OverNothing DEF Seen
<1>11. AllCold \/ report.cold \/ current = 1 => f = current
  BY <1>1, <1>2, RecordsAre DEF PastInv, ColdInv, NoFile
<1>12. AllCold => Seen(current)' = Seen(current)
  BY <1>7, <1>10, <1>11 DEF Seen
<1>13. report.cold => file'[current].data = file[current].data
  <2> SUFFICES ASSUME report.cold PROVE file'[current].data = file[current].data
    OBVIOUS
  <2>1. log = Nothing /\ f = current
    BY <1>1, <1>11 DEF ColdInv
  <2>2. Seen(f) = file[f].data
    BY <1>1, <1>2, <2>1, RecordsAre, OverNothing DEF Seen
  <2> QED
    BY <1>5, <1>7, <2>1, <2>2
<1>14. CommittedIsDurable'
  <2>1. current = 1 => Seen(1)' = Seen(1)
    BY <1>10, <1>11 DEF Seen
  <2> QED
    BY <1>1, <1>7, <2>1 DEF CommittedIsDurable
<1> QED
  BY <1>6, <1>8, <1>9, <1>12, <1>13, <1>14, PartialIs DEF TablesStay

(* One process moves and the tables are as they were. *)
LEMMA StepKeeps ==
  ASSUME StoreInv, NEW p, NEW r, Becomes(p, r), TablesStay, FilesGain,
         report' = report, backup' \in BackupRecord, BackupInv',
         past' = past \/ past' = past \union {Seen(current)},
         AllCold /\ backup'.database \in Content => backup'.database \in past,
         r.file \in {NoFile, current, proc[p].file}, MayBecome(r, file'[r.file])
  PROVE  StoreInv'
<1>1. /\ StoreTypes /\ FilesInv /\ ReadInv /\ MigrationInv
      /\ BackupInv /\ ColdInv /\ PastInv
  BY DEF StoreInv
<1>2. /\ proc' \in [Procs -> ProcRecord] /\ proc'[p] = r /\ p \in Procs
      /\ \A q \in Procs : q # p => proc'[q] = proc[q]
  BY <1>1, BecomesIs
<1>3. /\ Len(file) \in Nat /\ current \in 1 .. Len(file) /\ Len(file') = Len(file)
      /\ Seen(current) \in Content /\ current = Len(file) /\ current' = current
  BY <1>1, RecordsAre, SeenIs DEF FilesGain, current
<1>4. AllCold' = AllCold
  BY <1>3 DEF AllCold, FilesGain
<1>5. StoreTypes'
  BY <1>1, <1>2, <1>3 DEF StoreTypes, FilesGain, TablesStay
<1>6. r.file \in 0 .. Len(file)
  BY <1>1, <1>2, <1>3 DEF FilesInv, NoFile
<1>7. FilesInv'
  BY <1>1, <1>2, <1>3, <1>6 DEF FilesInv, MayBecome, NoFile
<1>8. ReadInv'
  BY <1>1, <1>2 DEF ReadInv, MayBecome
<1>9. MigrationInv'
  <2>1. \A q \in Procs : proc[q].pc \in Opening \union InUse => proc[q].file \in 1 .. Len(file)
    BY <1>1 DEF FilesInv, NoFile
  <2>2. {"migrating", "looked"} \subseteq Opening
    BY DEF Opening
  <2>3. ASSUME NEW q \in Procs, q # p
        PROVE  /\ At(q, "migrating")' => file'[proc'[q].file].lacks \subseteq proc'[q].todo
               /\ At(q, "looked")' =>
                    file'[proc'[q].file].lacks \subseteq proc'[q].todo \union {proc'[q].column}
               /\ proc'[q].pc \in InUse => file'[proc'[q].file].lacks = {}
    BY <1>1, <1>2, <2>1, <2>2, <2>3 DEF MigrationInv, FilesGain, At
  <2>4. \A i \in 1 .. Len(file') : file'[i].version = SCHEMA_VERSION => file'[i].lacks = {}
    BY <1>3 DEF FilesGain
  <2> QED
    BY <1>2, <2>3, <2>4 DEF MigrationInv, MayBecome, At
<1>10. \A q \in Procs :
         proc'[q].file \in {NoFile, current} \/ proc'[q].file = proc[q].file
  BY <1>2
<1>11. ColdInv'
  BY <1>1, <1>3, <1>10 DEF ColdInv, TablesStay
<1>12. PastInv'
  BY <1>1, <1>3, <1>4, <1>10 DEF PastInv, TablesStay
<1> QED
  BY <1>5, <1>7, <1>8, <1>9, <1>11, <1>12 DEF StoreInv, TablesStay

(* The same for a step that leaves the backup directory alone. *)
LEMMA MoveKeeps ==
  ASSUME StoreInv, NEW p, NEW r, Becomes(p, r), TablesStay, FilesGain,
         UNCHANGED <<backup, report>>,
         past' = past \/ past' = past \union {Seen(current)},
         r.file \in {NoFile, current, proc[p].file}, MayBecome(r, file'[r.file]),
         r.pc \in BackingUp =>
           /\ proc[p].pc \in BackingUp
           /\ r.pc # "copying" => proc[p].pc # "copying",
         r.pc \in Restoring => Acceptable,
         r.pc = "copied" => r.copy = backup.database
  PROVE  StoreInv'
<1>1. StoreTypes /\ BackupInv /\ PastInv
  BY DEF StoreInv
<1>2. /\ proc'[p] = r /\ p \in Procs
      /\ \A q \in Procs : q # p => proc'[q] = proc[q]
  BY <1>1, BecomesIs
<1>3. BackupInv'
  <2>1. Acceptable' = Acceptable
    BY DEF Acceptable
  <2>2. \A q \in Procs :
          proc'[q].pc \in BackingUp =>
            /\ proc[q].pc \in BackingUp
            /\ proc'[q].pc # "copying" => proc[q].pc # "copying"
    BY <1>2
  <2>3. \A q \in Procs :
          /\ proc'[q].pc \in Restoring => Acceptable
          /\ At(q, "copied")' => proc'[q].copy = backup.database
    BY <1>1, <1>2 DEF BackupInv, At
  <2> QED
    BY <1>1, <2>1, <2>2, <2>3 DEF BackupInv, At
<1>4. backup' \in BackupRecord
  BY <1>1 DEF StoreTypes
<1>5. AllCold /\ backup'.database \in Content => backup'.database \in past
  BY <1>1 DEF PastInv
<1> QED
  BY <1>3, <1>4, <1>5, StepKeeps

LEMMA FilesStay ==
  ASSUME StoreInv, UNCHANGED <<file, log, writes>>
  PROVE  /\ TablesStay /\ FilesGain
         /\ \A i \in 1 .. Len(file) : Seen(i)' = Seen(i)
<1>1. FilesGain
  BY DEF StoreInv, StoreTypes, MigrationInv, FilesGain
<1> QED
  BY <1>1, NothingStored

(* A process that is given up leaves nothing. *)
LEMMA IdleKeeps ==
  ASSUME StoreInv, NEW p \in Procs, proc' = [proc EXCEPT ![p] = Idle], TablesStay, FilesGain,
         UNCHANGED <<backup, report, past>>
  PROVE  StoreInv'
<1>1. Becomes(p, Idle)
  BY IdleIs DEF Becomes
<1>2. MayBecome(Idle, file'[Idle.file])
  BY IdleIs, PartsAre DEF MayBecome, Parts, Reading, HasRead
<1>3. Idle.pc \notin BackingUp \union Restoring /\ Idle.pc # "copied" /\ Idle.file = NoFile
  BY IdleIs DEF BackingUp, Restoring
<1> QED
  BY <1>1, <1>2, <1>3, MoveKeeps

LEMMA OpenKeeps ==
  ASSUME StoreInv, NEW p \in Procs, Open(p)
  PROVE  StoreInv'
<1> DEFINE r == [proc[p] EXCEPT !.pc = "opening", !.file = current]
<1>1. proc[p] \in ProcRecord /\ current \in Nat /\ current # 0
  BY RecordsAre DEF StoreInv
<1>2. proc[p].read = Nothing
  BY DEF StoreInv, ReadInv, Open, At, Reading, HasRead
<1>3. /\ r \in ProcRecord /\ r.pc = "opening" /\ r.file = current /\ r.read = proc[p].read
      /\ r.todo = proc[p].todo
  BY <1>1 DEF ProcRecord, Pcs, Opening
<1>4. Becomes(p, r)
  BY <1>3 DEF Becomes, Open
<1>5. MayBecome(r, file'[r.file])
  BY <1>1, <1>2, <1>3, PartsAre DEF MayBecome, Parts, Reading, HasRead, Opening, NoFile
<1>6. TablesStay /\ FilesGain
  BY FilesStay DEF Open
<1>7. r.pc \notin BackingUp \union Restoring /\ r.pc # "copied"
  BY <1>3 DEF BackingUp, Restoring
<1>8. past' = past \union {Seen(current)} /\ UNCHANGED <<backup, report>>
  BY DEF Open
<1> QED
  BY <1>3, <1>4, <1>5, <1>6, <1>7, <1>8, MoveKeeps

LEMMA ReadVersionKeeps ==
  ASSUME StoreInv, NEW p \in Procs, ReadVersion(p)
  PROVE  StoreInv'
<1>1. /\ proc[p] \in ProcRecord /\ proc[p].pc = "opening" /\ proc[p].read = Nothing
      /\ proc[p].file \in 1 .. Len(file)
  BY RecordsAre, PartsAre DEF StoreInv, ReadInv, FilesInv, ReadVersion, At, Reading, HasRead, Opening, NoFile
<1>2. TablesStay /\ FilesGain /\ UNCHANGED <<file, backup, report, past>>
  BY FilesStay DEF ReadVersion
<1>3. CASE file[proc[p].file].version < SCHEMA_VERSION
  <2> DEFINE r == [proc[p] EXCEPT !.pc = "migrating", !.todo = MigratedColumns]
  <2>1. /\ r \in ProcRecord /\ r.pc = "migrating" /\ r.file = proc[p].file /\ r.read = Nothing
        /\ r.todo = MigratedColumns
    BY <1>1 DEF ProcRecord, Pcs, Opening
  <2>2. proc' = [proc EXCEPT ![p] = r]
    BY <1>3 DEF ReadVersion
  <2>3. Becomes(p, r)
    BY <2>1, <2>2 DEF Becomes
  <2>4. file[r.file].lacks \subseteq MigratedColumns
    BY <1>1, <2>1, RecordsAre DEF StoreInv
  <2>5. MayBecome(r, file'[r.file])
    BY <1>1, <1>2, <2>1, <2>4, PartsAre DEF MayBecome, Parts, Reading, HasRead, Opening, NoFile
  <2>6. r.pc \notin BackingUp \union Restoring /\ r.pc # "copied"
    BY <2>1 DEF BackingUp, Restoring
  <2> QED
    BY <1>2, <2>1, <2>3, <2>5, <2>6, MoveKeeps
<1>4. CASE ~(file[proc[p].file].version < SCHEMA_VERSION)
  <2> DEFINE r == [proc[p] EXCEPT !.pc = "open"]
  <2>1. /\ r \in ProcRecord /\ r.pc = "open" /\ r.file = proc[p].file /\ r.read = Nothing
    BY <1>1 DEF ProcRecord, Pcs, InUse
  <2>2. proc' = [proc EXCEPT ![p] = r]
    BY <1>4 DEF ReadVersion
  <2>3. Becomes(p, r)
    BY <2>1, <2>2 DEF Becomes
  <2>4. file[r.file].lacks = {}
    BY <1>1, <1>4, <2>1, RecordsAre DEF StoreInv, MigrationInv, SCHEMA_VERSION
  <2>5. MayBecome(r, file'[r.file])
    BY <1>1, <1>2, <2>1, <2>4, PartsAre DEF MayBecome, Parts, Reading, HasRead, NoFile
  <2>6. r.pc \notin BackingUp \union Restoring /\ r.pc # "copied"
    BY <2>1 DEF BackingUp, Restoring
  <2> QED
    BY <1>2, <2>1, <2>3, <2>5, <2>6, MoveKeeps
<1> QED
  BY <1>3, <1>4

LEMMA LookForColumnKeeps ==
  ASSUME StoreInv, NEW p \in Procs, LookForColumn(p)
  PROVE  StoreInv'
<1>1. /\ proc[p] \in ProcRecord /\ proc[p].pc = "migrating" /\ proc[p].read = Nothing
      /\ proc[p].file \in 1 .. Len(file) /\ file[proc[p].file].lacks \subseteq proc[p].todo
      /\ proc[p].todo \subseteq MigratedColumns
  BY RecordsAre, PartsAre DEF StoreInv, ReadInv, FilesInv, MigrationInv, LookForColumn, At,
     Reading, HasRead, Opening, NoFile
<1>2. TablesStay /\ FilesGain /\ UNCHANGED <<file, backup, report, past>>
  BY FilesStay DEF LookForColumn
<1>3. PICK c \in proc[p].todo :
        proc' = [proc EXCEPT ![p].todo = @ \ {c}, ![p].column = c,
                   ![p].pc = IF c \in file[proc[p].file].lacks THEN "looked" ELSE @]
  BY DEF LookForColumn
<1> DEFINE pc == IF c \in file[proc[p].file].lacks THEN "looked" ELSE "migrating"
           r == [proc[p] EXCEPT !.todo = @ \ {c}, !.column = c, !.pc = pc]
<1>4. /\ r \in ProcRecord /\ r.pc = pc /\ r.file = proc[p].file /\ r.read = Nothing
      /\ r.todo = proc[p].todo \ {c} /\ r.column = c
  BY <1>1 DEF ProcRecord, Pcs, Opening
<1>5. proc' = [proc EXCEPT ![p] = r]
  BY <1>1, <1>3
<1>6. Becomes(p, r)
  BY <1>4, <1>5 DEF Becomes
<1>7. MayBecome(r, file'[r.file])
  <2>1. /\ r.pc \in Opening /\ r.pc \notin InUse /\ r.pc \notin Reading \union HasRead
        /\ r.file # NoFile
    BY <1>1, <1>4, PartsAre DEF Parts, Opening, Reading, HasRead, NoFile
  <2>2. r.pc = "migrating" => c \notin file[r.file].lacks
    BY <1>4
  <2> QED
    BY <1>1, <1>2, <1>4, <2>1, <2>2 DEF MayBecome
<1>8. r.pc \notin BackingUp \union Restoring /\ r.pc # "copied"
  BY <1>4 DEF BackingUp, Restoring
<1> QED
  BY <1>2, <1>4, <1>6, <1>7, <1>8, MoveKeeps

(* A step that gives file f columns or its version. *)
LEMMA FileGains ==
  ASSUME StoreInv, NEW f, NEW r, Changes(f, r), r.data = file[f].data, r.cold = file[f].cold,
         r.lacks \subseteq file[f].lacks, r.version = SCHEMA_VERSION => r.lacks = {},
         UNCHANGED <<log, writes>>
  PROVE  TablesStay /\ FilesGain
<1>1. StoreTypes /\ MigrationInv
  BY DEF StoreInv
<1>2. /\ file' \in Seq(FileRecord) /\ Len(file') = Len(file) /\ file'[f] = r
      /\ \A i \in 1 .. Len(file) : i # f => file'[i] = file[i]
  BY <1>1, ChangesIs
<1>3. FilesGain
  BY <1>1, <1>2 DEF FilesGain, MigrationInv
<1>4. \A i \in 1 .. Len(file) : file'[i].data = file[i].data
  BY <1>2
<1> QED
  BY <1>3, <1>4, NothingStored

LEMMA AddColumnGains ==
  ASSUME StoreInv, NEW p \in Procs, AddColumn(p)
  PROVE  /\ TablesStay /\ FilesGain /\ proc[p].file \in 1 .. Len(file)
         /\ file'[proc[p].file].lacks = file[proc[p].file].lacks \ {proc[p].column}
<1> DEFINE f == proc[p].file
           g == [file[f] EXCEPT !.lacks = @ \ {proc[p].column}]
<1>0. StoreTypes /\ FilesInv /\ MigrationInv
  BY DEF StoreInv
<1>1. f \in 1 .. Len(file)
  BY <1>0, RecordsAre DEF FilesInv, AddColumn, At, Opening, NoFile
<1>2. /\ file[f] \in FileRecord
      /\ file[f].version = SCHEMA_VERSION => file[f].lacks = {}
  BY <1>0, <1>1, RecordsAre DEF MigrationInv
<1>3. /\ g \in FileRecord /\ g.lacks = file[f].lacks \ {proc[p].column}
      /\ g.data = file[f].data /\ g.cold = file[f].cold /\ g.version = file[f].version
  BY <1>2 DEF FileRecord
<1>4. Changes(f, g) /\ UNCHANGED <<log, writes>>
  BY <1>1, <1>3 DEF Changes, AddColumn
<1>5. TablesStay /\ FilesGain
  BY <1>2, <1>3, <1>4, FileGains
<1>6. file'[f] = g
  BY <1>0, <1>4, ChangesIs
<1> QED
  BY <1>1, <1>3, <1>5, <1>6

LEMMA AddColumnKeeps ==
  ASSUME StoreInv, NEW p \in Procs, AddColumn(p)
  PROVE  StoreInv'
<1>0. StoreTypes /\ MigrationInv /\ ReadInv
  BY DEF StoreInv
<1> DEFINE f == proc[p].file
<1>1. /\ TablesStay /\ FilesGain /\ f \in 1 .. Len(file)
      /\ file'[f].lacks = file[f].lacks \ {proc[p].column}
      /\ UNCHANGED <<backup, past, report>>
  BY AddColumnGains DEF AddColumn
<1>2. /\ proc[p] \in ProcRecord /\ proc[p].pc = "looked" /\ proc[p].read = Nothing
      /\ file[f].lacks \subseteq proc[p].todo \union {proc[p].column}
  BY <1>0, RecordsAre DEF ReadInv, MigrationInv, AddColumn, At, Reading, HasRead
<1>3. CASE proc[p].column \in file[f].lacks
  <2> DEFINE r == [proc[p] EXCEPT !.pc = "migrating"]
  <2>1. /\ r \in ProcRecord /\ r.pc = "migrating" /\ r.file = f /\ r.read = Nothing
        /\ r.todo = proc[p].todo
    BY <1>2 DEF ProcRecord, Pcs, Opening
  <2>2. Becomes(p, r)
    BY <1>3, <2>1 DEF Becomes, AddColumn
  <2>3. MayBecome(r, file'[r.file])
    <3>1. /\ r.pc \in Opening /\ r.pc \notin InUse /\ r.pc \notin Reading \union HasRead
          /\ r.file # NoFile
      BY <1>1, <2>1, PartsAre DEF Parts, Opening, Reading, HasRead, NoFile
    <3>2. file'[r.file].lacks \subseteq r.todo
      BY <1>1, <1>2, <2>1
    <3> QED
      BY <2>1, <3>1, <3>2 DEF MayBecome
  <2>4. r.pc \notin BackingUp \union Restoring /\ r.pc # "copied"
    BY <2>1 DEF BackingUp, Restoring
  <2> QED
    BY <1>1, <2>1, <2>2, <2>3, <2>4, MoveKeeps
<1>4. CASE proc[p].column \notin file[f].lacks
  <2>1. proc' = [proc EXCEPT ![p] = Idle]
    BY <1>4 DEF AddColumn
  <2> QED
    BY <1>1, <2>1, IdleKeeps
<1> QED
  BY <1>3, <1>4

LEMMA BumpVersionGains ==
  ASSUME StoreInv, NEW p \in Procs, BumpVersion(p)
  PROVE  /\ TablesStay /\ FilesGain /\ proc[p].file \in 1 .. Len(file)
         /\ file'[proc[p].file].lacks = {}
<1> DEFINE f == proc[p].file
           g == [file[f] EXCEPT !.version = SCHEMA_VERSION]
<1>0. StoreTypes /\ FilesInv /\ MigrationInv
  BY DEF StoreInv
<1>1. f \in 1 .. Len(file) /\ file[f].lacks = {}
  BY <1>0, RecordsAre DEF FilesInv, MigrationInv, BumpVersion, At, Opening, NoFile
<1>2. file[f] \in FileRecord
  BY <1>0, <1>1, RecordsAre
<1>3. /\ g \in FileRecord /\ g.lacks = {}
      /\ g.data = file[f].data /\ g.cold = file[f].cold
  BY <1>1, <1>2 DEF FileRecord
<1>4. Changes(f, g) /\ UNCHANGED <<log, writes>>
  BY <1>1, <1>3 DEF Changes, BumpVersion
<1>5. TablesStay /\ FilesGain
  BY <1>3, <1>4, FileGains
<1>6. file'[f] = g
  BY <1>0, <1>4, ChangesIs
<1> QED
  BY <1>1, <1>3, <1>5, <1>6

LEMMA BumpVersionKeeps ==
  ASSUME StoreInv, NEW p \in Procs, BumpVersion(p)
  PROVE  StoreInv'
<1>0. StoreTypes /\ ReadInv
  BY DEF StoreInv
<1> DEFINE r == [proc[p] EXCEPT !.pc = "open"]
<1>1. /\ TablesStay /\ FilesGain /\ proc[p].file \in 1 .. Len(file)
      /\ file'[proc[p].file].lacks = {} /\ UNCHANGED <<backup, past, report>>
  BY BumpVersionGains DEF BumpVersion
<1>2. /\ proc[p] \in ProcRecord /\ proc[p].pc = "migrating" /\ proc[p].read = Nothing
  BY <1>0, RecordsAre DEF ReadInv, BumpVersion, At, Reading, HasRead
<1>3. /\ r \in ProcRecord /\ r.pc = "open" /\ r.file = proc[p].file /\ r.read = Nothing
  BY <1>2 DEF ProcRecord, Pcs, InUse
<1>4. Becomes(p, r)
  BY <1>3 DEF Becomes, BumpVersion
<1>5. MayBecome(r, file'[r.file])
  <2>1. file'[r.file].lacks = {}
    BY <1>1, <1>3
  <2>2. r.pc \in InUse /\ r.pc \notin Reading \union HasRead /\ r.file # NoFile
    BY <1>1, <1>3, PartsAre DEF Parts, Reading, HasRead, NoFile
  <2> QED
    BY <1>3, <2>1, <2>2 DEF MayBecome
<1>6. r.pc \notin BackingUp \union Restoring /\ r.pc # "copied"
  BY <1>3 DEF BackingUp, Restoring
<1> QED
  BY <1>1, <1>3, <1>4, <1>5, <1>6, MoveKeeps

LEMMA CrashKeeps ==
  ASSUME StoreInv, NEW p \in Procs, Crash(p)
  PROVE  StoreInv'
BY IdleKeeps, FilesStay DEF Crash

LEMMA ValidateKeeps ==
  ASSUME StoreInv, NEW p \in Procs, Validate(p)
  PROVE  StoreInv'
<1> DEFINE r == [proc[p] EXCEPT !.pc = "valid"]
<1>1. /\ proc[p] \in ProcRecord /\ proc[p].pc = "closed" /\ proc[p].read = Nothing
      /\ proc[p].file = NoFile
  BY RecordsAre, PartsAre DEF StoreInv, ReadInv, FilesInv, Validate, At, Reading, HasRead, Parts
<1>2. /\ r \in ProcRecord /\ r.pc = "valid" /\ r.file = NoFile /\ r.read = Nothing
  BY <1>1 DEF ProcRecord, Pcs, Restoring
<1>3. Becomes(p, r)
  BY <1>2 DEF Becomes, Validate
<1>4. MayBecome(r, file'[r.file])
  BY <1>2, PartsAre DEF MayBecome, Parts, Reading, HasRead, Restoring
<1>5. r.pc \notin BackingUp /\ r.pc # "copied"
  BY <1>2 DEF BackingUp
<1>6. TablesStay /\ FilesGain /\ UNCHANGED <<backup, report, past>> /\ Acceptable
  BY FilesStay DEF Validate
<1> QED
  BY <1>2, <1>3, <1>4, <1>5, <1>6, MoveKeeps

LEMMA CopyBesideKeeps ==
  ASSUME StoreInv, NEW p \in Procs, CopyBeside(p)
  PROVE  StoreInv'
<1> DEFINE r == [proc[p] EXCEPT !.pc = "copied", !.copy = backup.database]
<1>1. /\ proc[p] \in ProcRecord /\ proc[p].pc = "valid" /\ proc[p].read = Nothing
      /\ proc[p].file = NoFile /\ Acceptable /\ backup.database \in Maybe
  BY RecordsAre, PartsAre DEF StoreInv, ReadInv, FilesInv, BackupInv, CopyBeside, At, Reading, HasRead,
     Parts, Restoring
<1>2. /\ r \in ProcRecord /\ r.pc = "copied" /\ r.file = NoFile /\ r.read = Nothing
      /\ r.copy = backup.database
  BY <1>1 DEF ProcRecord, Pcs, Restoring
<1>3. Becomes(p, r)
  BY <1>2 DEF Becomes, CopyBeside
<1>4. MayBecome(r, file'[r.file])
  BY <1>2, PartsAre DEF MayBecome, Parts, Reading, HasRead, Restoring
<1>5. r.pc \notin BackingUp
  BY <1>2 DEF BackingUp
<1>6. TablesStay /\ FilesGain /\ UNCHANGED <<backup, report, past>>
  BY FilesStay DEF CopyBeside
<1> QED
  BY <1>1, <1>2, <1>3, <1>4, <1>5, <1>6, MoveKeeps

-----------------------------------------------------------------------------
(* Reading one more table *)

LEMMA NextTable ==
  ASSUME NEW d, d \in Prefixes, NEW t, t = Order[Cardinality(d) + 1]
  PROVE  /\ t \in Tables \ d
         /\ t # "events" => d \union {t} \in Prefixes /\ d \union {t} # Tables
         /\ t = "events" => d = {"runs", "effects"} /\ d \union {t} = Tables
<1>1. CASE d = {}
  BY <1>1, FS_EmptySet, TablesAre DEF Prefixes
<1>2. CASE d = {"runs"}
  BY <1>2, FS_Singleton, TablesAre DEF Prefixes
<1>3. CASE d = {"runs", "effects"}
  <2>1. IsFiniteSet({"runs"}) /\ Cardinality({"runs"}) = 1
    BY FS_Singleton
  <2>2. Cardinality({"runs"} \union {"effects"}) = 2
    BY <2>1, FS_AddElement
  <2>3. d = {"runs"} \union {"effects"}
    BY <1>3
  <2> QED
    BY <1>3, <2>2, <2>3, TablesAre DEF Prefixes
<1> QED
  BY <1>1, <1>2, <1>3 DEF Prefixes

(* What has been read of l, with table t in version n. *)
With(l, t, n) == [u \in DOMAIN l \union {t} |-> IF u = t THEN n ELSE l[u]]

LEMMA WithIs ==
  ASSUME NEW l \in Partial, NEW t \in Tables, NEW n \in 0 .. WriteLimit
  PROVE  /\ With(l, t, n) \in Partial /\ DOMAIN With(l, t, n) = DOMAIN l \union {t}
         /\ With(l, t, n)[t] = n /\ \A u \in DOMAIN l : u # t => With(l, t, n)[u] = l[u]
         /\ DOMAIN l \union {t} = Tables => With(l, t, n) \in Content
<1>1. DOMAIN l \union {t} \subseteq Tables /\ \A u \in DOMAIN l : l[u] \in 0 .. WriteLimit
  BY PartialIs
<1>2. With(l, t, n) \in [DOMAIN l \union {t} -> 0 .. WriteLimit]
  BY <1>1 DEF With
<1>3. With(l, t, n) \in Partial
  BY <1>1, <1>2, PartialIs
<1> QED
  BY <1>2, <1>3 DEF With, Content

LEMMA ReadTableKeeps ==
  ASSUME StoreInv, NEW p \in Procs, ReadTable(p)
  PROVE  StoreInv'
<1>0. StoreTypes /\ FilesInv /\ MigrationInv /\ ReadInv
  BY DEF StoreInv
<1>1. /\ proc[p] \in ProcRecord /\ proc[p].pc = "reading" /\ DOMAIN proc[p].read \in Prefixes
      /\ proc[p].read \in Partial /\ proc[p].pc \in InUse
      /\ proc[p].file \in 1 .. Len(file) /\ file[proc[p].file].lacks = {}
  <2>1. proc[p].pc = "reading" /\ proc[p].pc \in InUse
    BY DEF ReadTable, At, InUse
  <2> QED
    BY <1>0, <2>1, RecordsAre DEF FilesInv, MigrationInv, ReadInv, Reading, NoFile
<1>2. PICK t : t = Order[Cardinality(DOMAIN proc[p].read) + 1]
  OBVIOUS
<1> DEFINE m == With(proc[p].read, t, View(p)[t])
           pc == IF DOMAIN m = Tables THEN "stating" ELSE "reading"
           r == [proc[p] EXCEPT !.read = m, !.pc = pc]
<1>3. /\ t \in Tables
      /\ DOMAIN proc[p].read \union {t} = Tables \/ DOMAIN proc[p].read \union {t} \in Prefixes
  <2>1. PICK d : d = DOMAIN proc[p].read
    OBVIOUS
  <2>2. d \in Prefixes /\ t = Order[Cardinality(d) + 1]
    BY <1>1, <1>2, <2>1
  <2>3. t \in Tables \ d /\ (d \union {t} = Tables \/ d \union {t} \in Prefixes)
    BY <2>2, NextTable
  <2> QED
    BY <2>1, <2>3
<1>4. /\ m \in Partial /\ DOMAIN m = DOMAIN proc[p].read \union {t}
      /\ DOMAIN m = Tables => m \in Content
  <2>1. View(p)[t] \in 0 .. WriteLimit
    BY <1>0, <1>1, <1>3, SeenIs DEF View, Content
  <2>2. t \in Tables /\ proc[p].read \in Partial
    BY <1>1, <1>3
  <2>3. ASSUME NEW l \in Partial, NEW n \in 0 .. WriteLimit
        PROVE  /\ With(l, t, n) \in Partial /\ DOMAIN With(l, t, n) = DOMAIN l \union {t}
               /\ DOMAIN With(l, t, n) = Tables => With(l, t, n) \in Content
    BY <2>2, WithIs, Zenon
  <2> QED
    BY <2>1, <2>2, <2>3, Zenon
<1>5. proc' = [proc EXCEPT ![p] = r]
  BY <1>1, <1>2 DEF ReadTable, With
<1> HIDE DEF m
<1>6. /\ r \in ProcRecord /\ r.pc = pc /\ r.file = proc[p].file /\ r.read = m
  BY <1>1, <1>4 DEF ProcRecord, Pcs, InUse
<1>7. Becomes(p, r)
  BY <1>5, <1>6 DEF Becomes
<1>8. TablesStay /\ FilesGain /\ UNCHANGED <<file, backup, report, past>>
  BY FilesStay DEF ReadTable
<1>9. MayBecome(r, file'[r.file])
  <2>1. /\ r.pc \in InUse /\ r.pc \notin Opening /\ r.file # NoFile
        /\ r.pc # "migrating" /\ r.pc # "looked" /\ r.pc \in Reading \union HasRead
    BY <1>1, <1>6, PartsAre DEF Parts, InUse, NoFile, Reading, HasRead
  <2>2. file'[r.file].lacks = {}
    BY <1>1, <1>6, <1>8
  <2>3. r.pc \in Reading => DOMAIN r.read \in Prefixes
    BY <1>3, <1>4, <1>6 DEF Reading
  <2>4. r.pc \in HasRead => r.read \in Content
    BY <1>4, <1>6 DEF HasRead
  <2> QED
    BY <2>1, <2>2, <2>3, <2>4 DEF MayBecome
<1>10. /\ r.pc \notin Restoring /\ r.pc # "copied" /\ r.pc # "copying"
       /\ proc[p].pc \in BackingUp /\ proc[p].pc # "copying"
  BY <1>1, <1>6 DEF BackingUp, Restoring
<1> QED
  BY <1>6, <1>7, <1>8, <1>9, <1>10, MoveKeeps

-----------------------------------------------------------------------------
(* Writing *)

LEMMA WriteIs ==
  ASSUME StoreInv, NEW p \in Procs, NEW ts \in SUBSET (Tables \ {"events"}), Write(p, ts)
  PROVE  /\ log' \in Partial /\ writes' \in 0 .. WriteLimit /\ writes' = writes + 1
         /\ proc[p].file \in 1 .. Len(file)
         /\ \A i \in 1 .. Len(file) :
              /\ Over(file[i].data, log') \in Content
              /\ Over(file[i].data, log')["events"] = writes + 1
              /\ \A u \in Tables :
                   Over(file[i].data, log')[u] = writes + 1 \/ Over(file[i].data, log')[u] = Seen(i)[u]
<1>0. StoreTypes /\ FilesInv
  BY DEF StoreInv
<1> DEFINE written == ts \union {"events"}
<1>1. /\ writes' = writes + 1 /\ writes + 1 \in 0 .. WriteLimit
  BY <1>0, StoreAssumption DEF Write, StoreTypes
<1>2. /\ log' = [t \in written \union DOMAIN log |-> IF t \in written THEN writes + 1 ELSE log[t]]
  BY DEF Write
<1>3. DOMAIN log \subseteq Tables /\ \A t \in DOMAIN log : log[t] \in 0 .. WriteLimit
  BY <1>0, PartialIs DEF StoreTypes
<1>4. written \union DOMAIN log \in SUBSET Tables /\ "events" \in Tables
  BY <1>3, TablesAre
<1>5. log' \in [written \union DOMAIN log -> 0 .. WriteLimit]
  BY <1>1, <1>2, <1>3
<1>6. log' \in Partial
  BY <1>4, <1>5, PartialIs
<1>7. proc[p].file \in 1 .. Len(file)
  BY <1>0, RecordsAre DEF FilesInv, Write, NoFile
<1>8. ASSUME NEW i \in 1 .. Len(file)
      PROVE  /\ Over(file[i].data, log') \in Content
             /\ Over(file[i].data, log')["events"] = writes + 1
             /\ \A u \in Tables :
                  Over(file[i].data, log')[u] = writes + 1 \/ Over(file[i].data, log')[u] = Seen(i)[u]
  <2>1. file[i].data \in Content /\ log \in Partial
    BY <1>0, RecordsAre DEF StoreTypes
  <2>2. /\ Over(file[i].data, log') \in Content
        /\ \A u \in Tables :
             Over(file[i].data, log')[u] = IF u \in DOMAIN log' THEN log'[u] ELSE file[i].data[u]
    BY <1>6, <2>1, OverIs
  <2>3. \A u \in Tables : Seen(i)[u] = IF u \in DOMAIN log THEN log[u] ELSE file[i].data[u]
    BY <1>0, SeenIs
  <2>4. DOMAIN log' = written \union DOMAIN log
    BY <1>2
  <2>5. \A u \in Tables :
          Over(file[i].data, log')[u] =
            IF u \in written THEN writes + 1
            ELSE IF u \in DOMAIN log THEN log[u] ELSE file[i].data[u]
    BY <1>2, <2>2, <2>4
  <2> QED
    BY <1>4, <2>2, <2>3, <2>5
<1> QED
  BY <1>1, <1>6, <1>7, <1>8

LEMMA WriteKeeps ==
  ASSUME StoreInv, NEW p \in Procs, NEW ts \in SUBSET (Tables \ {"events"}), Write(p, ts)
  PROVE  StoreInv'
<1>0. /\ StoreTypes /\ FilesInv /\ ReadInv /\ MigrationInv
      /\ BackupInv /\ ColdInv /\ PastInv /\ CommittedIsDurable
  BY DEF StoreInv
<1>1. UNCHANGED <<file, proc, backup>> /\ report' = NoReport /\ current' = current
  BY DEF Write, current
<1> DEFINE new == Over(file[proc[p].file].data, log')
<1>2. /\ log' \in Partial /\ writes' \in 0 .. WriteLimit /\ writes' = writes + 1
      /\ proc[p].file \in 1 .. Len(file)
      /\ new \in Content /\ new["events"] = writes + 1
      /\ \A u \in Tables : new[u] = writes + 1 \/ new[u] = Seen(proc[p].file)[u]
  BY WriteIs
<1>3. past' = past \union {new}
  BY DEF Write
<1>4. writes \in Nat /\ writes < writes + 1 /\ current \in 1 .. Len(file) /\ current = Len(file)
  BY <1>0, RecordsAre, StoreAssumption DEF StoreTypes
<1>5. StoreTypes'
  <2>1. report' \in ReportRecord
    BY <1>1 DEF NoReport, ReportRecord, Maybe
  <2> QED
    BY <1>0, <1>1, <1>2, <1>3, <2>1 DEF StoreTypes
<1>6. FilesInv' /\ ReadInv' /\ MigrationInv'
  BY <1>0, <1>1 DEF FilesInv, ReadInv, MigrationInv, At
<1>7. BackupInv'
  BY <1>0, <1>1 DEF BackupInv, At, Acceptable
<1>8. ColdInv'
  BY <1>1 DEF ColdInv, NoReport
<1>9. PastInv'
  <2> SUFFICES ASSUME AllCold' PROVE PastInv'
    BY DEF PastInv
  <2>1. AllCold
    BY <1>1 DEF AllCold
  <2>2. proc[p].file = current
    BY <1>0, <1>2, <2>1 DEF PastInv, NoFile
  <2>3. Seen(current)' = new
    BY <1>1, <2>2 DEF Seen
  <2>4. \A c \in past : c["events"] <= writes
    BY <1>0, <2>1 DEF PastInv
  <2>5. past \subseteq Content /\ "events" \in Tables
    BY <1>0, TablesAre DEF StoreTypes
  <2>6. \A c \in past : c["events"] \in Nat
    BY <2>5 DEF Content
  <2>7. \A c \in past' : c["events"] <= writes'
    BY <1>2, <1>3, <1>4, <2>4, <2>6
  <2>8. \A c, d \in past' : c["events"] = d["events"] => c = d
    <3>1. \A c \in past : c["events"] # new["events"]
      BY <1>2, <1>4, <2>4, <2>6
    <3>2. \A c, d \in past : c["events"] = d["events"] => c = d
      BY <1>0, <2>1 DEF PastInv
    <3> QED
      BY <1>3, <3>1, <3>2
  <2>9. \A q \in Procs : proc'[q].file \in {NoFile, current'}
    BY <1>0, <1>1, <2>1 DEF PastInv
  <2>10. backup'.database \in Content => backup'.database \in past'
    BY <1>0, <1>1, <1>3, <2>1 DEF PastInv
  <2> QED
    BY <1>3, <2>3, <2>7, <2>8, <2>9, <2>10 DEF PastInv
<1>10. CommittedIsDurable'
  <2> SUFFICES ASSUME current = 1
               PROVE  \E t \in Tables : Seen(1)'[t] = writes' /\ \A u \in Tables : Seen(1)'[u] <= writes'
    BY <1>1 DEF CommittedIsDurable
  <2>1. proc[p].file = 1
    <3>1. Len(file) = 1 /\ proc[p].file \in 1 .. Len(file)
      BY <1>2, <1>4
    <3> QED
      BY <3>1
  <2>2. Seen(1)' = new
    BY <1>1, <2>1 DEF Seen
  <2>3. \A u \in Tables : Seen(1)[u] <= writes /\ Seen(1)[u] \in Nat
    BY <1>0, <1>2, <2>1, SeenIs DEF CommittedIsDurable, Content
  <2>4. \A u \in Tables : new[u] <= writes + 1
    BY <1>2, <1>4, <2>1, <2>3
  <2> QED
    BY <1>2, <2>2, <2>4, TablesAre
<1> QED
  BY <1>5, <1>6, <1>7, <1>8, <1>9, <1>10 DEF StoreInv

-----------------------------------------------------------------------------
(* The log goes into the file, and backups *)

LEMMA StaysItself ==
  ASSUME StoreInv, NEW p \in Procs, FilesGain, proc[p].pc \in InUse
  PROVE  /\ MayBecome(proc[p], file'[proc[p].file])
         /\ proc[p] \in ProcRecord /\ proc[p].file \in 1 .. Len(file) /\ proc[p].file # NoFile
         /\ file'[proc[p].file].lacks = {}
<1>1. StoreTypes /\ FilesInv /\ MigrationInv /\ ReadInv
  BY DEF StoreInv
<1>2. proc[p] \in ProcRecord /\ proc[p].file \in 1 .. Len(file) /\ proc[p].file # NoFile
  BY <1>1, RecordsAre DEF FilesInv, NoFile
<1>3. file'[proc[p].file].lacks = {}
  BY <1>1, <1>2 DEF MigrationInv, FilesGain
<1>4. proc[p].pc # "migrating" /\ proc[p].pc # "looked"
  BY PartsAre DEF Parts, Opening
<1>5. MayBecome(proc[p], file'[proc[p].file])
  BY <1>1, <1>2, <1>3, <1>4 DEF MayBecome, FilesInv, ReadInv
<1> QED
  BY <1>2, <1>3, <1>5

LEMMA CheckpointKeeps ==
  ASSUME StoreInv, NEW p \in Procs, Checkpoint(p)
  PROVE  StoreInv'
<1>1. /\ proc[p].pc \in InUse /\ MoveLog(p)
      /\ UNCHANGED <<writes, proc, backup, past, report>>
  BY DEF Checkpoint
<1>2. proc[p].file # NoFile
  BY <1>1 DEF StoreInv, FilesInv
<1>3. TablesStay /\ FilesGain
  BY <1>1, <1>2, LogMoves
<1>4. MayBecome(proc[p], file'[proc[p].file]) /\ proc[p] \in ProcRecord
  BY <1>1, <1>3, StaysItself
<1>5. Becomes(p, proc[p])
  BY <1>1, <1>4 DEF Becomes, StoreInv, StoreTypes
<1>6. proc[p].pc \notin Restoring /\ proc[p].pc # "copied"
  BY <1>1, PartsAre DEF Parts, Restoring
<1> QED
  BY <1>1, <1>3, <1>4, <1>5, <1>6, MoveKeeps

LEMMA CloseKeeps ==
  ASSUME StoreInv, NEW p \in Procs, Close(p)
  PROVE  StoreInv'
<1>1. /\ proc[p].pc = "open" /\ proc' = [proc EXCEPT ![p] = Idle]
      /\ MoveLog(p) \/ UNCHANGED <<file, log>>
      /\ UNCHANGED <<writes, backup, past, report>>
  BY DEF Close, At
<1>2. proc[p].file # NoFile
  BY <1>1 DEF StoreInv, FilesInv, InUse
<1>3. TablesStay /\ FilesGain
  BY <1>1, <1>2, LogMoves, FilesStay
<1> QED
  BY <1>1, <1>3, IdleKeeps

LEMMA StartBackupKeeps ==
  ASSUME StoreInv, NEW p \in Procs, StartBackup(p)
  PROVE  StoreInv'
<1> DEFINE r == [proc[p] EXCEPT !.pc = "copying"]
<1>0. StoreTypes /\ BackupInv /\ ReadInv
  BY DEF StoreInv
<1>1. /\ proc[p].pc = "open" /\ proc[p].pc \in InUse /\ backup = NoBackup /\ MoveLog(p)
      /\ backup' = [NoBackup EXCEPT !.database = Nothing]
      /\ proc' = [proc EXCEPT ![p].pc = "copying"]
      /\ UNCHANGED <<writes, past, report>>
  BY DEF StartBackup, At, InUse
<1>2. proc[p].file # NoFile
  BY <1>1 DEF StoreInv, FilesInv
<1>3. TablesStay /\ FilesGain
  BY <1>1, <1>2, LogMoves
<1>4. /\ proc[p] \in ProcRecord /\ file'[proc[p].file].lacks = {} /\ proc[p].read = Nothing
  BY <1>0, <1>1, <1>3, StaysItself DEF ReadInv, Reading, HasRead
<1>5. /\ r \in ProcRecord /\ r.pc = "copying" /\ r.file = proc[p].file /\ r.read = Nothing
  BY <1>4 DEF ProcRecord, Pcs, InUse
<1>6. Becomes(p, r)
  BY <1>1, <1>5 DEF Becomes
<1>7. MayBecome(r, file'[r.file])
  <2>1. r.pc \in InUse /\ r.pc \notin Opening /\ r.pc \notin Reading \union HasRead
    BY <1>5 DEF InUse, Opening, Reading, HasRead
  <2> QED
    BY <1>2, <1>4, <1>5, <2>1 DEF MayBecome, Opening
<1>8. /\ ~backup.manifest /\ backup.database = NoContent
      /\ backup'.database = Nothing /\ backup'.state = NoContent /\ backup'.manifest = FALSE
  BY <1>1 DEF NoBackup
<1>9. /\ \A q \in Procs : proc[q].pc \notin BackingUp /\ proc[q].pc \notin Restoring
  BY <1>0, <1>8 DEF BackupInv, Acceptable
<1>10. /\ proc'[p] = r /\ \A q \in Procs : q # p => proc'[q] = proc[q]
  BY <1>0, <1>6, BecomesIs
<1>11. \A q \in Procs :
         /\ proc'[q].pc \notin Restoring /\ proc'[q].pc # "copied"
         /\ proc'[q].pc \in BackingUp => q = p /\ proc'[q].pc = "copying"
  BY <1>5, <1>9, <1>10 DEF Restoring
<1>12. Nothing # NoContent /\ Nothing \notin Content /\ Nothing \in Maybe
  BY PartialIs DEF Maybe
<1>13. BackupInv'
  BY <1>8, <1>11, <1>12 DEF BackupInv, At
<1>14. backup' \in BackupRecord
  BY <1>1, <1>12 DEF NoBackup, BackupRecord, Maybe
<1> QED
  BY <1>1, <1>3, <1>5, <1>6, <1>7, <1>8, <1>12, <1>13, <1>14, StepKeeps

LEMMA CopyDatabaseKeeps ==
  ASSUME StoreInv, NEW p \in Procs, CopyDatabase(p)
  PROVE  StoreInv'
<1> DEFINE r == [proc[p] EXCEPT !.pc = "reading", !.read = Nothing]
<1>0. StoreTypes /\ BackupInv /\ PastInv
  BY DEF StoreInv
<1>1. /\ proc[p].pc = "copying" /\ proc[p].pc \in InUse /\ proc[p].pc \in BackingUp
      /\ backup' = [backup EXCEPT !.database = View(p)]
      /\ proc' = [proc EXCEPT ![p].pc = "reading", ![p].read = Nothing]
      /\ UNCHANGED <<file, log, writes, past, report>>
  BY DEF CopyDatabase, At, InUse, BackingUp
<1>2. TablesStay /\ FilesGain
  BY <1>1, FilesStay
<1>3. /\ proc[p] \in ProcRecord /\ file'[proc[p].file].lacks = {}
      /\ proc[p].file \in 1 .. Len(file) /\ proc[p].file # NoFile
  BY <1>1, <1>2, StaysItself
<1>4. /\ r \in ProcRecord /\ r.pc = "reading" /\ r.file = proc[p].file /\ r.read = Nothing
  BY <1>3, PartialIs DEF ProcRecord, Pcs, InUse
<1>5. Becomes(p, r)
  BY <1>1, <1>4 DEF Becomes
<1>6. MayBecome(r, file'[r.file])
  <2>1. r.pc \in InUse /\ r.pc \notin Opening /\ r.pc \in Reading /\ r.pc \notin HasRead
    BY <1>4 DEF InUse, Opening, Reading, HasRead
  <2>2. DOMAIN r.read \in Prefixes
    BY <1>4 DEF Nothing, Prefixes
  <2> QED
    BY <1>3, <1>4, <2>1, <2>2 DEF MayBecome, Opening
<1>7. View(p) \in Content /\ backup \in BackupRecord
  BY <1>0, <1>3, SeenIs DEF View, StoreTypes
<1>8. /\ backup' \in BackupRecord /\ backup'.database = View(p)
      /\ backup'.manifest = backup.manifest
  BY <1>1, <1>7, PartialIs DEF BackupRecord, Maybe
<1>9. AllCold => backup'.database \in past
  BY <1>0, <1>3, <1>8 DEF PastInv, View, NoFile
<1>10. /\ ~backup.manifest
       /\ \A q \in Procs : /\ proc[q].pc \in BackingUp => q = p
                           /\ proc[q].pc \notin Restoring
  BY <1>0, <1>1 DEF BackupInv, Acceptable
<1>11. /\ proc'[p] = r /\ \A q \in Procs : q # p => proc'[q] = proc[q]
  BY <1>0, <1>5, BecomesIs
<1>12. \A q \in Procs :
         /\ proc'[q].pc \notin Restoring /\ proc'[q].pc # "copied"
         /\ proc'[q].pc \in BackingUp => q = p
  BY <1>4, <1>10, <1>11 DEF Restoring
<1>13. BackupInv'
  BY <1>7, <1>8, <1>10, <1>12, PartialIs DEF BackupInv, At
<1> QED
  BY <1>1, <1>2, <1>4, <1>5, <1>6, <1>8, <1>9, <1>13, StepKeeps

LEMMA WriteStateKeeps ==
  ASSUME StoreInv, NEW p \in Procs, WriteState(p)
  PROVE  StoreInv'
<1> DEFINE r == [proc[p] EXCEPT !.pc = "stated", !.read = Nothing]
<1>0. StoreTypes /\ BackupInv /\ PastInv /\ ReadInv
  BY DEF StoreInv
<1>1. /\ proc[p].pc = "stating" /\ proc[p].pc \in InUse /\ proc[p].pc \in BackingUp
      /\ backup' = [backup EXCEPT !.state = proc[p].read]
      /\ proc' = [proc EXCEPT ![p].pc = "stated", ![p].read = Nothing]
      /\ UNCHANGED <<file, log, writes, past, report>>
  BY DEF WriteState, At, InUse, BackingUp
<1>2. TablesStay /\ FilesGain
  BY <1>1, FilesStay
<1>3. /\ proc[p] \in ProcRecord /\ file'[proc[p].file].lacks = {} /\ proc[p].file # NoFile
  BY <1>1, <1>2, StaysItself
<1>4. /\ r \in ProcRecord /\ r.pc = "stated" /\ r.file = proc[p].file /\ r.read = Nothing
  BY <1>3, PartialIs DEF ProcRecord, Pcs, InUse
<1>5. Becomes(p, r)
  BY <1>1, <1>4 DEF Becomes
<1>6. MayBecome(r, file'[r.file])
  <2>1. r.pc \in InUse /\ r.pc \notin Opening /\ r.pc \notin Reading \union HasRead
    BY <1>4 DEF InUse, Opening, Reading, HasRead
  <2> QED
    BY <1>3, <1>4, <2>1 DEF MayBecome, Opening
<1>7. proc[p].read \in Content /\ backup \in BackupRecord
  BY <1>0, <1>1 DEF ReadInv, HasRead, StoreTypes
<1>8. /\ backup' \in BackupRecord /\ backup'.database = backup.database
      /\ backup'.manifest = backup.manifest
  BY <1>1, <1>7, PartialIs DEF BackupRecord, Maybe
<1>9. AllCold /\ backup'.database \in Content => backup'.database \in past
  BY <1>0, <1>8 DEF PastInv
<1>10. /\ ~backup.manifest /\ backup.database \in Content /\ backup.database # NoContent
       /\ \A q \in Procs : /\ proc[q].pc \in BackingUp => q = p
                           /\ proc[q].pc \notin Restoring
  BY <1>0, <1>1 DEF BackupInv, Acceptable
<1>11. /\ proc'[p] = r /\ \A q \in Procs : q # p => proc'[q] = proc[q]
  BY <1>0, <1>5, BecomesIs
<1>12. \A q \in Procs :
         /\ proc'[q].pc \notin Restoring /\ proc'[q].pc # "copied"
         /\ proc'[q].pc \in BackingUp => q = p
  BY <1>4, <1>10, <1>11 DEF Restoring
<1>13. BackupInv'
  BY <1>8, <1>10, <1>12 DEF BackupInv, At
<1> QED
  BY <1>1, <1>2, <1>4, <1>5, <1>6, <1>8, <1>9, <1>13, StepKeeps

LEMMA WriteManifestKeeps ==
  ASSUME StoreInv, NEW p \in Procs, WriteManifest(p)
  PROVE  StoreInv'
<1> DEFINE r == [proc[p] EXCEPT !.pc = "open"]
<1>0. StoreTypes /\ BackupInv /\ PastInv /\ ReadInv
  BY DEF StoreInv
<1>1. /\ proc[p].pc = "stated" /\ proc[p].pc \in InUse /\ proc[p].pc \in BackingUp
      /\ backup' = [backup EXCEPT !.manifest = TRUE]
      /\ proc' = [proc EXCEPT ![p].pc = "open"]
      /\ UNCHANGED <<file, log, writes, past, report>>
  BY DEF WriteManifest, At, InUse, BackingUp
<1>2. TablesStay /\ FilesGain
  BY <1>1, FilesStay
<1>3. /\ proc[p] \in ProcRecord /\ file'[proc[p].file].lacks = {} /\ proc[p].file # NoFile
      /\ proc[p].read = Nothing /\ backup \in BackupRecord
  BY <1>0, <1>1, <1>2, StaysItself DEF ReadInv, Reading, HasRead, StoreTypes
<1>4. /\ r \in ProcRecord /\ r.pc = "open" /\ r.file = proc[p].file /\ r.read = Nothing
  BY <1>3 DEF ProcRecord, Pcs, InUse
<1>5. Becomes(p, r)
  BY <1>1, <1>4 DEF Becomes
<1>6. MayBecome(r, file'[r.file])
  <2>1. r.pc \in InUse /\ r.pc \notin Opening /\ r.pc \notin Reading \union HasRead
    BY <1>4 DEF InUse, Opening, Reading, HasRead
  <2> QED
    BY <1>3, <1>4, <2>1 DEF MayBecome, Opening
<1>7. /\ backup' \in BackupRecord /\ backup'.database = backup.database
  BY <1>1, <1>3 DEF BackupRecord
<1>8. AllCold /\ backup'.database \in Content => backup'.database \in past
  BY <1>0, <1>7 DEF PastInv
<1>9. /\ ~backup.manifest /\ backup.database \in Content
      /\ \A q \in Procs : /\ proc[q].pc \in BackingUp => q = p
                          /\ proc[q].pc \notin Restoring
  BY <1>0, <1>1 DEF BackupInv, Acceptable
<1>10. /\ proc'[p] = r /\ \A q \in Procs : q # p => proc'[q] = proc[q]
  BY <1>0, <1>5, BecomesIs
<1>11. \A q \in Procs :
         proc'[q].pc \notin Restoring /\ proc'[q].pc # "copied" /\ proc'[q].pc \notin BackingUp
  BY <1>4, <1>9, <1>10 DEF Restoring, BackingUp
<1>12. BackupInv'
  BY <1>7, <1>9, <1>11 DEF BackupInv, At
<1> QED
  BY <1>1, <1>2, <1>4, <1>5, <1>6, <1>7, <1>8, <1>12, StepKeeps

LEMMA DiscardBackupKeeps ==
  ASSUME StoreInv, DiscardBackup
  PROVE  StoreInv'
<1>0. /\ StoreTypes /\ FilesInv /\ ReadInv /\ MigrationInv
      /\ BackupInv /\ ColdInv /\ PastInv /\ CommittedIsDurable
  BY DEF StoreInv
<1>1. /\ \A p \in Procs : proc[p].pc \in {"closed", "open"} \union Opening
      /\ backup' = NoBackup /\ UNCHANGED <<file, log, writes, proc, past, report>>
  BY DEF DiscardBackup
<1>2. \A p \in Procs :
        proc[p].pc \notin BackingUp /\ proc[p].pc \notin Restoring /\ proc[p].pc # "copied"
  BY <1>1 DEF BackingUp, Restoring, Opening
<1>3. backup'.manifest = FALSE /\ backup'.database = NoContent /\ backup' \in BackupRecord
  BY <1>1 DEF NoBackup, BackupRecord, Maybe
<1>4. StoreTypes'
  BY <1>0, <1>1, <1>3 DEF StoreTypes
<1>5. FilesInv' /\ ReadInv' /\ MigrationInv' /\ ColdInv' /\ CommittedIsDurable'
  BY <1>0, <1>1 DEF FilesInv, ReadInv, MigrationInv, ColdInv, CommittedIsDurable, At, current, Seen
<1>6. BackupInv'
  BY <1>1, <1>2, <1>3 DEF BackupInv, At
<1>7. PastInv'
  BY <1>0, <1>1, <1>3, PartialIs DEF PastInv, AllCold, current, Seen
<1> QED
  BY <1>4, <1>5, <1>6, <1>7 DEF StoreInv

LEMMA ReplaceKeeps ==
  ASSUME StoreInv, NEW p \in Procs, Replace(p)
  PROVE  StoreInv'
<1>0. /\ StoreTypes /\ FilesInv /\ ReadInv /\ MigrationInv
      /\ BackupInv /\ ColdInv /\ PastInv /\ CommittedIsDurable
  BY DEF StoreInv
<1> DEFINE cold == log = Nothing /\ \A q \in Procs : proc[q].file = NoFile
           g == [data |-> proc[p].copy, version |-> SCHEMA_VERSION, lacks |-> {}, cold |-> cold]
<1>1. /\ proc[p].pc = "copied" /\ file' = Append(file, g)
      /\ report' = [state |-> backup.state, cold |-> cold]
      /\ proc' = [proc EXCEPT ![p] = Idle] /\ UNCHANGED <<log, writes, backup, past>>
  BY DEF Replace, At
<1>2. /\ backup.manifest /\ backup.database \in Content /\ backup.database = backup.state
      /\ proc[p].copy = backup.database
      /\ \A q \in Procs : proc[q].pc \notin BackingUp
  BY <1>0, <1>1 DEF BackupInv, Acceptable, At, Restoring
<1> HIDE DEF cold
<1>3. /\ cold \in BOOLEAN
      /\ cold => log = Nothing /\ \A q \in Procs : proc[q].file = NoFile
  BY DEF cold
<1>4. /\ g \in FileRecord /\ g.data = backup.database /\ g.version = SCHEMA_VERSION
      /\ g.lacks = {} /\ g.cold = cold
  BY <1>2, <1>3 DEF FileRecord
<1> HIDE DEF g
<1>5. /\ file \in Seq(FileRecord) /\ Len(file) \in Nat /\ Len(file) > 0 /\ current = Len(file)
  BY <1>0 DEF StoreTypes, current
<1>6. /\ file' \in Seq(FileRecord) /\ Len(file') = Len(file) + 1
      /\ file'[Len(file) + 1] = g /\ \A i \in 1 .. Len(file) : file'[i] = file[i]
  BY <1>1, <1>4, <1>5
<1>7. current' = Len(file) + 1
  BY <1>6 DEF current
<1>8. Becomes(p, Idle)
  BY <1>1, IdleIs DEF Becomes
<1>9. /\ proc' \in [Procs -> ProcRecord] /\ proc'[p] = Idle
      /\ \A q \in Procs : q # p => proc'[q] = proc[q]
      /\ \A q \in Procs : proc'[q] = proc[q] \/ proc'[q] = Idle
  BY <1>0, <1>8, BecomesIs
<1>10. /\ Idle.pc = "closed" /\ Idle.file = NoFile /\ Idle.read = Nothing
       /\ Idle.pc \notin Opening \union InUse \union Restoring \union BackingUp
       /\ Idle.pc \notin Reading \union HasRead
  BY IdleIs, PartsAre DEF Parts, Restoring, BackingUp, Reading, HasRead
<1>11. StoreTypes'
  <2>1. report' \in ReportRecord
    BY <1>1, <1>2, <1>3, PartialIs DEF ReportRecord, Maybe
  <2> QED
    BY <1>0, <1>1, <1>5, <1>6, <1>9, <2>1 DEF StoreTypes
<1>12. FilesInv'
  BY <1>0, <1>5, <1>6, <1>9, <1>10 DEF FilesInv, NoFile
<1>13. ReadInv'
  BY <1>0, <1>9, <1>10 DEF ReadInv
<1>14. MigrationInv'
  <2>1. \A i \in 1 .. Len(file') : file'[i].version = SCHEMA_VERSION => file'[i].lacks = {}
    <3>1. \A i \in 1 .. Len(file') : i \in 1 .. Len(file) \/ i = Len(file) + 1
      BY <1>5, <1>6
    <3> QED
      BY <1>0, <1>4, <1>6, <3>1 DEF MigrationInv
  <2>2. \A q \in Procs : proc[q].pc \in Opening \union InUse => proc[q].file \in 1 .. Len(file)
    BY <1>0, <1>5 DEF FilesInv, NoFile
  <2>3. {"migrating", "looked"} \subseteq Opening
    BY DEF Opening
  <2>4. ASSUME NEW q \in Procs
        PROVE  /\ At(q, "migrating")' => file'[proc'[q].file].lacks \subseteq proc'[q].todo
               /\ At(q, "looked")' =>
                    file'[proc'[q].file].lacks \subseteq proc'[q].todo \union {proc'[q].column}
               /\ proc'[q].pc \in InUse => file'[proc'[q].file].lacks = {}
    <3>1. CASE proc'[q] = Idle
      BY <1>10, <2>3, <3>1 DEF At
    <3>2. CASE proc'[q] = proc[q]
      BY <1>0, <1>6, <2>2, <2>3, <3>2 DEF MigrationInv, At
    <3> QED
      BY <1>9, <3>1, <3>2
  <2> QED
    BY <2>1, <2>4 DEF MigrationInv
<1>15. BackupInv'
  <2>1. Acceptable' /\ backup'.database # NoContent
    BY <1>1, <1>2, PartialIs DEF Acceptable
  <2>2. \A q \in Procs :
          /\ proc'[q].pc \notin BackingUp
          /\ proc'[q].pc = "copied" => proc'[q].copy = backup'.database
    BY <1>0, <1>1, <1>2, <1>9, <1>10 DEF BackupInv, At
  <2> QED
    BY <1>1, <1>2, <2>1, <2>2 DEF BackupInv, At
<1>16. cold => \A q \in Procs : proc'[q].file = NoFile
  BY <1>3, <1>9, <1>10
<1>17. ColdInv'
  BY <1>1, <1>2, <1>3, <1>4, <1>6, <1>7, <1>16 DEF ColdInv
<1>18. PastInv'
  <2> SUFFICES ASSUME AllCold' PROVE PastInv'
    BY DEF PastInv
  <2>1. AllCold /\ cold
    BY <1>4, <1>5, <1>6 DEF AllCold
  <2>2. Seen(current)' = backup.database
    BY <1>1, <1>2, <1>3, <1>4, <1>6, <1>7, <2>1, OverNothing DEF Seen
  <2> QED
    BY <1>0, <1>1, <1>2, <1>16, <2>1, <2>2 DEF PastInv
<1>19. CommittedIsDurable'
  BY <1>5, <1>7 DEF CommittedIsDurable
<1> QED
  BY <1>11, <1>12, <1>13, <1>14, <1>15, <1>17, <1>18, <1>19 DEF StoreInv

-----------------------------------------------------------------------------
(* The steps of the store *)

LEMMA StoreStarts == StoreInit => StoreInv
<1> SUFFICES ASSUME StoreInit PROVE StoreInv
  OBVIOUS
<1> DEFINE zero == [t \in Tables |-> 0]
<1>1. PICK old \in BOOLEAN :
        file = <<[data |-> zero, version |-> IF old THEN 2 ELSE SCHEMA_VERSION,
                  lacks |-> IF old THEN MigratedColumns ELSE {}, cold |-> TRUE]>>
  BY DEF StoreInit
<1>2. /\ log = Nothing /\ writes = 0 /\ proc = [p \in Procs |-> Idle]
      /\ backup = NoBackup /\ past = {zero} /\ report = NoReport
  BY DEF StoreInit
<1>3. zero \in Content /\ \A t \in Tables : zero[t] = 0
  BY StoreAssumption DEF Content
<1> HIDE DEF zero
<1>4. /\ Len(file) = 1 /\ file[1] \in FileRecord /\ file \in Seq(FileRecord)
      /\ file[1].data = zero /\ file[1].cold = TRUE
      /\ file[1].version = SCHEMA_VERSION => file[1].lacks = {}
  BY <1>1, <1>3 DEF FileRecord, SCHEMA_VERSION
<1>5. /\ Idle \in ProcRecord /\ Idle.pc = "closed" /\ Idle.file = NoFile /\ Idle.read = Nothing
      /\ Idle.pc \notin Opening \union InUse \union Restoring \union BackingUp
      /\ Idle.pc \notin Reading \union HasRead
  BY IdleIs, PartsAre DEF Parts, Restoring, BackingUp, Reading, HasRead
<1>6. /\ backup \in BackupRecord /\ report \in ReportRecord
      /\ backup.database = NoContent /\ backup.manifest = FALSE /\ report.cold = FALSE
  BY <1>2 DEF NoBackup, NoReport, BackupRecord, ReportRecord, Maybe
<1>7. StoreTypes
  BY <1>2, <1>3, <1>4, <1>5, <1>6, PartialIs, StoreAssumption DEF StoreTypes
<1>8. FilesInv
  BY <1>2, <1>4, <1>5 DEF FilesInv, NoFile
<1>9. ReadInv
  BY <1>2, <1>5 DEF ReadInv
<1>10. MigrationInv
  BY <1>2, <1>4, <1>5 DEF MigrationInv, At
<1>11. BackupInv
  BY <1>2, <1>5, <1>6 DEF BackupInv, At
<1>12. ColdInv
  BY <1>6 DEF ColdInv
<1>13. current = 1 /\ Seen(1) = zero
  BY <1>2, <1>3, <1>4, OverNothing DEF current, Seen
<1>14. PastInv
  <2>1. zero["events"] = 0
    BY <1>3, TablesAre
  <2> QED
    BY <1>2, <1>5, <1>6, <1>13, <2>1, PartialIs DEF PastInv
<1>15. CommittedIsDurable
  BY <1>2, <1>3, <1>13, TablesAre DEF CommittedIsDurable
<1> QED
  BY <1>7, <1>8, <1>9, <1>10, <1>11, <1>12, <1>14, <1>15 DEF StoreInv

LEMMA StoreKeeps ==
  ASSUME StoreInv, StoreNext
  PROVE  StoreInv'
<1>1. CASE DiscardBackup
  BY <1>1, DiscardBackupKeeps
<1>2. ASSUME NEW p \in Procs, StoreStep(p)
      PROVE  StoreInv'
  <2>1. CASE \/ Open(p) \/ ReadVersion(p) \/ LookForColumn(p) \/ AddColumn(p) \/ BumpVersion(p)
    BY <2>1, OpenKeeps, ReadVersionKeeps, LookForColumnKeeps, AddColumnKeeps, BumpVersionKeeps
  <2>2. CASE \E ts \in SUBSET (Tables \ {"events"}) : Write(p, ts)
    BY <2>2, WriteKeeps
  <2>3. CASE Checkpoint(p) \/ Close(p) \/ Crash(p)
    BY <2>3, CheckpointKeeps, CloseKeeps, CrashKeeps
  <2>4. CASE StartBackup(p) \/ CopyDatabase(p) \/ ReadTable(p) \/ WriteState(p) \/ WriteManifest(p)
    BY <2>4, StartBackupKeeps, CopyDatabaseKeeps, ReadTableKeeps, WriteStateKeeps, WriteManifestKeeps
  <2>5. CASE Validate(p) \/ CopyBeside(p) \/ Replace(p)
    BY <2>5, ValidateKeeps, CopyBesideKeeps, ReplaceKeeps
  <2> QED
    BY <1>2, <2>1, <2>2, <2>3, <2>4, <2>5 DEF StoreStep
<1> QED
  BY <1>1, <1>2 DEF StoreNext

-----------------------------------------------------------------------------
(* What a step of the store means to who asks for a replay *)

(* Who works on a file when all were put in place cold reads the current one. *)
LEMMA ReadsTheCurrent ==
  ASSUME StoreInv, NEW q \in Procs, proc[q].pc \in InUse
  PROVE  /\ proc[q].file \in 1 .. Len(file) /\ proc[q].file # NoFile /\ View(q) \in Content
         /\ AllCold => proc[q].file = current /\ View(q) = Seen(current) /\ View(q) \in past
<1>1. StoreTypes /\ FilesInv /\ PastInv
  BY DEF StoreInv
<1>2. proc[q].file \in 1 .. Len(file) /\ proc[q].file # NoFile
  BY <1>1, RecordsAre DEF FilesInv, NoFile
<1>3. View(q) \in Content
  BY <1>1, <1>2, SeenIs DEF View
<1> QED
  BY <1>1, <1>2, <1>3 DEF PastInv, View

(* What process q sees stays, or is what has just been written. *)
ViewOnlyGrows(q) ==
  View(q)' = View(q) \/ View(q)'["events"] = writes + 1

ReplaysGoOn ==
  /\ past \subseteq past'
  /\ \A q \in Procs : proc'[q].pc \in Replaying => proc'[q] = proc[q]
  /\ AllCold' =>
       AllCold /\ \A q \in Procs : proc'[q].pc \in Replaying => ViewOnlyGrows(q)

(* The tables stay, and one process may move. *)
LEMMA StayedGoesOn ==
  ASSUME StoreInv, TablesStay, FilesGain, UNCHANGED past,
         \A q \in Procs : proc'[q].pc \in Replaying => proc'[q] = proc[q]
  PROVE  ReplaysGoOn
<1>1. StoreTypes
  BY DEF StoreInv
<1>2. AllCold' = AllCold
  BY <1>1 DEF AllCold, FilesGain
<1>3. current' = current
  BY DEF FilesGain, current
<1>4. ASSUME AllCold, NEW q \in Procs, proc'[q].pc \in Replaying
      PROVE  View(q)' = View(q)
  <2>1. proc'[q] = proc[q] /\ proc[q].pc \in InUse
    BY <1>4, PartsAre DEF Parts
  <2>2. proc[q].file = current /\ View(q) = Seen(current)
    BY <1>4, <2>1, ReadsTheCurrent
  <2>3. Seen(current)' = Seen(current)
    BY <1>4 DEF TablesStay
  <2>4. View(q)' = Seen(current)'
    BY <1>3, <2>1, <2>2 DEF View, Seen
  <2> QED
    BY <2>2, <2>3, <2>4
<1> QED
  BY <1>2, <1>4 DEF ReplaysGoOn, ViewOnlyGrows

(* Only process p moves, and to no step of a replay. *)
Moves(p) ==
  /\ proc'[p].pc \notin Replaying
  /\ \A q \in Procs : q # p => proc'[q] = proc[q]

LEMMA StepsMoveOne ==
  ASSUME StoreInv, NEW p \in Procs, StoreStep(p)
  PROVE  Moves(p) \/ UNCHANGED proc
<1>1. proc \in [Procs -> ProcRecord]
  BY DEF StoreInv, StoreTypes
<1>2. /\ \A pc \in {"open", "copying", "reading", "stating", "stated", "valid", "copied",
                    "opening", "migrating", "looked"} : pc \notin Replaying
      /\ Idle.pc \notin Replaying
  BY IdleIs DEF Replaying
<1>3. CASE Open(p)
  BY <1>1, <1>2, <1>3 DEF Open, Moves
<1>4. CASE ReadVersion(p)
  BY <1>1, <1>2, <1>4 DEF ReadVersion, Moves
<1>5. CASE LookForColumn(p)
  <2>1. PICK c \in proc[p].todo :
          proc' = [proc EXCEPT ![p].todo = @ \ {c}, ![p].column = c,
                     ![p].pc = IF c \in file[proc[p].file].lacks THEN "looked" ELSE @]
    BY <1>5 DEF LookForColumn
  <2>2. proc[p].pc = "migrating" /\ proc[p] \in ProcRecord
    BY <1>1, <1>5 DEF LookForColumn, At
  <2>3. proc'[p].pc \in {"looked", "migrating"}
    BY <1>1, <2>1, <2>2 DEF ProcRecord
  <2>4. \A q \in Procs : q # p => proc'[q] = proc[q]
    BY <1>1, <2>1
  <2> QED
    BY <1>2, <2>3, <2>4 DEF Moves
<1>6. CASE AddColumn(p)
  BY <1>1, <1>2, <1>6 DEF AddColumn, Moves
<1>7. CASE BumpVersion(p)
  BY <1>1, <1>2, <1>7 DEF BumpVersion, Moves
<1>8. CASE (\E ts \in SUBSET (Tables \ {"events"}) : Write(p, ts)) \/ Checkpoint(p)
  BY <1>8 DEF Write, Checkpoint
<1>9. CASE Close(p) \/ Crash(p)
  BY <1>1, <1>2, <1>9 DEF Close, Crash, Moves
<1>10. CASE StartBackup(p)
  BY <1>1, <1>2, <1>10 DEF StartBackup, Moves
<1>11. CASE CopyDatabase(p)
  BY <1>1, <1>2, <1>11 DEF CopyDatabase, Moves
<1>12. CASE ReadTable(p)
  BY <1>1, <1>2, <1>12 DEF ReadTable, At, Moves
<1>13. CASE WriteState(p)
  BY <1>1, <1>2, <1>13 DEF WriteState, Moves
<1>14. CASE WriteManifest(p)
  BY <1>1, <1>2, <1>14 DEF WriteManifest, Moves
<1>15. CASE Validate(p)
  BY <1>1, <1>2, <1>15 DEF Validate, Moves
<1>16. CASE CopyBeside(p)
  BY <1>1, <1>2, <1>16 DEF CopyBeside, Moves
<1>17. CASE Replace(p)
  BY <1>1, <1>2, <1>17 DEF Replace, Moves
<1> QED
  BY <1>3, <1>4, <1>5, <1>6, <1>7, <1>8, <1>9, <1>10, <1>11, <1>12, <1>13, <1>14, <1>15, <1>16, <1>17
     DEF StoreStep

LEMMA ReadersStay ==
  ASSUME StoreInv, NEW p \in Procs, StoreStep(p)
  PROVE  \A q \in Procs : proc'[q].pc \in Replaying => proc'[q] = proc[q]
BY StepsMoveOne DEF Moves

LEMMA WriteGoesOn ==
  ASSUME StoreInv, NEW p \in Procs, NEW ts \in SUBSET (Tables \ {"events"}), Write(p, ts)
  PROVE  ReplaysGoOn
<1>1. UNCHANGED <<file, proc>> /\ past \subseteq past'
  BY DEF Write
<1>2. ASSUME NEW q \in Procs, proc'[q].pc \in Replaying
      PROVE  View(q)'["events"] = writes + 1
  <2>1. proc[q].file \in 1 .. Len(file)
    BY <1>1, <1>2, ReadsTheCurrent, PartsAre DEF Parts
  <2>2. View(q)' = Over(file[proc[q].file].data, log')
    BY <1>1 DEF View, Seen
  <2> QED
    BY <2>1, <2>2, WriteIs
<1> QED
  BY <1>1, <1>2 DEF ReplaysGoOn, ViewOnlyGrows, AllCold

LEMMA QuietGoesOn ==
  ASSUME StoreInv, NEW p \in Procs, StoreStep(p), UNCHANGED <<file, log>>, past \subseteq past'
  PROVE  ReplaysGoOn
BY ReadersStay DEF ReplaysGoOn, ViewOnlyGrows, View, Seen, AllCold

LEMMA LogGoesOn ==
  ASSUME StoreInv, NEW p \in Procs, StoreStep(p), Checkpoint(p) \/ Close(p) \/ StartBackup(p)
  PROVE  ReplaysGoOn
<1>1. TablesStay /\ FilesGain
  <2>1. UNCHANGED <<file, log, writes>> => TablesStay /\ FilesGain
    BY FilesStay
  <2>2. proc[p].pc \in InUse /\ MoveLog(p) /\ writes' = writes => TablesStay /\ FilesGain
    BY LogMoves DEF FilesInv, StoreInv
  <2>3. "open" \in InUse
    BY DEF InUse
  <2> QED
    BY <2>1, <2>2, <2>3 DEF Checkpoint, Close, StartBackup, At
<1>2. UNCHANGED past
  BY DEF Checkpoint, Close, StartBackup
<1> QED
  BY <1>1, <1>2, ReadersStay, StayedGoesOn

LEMMA ColumnsGoOn ==
  ASSUME StoreInv, NEW p \in Procs, StoreStep(p), AddColumn(p) \/ BumpVersion(p)
  PROVE  ReplaysGoOn
<1>1. TablesStay /\ FilesGain
  BY AddColumnGains, BumpVersionGains
<1>2. UNCHANGED past
  BY DEF AddColumn, BumpVersion
<1> QED
  BY <1>1, <1>2, ReadersStay, StayedGoesOn

LEMMA ReplaceGoesOn ==
  ASSUME StoreInv, NEW p \in Procs, Replace(p)
  PROVE  ReplaysGoOn
<1> DEFINE cold == log = Nothing /\ \A q \in Procs : proc[q].file = NoFile
           g == [data |-> proc[p].copy, version |-> SCHEMA_VERSION, lacks |-> {}, cold |-> cold]
<1>1. /\ file' = Append(file, g) /\ proc' = [proc EXCEPT ![p] = Idle] /\ UNCHANGED past
  BY DEF Replace
<1>2. file \in Seq(FileRecord) /\ proc \in [Procs -> ProcRecord]
  BY DEF StoreInv, StoreTypes
<1>3. \A q \in Procs : proc'[q].pc \in Replaying => proc'[q] = proc[q] /\ proc[q].pc \in Replaying
  BY <1>1, <1>2, IdleIs DEF Replaying
<1>4. AllCold' => AllCold /\ cold
  <2>1. /\ Len(file') = Len(file) + 1 /\ file'[Len(file) + 1].cold = cold
        /\ \A i \in 1 .. Len(file) : file'[i] = file[i]
    BY <1>1, <1>2
  <2>2. 1 .. Len(file) \subseteq 1 .. Len(file') /\ Len(file) + 1 \in 1 .. Len(file')
    BY <1>2, <2>1
  <2> HIDE DEF cold
  <2> QED
    BY <2>1, <2>2 DEF AllCold
<1>5. cold => \A q \in Procs : proc[q].pc \notin Replaying
  BY PartsAre DEF StoreInv, FilesInv, Parts
<1> HIDE DEF cold
<1> QED
  BY <1>1, <1>3, <1>4, <1>5 DEF ReplaysGoOn

LEMMA TheStoreGoesOn ==
  ASSUME StoreInv, StoreNext
  PROVE  ReplaysGoOn
<1>1. CASE DiscardBackup
  BY <1>1 DEF DiscardBackup, ReplaysGoOn, ViewOnlyGrows, View, Seen, AllCold
<1>2. ASSUME NEW p \in Procs, StoreStep(p)
      PROVE  ReplaysGoOn
  <2>1. CASE \/ Open(p) \/ ReadVersion(p) \/ LookForColumn(p) \/ Crash(p)
             \/ CopyDatabase(p) \/ ReadTable(p) \/ WriteState(p) \/ WriteManifest(p)
             \/ Validate(p) \/ CopyBeside(p)
    <3>1. UNCHANGED <<file, log>> /\ past \subseteq past'
      BY <2>1 DEF Open, ReadVersion, LookForColumn, Crash, CopyDatabase, ReadTable, WriteState,
         WriteManifest, Validate, CopyBeside
    <3> QED
      BY <1>2, <3>1, QuietGoesOn
  <2>2. CASE AddColumn(p) \/ BumpVersion(p)
    BY <1>2, <2>2, ColumnsGoOn
  <2>3. CASE \E ts \in SUBSET (Tables \ {"events"}) : Write(p, ts)
    BY <2>3, WriteGoesOn
  <2>4. CASE Checkpoint(p) \/ Close(p) \/ StartBackup(p)
    BY <1>2, <2>4, LogGoesOn
  <2>5. CASE Replace(p)
    BY <2>5, ReplaceGoesOn
  <2> QED
    BY <1>2, <2>1, <2>2, <2>3, <2>4, <2>5 DEF StoreStep
<1> QED
  BY <1>1, <1>2 DEF StoreNext

-----------------------------------------------------------------------------
(* The steps of the replay service *)

(* Process p, which has the owner open, goes to step pc having read l. *)
Goes(p, pc, l) ==
  /\ proc' = [proc EXCEPT ![p].pc = pc, ![p].read = l]
  /\ UNCHANGED <<file, log, writes, backup, past, report>>

LEMMA GoingKeeps ==
  ASSUME StoreInv, NEW p \in Procs, proc[p].pc \in InUse,
         NEW pc \in {"open"} \union Replaying, NEW l \in Partial, Goes(p, pc, l),
         pc = "viewing" => DOMAIN l \in Prefixes,
         pc = "viewed" => l \in Content,
         pc \notin {"viewing", "viewed"} => l = Nothing
  PROVE  /\ StoreInv'
         /\ proc'[p].pc = pc /\ proc'[p].read = l /\ View(p)' = View(p)
         /\ \A q \in Procs : q # p => proc'[q] = proc[q] /\ View(q)' = View(q)
<1> DEFINE r == [proc[p] EXCEPT !.pc = pc, !.read = l]
<1>1. StoreTypes
  BY DEF StoreInv
<1>2. TablesStay /\ FilesGain /\ UNCHANGED <<backup, report, past, file, log>>
  BY FilesStay DEF Goes
<1>3. /\ proc[p] \in ProcRecord /\ proc[p].file # NoFile /\ file'[proc[p].file].lacks = {}
  BY <1>2, StaysItself
<1>4. pc \in InUse
  BY PartsAre DEF Parts
<1>5. /\ r \in ProcRecord /\ r.pc = pc /\ r.file = proc[p].file /\ r.read = l
  BY <1>3, <1>4 DEF ProcRecord, Pcs
<1>6. Becomes(p, r)
  BY <1>5 DEF Becomes, Goes
<1>7. /\ pc \notin Opening /\ pc \notin BackingUp \union Restoring /\ pc # "copied"
      /\ pc # "migrating" /\ pc # "looked" /\ pc # "reading" /\ pc # "stating"
  BY DEF Opening, BackingUp, Restoring, Replaying
<1>8. MayBecome(r, file'[r.file])
  BY <1>3, <1>4, <1>5, <1>7 DEF MayBecome, Reading, HasRead
<1>9. StoreInv'
  BY <1>2, <1>5, <1>6, <1>7, <1>8, MoveKeeps
<1>10. proc'[p] = r /\ \A q \in Procs : q # p => proc'[q] = proc[q]
  BY <1>1, <1>6, BecomesIs
<1> QED
  BY <1>2, <1>5, <1>9, <1>10 DEF View, Seen

LEMMA NoPinIs == NoPin \in PinRecord
BY DEF NoPin, PinRecord

(* A step of the service at process p leaves the others as they are. *)
LEMMA OthersAsk ==
  ASSUME StoreInv, ReplayInv, NEW p \in Procs,
         \A q \in Procs : q # p => proc'[q] = proc[q] /\ View(q)' = View(q),
         UNCHANGED <<file, past>>,
         PinTypes', \A q \in Procs : q # p => pin'[q] = pin[q],
         AllCold => AskedInv(p)' /\ CassetteInv'
  PROVE  ReplayInv'
<1>1. AllCold' = AllCold
  BY DEF AllCold
<1>2. AllCold => \A q \in Procs : AskedInv(q)
  BY DEF ReplayInv
<1>3. ASSUME AllCold, NEW q \in Procs, q # p
      PROVE  AskedInv(q)'
  <2>1. proc'[q] = proc[q] /\ View(q)' = View(q) /\ pin'[q] = pin[q] /\ AskedInv(q)
    BY <1>2, <1>3
  <2> QED
    BY <2>1 DEF AskedInv, At, IsOfThePast
<1>4. AllCold => CassetteInv' /\ \A q \in Procs : AskedInv(q)'
  BY <1>3
<1> QED
  BY <1>1, <1>4 DEF ReplayInv

LEMMA AnswerOpens ==
  ASSUME StoreInv, NEW p \in Procs, proc[p].pc \in InUse, Answer(p, "open"),
         UNCHANGED <<file, log, writes, backup, past, report>>
  PROVE  /\ StoreInv' /\ AskedInv(p)' /\ (pin \in [Procs -> PinRecord] => pin' \in [Procs -> PinRecord])
         /\ \A q \in Procs : q # p => proc'[q] = proc[q] /\ View(q)' = View(q)
         /\ pin \in [Procs -> PinRecord] => \A q \in Procs : q # p => pin'[q] = pin[q]
<1>1. Goes(p, "open", Nothing)
  BY DEF Answer, Goes
<1>2. /\ StoreInv' /\ proc'[p].pc = "open"
      /\ \A q \in Procs : q # p => proc'[q] = proc[q] /\ View(q)' = View(q)
  BY <1>1, PartialIs, GoingKeeps
<1>3. AskedInv(p)'
  BY <1>2 DEF AskedInv, At
<1>4. pin' = [pin EXCEPT ![p] = NoPin]
  BY DEF Answer
<1> QED
  BY <1>2, <1>3, <1>4, NoPinIs

LEMMA AskForViewKeeps ==
  ASSUME StoreInv, ReplayInv, NEW p \in Procs, AskForView(p)
  PROVE  StoreInv' /\ ReplayInv'
<1>1. /\ proc[p].pc = "open" /\ proc[p].pc \in InUse
      /\ proc' = [proc EXCEPT ![p].pc = "viewing"]
      /\ UNCHANGED <<file, log, writes, backup, past, report, cassette>>
  BY DEF AskForView, At, InUse
<1>2. PICK c \in past : pin' = [pin EXCEPT ![p].events = c["events"]]
  BY DEF AskForView
<1>3. proc[p].read = Nothing /\ proc[p] \in ProcRecord /\ proc \in [Procs -> ProcRecord]
  BY <1>1 DEF StoreInv, StoreTypes, ReadInv, Reading, HasRead
<1>4. Goes(p, "viewing", Nothing)
  <2>1. proc' = [proc EXCEPT ![p].pc = "viewing", ![p].read = Nothing]
    BY <1>1, <1>3 DEF ProcRecord
  <2> QED
    BY <1>1, <2>1 DEF Goes
<1>5. DOMAIN Nothing = {} /\ {} \in Prefixes /\ "viewing" \in Replaying
  BY DEF Nothing, Prefixes, Replaying
<1>6. /\ StoreInv' /\ proc'[p].pc = "viewing" /\ proc'[p].read = Nothing
      /\ \A q \in Procs : q # p => proc'[q] = proc[q] /\ View(q)' = View(q)
  BY <1>1, <1>4, <1>5, PartialIs, GoingKeeps
<1>7. PinTypes /\ c["events"] \in 0 .. WriteLimit
  BY TablesAre DEF ReplayInv, PinTypes, StoreInv, StoreTypes, Content
<1>8. /\ pin' \in [Procs -> PinRecord] /\ pin'[p].events = c["events"]
      /\ \A q \in Procs : q # p => pin'[q] = pin[q]
  BY <1>2, <1>7 DEF PinTypes, PinRecord
<1>9. AskedInv(p)'
  BY <1>1, <1>5, <1>6, <1>8 DEF AskedInv, At
<1>10. PinTypes' /\ (AllCold => CassetteInv')
  BY <1>1, <1>7, <1>8 DEF ReplayInv, PinTypes, CassetteInv, IsOfThePast
<1> QED
  BY <1>1, <1>6, <1>8, <1>9, <1>10, OthersAsk

LEMMA ViewTableKeeps ==
  ASSUME StoreInv, ReplayInv, NEW p \in Procs, ViewTable(p)
  PROVE  StoreInv' /\ ReplayInv'
<1>1. /\ proc[p].pc = "viewing" /\ proc[p].pc \in InUse
      /\ UNCHANGED <<file, log, writes, backup, past, report, cassette>>
  BY DEF ViewTable, At, InUse, Replaying
<1>2. PinTypes /\ (AllCold => CassetteInv /\ AskedInv(p))
  BY DEF ReplayInv
<1>3. PinTypes' /\ (AllCold => CassetteInv') <=> pin' \in [Procs -> PinRecord]
  BY <1>1, <1>2 DEF PinTypes, CassetteInv, IsOfThePast
<1>4. PICK l : l = proc[p].read
  OBVIOUS
<1>5. l \in Partial /\ DOMAIN l \in Prefixes
  BY <1>1, <1>4, RecordsAre DEF StoreInv, ReadInv, Reading
<1>6. PICK t : t = Order[Cardinality(DOMAIN l) + 1]
  OBVIOUS
<1>7. /\ t \in Tables
      /\ t # "events" => DOMAIN l \union {t} \in Prefixes /\ DOMAIN l \union {t} # Tables
      /\ t = "events" => DOMAIN l \union {t} = Tables
  <2>1. PICK d : d = DOMAIN l
    OBVIOUS
  <2>2. d \in Prefixes /\ t = Order[Cardinality(d) + 1]
    BY <1>5, <1>6, <2>1
  <2>3. /\ t \in Tables
        /\ t # "events" => d \union {t} \in Prefixes /\ d \union {t} # Tables
        /\ t = "events" => d \union {t} = Tables
    BY <2>2, NextTable
  <2> QED
    BY <2>1, <2>3
<1> DEFINE seen == View(p)[t]
           m == With(l, t, seen)
           pc == IF DOMAIN m = Tables THEN "viewed" ELSE "viewing"
<1>8. View(p) \in Content /\ (AllCold => View(p) \in past)
  BY <1>1, ReadsTheCurrent
<1>9. seen \in 0 .. WriteLimit
  BY <1>7, <1>8 DEF Content
<1>10. /\ m \in Partial /\ DOMAIN m = DOMAIN l \union {t}
       /\ m[t] = seen /\ \A u \in DOMAIN l : u # t => m[u] = l[u]
       /\ DOMAIN m = Tables => m \in Content
  <2>1. PICK n \in 0 .. WriteLimit : n = seen
    BY <1>9
  <2>2. /\ With(l, t, n) \in Partial /\ DOMAIN With(l, t, n) = DOMAIN l \union {t}
        /\ With(l, t, n)[t] = n /\ \A u \in DOMAIN l : u # t => With(l, t, n)[u] = l[u]
        /\ DOMAIN l \union {t} = Tables => With(l, t, n) \in Content
    BY <1>5, <1>7, WithIs
  <2> QED
    BY <2>1, <2>2
<1>11. CASE t = "events" /\ seen # pin[p].events
  <2>1. Answer(p, "open")
    BY <1>4, <1>6, <1>11, TablesAre DEF ViewTable
  <2>2. /\ StoreInv' /\ AskedInv(p)' /\ pin' \in [Procs -> PinRecord]
        /\ \A q \in Procs : q # p => proc'[q] = proc[q] /\ View(q)' = View(q)
        /\ \A q \in Procs : q # p => pin'[q] = pin[q]
    BY <1>1, <1>2, <2>1, AnswerOpens DEF PinTypes
  <2>3. PinTypes' /\ (AllCold => CassetteInv')
    BY <1>3, <2>2
  <2> QED
    BY <1>1, <2>2, <2>3, OthersAsk
<1>12. CASE ~(t = "events" /\ seen # pin[p].events)
  <2>1. /\ proc' = [proc EXCEPT ![p].read = m, ![p].pc = pc] /\ pin' = pin
    BY <1>1, <1>4, <1>6, <1>12, TablesAre DEF ViewTable, With
  <2> HIDE DEF m
  <2>2. Goes(p, pc, m)
    BY <1>1, <2>1 DEF Goes
  <2>3. /\ pc \in Replaying
        /\ pc = "viewing" => DOMAIN m \in Prefixes
        /\ pc = "viewed" => m \in Content /\ DOMAIN m = Tables /\ t = "events"
        /\ pc \in {"viewing", "viewed"}
    BY <1>7, <1>10 DEF Replaying
  <2>4. /\ StoreInv' /\ proc'[p].pc = pc /\ proc'[p].read = m /\ View(p)' = View(p)
        /\ \A q \in Procs : q # p => proc'[q] = proc[q] /\ View(q)' = View(q)
    BY <1>1, <1>10, <2>2, <2>3, GoingKeeps
  <2>5. AllCold => AskedInv(p)'
    <3> SUFFICES ASSUME AllCold PROVE AskedInv(p)'
      OBVIOUS
    <3>1. /\ \E c \in past : c["events"] = pin[p].events
          /\ View(p)["events"] = pin[p].events =>
               \A u \in DOMAIN l : l[u] = View(p)[u]
      BY <1>1, <1>2, <1>4 DEF AskedInv, At
    <3>2. View(p)["events"] = pin[p].events =>
            \A u \in DOMAIN m : m[u] = View(p)[u]
      BY <1>10, <3>1
    <3>3. CASE pc = "viewing"
      BY <1>1, <2>1, <2>4, <3>1, <3>2, <3>3 DEF AskedInv, At
    <3>4. CASE pc = "viewed"
      <4>1. seen = pin[p].events /\ t = "events"
        BY <1>12, <2>3, <3>4
      <4>2. \A u \in Tables : m[u] = View(p)[u]
        BY <2>3, <3>2, <3>4, <4>1
      <4>3. m = View(p)
        BY <1>8, <2>3, <3>4, <4>2, SameContent
      <4> QED
        BY <1>1, <1>8, <2>1, <2>4, <3>4, <4>1, <4>3 DEF AskedInv, At
    <3> QED
      BY <2>3, <3>3, <3>4
  <2>6. PinTypes' /\ (AllCold => CassetteInv')
    BY <1>2, <1>3, <2>1 DEF PinTypes
  <2> QED
    BY <1>1, <2>1, <2>4, <2>5, <2>6, OthersAsk
<1> QED
  BY <1>11, <1>12

LEMMA TakeViewKeeps ==
  ASSUME StoreInv, ReplayInv, NEW p \in Procs, TakeView(p)
  PROVE  StoreInv' /\ ReplayInv'
<1>1. /\ proc[p].pc = "viewed" /\ proc[p].pc \in InUse /\ Answer(p, "open")
      /\ UNCHANGED <<file, log, writes, backup, past, report>>
  BY DEF TakeView, At, InUse, Replaying
<1>2. PinTypes /\ (AllCold => CassetteInv /\ AskedInv(p))
  BY DEF ReplayInv
<1>3. /\ StoreInv' /\ AskedInv(p)' /\ pin' \in [Procs -> PinRecord]
      /\ \A q \in Procs : q # p => proc'[q] = proc[q] /\ View(q)' = View(q)
      /\ \A q \in Procs : q # p => pin'[q] = pin[q]
  BY <1>1, <1>2, AnswerOpens DEF PinTypes
<1>4. /\ proc[p].read \in Content /\ "events" \in Tables /\ "effects" \in Tables
  BY <1>1, TablesAre DEF StoreInv, ReadInv, HasRead
<1>5. CASE cassette' = [events |-> proc[p].read["events"], semantic |-> proc[p].read["effects"]]
  <2>1. cassette' \in Sealed
    BY <1>4, <1>5 DEF Content, Sealed
  <2>2. AllCold => CassetteInv'
    BY <1>1, <1>2, <1>5 DEF AskedInv, At, CassetteInv, IsOfThePast
  <2> QED
    BY <1>1, <1>3, <2>1, <2>2, OthersAsk DEF PinTypes
<1>6. CASE UNCHANGED cassette
  <2>1. PinTypes' /\ (AllCold => CassetteInv')
    BY <1>1, <1>2, <1>3, <1>6 DEF PinTypes, CassetteInv, IsOfThePast
  <2> QED
    BY <1>1, <1>3, <2>1, OthersAsk
<1> QED
  BY <1>5, <1>6 DEF TakeView

LEMMA AskForReplayKeeps ==
  ASSUME StoreInv, ReplayInv, NEW p \in Procs, AskForReplay(p)
  PROVE  StoreInv' /\ ReplayInv'
<1>1. /\ proc[p].pc = "open" /\ proc[p].pc \in InUse /\ cassette # NoCassette
      /\ pin' = [pin EXCEPT ![p] = [events |-> cassette.events, cassette |-> cassette]]
      /\ proc' = [proc EXCEPT ![p].pc = "loading"]
      /\ UNCHANGED <<file, log, writes, backup, past, report, cassette>>
  BY DEF AskForReplay, At, InUse
<1>2. proc[p].read = Nothing /\ proc[p] \in ProcRecord /\ proc \in [Procs -> ProcRecord]
  BY <1>1 DEF StoreInv, StoreTypes, ReadInv, Reading, HasRead
<1>3. Goes(p, "loading", Nothing)
  <2>1. proc' = [proc EXCEPT ![p].pc = "loading", ![p].read = Nothing]
    BY <1>1, <1>2 DEF ProcRecord
  <2> QED
    BY <1>1, <2>1 DEF Goes
<1>4. "loading" \in Replaying
  BY DEF Replaying
<1>5. /\ StoreInv' /\ proc'[p].pc = "loading"
      /\ \A q \in Procs : q # p => proc'[q] = proc[q] /\ View(q)' = View(q)
  BY <1>1, <1>3, <1>4, PartialIs, GoingKeeps
<1>6. PinTypes /\ (AllCold => CassetteInv)
  BY DEF ReplayInv
<1>7. cassette \in Sealed
  BY <1>1, <1>6 DEF PinTypes
<1>8. [events |-> cassette.events, cassette |-> cassette] \in PinRecord
  BY <1>7 DEF PinRecord, Sealed
<1>9. /\ pin' \in [Procs -> PinRecord]
      /\ pin'[p].events = cassette.events /\ pin'[p].cassette = cassette
      /\ \A q \in Procs : q # p => pin'[q] = pin[q]
  BY <1>1, <1>6, <1>8 DEF PinTypes
<1>10. AllCold => AskedInv(p)'
  BY <1>1, <1>5, <1>6, <1>9 DEF AskedInv, At, CassetteInv, IsOfThePast
<1>11. PinTypes' /\ (AllCold => CassetteInv')
  BY <1>1, <1>6, <1>9 DEF PinTypes, CassetteInv, IsOfThePast
<1> QED
  BY <1>1, <1>5, <1>9, <1>10, <1>11, OthersAsk

(* The step of a replay that leaves the pin as it is. *)
LEMMA ReplayAdvances ==
  ASSUME StoreInv, ReplayInv, NEW p \in Procs, proc[p].pc \in {"loading", "loaded"},
         NEW pc \in {"loaded", "simulated", "denied"}, Answer(p, pc),
         UNCHANGED <<file, log, writes, backup, past, report, cassette>>
  PROVE  StoreInv' /\ ReplayInv'
<1>1. proc[p].read = Nothing /\ proc[p] \in ProcRecord /\ proc \in [Procs -> ProcRecord]
      /\ proc[p].pc \in InUse
  BY DEF StoreInv, StoreTypes, ReadInv, Reading, HasRead, InUse, Replaying
<1>2. pin' = pin
  BY DEF Answer
<1>3. Goes(p, pc, Nothing)
  BY <1>1 DEF Answer, Goes
<1>4. pc \in Replaying /\ pc \notin {"viewing", "viewed"}
  BY DEF Replaying
<1>5. /\ StoreInv' /\ proc'[p].pc = pc
      /\ \A q \in Procs : q # p => proc'[q] = proc[q] /\ View(q)' = View(q)
  BY <1>1, <1>3, <1>4, PartialIs, GoingKeeps
<1>6. PinTypes /\ (AllCold => CassetteInv /\ AskedInv(p))
  BY DEF ReplayInv
<1>7. AllCold => AskedInv(p)'
  BY <1>2, <1>4, <1>5, <1>6 DEF AskedInv, At, IsOfThePast
<1>8. PinTypes' /\ (AllCold => CassetteInv')
  BY <1>2, <1>6 DEF PinTypes, CassetteInv, IsOfThePast
<1> QED
  BY <1>2, <1>5, <1>7, <1>8, OthersAsk

LEMMA ReplayGivesUp ==
  ASSUME StoreInv, ReplayInv, NEW p \in Procs, proc[p].pc \in InUse, Answer(p, "open"),
         UNCHANGED <<file, log, writes, backup, past, report, cassette>>
  PROVE  StoreInv' /\ ReplayInv'
<1>1. PinTypes /\ (AllCold => CassetteInv)
  BY DEF ReplayInv
<1>2. /\ StoreInv' /\ AskedInv(p)' /\ pin' \in [Procs -> PinRecord]
      /\ \A q \in Procs : q # p => proc'[q] = proc[q] /\ View(q)' = View(q)
      /\ \A q \in Procs : q # p => pin'[q] = pin[q]
  BY <1>1, AnswerOpens DEF PinTypes
<1>3. PinTypes' /\ (AllCold => CassetteInv')
  BY <1>1, <1>2 DEF PinTypes, CassetteInv, IsOfThePast
<1> QED
  BY <1>2, <1>3, OthersAsk

LEMMA ReplayStepKeeps ==
  ASSUME StoreInv, ReplayInv, NEW p \in Procs, ReplayStep(p)
  PROVE  StoreInv' /\ ReplayInv'
<1>1. CASE AskForView(p)
  BY <1>1, AskForViewKeeps
<1>2. CASE ViewTable(p)
  BY <1>2, ViewTableKeeps
<1>3. CASE TakeView(p)
  BY <1>3, TakeViewKeeps
<1>4. CASE AskForReplay(p)
  BY <1>4, AskForReplayKeeps
<1>5. CASE LoadCassette(p) \/ ValidateSource(p) \/ TakeReplay(p)
  <2>1. /\ UNCHANGED <<file, log, writes, backup, past, report, cassette>>
        /\ proc[p].pc \in InUse
        /\ \/ Answer(p, "open")
           \/ /\ proc[p].pc \in {"loading", "loaded"}
              /\ \E pc \in {"loaded", "simulated", "denied"} : Answer(p, pc)
    BY <1>5 DEF LoadCassette, ValidateSource, TakeReplay, At, InUse, Replaying
  <2> QED
    BY <2>1, ReplayAdvances, ReplayGivesUp
<1> QED
  BY <1>1, <1>2, <1>3, <1>4, <1>5 DEF ReplayStep

LEMMA StoreOnlyKeeps ==
  ASSUME StoreInv, ReplayInv, StoreOnly
  PROVE  StoreInv' /\ ReplayInv'
<1>1. /\ StoreNext /\ cassette' = cassette
      /\ pin' = [q \in Procs |-> IF proc'[q].file = NoFile THEN NoPin ELSE pin[q]]
  BY DEF StoreOnly
<1>2. StoreInv'
  BY <1>1, StoreKeeps
<1>3. ReplaysGoOn
  BY <1>1, TheStoreGoesOn
<1>4. PinTypes /\ (AllCold => CassetteInv /\ \A q \in Procs : AskedInv(q))
  BY DEF ReplayInv
<1>5. PinTypes'
  BY <1>1, <1>4, NoPinIs DEF PinTypes
<1>6. AllCold' => CassetteInv'
  BY <1>1, <1>3, <1>4 DEF CassetteInv, IsOfThePast, ReplaysGoOn
<1>7. ASSUME AllCold', NEW q \in Procs
      PROVE  AskedInv(q)'
  <2>1. CASE proc'[q].pc \notin Replaying
    BY <2>1 DEF AskedInv, At, Replaying
  <2>2. CASE proc'[q].pc \in Replaying
    <3>1. proc'[q] = proc[q] /\ AllCold /\ ViewOnlyGrows(q) /\ past \subseteq past'
      BY <1>3, <1>7, <2>2 DEF ReplaysGoOn
    <3>2. proc[q].pc \in InUse
      BY <2>2, <3>1, PartsAre DEF Parts
    <3>3. proc[q].file # NoFile /\ View(q) \in past
      BY <3>1, <3>2, ReadsTheCurrent
    <3>4. pin'[q] = pin[q] /\ AskedInv(q)
      BY <1>1, <1>4, <3>1, <3>3
    <3>5. (\E c \in past : c["events"] = pin[q].events) =>
            pin[q].events <= writes /\ pin[q].events \in Nat /\ writes \in Nat
      <4>1. past \subseteq Content /\ "events" \in Tables /\ writes \in Nat
        BY TablesAre, StoreAssumption DEF StoreInv, StoreTypes
      <4>2. \A c \in past : c["events"] <= writes /\ c["events"] \in Nat
        BY <3>1, <4>1 DEF StoreInv, PastInv, Content
      <4> QED
        BY <4>1, <4>2
    <3>6. At(q, "viewing")' =>
            /\ \E c \in past' : c["events"] = pin[q].events
            /\ View(q)'["events"] = pin[q].events =>
                 \A t \in DOMAIN proc'[q].read : proc'[q].read[t] = View(q)'[t]
      BY <3>1, <3>4, <3>5 DEF AskedInv, At, ViewOnlyGrows
    <3> QED
      BY <3>1, <3>4, <3>6 DEF AskedInv, At, IsOfThePast
  <2> QED
    BY <2>1, <2>2
<1> QED
  BY <1>2, <1>5, <1>6, <1>7 DEF ReplayInv

-----------------------------------------------------------------------------
(* Theorems *)

THEOREM ReplayInvariant == ReplaySpec => [](StoreInv /\ ReplayInv)
<1>1. ReplayInit => StoreInv /\ ReplayInv
  <2> SUFFICES ASSUME ReplayInit PROVE StoreInv /\ ReplayInv
    OBVIOUS
  <2>1. StoreInv
    BY StoreStarts DEF ReplayInit
  <2>2. pin = [p \in Procs |-> NoPin] /\ cassette = NoCassette
    BY DEF ReplayInit
  <2>3. \A q \in Procs : proc[q].pc = "closed"
    BY IdleIs DEF ReplayInit, StoreInit
  <2>4. PinTypes /\ CassetteInv /\ \A q \in Procs : AskedInv(q)
    BY <2>2, <2>3, NoPinIs DEF PinTypes, CassetteInv, AskedInv, At
  <2> QED
    BY <2>1, <2>4 DEF ReplayInv
<1>2. StoreInv /\ ReplayInv /\ [ReplayNext]_replayVars => (StoreInv /\ ReplayInv)'
  <2> SUFFICES ASSUME StoreInv, ReplayInv, [ReplayNext]_replayVars
               PROVE  StoreInv' /\ ReplayInv'
    OBVIOUS
  <2>1. CASE StoreOnly
    BY <2>1, StoreOnlyKeeps
  <2>2. CASE \E p \in Procs : ReplayStep(p)
    BY <2>2, ReplayStepKeeps
  <2>3. CASE UNCHANGED replayVars
    <3>1. UNCHANGED <<file, log, writes, proc, backup, past, report, pin, cassette>>
      BY <2>3 DEF replayVars, storeVars
    <3>2. StoreInv'
      BY <3>1 DEF StoreInv, StoreTypes, FilesInv, ReadInv, MigrationInv, BackupInv, ColdInv, PastInv,
         CommittedIsDurable, At, Acceptable, AllCold, Seen, current
    <3>3. ReplayInv'
      BY <3>1 DEF ReplayInv, PinTypes, CassetteInv, AskedInv, IsOfThePast, At, AllCold, View, Seen
    <3> QED
      BY <3>2, <3>3
  <2> QED
    BY <2>1, <2>2, <2>3 DEF ReplayNext
<1> QED
  BY <1>1, <1>2, PTL DEF ReplaySpec

(* Whoever works with an owner finds every migrated column, for any number *)
(* of processes that open it, migrate it and die over it.                  *)
THEOREM SchemaIsComplete == ReplaySpec => []SchemaIsCompleteInUse
<1>1. StoreInv /\ ReplayInv => SchemaIsCompleteInUse
  BY DEF StoreInv, MigrationInv, SchemaIsCompleteInUse
<1> QED
  BY <1>1, ReplayInvariant, PTL

(* A restore over a database that nobody has open and that was closed in   *)
(* order gives back the state it reports; if every one before it was such, *)
(* a state that an owner has read.                                         *)
THEOREM ColdRestores == ReplaySpec => []ColdRestoreIsExact
<1>1. StoreInv /\ ReplayInv => ColdRestoreIsExact
  <2> SUFFICES ASSUME StoreInv, report.cold PROVE
                 /\ Seen(current) = report.state
                 /\ (\A i \in DOMAIN file : file[i].cold) => report.state \in past
    BY DEF ColdRestoreIsExact
  <2>1. StoreTypes /\ ColdInv /\ PastInv
    BY DEF StoreInv
  <2>2. file[current].data \in Content /\ log = Nothing /\ file[current].data = report.state
    BY <2>1, RecordsAre DEF ColdInv
  <2>3. Seen(current) = report.state
    BY <2>2, OverNothing DEF Seen
  <2>4. DOMAIN file = 1 .. Len(file)
    BY <2>1 DEF StoreTypes
  <2> QED
    BY <2>1, <2>3, <2>4 DEF PastInv, AllCold
<1> QED
  BY <1>1, ReplayInvariant, PTL

(* Nothing that was committed is lost to crashes, checkpoints, backups and *)
(* owners that open and close, as long as nothing is restored.             *)
THEOREM CommitsAreDurable == ReplaySpec => []CommittedIsDurable
<1>1. StoreInv /\ ReplayInv => CommittedIsDurable
  BY DEF StoreInv
<1> QED
  BY <1>1, ReplayInvariant, PTL

(* A view that is shown is the state of the run when its events were       *)
(* pinned, and a simulated result the one of the run with these events,    *)
(* whoever writes, backs up, restores and seals in between.                *)
THEOREM AnswersArePinned == ReplaySpec => []AnswersAreOfThePinnedRun
<1>1. StoreInv /\ ReplayInv => AnswersAreOfThePinnedRun
  <2> SUFFICES ASSUME StoreInv, ReplayInv, \A i \in DOMAIN file : file[i].cold,
                      NEW p \in Procs, NEW c \in past, c["events"] = pin[p].events
               PROVE  /\ At(p, "viewed") => proc[p].read = c
                      /\ At(p, "simulated") => pin[p].cassette.semantic = c["effects"]
    BY DEF AnswersAreOfThePinnedRun
  <2>1. AllCold
    BY DEF AllCold, StoreInv, StoreTypes
  <2>2. AskedInv(p) /\ \A d \in past : d["events"] = c["events"] => c = d
    BY <2>1 DEF ReplayInv, StoreInv, PastInv
  <2>3. At(p, "viewed") => proc[p].read = c
    BY <2>2 DEF AskedInv, At
  <2>4. At(p, "simulated") => pin[p].cassette.semantic = c["effects"]
    BY <2>2 DEF AskedInv, At, IsOfThePast
  <2> QED
    BY <2>3, <2>4
<1> QED
  BY <1>1, ReplayInvariant, PTL

=============================================================================
