---------------------------- MODULE EvidenceReplay ----------------------------
(***************************************************************************)
(* The replay service over the durable owner (replay.py): recorded_view,   *)
(* simulated_replay and live_replay, by processes that share the database  *)
(* of OwnerStore with writers, backups and restores.                       *)
(*                                                                         *)
(* A caller pins the digest of a run's events and asks later.  The service *)
(* has no transaction: get_run is a SELECT for each table and the events   *)
(* are another one, and what it answers is put together from them.  A      *)
(* cassette is a file that a caller seals from an earlier view.            *)
(*                                                                         *)
(* Identities that are incomplete and files that are no cassette of this   *)
(* schema are refused before anything is read, and left out.               *)
(***************************************************************************)
EXTENDS OwnerStore

VARIABLES
  pin,        \* by process: the events it has pinned, and the cassette
  cassette    \* the file of the cassette

replayVars == <<storeVars, pin, cassette>>

NoCassette == [events |-> NoContent, semantic |-> NoContent]
Sealed == [events : 0..WriteLimit, semantic : 0..WriteLimit]
NoPin == [events |-> NoContent, cassette |-> NoCassette]

ReplayTypeOK ==
  /\ StoreTypeOK
  /\ pin \in [Procs -> [events : (0..WriteLimit) \union {NoContent},
                       cassette : Sealed \union {NoCassette}]]
  /\ cassette \in Sealed \union {NoCassette}
  /\ \A p \in Procs : proc[p].pc \notin Replaying => pin[p] = NoPin

ReplayInit ==
  /\ StoreInit
  /\ pin = [p \in Procs |-> NoPin]
  /\ cassette = NoCassette

Answer(p, pc) ==
  /\ proc' = [proc EXCEPT ![p].pc = pc, ![p].read = IF pc = "open" THEN Nothing ELSE @]
  /\ pin' = IF pc = "open" THEN [pin EXCEPT ![p] = NoPin] ELSE pin

-----------------------------------------------------------------------------
(* recorded_view. *)

(* The pinned digest is one that somebody has taken of the events, at any  *)
(* time until now.                                                         *)
AskForView(p) ==
  /\ At(p, "open")
  /\ \E c \in past : pin' = [pin EXCEPT ![p].events = c["events"]]
  /\ proc' = [proc EXCEPT ![p].pc = "viewing"]
  /\ UNCHANGED <<file, log, writes, backup, past, report, cassette>>

(* Mutant: the events are compared first. *)
EventsFirst == <<"events", "runs", "effects">>

(* The run, its effects and results, and then its events. *)
ViewOrder == <<"runs", "effects", "events">>

(* The events decide: when they are not the pinned ones, the answer is     *)
(* unknown and shows nothing.                                              *)
ViewTable(p) ==
  /\ At(p, "viewing")
  /\ LET next == ViewOrder[Cardinality(DOMAIN proc[p].read) + 1]
         seen == View(p)[next]
         read == [t \in DOMAIN proc[p].read \union {next} |->
                    IF t = next THEN seen ELSE proc[p].read[t]]
     IN IF next = "events" /\ seen # pin[p].events
        THEN Answer(p, "open")
        ELSE /\ proc' = [proc EXCEPT ![p].read = read,
                                     ![p].pc = IF DOMAIN read = Tables THEN "viewed" ELSE @]
             /\ UNCHANGED pin
  /\ UNCHANGED <<file, log, writes, backup, past, report, cassette>>

(* The caller takes the answer, and may seal a cassette from it. *)
TakeView(p) ==
  /\ At(p, "viewed")
  /\ Answer(p, "open")
  /\ \/ cassette' = [events |-> proc[p].read["events"], semantic |-> proc[p].read["effects"]]
     \/ UNCHANGED cassette
  /\ UNCHANGED <<file, log, writes, backup, past, report>>

-----------------------------------------------------------------------------
(* simulated_replay and live_replay. *)

(* The pinned identity names the digest of a cassette that has been sealed. *)
AskForReplay(p) ==
  /\ At(p, "open") /\ cassette # NoCassette
  /\ pin' = [pin EXCEPT ![p] = [events |-> cassette.events, cassette |-> cassette]]
  /\ proc' = [proc EXCEPT ![p].pc = "loading"]
  /\ UNCHANGED <<file, log, writes, backup, past, report, cassette>>

(* The file is read and its digest compared; another cassette may have     *)
(* been sealed in its place since.                                         *)
LoadCassette(p) ==
  /\ At(p, "loading")
  /\ Answer(p, IF cassette = pin[p].cassette THEN "loaded" ELSE "open")
  /\ UNCHANGED <<file, log, writes, backup, past, report, cassette>>

(* The source run must still have the pinned events.  A simulated replay   *)
(* answers with the result in the cassette, a live one is denied.          *)
ValidateSource(p) ==
  /\ At(p, "loaded")
  /\ IF View(p)["events"] = pin[p].events
     THEN Answer(p, "simulated") \/ Answer(p, "denied")
     ELSE Answer(p, "open")
  /\ UNCHANGED <<file, log, writes, backup, past, report, cassette>>

TakeReplay(p) ==
  /\ proc[p].pc \in {"simulated", "denied"}
  /\ Answer(p, "open")
  /\ UNCHANGED <<file, log, writes, backup, past, report, cassette>>

-----------------------------------------------------------------------------
ReplayStep(p) ==
  \/ AskForView(p) \/ ViewTable(p) \/ TakeView(p)
  \/ AskForReplay(p) \/ LoadCassette(p) \/ ValidateSource(p) \/ TakeReplay(p)

(* A process that dies forgets what it was asked. *)
StoreOnly ==
  /\ StoreNext
  /\ pin' = [p \in Procs |-> IF proc'[p].file = NoFile THEN NoPin ELSE pin[p]]
  /\ UNCHANGED cassette

ReplayNext == StoreOnly \/ \E p \in Procs : ReplayStep(p)

ReplaySpec == ReplayInit /\ [][ReplayNext]_replayVars

-----------------------------------------------------------------------------
(* Properties. *)

(* What a recorded view shows is the state of the run when its events were *)
(* pinned, and no other, although it is read table by table among writers: *)
(* every transaction on a run appends an event, and the events are read    *)
(* last.  The result of a simulated replay is the one the source run had   *)
(* with the pinned events, whatever has been sealed in the meantime.  A    *)
(* restore over an open or crashed owner mixes two files: the answers      *)
(* after one are left out.                                                 *)
AnswersAreOfThePinnedRun ==
  (\A i \in DOMAIN file : file[i].cold) =>
    \A p \in Procs : \A c \in past :
      c["events"] = pin[p].events =>
        /\ At(p, "viewed") => proc[p].read = c
        /\ At(p, "simulated") => pin[p].cassette.semantic = c["effects"]
=============================================================================
