---------------------------- MODULE MCOwnerStore ----------------------------
(* A small instance of the owner's file and of the replay service. *)
EXTENDS EvidenceReplay, TLC

CONSTANTS p, q

ProcSymmetry == Permutations(Procs)

(* One process asks for a replay at a time, and nobody works with a backup *)
(* then; cassettes are sealed and replayed without one, before or after a  *)
(* restore.                                                                *)
Asking == {x \in Procs : proc[x].pc \in Replaying}
ReplayBound ==
  /\ Asking # {} =>
       /\ Cardinality(Asking) = 1
       /\ \A x \in Procs : proc[x].pc \in {"closed", "open"} \union Opening \union Replaying
       /\ backup = NoBackup \/ backup.manifest
       /\ \A i \in DOMAIN file : file[i].cold
  /\ cassette # NoCassette => backup = NoBackup
=============================================================================
