--------------------------- MODULE ProviderAdmission ---------------------------
(***************************************************************************)
(* Which provider a local read-only run may reach: the command line builds *)
(* a configuration (cli.py), the preflight admits it (local_run.py), the   *)
(* facade acquires the adapter (provider_facade.py), the adapter stages    *)
(* the provider file for the app-server (codex_adapter.py), and the        *)
(* decision is recorded with the owner.                                    *)
(*                                                                         *)
(* The commands are of one case: they share CODEX_HOME, and its            *)
(* config.toml outlives them.  The user edits the provider file at any     *)
(* time.  Of an endpoint it matters whether it is loopback; models, wire   *)
(* formats and credentials are left out, and of the preflight's checks of  *)
(* paths and fixed modes that they may deny.                               *)
(***************************************************************************)
CONSTANTS
  Commands,     \* runs of the command `run'
  Names,        \* what the user may pass as --provider
  Profiles,     \* the provider tables the user may write
  NotStaged     \* there is no config.toml in CODEX_HOME

Endpoints == {"loopback", "remote"}

(* A provider file: the endpoints of its tables. *)
Files == UNION {[P -> Endpoints] : P \in SUBSET Profiles}

ASSUME AdmissionAssumption == "ollama" \notin Profiles /\ NotStaged \notin Files

VARIABLES
  file,      \* the user's provider file
  staged,    \* CODEX_HOME/config.toml
  command    \* each command: its step, configuration, and what it reached

admissionVars == <<file, staged, command>>

Unconfigured ==
  [backend |-> "none", endpoint |-> "none", profile |-> FALSE, gate |-> FALSE,
   authorized |-> {}, path |-> FALSE]

Configuration ==
  [backend : {"ollama", "custom"} \union Profiles, endpoint : Endpoints \union {"invalid"},
   profile : BOOLEAN, gate : BOOLEAN, authorized : SUBSET (Profiles \union Names),
   path : BOOLEAN]

CommandSteps == {"idle", "configured", "admitted", "acquired", "started", "over", "denied"}

AdmissionTypeOK ==
  /\ file \in Files
  /\ staged \in Files \union {NotStaged}
  /\ command \in [Commands ->
       [pc : CommandSteps, config : Configuration \union {Unconfigured},
        reached : Endpoints \union {"nothing"}, recorded : {"none", "real", "baseline"}]]

AdmissionInit ==
  /\ file \in Files
  /\ staged = NotStaged
  /\ command = [c \in Commands |->
       [pc |-> "idle", config |-> Unconfigured, reached |-> "nothing", recorded |-> "none"]]

Proceed(c, step) == command' = [command EXCEPT ![c].pc = step]
Configured(c, config) == command' = [command EXCEPT ![c].pc = "configured", ![c].config = config]

-----------------------------------------------------------------------------
(* The vocabulary: what is not known is the bundled local backend. *)
ModelProvider(name) == IF name \in {"ark", "custom"} THEN "custom" ELSE "ollama"

(* The configuration of a profile that is in the file. *)
ProfileConfig(p, gate) ==
  [backend |-> p, endpoint |-> file[p], profile |-> TRUE, gate |-> gate,
   authorized |-> DOMAIN file, path |-> TRUE]

(* Mutant: the provider file is passed on whether a profile is asked for or not. *)
BaselineWithFile(name, endpoint, gate) ==
  [backend |-> ModelProvider(name), endpoint |-> endpoint, profile |-> FALSE, gate |-> gate,
   authorized |-> {}, path |-> TRUE]

(* Without a profile the identity is what the arguments say. *)
BaselineConfig(name, endpoint, gate) ==
  [backend |-> ModelProvider(name), endpoint |-> endpoint, profile |-> FALSE, gate |-> gate,
   authorized |-> {}, path |-> FALSE]

(* A profile that is not in the file is an invalid configuration. *)
Configure(c) ==
  /\ command[c].pc = "idle"
  /\ \E gate \in BOOLEAN :
       \/ \E p \in Profiles :
            IF p \in DOMAIN file THEN Configured(c, ProfileConfig(p, gate)) ELSE Proceed(c, "denied")
       \/ \E name \in Names, endpoint \in Endpoints \union {"invalid"} :
            Configured(c, BaselineConfig(name, endpoint, gate))
  /\ UNCHANGED <<file, staged>>

(* An endpoint that is not loopback needs a provider that was authorized,  *)
(* by its name, and a profile needs its file and the gate.                 *)
Admissible(config) ==
  /\ config.endpoint # "invalid"
  /\ config.endpoint = "loopback" \/ config.backend \in config.authorized
  /\ config.profile => (config.path /\ config.gate)

Preflight(c) ==
  /\ command[c].pc = "configured"
  /\ \/ Admissible(command[c].config) /\ Proceed(c, "admitted")
     \/ Proceed(c, "denied")
  /\ UNCHANGED <<file, staged>>

(* The facade asks for the gate again. *)
AcquireProvider(c) ==
  /\ command[c].pc = "admitted"
  /\ LET config == command[c].config
     IN Proceed(c, IF config.profile /\ ~config.gate THEN "over" ELSE "acquired")
  /\ UNCHANGED <<file, staged>>

(* The file as it is now is staged, unless one has been before. *)
StageConfig(c) ==
  staged' = IF command[c].config.path /\ staged = NotStaged THEN file ELSE staged

(* The endpoint that the app-server knows for the backend. *)
Backend(tables, name) ==
  IF name = "ollama" THEN "loopback"
  ELSE IF tables # NotStaged /\ name \in DOMAIN tables THEN tables[name] ELSE "nothing"

(* The server is started and reads config.toml; it may fail before a turn. *)
StartServer(c) ==
  /\ command[c].pc = "acquired"
  /\ StageConfig(c)
  /\ \E reached \in {Backend(staged', command[c].config.backend), "nothing"} :
       command' = [command EXCEPT ![c].pc = "started", ![c].reached = reached]
  /\ UNCHANGED file

(* The decision is recorded for every run that was admitted, also when it  *)
(* failed; a process that dies before records nothing.                     *)
RecordDecision(c) ==
  /\ command[c].pc = "started"
  /\ \E recorded \in {IF command[c].config.profile THEN "real" ELSE "baseline", "none"} :
       command' = [command EXCEPT ![c].pc = "over", ![c].recorded = recorded]
  /\ UNCHANGED <<file, staged>>

EditFile ==
  /\ file' \in Files \ {file}
  /\ UNCHANGED <<staged, command>>

AdmissionNext ==
  \/ \E c \in Commands :
       Configure(c) \/ Preflight(c) \/ AcquireProvider(c) \/ StartServer(c) \/ RecordDecision(c)
  \/ EditFile

AdmissionSpec == AdmissionInit /\ [][AdmissionNext]_admissionVars

-----------------------------------------------------------------------------
(* Properties. *)

(* A run reaches a remote provider only in a case in which a run with the  *)
(* gate has been started ("the baseline must never silently reach a real   *)
(* Provider"), whatever was staged or edited in the meantime, and the      *)
(* ledger calls a run baseline only when it was admitted for a loopback    *)
(* endpoint.                                                               *)
GatesExplainRemotes ==
  \A c \in Commands :
    /\ command[c].reached = "remote" =>
         \E d \in Commands : /\ command[d].pc \in {"started", "over"}
                             /\ command[d].config.profile /\ command[d].config.gate
    /\ command[c].recorded = "baseline" => command[c].config.endpoint = "loopback"

-----------------------------------------------------------------------------
(* What docstrings say and the code does not do. *)

(* A run that the ledger calls baseline has reached no remote provider     *)
(* ("the recorded classification faithfully reflects the admitted path").  *)
(* The config.toml an earlier run with the gate has staged stays, and a    *)
(* later run without profile whose provider name is mapped to a table of   *)
(* it reaches that table's endpoint.                                       *)
BaselineReachesNoRemote ==
  \A c \in Commands : command[c].recorded = "baseline" => command[c].reached # "remote"

(* A run reaches the endpoint of its recorded identity, or none: identity  *)
(* and transport are bound to a single source.  The file is read when the  *)
(* run is configured and copied later, and an earlier copy is kept.        *)
ReachedIsRecorded ==
  \A c \in Commands : command[c].reached \in {command[c].config.endpoint, "nothing"}
=============================================================================
