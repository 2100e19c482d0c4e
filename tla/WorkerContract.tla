---------------------------- MODULE WorkerContract ----------------------------
(***************************************************************************)
(* The wire contract between the bridge and a worker                       *)
(* (src/zworkbench/worker_contract.py): which messages can be constructed  *)
(* at all, when an identity is complete and when a result may complete a   *)
(* run.  CapabilityFacade, which nothing in the source calls, is left out. *)
(*                                                                         *)
(* A message keeps apart what these decisions tell apart.  Its identity    *)
(* and its provenance are functions on the contract's field names; what    *)
(* else can be wrong with it (a field too many, a value that is no JSON, a *)
(* field named like a credential) is a set of named defects.               *)
(***************************************************************************)
EXTENDS Naturals, Sequences, SequencesExt

CodexWorkerSchemaNames == {"codex-app-server"}
MessageTypes == {"handshake.request", "handshake.response", "capability.request",
                 "capability.response", "event", "result", "cancel", "error"}

RequiredFields == {"parent_run_id", "child_run_id", "attempt_id", "dsh_session_id",
                   "dsh_turn_id", "worker_run_id", "event_id", "artifact_id"}
ConditionalFields == {"codex_thread_id", "codex_turn_id"}
IdentityFields == RequiredFields \union ConditionalFields

(* provider, artifact and schema identities, the digests and replay_mode. *)
ProvenanceFields == {"provider", "artifact", "schema", "replay_mode",
                     "policy", "environment", "workspace"}

-----------------------------------------------------------------------------
(* Construction: IdentityChain, ProviderIdentity, ComponentIdentity,       *)
(* CapabilityRequest and WorkerEnvelope, from_json to __post_init__.       *)

(* What can be wrong with each part of a line, in the order in which it is *)
(* looked at, with the code of the error.  Its class is left out.          *)
LineChecks == <<
  <<"not JSON", "invalid_json">>,
  <<"not an object", "invalid_object">>,
  <<"field too many", "unknown_wire_field">>,
  <<"field missing", "envelope_shape_incomplete">> >>

IdentityChecks == <<
  <<"identity field too many", "unknown_identity_field">>,
  <<"identity field missing", "identity_shape_incomplete">>,
  <<"identity blank", "invalid_text">> >>

ProviderChecks == <<
  <<"provider field missing", "provider_identity_incomplete">>,
  <<"provider field too many", "unknown_provider_identity_field">>,
  <<"provider blank", "invalid_text">>,
  <<"provider names a credential", "credential_value_forbidden">> >>

ComponentChecks == <<
  <<"component shape", "component_identity_shape_invalid">>,
  <<"component blank", "invalid_text">> >>

RequestChecks == <<
  <<"request shape", "capability_request_shape_invalid">>,
  <<"permissions no array", "invalid_permissions">>,
  <<"request blank", "invalid_text">>,
  <<"permission twice", "duplicate_permission">>,
  <<"request names a credential", "credential_value_forbidden">> >>

FieldChecks == <<
  <<"schema", "unsupported_schema">>,
  <<"message type", "unknown_wire_message">>,
  <<"replay mode", "unknown_replay_mode">>,
  <<"digest blank", "invalid_text">>,
  <<"payload no object", "invalid_object">>,
  <<"payload names a credential", "credential_value_forbidden">>,
  <<"request missing", "capability_request_required">>,
  <<"request unexpected", "capability_request_unexpected">> >>

EnvelopeChecks ==
  LineChecks \o IdentityChecks \o ProviderChecks \o ComponentChecks
  \o RequestChecks \o FieldChecks

(* The code of the first check that fails, "ok" when none does. *)
FirstFailure(checks, defects) ==
  LET i == SelectInSeq(checks, LAMBDA c : c[1] \in defects)
  IN  IF i = 0 THEN "ok" ELSE checks[i][2]

Construct(message) == FirstFailure(EnvelopeChecks, message.defects)

-----------------------------------------------------------------------------
(* Layered completeness (ADR 0011). *)

IsMissing(value) == value \in {"unknown", "blank"}
MissingOf(identity, fields) == {f \in fields : IsMissing(identity[f])}

CodexIdentityRequired(schema) == schema \in CodexWorkerSchemaNames

FabricatedCodexFields(identity) ==
  ConditionalFields \ MissingOf(identity, ConditionalFields)

IsCompleteFor(identity, codex) ==
  /\ MissingOf(identity, RequiredFields) = {}
  /\ codex => MissingOf(identity, ConditionalFields) = {}

MissingCompletionFields(message, codex) ==
  MissingOf(message.identity, RequiredFields)
  \union (IF codex THEN MissingOf(message.identity, ConditionalFields) ELSE {})
  \union {f \in ProvenanceFields : message.provenance[f] = "unknown"}

(* A result that may complete a run, or the code of the refusal. *)
ValidateWorkerCompletion(message, codex) ==
  IF message.type # "result" \/ "status" \in message.defects
  THEN "completion_blocked"
  ELSE IF ~codex /\ FabricatedCodexFields(message.identity) # {}
  THEN "codex_identity_fabricated"
  ELSE IF MissingCompletionFields(message, codex) # {}
  THEN "completion_blocked" ELSE "ok"

=============================================================================
