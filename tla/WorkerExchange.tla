---------------------------- MODULE WorkerExchange ----------------------------
(***************************************************************************)
(* What the worker bridge reads from its worker, and what it makes of it   *)
(* (src/zworkbench/worker_bridge.py, subprocess_supervisor.py and the      *)
(* contract in worker_contract.py): handshake and read_only_coding from    *)
(* the first line on the worker's stdout to the accepted result.           *)
(*                                                                         *)
(* The worker says lines and writes files as it likes; processes it leaves *)
(* behind go on writing.  Here the thread of the operation is alone with   *)
(* the worker: what stops it from outside (a cancellation, a lost          *)
(* heartbeat, the deadline) is the action Interrupt, and WorkerBridge has  *)
(* the interleavings of these.                                             *)
(***************************************************************************)
EXTENDS WorkerContract

CONSTANTS
  Attempts,        \* the attempts callers may name: each a child run of its own.
                   \* _require_text refuses a blank name; one called "unknown" is
                   \* a name the contract takes for a missing one
  NoAttempt,
  ArtifactNames,   \* the artifacts a coding result must name
  Paths,           \* files under the artifact root
  Undeclared,      \* what the bridge itself is declared without: its constructor takes
                   \* the digest "unknown" like any other text that is not blank
  RecoveryMode,    \* the bridge's recovery_mode flag
  RetryCeiling,    \* the declared budget of the worker's attempts
  LineLimit,       \* bound: lines a worker says in one attempt
  FaultLimit,      \* bound: things workers do that they should not
  Flaws            \* bound: defects, fields and types that wrong lines come with

ASSUME ExchangeAssumption ==
  /\ NoAttempt \notin Attempts
  /\ \A a \in Attempts : ~IsMissing(a)
  /\ Undeclared \subseteq ProvenanceFields \ {"replay_mode"}
  /\ RecoveryMode \in BOOLEAN
  /\ {RetryCeiling, LineLimit, FaultLimit} \subseteq Nat

VARIABLES
  schema,     \* the name in the bridge's worker_schema_identity
  parent,     \* the parent run
  turn,       \* where the operation is, its kind, attempt and error
  charged,    \* consumptions of the worker's retry budget
  worker,     \* the process: none, up, exited (code 0) or crashed
  helpers,    \* a process of the worker's: in its group, out of it, or gone
  said,       \* the lines on the worker's stdout
  taken,      \* how many of them the read loop has taken
  answers,    \* the messages it has made of them
  files,      \* the artifact root: the content of each file, or "absent"
  workspace,  \* the workspace against the snapshot taken before the worker, which
              \* has the content of its files: links, directories and modes are
              \* not seen, and a change of those alone leaves it "own"
  verified,   \* artifacts whose file has been compared with its digest
  outcome,    \* what the operation of each attempt came to
  faults      \* how often a worker did what it should not

vars == <<schema, parent, turn, charged, worker, helpers, said, taken, answers, files,
          workspace, verified, outcome, faults>>

Idle == [pc |-> "idle", kind |-> "handshake", attempt |-> NoAttempt, error |-> "none"]
Contents == {"claimed", "altered"}
InGroup == {"in the group", "in the group with stdout"}
HelperKinds == InGroup \union {"escaped", "escaped with stdout"}
CutLine == [type |-> "cut"]
EmptyLine == [type |-> "empty"]
LongLine == [type |-> "long"]   \* over MAX_WORKER_LINE_BYTES

ExchangeTypeOK ==
  /\ schema \in {"codex-app-server", "codex-app-server-fixture"}
  /\ parent \in {"running", "recovering", "stopped"}
  /\ turn.pc \in {"idle", "created", "reading", "ended", "exited", "greeted", "checking",
                  "clean", "unchanged", "recording", "accepted", "failing"}
  /\ turn.kind \in {"handshake", "read_only_coding"}
  /\ turn.attempt \in Attempts \union {NoAttempt}
  /\ charged \in 0..RetryCeiling
  /\ worker \in {"none", "up", "exited", "crashed"}
  /\ helpers \subseteq HelperKinds \union {"gone"}
  /\ taken \in 0..Len(said) /\ Len(said) <= LineLimit
  /\ files \in [Paths -> Contents \union {"absent"}]
  /\ workspace \in {"own", "changed"}
  /\ verified \subseteq ArtifactNames
  /\ outcome \in [Attempts -> {"none", "refused", "accepted"}]
  /\ faults \in 0..FaultLimit

ExchangeInit ==
  /\ schema \in {"codex-app-server", "codex-app-server-fixture"}
  /\ parent = "running"
  /\ turn = Idle
  /\ charged = 0
  /\ worker = "none" /\ helpers = {}
  /\ said = <<>> /\ taken = 0 /\ answers = <<>>
  /\ files = [p \in Paths |-> "absent"] /\ workspace = "own"
  /\ verified = {}
  /\ outcome = [a \in Attempts |-> "none"]
  /\ faults = 0

-----------------------------------------------------------------------------
(* Helpers. *)

At(step) == turn.pc = step
Goto(step) == turn' = [turn EXCEPT !.pc = step]
Fail(error) == turn' = [turn EXCEPT !.pc = "failing", !.error = error]
Proceed(code, step) == IF code = "ok" THEN Goto(step) ELSE Fail(code)

Codex == CodexIdentityRequired(schema)
Expected == IF turn.kind = "handshake" THEN 1 ELSE 2
Written == {p \in Paths : files[p] # "absent"}
Escaped == helpers \ InGroup

world == <<schema, parent, charged, outcome>>
output == <<worker, helpers, said, files, workspace, faults>>

(* The identity of an attempt's messages: all of its names are its own. *)
IdentityOf(attempt, codex) ==
  [f \in IdentityFields |-> IF f \in ConditionalFields THEN codex ELSE attempt]

(* Provider, components, digests and replay mode, as the bridge was given  *)
(* them.                                                                   *)
Declared == [f \in ProvenanceFields |-> IF f \in Undeclared THEN "unknown" ELSE "own"]

Message(type, identity, artifacts) ==
  [type |-> type, identity |-> identity, artifacts |-> artifacts, defects |-> {},
   provenance |-> Declared]

-----------------------------------------------------------------------------
(* The worker and the processes it starts. *)

CodexName == IF Codex THEN "this turn" ELSE "unknown"

Greeting(attempt) ==
  Message("handshake.response", IdentityOf(attempt, CodexName), <<>>)

Results(attempt) ==
  {Message("result", IdentityOf(attempt, CodexName), claim) :
     claim \in [ArtifactNames -> Paths]}

(* The checks of a result's payload, up to the files it names. *)
PayloadChecks == <<
  <<"credential value", "worker_output_credential_forbidden">>,
  <<"payload field", "coding_payload_unknown">>,
  <<"status", "coding_status_invalid">>,
  <<"part no object", "coding_payload_invalid">>,
  <<"artifact set", "coding_artifacts_incomplete">>,
  <<"descriptor no object", "coding_artifact_invalid">>,
  <<"descriptor field", "coding_artifact_unknown">>,
  <<"path absolute", "coding_artifact_path_invalid">>,
  <<"digest no sha256", "coding_artifact_digest_invalid">>,
  <<"bytes negative", "coding_artifact_bytes_invalid">> >>

(* One thing is wrong with it. *)
Deviations(m) ==
  {[m EXCEPT !.defects = {d}] :
     d \in Flaws \cap {c[1] : c \in ToSet(EnvelopeChecks \o PayloadChecks)}}
  \union {[m EXCEPT !.identity[f] = v] :
            f \in Flaws \cap IdentityFields, v \in Attempts \union {"unknown", "another turn"}}
  \union {[m EXCEPT !.provenance[f] = "other"] : f \in Flaws \cap ProvenanceFields}
  \union {[m EXCEPT !.type = t] : t \in (Flaws \cap MessageTypes) \ {"handshake.response", "result"}}

(* The line that is due, and the lines that are not: one in the wrong      *)
(* place, one of another attempt, one with something wrong, or no message. *)
Due ==
  CASE said = <<>> -> {Greeting(turn.attempt)}
    [] Len(said) = 1 /\ turn.kind = "read_only_coding" -> Results(turn.attempt)
    [] OTHER -> {}

Wrong ==
  LET proper == {Greeting(turn.attempt)} \union Results(turn.attempt)
  IN  (proper \union (UNION {Deviations(m) : m \in proper})
         \union {CutLine, EmptyLine, LongLine}) \ Due

HoldsStdout == worker = "up" \/ helpers \cap {"in the group with stdout", "escaped with stdout"} # {}
Misbehaves == faults < FaultLimit /\ faults' = faults + 1

Say(line) ==
  /\ worker = "up"
  /\ Len(said) < LineLimit
  /\ said # <<>> => said[Len(said)] # CutLine
  /\ said' = Append(said, line)
  /\ UNCHANGED <<world, turn, worker, helpers, taken, answers, files, workspace, verified>>

SayProperly == (\E m \in Due : Say(m)) /\ UNCHANGED faults

SayWrongly ==
  /\ Misbehaves
  /\ \E line \in Wrong : Say(line)

(* The worker writes its files before it speaks; what changes them later   *)
(* is Meddle.                                                              *)
WriteArtifact ==
  /\ worker = "up" /\ said = <<>>
  /\ \E p \in Paths : files' = [files EXCEPT ![p] = "claimed"]
  /\ UNCHANGED <<world, turn, worker, helpers, said, taken, answers, workspace, verified, faults>>

(* An artifact is changed or the workspace touched, by any process left. *)
Meddle ==
  /\ ~At("idle") /\ (worker = "up" \/ helpers \notin {{}, {"gone"}})
  /\ Misbehaves
  /\ \/ (\E p \in Paths : files' = [files EXCEPT ![p] = "altered"]) /\ UNCHANGED workspace
     \/ workspace' = "changed" /\ UNCHANGED files
  /\ UNCHANGED <<world, turn, worker, helpers, said, taken, answers, verified>>

SpawnHelper ==
  /\ worker = "up" /\ helpers = {}
  /\ \E h \in HelperKinds : helpers' = {h}
  /\ UNCHANGED <<world, turn, worker, said, taken, answers, files, workspace, verified, faults>>

(* One that had left the group may have written what it wanted before. *)
HelperEnds ==
  /\ helpers \notin {{}, {"gone"}}
  /\ helpers' = IF helpers \subseteq InGroup THEN {} ELSE {"gone"}
  /\ UNCHANGED <<world, turn, worker, said, taken, answers, files, workspace, verified, faults>>

WorkerExits ==
  /\ worker = "up"
  /\ \/ worker' = "exited" /\ UNCHANGED faults
     \/ worker' = "crashed" /\ Misbehaves
  /\ UNCHANGED <<world, turn, helpers, said, taken, answers, files, workspace, verified>>

-----------------------------------------------------------------------------
(* Before the worker: handshake, read_only_coding and their recovery. *)

(* The attempt is charged to the budget before the parent is looked at.    *)
(* The other preconditions (the sandbox attestation, the prompt, the       *)
(* directories) are refused before and leave everything as it is.          *)
Admit(kind, attempt) ==
  /\ At("idle")
  /\ outcome[attempt] = "none"
  /\ charged < RetryCeiling
  /\ charged' = charged + 1
  /\ IF parent = "running"
     THEN turn' = [pc |-> "created", kind |-> kind, attempt |-> attempt, error |-> "none"]
     ELSE UNCHANGED turn
  /\ UNCHANGED <<schema, parent, outcome, output, taken, answers, verified>>

(* A coding worker must find an empty artifact root. *)
Spawn ==
  /\ At("created")
  /\ IF turn.kind = "read_only_coding" /\ Written # {}
     THEN Fail("artifact_root_not_empty") /\ UNCHANGED worker
     ELSE \/ worker' = "up" /\ Goto("reading")
          \/ UNCHANGED worker /\ Fail("worker_start_failed")
  /\ UNCHANGED <<world, helpers, said, taken, answers, files, workspace, verified, faults>>

Recover ==
  /\ At("idle")
  /\ parent = "recovering"
  /\ \E a \in Attempts : outcome[a] = "refused"
  /\ parent' = "running"
  /\ UNCHANGED <<schema, charged, outcome, turn, output, taken, answers, verified>>

-----------------------------------------------------------------------------
(* The read loop: LineStreamSupervisor.read and on_line. *)

(* A cut line stays in the buffer until its end arrives. *)
Whole == IF said # <<>> /\ said[Len(said)] = CutLine THEN Len(said) - 1 ELSE Len(said)
Pending == SubSeq(said, taken + 1, Whole)

OnLine(line, before) ==
  IF line = LongLine THEN "message_too_large"
  ELSE IF line = EmptyLine THEN "empty_line"
  ELSE IF before >= Expected THEN "extra_message"
  ELSE Construct(line)

(* One os.read brings any number of lines.  The bound on the size of one   *)
(* line is put to all that the buffer holds.                               *)
ReadBurst ==
  /\ At("reading")
  /\ \E n \in 1..Len(Pending) :
       LET burst == SubSeq(Pending, 1, n)
           code(i) == OnLine(burst[i], Len(answers) + i - 1)
           bad == {i \in 1..n : code(i) # "ok"}
       IN  \/ /\ n > 1 \/ bad # {}
              /\ Fail(IF bad = {} THEN "message_too_large" ELSE code(Min(bad)))
              /\ UNCHANGED <<taken, answers>>
           \/ /\ bad = {}
              /\ answers' = answers \o burst
              /\ taken' = taken + n
              /\ UNCHANGED turn
  /\ UNCHANGED <<world, output, verified>>

(* Nobody holds the stream any more and everything has been read. *)
ReadEnd ==
  /\ At("reading")
  /\ ~HoldsStdout /\ Pending = <<>>
  /\ IF taken < Len(said) THEN Fail("incomplete_jsonl") ELSE Goto("ended")
  /\ UNCHANGED <<world, output, taken, answers, verified>>

(* The deadline passes, somebody stops the operation, stderr is too long   *)
(* or looks like a credential; at the end also a refusal by the owner.     *)
Interrupts == {"worker_timeout", "interrupted"}
Interrupt ==
  /\ At("reading") \/ At("ended") \/ At("recording")
  /\ \E error \in Interrupts : Fail(error)
  /\ UNCHANGED <<world, output, taken, answers, verified>>

SequenceCode ==
  IF Len(answers) < Expected
  THEN IF worker = "crashed" THEN "worker_exit_nonzero" ELSE "response_missing"
  ELSE IF /\ turn.kind = "read_only_coding"
          /\ answers[1].type # "handshake.response" \/ answers[2].type # "result"
       THEN "coding_extra_message"
  ELSE IF worker = "crashed" THEN "worker_exit_nonzero" ELSE "ok"

(* Mutant: the exit code is collected and the group left alone. *)
CollectExitOnly ==
  /\ At("ended")
  /\ Proceed(SequenceCode, "exited")
  /\ UNCHANGED <<world, output, taken, answers, verified>>

(* The exit is collected, and what is left of the group killed. *)
CollectExit ==
  /\ At("ended")
  /\ Proceed(SequenceCode, "exited")
  /\ helpers' = Escaped
  /\ UNCHANGED <<world, worker, said, files, workspace, taken, answers, verified, faults>>

-----------------------------------------------------------------------------
(* _validate_response and _validate_coding_result. *)

Matches(m, identity, fields) == \A f \in fields : m.identity[f] = identity[f]
OfThisRequest(m) == \A f \in ProvenanceFields : m.provenance[f] = Declared[f]

(* Mutant: the request knows no Codex identity, the response must know none. *)
AllHandshakeFields == IdentityFields \ {"event_id"}

(* The Codex identity is the worker's to name, and then to keep.  A message *)
(* has an event id of its own, and a result any artifact id.               *)
HandshakeFields == RequiredFields \ {"event_id"}

CodingFields == IdentityFields \ {"event_id", "artifact_id"}

ResponseCode(m) ==
  IF m.type # "handshake.response" THEN "handshake_message_invalid"
  ELSE IF ~Codex /\ FabricatedCodexFields(m.identity) # {} THEN "codex_identity_fabricated"
  ELSE IF ~IsCompleteFor(m.identity, Codex) THEN "handshake_identity_incomplete"
  ELSE IF ~Matches(m, IdentityOf(turn.attempt, "unknown"), HandshakeFields)
  THEN "handshake_identity_mismatch"
  ELSE IF ~OfThisRequest(m) THEN "handshake_provenance_mismatch"
  ELSE IF m.defects # {} THEN "handshake_status_invalid" ELSE "ok"

(* Mutant: what agrees with the greeting is taken for complete. *)
ResultCodeByGreeting(m, greeting) ==
  IF ~Matches(m, greeting.identity, CodingFields) THEN "coding_identity_mismatch"
  ELSE IF ~OfThisRequest(m) THEN "coding_provenance_mismatch"
  ELSE FirstFailure(PayloadChecks, m.defects)

ResultCode(m, greeting) ==
  IF ~Codex /\ FabricatedCodexFields(m.identity) # {} THEN "codex_identity_fabricated"
  ELSE IF ~IsCompleteFor(m.identity, Codex) THEN "coding_identity_incomplete"
  ELSE IF ~Matches(m, greeting.identity, CodingFields) THEN "coding_identity_mismatch"
  ELSE IF ~OfThisRequest(m) THEN "coding_provenance_mismatch"
  ELSE FirstFailure(PayloadChecks, m.defects)

ValidateResponse ==
  /\ At("exited")
  /\ Proceed(ResponseCode(answers[1]),
             IF turn.kind = "handshake" THEN "recording" ELSE "greeted")
  /\ UNCHANGED <<world, output, taken, answers, verified>>

ValidateCodingResult ==
  /\ At("greeted")
  /\ Proceed(ResultCode(answers[2], answers[1]), "checking")
  /\ UNCHANGED <<world, output, taken, answers, verified>>

(* Each file is read and compared with what the result says of it. *)
CheckArtifact ==
  /\ At("checking")
  /\ \E name \in ArtifactNames \ verified :
       IF files[answers[2].artifacts[name]] = "claimed"
       THEN verified' = verified \union {name} /\ UNCHANGED turn
       ELSE Fail("coding_artifact_digest_mismatch") /\ UNCHANGED verified
  /\ UNCHANGED <<world, output, taken, answers>>

AssertClean ==
  /\ At("checking") /\ verified = ArtifactNames
  /\ Goto("clean") \/ Fail("worker_cleanup_unverified")
  /\ UNCHANGED <<world, output, taken, answers, verified>>

CompareWorkspace ==
  /\ At("clean")
  /\ IF workspace = "own" THEN Goto("unchanged") ELSE Fail("coding_workspace_changed")
  /\ UNCHANGED <<world, output, taken, answers, verified>>

Claimed == {answers[2].artifacts[name] : name \in ArtifactNames}

ComparePaths ==
  /\ At("unchanged")
  /\ IF Written = Claimed THEN Goto("recording") ELSE Fail("coding_artifact_set_mismatch")
  /\ UNCHANGED <<world, output, taken, answers, verified>>

-----------------------------------------------------------------------------
(* The end of an operation. *)

Complete ==
  /\ At("recording")
  /\ outcome' = [outcome EXCEPT ![turn.attempt] = "accepted"]
  /\ Goto("accepted")
  /\ UNCHANGED <<schema, parent, charged, output, taken, answers, verified>>

Recoverable == {"worker_timeout", "worker_exit_nonzero"}

(* What the call knows of its worker's output goes with it. *)
CallReturns ==
  /\ turn' = Idle
  /\ said' = <<>> /\ taken' = 0 /\ answers' = <<>>
  /\ workspace' = "own" /\ verified' = {}

(* The process is stopped and the failure accounted for (_record_failure). *)
(* The parent goes on only when the worker's end was also verified clean;  *)
(* otherwise it is failed, whatever the error.                             *)
AccountFailure ==
  /\ At("failing")
  /\ outcome' = [outcome EXCEPT ![turn.attempt] = "refused"]
  /\ \/ parent' = "stopped"
     \/ RecoveryMode /\ turn.error \in Recoverable /\ parent' = "recovering"
  /\ worker' = "none" /\ helpers' = Escaped
  /\ CallReturns
  /\ UNCHANGED <<schema, charged, files, faults>>

Close ==
  /\ At("accepted")
  /\ worker' = "none"
  /\ CallReturns
  /\ UNCHANGED <<world, helpers, files, faults>>

ExchangeNext ==
  \/ \E kind \in {"handshake", "read_only_coding"}, a \in Attempts : Admit(kind, a)
  \/ Spawn \/ Recover
  \/ ReadBurst \/ ReadEnd \/ Interrupt \/ CollectExit
  \/ ValidateResponse \/ ValidateCodingResult
  \/ CheckArtifact \/ AssertClean \/ CompareWorkspace \/ ComparePaths
  \/ Complete \/ AccountFailure \/ Close
  \/ SayProperly \/ SayWrongly \/ WriteArtifact \/ Meddle \/ SpawnHelper \/ HelperEnds \/ WorkerExits

ExchangeSpec == ExchangeInit /\ [][ExchangeNext]_vars

-----------------------------------------------------------------------------
(* Properties. *)

(* What a worker should say: a response of this attempt and, to a coding   *)
(* request, a result of the same Codex turn.  Event ids are not compared,  *)
(* nor is the artifact id of a result.                                     *)
Renamed(m, fields, identity) ==
  [m EXCEPT !.identity = [f \in IdentityFields |->
     IF f \in fields /\ ~IsMissing(identity[f]) THEN identity[f] ELSE @[f]]]

OwnNames == IF Codex THEN ConditionalFields ELSE {}

IsGreeting(m) ==
  m = Renamed(Greeting(turn.attempt), {"event_id"} \union OwnNames, m.identity)

IsResultAfter(m, greeting) ==
  /\ \A f \in ConditionalFields : m.identity[f] = greeting.identity[f]
  /\ \E r \in Results(turn.attempt) :
       m = Renamed(r, {"event_id", "artifact_id"} \union OwnNames, m.identity)

(* Both lines are messages: the other lines have no identity. *)
Messages(lines) == \A i \in DOMAIN lines : lines[i] \notin {CutLine, EmptyLine, LongLine}

SaidProperly ==
  /\ Len(said) = Expected /\ Messages(said)
  /\ IsGreeting(said[1])
  /\ turn.kind = "read_only_coding" => IsResultAfter(said[2], said[1])

LeftProperly ==
  turn.kind = "read_only_coding" =>
    /\ workspace = "own"
    /\ Written = {said[2].artifacts[name] : name \in ArtifactNames}
    /\ \A p \in Written : files[p] = "claimed"

(* An accepted turn is one where the worker exited with code 0, said its   *)
(* response and its result of this attempt and nothing else, before or     *)
(* after, in whatever bursts they came, and left exactly the files of the  *)
(* result, with their digests, and the workspace as it was, both as the    *)
(* snapshot sees them: plain files and their content.  A process that left *)
(* the worker's group may still write, and then the files are those that   *)
(* were checked and no more.                                               *)
OnlyProperTurnsAreAccepted ==
  At("accepted") =>
    /\ worker = "exited"
    /\ SaidProperly
    /\ Escaped = {} => LeftProperly

(* A turn in which the worker did all it should is refused only for        *)
(* something else: it was interrupted, the worker could not be started,    *)
(* its cleanup not be verified, or its lines came in one burst that        *)
(* together exceeds the bound on one line.                                 *)
Excuses == Interrupts \union
  {"artifact_root_not_empty", "worker_start_failed", "worker_cleanup_unverified",
   "message_too_large"}

RefusalsHaveAReason ==
  At("failing") /\ turn.error \notin Excuses /\ Escaped = {} =>
    ~(worker = "exited" /\ SaidProperly /\ LeftProperly)

(* Two places decide what a complete result is: the bridge, in line, and   *)
(* validate_worker_completion, which no code calls on the way.  A result   *)
(* the bridge has accepted is one that validate_worker_completion lets     *)
(* complete a run, whatever names the worker and its greeting had; all     *)
(* that it can still miss is what the bridge was itself declared without.  *)
AcceptedResultsMayComplete ==
  At("accepted") /\ turn.kind = "read_only_coding" =>
    /\ MissingCompletionFields(answers[2], Codex) \subseteq Undeclared
    /\ Undeclared = {} => ValidateWorkerCompletion(answers[2], Codex) = "ok"
    /\ ~Codex => FabricatedCodexFields(answers[2].identity) = {}

(* A worker is refused for the size of its message only when a message of  *)
(* it is over the bound ("Worker coding message exceeds size limit"): the  *)
(* bound is put to what one read finds in the buffer.                      *)
TooLargeMeansALongLine ==
  At("failing") /\ turn.error = "message_too_large" =>
    \E i \in DOMAIN said : said[i] = LongLine
=============================================================================
