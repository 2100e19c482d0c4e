--------------------------- MODULE AppServerSession ---------------------------
(***************************************************************************)
(* The session of the Codex adapter with its app-server (codex_adapter.py, *)
(* and terminate_process of subprocess_supervisor.py): JSON-RPC lines over *)
(* pipes, one request at a time, one turn per call of execute, any number  *)
(* of calls over one adapter.  Executions has the calls of several         *)
(* adapters and their owner; here one call is taken apart.                 *)
(*                                                                         *)
(* A call's run, thread and turn share a number: execute starts one of     *)
(* each.  The server is free to answer late or never, to ask the client,   *)
(* to die in the middle of a line, and to leave a helper process that      *)
(* holds its pipes.  A pipe that is full blocks whoever writes to it: the  *)
(* server, which then may not read, and the adapter, whose writes have no  *)
(* deadline.                                                               *)
(***************************************************************************)
EXTENDS Naturals, Sequences

CONSTANTS
  CallLimit,    \* calls of execute
  PipeLimit     \* lines the server's stdout holds

ASSUME SessionAssumption == CallLimit \in Nat \ {0} /\ PipeLimit \in Nat \ {0}

VARIABLES
  server,    \* the process the adapter has recorded
  helper,    \* a child of the server that holds its pipes, and where it runs
  pipe,      \* the server's stdout, with what of it waits in stdout_buffer
  watched,   \* is the stdout of a server that was replaced still registered?
  lease,     \* is the slot in the registry of resident services held?
  call,      \* the adapter's thread
  seen,      \* turn/completed messages among self.messages
  text,      \* _agent_text: does it hold what was said in the call's turn?
  run,       \* the status of the call's run
  turn,      \* at the server: how far each turn is
  said,      \* at the server: has the agent said its message in that turn?
  asked      \* at the server: requests it has sent to the client

server_ == <<server, helper, pipe>>
client_ == <<watched, lease, call, seen, text>>
turn_ == <<turn, said, asked>>
vars == <<server_, client_, run, turn_>>

Calls == 1 .. CallLimit
Requests == {"initialize", "thread/start", "turn/start", "thread/read"}
Waits == {"first", "second"}       \* of _wait_turn_completed
Steps == {"idle", "start", "judge", "complete", "close", "terminate", "drain"}
           \union Requests \union Waits
Writings == {"none", "initialized", "denial", "answer"}
Classes == {"network", "rate_limit", "turn_wait", "unknown"}

(* A call sends each request once: its number and the method stand for     *)
(* next_id.  The server's own requests carry ids of its own, which may be  *)
(* those of the client.                                                    *)
Ids == (Calls \X Requests) \union {<<0, "other">>}

Lines ==
  [kind : {"response"}, id : Ids, ok : BOOLEAN]
    \union [kind : {"request"}, id : Ids]
    \union [kind : {"message"}, turn : Calls]
    \union [kind : {"completed"}, turn : Calls, ok : BOOLEAN]
    \union [kind : {"cut"}]

SessionTypeOK ==
  /\ server \in {"none", "up", "dead"} /\ helper \in {"none", "group", "stubborn", "beyond"}
  /\ pipe \in Seq(Lines) /\ Len(pipe) <= PipeLimit
  /\ {watched, lease} \subseteq BOOLEAN
  /\ call \in [pc : Steps, number : 0 .. CallLimit, sent : BOOLEAN,
               writing : Writings, starting : BOOLEAN, error : {"none"} \union Classes]
  /\ seen \subseteq Calls \X BOOLEAN /\ text \in BOOLEAN
  /\ run \in {"none", "running", "safe_stopped", "completed"}
  /\ turn \in [Calls -> {"none", "working", "completed", "failed"}]
  /\ said \in BOOLEAN /\ asked \in [Calls -> BOOLEAN]

SessionInit ==
  /\ server = "none" /\ helper = "none" /\ pipe = <<>>
  /\ watched = FALSE /\ lease = FALSE
  /\ call = [pc |-> "idle", number |-> 0, sent |-> FALSE,
             writing |-> "none", starting |-> FALSE, error |-> "none"]
  /\ seen = {} /\ text = FALSE
  /\ run = "none"
  /\ turn = [c \in Calls |-> "none"] /\ said = FALSE
  /\ asked = [c \in Calls |-> FALSE]

me == call.number
requestId == <<me, call.pc>>
At(step) == call.pc = step
Goto(step) == call' = [call EXCEPT !.pc = step, !.sent = FALSE, !.writing = "none"]

(* An exception leaves the call: out of start() by way of close().         *)
Raise(class) ==
  call' = [call EXCEPT !.pc = IF call.starting THEN "close" ELSE "judge",
                       !.error = class, !.sent = FALSE, !.writing = "none"]

(* _wait_turn_completed ignores the errors of the adapter and of the       *)
(* protocol that thread/read meets, and no others.                         *)
Fails(class) == IF At("thread/read") THEN Goto("second") ELSE Raise(class)

-----------------------------------------------------------------------------
(* execute and start *)

(* The run is created and started; then the server. *)
Execute ==
  /\ At("idle") /\ me < CallLimit
  /\ call' = [call EXCEPT !.pc = "start", !.number = me + 1, !.error = "none"]
  /\ run' = "running" /\ text' = FALSE /\ said' = FALSE
  /\ UNCHANGED <<server_, watched, lease, seen, turn, asked>>

AlreadyStarted ==
  /\ At("start") /\ server = "up"
  /\ Goto("thread/start")
  /\ UNCHANGED <<server_, watched, lease, seen, text, run, turn_>>

(* What the buffer of a former server may hold: the lines that were read   *)
(* with others before them.                                                *)
Leftovers == {SubSeq(pipe, 1, k) : k \in 0 .. Len(pipe)}

(* Mutant: the slot is claimed for the first call only. *)
AcquireOnce == lease' = (lease \/ me = 1)

Acquire == lease' = TRUE

(* The registry may be full.  Between the slot and the process the         *)
(* directories are made and the provider's configuration is staged: what   *)
(* fails there leaves the slot, what fails later closes.  A server that    *)
(* has died is replaced; its stdout stays registered, and stdout_buffer is *)
(* what it was.                                                            *)
StartServer ==
  /\ At("start") /\ server # "up"
  /\ \/ ~lease /\ Raise("unknown") /\ UNCHANGED <<server_, watched, lease>>
     \/ Acquire /\ Raise("unknown") /\ UNCHANGED <<server_, watched>>
     \/ /\ Acquire
        /\ call' = [call EXCEPT !.pc = "close", !.starting = TRUE, !.error = "unknown"]
        /\ UNCHANGED <<server_, watched>>
     \/ /\ Acquire
        /\ server' = "up" /\ helper' = "none" /\ pipe' \in Leftovers
        /\ watched' = (watched \/ server = "dead")
        /\ call' = [call EXCEPT !.pc = "initialize", !.starting = TRUE]
  /\ UNCHANGED <<seen, text, run, turn_>>

-----------------------------------------------------------------------------
(* request: one line out, then lines in until the answer or the deadline *)

Next_(method) ==
  CASE method = "thread/start" -> "turn/start"
    [] method = "turn/start" -> "first"
    [] method = "thread/read" -> "second"

(* A write is over when the server has read enough of it.  Until then      *)
(* nothing bounds it: neither the deadline of the request, which is set    *)
(* after it, nor a server that waits for room in its own stdout.  A helper *)
(* may keep the other end of the pipe open when the server has died.       *)
Writing == call.writing # "none" \/ (call.pc \in Requests /\ ~call.sent)
Unread == Writing /\ (server = "up" \/ helper # "none")

(* The event log cannot be written, the server has closed its stdin, or it *)
(* dies when poll() has found it alive; and when poll() finds it dead.     *)
WriteFails ==
  \/ Raise("unknown") \/ Raise("network")
  \/ server = "dead" /\ Fails("unknown")

SendRequest(method) ==
  /\ At(method) /\ ~call.sent /\ call.writing = "none"
  /\ \/ /\ server = "up"
        /\ call' = [call EXCEPT !.sent = TRUE]
        /\ turn' = IF method = "turn/start" THEN [turn EXCEPT ![me] = "working"] ELSE turn
     \/ WriteFails /\ UNCHANGED turn
  /\ UNCHANGED <<server_, watched, lease, seen, text, run, said, asked>>

(* start() is over with the notification that follows the first answer.    *)
NotifyInitialized ==
  /\ At("initialize") /\ call.writing = "initialized"
  /\ \/ /\ server = "up"
        /\ call' = [call EXCEPT !.pc = "thread/start", !.writing = "none", !.starting = FALSE]
     \/ WriteFails
  /\ UNCHANGED <<server_, watched, lease, seen, text, run, turn_>>

(* Mutant: any turn/completed. *)
EndsATurn(done) == TRUE

(* What wait_for is looking for: the completion of this thread and turn.   *)
EndsTheTurn(done) == done[1] = me

Arrived == \E done \in seen : EndsTheTurn(done)
Watching == (At("first") \/ At("second")) /\ ~Arrived
Waiting == (Watching \/ call.sent) /\ call.writing = "none"

(* A line is complete with the newline that ends it: what a server left    *)
(* unfinished becomes the beginning of the next server's first line.       *)
Cut == pipe # <<>> /\ Head(pipe).kind = "cut"
Readable == IF Cut THEN Len(pipe) > 1 ELSE pipe # <<>>

(* select() finds the stream of the replaced server at its end, for ever,  *)
(* and os.read waits for the new one.                                      *)
Blocked == Waiting /\ watched /\ ~Readable /\ (server = "up" \/ helper # "none")

(* The deadlines of request and wait_for. *)
Deadline ==
  /\ Waiting /\ ~Blocked
  /\ CASE At("first") -> Goto("thread/read")
       [] At("second") -> Raise("turn_wait")
       [] At("thread/read") -> Goto("second")
       [] OTHER -> Raise("network")
  /\ UNCHANGED <<server_, watched, lease, seen, text, run, turn_>>

(* The answer to a request is whatever carries its id.                     *)
Resume(line) ==
  IF At("thread/read") \/ (line.kind = "response" /\ line.ok)
  THEN IF At("initialize")
       THEN call' = [call EXCEPT !.sent = FALSE, !.writing = "initialized"]
       ELSE Goto(Next_(call.pc))
  ELSE \E class \in {"unknown"} \union (IF line.kind = "response" THEN {"rate_limit"} ELSE {}) :
         Raise(class)

(* wait_for looks through every message there has been before it reads.    *)
FindCompletion ==
  /\ (At("first") \/ At("second")) /\ Arrived /\ call.writing = "none"
  /\ IF \E d \in seen : EndsTheTurn(d) /\ d[2]
     THEN Goto("complete")
     ELSE Raise("unknown")
  /\ UNCHANGED <<server_, watched, lease, seen, text, run, turn_>>

StopRun(status) ==
  run' = IF run = "running" THEN status ELSE run

(* Deltas make up a text that the completed message replaces; the text of  *)
(* another turn is kept under its own id, and left out.                    *)
TakeText(line) ==
  text' = (text \/ (line.kind = "message" /\ line.turn = me))

(* read_one: what json.loads refuses is a protocol error, what is not text *)
(* another.                                                                *)
ReadGarbled ==
  /\ Waiting /\ Readable /\ Cut
  /\ pipe' = Tail(Tail(pipe))
  /\ Fails("unknown") \/ Raise("unknown")
  /\ UNCHANGED <<server, helper, watched, lease, seen, text, run, turn_>>

(* A request of the server stops the run of the call that reads it, and is *)
(* then denied; it may be what the call waits for.  The record of it may   *)
(* be refused: the call leaves.                                            *)
OweDenial(line) ==
  call' = [call EXCEPT !.writing = IF call.sent /\ line.id = requestId
                                   THEN "answer" ELSE "denial"]

(* Mutant: the run goes on. *)
DenyOnly(line) ==
  /\ OweDenial(line) \/ Raise("unknown")
  /\ UNCHANGED <<seen, text, run>>

DenyRequest(line) ==
  /\ \/ StopRun("safe_stopped") /\ OweDenial(line)
     \/ Raise("unknown") /\ UNCHANGED run
  /\ UNCHANGED <<seen, text>>

SendDenial ==
  /\ call.writing \in {"denial", "answer"}
  /\ \/ /\ server = "up"
        /\ IF call.writing = "answer" THEN Resume([kind |-> "request"])
           ELSE call' = [call EXCEPT !.writing = "none"]
     \/ WriteFails
  /\ UNCHANGED <<server_, watched, lease, seen, text, run, turn_>>

(* Whatever the line is, the event log may refuse it. *)
ReadLine ==
  /\ Waiting /\ Readable /\ ~Cut
  /\ pipe' = Tail(pipe)
  /\ LET line == Head(pipe) IN
     IF line.kind = "request" THEN DenyRequest(line)
     ELSE /\ TakeText(line)
          /\ seen' = IF line.kind = "completed"
                     THEN seen \union {<<line.turn, line.ok>>} ELSE seen
          /\ \/ IF call.sent /\ line.kind = "response" /\ line.id = requestId
                THEN Resume(line) ELSE UNCHANGED call
             \/ Raise("unknown")
          /\ UNCHANGED run
  /\ UNCHANGED <<server, helper, watched, lease, turn_>>

-----------------------------------------------------------------------------
(* The end of a call *)

(* The records may be refused, and complete_run when the run has been      *)
(* stopped.                                                                *)
Complete ==
  /\ At("complete")
  /\ \/ /\ run = "running" /\ run' = "completed"
        /\ Goto("idle")
     \/ Raise("unknown") /\ UNCHANGED run
  /\ UNCHANGED <<server_, watched, lease, seen, text, turn_>>

(* classify_provider_failure and _handle_owner_failure: every class stops  *)
(* the run, unless the record of it is refused (an error text that looks   *)
(* like a credential) or the run has ended.                                *)
Judge ==
  /\ At("judge")
  /\ StopRun("safe_stopped") \/ UNCHANGED run
  /\ call' = [call EXCEPT !.pc = "idle", !.error = "none"]
  /\ UNCHANGED <<server_, watched, lease, seen, text, turn_>>

(* close: the caller of execute does it, and start() when it fails.  The   *)
(* slot is given back first.                                               *)
AfterClose == [call EXCEPT !.pc = IF call.starting THEN "judge" ELSE "idle",
                           !.starting = FALSE]

Close ==
  /\ \/ At("close")
     \/ At("idle") /\ (lease \/ server # "none")
  /\ lease' = FALSE
  /\ IF server = "none" THEN call' = AfterClose ELSE Goto("terminate")
  /\ UNCHANGED <<server_, watched, seen, text, run, turn_>>

(* Mutant: only the server is signalled, not its process group. *)
TerminateLeader ==
  /\ At("terminate")
  /\ server' = "dead" /\ Goto("drain")
  /\ UNCHANGED <<helper, pipe, watched, lease, seen, text, run, turn_>>

(* terminate_process, for a server that lives: its group gets SIGTERM, and *)
(* SIGKILL six seconds later, but only if the server is still there.  When *)
(* it has gone at once, a helper that ignores SIGTERM has not.             *)
Terminate ==
  /\ At("terminate")
  /\ server' = "dead" /\ Goto("drain")
  /\ \/ helper \in {"group", "stubborn"} /\ helper' = "none"
     \/ helper # "group" /\ UNCHANGED helper
  /\ UNCHANGED <<pipe, watched, lease, seen, text, run, turn_>>

(* stderr is read to its end, which comes when nobody holds it any more.   *)
(* close() may then raise, and has forgotten the server all the same: out  *)
(* of start() one error leaves for another.                                *)
HeldOpen == At("drain") /\ helper # "none"

Drain ==
  /\ At("drain") /\ ~HeldOpen
  /\ server' = "none" /\ pipe' \in Leftovers
  /\ call' = AfterClose
  /\ UNCHANGED <<helper, watched, lease, seen, text, run, turn_>>

-----------------------------------------------------------------------------
(* The server and its helper *)

Write(line) ==
  /\ server = "up" /\ Len(pipe) < PipeLimit
  /\ pipe' = Append(pipe, line)
  /\ UNCHANGED <<server, helper, client_, run>>

Respond ==
  /\ call.sent
  /\ \A i \in DOMAIN pipe : pipe[i].kind = "response" => pipe[i].id # requestId
  /\ \E ok \in BOOLEAN : Write([kind |-> "response", id |-> requestId, ok |-> ok])
  /\ UNCHANGED turn_

Working(c) == turn[c] = "working"

Speak ==
  /\ me > 0 /\ Working(me) /\ ~said
  /\ said' = TRUE
  /\ Write([kind |-> "message", turn |-> me])
  /\ UNCHANGED <<turn, asked>>

Ask(c) ==
  /\ Working(c) /\ ~asked[c]
  /\ \E id \in {<<0, "other">>} \union (IF call.sent THEN {requestId} ELSE {}) :
       Write([kind |-> "request", id |-> id])
  /\ asked' = [asked EXCEPT ![c] = TRUE]
  /\ UNCHANGED <<turn, said>>

EndTurn(c) ==
  /\ Working(c)
  /\ \E ok \in BOOLEAN :
       /\ turn' = [turn EXCEPT ![c] = IF ok THEN "completed" ELSE "failed"]
       /\ Write([kind |-> "completed", turn |-> c, ok |-> ok])
  /\ UNCHANGED <<said, asked>>

(* A helper may ignore SIGTERM or leave the group of the server, and is    *)
(* left by a server that ends by itself: terminate_process then signals    *)
(* nobody.                                                                 *)
SpawnHelper ==
  /\ server = "up" /\ helper = "none" /\ \E c \in Calls : Working(c)
  /\ helper' \in {"group", "stubborn", "beyond"}
  /\ UNCHANGED <<server, pipe, client_, run, turn_>>

Die ==
  /\ server = "up" /\ server' = "dead"
  /\ \/ UNCHANGED pipe
     \/ /\ Len(pipe) < PipeLimit
        /\ pipe' = Append(pipe, [kind |-> "cut"])
  /\ turn' = [c \in Calls |-> IF Working(c) THEN "failed" ELSE turn[c]]
  /\ helper' = IF helper \in {"group", "stubborn"} THEN "beyond" ELSE helper
  /\ UNCHANGED <<client_, run, said, asked>>

HelperEnds ==
  /\ helper # "none" /\ helper' = "none"
  /\ UNCHANGED <<server, pipe, client_, run, turn_>>

-----------------------------------------------------------------------------
Client ==
  \/ AlreadyStarted \/ StartServer \/ Deadline \/ FindCompletion
  \/ ReadLine \/ ReadGarbled \/ NotifyInitialized \/ SendDenial
  \/ Complete \/ Judge \/ Terminate \/ Drain
  \/ \E method \in Requests : SendRequest(method)
  \/ At("close") /\ Close

SessionNext ==
  \/ Client \/ Execute \/ Close
  \/ Respond \/ Speak \/ SpawnHelper \/ Die \/ HelperEnds
  \/ \E c \in Calls : Ask(c) \/ EndTurn(c)

(* The adapter's thread runs, unless a write keeps it.  A deadline is      *)
(* looked at after every line, so it passes also in a session that is read *)
(* without end.                                                            *)
SessionSpec ==
  SessionInit /\ [][SessionNext]_vars /\ WF_vars(Client /\ ~Unread) /\ SF_vars(Deadline)

-----------------------------------------------------------------------------
(* A run completes with the end of its own turn, and with all that was     *)
(* said in it: not with what an earlier turn, or an earlier server, left   *)
(* in the stream.                                                          *)
Completes == run # "completed" /\ run' = "completed"

ResultIsOfItsTurn ==
  [][Completes => turn[me] = "completed" /\ text = said]_vars

(* A turn in which the server asked the client for anything does not       *)
(* complete its run, also when the question is taken for an answer.        *)
AskedTurnsNeverComplete ==
  run = "completed" => ~asked[me]

(* A live server has its slot, but for the time it takes to end it.        *)
ServersHoldSlots == server = "up" /\ ~At("terminate") => lease

(* Every call returns, unless one of three system calls never does: a      *)
(* write to a server that does not read, the read from a server that       *)
(* replaced a dead one, or close()'s from a stderr that is held by a       *)
(* helper which SIGTERM does not end or does not reach.                    *)
CallsEnd ==
  \/ []<>At("idle")
  \/ <>[]Unread \/ <>[]Blocked \/ <>[](HeldOpen /\ helper # "group")

(* codex_adapter.py 126-128: a turn wait that ran out says the transport   *)
(* was healthy.                                                            *)
TurnWaitMeansHealthy ==
  [][call'.error = "turn_wait" /\ call.error = "none" => server = "up"]_vars
=============================================================================
