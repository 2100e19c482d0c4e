------------------------ MODULE AppServerSessionProofs ------------------------
(***************************************************************************)
(* What holds of a session of the Codex adapter (AppServerSession) for any *)
(* number of calls and any length of pipe.                                 *)
(*                                                                         *)
(* The client takes lines out of the pipe one at a time, so what it has    *)
(* concluded depends on the order of what is still in it.  The invariant   *)
(* is about that order: a request of the server stands before the end of   *)
(* the turn it was asked in, and so does the agent's message, until they   *)
(* are read; a line cut by a server that died stands before every answer   *)
(* to the call that started its successor; and an end of a turn, read or   *)
(* not, says how the turn ended.                                           *)
(***************************************************************************)
EXTENDS AppServerSession, TLAPS

(* The steps in which the server that has been started is talked to. *)
Talking == Waits \union {"thread/start", "turn/start", "thread/read", "complete"}

(* The turn of the call has not been asked for yet. *)
Fresh ==
  \/ call.pc \in {"start", "initialize", "thread/start"}
  \/ call.pc = "turn/start" /\ ~call.sent

Questions == {line \in Lines : line.kind = "request"}
MessagesOf(c) == {line \in Lines : line.kind = "message" /\ line.turn = c}
EndsOf(c) == {line \in Lines : line.kind = "completed" /\ line.turn = c}

(* A line of S stands before every line of E. *)
Ahead(S, E, lines) ==
  \E i \in 1 .. Len(lines) :
    lines[i] \in S /\ \A j \in 1 .. i : lines[j] \notin E

(* Line i is the answer to a request of call c. *)
Answers(lines, i, c) == lines[i].kind = "response" /\ lines[i].id[1] = c

ServerInv ==
  /\ call.sent => call.pc \in Requests /\ call.writing # "initialized"
  /\ call.writing # "none" => call.pc \in Requests \union Waits
  /\ call.writing = "initialized" => call.pc = "initialize"
  /\ call.writing = "answer" => call.sent
  /\ call.starting => call.pc \in {"initialize", "close", "terminate", "drain"}
  /\ call.pc = "initialize" => call.starting
  /\ call.pc \in Talking \union {"start", "initialize"} => me # 0 /\ run # "completed"
  /\ call.pc \in Talking \union {"initialize"} => server # "none"
  /\ run # "none" => me # 0
  /\ server = "up" /\ ~At("terminate") => lease
  /\ At("drain") => server = "dead"

CutInv ==
  LET cut(i) == pipe[i].kind = "cut" IN
  /\ server = "up" /\ (~call.starting \/ call.writing = "initialized") =>
       \A i \in 1 .. Len(pipe) : ~cut(i)
  /\ server = "up" /\ call.starting =>
       \A i \in 1 .. Len(pipe) : \A j \in 1 .. Len(pipe) :
         cut(i) /\ Answers(pipe, j, me) => i < j
  /\ call.pc \in Talking =>
       \A i \in 1 .. Len(pipe) : cut(i) => i = Len(pipe) /\ server = "dead"
  /\ \A i \in 1 .. Len(pipe) :
       pipe[i].kind = "response" =>
         pipe[i].id[1] <= me /\ (At("start") => pipe[i].id[1] # me)

Ended(ok) == IF ok THEN "completed" ELSE "failed"

TurnInv ==
  /\ \A c \in Calls, ok \in BOOLEAN : <<c, ok>> \in seen => turn[c] = Ended(ok)
  /\ \A i \in 1 .. Len(pipe) :
       pipe[i].kind = "completed" => turn[pipe[i].turn] = Ended(pipe[i].ok)
  /\ \A c \in Calls : turn[c] # "none" => c <= me /\ (c = me => ~Fresh)
  /\ \A c \in Calls : asked[c] => turn[c] # "none"
  /\ At("complete") => <<me, TRUE>> \in seen
  /\ run = "completed" => ~asked[me] /\ turn[me] # "working"

Unended == \A ok \in BOOLEAN : <<me, ok>> \notin seen

OrderInv ==
  /\ call.pc \in Talking /\ asked[me] /\ run = "running" =>
       Unended /\ Ahead(Questions, EndsOf(me), pipe)
  /\ call.pc \in Talking /\ said /\ ~text =>
       Unended /\ Ahead(MessagesOf(me), EndsOf(me), pipe)
  /\ text => said
  /\ \A i \in 1 .. Len(pipe) :
       pipe[i].kind = "message" => pipe[i].turn <= me /\ (pipe[i].turn = me => said)
  /\ said => me # 0 /\ turn[me] # "none"

SessionInv == SessionTypeOK /\ ServerInv /\ CutInv /\ TurnInv /\ OrderInv

-----------------------------------------------------------------------------
(* The stream *)

LEMMA LongerStream ==
  ASSUME NEW S, NEW s \in Seq(S), NEW e \in S
  PROVE  /\ Append(s, e) \in Seq(S) /\ Len(Append(s, e)) = Len(s) + 1
         /\ \A i \in 1 .. Len(s) : Append(s, e)[i] = s[i]
         /\ Append(s, e)[Len(s) + 1] = e
OBVIOUS

(* What is left when the first lines of a stream have been read. *)
LEMMA ShorterStream ==
  ASSUME NEW S, NEW s \in Seq(S), s # <<>>
  PROVE  /\ Tail(s) \in Seq(S) /\ Len(Tail(s)) = Len(s) - 1
         /\ \A i \in 1 .. Len(Tail(s)) : Tail(s)[i] = s[i + 1]
         /\ Head(s) = s[1] /\ Head(s) \in S /\ Len(s) \in Nat /\ Len(s) > 0
OBVIOUS

LEMMA CutStream ==
  ASSUME NEW S, NEW s \in Seq(S), NEW k \in 0 .. Len(s)
  PROVE  /\ SubSeq(s, 1, k) \in Seq(S) /\ Len(SubSeq(s, 1, k)) = k
         /\ \A i \in 1 .. k : SubSeq(s, 1, k)[i] = s[i]
OBVIOUS

(* Ahead is kept by what is written, and by what is read but the line      *)
(* itself.                                                                 *)
LEMMA AheadOfMore ==
  ASSUME NEW S, NEW E, NEW T, NEW s \in Seq(T), NEW e \in T, Ahead(S, E, s)
  PROVE  Ahead(S, E, Append(s, e))
<1>1. PICK i \in 1 .. Len(s) : s[i] \in S /\ \A j \in 1 .. i : s[j] \notin E
  BY DEF Ahead
<1>2. /\ Len(s) \in Nat /\ Len(Append(s, e)) = Len(s) + 1
      /\ \A j \in 1 .. Len(s) : Append(s, e)[j] = s[j]
  BY LongerStream
<1>3. i \in 1 .. Len(Append(s, e)) /\ Append(s, e)[i] \in S
  BY <1>1, <1>2
<1>4. \A j \in 1 .. i : Append(s, e)[j] \notin E
  BY <1>1, <1>2
<1> QED
  BY <1>3, <1>4 DEF Ahead

LEMMA AheadAtTheEnd ==
  ASSUME NEW S, NEW E, NEW T, NEW s \in Seq(T), NEW e \in T, e \in S, e \notin E,
         \A i \in 1 .. Len(s) : s[i] \notin E
  PROVE  Ahead(S, E, Append(s, e))
<1>1. /\ Len(s) \in Nat /\ Len(Append(s, e)) = Len(s) + 1
      /\ \A j \in 1 .. Len(s) : Append(s, e)[j] = s[j]
      /\ Append(s, e)[Len(s) + 1] = e
  BY LongerStream
<1>2. Len(s) + 1 \in 1 .. Len(Append(s, e))
  BY <1>1
<1>3. \A j \in 1 .. Len(s) + 1 : Append(s, e)[j] \notin E
  BY <1>1
<1> QED
  BY <1>1, <1>2, <1>3 DEF Ahead

LEMMA AheadOfTheRest ==
  ASSUME NEW S, NEW E, NEW T, NEW s \in Seq(T), s # <<>>, Ahead(S, E, s), Head(s) \notin S
  PROVE  Head(s) \notin E /\ Ahead(S, E, Tail(s))
<1>1. PICK i \in 1 .. Len(s) : s[i] \in S /\ \A j \in 1 .. i : s[j] \notin E
  BY DEF Ahead
<1>2. /\ Len(s) \in Nat /\ Len(Tail(s)) = Len(s) - 1 /\ Head(s) = s[1]
      /\ \A j \in 1 .. Len(Tail(s)) : Tail(s)[j] = s[j + 1]
  BY ShorterStream
<1>3. i # 1 /\ 1 \in 1 .. i
  BY <1>1, <1>2
<1>4. i - 1 \in 1 .. Len(Tail(s)) /\ Tail(s)[i - 1] = s[i]
  BY <1>1, <1>2, <1>3
<1>5. \A j \in 1 .. i - 1 : Tail(s)[j] = s[j + 1] /\ j + 1 \in 1 .. i
  BY <1>2, <1>4
<1> QED
  BY <1>1, <1>2, <1>3, <1>4, <1>5 DEF Ahead

(* What the lines are made of. *)
LEMMA LinesAre ==
  /\ \A line \in Lines :
       /\ line.kind \in {"response", "request", "message", "completed", "cut"}
       /\ line.kind = "response" => line.id \in Ids /\ line.ok \in BOOLEAN
       /\ line.kind = "request" => line.id \in Ids
       /\ line.kind = "message" => line.turn \in Calls
       /\ line.kind = "completed" => line.turn \in Calls /\ line.ok \in BOOLEAN
  /\ \A id \in Ids, ok \in BOOLEAN :
       LET line == [kind |-> "response", id |-> id, ok |-> ok] IN
       line \in Lines /\ line.kind = "response" /\ line.id = id /\ line.ok = ok
  /\ \A id \in Ids : LET line == [kind |-> "request", id |-> id] IN
       line \in Lines /\ line.kind = "request" /\ line.id = id
  /\ \A c \in Calls : LET line == [kind |-> "message", turn |-> c] IN
       line \in Lines /\ line.kind = "message" /\ line.turn = c
  /\ \A c \in Calls, ok \in BOOLEAN :
       LET line == [kind |-> "completed", turn |-> c, ok |-> ok] IN
       line \in Lines /\ line.kind = "completed" /\ line.turn = c /\ line.ok = ok
  /\ [kind |-> "cut"] \in Lines
BY DEF Lines

-----------------------------------------------------------------------------
(* The moves of a call *)

CallRecord ==
  [pc : Steps, number : 0 .. CallLimit, sent : BOOLEAN,
   writing : Writings, starting : BOOLEAN, error : {"none"} \union Classes]

(* The call goes to a step with nothing sent and nothing to write. *)
Arrives(step, starting) ==
  /\ call'.pc = step /\ call'.number = call.number
  /\ call'.starting = starting /\ ~call'.sent /\ call'.writing = "none"

LEMMA CallIs ==
  ASSUME SessionTypeOK
  PROVE  /\ call \in CallRecord /\ call.pc \in Steps /\ call.number \in 0 .. CallLimit
         /\ call.sent \in BOOLEAN /\ call.starting \in BOOLEAN /\ call.writing \in Writings
         /\ call.error \in {"none"} \union Classes
BY DEF SessionTypeOK, CallRecord

LEMMA Goes ==
  ASSUME SessionTypeOK, NEW step \in Steps, Goto(step)
  PROVE  call' \in CallRecord /\ Arrives(step, call.starting)
BY CallIs DEF Goto, Arrives, CallRecord, Writings

LEMMA Raises ==
  ASSUME SessionTypeOK, NEW class \in Classes, Raise(class)
  PROVE  /\ call' \in CallRecord
         /\ Arrives(IF call.starting THEN "close" ELSE "judge", call.starting)
<1>1. {"close", "judge"} \subseteq Steps
  BY DEF Steps
<1> QED
  BY <1>1, CallIs DEF Raise, Arrives, CallRecord, Writings

LEMMA FailsIs ==
  ASSUME SessionTypeOK, NEW class \in Classes, Fails(class)
  PROVE  /\ call' \in CallRecord
         /\ \/ At("thread/read") /\ Arrives("second", call.starting)
            \/ ~At("thread/read")
                 /\ Arrives(IF call.starting THEN "close" ELSE "judge", call.starting)
<1>1. "second" \in Steps
  BY DEF Steps, Waits
<1> QED
  BY <1>1, Goes, Raises DEF Fails

LEMMA NextIs ==
  /\ Next_("thread/start") = "turn/start"
  /\ Next_("turn/start") = "first" /\ Next_("thread/read") = "second"
  /\ \A method \in Requests \ {"initialize"} : Next_(method) \in Steps
BY DEF Next_, Requests, Steps, Waits

(* The first answer, after which there is a line to write. *)
Initialized ==
  /\ At("initialize") /\ call'.pc = "initialize" /\ call'.number = call.number
  /\ call'.starting = call.starting /\ ~call'.sent /\ call'.writing = "initialized"

(* An answer moves the call on, or out. *)
LEMMA ResumeIs ==
  ASSUME SessionTypeOK, NEW line, call.pc \in Requests, Resume(line)
  PROVE  /\ call' \in CallRecord
         /\ \/ Initialized /\ line.kind = "response"
            \/ /\ Arrives(Next_(call.pc), call.starting) /\ ~At("initialize")
               /\ At("thread/read") \/ line.kind = "response"
            \/ Arrives(IF call.starting THEN "close" ELSE "judge", call.starting)
<1>1. CASE At("thread/read") \/ (line.kind = "response" /\ line.ok)
  <2>1. CASE At("initialize")
    <3>1. call' = [call EXCEPT !.sent = FALSE, !.writing = "initialized"]
      BY <1>1, <2>1 DEF Resume
    <3> QED
      BY <3>1, <1>1, <2>1, CallIs DEF Initialized, CallRecord, Writings, At
  <2>2. CASE ~At("initialize")
    <3>1. Goto(Next_(call.pc)) /\ Next_(call.pc) \in Steps
      BY <1>1, <2>2, NextIs DEF Resume, At
    <3> QED
      BY <3>1, <1>1, <2>2, Goes
  <2> QED
    BY <2>1, <2>2
<1>2. CASE ~(At("thread/read") \/ (line.kind = "response" /\ line.ok))
  <2>1. PICK class \in {"unknown"} \union (IF line.kind = "response" THEN {"rate_limit"} ELSE {}) :
          Raise(class)
    BY <1>2 DEF Resume
  <2>2. class \in Classes
    BY <2>1 DEF Classes
  <2> QED
    BY <2>1, <2>2, Raises
<1> QED
  BY <1>1, <1>2

-----------------------------------------------------------------------------
(* Types *)

LEMMA TypesAre ==
  SessionTypeOK <=>
    /\ server \in {"none", "up", "dead"} /\ helper \in {"none", "group", "stubborn", "beyond"}
    /\ pipe \in Seq(Lines) /\ Len(pipe) <= PipeLimit
    /\ {watched, lease} \subseteq BOOLEAN
    /\ call \in CallRecord
    /\ seen \subseteq Calls \X BOOLEAN /\ text \in BOOLEAN
    /\ run \in {"none", "running", "safe_stopped", "completed"}
    /\ turn \in [Calls -> {"none", "working", "completed", "failed"}]
    /\ said \in BOOLEAN /\ asked \in [Calls -> BOOLEAN]
BY DEF SessionTypeOK, CallRecord

(* A step of the client that reads nothing. *)
LEMMA QuietTypes ==
  ASSUME SessionTypeOK, call' \in CallRecord, UNCHANGED <<pipe, seen, text, turn_>>,
         server' \in {"none", "up", "dead"}, helper' \in {"none", "group", "stubborn", "beyond"},
         {watched', lease'} \subseteq BOOLEAN,
         run' \in {"none", "running", "safe_stopped", "completed"}
  PROVE  SessionTypeOK'
BY DEF SessionTypeOK, CallRecord, turn_

(* What is left of a stream of which d lines have been read. *)
Shifted(d) ==
  /\ pipe' \in Seq(Lines) /\ Len(pipe') + d <= Len(pipe)
  /\ \A i \in 1 .. Len(pipe') : i + d \in 1 .. Len(pipe) /\ pipe'[i] = pipe[i + d]

LEMMA LeftoversAre ==
  ASSUME SessionTypeOK, pipe' \in Leftovers
  PROVE  Shifted(0)
<1>1. pipe \in Seq(Lines) /\ Len(pipe) \in Nat
  BY DEF SessionTypeOK
<1>2. PICK k \in 0 .. Len(pipe) : pipe' = SubSeq(pipe, 1, k)
  BY DEF Leftovers
<1>3. /\ pipe' \in Seq(Lines) /\ Len(pipe') = k
      /\ \A i \in 1 .. k : pipe'[i] = pipe[i]
  BY <1>1, <1>2, CutStream
<1> QED
  BY <1>1, <1>2, <1>3 DEF Shifted

LEMMA RestIs ==
  ASSUME SessionTypeOK, pipe # <<>>, pipe' = Tail(pipe)
  PROVE  Shifted(1) /\ Head(pipe) = pipe[1] /\ Head(pipe) \in Lines /\ 1 \in 1 .. Len(pipe)
<1>1. pipe \in Seq(Lines) /\ Len(pipe) \in Nat
  BY DEF SessionTypeOK
<1> QED
  BY <1>1, ShorterStream DEF Shifted

LEMMA RestAfterCutIs ==
  ASSUME SessionTypeOK, Len(pipe) > 1, pipe' = Tail(Tail(pipe))
  PROVE  Shifted(2)
<1>1. pipe \in Seq(Lines) /\ Len(pipe) \in Nat /\ pipe # <<>>
  BY DEF SessionTypeOK
<1>2. /\ Tail(pipe) \in Seq(Lines) /\ Len(Tail(pipe)) = Len(pipe) - 1
      /\ \A i \in 1 .. Len(Tail(pipe)) : Tail(pipe)[i] = pipe[i + 1]
  BY <1>1, ShorterStream
<1>3. Tail(pipe) # <<>>
  BY <1>1, <1>2
<1>4. /\ pipe' \in Seq(Lines) /\ Len(pipe') = Len(Tail(pipe)) - 1
      /\ \A i \in 1 .. Len(pipe') : pipe'[i] = Tail(pipe)[i + 1]
  BY <1>2, <1>3, ShorterStream
<1>5. \A i \in 1 .. Len(pipe') : i + 1 \in 1 .. Len(Tail(pipe)) /\ i + 2 \in 1 .. Len(pipe)
  BY <1>1, <1>2, <1>4
<1> QED
  BY <1>1, <1>2, <1>4, <1>5 DEF Shifted

-----------------------------------------------------------------------------
(* The frame of the invariant *)

(* The answer to initialize, with nothing unfinished behind it.            *)
Answered ==
  /\ At("initialize") /\ call'.pc = "thread/start" /\ ~call'.starting /\ server' = "up"
  /\ \A i \in 1 .. Len(pipe') : pipe'[i].kind # "cut"

(* Nothing unfinished is in the stream when the call has its first answer. *)
Whole ==
  server' = "up" /\ call'.writing = "initialized" =>
    \/ call.writing = "initialized"
    \/ \A i \in 1 .. Len(pipe') : pipe'[i].kind # "cut"

(* What a step of a call must keep to: it starts no server, and it talks   *)
(* to the one there is when it talked to it already, found it running, or  *)
(* has its answer.                                                         *)
Orderly ==
  /\ call'.number = call.number /\ Whole
  /\ server' = "up" => server = "up" /\ (call'.starting = call.starting \/ Answered)
  /\ call'.pc \in Talking =>
       /\ server' = server
       /\ \/ call.pc \in Talking
          \/ At("start") /\ server = "up" /\ ~call.starting
          \/ Answered
  /\ call'.pc # "start"
  /\ Fresh' => Fresh

RunEnds ==
  \/ run' = run \/ run' = "safe_stopped"
  \/ At("complete") /\ run = "running" /\ run' = "completed"

LEMMA CutsStay ==
  ASSUME SessionInv, SessionTypeOK', Orderly, NEW d \in Nat, Shifted(d)
  PROVE  CutInv'
<1> DEFINE cut(i) == pipe[i].kind = "cut"
<1>1. /\ Len(pipe) \in Nat /\ Len(pipe') \in Nat
      /\ call.number \in Nat /\ call'.number = call.number
  BY CallIs DEF SessionTypeOK, SessionInv, Orderly
<1>2. \A i \in 1 .. Len(pipe') : i + d \in 1 .. Len(pipe) /\ pipe'[i] = pipe[i + d]
  BY DEF Shifted
<1>3. server' = "up" /\ (~call'.starting \/ call'.writing = "initialized") =>
        \A i \in 1 .. Len(pipe') : ~cut(i)'
  BY <1>2 DEF SessionInv, CutInv, Orderly, Whole, Answered, me
<1>4. ASSUME server' = "up", call'.starting, NEW i \in 1 .. Len(pipe'), NEW j \in 1 .. Len(pipe'),
             cut(i)', Answers(pipe', j, call'.number)
      PROVE  i < j
  <2>1. cut(i + d) /\ Answers(pipe, j + d, call.number)
    BY <1>1, <1>2, <1>4 DEF Answers
  <2>2. i + d < j + d
    BY <1>2, <1>4, <2>1 DEF SessionInv, CutInv, Orderly, Answered, me
  <2> QED
    BY <2>2
<1>5. ASSUME call'.pc \in Talking, NEW i \in 1 .. Len(pipe'), cut(i)'
      PROVE  i = Len(pipe') /\ server' = "dead"
  <2>1. cut(i + d) /\ i + d \in 1 .. Len(pipe)
    BY <1>2, <1>5
  <2>2. call.pc \in Talking
    BY <1>5, <2>1 DEF SessionInv, CutInv, Orderly, Answered, me
  <2>3. i + d = Len(pipe) /\ server = "dead"
    BY <2>1, <2>2 DEF SessionInv, CutInv, me
  <2> QED
    BY <1>1, <1>5, <2>3 DEF Shifted, Orderly
<1>6. ASSUME NEW i \in 1 .. Len(pipe'), pipe'[i].kind = "response"
      PROVE  pipe'[i].id[1] <= call'.number /\ (At("start")' => pipe'[i].id[1] # call'.number)
  BY <1>1, <1>2, <1>6 DEF SessionInv, CutInv, Orderly, At, me
<1> QED
  BY <1>3, <1>4, <1>5, <1>6 DEF CutInv, me

(* What has been read and what is in the stream say how turns ended: turns *)
(* that have ended stay as they are.                                       *)
LEMMA TurnsStay ==
  ASSUME SessionInv, SessionTypeOK', Orderly, NEW d \in Nat, Shifted(d), UNCHANGED turn_,
         \A c \in Calls, ok \in BOOLEAN :
           <<c, ok>> \in seen' => <<c, ok>> \in seen \/ turn[c] = Ended(ok),
         At("complete")' => <<call.number, TRUE>> \in seen',
         RunEnds
  PROVE  TurnInv'
<1>1. call.number \in Nat /\ call'.number = call.number
  BY CallIs DEF SessionInv, Orderly
<1>2. \A i \in 1 .. Len(pipe') : i + d \in 1 .. Len(pipe) /\ pipe'[i] = pipe[i + d]
  BY DEF Shifted
<1>3. UNCHANGED <<turn, asked>>
  BY DEF turn_
<1>4. \A c \in Calls, ok \in BOOLEAN : <<c, ok>> \in seen' => turn'[c] = Ended(ok)
  BY <1>3 DEF SessionInv, TurnInv, me
<1>5. \A i \in 1 .. Len(pipe') :
        pipe'[i].kind = "completed" => turn'[pipe'[i].turn] = Ended(pipe'[i].ok)
  BY <1>2, <1>3 DEF SessionInv, TurnInv, me
<1>6. /\ \A c \in Calls : turn'[c] # "none" => c <= call'.number /\ (c = call'.number => ~Fresh')
      /\ \A c \in Calls : asked'[c] => turn'[c] # "none"
  BY <1>1, <1>3 DEF SessionInv, TurnInv, Orderly, me
<1>7. run' = "completed" => ~asked'[call'.number] /\ turn'[call'.number] # "working"
  <2>1. CASE run' = run
    BY <1>1, <1>3, <2>1 DEF SessionInv, TurnInv, me
  <2>2. CASE At("complete") /\ run = "running"
    <3>1. call.number \in Calls
      BY <2>2, CallIs DEF SessionInv, ServerInv, Talking, Calls, At, me
    <3>2. <<call.number, TRUE>> \in seen /\ turn[call.number] = "completed"
      BY <2>2, <3>1 DEF SessionInv, TurnInv, Ended, me
    <3>3. ~asked[call.number]
      BY <2>2, <3>2 DEF SessionInv, OrderInv, Talking, At, Unended, me
    <3> QED
      BY <1>1, <1>3, <3>2, <3>3
  <2> QED
    BY <2>1, <2>2 DEF RunEnds
<1> QED
  BY <1>1, <1>4, <1>5, <1>6, <1>7 DEF TurnInv, me

(* The two lines the order is about are where they were, or the turn has   *)
(* not begun.                                                              *)
LEMMA OrderStays ==
  ASSUME SessionInv, SessionTypeOK', Orderly, NEW d \in Nat, Shifted(d), UNCHANGED turn_,
         RunEnds, text' => said,
         call.pc \in Talking /\ call'.pc \in Talking /\ asked[call.number] /\ run' = "running" =>
           Unended' /\ Ahead(Questions, EndsOf(call.number), pipe'),
         call.pc \in Talking /\ said /\ ~text' =>
           Unended' /\ Ahead(MessagesOf(call.number), EndsOf(call.number), pipe')
  PROVE  OrderInv'
<1>1. call.number \in Nat /\ call'.number = call.number
  BY CallIs DEF SessionInv, Orderly
<1>2. \A i \in 1 .. Len(pipe') : i + d \in 1 .. Len(pipe) /\ pipe'[i] = pipe[i + d]
  BY DEF Shifted
<1>3. UNCHANGED <<turn, asked, said>>
  BY DEF turn_
<1>4. ASSUME call'.pc \in Talking, call.pc \notin Talking
      PROVE  ~asked[call.number] /\ ~said
  <2>1. Fresh /\ call.number \in Calls
    BY <1>4, CallIs DEF Orderly, Answered, Fresh, At, SessionInv, ServerInv, Calls, me
  <2>2. turn[call.number] = "none"
    BY <2>1 DEF SessionInv, TurnInv, me
  <2> QED
    BY <2>1, <2>2 DEF SessionInv, TurnInv, OrderInv, me
<1>5. EndsOf(call.number)' = EndsOf(call.number) /\ MessagesOf(call.number)' = MessagesOf(call.number)
  BY <1>1 DEF EndsOf, MessagesOf, me
<1>6. call'.pc \in Talking /\ asked'[call'.number] /\ run' = "running" =>
        Unended' /\ Ahead(Questions, EndsOf(call.number), pipe')
  BY <1>1, <1>3, <1>4
<1>7. call'.pc \in Talking /\ said' /\ ~text' =>
        Unended' /\ Ahead(MessagesOf(call.number), EndsOf(call.number), pipe')
  BY <1>1, <1>3, <1>4
<1>8. \A i \in 1 .. Len(pipe') :
        pipe'[i].kind = "message" =>
          pipe'[i].turn <= call'.number /\ (pipe'[i].turn = call'.number => said')
  BY <1>1, <1>2, <1>3 DEF SessionInv, OrderInv, me
<1>9. said' => call'.number # 0 /\ turn'[call'.number] # "none"
  BY <1>1, <1>3 DEF SessionInv, OrderInv, me
<1> QED
  BY <1>1, <1>3, <1>6, <1>7, <1>8, <1>9 DEF OrderInv, me

(* A step that reads nothing. *)
LEMMA QuietSteps ==
  ASSUME SessionInv, SessionTypeOK', Orderly, UNCHANGED <<pipe, seen, text, turn_>>,
         RunEnds, At("complete")' => At("complete") \/ <<call.number, TRUE>> \in seen
  PROVE  CutInv' /\ TurnInv' /\ OrderInv'
<1>1. Shifted(0) /\ 0 \in Nat
  BY DEF SessionInv, SessionTypeOK, Shifted
<1>2. At("complete")' => <<call.number, TRUE>> \in seen'
  BY DEF SessionInv, TurnInv, me
<1>3. call.number \in Nat /\ call'.number = call.number /\ UNCHANGED <<turn, asked, said>>
  BY CallIs DEF SessionInv, Orderly, turn_
<1>4. run' = "running" => run = "running"
  BY DEF RunEnds
<1>5. Unended' = Unended
  BY <1>3 DEF Unended, me
<1>6. CutInv'
  BY <1>1, CutsStay
<1>7. TurnInv'
  BY <1>1, <1>2, TurnsStay
<1>8. call.pc \in Talking /\ asked[call.number] /\ run' = "running" =>
           Unended' /\ Ahead(Questions, EndsOf(call.number), pipe')
  BY <1>4, <1>5 DEF SessionInv, OrderInv, me
<1>9. call.pc \in Talking /\ said /\ ~text' =>
           Unended' /\ Ahead(MessagesOf(call.number), EndsOf(call.number), pipe')
  BY <1>5 DEF SessionInv, OrderInv, me
<1>10. text' => said
  BY DEF SessionInv, OrderInv, me
<1>11. OrderInv'
  BY <1>1, <1>8, <1>9, <1>10, OrderStays DEF SessionInv, OrderInv, me
<1> QED
  BY <1>6, <1>7, <1>11

-----------------------------------------------------------------------------
(* The steps of the client that read nothing *)

LEMMA Quiet ==
  ASSUME SessionInv, call' \in CallRecord, Orderly, UNCHANGED <<pipe, seen, text, turn_>>,
         RunEnds, At("complete")' => At("complete") \/ <<call.number, TRUE>> \in seen,
         server' \in {"none", "up", "dead"}, helper' \in {"none", "group", "stubborn", "beyond"},
         watched' \in BOOLEAN, lease' \in BOOLEAN, ServerInv'
  PROVE  SessionInv'
<1>1. run' \in {"none", "running", "safe_stopped", "completed"}
  BY TypesAre DEF RunEnds, SessionInv
<1>2. SessionTypeOK'
  BY <1>1, QuietTypes DEF SessionInv
<1> QED
  BY <1>2, QuietSteps DEF SessionInv

(* Where a call goes: what the invariant says of the server does not       *)
(* depend on more than this.                                               *)
LEMMA ServerStays ==
  ASSUME SessionInv, call'.number = call.number, UNCHANGED <<server, lease>>,
         run' # "none" => run # "none",
         run' = "completed" => run = "completed" \/ call'.pc = "idle",
         call'.sent => call'.pc \in Requests, call'.writing = "none",
         call'.starting => call'.pc \in {"initialize", "close", "terminate", "drain"},
         call'.pc = "initialize" => call'.starting,
         call'.pc \in Talking \union {"start", "initialize"} =>
           call.pc \in Talking \union {"initialize"} \/ (At("start") /\ server = "up"),
         At("terminate")' = At("terminate"), At("drain")' => At("drain")
  PROVE  ServerInv'
BY DEF SessionInv, ServerInv, me, At, Talking, Waits

LEMMA AlreadyStartedKeeps ==
  ASSUME SessionInv, AlreadyStarted
  PROVE  SessionInv'
<1>1. call' \in CallRecord /\ Arrives("thread/start", call.starting)
  BY Goes DEF AlreadyStarted, SessionInv, Steps, Requests
<1>2. call.pc = "start" /\ server = "up" /\ ~call.starting
  BY DEF AlreadyStarted, At, SessionInv, ServerInv
<1>3. /\ UNCHANGED <<server, helper, pipe, watched, lease, seen, text, run, turn_>>
  BY DEF AlreadyStarted, server_
<1>4. Orderly
  BY <1>1, <1>2, <1>3 DEF Orderly, Whole, Arrives, Fresh, Talking, Waits, At
<1>5. ServerInv'
  BY <1>1, <1>2, <1>3, ServerStays DEF Arrives, Requests, Talking, At
<1>6. RunEnds /\ ~At("complete")'
  BY <1>1, <1>3 DEF RunEnds, At, Arrives
<1> QED
  BY <1>1, <1>3, <1>4, <1>5, <1>6, Quiet, TypesAre DEF SessionInv

(* A call that has been talking to the server goes on, or leaves.          *)
LEMMA MovesOn ==
  ASSUME SessionInv, call' \in CallRecord, UNCHANGED <<server_, watched, lease, seen, text, turn_>>,
         NEW step, Arrives(step, call.starting), RunEnds, run' # "none" => run # "none",
         run' = "completed" => run = "completed" \/ call'.pc = "idle",
         \/ call.starting /\ step = "close"
         \/ ~call.starting /\ step \in {"idle", "judge"}
         \/ call.pc \in Talking /\ step = "second"
         \/ call.pc \in Talking /\ call.pc # "thread/start" /\ step = "thread/read"
              /\ ~Fresh
         \/ call.pc \in Talking /\ step = "complete" /\ <<call.number, TRUE>> \in seen,
         ~At("terminate"), ~At("drain")
  PROVE  SessionInv'
<1>1. /\ UNCHANGED <<server, helper, pipe, watched, lease, seen, text, turn_>>
  BY DEF server_
<1>2. /\ call'.pc = step /\ call'.number = call.number
      /\ call'.starting = call.starting /\ ~call'.sent /\ call'.writing = "none"
  BY DEF Arrives
<1>3. call.pc \in Talking => ~call.starting
  BY DEF SessionInv, ServerInv, Talking, Waits
<1>4. Orderly
  BY <1>1, <1>2 DEF Orderly, Whole, Fresh, Talking, Waits, At
<1>5. ServerInv'
  BY <1>1, <1>2, <1>3, ServerStays DEF Talking, Waits, At
<1>6. At("complete")' => <<call.number, TRUE>> \in seen
  BY <1>2 DEF At
<1> QED
  BY <1>1, <1>4, <1>5, <1>6, Quiet, TypesAre DEF SessionInv

LEMMA WaitingIs ==
  ASSUME SessionInv, Waiting
  PROVE  /\ call.pc \in Requests \union Waits
         /\ call.pc \in Talking \/ (At("initialize") /\ call.starting)
         /\ call.pc \in Talking =>
              (~call.starting /\ ~Fresh) \/ call.pc \in {"thread/start", "turn/start"}
         /\ ~At("terminate") /\ ~At("drain") /\ ~At("idle") /\ ~At("start")
         /\ call.pc \in Waits \/ call.sent
BY DEF SessionInv, ServerInv, Waiting, Watching, At, Requests, Waits, Talking, Fresh

LEMMA DeadlineKeeps ==
  ASSUME SessionInv, Deadline
  PROVE  SessionInv'
<1>1. /\ Waiting /\ UNCHANGED <<server_, watched, lease, seen, text, run, turn_>>
  BY DEF Deadline
<1>2. SessionTypeOK /\ RunEnds /\ {"thread/read", "second"} \subseteq Steps
  BY <1>1 DEF SessionInv, RunEnds, Steps, Requests, Waits
<1>3. /\ call.pc \in Talking \/ call.starting
      /\ call.pc \in Talking => ~call.starting
      /\ ~At("terminate") /\ ~At("drain")
  BY <1>1, WaitingIs DEF SessionInv, ServerInv, Talking, Waits
<1>4. CASE At("first")
  <2>1. call' \in CallRecord /\ Arrives("thread/read", call.starting)
    BY <1>2, <1>4, Goes DEF Deadline, At
  <2>2. call.pc \in Talking /\ call.pc # "thread/start" /\ ~Fresh
    BY <1>4 DEF At, Talking, Waits, Fresh
  <2> QED
    BY <1>1, <1>2, <1>3, <2>1, <2>2, MovesOn
<1>5. CASE At("thread/read")
  <2>1. call' \in CallRecord /\ Arrives("second", call.starting)
    BY <1>2, <1>5, Goes DEF Deadline, At
  <2>2. call.pc \in Talking
    BY <1>5 DEF At, Talking
  <2> QED
    BY <1>1, <1>2, <1>3, <2>1, <2>2, MovesOn
<1>6. CASE ~At("first") /\ ~At("thread/read")
  <2>1. PICK class \in Classes : Raise(class)
    BY <1>6 DEF Deadline, Classes, At
  <2>2. /\ call' \in CallRecord
        /\ Arrives(IF call.starting THEN "close" ELSE "judge", call.starting)
    BY <1>2, <2>1, Raises
  <2> QED
    BY <1>1, <1>2, <1>3, <2>2, MovesOn
<1> QED
  BY <1>4, <1>5, <1>6

LEMMA FindCompletionKeeps ==
  ASSUME SessionInv, FindCompletion
  PROVE  SessionInv'
<1>1. /\ call.pc \in Waits /\ UNCHANGED <<server_, watched, lease, seen, text, run, turn_>>
  BY DEF FindCompletion, At, Waits
<1>2. SessionTypeOK /\ RunEnds /\ "complete" \in Steps /\ "unknown" \in Classes
  BY <1>1 DEF SessionInv, RunEnds, Steps, Classes
<1>3. call.pc \in Talking /\ ~call.starting /\ ~At("terminate") /\ ~At("drain")
  BY <1>1 DEF SessionInv, ServerInv, Talking, Waits, At
<1>4. CASE \E done \in seen : EndsTheTurn(done) /\ done[2]
  <2>1. call' \in CallRecord /\ Arrives("complete", call.starting)
    BY <1>2, <1>4, Goes DEF FindCompletion
  <2>2. PICK done \in seen : done[1] = call.number /\ done[2]
    BY <1>4 DEF EndsTheTurn, me
  <2>3. done \in Calls \X BOOLEAN
    BY <1>2, <2>2 DEF SessionTypeOK
  <2>4. done = <<call.number, TRUE>>
    <3>1. PICK c \in Calls, ok \in BOOLEAN : done = <<c, ok>>
      BY <2>3
    <3>2. c = call.number /\ ok = TRUE
      BY <2>2, <3>1
    <3> QED
      BY <3>1, <3>2
  <2> QED
    BY <1>1, <1>2, <1>3, <2>1, <2>2, <2>4, MovesOn
<1>5. CASE ~\E done \in seen : EndsTheTurn(done) /\ done[2]
  <2>1. Raise("unknown")
    BY <1>5 DEF FindCompletion
  <2>2. call' \in CallRecord /\ Arrives("judge", call.starting)
    BY <1>2, <1>3, <2>1, Raises
  <2> QED
    BY <1>1, <1>2, <1>3, <2>2, MovesOn
<1> QED
  BY <1>4, <1>5

LEMMA CompleteKeeps ==
  ASSUME SessionInv, Complete
  PROVE  SessionInv'
<1>1. /\ At("complete") /\ UNCHANGED <<server_, watched, lease, seen, text, turn_>>
  BY DEF Complete
<1>2. SessionTypeOK /\ {"idle", "judge"} \subseteq Steps /\ "unknown" \in Classes
  BY DEF SessionInv, Steps, Classes
<1>3. ~call.starting /\ ~At("terminate") /\ ~At("drain")
  BY <1>1 DEF SessionInv, ServerInv, At
<1>4. CASE run = "running" /\ run' = "completed" /\ Goto("idle")
  <2>1. call' \in CallRecord /\ Arrives("idle", call.starting)
    BY <1>2, <1>4, Goes
  <2>2. RunEnds /\ (run' # "none" => run # "none")
         /\ (run' = "completed" => run = "completed" \/ call'.pc = "idle")
    BY <1>1, <1>4, <2>1 DEF RunEnds, Arrives
  <2> QED
    BY <1>1, <1>3, <2>1, <2>2, MovesOn
<1>5. CASE Raise("unknown") /\ UNCHANGED run
  <2>1. call' \in CallRecord /\ Arrives("judge", call.starting)
    BY <1>2, <1>3, <1>5, Raises
  <2>2. RunEnds /\ (run' # "none" => run # "none")
         /\ (run' = "completed" => run = "completed" \/ call'.pc = "idle")
    BY <1>5 DEF RunEnds
  <2> QED
    BY <1>1, <1>3, <2>1, <2>2, MovesOn
<1> QED
  BY <1>4, <1>5 DEF Complete

LEMMA JudgeKeeps ==
  ASSUME SessionInv, Judge
  PROVE  SessionInv'
<1>1. /\ At("judge") /\ UNCHANGED <<server_, watched, lease, seen, text, turn_>>
      /\ call' = [call EXCEPT !.pc = "idle", !.error = "none"]
  BY DEF Judge
<1>2. /\ "idle" \in Steps /\ ~call.sent /\ ~call.starting /\ ~At("terminate") /\ ~At("drain")
      /\ call.writing = "none"
  BY <1>1 DEF SessionInv, ServerInv, At, Requests, Waits, Steps
<1>3. call' \in CallRecord /\ Arrives("idle", call.starting)
  BY <1>1, <1>2, CallIs DEF Arrives, CallRecord, SessionInv
<1>4. RunEnds /\ (run' # "none" => run # "none")
         /\ (run' = "completed" => run = "completed" \/ call'.pc = "idle")
  BY DEF Judge, StopRun, RunEnds
<1> QED
  BY <1>1, <1>2, <1>3, <1>4, MovesOn

(* A call that leaves its server to its end talks to nobody. *)
LEMMA Leaves ==
  ASSUME SessionInv, call' \in CallRecord, UNCHANGED <<pipe, watched, seen, text, run, turn_>>,
         call'.number = call.number, ~call'.sent, call'.writing = "none",
         call'.starting => call'.pc \in {"close", "terminate", "drain"},
         call'.pc \in {"judge", "idle", "close", "terminate", "drain"},
         server' \in {"none", "up", "dead"}, lease' \in BOOLEAN,
         helper' \in {"none", "group", "stubborn", "beyond"},
         server' = "up" => server = "up" /\ call'.starting = call.starting,
         server' = "up" /\ call'.pc # "terminate" => lease',
         call'.pc = "drain" => server' = "dead"
  PROVE  SessionInv'
<1>1. Orderly /\ RunEnds /\ ~At("complete")'
  BY DEF Orderly, Whole, RunEnds, Talking, Waits, Fresh, At
<1>2. ServerInv'
  BY DEF ServerInv, Talking, Waits, At, me, SessionInv
<1> QED
  BY <1>1, <1>2, Quiet, TypesAre DEF SessionInv

LEMMA AfterCloseIs ==
  ASSUME SessionInv, call' = AfterClose, call.pc \in {"idle", "close", "drain"}
  PROVE  /\ call' \in CallRecord /\ ~call'.starting /\ ~call'.sent /\ call'.writing = "none"
         /\ call'.number = call.number /\ call'.pc \in {"judge", "idle"}
<1>1. {"judge", "idle"} \subseteq Steps /\ ~call.sent /\ call.writing = "none"
  BY DEF Steps, SessionInv, ServerInv, Requests, Waits
<1> QED
  BY <1>1, CallIs DEF AfterClose, CallRecord, SessionInv

LEMMA CloseKeeps ==
  ASSUME SessionInv, Close
  PROVE  SessionInv'
<1>1. /\ call.pc \in {"idle", "close"} /\ lease' = FALSE
      /\ UNCHANGED <<server, helper, pipe, watched, seen, text, run, turn_>>
      /\ server \in {"none", "up", "dead"} /\ helper \in {"none", "group", "stubborn", "beyond"}
  BY TypesAre DEF Close, At, server_, SessionInv
<1>2. CASE server = "none"
  <2>1. call' = AfterClose
    BY <1>2 DEF Close
  <2>2. /\ call' \in CallRecord /\ ~call'.starting /\ ~call'.sent /\ call'.writing = "none"
        /\ call'.number = call.number /\ call'.pc \in {"judge", "idle"}
    BY <1>1, <2>1, AfterCloseIs
  <2> QED
    BY <1>1, <1>2, <2>2, Leaves
<1>3. CASE server # "none"
  <2>1. call' \in CallRecord /\ Arrives("terminate", call.starting)
    BY <1>3, Goes DEF Close, SessionInv, Steps
  <2> QED
    BY <1>1, <1>3, <2>1, Leaves DEF Arrives
<1> QED
  BY <1>2, <1>3

LEMMA TerminateKeeps ==
  ASSUME SessionInv, Terminate
  PROVE  SessionInv'
<1>1. /\ server' = "dead" /\ helper' \in {"none", "group", "stubborn", "beyond"} /\ lease' \in BOOLEAN
      /\ UNCHANGED <<pipe, watched, seen, text, run, turn_>>
  BY TypesAre DEF Terminate, SessionInv
<1>2. call' \in CallRecord /\ Arrives("drain", call.starting)
  BY Goes DEF Terminate, SessionInv, Steps
<1> QED
  BY <1>1, <1>2, Leaves DEF Arrives

LEMMA HelperKeeps ==
  ASSUME SessionInv, SpawnHelper \/ HelperEnds
  PROVE  SessionInv'
<1>1. /\ UNCHANGED <<server, pipe, watched, lease, call, seen, text, run, turn_>>
      /\ helper' \in {"none", "group", "stubborn", "beyond"}
  BY DEF SpawnHelper, HelperEnds, client_
<1>2. call' \in CallRecord
  BY <1>1, CallIs DEF SessionInv
<1>3. SessionTypeOK'
  BY <1>1, <1>2, QuietTypes, TypesAre DEF SessionInv
<1>4. ServerInv' /\ CutInv' /\ TurnInv' /\ OrderInv'
  BY <1>1 DEF SessionInv, ServerInv, CutInv, TurnInv, OrderInv, turn_, me, At, Fresh,
              Answers, Unended, EndsOf, MessagesOf
<1> QED
  BY <1>3, <1>4 DEF SessionInv

(* The directories and the provider's configuration come before the        *)
(* process, and the process before the first answer.                       *)
LEMMA StartServerKeeps ==
  ASSUME SessionInv, StartServer
  PROVE  SessionInv'
<1>1. /\ At("start") /\ server # "up" /\ lease' \in BOOLEAN /\ ~call.starting /\ ~call.sent
      /\ run # "completed" /\ call.writing = "none"
      /\ UNCHANGED <<seen, text, run, turn_>> /\ call.number # 0 /\ SessionTypeOK
  BY DEF StartServer, Acquire, SessionInv, SessionTypeOK, ServerInv, At, Requests, Waits, me
<1>2. "unknown" \in Classes /\ {"close", "initialize"} \subseteq Steps
  BY DEF Classes, Steps, Requests
<1>3. CASE Raise("unknown") /\ UNCHANGED <<server_, watched>>
  <2>1. call' \in CallRecord /\ Arrives("judge", call.starting)
    BY <1>1, <1>2, <1>3, Raises
  <2> QED
    BY <1>1, <1>3, <2>1, Leaves, TypesAre DEF Arrives, server_
<1>4. CASE /\ call' = [call EXCEPT !.pc = "close", !.starting = TRUE, !.error = "unknown"]
           /\ UNCHANGED <<server_, watched>>
  <2>1. call' \in CallRecord /\ Arrives("close", TRUE)
    BY <1>1, <1>2, <1>4, CallIs DEF Arrives, CallRecord
  <2> QED
    BY <1>1, <1>4, <2>1, Leaves, TypesAre DEF Arrives, server_
<1>5. CASE /\ Acquire /\ server' = "up" /\ helper' = "none" /\ pipe' \in Leftovers
           /\ watched' = (watched \/ server = "dead")
           /\ call' = [call EXCEPT !.pc = "initialize", !.starting = TRUE]
  <2>1. call' \in CallRecord /\ Arrives("initialize", TRUE)
    BY <1>1, <1>2, <1>5, CallIs DEF Arrives, CallRecord
  <2>2. Shifted(0) /\ 0 \in Nat
    BY <1>1, <1>5, LeftoversAre
  <2>3. /\ \A i \in 1 .. Len(pipe') : i \in 1 .. Len(pipe) /\ pipe'[i] = pipe[i]
        /\ Len(pipe') \in Nat /\ Len(pipe) \in Nat /\ Len(pipe) <= PipeLimit
        /\ Len(pipe') <= Len(pipe) /\ PipeLimit \in Nat /\ pipe' \in Seq(Lines)
    BY <1>1, <2>2, SessionAssumption DEF Shifted, SessionTypeOK
  <2>4. SessionTypeOK'
    BY <1>1, <1>5, <2>1, <2>3, TypesAre DEF SessionTypeOK, CallRecord, turn_
  <2>5. ServerInv'
    BY <1>1, <1>5, <2>1 DEF Acquire, ServerInv, Arrives, At, me, Talking, Waits
  <2>6. /\ call'.number = call.number /\ call'.pc = "initialize" /\ call'.writing = "none"
        /\ call'.starting /\ server' = "up" /\ Fresh
    BY <1>1, <1>5, <2>1 DEF Arrives, Fresh, At
  <2>7. ASSUME NEW i \in 1 .. Len(pipe'), pipe'[i].kind = "response"
        PROVE  pipe'[i].id[1] <= call'.number /\ pipe'[i].id[1] # call'.number
    BY <1>1, <2>3, <2>6, <2>7 DEF SessionInv, CutInv, me
  <2>8. CutInv'
    BY <2>6, <2>7 DEF CutInv, Answers, At, me, Talking, Waits
  <2>9. UNCHANGED <<turn, said, asked>>
    BY <1>1 DEF turn_
  <2>10. TurnInv'
    <3>1. Fresh'
      BY <2>6 DEF Fresh
    <3> QED
      BY <1>1, <2>3, <2>6, <2>9, <3>1 DEF SessionInv, TurnInv, At, me
  <2>11. OrderInv'
    BY <1>1, <2>3, <2>6, <2>9 DEF SessionInv, OrderInv, me, Talking, Waits
  <2> QED
    BY <2>4, <2>5, <2>8, <2>10, <2>11 DEF SessionInv
<1> QED
  BY <1>3, <1>4, <1>5 DEF StartServer

LEMMA DrainKeeps ==
  ASSUME SessionInv, Drain
  PROVE  SessionInv'
<1>1. /\ At("drain") /\ server' = "none" /\ SessionTypeOK
      /\ UNCHANGED <<helper, watched, lease, seen, text, run, turn_>>
  BY DEF Drain, SessionInv
<1>2. /\ call' \in CallRecord /\ ~call'.starting /\ ~call'.sent /\ call'.writing = "none"
      /\ call'.number = call.number /\ call'.pc \in {"judge", "idle"}
  BY <1>1, AfterCloseIs DEF Drain, At
<1>3. Shifted(0) /\ 0 \in Nat
  BY <1>1, LeftoversAre DEF Drain
<1>4. /\ \A i \in 1 .. Len(pipe') : i \in 1 .. Len(pipe) /\ pipe'[i] = pipe[i]
      /\ Len(pipe') \in Nat /\ Len(pipe) \in Nat /\ Len(pipe) <= PipeLimit
      /\ Len(pipe') <= Len(pipe) /\ PipeLimit \in Nat /\ pipe' \in Seq(Lines)
  BY <1>1, <1>3, SessionAssumption DEF Shifted, SessionTypeOK
<1>5. SessionTypeOK'
  BY <1>1, <1>2, <1>4 DEF SessionTypeOK, CallRecord, turn_
<1>6. Orderly /\ RunEnds /\ ~At("complete")' /\ call.pc \notin Talking
  BY <1>1, <1>2 DEF Orderly, Whole, RunEnds, Talking, Waits, Fresh, At
<1>7. ServerInv'
  BY <1>1, <1>2 DEF ServerInv, Talking, Waits, At, me, SessionInv
<1>8. text' => said
  BY <1>1 DEF SessionInv, OrderInv
<1>9. CutInv' /\ TurnInv'
  BY <1>1, <1>3, <1>5, <1>6, CutsStay, TurnsStay
<1>10. OrderInv'
  BY <1>1, <1>3, <1>5, <1>6, <1>8, OrderStays DEF SessionInv, OrderInv
<1> QED
  BY <1>5, <1>7, <1>9, <1>10 DEF SessionInv

LEMMA ExecuteKeeps ==
  ASSUME SessionInv, Execute
  PROVE  SessionInv'
<1>1. /\ At("idle") /\ call.number < CallLimit /\ run' = "running" /\ ~text' /\ ~said'
      /\ UNCHANGED <<server, helper, pipe, watched, lease, seen, turn, asked>>
      /\ text' = FALSE /\ said' = FALSE
      /\ call' = [call EXCEPT !.pc = "start", !.number = call.number + 1, !.error = "none"]
  BY DEF Execute, me, server_
<1>2. /\ call.number \in Nat /\ CallLimit \in Nat /\ call \in CallRecord
      /\ ~call.sent /\ ~call.starting /\ call.writing = "none"
      /\ SessionTypeOK /\ "start" \in Steps
  BY <1>1, CallIs, SessionAssumption DEF SessionInv, ServerInv, At, Requests, Waits, Steps
<1>3. /\ call' \in CallRecord /\ call'.pc = "start" /\ call'.number = call.number + 1
      /\ ~call'.sent /\ ~call'.starting /\ call'.writing = "none"
  <2>1. call.number + 1 \in 0 .. CallLimit /\ "none" \in {"none"} \union Classes
    BY <1>1, <1>2, CallIs
  <2> QED
    BY <1>1, <1>2, <2>1 DEF CallRecord
<1>4. SessionTypeOK'
  BY <1>1, <1>2, <1>3 DEF SessionTypeOK, CallRecord
<1>5. ServerInv'
  BY <1>1, <1>2, <1>3 DEF SessionInv, ServerInv, At, me, Talking, Waits
<1>6. Len(pipe) \in Nat
  BY <1>2 DEF SessionTypeOK
<1>7. \A i \in 1 .. Len(pipe) :
        pipe[i].kind = "response" =>
          pipe[i].id[1] <= call.number + 1 /\ pipe[i].id[1] # call.number + 1
  <2>1. TAKE i \in 1 .. Len(pipe)
  <2>2. HAVE pipe[i].kind = "response"
  <2>3. pipe[i].id[1] <= call.number
    BY <2>2 DEF SessionInv, CutInv, me
  <2>4. pipe[i] \in Lines
    BY <1>2 DEF SessionTypeOK
  <2>5. pipe[i].id \in Ids
    BY <2>2, <2>4, LinesAre
  <2>6. pipe[i].id[1] \in Nat
    BY <2>5 DEF Ids, Calls
  <2> QED
    BY <1>2, <2>3, <2>6
<1>8. CutInv'
  BY <1>1, <1>2, <1>3, <1>7 DEF SessionInv, CutInv, Answers, At, me, Talking, Waits
<1>9. \A c \in Calls : turn[c] # "none" => c <= call.number + 1 /\ c # call.number + 1
  BY <1>2 DEF SessionInv, TurnInv, me, Calls
<1>10. TurnInv'
  BY <1>1, <1>3, <1>9 DEF SessionInv, TurnInv, At, me
<1>11. \A i \in 1 .. Len(pipe) :
        pipe[i].kind = "message" =>
          pipe[i].turn <= call.number + 1 /\ pipe[i].turn # call.number + 1
  <2>1. TAKE i \in 1 .. Len(pipe)
  <2>2. HAVE pipe[i].kind = "message"
  <2>3. pipe[i].turn <= call.number
    BY <2>2 DEF SessionInv, OrderInv, me
  <2>4. pipe[i] \in Lines
    BY <1>2 DEF SessionTypeOK
  <2>5. pipe[i].turn \in Nat
    BY <2>2, <2>4, LinesAre DEF Calls
  <2> QED
    BY <1>2, <2>3, <2>5
<1>12. OrderInv'
  BY <1>1, <1>3, <1>11 DEF OrderInv, me, Talking, Waits
<1> QED
  BY <1>4, <1>5, <1>8, <1>10, <1>12 DEF SessionInv

(* A write that fails is the end of the call, but at thread/read. *)
LEMMA FailedWriteKeeps ==
  ASSUME SessionInv, call.pc \in Requests \union Waits, WriteFails,
         UNCHANGED <<server_, watched, lease, seen, text, run, turn_>>
  PROVE  SessionInv'
<1>1. /\ SessionTypeOK /\ RunEnds /\ ~At("terminate") /\ ~At("drain")
      /\ {"unknown", "network"} \subseteq Classes
  BY DEF SessionInv, RunEnds, At, Requests, Waits, Classes
<1>2. /\ call' \in CallRecord
      /\ \/ At("thread/read") /\ Arrives("second", call.starting)
         \/ Arrives(IF call.starting THEN "close" ELSE "judge", call.starting)
  <2>1. CASE Raise("unknown") \/ Raise("network")
    BY <1>1, <2>1, Raises
  <2>2. CASE Fails("unknown")
    BY <1>1, <2>2, FailsIs
  <2> QED
    BY <2>1, <2>2 DEF WriteFails
<1>3. CASE At("thread/read") /\ Arrives("second", call.starting)
  <2>1. call.pc \in Talking
    BY <1>3 DEF At, Talking
  <2> QED
    BY <1>1, <1>2, <1>3, <2>1, MovesOn
<1>4. CASE Arrives(IF call.starting THEN "close" ELSE "judge", call.starting)
  <2>1. call.starting \in BOOLEAN
    BY <1>1, CallIs
  <2> QED
    BY <1>1, <1>2, <1>4, <2>1, MovesOn
<1> QED
  BY <1>2, <1>3, <1>4

(* The turn begins with the request for it. *)
LEMMA SendRequestKeeps ==
  ASSUME SessionInv, NEW method \in Requests, SendRequest(method)
  PROVE  SessionInv'
<1>1. /\ call.pc = method /\ ~call.sent /\ call.writing = "none"
      /\ SessionTypeOK /\ call.number \in Calls
      /\ UNCHANGED <<server, helper, pipe, watched, lease, seen, text, run, said, asked>>
      /\ UNCHANGED <<server_, watched, lease, seen, text, run>>
  <2>1. call.pc = method /\ call.number # 0
    BY DEF SendRequest, At, SessionInv, ServerInv, Talking, Requests, me
  <2> QED
    BY <2>1, CallIs DEF SendRequest, SessionInv, server_, Calls
<1>2. /\ ~At("terminate") /\ ~At("drain") /\ RunEnds
      /\ call.pc \in Talking \/ call.starting
  BY <1>1 DEF At, Requests, RunEnds, Talking, SessionInv, ServerInv
<1>3. CASE /\ server = "up" /\ call' = [call EXCEPT !.sent = TRUE]
           /\ turn' = IF method = "turn/start" THEN [turn EXCEPT ![me] = "working"] ELSE turn
  <2>1. /\ call' \in CallRecord /\ call'.pc = call.pc /\ call'.number = call.number
        /\ call'.starting = call.starting /\ call'.sent /\ call'.writing = "none"
    BY <1>1, <1>3, CallIs DEF CallRecord
  <2>2. Orderly /\ ServerInv' /\ (At("complete")' => At("complete"))
    BY <1>1, <2>1 DEF Orderly, Whole, SessionInv, ServerInv, Talking, Waits, At, Fresh, me, Requests
  <2>3. CASE method # "turn/start"
    <3>1. UNCHANGED turn_
      BY <1>1, <1>3, <2>3 DEF turn_
    <3> QED
      BY <1>1, <1>2, <2>1, <2>2, <3>1, Quiet, TypesAre DEF SessionInv
  <2>4. CASE method = "turn/start"
    <3>1. turn' = [turn EXCEPT ![call.number] = "working"]
      BY <1>3, <2>4 DEF me
    <3>2. SessionTypeOK'
      BY <1>1, <2>1, <3>1 DEF SessionTypeOK, CallRecord
    <3>3. CutInv'
      BY <1>1, <1>3, <2>1 DEF SessionInv, CutInv, Answers, At, me
    <3>4. Fresh /\ turn[call.number] = "none" /\ ~Fresh'
      BY <1>1, <2>1, <2>4 DEF SessionInv, TurnInv, Fresh, me
    <3>5. /\ turn'[call.number] = "working"
          /\ \A c \in Calls : c # call.number => turn'[c] = turn[c]
          /\ \A c \in Calls : turn[c] # "none" => turn'[c] = turn[c]
      BY <1>1, <3>1, <3>4 DEF SessionTypeOK
    <3>6. \A c \in Calls : turn'[c] # "none" => c <= call.number
      BY <1>1, <3>5 DEF SessionInv, TurnInv, me, Calls
    <3>7. \A i \in 1 .. Len(pipe) :
            pipe[i].kind = "completed" => turn'[pipe[i].turn] = Ended(pipe[i].ok)
      <4>1. TAKE i \in 1 .. Len(pipe)
      <4>2. HAVE pipe[i].kind = "completed"
      <4>3. pipe[i] \in Lines
        BY <1>1 DEF SessionTypeOK
      <4>4. pipe[i].turn \in Calls /\ turn[pipe[i].turn] = Ended(pipe[i].ok)
        BY <4>2, <4>3, LinesAre DEF SessionInv, TurnInv
      <4> QED
        BY <4>4, <3>5 DEF Ended
    <3>8. \A c \in Calls, ok \in BOOLEAN : <<c, ok>> \in seen => turn'[c] = Ended(ok)
      BY <3>5 DEF SessionInv, TurnInv, Ended
    <3>9. run # "completed"
      BY <1>1, <2>4 DEF SessionInv, ServerInv, Talking
    <3>10. TurnInv'
      <4>1. /\ \A c \in Calls, ok \in BOOLEAN : <<c, ok>> \in seen' => turn'[c] = Ended(ok)
            /\ \A i \in 1 .. Len(pipe') :
                 pipe'[i].kind = "completed" => turn'[pipe'[i].turn] = Ended(pipe'[i].ok)
        BY <1>1, <3>7, <3>8
      <4>2. /\ \A c \in Calls : turn'[c] # "none" => c <= call'.number /\ (c = call'.number => ~Fresh')
            /\ \A c \in Calls : asked'[c] => turn'[c] # "none"
        BY <1>1, <2>1, <3>4, <3>5, <3>6 DEF SessionInv, TurnInv
      <4> QED
        BY <1>1, <2>1, <2>4, <3>9, <4>1, <4>2 DEF TurnInv, At, me
    <3>11. ~asked[call.number] /\ ~said
      BY <1>1, <3>4 DEF SessionInv, TurnInv, OrderInv, me
    <3>12. OrderInv'
      BY <1>1, <2>1, <3>11 DEF SessionInv, OrderInv, me
    <3> QED
      BY <2>2, <3>2, <3>3, <3>10, <3>12 DEF SessionInv
  <2> QED
    BY <2>3, <2>4
<1>4. CASE WriteFails /\ UNCHANGED turn
  <2>1. UNCHANGED turn_
    BY <1>1, <1>4 DEF turn_
  <2> QED
    BY <1>1, <1>4, <2>1, FailedWriteKeeps
<1> QED
  BY <1>3, <1>4 DEF SendRequest

LEMMA NotifyInitializedKeeps ==
  ASSUME SessionInv, NotifyInitialized
  PROVE  SessionInv'
<1>1. /\ call.pc = "initialize" /\ call.writing = "initialized" /\ call.starting
      /\ UNCHANGED <<server_, watched, lease, seen, text, run, turn_>>
      /\ UNCHANGED <<server, helper, pipe>> /\ call.number # 0 /\ ~call.sent
      /\ SessionTypeOK /\ run # "completed"
  BY DEF NotifyInitialized, At, server_, SessionInv, ServerInv, me
<1>2. CASE /\ server = "up"
           /\ call' = [call EXCEPT !.pc = "thread/start", !.writing = "none", !.starting = FALSE]
  <2>1. call' \in CallRecord /\ Arrives("thread/start", FALSE)
    BY <1>1, <1>2, CallIs DEF Arrives, CallRecord, Steps, Requests, Writings
  <2>2. \A i \in 1 .. Len(pipe') : pipe'[i].kind # "cut"
    BY <1>1, <1>2 DEF SessionInv, CutInv
  <2>3. Orderly /\ RunEnds /\ ~At("complete")'
    BY <1>1, <1>2, <2>1, <2>2 DEF Orderly, Whole, Answered, RunEnds, Arrives, Fresh, Talking,
                                  Waits, At
  <2>4. ServerInv'
    BY <1>1, <1>2, <2>1 DEF SessionInv, ServerInv, Arrives, Talking, Waits, At, me
  <2> QED
    BY <1>1, <2>1, <2>3, <2>4, Quiet, TypesAre
<1>3. CASE WriteFails
  <2>1. call.pc \in Requests
    BY <1>1 DEF Requests
  <2> QED
    BY <1>1, <1>3, <2>1, FailedWriteKeeps
<1> QED
  BY <1>2, <1>3 DEF NotifyInitialized

-----------------------------------------------------------------------------
(* Reading *)

(* A line that is taken out of the stream: what was before the end of the  *)
(* turn still is, unless it is the line itself.                            *)
LEMMA ReadsInOrder ==
  ASSUME SessionInv, SessionTypeOK', Orderly, RunEnds, UNCHANGED turn_, ~At("complete")',
         pipe # <<>>, pipe' = Tail(pipe), NEW line, line = Head(pipe),
         seen' = IF line.kind = "completed" THEN seen \union {<<line.turn, line.ok>>} ELSE seen,
         text' = (text \/ (line.kind = "message" /\ line.turn = call.number)),
         run' = "running" => line.kind # "request" \/ call'.pc \notin Talking
  PROVE  CutInv' /\ TurnInv' /\ OrderInv'
<1>1. /\ Shifted(1) /\ 1 \in Nat /\ line = pipe[1] /\ line \in Lines /\ 1 \in 1 .. Len(pipe)
      /\ pipe \in Seq(Lines) /\ call.number \in Nat /\ call'.number = call.number
  BY RestIs, CallIs DEF SessionInv, SessionTypeOK, Orderly
<1>2. /\ line.kind = "completed" =>
           /\ line.turn \in Calls /\ line.ok \in BOOLEAN
           /\ turn[line.turn] = Ended(line.ok)
      /\ line.kind = "message" /\ line.turn = call.number => said
  BY <1>1, LinesAre DEF SessionInv, TurnInv, OrderInv, me
<1>3. \A c \in Calls, ok \in BOOLEAN :
        <<c, ok>> \in seen' => <<c, ok>> \in seen \/ (line.kind = "completed" /\ line.turn = c /\ line.ok = ok)
  OBVIOUS
<1>4. CutInv'
  BY <1>1, CutsStay
<1>5. TurnInv'
  BY <1>1, <1>2, <1>3, TurnsStay
<1>6. /\ line \in Questions <=> line.kind = "request"
      /\ line \in MessagesOf(call.number) <=> line.kind = "message" /\ line.turn = call.number
      /\ line \in EndsOf(call.number) <=> line.kind = "completed" /\ line.turn = call.number
  BY <1>1 DEF Questions, MessagesOf, EndsOf
<1>7. Unended /\ line \notin EndsOf(call.number) => Unended'
  BY <1>1, <1>6 DEF Unended, me
<1>8. call.pc \in Talking /\ call'.pc \in Talking /\ asked[call.number] /\ run' = "running" =>
        Unended' /\ Ahead(Questions, EndsOf(call.number), pipe')
  <2>1. HAVE call.pc \in Talking /\ call'.pc \in Talking /\ asked[call.number] /\ run' = "running"
  <2>2. run = "running" /\ line \notin Questions
    BY <1>6, <2>1 DEF RunEnds
  <2>3. Unended /\ Ahead(Questions, EndsOf(call.number), pipe)
    BY <2>1, <2>2 DEF SessionInv, OrderInv, me
  <2>4. line \notin EndsOf(call.number) /\ Ahead(Questions, EndsOf(call.number), pipe')
    BY <1>1, <2>2, <2>3, AheadOfTheRest
  <2> QED
    BY <1>7, <2>3, <2>4
<1>9. call.pc \in Talking /\ said /\ ~text' =>
        Unended' /\ Ahead(MessagesOf(call.number), EndsOf(call.number), pipe')
  <2>1. HAVE call.pc \in Talking /\ said /\ ~text'
  <2>2. ~text /\ line \notin MessagesOf(call.number)
    BY <1>6, <2>1
  <2>3. Unended /\ Ahead(MessagesOf(call.number), EndsOf(call.number), pipe)
    BY <2>1, <2>2 DEF SessionInv, OrderInv, me
  <2>4. line \notin EndsOf(call.number) /\ Ahead(MessagesOf(call.number), EndsOf(call.number), pipe')
    BY <1>1, <2>2, <2>3, AheadOfTheRest
  <2> QED
    BY <1>7, <2>3, <2>4
<1>10. text' => said
  BY <1>2 DEF SessionInv, OrderInv
<1>11. OrderInv'
  BY <1>1, <1>8, <1>9, <1>10, OrderStays
<1> QED
  BY <1>4, <1>5, <1>11

(* Where a call may be after a line, or after the denial it asked for. *)
AfterALine(line) ==
  \/ UNCHANGED call
  \/ Arrives("second", call.starting) /\ At("thread/read")
  \/ Arrives(IF call.starting THEN "close" ELSE "judge", call.starting)
  \/ Initialized /\ line.kind = "response"
  \/ /\ Arrives(Next_(call.pc), call.starting) /\ call.pc \in Requests /\ ~At("initialize")
     /\ At("thread/read") \/ line.kind = "response"

(* The denial of a request of the server is still to be written. *)
Owes ==
  /\ UNCHANGED <<call.pc, call.number, call.sent, call.starting>>
  /\ call'.writing \in {"none", "denial", "answer"} /\ (call'.writing = "answer" => call.sent)

LEMMA LineMoves ==
  ASSUME SessionInv, NEW line,
         \/ UNCHANGED call
         \/ Fails("unknown") \/ Raise("unknown")
         \/ call.sent /\ Resume(line)
  PROVE  call' \in CallRecord /\ AfterALine(line)
<1>1. SessionTypeOK /\ "unknown" \in Classes /\ (call.sent => call.pc \in Requests)
  BY DEF SessionInv, Classes, ServerInv
<1>2. CASE UNCHANGED call
  BY <1>1, <1>2, CallIs DEF AfterALine
<1>3. CASE Fails("unknown")
  BY <1>1, <1>3, FailsIs DEF AfterALine
<1>4. CASE call.sent /\ Resume(line)
  BY <1>1, <1>4, ResumeIs DEF AfterALine
<1>5. CASE Raise("unknown")
  BY <1>1, <1>5, Raises DEF AfterALine
<1> QED
  BY <1>2, <1>3, <1>4, <1>5

LEMMA OwesIs ==
  ASSUME SessionInv, NEW line, OweDenial(line)
  PROVE  call' \in CallRecord /\ Owes
<1>1. PICK w \in {"denial", "answer"} :
        call' = [call EXCEPT !.writing = w] /\ (w = "answer" => call.sent)
  BY DEF OweDenial
<1> QED
  BY <1>1, CallIs DEF Owes, CallRecord, Writings, SessionInv

(* The answer of a server that lives: every line that is left is whole,    *)
(* for what its predecessor had not finished stood before the answer.      *)
LEMMA AnswerIsClean ==
  ASSUME SessionInv, pipe # <<>>, pipe' = Tail(pipe), Head(pipe).kind = "response",
         Head(pipe).id = requestId, At("initialize"), server = "up"
  PROVE  \A i \in 1 .. Len(pipe') : pipe'[i].kind # "cut"
<1>1. /\ Shifted(1) /\ Head(pipe) = pipe[1] /\ 1 \in 1 .. Len(pipe)
  BY RestIs DEF SessionInv
<1>2. Answers(pipe, 1, call.number) /\ call.starting
  BY <1>1 DEF Answers, requestId, me, SessionInv, ServerInv, At
<1>3. \A i \in 1 .. Len(pipe) : pipe[i].kind = "cut" => i < 1
  BY <1>1, <1>2 DEF SessionInv, CutInv, me
<1> QED
  BY <1>1, <1>3 DEF Shifted

LEMMA OwingIsOrderly ==
  ASSUME SessionInv, Owes, call.pc \in Requests \union Waits, UNCHANGED <<server, lease>>,
         run' # "none" => run # "none", run' = "completed" => run = "completed"
  PROVE  Orderly /\ ServerInv' /\ ~At("complete")'
<1>1. Orderly /\ ~At("complete")'
  BY DEF Owes, Orderly, Whole, Fresh, At, Requests, Waits, Talking
<1> QED
  BY <1>1 DEF Owes, SessionInv, ServerInv, At, Requests, Waits, Talking, me

LEMMA LineIsOrderly ==
  ASSUME SessionInv, call.pc \in Waits \/ call.sent, NEW line, AfterALine(line),
         UNCHANGED <<server, lease>>,
         line.kind = "response" =>
           /\ pipe # <<>> /\ pipe' = Tail(pipe) /\ line = Head(pipe)
           /\ \/ line.id = requestId \/ UNCHANGED call
              \/ Arrives(IF call.starting THEN "close" ELSE "judge", call.starting),
         run' # "none" => run # "none", run' = "completed" => run = "completed"
  PROVE  Orderly /\ ServerInv' /\ ~At("complete")'
<1>1. /\ call.pc \in Requests \union Waits
      /\ call.pc \in Talking \/ (At("initialize") /\ call.starting)
      /\ call.pc \in Talking => ~call.starting
      /\ ~At("terminate") /\ ~At("drain") /\ ~At("idle") /\ ~At("start")
      /\ call.starting \in BOOLEAN
  BY CallIs DEF SessionInv, ServerInv, At, Requests, Waits, Talking
<1>2. CASE UNCHANGED call
  <2>1. Orderly /\ ~At("complete")'
    BY <1>1, <1>2 DEF Orderly, Whole, Fresh, At, Requests, Waits, Talking
  <2> QED
    BY <1>1, <1>2, <2>1 DEF SessionInv, ServerInv, At, me
<1>3. CASE Arrives("second", call.starting) /\ At("thread/read")
  <2>1. Orderly /\ ~At("complete")'
    BY <1>1, <1>3 DEF Orderly, Whole, Arrives, Fresh, At, Requests, Waits, Talking
  <2> QED
    BY <1>1, <1>3, <2>1, ServerStays DEF Arrives, At, Waits, Talking
<1>4. CASE Arrives(IF call.starting THEN "close" ELSE "judge", call.starting)
  <2>1. Orderly /\ ~At("complete")'
    BY <1>1, <1>4 DEF Orderly, Whole, Arrives, Fresh, At, Requests, Waits, Talking
  <2> QED
    BY <1>1, <1>4, <2>1, ServerStays DEF Arrives, At, Waits, Talking
<1>5. CASE Initialized /\ line.kind = "response"
  <2>1. line.id = requestId
    <3>1. call.sent /\ ~call'.sent /\ call'.pc = "initialize"
      BY <1>5 DEF Initialized, At, Waits
    <3> QED
      BY <1>5, <3>1 DEF Arrives
  <2>2. server = "up" => \A i \in 1 .. Len(pipe') : pipe'[i].kind # "cut"
    BY <1>5, <2>1, AnswerIsClean DEF Initialized
  <2>3. Orderly /\ ~At("complete")'
    BY <1>5, <2>2 DEF Initialized, Orderly, Whole, Fresh, At, Requests, Waits, Talking
  <2> QED
    BY <1>5, <2>3 DEF Initialized, SessionInv, ServerInv, At, Requests, Waits, Talking, me
<1>6. CASE /\ Arrives(Next_(call.pc), call.starting) /\ call.pc \in Requests /\ ~At("initialize")
           /\ At("thread/read") \/ line.kind = "response"
  <2>1. /\ call'.number = call.number /\ ~call'.sent /\ call'.writing = "none"
        /\ call'.pc = Next_(call.pc) /\ call.pc \in {"thread/start", "turn/start", "thread/read"}
    BY <1>6 DEF Arrives, Requests, At
  <2>2. call'.pc \in {"turn/start", "first", "second"} /\ call.sent /\ ~call.starting
    BY <1>1, <2>1, NextIs DEF Waits, Talking
  <2>3. Fresh' => Fresh
    BY <2>1, <2>2, NextIs DEF Fresh
  <2>4. call'.starting = FALSE /\ call.starting = FALSE
    BY <1>1, <1>6, <2>2 DEF Arrives
  <2>5. Orderly /\ ~At("complete")'
    BY <2>1, <2>2, <2>3, <2>4 DEF Orderly, Whole, Talking, Waits, At
  <2> QED
    BY <1>1, <2>1, <2>2, <2>4, <2>5, ServerStays DEF Talking, Waits, At
<1> QED
  BY <1>2, <1>3, <1>4, <1>5, <1>6 DEF AfterALine

LEMMA ReadLineKeeps ==
  ASSUME SessionInv, ReadLine
  PROVE  SessionInv'
<1>1. /\ Waiting /\ pipe # <<>> /\ pipe' = Tail(pipe)
      /\ UNCHANGED <<server, helper, watched, lease, turn_>> /\ SessionTypeOK
  BY DEF ReadLine, Readable, SessionInv
<1>2. PICK line : line = Head(pipe)
  OBVIOUS
<1>3. /\ Shifted(1) /\ line \in Lines /\ call.number \in Nat
      /\ pipe' \in Seq(Lines) /\ Len(pipe') <= Len(pipe) /\ Len(pipe) <= PipeLimit
      /\ Len(pipe') \in Nat /\ Len(pipe) \in Nat /\ PipeLimit \in Nat
  BY <1>1, <1>2, RestIs, CallIs, SessionAssumption DEF Shifted, SessionTypeOK
<1>4. /\ line.kind = "completed" => line.turn \in Calls /\ line.ok \in BOOLEAN
      /\ call.pc \in Requests \union Waits /\ (call.pc \in Waits \/ call.sent)
  BY <1>1, <1>3, LinesAre, WaitingIs
<1>5. /\ \/ UNCHANGED call
         \/ Raise("unknown")
         \/ line.kind = "request" /\ OweDenial(line)
         \/ line.kind = "response" /\ line.id = requestId /\ call.sent /\ Resume(line)
      /\ seen' = IF line.kind = "completed" THEN seen \union {<<line.turn, line.ok>>} ELSE seen
      /\ text' = (text \/ (line.kind = "message" /\ line.turn = call.number))
      /\ \/ run' = IF line.kind = "request" /\ run = "running" THEN "safe_stopped" ELSE run
         \/ line.kind = "request" /\ Raise("unknown") /\ run' = run
  <2>1. CASE line.kind = "request"
    <3>1. DenyRequest(line)
      BY <1>2, <2>1 DEF ReadLine
    <3>2. text \in BOOLEAN
      BY <1>1 DEF SessionTypeOK
    <3> QED
      BY <2>1, <3>1, <3>2 DEF DenyRequest, StopRun
  <2>2. CASE line.kind # "request"
    BY <1>2, <2>2 DEF ReadLine, TakeText, me
  <2> QED
    BY <2>1, <2>2
<1>6. /\ run' # "none" => run # "none"
      /\ run' = "completed" => run = "completed"
      /\ RunEnds
      /\ run' = "running" => line.kind # "request" \/ Raise("unknown")
  BY <1>5 DEF RunEnds
<1>7. call' \in CallRecord
  BY <1>5, LineMoves, OwesIs
<1>8. Orderly /\ ServerInv' /\ ~At("complete")'
  <2>1. CASE line.kind = "request" /\ OweDenial(line)
    BY <1>1, <1>4, <1>6, <2>1, OwesIs, OwingIsOrderly
  <2>2. CASE Raise("unknown")
    <3>1. Arrives(IF call.starting THEN "close" ELSE "judge", call.starting)
      BY <1>1, <2>2, Raises DEF Classes
    <3>2. AfterALine(line)
      BY <3>1 DEF AfterALine
    <3> QED
      BY <1>1, <1>2, <1>4, <1>6, <3>1, <3>2, LineIsOrderly
  <2>3. CASE UNCHANGED call
    <3>1. AfterALine(line)
      BY <2>3 DEF AfterALine
    <3> QED
      BY <1>1, <1>2, <1>4, <1>6, <2>3, <3>1, LineIsOrderly
  <2>4. CASE line.kind = "response" /\ line.id = requestId /\ call.sent /\ Resume(line)
    BY <1>1, <1>2, <1>4, <1>6, <2>4, LineMoves, LineIsOrderly
  <2> QED
    BY <1>5, <2>1, <2>2, <2>3, <2>4
<1>9. SessionTypeOK'
  <2>1. seen' \subseteq Calls \X BOOLEAN /\ text' \in BOOLEAN
    BY <1>1, <1>4, <1>5 DEF SessionTypeOK
  <2>2. run' \in {"none", "running", "safe_stopped", "completed"} /\ Len(pipe') <= PipeLimit
    BY <1>1, <1>3, <1>5 DEF SessionTypeOK
  <2> QED
    BY <1>1, <1>3, <1>7, <2>1, <2>2 DEF SessionTypeOK, CallRecord, turn_
<1>10. run' = "running" => line.kind # "request" \/ call'.pc \notin Talking
  <2>1. Raise("unknown") => call'.pc \notin Talking
    BY <1>1, Raises DEF Classes, Arrives, Talking, Waits
  <2> QED
    BY <1>6, <2>1
<1>11. CutInv' /\ TurnInv' /\ OrderInv'
  BY <1>1, <1>2, <1>5, <1>6, <1>8, <1>9, <1>10, ReadsInOrder
<1> QED
  BY <1>8, <1>9, <1>11 DEF SessionInv


(* The denial of a request: it may have been what the call waits for.      *)
LEMMA SendDenialKeeps ==
  ASSUME SessionInv, SendDenial
  PROVE  SessionInv'
<1>1. /\ call.pc \in Requests \union Waits
      /\ UNCHANGED <<server_, watched, lease, seen, text, run, turn_>>
      /\ UNCHANGED <<server, helper, pipe>> /\ SessionTypeOK /\ RunEnds
      /\ call.writing \in {"denial", "answer"} /\ (call.writing = "answer" => call.sent)
  BY DEF SendDenial, server_, SessionInv, ServerInv, RunEnds
<1>2. CASE call.writing = "denial" /\ call' = [call EXCEPT !.writing = "none"]
  <2>1. call' \in CallRecord /\ Owes
    BY <1>1, <1>2, CallIs DEF Owes, CallRecord, Writings
  <2>2. Orderly /\ ServerInv' /\ ~At("complete")'
    BY <1>1, <2>1, OwingIsOrderly
  <2> QED
    BY <1>1, <2>1, <2>2, Quiet, TypesAre
<1>3. CASE call.writing = "answer" /\ Resume([kind |-> "request"])
  <2>1. PICK line : line = [kind |-> "request"]
    OBVIOUS
  <2>2. line.kind # "response" /\ Resume(line) /\ call.sent
    BY <1>1, <1>3, <2>1
  <2>3. call' \in CallRecord /\ AfterALine(line)
    BY <2>2, LineMoves
  <2>4. Orderly /\ ServerInv' /\ ~At("complete")'
    BY <1>1, <2>2, <2>3, LineIsOrderly
  <2> QED
    BY <1>1, <2>3, <2>4, Quiet, TypesAre
<1>4. CASE WriteFails
  BY <1>1, <1>4, FailedWriteKeeps
<1> QED
  BY <1>1, <1>2, <1>3, <1>4 DEF SendDenial

(* Only a call that waits for its server to start meets an unfinished      *)
(* line with more behind it.                                               *)
LEMMA ReadGarbledKeeps ==
  ASSUME SessionInv, ReadGarbled
  PROVE  SessionInv'
<1>1. /\ Waiting /\ pipe # <<>> /\ Len(pipe) > 1 /\ Head(pipe).kind = "cut"
      /\ pipe' = Tail(Tail(pipe)) /\ (Fails("unknown") \/ Raise("unknown")) /\ SessionTypeOK
      /\ UNCHANGED <<server, helper, watched, lease, seen, text, run, turn_>>
  BY DEF ReadGarbled, Readable, Cut, SessionInv
<1>2. pipe \in Seq(Lines) /\ Len(pipe) \in Nat /\ Head(pipe) = pipe[1] /\ 1 \in 1 .. Len(pipe)
  BY <1>1, ShorterStream DEF SessionTypeOK
<1>3. call.pc \notin Talking
  <2>1. ASSUME call.pc \in Talking PROVE FALSE
    <3>1. Len(pipe) = 1
      BY <1>1, <1>2, <2>1 DEF SessionInv, CutInv
    <3>2. Len(pipe) > 1
      BY <1>1
    <3> QED
      BY <3>1, <3>2
  <2> QED
    BY <2>1
<1>4. call.pc = "initialize" /\ call.starting /\ ~At("thread/read")
  BY <1>1, <1>3, WaitingIs DEF At
<1>5. call' \in CallRecord /\ Arrives("close", call.starting)
  BY <1>1, <1>4, FailsIs, Raises DEF Classes
<1>6. Shifted(2) /\ 2 \in Nat
  BY <1>1, RestAfterCutIs
<1>7. /\ pipe' \in Seq(Lines) /\ Len(pipe') <= PipeLimit
  BY <1>1, <1>2, <1>6, SessionAssumption DEF Shifted, SessionTypeOK
<1>8. SessionTypeOK'
  BY <1>1, <1>5, <1>7 DEF SessionTypeOK, CallRecord, turn_
<1>9. Orderly /\ RunEnds /\ ~At("complete")'
  BY <1>1, <1>4, <1>5 DEF Orderly, Whole, RunEnds, Arrives, Talking, Waits, Fresh, At
<1>10. ServerInv'
  BY <1>1, <1>4, <1>5, ServerStays DEF Arrives, At, Talking, Waits
<1>11. text' => said
  BY <1>1 DEF SessionInv, OrderInv
<1>12. CutInv' /\ TurnInv'
  BY <1>1, <1>6, <1>8, <1>9, CutsStay, TurnsStay
<1>13. OrderInv'
  BY <1>1, <1>3, <1>6, <1>8, <1>9, <1>11, OrderStays
<1> QED
  BY <1>8, <1>10, <1>12, <1>13 DEF SessionInv

-----------------------------------------------------------------------------
(* Writing *)

(* How far turns are when the server has written a line: those at work may *)
(* have ended.                                                             *)
TurnsEnd ==
  /\ turn' \in [Calls -> {"none", "working", "completed", "failed"}]
  /\ \A c \in Calls :
       /\ turn[c] # "working" => turn'[c] = turn[c]
       /\ turn[c] = "working" => turn'[c] \in {"working", "completed", "failed"}

LEMMA WritesKeep ==
  ASSUME SessionInv, NEW line \in Lines, Write(line), TurnsEnd,
         said' \in BOOLEAN, asked' \in [Calls -> BOOLEAN], said => said',
         line.kind # "cut",
         line.kind = "response" => call.sent /\ line.id = requestId,
         line.kind = "completed" => turn'[line.turn] = Ended(line.ok),
         line.kind = "message" => line.turn = call.number /\ said',
         \A c \in Calls : asked'[c] /\ ~asked[c] => turn[c] = "working" /\ line.kind = "request",
         said' /\ ~said => /\ call.number \in Calls /\ turn[call.number] = "working"
                           /\ line.kind = "message" /\ line.turn = call.number
  PROVE  SessionInv'
<1>1. /\ SessionTypeOK /\ server = "up" /\ Len(pipe) < PipeLimit /\ pipe' = Append(pipe, line)
      /\ UNCHANGED <<server, helper, watched, lease, call, seen, text, run>>
      /\ pipe \in Seq(Lines) /\ Len(pipe) \in Nat /\ PipeLimit \in Nat
      /\ call.number \in 0 .. CallLimit /\ CallLimit \in Nat
  BY CallIs, SessionAssumption DEF Write, client_, SessionInv, SessionTypeOK
<1>2. /\ pipe' \in Seq(Lines) /\ Len(pipe') = Len(pipe) + 1 /\ Len(pipe') \in Nat
      /\ \A i \in 1 .. Len(pipe) : pipe'[i] = pipe[i]
      /\ pipe'[Len(pipe) + 1] = line
  BY <1>1, LongerStream
<1>3. \A i \in 1 .. Len(pipe') : i \in 1 .. Len(pipe) \/ (i = Len(pipe) + 1 /\ pipe'[i] = line)
  BY <1>1, <1>2
<1>4. SessionTypeOK'
  BY <1>1, <1>2 DEF SessionTypeOK, TurnsEnd
<1>5. ServerInv'
  BY <1>1 DEF SessionInv, ServerInv, At, me
<1>6. CutInv'
  <2>1. \A i \in 1 .. Len(pipe') : pipe'[i].kind = "cut" => i \in 1 .. Len(pipe) /\ pipe[i].kind = "cut"
    BY <1>2, <1>3
  <2>2. call.pc \in Talking => ~call.starting
    BY DEF SessionInv, ServerInv, Talking, Waits
  <2>3. \A i \in 1 .. Len(pipe) : call.pc \in Talking => pipe[i].kind # "cut"
    BY <1>1, <2>2 DEF SessionInv, CutInv
  <2>4. ASSUME call.starting, NEW i \in 1 .. Len(pipe'), NEW j \in 1 .. Len(pipe'),
               pipe'[i].kind = "cut", Answers(pipe', j, call.number)
        PROVE  i < j
    <3>1. CASE j \in 1 .. Len(pipe)
      BY <1>1, <1>2, <2>1, <2>4, <3>1 DEF SessionInv, CutInv, Answers, me
    <3>2. CASE j = Len(pipe) + 1
      BY <2>1, <2>4, <3>2
    <3> QED
      BY <1>3, <3>1, <3>2
  <2>5. ASSUME NEW i \in 1 .. Len(pipe'), pipe'[i].kind = "response"
        PROVE  pipe'[i].id[1] <= call.number /\ (At("start") => pipe'[i].id[1] # call.number)
    <3>1. CASE i \in 1 .. Len(pipe)
      BY <1>2, <2>5, <3>1 DEF SessionInv, CutInv, me
    <3>2. CASE i = Len(pipe) + 1
      <4>1. pipe'[i].id[1] = call.number /\ call.pc \in Requests
        BY <1>2, <2>5, <3>2 DEF requestId, me, SessionInv, ServerInv
      <4> QED
        BY <1>1, <4>1 DEF At, Requests
    <3> QED
      BY <1>3, <3>1, <3>2
  <2>6. server' = "up" /\ (~call'.starting \/ call'.writing = "initialized") =>
          \A i \in 1 .. Len(pipe') : pipe'[i].kind # "cut"
    BY <1>1, <2>1 DEF SessionInv, CutInv
  <2>7. call'.pc \in Talking => \A i \in 1 .. Len(pipe') : pipe'[i].kind # "cut"
    BY <1>1, <2>1, <2>3
  <2> QED
    BY <1>1, <2>4, <2>5, <2>6, <2>7 DEF CutInv, At, me
<1>7. \A i \in 1 .. Len(pipe) :
        pipe[i].kind = "completed" =>
          /\ pipe[i].turn \in Calls
          /\ turn[pipe[i].turn] = Ended(pipe[i].ok) /\ turn'[pipe[i].turn] = Ended(pipe[i].ok)
  <2>1. TAKE i \in 1 .. Len(pipe)
  <2>2. HAVE pipe[i].kind = "completed"
  <2>3. pipe[i] \in Lines
    BY <1>1
  <2>4. pipe[i].turn \in Calls /\ turn[pipe[i].turn] = Ended(pipe[i].ok)
    BY <2>2, <2>3, LinesAre DEF SessionInv, TurnInv
  <2> QED
    BY <2>4 DEF Ended, TurnsEnd
<1>8. \A c \in Calls, ok \in BOOLEAN :
        <<c, ok>> \in seen => turn[c] = Ended(ok) /\ turn'[c] = Ended(ok)
  BY DEF SessionInv, TurnInv, Ended, TurnsEnd
<1>9. TurnInv'
  <2>1. \A i \in 1 .. Len(pipe') :
          pipe'[i].kind = "completed" => turn'[pipe'[i].turn] = Ended(pipe'[i].ok)
    BY <1>2, <1>3, <1>7
  <2>2. /\ \A c \in Calls : turn'[c] # "none" => c <= call.number /\ (c = call.number => ~Fresh')
        /\ \A c \in Calls : asked'[c] => turn'[c] # "none"
    <3>1. /\ \A c \in Calls : turn[c] # "none" => c <= call.number /\ (c = call.number => ~Fresh)
          /\ \A c \in Calls : asked[c] => turn[c] # "none"
      BY DEF SessionInv, TurnInv, me
    <3>2. \A c \in Calls : (turn'[c] # "none" <=> turn[c] # "none")
      BY DEF TurnsEnd
    <3>3. Fresh' => Fresh
      BY <1>1 DEF Fresh
    <3>4. \A c \in Calls : asked'[c] => turn[c] # "none"
      BY <1>1, <3>1
    <3> HIDE DEF Fresh
    <3> QED
      BY <3>1, <3>2, <3>3, <3>4
  <2>3. run = "completed" => ~asked'[call.number] /\ turn'[call.number] # "working"
    <3>1. HAVE run = "completed"
    <3>2. call.number \in Calls /\ ~asked[call.number] /\ turn[call.number] # "working"
      BY <1>1, <3>1 DEF SessionInv, ServerInv, TurnInv, Calls, me
    <3> QED
      BY <3>2 DEF TurnsEnd
  <2>4. At("complete")' => <<call.number, TRUE>> \in seen
    BY <1>1 DEF SessionInv, TurnInv, At, me
  <2> QED
    BY <1>1, <1>8, <2>1, <2>2, <2>3, <2>4 DEF TurnInv, me
<1>10. /\ turn[call.number] = "working" /\ call.number \in Calls =>
            Unended /\ \A i \in 1 .. Len(pipe) : pipe[i] \notin EndsOf(call.number)
       /\ line \in Questions <=> line.kind = "request"
       /\ line \in MessagesOf(call.number) <=> line.kind = "message" /\ line.turn = call.number
       /\ line \in EndsOf(call.number) <=> line.kind = "completed" /\ line.turn = call.number
  BY <1>7, <1>8 DEF Unended, EndsOf, Questions, MessagesOf, Ended, me
<1>11. OrderInv'
  <2>1. call.pc \in Talking => call.number \in Calls
    BY <1>1 DEF SessionInv, ServerInv, Calls, me
  <2>2. call.pc \in Talking /\ asked'[call.number] /\ run = "running" =>
          Unended /\ Ahead(Questions, EndsOf(call.number), pipe')
    <3>1. HAVE call.pc \in Talking /\ asked'[call.number] /\ run = "running"
    <3>2. CASE asked[call.number]
      BY <1>1, <3>1, <3>2, AheadOfMore DEF SessionInv, OrderInv, me
    <3>3. CASE ~asked[call.number]
      <4>1. turn[call.number] = "working" /\ line.kind = "request"
        BY <2>1, <3>1, <3>3
      <4>2. line \in Questions /\ line \notin EndsOf(call.number) /\ Unended
            /\ \A i \in 1 .. Len(pipe) : pipe[i] \notin EndsOf(call.number)
        BY <1>10, <2>1, <3>1, <4>1
      <4> QED
        BY <1>1, <4>2, AheadAtTheEnd
    <3> QED
      BY <3>2, <3>3
  <2>3. call.pc \in Talking /\ said' /\ ~text =>
          Unended /\ Ahead(MessagesOf(call.number), EndsOf(call.number), pipe')
    <3>1. HAVE call.pc \in Talking /\ said' /\ ~text
    <3>2. CASE said
      BY <1>1, <3>1, <3>2, AheadOfMore DEF SessionInv, OrderInv, me
    <3>3. CASE ~said
      <4>1. /\ line \in MessagesOf(call.number) /\ line \notin EndsOf(call.number) /\ Unended
            /\ \A i \in 1 .. Len(pipe) : pipe[i] \notin EndsOf(call.number)
        BY <1>10, <3>1, <3>3
      <4> QED
        BY <1>1, <4>1, AheadAtTheEnd
    <3> QED
      BY <3>2, <3>3
  <2>4. \A i \in 1 .. Len(pipe') :
          pipe'[i].kind = "message" =>
            pipe'[i].turn <= call.number /\ (pipe'[i].turn = call.number => said')
    BY <1>1, <1>2, <1>3 DEF SessionInv, OrderInv, me
  <2>5. said' => call.number # 0 /\ turn'[call.number] # "none"
    <3>1. CASE said
      <4>1. call.number \in Calls /\ turn[call.number] # "none"
        BY <1>1, <3>1 DEF SessionInv, OrderInv, Calls, me
      <4>2. turn'[call.number] # "none"
        BY <4>1 DEF TurnsEnd
      <4> QED
        BY <4>1, <4>2 DEF Calls
    <3>2. CASE ~said
      BY <3>2 DEF TurnsEnd, Calls
    <3> QED
      BY <3>1, <3>2
  <2>6. text => said'
    BY DEF SessionInv, OrderInv
  <2>7. Unended' = Unended /\ EndsOf(me)' = EndsOf(call.number) /\ MessagesOf(me)' = MessagesOf(call.number)
    BY <1>1 DEF Unended, EndsOf, MessagesOf, me
  <2> QED
    BY <1>1, <2>2, <2>3, <2>4, <2>5, <2>6, <2>7 DEF OrderInv, me
<1> QED
  BY <1>4, <1>5, <1>6, <1>9, <1>11 DEF SessionInv

LEMMA RespondKeeps ==
  ASSUME SessionInv, Respond
  PROVE  SessionInv'
<1>1. PICK ok \in BOOLEAN : Write([kind |-> "response", id |-> requestId, ok |-> ok])
  BY DEF Respond
<1>2. call.sent /\ UNCHANGED <<turn, said, asked>>
  BY DEF Respond, turn_
<1>3. requestId \in Ids
  <2>1. call.pc \in Requests /\ call.number \in Calls
    BY <1>2, CallIs DEF SessionInv, ServerInv, Requests, Talking, Calls, me
  <2> QED
    BY <2>1 DEF requestId, Ids, me
<1>4. PICK line : line = [kind |-> "response", id |-> requestId, ok |-> ok]
  OBVIOUS
<1>5. line \in Lines /\ line.kind = "response" /\ line.id = requestId /\ Write(line)
  BY <1>1, <1>3, <1>4, LinesAre
<1>6. TurnsEnd /\ said' \in BOOLEAN /\ asked' \in [Calls -> BOOLEAN]
  BY <1>2 DEF TurnsEnd, SessionInv, SessionTypeOK
<1> QED
  BY <1>2, <1>5, <1>6, WritesKeep

LEMMA SpeakKeeps ==
  ASSUME SessionInv, Speak
  PROVE  SessionInv'
<1>1. /\ call.number > 0 /\ turn[call.number] = "working" /\ said' = TRUE
      /\ Write([kind |-> "message", turn |-> call.number]) /\ UNCHANGED <<turn, asked>>
      /\ call.number \in Calls
  BY CallIs DEF Speak, Working, me, SessionInv, Calls
<1>2. PICK line : line = [kind |-> "message", turn |-> call.number]
  OBVIOUS
<1>3. line \in Lines /\ line.kind = "message" /\ line.turn = call.number /\ Write(line)
  BY <1>1, <1>2, LinesAre
<1>4. TurnsEnd /\ said' \in BOOLEAN /\ asked' \in [Calls -> BOOLEAN]
  BY <1>1 DEF TurnsEnd, SessionInv, SessionTypeOK
<1> QED
  BY <1>1, <1>3, <1>4, WritesKeep

LEMMA AskKeeps ==
  ASSUME SessionInv, NEW c \in Calls, Ask(c)
  PROVE  SessionInv'
<1>1. /\ turn[c] = "working" /\ asked' = [asked EXCEPT ![c] = TRUE] /\ UNCHANGED <<turn, said>>
  BY DEF Ask, Working
<1>2. PICK id \in Ids : Write([kind |-> "request", id |-> id])
  <2>1. <<0, "other">> \in Ids
    BY DEF Ids
  <2>2. call.sent => requestId \in Ids
    <3>1. call.sent => call.pc \in Requests /\ call.number \in Calls
      BY CallIs DEF SessionInv, ServerInv, Requests, Talking, Calls, me
    <3> QED
      BY <3>1 DEF requestId, Ids, me
  <2> QED
    BY <2>1, <2>2 DEF Ask
<1>3. PICK line : line = [kind |-> "request", id |-> id]
  OBVIOUS
<1>4. line \in Lines /\ line.kind = "request" /\ Write(line)
  BY <1>2, <1>3, LinesAre
<1>5. /\ TurnsEnd /\ said' \in BOOLEAN /\ asked' \in [Calls -> BOOLEAN]
      /\ \A d \in Calls : asked'[d] /\ ~asked[d] => turn[d] = "working"
  BY <1>1 DEF TurnsEnd, SessionInv, SessionTypeOK
<1> QED
  BY <1>1, <1>4, <1>5, WritesKeep

LEMMA EndTurnKeeps ==
  ASSUME SessionInv, NEW c \in Calls, EndTurn(c)
  PROVE  SessionInv'
<1>1. PICK ok \in BOOLEAN :
        /\ turn' = [turn EXCEPT ![c] = IF ok THEN "completed" ELSE "failed"]
        /\ Write([kind |-> "completed", turn |-> c, ok |-> ok])
  BY DEF EndTurn
<1>2. turn[c] = "working" /\ UNCHANGED <<said, asked>>
  BY DEF EndTurn, Working
<1>3. PICK line : line = [kind |-> "completed", turn |-> c, ok |-> ok]
  OBVIOUS
<1>4. line \in Lines /\ line.kind = "completed" /\ line.turn = c /\ line.ok = ok /\ Write(line)
  BY <1>1, <1>3, LinesAre
<1>5. /\ TurnsEnd /\ said' \in BOOLEAN /\ asked' \in [Calls -> BOOLEAN]
      /\ turn'[c] = Ended(ok)
  BY <1>1, <1>2 DEF TurnsEnd, SessionInv, SessionTypeOK, Ended
<1> QED
  BY <1>2, <1>4, <1>5, WritesKeep

(* A server that dies leaves a line unfinished, or none. *)
LEMMA DieKeeps ==
  ASSUME SessionInv, Die
  PROVE  SessionInv'
<1>1. /\ SessionTypeOK /\ server = "up" /\ server' = "dead"
      /\ UNCHANGED <<watched, lease, call, seen, text, run, said, asked>>
      /\ pipe \in Seq(Lines) /\ Len(pipe) \in Nat /\ PipeLimit \in Nat
      /\ call.number \in 0 .. CallLimit /\ CallLimit \in Nat
      /\ helper' \in {"none", "group", "stubborn", "beyond"}
      /\ turn' = [c \in Calls |-> IF turn[c] = "working" THEN "failed" ELSE turn[c]]
  BY CallIs, SessionAssumption DEF Die, Working, client_, SessionInv, SessionTypeOK
<1>2. TurnsEnd /\ \A c \in Calls : turn'[c] # "working"
  BY <1>1 DEF TurnsEnd, SessionTypeOK
<1>3. PICK cut : cut = [kind |-> "cut"]
  OBVIOUS
<1>4. cut \in Lines /\ cut.kind = "cut"
  BY <1>3, LinesAre
<1>5. /\ pipe' \in Seq(Lines) /\ Len(pipe') <= PipeLimit /\ Len(pipe') \in Nat
      /\ \A i \in 1 .. Len(pipe) : i \in 1 .. Len(pipe') /\ pipe'[i] = pipe[i]
      /\ \A i \in 1 .. Len(pipe') :
           \/ i \in 1 .. Len(pipe) /\ pipe'[i] = pipe[i]
           \/ i = Len(pipe') /\ pipe'[i].kind = "cut"
  <2>1. CASE UNCHANGED pipe
    BY <1>1, <2>1 DEF SessionTypeOK
  <2>2. CASE Len(pipe) < PipeLimit /\ pipe' = Append(pipe, cut)
    <3>1. /\ pipe' \in Seq(Lines) /\ Len(pipe') = Len(pipe) + 1
          /\ \A i \in 1 .. Len(pipe) : pipe'[i] = pipe[i]
          /\ pipe'[Len(pipe) + 1] = cut
      BY <1>1, <1>4, <2>2, LongerStream
    <3> QED
      BY <1>1, <1>4, <2>2, <3>1
  <2> QED
    BY <1>3, <2>1, <2>2 DEF Die
<1>6. SessionTypeOK'
  BY <1>1, <1>2, <1>5 DEF SessionTypeOK, TurnsEnd
<1>7. ServerInv'
  BY <1>1 DEF SessionInv, ServerInv, At, me, Talking, Waits
<1>8. CutInv'
  <2>1. call.pc \in Talking => \A i \in 1 .. Len(pipe) : pipe[i].kind # "cut"
    BY <1>1 DEF SessionInv, ServerInv, CutInv, Talking, Waits
  <2>2. ASSUME call.pc \in Talking, NEW i \in 1 .. Len(pipe'), pipe'[i].kind = "cut"
        PROVE  i = Len(pipe')
    BY <1>5, <2>1, <2>2
  <2>3. \A i \in 1 .. Len(pipe') :
          pipe'[i].kind = "response" =>
            pipe'[i].id[1] <= call.number /\ (At("start") => pipe'[i].id[1] # call.number)
    BY <1>5 DEF SessionInv, CutInv, me
  <2> QED
    BY <1>1, <2>2, <2>3 DEF CutInv, At, me
<1>9. \A i \in 1 .. Len(pipe) :
        pipe[i].kind = "completed" => turn'[pipe[i].turn] = Ended(pipe[i].ok)
  <2>1. TAKE i \in 1 .. Len(pipe)
  <2>2. HAVE pipe[i].kind = "completed"
  <2>3. pipe[i] \in Lines
    BY <1>1
  <2>4. pipe[i].turn \in Calls /\ turn[pipe[i].turn] = Ended(pipe[i].ok)
    BY <2>2, <2>3, LinesAre DEF SessionInv, TurnInv
  <2> QED
    BY <1>2, <2>4 DEF Ended, TurnsEnd
<1>10. TurnInv'
  <2>1. \A c \in Calls, ok \in BOOLEAN : <<c, ok>> \in seen => turn'[c] = Ended(ok)
    BY <1>2 DEF SessionInv, TurnInv, Ended, TurnsEnd
  <2>2. \A i \in 1 .. Len(pipe') :
          pipe'[i].kind = "completed" => turn'[pipe'[i].turn] = Ended(pipe'[i].ok)
    BY <1>5, <1>9
  <2>3. /\ \A c \in Calls : turn'[c] # "none" => c <= call.number /\ (c = call.number => ~Fresh')
        /\ \A c \in Calls : asked[c] => turn'[c] # "none"
    BY <1>1, <1>2 DEF SessionInv, TurnInv, TurnsEnd, Fresh, me
  <2>4. run = "completed" => ~asked[call.number] /\ turn'[call.number] # "working"
    <3>1. HAVE run = "completed"
    <3>2. call.number \in Calls /\ ~asked[call.number]
      BY <1>1, <3>1 DEF SessionInv, ServerInv, TurnInv, Calls, me
    <3> QED
      BY <1>2, <3>2
  <2>5. At("complete")' => <<call.number, TRUE>> \in seen
    BY <1>1 DEF SessionInv, TurnInv, At, me
  <2> QED
    BY <1>1, <2>1, <2>2, <2>3, <2>4, <2>5 DEF TurnInv, me
<1>11. OrderInv'
  <2>1. \A S, E : Ahead(S, E, pipe) => Ahead(S, E, pipe')
    <3>1. TAKE S, E
    <3>2. HAVE Ahead(S, E, pipe)
    <3>3. PICK i \in 1 .. Len(pipe) : pipe[i] \in S /\ \A j \in 1 .. i : pipe[j] \notin E
      BY <3>2 DEF Ahead
    <3>4. \A j \in 1 .. i : j \in 1 .. Len(pipe)
      BY <1>1
    <3>5. i \in 1 .. Len(pipe') /\ pipe'[i] \in S
      BY <1>5, <3>3
    <3>6. \A j \in 1 .. i : pipe'[j] \notin E
      BY <1>5, <3>3, <3>4
    <3> QED
      BY <3>5, <3>6 DEF Ahead
  <2>2. \A i \in 1 .. Len(pipe') :
          pipe'[i].kind = "message" =>
            pipe'[i].turn <= call.number /\ (pipe'[i].turn = call.number => said)
    BY <1>5 DEF SessionInv, OrderInv, me
  <2>3. said => call.number # 0 /\ turn'[call.number] # "none"
    <3>1. HAVE said
    <3>2. call.number \in Calls /\ turn[call.number] # "none"
      BY <1>1, <3>1 DEF SessionInv, OrderInv, Calls, me
    <3> QED
      BY <1>1, <1>2, <3>2 DEF TurnsEnd, Calls
  <2>4. Unended' = Unended /\ EndsOf(me)' = EndsOf(call.number) /\ MessagesOf(me)' = MessagesOf(call.number)
    BY <1>1 DEF Unended, EndsOf, MessagesOf, me
  <2> QED
    BY <1>1, <2>1, <2>2, <2>3, <2>4 DEF SessionInv, OrderInv, me
<1> QED
  BY <1>6, <1>7, <1>8, <1>10, <1>11 DEF SessionInv

-----------------------------------------------------------------------------
(* The theorems *)

LEMMA SessionStarts ==
  ASSUME SessionInit
  PROVE  SessionInv
<1>1. /\ Len(pipe) = 0 /\ pipe \in Seq(Lines) /\ PipeLimit \in Nat /\ CallLimit \in Nat
  BY SessionAssumption DEF SessionInit
<1>2. SessionTypeOK
  <2>1. call \in CallRecord
    BY <1>1 DEF SessionInit, CallRecord, Steps, Writings
  <2>2. pipe \in Seq(Lines) /\ Len(pipe) <= PipeLimit
    BY <1>1
  <2> QED
    BY <2>1, <2>2, TypesAre DEF SessionInit
<1>3. ServerInv /\ CutInv /\ TurnInv /\ OrderInv
  BY <1>1 DEF SessionInit, ServerInv, CutInv, TurnInv, OrderInv, Talking, Waits, At, me
<1> QED
  BY <1>2, <1>3 DEF SessionInv

LEMMA SessionSteps ==
  ASSUME SessionInv, [SessionNext]_vars
  PROVE  SessionInv'
<1>1. CASE SessionNext
  <2>1. CASE Client
    <3>1. CASE \E method \in Requests : SendRequest(method)
      BY <3>1, SendRequestKeeps
    <3>2. CASE AlreadyStarted \/ StartServer \/ Deadline \/ FindCompletion
      BY <3>2, AlreadyStartedKeeps, StartServerKeeps, DeadlineKeeps, FindCompletionKeeps
    <3>3. CASE ReadLine \/ ReadGarbled \/ Complete \/ Judge
      BY <3>3, ReadLineKeeps, ReadGarbledKeeps, CompleteKeeps, JudgeKeeps
    <3>5. CASE NotifyInitialized \/ SendDenial
      BY <3>5, NotifyInitializedKeeps, SendDenialKeeps
    <3>4. CASE Terminate \/ Drain \/ (At("close") /\ Close)
      BY <3>4, TerminateKeeps, DrainKeeps, CloseKeeps
    <3> QED
      BY <2>1, <3>1, <3>2, <3>3, <3>4, <3>5 DEF Client
  <2>2. CASE Execute \/ Close
    BY <2>2, ExecuteKeeps, CloseKeeps
  <2>3. CASE Respond \/ Speak \/ SpawnHelper \/ Die \/ HelperEnds
    BY <2>3, RespondKeeps, SpeakKeeps, DieKeeps, HelperKeeps
  <2>4. CASE \E c \in Calls : Ask(c) \/ EndTurn(c)
    BY <2>4, AskKeeps, EndTurnKeeps
  <2> QED
    BY <1>1, <2>1, <2>2, <2>3, <2>4 DEF SessionNext
<1>2. CASE UNCHANGED vars
  BY <1>2 DEF vars, server_, client_, turn_, SessionInv, SessionTypeOK, ServerInv, CutInv,
              TurnInv, OrderInv, me, At, Fresh, Answers, Unended, EndsOf, MessagesOf
<1> QED
  BY <1>1, <1>2

(* The specification without its fairness. *)
SessionSafety == SessionInit /\ [][SessionNext]_vars

(* The order of the lines in the stream is kept by every step of the       *)
(* adapter and of the server (codex_adapter.py, request, read_one and      *)
(* wait_for).                                                              *)
THEOREM SessionInvariant == SessionSafety => []SessionInv
BY SessionStarts, SessionSteps, PTL DEF SessionSafety

(* A live app-server holds its slot in the registry of resident services   *)
(* until close() ends it, also when it replaced one that died (start and   *)
(* close of codex_adapter.py).                                             *)
THEOREM ServersKeepTheirSlots == SessionSafety => []ServersHoldSlots
<1>1. SessionInv => ServersHoldSlots
  BY DEF SessionInv, ServerInv, ServersHoldSlots
<1> QED
  BY <1>1, SessionInvariant, PTL

(* A turn in which the server asked for anything does not complete its     *)
(* run: the request is read before the end of the turn (read_one's denial  *)
(* of codex_adapter.py).                                                   *)
THEOREM QuestionsEndTheRun == SessionSafety => []AskedTurnsNeverComplete
<1>1. SessionInv => AskedTurnsNeverComplete
  BY DEF SessionInv, TurnInv, AskedTurnsNeverComplete
<1> QED
  BY <1>1, SessionInvariant, PTL

(* A run completes with the end of its own turn and all that was said in   *)
(* it: no step takes a completion that an earlier turn or an earlier       *)
(* server left in the stream (_wait_turn_completed of codex_adapter.py).   *)
THEOREM ResultsAreOfTheirTurn == SessionSafety => ResultIsOfItsTurn
<1>1. ASSUME SessionInv, [SessionNext]_vars, Completes
      PROVE  turn[me] = "completed" /\ text = said
  <2>1. At("complete")
    <3>1. ~UNCHANGED run /\ run' = "completed"
      BY <1>1 DEF Completes
    <3>2. SessionNext
      BY <1>1, <3>1 DEF vars
    <3>3. CASE ~Client
      BY <3>1, <3>2, <3>3 DEF SessionNext, Execute, Close, Respond, Speak, SpawnHelper, Die,
                              HelperEnds, Ask, EndTurn, Write
    <3>4. CASE Client
      <4>1. \A method \in Requests : ~SendRequest(method)
        BY <3>1 DEF SendRequest
      <4>2. ~AlreadyStarted /\ ~StartServer /\ ~Deadline /\ ~FindCompletion
        BY <3>1 DEF AlreadyStarted, StartServer, Deadline, FindCompletion
      <4>3. ~ReadLine /\ ~ReadGarbled /\ ~NotifyInitialized /\ ~SendDenial
        BY <3>1 DEF ReadLine, ReadGarbled, DenyRequest, StopRun, NotifyInitialized, SendDenial
      <4>4. ~Judge /\ ~Terminate /\ ~Drain /\ ~Close
        BY <3>1 DEF Judge, StopRun, Terminate, Drain, Close
      <4> QED
        BY <3>4, <4>1, <4>2, <4>3, <4>4 DEF Client, Complete
    <3> QED
      BY <3>3, <3>4
  <2>2. call.number \in Calls /\ <<call.number, TRUE>> \in seen
    BY <1>1, <2>1, CallIs DEF SessionInv, ServerInv, TurnInv, Talking, Calls, At, me
  <2>3. turn[call.number] = "completed"
    BY <1>1, <2>2 DEF SessionInv, TurnInv, Ended
  <2>4. (said => text) /\ (text => said)
    BY <1>1, <2>1, <2>2 DEF SessionInv, OrderInv, Unended, Talking, At, me
  <2>5. text \in BOOLEAN /\ said \in BOOLEAN
    BY <1>1 DEF SessionInv, SessionTypeOK
  <2> QED
    BY <2>3, <2>4, <2>5 DEF me
<1>2. SessionInv /\ [SessionNext]_vars => [Completes => turn[me] = "completed" /\ text = said]_vars
  BY <1>1
<1> QED
  BY <1>2, SessionInvariant, PTL DEF SessionSafety, ResultIsOfItsTurn

=============================================================================
