------------------------ MODULE WorkerExchangeProofs ------------------------
(***************************************************************************)
(* What holds of the exchange between the bridge and its worker, for any   *)
(* attempts, artifacts, files, flaws and bounds.                           *)
(*                                                                         *)
(* The bridge decides on the lines one by one, on the files one by one,    *)
(* and while processes of the worker may still be at work.  The invariant  *)
(* says what each decision was about and why nothing can undo it: what has *)
(* been read is a prefix of what has been said, in whatever bursts; after  *)
(* the end of the stream nobody speaks; once the group has been settled    *)
(* and nothing has left it nobody writes; and a refusal that has no excuse *)
(* is for something that stays wrong.                                      *)
(***************************************************************************)
EXTENDS WorkerExchange, WellFoundedInduction, SequenceTheorems, TLAPS

NoMessage == {CutLine, EmptyLine, LongLine}

(* Whatever a worker of this attempt may say. *)
ProperLines(attempt) == {Greeting(attempt)} \union Results(attempt)
LinesOf(attempt) ==
  ProperLines(attempt) \union (UNION {Deviations(m) : m \in ProperLines(attempt)}) \union NoMessage

(* The worker's output is complete and its group has been settled. *)
Settled == {"exited", "greeted", "checking", "clean", "unchanged", "recording", "accepted"}
Coding == turn.kind = "read_only_coding"

(* Where the two messages have been validated, the files compared with     *)
(* their digests, the workspace with its snapshot and the paths with those *)
(* that the result names.                                                  *)
Greeted == turn.pc \in Settled \ {"exited"}
Named == turn.pc \in {"recording", "accepted"} /\ Coding
Unchanged == turn.pc = "unchanged" \/ Named
Compared == turn.pc = "clean" \/ Unchanged
Answered == turn.pc = "checking" \/ Compared

TurnShape ==
  turn = [pc |-> turn.pc, kind |-> turn.kind, attempt |-> turn.attempt, error |-> turn.error]

TurnInv ==
  /\ TurnShape
  /\ At("idle") => turn.attempt = NoAttempt /\ worker = "none"
  /\ ~At("idle") => turn.attempt \in Attempts
  /\ turn.pc \in {"idle", "created"} => said = <<>> /\ taken = 0 /\ worker = "none"
  /\ At("reading") => worker # "none"
  /\ At("ended") => worker \in {"exited", "crashed"} /\ taken = Len(said)
  /\ turn.pc \in Settled =>
       /\ worker = "exited" /\ helpers \cap InGroup = {}
       /\ Len(said) = Expected /\ taken = Len(said)
  /\ turn.pc \in {"greeted", "checking", "clean", "unchanged"} => Coding
  /\ turn.pc \in {"idle", "created", "reading", "ended", "exited", "greeted"} => verified = {}

(* The bridge has taken complete messages from the front, a cut line can   *)
(* only be the last.                                                       *)
ReadInv ==
  /\ said \in Seq(LinesOf(turn.attempt))
  /\ \A i \in 1..Len(said) : said[i] = CutLine => i = Len(said)
  /\ taken \in 0..Len(said) /\ taken <= Expected
  /\ answers = SubSeq(said, 1, taken)
  /\ \A i \in 1..taken : said[i] \notin NoMessage /\ Construct(said[i]) = "ok"

MessagesInv ==
  /\ turn.pc \in Settled /\ Coding => said[2].type = "result"
  /\ Greeted => IsGreeting(said[1])
  /\ Answered => IsResultAfter(said[2], said[1])

(* The path that the result names for an artifact. *)
PathOf(name) == said[2].artifacts[name]

FilesInv ==
  helpers = {} =>
    /\ Answered => \A name \in verified : files[PathOf(name)] = "claimed"
    /\ Compared => verified = ArtifactNames
    /\ Unchanged => workspace = "own"
    /\ Named => Written = {PathOf(name) : name \in ArtifactNames}

(* What stays wrong with a refused turn. *)
Faulty ==
  \/ \E i \in 1..Len(said) : said[i] \in NoMessage \/ Construct(said[i]) # "ok"
  \/ Len(said) > Expected
  \/ worker \in {"exited", "crashed"} /\ ~(worker = "exited" /\ SaidProperly)
  \/ worker = "exited" /\ helpers \cap InGroup = {} /\ (helpers = {} => ~LeftProperly)

FailureInv == At("failing") /\ turn.error \notin Excuses => Faulty

ExchangeInv ==
  ExchangeTypeOK /\ TurnInv /\ ReadInv /\ MessagesInv /\ FilesInv /\ FailureInv

-----------------------------------------------------------------------------
(* The decision procedures: which check fails first, and what the answers  *)
(* to a proper message are.                                                *)

(* A set of numbers has a least one, and the library's minimum is it. *)
LEMMA MinIsLeast ==
  ASSUME NEW S \in SUBSET Nat, S # {}
  PROVE  Min(S) \in S /\ \A j \in S : Min(S) <= j
<1> DEFINE R == {ss \in Nat \X Nat : ss[1] < ss[2]}
<1>1. IsWellFoundedOn(R, Nat)
  BY NatLessThanWellFounded DEF OpToRel
<1> HIDE DEF R
<1>2. PICK x \in S : \A y \in S : ~(<<y, x>> \in R)
  BY WFMin, <1>1
<1>3. ASSUME NEW y \in S PROVE x <= y
  <2>1. <<y, x>> \in Nat \X Nat /\ <<y, x>> \notin R
    BY <1>2
  <2> QED
    BY <2>1 DEF R
<1> QED
  BY <1>3 DEF Min

(* What can be wrong, with a code that says so. *)
RowsOf(checks) == {checks[i] : i \in 1..Len(checks)}
Parts == {LineChecks, IdentityChecks, ProviderChecks, ComponentChecks, RequestChecks,
          FieldChecks, PayloadChecks}
Rows == UNION {RowsOf(part) : part \in Parts}

LEMMA NoRowSaysOk == \A row \in Rows : row[2] # "ok"
<1>1. \A row \in RowsOf(LineChecks) : row[2] # "ok"
  <2>1. \A row \in RowsOf(LineChecks) : row \in
          {LineChecks[1], LineChecks[2], LineChecks[3], LineChecks[4]}
    <3>1. Len(LineChecks) = 4
      BY DEF LineChecks
    <3> QED
      BY <3>1 DEF RowsOf
  <2>2. /\ LineChecks[1][2] # "ok" /\ LineChecks[2][2] # "ok"
        /\ LineChecks[3][2] # "ok" /\ LineChecks[4][2] # "ok"
    BY DEF LineChecks
  <2> QED
    BY <2>1, <2>2
<1>2. \A row \in RowsOf(IdentityChecks) : row[2] # "ok"
  <2>1. \A row \in RowsOf(IdentityChecks) : row \in
          {IdentityChecks[1], IdentityChecks[2], IdentityChecks[3]}
    <3>1. Len(IdentityChecks) = 3
      BY DEF IdentityChecks
    <3> QED
      BY <3>1 DEF RowsOf
  <2>2. /\ IdentityChecks[1][2] # "ok" /\ IdentityChecks[2][2] # "ok"
        /\ IdentityChecks[3][2] # "ok"
    BY DEF IdentityChecks
  <2> QED
    BY <2>1, <2>2
<1>3. \A row \in RowsOf(ProviderChecks) : row[2] # "ok"
  <2>1. \A row \in RowsOf(ProviderChecks) : row \in
          {ProviderChecks[1], ProviderChecks[2], ProviderChecks[3], ProviderChecks[4]}
    <3>1. Len(ProviderChecks) = 4
      BY DEF ProviderChecks
    <3> QED
      BY <3>1 DEF RowsOf
  <2>2. /\ ProviderChecks[1][2] # "ok" /\ ProviderChecks[2][2] # "ok"
        /\ ProviderChecks[3][2] # "ok" /\ ProviderChecks[4][2] # "ok"
    BY DEF ProviderChecks
  <2> QED
    BY <2>1, <2>2
<1>4. \A row \in RowsOf(ComponentChecks) : row[2] # "ok"
  <2>1. \A row \in RowsOf(ComponentChecks) : row \in
          {ComponentChecks[1], ComponentChecks[2]}
    <3>1. Len(ComponentChecks) = 2
      BY DEF ComponentChecks
    <3> QED
      BY <3>1 DEF RowsOf
  <2>2. /\ ComponentChecks[1][2] # "ok" /\ ComponentChecks[2][2] # "ok"
    BY DEF ComponentChecks
  <2> QED
    BY <2>1, <2>2
<1>5. \A row \in RowsOf(RequestChecks) : row[2] # "ok"
  <2>1. \A row \in RowsOf(RequestChecks) : row \in
          {RequestChecks[1], RequestChecks[2], RequestChecks[3], RequestChecks[4],
           RequestChecks[5]}
    <3>1. Len(RequestChecks) = 5
      BY DEF RequestChecks
    <3> QED
      BY <3>1 DEF RowsOf
  <2>2. /\ RequestChecks[1][2] # "ok" /\ RequestChecks[2][2] # "ok"
        /\ RequestChecks[3][2] # "ok" /\ RequestChecks[4][2] # "ok"
        /\ RequestChecks[5][2] # "ok"
    BY DEF RequestChecks
  <2> QED
    BY <2>1, <2>2
<1>6. \A row \in RowsOf(FieldChecks) : row[2] # "ok"
  <2>1. \A row \in RowsOf(FieldChecks) : row \in
          {FieldChecks[1], FieldChecks[2], FieldChecks[3], FieldChecks[4],
           FieldChecks[5], FieldChecks[6], FieldChecks[7], FieldChecks[8]}
    <3>1. Len(FieldChecks) = 8
      BY DEF FieldChecks
    <3> QED
      BY <3>1 DEF RowsOf
  <2>2. /\ FieldChecks[1][2] # "ok" /\ FieldChecks[2][2] # "ok"
        /\ FieldChecks[3][2] # "ok" /\ FieldChecks[4][2] # "ok"
        /\ FieldChecks[5][2] # "ok" /\ FieldChecks[6][2] # "ok"
        /\ FieldChecks[7][2] # "ok" /\ FieldChecks[8][2] # "ok"
    BY DEF FieldChecks
  <2> QED
    BY <2>1, <2>2
<1>7. \A row \in RowsOf(PayloadChecks) : row[2] # "ok"
  <2>1. \A row \in RowsOf(PayloadChecks) : row \in
          {PayloadChecks[1], PayloadChecks[2], PayloadChecks[3], PayloadChecks[4],
           PayloadChecks[5], PayloadChecks[6], PayloadChecks[7], PayloadChecks[8],
           PayloadChecks[9], PayloadChecks[10]}
    <3>1. Len(PayloadChecks) = 10
      BY DEF PayloadChecks
    <3> QED
      BY <3>1 DEF RowsOf
  <2>2. /\ PayloadChecks[1][2] # "ok" /\ PayloadChecks[2][2] # "ok"
        /\ PayloadChecks[3][2] # "ok" /\ PayloadChecks[4][2] # "ok"
        /\ PayloadChecks[5][2] # "ok" /\ PayloadChecks[6][2] # "ok"
        /\ PayloadChecks[7][2] # "ok" /\ PayloadChecks[8][2] # "ok"
        /\ PayloadChecks[9][2] # "ok" /\ PayloadChecks[10][2] # "ok"
    BY DEF PayloadChecks
  <2> QED
    BY <2>1, <2>2
<1> QED
  BY <1>1, <1>2, <1>3, <1>4, <1>5, <1>6, <1>7 DEF Rows, Parts

LEMMA ChecksAreRows == EnvelopeChecks \in Seq(Rows) /\ PayloadChecks \in Seq(Rows)
<1>1. ASSUME NEW n \in Nat, NEW s \in Parts, s = [i \in 1..n |-> s[i]] PROVE s \in Seq(Rows)
  <2>1. Len(s) = n /\ \A i \in 1..n : s[i] \in Rows
    BY <1>1 DEF Rows, RowsOf
  <2>2. s \in [1..n -> Rows]
    BY <1>1, <2>1
  <2> QED
    BY <2>2
<1>2. LineChecks \in Seq(Rows)
  <2>1. LineChecks = [i \in 1..4 |-> LineChecks[i]]
    BY DEF LineChecks
  <2> QED
    BY <1>1, <2>1 DEF Parts
<1>3. IdentityChecks \in Seq(Rows)
  <2>1. IdentityChecks = [i \in 1..3 |-> IdentityChecks[i]]
    BY DEF IdentityChecks
  <2> QED
    BY <1>1, <2>1 DEF Parts
<1>4. ProviderChecks \in Seq(Rows)
  <2>1. ProviderChecks = [i \in 1..4 |-> ProviderChecks[i]]
    BY DEF ProviderChecks
  <2> QED
    BY <1>1, <2>1 DEF Parts
<1>5. ComponentChecks \in Seq(Rows)
  <2>1. ComponentChecks = [i \in 1..2 |-> ComponentChecks[i]]
    BY DEF ComponentChecks
  <2> QED
    BY <1>1, <2>1 DEF Parts
<1>6. RequestChecks \in Seq(Rows)
  <2>1. RequestChecks = [i \in 1..5 |-> RequestChecks[i]]
    BY DEF RequestChecks
  <2> QED
    BY <1>1, <2>1 DEF Parts
<1>7. FieldChecks \in Seq(Rows)
  <2>1. FieldChecks = [i \in 1..8 |-> FieldChecks[i]]
    BY DEF FieldChecks
  <2> QED
    BY <1>1, <2>1 DEF Parts
<1>8. PayloadChecks \in Seq(Rows)
  <2>1. PayloadChecks = [i \in 1..10 |-> PayloadChecks[i]]
    BY DEF PayloadChecks
  <2> QED
    BY <1>1, <2>1 DEF Parts
<1> QED
  BY <1>2, <1>3, <1>4, <1>5, <1>6, <1>7, <1>8, ConcatProperties DEF EnvelopeChecks

(* A list of checks answers "ok" exactly when none of its defects is there. *)
LEMMA FirstFailureIsOk ==
  ASSUME NEW checks \in Seq(Rows), NEW defects
  PROVE  FirstFailure(checks, defects) = "ok" <=> \A i \in 1..Len(checks) : checks[i][1] \notin defects
<1> DEFINE I == {i \in 1..Len(checks) : checks[i][1] \in defects}
<1>1. FirstFailure(checks, defects) = LET i == IF I # {} THEN Min(I) ELSE 0
                                      IN  IF i = 0 THEN "ok" ELSE checks[i][2]
  BY DEF FirstFailure, SelectInSeq
<1>2. I # {} => Min(I) \in I
  <2>1. I \in SUBSET Nat
    OBVIOUS
  <2> HIDE DEF I
  <2> QED
    BY MinIsLeast, <2>1
<1>3. \A i \in 1..Len(checks) : checks[i][2] # "ok"
  BY NoRowSaysOk
<1> QED
  BY <1>1, <1>2, <1>3

(* A message without defects can be constructed; one that can, and whose   *)
(* payload is in order, has none of the defects that messages come with.   *)
LEMMA DefectsAreFound ==
  /\ \A m : m.defects = {} => Construct(m) = "ok" /\ FirstFailure(PayloadChecks, m.defects) = "ok"
  /\ \A m, d :
       /\ d \in {c[1] : c \in ToSet(EnvelopeChecks \o PayloadChecks)} /\ d \in m.defects
       => ~(Construct(m) = "ok" /\ FirstFailure(PayloadChecks, m.defects) = "ok")
<1>1. ASSUME NEW m, m.defects = {}
      PROVE  Construct(m) = "ok" /\ FirstFailure(PayloadChecks, m.defects) = "ok"
  BY <1>1, FirstFailureIsOk, ChecksAreRows DEF Construct
<1>2. ASSUME NEW m, NEW d, d \in {c[1] : c \in ToSet(EnvelopeChecks \o PayloadChecks)},
             d \in m.defects, Construct(m) = "ok", FirstFailure(PayloadChecks, m.defects) = "ok"
      PROVE  FALSE
  <2>1. PICK i \in 1..Len(EnvelopeChecks \o PayloadChecks) : d = (EnvelopeChecks \o PayloadChecks)[i][1]
    <3>1. EnvelopeChecks \o PayloadChecks \in Seq(Rows)
      BY ChecksAreRows, ConcatProperties
    <3> QED
      BY <1>2, <3>1 DEF ToSet
  <2>2. \/ \E j \in 1..Len(EnvelopeChecks) : d = EnvelopeChecks[j][1]
        \/ \E j \in 1..Len(PayloadChecks) : d = PayloadChecks[j][1]
    <3>1. /\ Len(EnvelopeChecks) \in Nat /\ Len(PayloadChecks) \in Nat
          /\ Len(EnvelopeChecks \o PayloadChecks) = Len(EnvelopeChecks) + Len(PayloadChecks)
          /\ (EnvelopeChecks \o PayloadChecks)[i] = IF i <= Len(EnvelopeChecks) THEN EnvelopeChecks[i]
                                                    ELSE PayloadChecks[i - Len(EnvelopeChecks)]
      BY ChecksAreRows, ConcatProperties, LenProperties
    <3>2. CASE i <= Len(EnvelopeChecks)
      BY <2>1, <3>1, <3>2
    <3>3. CASE ~(i <= Len(EnvelopeChecks))
      <4>1. i - Len(EnvelopeChecks) \in 1..Len(PayloadChecks)
        BY <3>1, <3>3
      <4> QED
        BY <2>1, <3>1, <3>3, <4>1
    <3> QED
      BY <3>2, <3>3
  <2> QED
    BY <1>2, <2>2, FirstFailureIsOk, ChecksAreRows DEF Construct
<1> QED
  BY <1>1, <1>2

-----------------------------------------------------------------------------
(* What a worker may say, taken apart. *)

GivenNames == Attempts \union {"unknown", "another turn"}
CheckedDefects == {c[1] : c \in ToSet(EnvelopeChecks \o PayloadChecks)}
Record(m) == [type |-> m.type, identity |-> m.identity, artifacts |-> m.artifacts,
              defects |-> m.defects, provenance |-> m.provenance]

LEMMA ProperFields ==
  ASSUME NEW a, NEW p \in ProperLines(a)
  PROVE  /\ p = Record(p) /\ p.defects = {} /\ p.provenance = Declared
         /\ p.identity = IdentityOf(a, CodexName)
         /\ p.type \in {"handshake.response", "result"}
         /\ p.type = "handshake.response" => p = Greeting(a)
         /\ p.type = "result" => p \in Results(a)
BY DEF ProperLines, Greeting, Results, Message, Record, Declared

(* At most one thing is wrong with a message. *)
LEMMA LineCases ==
  ASSUME NEW a, NEW m \in LinesOf(a), m \notin NoMessage
  PROVE  \E p \in ProperLines(a) :
           /\ m = Record(m) /\ m.artifacts = p.artifacts
           /\ \/ m = p
              \/ /\ m.type = p.type /\ m.identity = p.identity /\ m.provenance = p.provenance
                 /\ \E d \in CheckedDefects : m.defects = {d}
              \/ /\ m.type = p.type /\ m.defects = p.defects /\ m.provenance = p.provenance
                 /\ \E f \in IdentityFields : \E v \in GivenNames : m.identity = [p.identity EXCEPT ![f] = v]
              \/ \E f \in ProvenanceFields : m.provenance[f] = "other"
              \/ m.type \notin {"handshake.response", "result"}
<1>1. CASE m \in ProperLines(a)
  BY <1>1, ProperFields
<1>2. CASE m \notin ProperLines(a)
  <2>1. PICK p \in ProperLines(a) : m \in Deviations(p)
    <3>1. m \in UNION {Deviations(q) : q \in ProperLines(a)}
      BY <1>2 DEF LinesOf
    <3> QED
      BY <3>1
  <2>2. /\ p = Record(p) /\ p.provenance = Declared
    BY ProperFields
  <2>3. CASE \E d \in CheckedDefects : m = [p EXCEPT !.defects = {d}]
    BY <2>2, <2>3 DEF Record
  <2>4. CASE \E f \in IdentityFields : \E v \in GivenNames : m = [p EXCEPT !.identity[f] = v]
    BY <2>2, <2>4 DEF Record
  <2>5. CASE \E f \in ProvenanceFields : m = [p EXCEPT !.provenance[f] = "other"]
    BY <2>2, <2>5 DEF Record, Declared
  <2>6. CASE \E t : t \notin {"handshake.response", "result"} /\ m = [p EXCEPT !.type = t]
    BY <2>2, <2>6 DEF Record
  <2> DEFINE Flawed == {[p EXCEPT !.defects = {d}] : d \in Flaws \cap CheckedDefects}
             Misnamed == {[p EXCEPT !.identity[f] = v] :
                            f \in Flaws \cap IdentityFields,
                            v \in GivenNames}
             Foreign == {[p EXCEPT !.provenance[f] = "other"] : f \in Flaws \cap ProvenanceFields}
             Mistyped == {[p EXCEPT !.type = t] :
                            t \in (Flaws \cap MessageTypes) \ {"handshake.response", "result"}}
  <2>7. Deviations(p) = Flawed \union Misnamed \union Foreign \union Mistyped
    BY DEF Deviations, CheckedDefects, GivenNames
  <2>8. m \in Flawed => \E d \in CheckedDefects : m = [p EXCEPT !.defects = {d}]
    OBVIOUS
  <2>9. m \in Misnamed => \E f \in IdentityFields : \E v \in GivenNames : m = [p EXCEPT !.identity[f] = v]
    <3> DEFINE F == Flaws \cap IdentityFields
               V == GivenNames
    <3>1. Misnamed = {[p EXCEPT !.identity[f] = v] : f \in F, v \in V}
      OBVIOUS
    <3> HIDE DEF Misnamed, F, V
    <3>2. m \in Misnamed => \E f \in F, v \in V : m = [p EXCEPT !.identity[f] = v]
      BY <3>1
    <3> QED
      BY <3>2 DEF F, V
  <2>10. m \in Foreign => \E f \in ProvenanceFields : m = [p EXCEPT !.provenance[f] = "other"]
    OBVIOUS
  <2>11. m \in Mistyped =>
           \E t : t \notin {"handshake.response", "result"} /\ m = [p EXCEPT !.type = t]
    OBVIOUS
  <2> HIDE DEF Flawed, Misnamed, Foreign, Mistyped
  <2> QED
    BY <2>1, <2>3, <2>4, <2>5, <2>6, <2>7, <2>8, <2>9, <2>10, <2>11
<1> QED
  BY <1>1, <1>2

(* A message of the right type, of this request and without defects is a   *)
(* proper one, but for a name in its identity.                             *)
LEMMA OnlyTheNames ==
  ASSUME NEW a, NEW m \in LinesOf(a), m \notin NoMessage,
         m.type \in {"handshake.response", "result"}, OfThisRequest(m),
         \A d \in CheckedDefects : d \notin m.defects
  PROVE  /\ m = Record(m) /\ m.defects = {}
         /\ \E p \in ProperLines(a) :
              /\ m.type = p.type /\ m = [p EXCEPT !.identity = m.identity]
              /\ \/ m.identity = IdentityOf(a, CodexName)
                 \/ \E f \in IdentityFields : \E v \in GivenNames :
                      m.identity = [IdentityOf(a, CodexName) EXCEPT ![f] = v]
<1>1. PICK p \in ProperLines(a) :
           /\ m = Record(m) /\ m.artifacts = p.artifacts
           /\ \/ m = p
              \/ /\ m.type = p.type /\ m.identity = p.identity /\ m.provenance = p.provenance
                 /\ \E d \in CheckedDefects : m.defects = {d}
              \/ /\ m.type = p.type /\ m.defects = p.defects /\ m.provenance = p.provenance
                 /\ \E f \in IdentityFields : \E v \in GivenNames : m.identity = [p.identity EXCEPT ![f] = v]
              \/ \E f \in ProvenanceFields : m.provenance[f] = "other"
              \/ m.type \notin {"handshake.response", "result"}
  BY LineCases
<1>2. p = Record(p) /\ p.defects = {} /\ p.provenance = Declared /\ p.identity = IdentityOf(a, CodexName)
  BY ProperFields
<1>3. ~ \E f \in ProvenanceFields : m.provenance[f] = "other"
  BY DEF OfThisRequest, Declared
<1>4. ~ \E d \in CheckedDefects : m.defects = {d}
  OBVIOUS
<1>5. /\ m.type = p.type /\ m.defects = p.defects /\ m.provenance = p.provenance
      /\ m.identity = p.identity \/ \E f \in IdentityFields : \E v \in GivenNames : m.identity = [p.identity EXCEPT ![f] = v]
  BY <1>1, <1>3, <1>4
<1>6. m = [p EXCEPT !.identity = m.identity]
  BY <1>1, <1>2, <1>5 DEF Record
<1>7. m.identity = IdentityOf(a, CodexName)
      \/ \E f \in IdentityFields : \E v \in GivenNames : m.identity = [IdentityOf(a, CodexName) EXCEPT ![f] = v]
  BY <1>2, <1>5
<1>8. m = Record(m) /\ m.defects = {}
  BY <1>1, <1>2, <1>5
<1> QED
  BY <1>5, <1>6, <1>7, <1>8

-----------------------------------------------------------------------------
(* The bridge's answers to a proper greeting and a proper result, and to   *)
(* nothing else, are "ok".                                                 *)

LEMMA Fields ==
  /\ IdentityFields = RequiredFields \union ConditionalFields
  /\ RequiredFields \cap ConditionalFields = {}
  /\ {"event_id", "artifact_id"} \subseteq RequiredFields /\ ConditionalFields # {}
  /\ HandshakeFields = RequiredFields \ {"event_id"}
  /\ CodingFields = IdentityFields \ {"event_id", "artifact_id"}
BY DEF IdentityFields, RequiredFields, ConditionalFields, HandshakeFields, CodingFields

LEMMA Names ==
  /\ \A a \in Attempts : ~IsMissing(a)
  /\ IsMissing("unknown") /\ ~IsMissing("this turn")
  /\ CodexName = IF Codex THEN "this turn" ELSE "unknown"
BY ExchangeAssumption DEF IsMissing, CodexName

LEMMA IdentityOfAttempt ==
  ASSUME NEW a, NEW codex
  PROVE  /\ IdentityOf(a, codex) = [f \in IdentityFields |-> IdentityOf(a, codex)[f]]
         /\ \A f \in RequiredFields : IdentityOf(a, codex)[f] = a
         /\ \A f \in ConditionalFields : IdentityOf(a, codex)[f] = codex
BY Fields DEF IdentityOf

(* What Renamed makes of a proper message. *)
LEMMA RenamedFields ==
  ASSUME NEW a, NEW p \in ProperLines(a), NEW names, NEW id
  PROVE  LET m == Renamed(p, names, id)
         IN  /\ m.type = p.type /\ m.defects = {} /\ m.provenance = Declared /\ m.artifacts = p.artifacts
             /\ m.identity = [f \in IdentityFields |->
                  IF f \in names /\ ~IsMissing(id[f]) THEN id[f] ELSE IdentityOf(a, CodexName)[f]]
             /\ m = [p EXCEPT !.identity = m.identity]
BY ProperFields DEF Renamed, Record

(* An identity that is the worker's own but for one name, and that one free. *)
OneNameApart(identity, own, names) ==
  \/ identity = own
  \/ \E f \in IdentityFields : \E v :
       /\ identity = [own EXCEPT ![f] = v]
       /\ v = own[f] \/ (f \in names /\ ~IsMissing(v))

(* A message that differs from a proper one in a free name is its renaming. *)
LEMMA FreeNames ==
  ASSUME NEW a, NEW p \in ProperLines(a), NEW m, NEW names,
         m = [p EXCEPT !.identity = m.identity],
         OneNameApart(m.identity, IdentityOf(a, CodexName), names)
  PROVE  m = Renamed(p, names, m.identity)
<1> DEFINE own == IdentityOf(a, CodexName)
           renamed == [f \in IdentityFields |->
                         IF f \in names /\ ~IsMissing(m.identity[f]) THEN m.identity[f] ELSE own[f]]
<1>1. own = [f \in IdentityFields |-> own[f]]
  BY IdentityOfAttempt
<1>2. m.identity = renamed
  <2>1. CASE m.identity = own
    <3> HIDE DEF own
    <3> QED
      BY <1>1, <2>1
  <2>2. ASSUME NEW f \in IdentityFields, NEW v, m.identity = [own EXCEPT ![f] = v],
               v = own[f] \/ (f \in names /\ ~IsMissing(v))
        PROVE  m.identity = renamed
    <3> HIDE DEF own
    <3>1. m.identity = [g \in IdentityFields |-> IF g = f THEN v ELSE own[g]]
      BY <1>1, <2>2
    <3>2. \A g \in IdentityFields : m.identity[g] = renamed[g]
      BY <2>2, <3>1
    <3> QED
      BY <3>1, <3>2
  <2> QED
    BY <2>1, <2>2 DEF OneNameApart
<1>3. p = Record(p) /\ p.identity = own
  BY ProperFields
<1> HIDE DEF own
<1> QED
  BY <1>2, <1>3 DEF Renamed, Record, own

LEMMA ResponseOk ==
  ASSUME NEW m
  PROVE  ResponseCode(m) = "ok" <=>
           /\ m.type = "handshake.response" /\ m.defects = {} /\ OfThisRequest(m)
           /\ ~Codex => FabricatedCodexFields(m.identity) = {}
           /\ IsCompleteFor(m.identity, Codex)
           /\ Matches(m, IdentityOf(turn.attempt, "unknown"), HandshakeFields)
BY DEF ResponseCode

LEMMA ResultOk ==
  ASSUME NEW m, NEW g
  PROVE  ResultCode(m, g) = "ok" <=>
           /\ ~Codex => FabricatedCodexFields(m.identity) = {}
           /\ IsCompleteFor(m.identity, Codex)
           /\ Matches(m, g.identity, CodingFields)
           /\ OfThisRequest(m) /\ FirstFailure(PayloadChecks, m.defects) = "ok"
BY DEF ResultCode

(* Which names a complete identity that is not fabricated has. *)
LEMMA CompleteNames ==
  ASSUME NEW id
  PROVE  /\ IsCompleteFor(id, Codex) /\ (~Codex => FabricatedCodexFields(id) = {}) <=>
              /\ \A f \in RequiredFields : ~IsMissing(id[f])
              /\ \A f \in ConditionalFields : IsMissing(id[f]) <=> ~Codex
<1>1. MissingOf(id, RequiredFields) = {} <=> \A f \in RequiredFields : ~IsMissing(id[f])
  BY DEF MissingOf
<1>2. MissingOf(id, ConditionalFields) = {} <=> \A f \in ConditionalFields : ~IsMissing(id[f])
  BY DEF MissingOf
<1>3. FabricatedCodexFields(id) = {} <=> \A f \in ConditionalFields : IsMissing(id[f])
  BY DEF FabricatedCodexFields, MissingOf
<1>4. Codex \in BOOLEAN
  BY DEF Codex, CodexIdentityRequired
<1> QED
  BY <1>1, <1>2, <1>3, <1>4 DEF IsCompleteFor

(* In a complete identity of a worker that is no Codex, the one name that  *)
(* is missing is "unknown": no attempt has a blank name.                   *)
LEMMA MissingNames ==
  ASSUME NEW v \in GivenNames, IsMissing(v)
  PROVE  v = "unknown"
BY Names DEF IsMissing, GivenNames

LEMMA GreetingsAreGreetings ==
  ASSUME turn.attempt \in Attempts, NEW m, IsGreeting(m)
  PROVE  /\ ResponseCode(m) = "ok" /\ m.defects = {} /\ m.type = "handshake.response"
         /\ \A f \in HandshakeFields : m.identity[f] = turn.attempt
         /\ ~Codex => \A f \in ConditionalFields : m.identity[f] = "unknown"
<1> DEFINE p == Greeting(turn.attempt)
           names == {"event_id"} \union OwnNames
<1>1. p \in ProperLines(turn.attempt) /\ p.type = "handshake.response"
  BY DEF ProperLines, Greeting, Message
<1>2. m = Renamed(p, names, m.identity)
  BY DEF IsGreeting
<1> HIDE DEF p, names
<1>3. /\ m.type = "handshake.response" /\ m.defects = {} /\ m.provenance = Declared
      /\ m.identity = [f \in IdentityFields |->
           IF f \in names /\ ~IsMissing(m.identity[f]) THEN m.identity[f]
           ELSE IdentityOf(turn.attempt, CodexName)[f]]
  BY <1>1, <1>2, RenamedFields
<1> DEFINE id == m.identity
           own == IdentityOf(turn.attempt, CodexName)
<1>4. \A f \in IdentityFields : id[f] = own[f] \/ (f \in names /\ ~IsMissing(id[f]))
  <2> DEFINE renamed == [f \in IdentityFields |->
                           IF f \in names /\ ~IsMissing(id[f]) THEN id[f] ELSE own[f]]
  <2>1. id = renamed
    BY <1>3
  <2>2. \A f \in IdentityFields :
          renamed[f] = IF f \in names /\ ~IsMissing(id[f]) THEN id[f] ELSE own[f]
    BY Zenon
  <2> HIDE DEF renamed, id, own
  <2> SUFFICES ASSUME NEW f \in IdentityFields, ~(f \in names /\ ~IsMissing(id[f]))
               PROVE  id[f] = own[f]
    OBVIOUS
  <2>3. renamed[f] = own[f]
    BY <2>2
  <2> QED
    BY <2>1, <2>3
<1>5. /\ \A f \in RequiredFields : own[f] = turn.attempt /\ ~IsMissing(own[f])
      /\ \A f \in ConditionalFields : own[f] = CodexName
  <2>1. /\ \A f \in RequiredFields : own[f] = turn.attempt
        /\ \A f \in ConditionalFields : own[f] = CodexName
    BY IdentityOfAttempt
  <2> HIDE DEF own
  <2> QED
    BY <2>1, Names
<1>6. OfThisRequest(m)
  BY <1>3 DEF OfThisRequest, Declared
<1> HIDE DEF id, own
<1>7. \A f \in HandshakeFields : id[f] = turn.attempt
  <2> SUFFICES ASSUME NEW f \in HandshakeFields PROVE id[f] = turn.attempt
    OBVIOUS
  <2>1. f \in IdentityFields /\ f \in RequiredFields /\ f \notin names
    BY Fields DEF names, OwnNames
  <2> QED
    BY <1>4, <1>5, <2>1
<1>8. \A f \in RequiredFields : ~IsMissing(id[f])
  <2> SUFFICES ASSUME NEW f \in RequiredFields PROVE ~IsMissing(id[f])
    OBVIOUS
  <2> QED
    BY <1>4, <1>5, Fields
<1>9. ASSUME NEW f \in ConditionalFields
      PROVE  /\ ~Codex => id[f] = "unknown"
             /\ IsMissing(id[f]) <=> ~Codex
  <2>1. f \in IdentityFields /\ own[f] = CodexName
    BY <1>5, Fields
  <2>2. CASE Codex
    BY <1>4, <2>1, <2>2, Names
  <2>3. CASE ~Codex
    <3>1. f \notin names
      BY <2>3, Fields DEF names, OwnNames
    <3> QED
      BY <1>4, <2>1, <2>3, <3>1, Names
  <2> QED
    BY <2>2, <2>3
<1>10. IsCompleteFor(id, Codex) /\ (~Codex => FabricatedCodexFields(id) = {})
  BY <1>8, <1>9, CompleteNames
<1>11. Matches(m, IdentityOf(turn.attempt, "unknown"), HandshakeFields)
  BY <1>7, Fields, IdentityOfAttempt DEF Matches, id
<1> QED
  BY <1>3, <1>6, <1>7, <1>9, <1>10, <1>11, ResponseOk DEF id

LEMMA OnlyGreetingsPass ==
  ASSUME turn.attempt \in Attempts, NEW m \in LinesOf(turn.attempt), m \notin NoMessage,
         ResponseCode(m) = "ok"
  PROVE  IsGreeting(m)
<1> DEFINE own == IdentityOf(turn.attempt, CodexName)
           names == {"event_id"} \union OwnNames
<1>1. /\ m.type = "handshake.response" /\ m.defects = {} /\ OfThisRequest(m)
      /\ \A f \in RequiredFields : ~IsMissing(m.identity[f])
      /\ \A f \in ConditionalFields : IsMissing(m.identity[f]) <=> ~Codex
      /\ Matches(m, IdentityOf(turn.attempt, "unknown"), HandshakeFields)
  BY ResponseOk, CompleteNames
<1>2. PICK p \in ProperLines(turn.attempt) :
           /\ m.type = p.type /\ m = [p EXCEPT !.identity = m.identity]
           /\ \/ m.identity = own
              \/ \E f \in IdentityFields : \E v \in GivenNames : m.identity = [own EXCEPT ![f] = v]
  BY <1>1, OnlyTheNames
<1>3. p = Greeting(turn.attempt)
  BY <1>1, <1>2, ProperFields
<1>4. own = [g \in IdentityFields |-> own[g]]
  BY IdentityOfAttempt
<1>5. ASSUME NEW f \in IdentityFields, NEW v \in GivenNames, m.identity = [own EXCEPT ![f] = v]
      PROVE  v = own[f] \/ (f \in names /\ ~IsMissing(v))
  <2> HIDE DEF own
  <2>1. m.identity[f] = v
    BY <1>4, <1>5
  <2>2. CASE f \in HandshakeFields
    <3>1. own[f] = turn.attempt /\ IdentityOf(turn.attempt, "unknown")[f] = turn.attempt
      BY <2>2, Fields, IdentityOfAttempt DEF own
    <3> QED
      BY <1>1, <2>1, <2>2, <3>1 DEF Matches
  <2>3. CASE f = "event_id"
    BY <1>1, <2>1, <2>3, Fields
  <2>4. CASE f \in ConditionalFields /\ Codex
    BY <1>1, <2>1, <2>4 DEF OwnNames
  <2>5. CASE f \in ConditionalFields /\ ~Codex
    <3>1. own[f] = "unknown"
      BY <2>5, IdentityOfAttempt, Names DEF own
    <3> QED
      BY <1>1, <2>1, <2>5, <3>1, MissingNames
  <2> QED
    BY <2>2, <2>3, <2>4, <2>5, Fields
<1>6. OneNameApart(m.identity, own, names)
  BY <1>2, <1>5 DEF OneNameApart
<1>7. m = Renamed(p, names, m.identity)
  <2> HIDE DEF names
  <2> QED
    BY <1>2, <1>6, FreeNames
<1> QED
  BY <1>3, <1>7 DEF IsGreeting

LEMMA ResultsAreResults ==
  ASSUME turn.attempt \in Attempts, NEW g, IsGreeting(g), NEW m, IsResultAfter(m, g)
  PROVE  ResultCode(m, g) = "ok" /\ m.defects = {} /\ m.type = "result"
<1> DEFINE own == IdentityOf(turn.attempt, CodexName)
           names == {"event_id", "artifact_id"} \union OwnNames
           id == m.identity
<1>1. PICK p \in Results(turn.attempt) : m = Renamed(p, names, id)
  BY DEF IsResultAfter
<1>2. p \in ProperLines(turn.attempt) /\ p.type = "result"
  BY DEF ProperLines, Results, Message
<1> HIDE DEF names
<1>3. /\ m.type = "result" /\ m.defects = {} /\ m.provenance = Declared
      /\ id = [f \in IdentityFields |-> IF f \in names /\ ~IsMissing(id[f]) THEN id[f] ELSE own[f]]
  BY <1>1, <1>2, RenamedFields
<1>4. \A f \in IdentityFields : id[f] = own[f] \/ (f \in names /\ ~IsMissing(id[f]))
  <2> DEFINE renamed == [f \in IdentityFields |->
                           IF f \in names /\ ~IsMissing(id[f]) THEN id[f] ELSE own[f]]
  <2>1. id = renamed
    BY <1>3
  <2>2. \A f \in IdentityFields :
          renamed[f] = IF f \in names /\ ~IsMissing(id[f]) THEN id[f] ELSE own[f]
    BY Zenon
  <2> HIDE DEF renamed, id, own
  <2> SUFFICES ASSUME NEW f \in IdentityFields, ~(f \in names /\ ~IsMissing(id[f]))
               PROVE  id[f] = own[f]
    OBVIOUS
  <2>3. renamed[f] = own[f]
    BY <2>2
  <2> QED
    BY <2>1, <2>3
<1>5. /\ \A f \in RequiredFields : own[f] = turn.attempt /\ ~IsMissing(own[f])
      /\ \A f \in ConditionalFields : own[f] = CodexName
  <2>1. /\ \A f \in RequiredFields : own[f] = turn.attempt
        /\ \A f \in ConditionalFields : own[f] = CodexName
    BY IdentityOfAttempt
  <2> HIDE DEF own
  <2> QED
    BY <2>1, Names
<1>6. OfThisRequest(m)
  BY <1>3 DEF OfThisRequest, Declared
<1>7. \A f \in ConditionalFields : id[f] = g.identity[f]
  BY DEF IsResultAfter
<1>8. \A f \in HandshakeFields : g.identity[f] = turn.attempt
  BY GreetingsAreGreetings
<1> HIDE DEF id, own
<1>9. \A f \in RequiredFields : ~IsMissing(id[f])
  <2> SUFFICES ASSUME NEW f \in RequiredFields PROVE ~IsMissing(id[f])
    OBVIOUS
  <2> QED
    BY <1>4, <1>5, Fields
<1>10. ASSUME NEW f \in ConditionalFields PROVE IsMissing(id[f]) <=> ~Codex
  <2>1. f \in IdentityFields /\ own[f] = CodexName
    BY <1>5, Fields
  <2>2. CASE Codex
    BY <1>4, <2>1, <2>2, Names
  <2>3. CASE ~Codex
    <3>1. f \notin names
      BY <2>3, Fields DEF names, OwnNames
    <3> QED
      BY <1>4, <2>1, <2>3, <3>1, Names
  <2> QED
    BY <2>2, <2>3
<1>11. IsCompleteFor(id, Codex) /\ (~Codex => FabricatedCodexFields(id) = {})
  BY <1>9, <1>10, CompleteNames
<1>12. ASSUME NEW f \in CodingFields PROVE id[f] = g.identity[f]
  <2>1. CASE f \in ConditionalFields
    BY <1>7, <2>1
  <2>2. CASE f \notin ConditionalFields
    <3>1. f \in RequiredFields /\ f \in IdentityFields /\ f \in HandshakeFields
      BY <2>2, Fields
    <3>2. f \notin names
      BY <2>2, Fields DEF names, OwnNames
    <3> QED
      BY <1>4, <1>5, <1>8, <3>1, <3>2
  <2> QED
    BY <2>1, <2>2
<1>13. Matches(m, g.identity, CodingFields)
  BY <1>12 DEF Matches, id
<1> QED
  BY <1>3, <1>6, <1>11, <1>13, ResultOk, DefectsAreFound DEF id

LEMMA OnlyResultsPass ==
  ASSUME turn.attempt \in Attempts, NEW m \in LinesOf(turn.attempt), m \notin NoMessage,
         m.type = "result", Construct(m) = "ok",
         NEW g, IsGreeting(g), ResultCode(m, g) = "ok"
  PROVE  IsResultAfter(m, g)
<1> DEFINE own == IdentityOf(turn.attempt, CodexName)
           names == {"event_id", "artifact_id"} \union OwnNames
<1>1. /\ OfThisRequest(m) /\ FirstFailure(PayloadChecks, m.defects) = "ok"
      /\ \A f \in RequiredFields : ~IsMissing(m.identity[f])
      /\ \A f \in ConditionalFields : IsMissing(m.identity[f]) <=> ~Codex
      /\ Matches(m, g.identity, CodingFields)
  BY ResultOk, CompleteNames
<1>2. \A d \in CheckedDefects : d \notin m.defects
  BY <1>1, DefectsAreFound DEF CheckedDefects
<1>3. PICK p \in ProperLines(turn.attempt) :
           /\ m.type = p.type /\ m = [p EXCEPT !.identity = m.identity]
           /\ \/ m.identity = own
              \/ \E f \in IdentityFields : \E v \in GivenNames : m.identity = [own EXCEPT ![f] = v]
  BY <1>1, <1>2, OnlyTheNames
<1>4. p \in Results(turn.attempt)
  BY <1>3, ProperFields
<1>5. own = [f \in IdentityFields |-> own[f]]
  BY IdentityOfAttempt
<1>6. \A f \in HandshakeFields : g.identity[f] = turn.attempt
  BY GreetingsAreGreetings
<1>7. ASSUME NEW f \in IdentityFields, NEW v \in GivenNames, m.identity = [own EXCEPT ![f] = v]
      PROVE  v = own[f] \/ (f \in names /\ ~IsMissing(v))
  <2> HIDE DEF own
  <2>1. m.identity[f] = v
    BY <1>5, <1>7
  <2>2. CASE f \in {"event_id", "artifact_id"}
    BY <1>1, <2>1, <2>2, Fields
  <2>3. CASE f \in RequiredFields \ {"event_id", "artifact_id"}
    <3>1. own[f] = turn.attempt
      BY <2>3, IdentityOfAttempt DEF own
    <3>2. f \in CodingFields /\ f \in HandshakeFields
      BY <2>3, Fields
    <3> QED
      BY <1>1, <1>6, <2>1, <3>1, <3>2 DEF Matches
  <2>4. CASE f \in ConditionalFields /\ Codex
    BY <1>1, <2>1, <2>4 DEF OwnNames
  <2>5. CASE f \in ConditionalFields /\ ~Codex
    <3>1. own[f] = CodexName
      BY <2>5, IdentityOfAttempt DEF own
    <3> QED
      BY <1>1, <2>1, <2>5, <3>1, MissingNames, Names
  <2> QED
    BY <2>2, <2>3, <2>4, <2>5, Fields
<1>8. OneNameApart(m.identity, own, names)
  BY <1>3, <1>7 DEF OneNameApart
<1>9. m = Renamed(p, names, m.identity)
  <2>1. m = [p EXCEPT !.identity = m.identity]
    BY <1>3
  <2>2. p \in ProperLines(turn.attempt)
    BY <1>3
  <2> HIDE DEF names
  <2> QED
    BY <2>1, <2>2, <1>8, FreeNames
<1>10. \A f \in ConditionalFields : m.identity[f] = g.identity[f]
  BY <1>1, Fields DEF Matches
<1> QED
  BY <1>4, <1>9, <1>10 DEF IsResultAfter

-----------------------------------------------------------------------------
(* What a step leaves as it was: within an attempt, the words that are     *)
(* proper; with the files, what has been left.                             *)

SameTurn == schema' = schema /\ turn'.kind = turn.kind /\ turn'.attempt = turn.attempt

LEMMA SameLines ==
  ASSUME SameTurn
  PROVE  Expected' = Expected /\ LinesOf(turn.attempt)' = LinesOf(turn.attempt)
BY DEF SameTurn, Expected, LinesOf, ProperLines, Greeting, Results, CodexName, Codex,
       CodexIdentityRequired, Deviations, Message, IdentityOf

LEMMA SameWords ==
  ASSUME SameTurn, said' = said
  PROVE  /\ IsGreeting(said[1])' <=> IsGreeting(said[1])
         /\ IsResultAfter(said[2], said[1])' <=> IsResultAfter(said[2], said[1])
         /\ SaidProperly' <=> SaidProperly
<1>1. IsGreeting(said[1])' <=> IsGreeting(said[1])
  BY DEF SameTurn, IsGreeting, Renamed, Greeting, Message, IdentityOf, CodexName, Codex,
         CodexIdentityRequired, OwnNames
<1>2. Results(turn.attempt)' = Results(turn.attempt)
  BY DEF SameTurn, Results, Message, IdentityOf, CodexName, Codex, CodexIdentityRequired
<1>3. OwnNames' = OwnNames
  BY DEF SameTurn, OwnNames, Codex, CodexIdentityRequired
<1>4. IsResultAfter(said[2], said[1])' <=> IsResultAfter(said[2], said[1])
  BY <1>2, <1>3 DEF IsResultAfter, Renamed
<1>5. SaidProperly' <=> SaidProperly
  BY <1>1, <1>4, SameLines DEF SaidProperly, Messages, SameTurn
<1> QED
  BY <1>1, <1>4, <1>5

LEMMA SameFiles ==
  ASSUME SameTurn, said' = said, files' = files, workspace' = workspace
  PROVE  LeftProperly' <=> LeftProperly
BY DEF SameTurn, LeftProperly, Written

-----------------------------------------------------------------------------
(* The front of a sequence: what is appended does not change it, and the   *)
(* part that follows makes it longer.                                      *)

LEMMA FrontOfAppend ==
  ASSUME NEW S, NEW s \in Seq(S), NEW e \in S, NEW k \in 0..Len(s)
  PROVE  SubSeq(Append(s, e), 1, k) = SubSeq(s, 1, k)
<1>1. CASE k = 0
  BY <1>1, SubSeqEmpty
<1>2. CASE k # 0
  <2>1. Append(s, e) = s \o <<e>> /\ <<e>> \in Seq(S)
    BY AppendIsConcat
  <2>2. 1 \in 1..Len(s) /\ k \in 1..Len(s)
    BY <1>2, LenProperties
  <2> QED
    BY <2>1, <2>2, SubSeqOfConcat1
<1> QED
  BY <1>1, <1>2

LEMMA FrontGrows ==
  ASSUME NEW S, NEW s \in Seq(S), NEW k \in 0..Len(s), NEW w \in k..Len(s),
         NEW n \in 1..(w - k)
  PROVE  LET rest == SubSeq(s, k + 1, w)
         IN  /\ Len(rest) = w - k /\ Len(SubSeq(rest, 1, n)) = n
             /\ \A i \in 1..n : SubSeq(rest, 1, n)[i] = s[k + i]
             /\ SubSeq(s, 1, k) \o SubSeq(rest, 1, n) = SubSeq(s, 1, k + n)
<1> DEFINE rest == SubSeq(s, k + 1, w)
<1>1. k \in Nat /\ w \in Nat /\ n \in Nat /\ Len(s) \in Nat /\ k < w /\ w <= Len(s) /\ n <= w - k
  BY LenProperties
<1>2. k + 1 \in 1..Len(s) /\ w \in 1..Len(s) /\ 1 \in 1..(w - (k + 1) + 1)
      /\ n \in 1..(w - (k + 1) + 1)
  BY <1>1
<1>3. SubSeq(rest, 1, n) = SubSeq(s, k + 1, k + n)
  <2>1. SubSeq(rest, 1, n) = SubSeq(s, (k + 1) + 1 - 1, (k + 1) + n - 1)
    BY <1>2, SubSeqOfSubSeq
  <2>2. (k + 1) + 1 - 1 = k + 1 /\ (k + 1) + n - 1 = k + n
    BY <1>1
  <2> QED
    BY <2>1, <2>2
<1>4. Len(rest) = w - k
  <2>1. \A i \in (k + 1)..w : s[i] \in S
    BY <1>1, ElementOfSeq
  <2> QED
    BY <1>1, <2>1, SubSeqProperties
<1>5. Len(SubSeq(s, k + 1, k + n)) = n /\ \A i \in 1..n : SubSeq(s, k + 1, k + n)[i] = s[k + i]
  <2>1. \A i \in (k + 1)..(k + n) : s[i] \in S
    BY <1>1, ElementOfSeq
  <2>2. /\ Len(SubSeq(s, k + 1, k + n)) = IF k + 1 <= k + n THEN (k + n) - (k + 1) + 1 ELSE 0
        /\ \A i \in 1..((k + n) - (k + 1) + 1) : SubSeq(s, k + 1, k + n)[i] = s[(k + 1) + i - 1]
    BY <1>1, <2>1, SubSeqProperties
  <2> HIDE DEF rest
  <2>3. (k + n) - (k + 1) + 1 = n /\ k + 1 <= k + n /\ \A i \in 1..n : (k + 1) + i - 1 = k + i
    BY <1>1
  <2> QED
    BY <2>2, <2>3
<1>6. SubSeq(s, 1, k) \o SubSeq(s, k + 1, k + n) = SubSeq(s, 1, k + n)
  <2>1. 1 \in 1..(Len(s) + 1) /\ k \in (1 - 1)..Len(s) /\ (k + n) \in k..Len(s)
    BY <1>1
  <2> QED
    BY <2>1, ConcatAdjacentSubSeq
<1> QED
  BY <1>3, <1>4, <1>5, <1>6

-----------------------------------------------------------------------------
(* What the actions do to the turn. *)

LEMMA Moves ==
  ASSUME TurnShape
  PROVE  /\ \A step : Goto(step) =>
              /\ turn'.pc = step /\ turn'.kind = turn.kind /\ turn'.attempt = turn.attempt
              /\ turn'.error = turn.error /\ TurnShape'
         /\ \A error : Fail(error) =>
              /\ turn'.pc = "failing" /\ turn'.kind = turn.kind /\ turn'.attempt = turn.attempt
              /\ turn'.error = error /\ TurnShape'
BY DEF TurnShape, Goto, Fail

(* The actions of the worker and its processes, and those that decide      *)
(* about a worker that has said all it will say.                           *)
WorkerNext ==
  SayProperly \/ SayWrongly \/ WriteArtifact \/ Meddle \/ SpawnHelper \/ HelperEnds \/ WorkerExits

DecideNext ==
  \/ ReadEnd \/ Interrupt \/ ValidateResponse \/ ValidateCodingResult
  \/ CheckArtifact \/ AssertClean \/ CompareWorkspace \/ ComparePaths

LEMMA TypeSteps ==
  ASSUME ExchangeInv, ExchangeNext
  PROVE  ExchangeTypeOK'
<1> USE DEF ExchangeInv, ExchangeTypeOK, TurnInv, ReadInv
<1>1. /\ RetryCeiling \in Nat /\ LineLimit \in Nat /\ FaultLimit \in Nat
      /\ Len(said) \in Nat /\ taken \in Nat /\ faults \in Nat /\ charged \in Nat
      /\ TurnShape
  BY ExchangeAssumption, LenProperties
<1>2. ASSUME NEW kind \in {"handshake", "read_only_coding"}, NEW a \in Attempts, Admit(kind, a)
      PROVE  ExchangeTypeOK'
  BY <1>1, <1>2 DEF Admit, output
<1>3. CASE Spawn
  BY <1>1, <1>3, Moves DEF Spawn, world
<1>4. CASE Recover
  BY <1>1, <1>4 DEF Recover, output
<1>5. CASE ReadBurst
  <2>1. taken' \in 0..Len(said)
    <3>1. CASE taken' = taken
      BY <3>1
    <3>2. CASE taken' # taken
      <4>1. PICK n \in 1..Len(Pending) : taken' = taken + n
        BY <1>5, <3>2 DEF ReadBurst
      <4>2. taken + Len(Pending) <= Len(said) /\ Len(Pending) \in Nat
        <5>1. Whole \in Int /\ Whole <= Len(said)
          BY <1>1 DEF Whole
        <5>2. Len(Pending) = IF taken + 1 <= Whole THEN Whole - (taken + 1) + 1 ELSE 0
          <6>1. \A i \in (taken + 1)..Whole : said[i] \in LinesOf(turn.attempt)
            BY <1>1, <5>1, ElementOfSeq
          <6> QED
            BY <1>1, <5>1, <6>1, SubSeqProperties DEF Pending
        <5> QED
          BY <1>1, <5>1, <5>2
      <4> QED
        BY <1>1, <4>1, <4>2
    <3> QED
      BY <3>1, <3>2
  <2>2. turn'.pc \in {"reading", "failing"} /\ turn'.kind = turn.kind /\ turn'.attempt = turn.attempt
    BY <1>1, <1>5, Moves DEF ReadBurst, At
  <2> QED
    BY <1>1, <1>5, <2>1, <2>2 DEF ReadBurst, world, output
<1>6. CASE DecideNext
  <2>1. /\ turn'.pc \in {"ended", "greeted", "checking", "clean", "unchanged", "recording", "failing"}
           \/ turn' = turn
        /\ turn'.kind = turn.kind /\ turn'.attempt = turn.attempt
    BY <1>1, <1>6, Moves
       DEF DecideNext, ReadEnd, Interrupt, ValidateResponse, ValidateCodingResult, CheckArtifact,
           AssertClean, CompareWorkspace, ComparePaths, Proceed
  <2>2. verified' \subseteq ArtifactNames /\ taken' = taken /\ UNCHANGED <<world, output>>
    BY <1>6
       DEF DecideNext, ReadEnd, Interrupt, ValidateResponse, ValidateCodingResult, CheckArtifact,
           AssertClean, CompareWorkspace, ComparePaths, world, output
  <2> QED
    BY <2>1, <2>2 DEF world, output
<1>7. CASE CollectExit
  BY <1>1, <1>7, Moves DEF CollectExit, Proceed, Escaped, world
<1>8. CASE Complete
  BY <1>1, <1>8, Moves DEF Complete, output
<1>9. CASE AccountFailure \/ Close
  <2>1. <<>> \in Seq({}) /\ Len(<<>>) = 0 /\ 0 \in 0..0
    BY EmptySeq
  <2>2. parent' \in {"running", "recovering", "stopped"}
    BY <1>1, <1>9 DEF AccountFailure, Close, world
  <2>3. CASE AccountFailure
    <3>1. /\ turn' = Idle /\ said' = <<>> /\ taken' = 0 /\ workspace' = "own" /\ verified' = {}
          /\ worker' = "none" /\ helpers' = helpers \ InGroup
          /\ UNCHANGED <<schema, charged, files, faults>>
      BY <2>3 DEF AccountFailure, CallReturns, Escaped
    <3>2. outcome' \in [Attempts -> {"none", "refused", "accepted"}]
      BY <1>1, <2>3 DEF AccountFailure
    <3> QED
      BY <1>1, <2>1, <2>2, <3>1, <3>2 DEF Idle
  <2>4. CASE Close
    BY <1>1, <2>1, <2>2, <2>4 DEF Close, CallReturns, Idle, world
  <2> QED
    BY <1>9, <2>3, <2>4
<1>10. CASE SayProperly \/ SayWrongly
  <2>1. PICK line : Say(line)
    BY <1>10 DEF SayProperly, SayWrongly
  <2>2. Len(said') = Len(said) + 1
    BY <2>1 DEF Say
  <2> QED
    BY <1>1, <1>10, <2>1, <2>2 DEF SayProperly, SayWrongly, Misbehaves, Say, world
<1>11. CASE WriteArtifact \/ Meddle
  <2>1. files' \in [Paths -> Contents \union {"absent"}]
    BY <1>11 DEF WriteArtifact, Meddle, Contents
  <2>2. workspace' \in {"own", "changed"} /\ faults' \in 0..FaultLimit
    BY <1>1, <1>11 DEF WriteArtifact, Meddle, Misbehaves
  <2> QED
    BY <1>11, <2>1, <2>2 DEF WriteArtifact, Meddle, world
<1>12. CASE SpawnHelper \/ HelperEnds
  BY <1>12 DEF SpawnHelper, HelperEnds, HelperKinds, world
<1>13. CASE WorkerExits
  BY <1>1, <1>13 DEF WorkerExits, Misbehaves, world
<1> QED
  BY <1>2, <1>3, <1>4, <1>5, <1>6, <1>7, <1>8, <1>9, <1>10, <1>11, <1>12, <1>13
  DEF ExchangeNext, DecideNext

-----------------------------------------------------------------------------
(* The worker and its processes: once the bridge has what it decides on,   *)
(* they can no longer change it.                                           *)

(* What is wrong with a turn stays wrong, whatever its processes do. *)
LEMMA FaultsStay ==
  ASSUME ExchangeInv, WorkerNext, turn' = turn, schema' = schema
  PROVE  Faulty => Faulty'
<1> USE DEF ExchangeInv, ReadInv
<1>1. SameTurn
  BY DEF SameTurn
<1>2. CASE SayProperly \/ SayWrongly
  <2>1. PICK line : said' = Append(said, line) /\ worker = "up"
    BY <1>2 DEF SayProperly, SayWrongly, Say
  <2>2. /\ Len(said) \in Nat /\ Len(said') = Len(said) + 1
        /\ \A i \in 1..Len(said) : said'[i] = said[i]
    BY <2>1, LenProperties
  <2>3. CASE \E i \in 1..Len(said) : said[i] \in NoMessage \/ Construct(said[i]) # "ok"
    <3>1. PICK i \in 1..Len(said) : said[i] \in NoMessage \/ Construct(said[i]) # "ok"
      BY <2>3
    <3>2. i \in 1..Len(said') /\ said'[i] = said[i]
      BY <2>2
    <3>3. said'[i] \in NoMessage \/ Construct(said'[i]) # "ok"
      BY <3>1, <3>2
    <3> QED
      BY <3>2, <3>3 DEF Faulty, NoMessage, CutLine, EmptyLine, LongLine
  <2>4. CASE Len(said) > Expected
    <3>1. Len(said') > Expected'
      BY <1>1, <2>2, <2>4, SameLines DEF Expected
    <3> QED
      BY <3>1 DEF Faulty
  <2> QED
    BY <2>1, <2>3, <2>4 DEF Faulty
<1>3. CASE WriteArtifact \/ Meddle \/ SpawnHelper \/ HelperEnds \/ WorkerExits
  <2>1. said' = said /\ (worker' = worker \/ (worker = "up" /\ WorkerExits))
    BY <1>3 DEF WriteArtifact, Meddle, SpawnHelper, HelperEnds, WorkerExits
  <2>2. SaidProperly' <=> SaidProperly
    BY <1>1, <2>1, SameWords
  <2>3. Expected' = Expected
    BY <1>1, SameLines
  <2>4. CASE \E i \in 1..Len(said) : said[i] \in NoMessage \/ Construct(said[i]) # "ok"
    <3>1. \E i \in 1..Len(said') : said'[i] \in NoMessage \/ Construct(said'[i]) # "ok"
      BY <2>1, <2>4
    <3> QED
      BY <3>1 DEF Faulty, NoMessage, CutLine, EmptyLine, LongLine
  <2>5. CASE Len(said) > Expected
    BY <2>1, <2>3, <2>5 DEF Faulty
  <2>6. CASE worker \in {"exited", "crashed"} /\ ~(worker = "exited" /\ SaidProperly)
    BY <2>1, <2>2, <2>6 DEF Faulty
  <2>7. CASE worker = "exited" /\ helpers \cap InGroup = {} /\ (helpers = {} => ~LeftProperly)
    <3>1. worker' = "exited"
      BY <2>1, <2>7
    <3>2. CASE helpers = {}
      <4>1. UNCHANGED <<files, workspace, helpers>>
        BY <1>3, <2>7, <3>2 DEF WriteArtifact, Meddle, SpawnHelper, HelperEnds, WorkerExits
      <4> QED
        BY <1>1, <2>1, <2>7, <3>1, <4>1, SameFiles DEF Faulty, InGroup
    <3>3. CASE helpers # {}
      <4>1. helpers' # {} /\ helpers' \cap InGroup = {}
        BY <1>3, <2>7, <3>3
           DEF WriteArtifact, Meddle, SpawnHelper, HelperEnds, WorkerExits, InGroup
      <4> QED
        BY <3>1, <4>1 DEF Faulty, InGroup
    <3> QED
      BY <3>2, <3>3
  <2> QED
    BY <2>4, <2>5, <2>6, <2>7 DEF Faulty
<1> QED
  BY <1>2, <1>3 DEF WorkerNext

LEMMA WorkerSteps ==
  ASSUME ExchangeInv, WorkerNext
  PROVE  ExchangeInv'
<1> USE DEF ExchangeInv
<1>1. /\ turn' = turn /\ schema' = schema /\ UNCHANGED <<taken, answers, verified>>
      /\ SameTurn
  BY DEF WorkerNext, SayProperly, SayWrongly, Say, WriteArtifact, Meddle, SpawnHelper, HelperEnds,
         WorkerExits, world, SameTurn
<1>2. /\ Len(said) \in Nat /\ taken \in 0..Len(said)
      /\ LinesOf(turn.attempt)' = LinesOf(turn.attempt) /\ Expected' = Expected
  BY <1>1, SameLines, LenProperties DEF ReadInv
<1>3. ExchangeTypeOK'
  BY TypeSteps DEF WorkerNext, ExchangeNext
<1>4. TurnInv'
  <2>1. worker = "up" => turn.pc \notin Settled \union {"idle", "created", "ended"}
    BY DEF TurnInv, At
  <2>2. CASE SayProperly \/ SayWrongly
    BY <1>1, <2>1, <2>2 DEF SayProperly, SayWrongly, Say, TurnInv, At, TurnShape, Settled
  <2>3. CASE WriteArtifact \/ Meddle \/ SpawnHelper \/ WorkerExits
    <3>1. said' = said /\ (worker' = worker \/ (worker = "up" /\ worker' \in {"exited", "crashed"}))
          /\ (helpers' = helpers \/ worker = "up")
      BY <2>3 DEF WriteArtifact, Meddle, SpawnHelper, WorkerExits
    <3>2. Expected' = Expected
      BY <1>2
    <3> QED
      BY <1>1, <2>1, <3>1, <3>2 DEF TurnInv, At, TurnShape, InGroup, Settled, Coding
  <2>4. CASE HelperEnds
    <3>1. said' = said /\ worker' = worker
      BY <2>4 DEF HelperEnds
    <3>2. helpers \cap InGroup = {} => helpers' \cap InGroup = {}
      BY <2>4 DEF HelperEnds, InGroup
    <3>3. Expected' = Expected
      BY <1>2
    <3> QED
      BY <1>1, <3>1, <3>2, <3>3 DEF TurnInv, At, TurnShape, InGroup, Settled, Coding
  <2> QED
    BY <2>2, <2>3, <2>4 DEF WorkerNext
<1>5. ReadInv'
  <2>1. CASE SayProperly \/ SayWrongly
    <3>1. PICK line \in LinesOf(turn.attempt) : Say(line)
      BY <2>1 DEF SayProperly, SayWrongly, Due, Wrong, LinesOf, ProperLines, NoMessage
    <3>2. /\ said' = Append(said, line) /\ said \in Seq(LinesOf(turn.attempt))
          /\ said # <<>> => said[Len(said)] # CutLine
      BY <3>1 DEF Say, ReadInv
    <3>3. /\ said' \in Seq(LinesOf(turn.attempt)) /\ Len(said') = Len(said) + 1
          /\ \A i \in 1..Len(said) : said'[i] = said[i]
      BY <3>1, <3>2, AppendProperties
    <3>4. SubSeq(said', 1, taken) = SubSeq(said, 1, taken)
      BY <1>2, <3>1, <3>2, FrontOfAppend
    <3>5. ASSUME NEW i \in 1..Len(said'), said'[i] = CutLine PROVE i = Len(said')
      <4>1. CASE i \in 1..Len(said)
        <5>1. said[i] = CutLine /\ i = Len(said)
          BY <3>3, <3>5, <4>1 DEF ReadInv
        <5> QED
          BY <1>2, <3>2, <4>1, <5>1
      <4> QED
        BY <1>2, <3>3, <4>1
    <3>6. \A i \in 1..taken : said'[i] = said[i]
      BY <1>2, <3>3
    <3>7. \A i \in 1..taken : said'[i] \notin NoMessage /\ Construct(said'[i]) = "ok"
      BY <3>6 DEF ReadInv
    <3>8. /\ said' \in Seq(LinesOf(turn.attempt)') /\ taken' \in 0..Len(said') /\ taken' <= Expected'
          /\ answers' = SubSeq(said', 1, taken')
      BY <1>1, <1>2, <3>3, <3>4 DEF ReadInv
    <3> QED
      BY <1>1, <3>5, <3>7, <3>8 DEF ReadInv, NoMessage, CutLine, EmptyLine, LongLine
  <2>2. CASE ~(SayProperly \/ SayWrongly)
    <3>1. said' = said
      BY <2>2 DEF WorkerNext, WriteArtifact, Meddle, SpawnHelper, HelperEnds, WorkerExits
    <3> QED
      BY <1>1, <1>2, <3>1 DEF ReadInv, NoMessage, CutLine, EmptyLine, LongLine
  <2> QED
    BY <2>1, <2>2
<1>6. MessagesInv' /\ FilesInv'
  <2>1. CASE turn.pc \in Settled
    <3>1. worker = "exited" /\ helpers \cap InGroup = {}
      BY <2>1 DEF TurnInv
    <3>2. Meddle \/ HelperEnds
      BY <3>1 DEF WorkerNext, SayProperly, SayWrongly, Say, WriteArtifact, SpawnHelper, WorkerExits
    <3>3. said' = said
      BY <3>2 DEF Meddle, HelperEnds
    <3>4. helpers' # {}
      BY <3>1, <3>2 DEF Meddle, HelperEnds, InGroup
    <3>5. MessagesInv'
      BY <1>1, <3>3, SameWords
         DEF MessagesInv, Settled, Coding, Greeted, Answered, Compared, Unchanged, Named, At
    <3> QED
      BY <3>4, <3>5 DEF FilesInv
  <2>2. CASE turn.pc \notin Settled
    BY <1>1, <2>2
       DEF MessagesInv, FilesInv, Settled, Greeted, Answered, Compared, Unchanged, Named, At
  <2> QED
    BY <2>1, <2>2
<1>7. FailureInv'
  <2>1. Faulty => Faulty'
    BY <1>1, FaultsStay
  <2> QED
    BY <1>1, <2>1 DEF FailureInv, At, Excuses
<1> QED
  BY <1>3, <1>4, <1>5, <1>6, <1>7

-----------------------------------------------------------------------------
(* The read loop. *)

LEMMA PendingLines ==
  ASSUME ExchangeInv
  PROVE  /\ Len(said) \in Nat /\ taken \in 0..Len(said) /\ Expected \in {1, 2}
         /\ Len(answers) = taken /\ \A i \in 1..taken : answers[i] = said[i]
         /\ Whole \in Int /\ Whole <= Len(said)
         /\ \A i \in 1..Len(said) : i <= Whole => said[i] # CutLine
         /\ Whole < Len(said) => Len(said) \in 1..Len(said) /\ said[Len(said)] = CutLine
         /\ Len(Pending) = IF taken < Whole THEN Whole - taken ELSE 0
<1> USE DEF ExchangeInv, ReadInv
<1>1. Len(said) \in Nat /\ taken \in 0..Len(said) /\ Expected \in {1, 2}
  BY LenProperties DEF Expected
<1>2. \A i \in 1..Len(said) : said[i] \in LinesOf(turn.attempt)
  BY ElementOfSeq
<1>3. Len(answers) = taken /\ \A i \in 1..taken : answers[i] = said[i]
  <2>1. \A i \in 1..taken : said[i] \in LinesOf(turn.attempt)
    BY <1>1, <1>2
  <2>2. /\ Len(SubSeq(said, 1, taken)) = IF 1 <= taken THEN taken - 1 + 1 ELSE 0
        /\ \A i \in 1..(taken - 1 + 1) : SubSeq(said, 1, taken)[i] = said[1 + i - 1]
    BY <1>1, <2>1, SubSeqProperties
  <2> QED
    BY <1>1, <2>2
<1>4. Whole \in Int /\ Whole <= Len(said)
  BY <1>1 DEF Whole
<1>5. said # <<>> => Len(said) \in 1..Len(said)
  BY <1>1, EmptySeq
<1>6. \A i \in 1..Len(said) : i <= Whole => said[i] # CutLine
  BY <1>1, <1>5 DEF Whole
<1>7. Whole < Len(said) => Len(said) \in 1..Len(said) /\ said[Len(said)] = CutLine
  BY <1>1, <1>5 DEF Whole
<1>8. Len(Pending) = IF taken < Whole THEN Whole - taken ELSE 0
  <2>1. \A i \in (taken + 1)..Whole : said[i] \in LinesOf(turn.attempt)
    BY <1>1, <1>2, <1>4
  <2>2. Len(Pending) = IF taken + 1 <= Whole THEN Whole - (taken + 1) + 1 ELSE 0
    BY <1>1, <1>4, <2>1, SubSeqProperties DEF Pending
  <2> QED
    BY <1>1, <1>4, <2>2
<1> QED
  BY <1>1, <1>3, <1>4, <1>6, <1>7, <1>8

LEMMA ReadSteps ==
  ASSUME ExchangeInv, ReadBurst
  PROVE  ExchangeInv'
<1> USE DEF ExchangeInv
<1>1. ExchangeTypeOK'
  BY TypeSteps DEF ExchangeNext
<1>2. /\ Len(said) \in Nat /\ taken \in 0..Len(said) /\ Expected \in {1, 2}
      /\ Len(answers) = taken /\ Whole \in Int /\ Whole <= Len(said)
      /\ \A i \in 1..Len(said) : i <= Whole => said[i] # CutLine
      /\ Len(Pending) = IF taken < Whole THEN Whole - taken ELSE 0
      /\ said \in Seq(LinesOf(turn.attempt))
  BY PendingLines DEF ReadInv
<1>3. PICK n \in 1..Len(Pending) :
        LET burst == SubSeq(Pending, 1, n)
            code(i) == OnLine(burst[i], Len(answers) + i - 1)
            bad == {i \in 1..n : code(i) # "ok"}
        IN  \/ /\ n > 1 \/ bad # {}
               /\ Fail(IF bad = {} THEN "message_too_large" ELSE code(Min(bad)))
               /\ UNCHANGED <<taken, answers>>
            \/ /\ bad = {}
               /\ answers' = answers \o burst
               /\ taken' = taken + n
               /\ UNCHANGED turn
  BY DEF ReadBurst
<1> DEFINE burst == SubSeq(Pending, 1, n)
           code(i) == OnLine(burst[i], taken + i - 1)
           bad == {i \in 1..n : code(i) # "ok"}
<1>4. At("reading") /\ UNCHANGED <<world, output, verified>>
  BY DEF ReadBurst
<1>5. taken \in Nat /\ n \in Nat /\ 1 <= n /\ taken + n <= Whole /\ taken + n <= Len(said)
      /\ Whole \in taken..Len(said) /\ n \in 1..(Whole - taken)
  BY <1>2
<1>6. /\ \A i \in 1..n : burst[i] = said[taken + i]
      /\ SubSeq(said, 1, taken) \o burst = SubSeq(said, 1, taken + n)
  BY <1>2, <1>5, FrontGrows DEF Pending
<1>7. \/ /\ bad = {} \/ code(Min(bad)) # "ok"
         /\ Fail(IF bad = {} THEN "message_too_large" ELSE code(Min(bad)))
         /\ UNCHANGED <<taken, answers>>
      \/ /\ bad = {}
         /\ answers' = answers \o burst
         /\ taken' = taken + n
         /\ UNCHANGED turn
  <2>1. bad \in SUBSET Nat
    BY <1>5
  <2>2. bad # {} => Min(bad) \in bad
    <3> HIDE DEF bad
    <3> QED
      BY <2>1, MinIsLeast
  <2> QED
    BY <1>2, <1>3, <2>2
<1>8. turn.pc = "reading" /\ TurnShape
      /\ schema' = schema /\ worker' = worker /\ helpers' = helpers /\ said' = said
      /\ files' = files /\ workspace' = workspace /\ verified' = verified
  BY <1>4 DEF At, world, output, TurnInv
<1>9. CASE /\ bad = {} \/ code(Min(bad)) # "ok"
           /\ Fail(IF bad = {} THEN "message_too_large" ELSE code(Min(bad)))
           /\ UNCHANGED <<taken, answers>>
  <2>1. /\ turn'.pc = "failing" /\ turn'.kind = turn.kind /\ turn'.attempt = turn.attempt
        /\ turn'.error = IF bad = {} THEN "message_too_large" ELSE code(Min(bad))
        /\ TurnShape'
    <3> HIDE DEF bad, code
    <3> QED
      BY <1>8, <1>9, Moves
  <2>2. SameTurn
    BY <1>8, <2>1 DEF SameTurn
  <2>3. LinesOf(turn.attempt)' = LinesOf(turn.attempt) /\ Expected' = Expected
    BY <2>2, SameLines
  <2>4. TurnInv'
    BY <1>8, <2>1 DEF TurnInv, At, Settled
  <2>5. ReadInv'
    BY <1>8, <1>9, <2>3 DEF ReadInv, NoMessage, CutLine, EmptyLine, LongLine
  <2>6. MessagesInv' /\ FilesInv'
    BY <2>1 DEF MessagesInv, FilesInv, Settled, Greeted, Answered, Compared, Unchanged, Named, At
  <2>7. ASSUME turn'.error \notin Excuses PROVE Faulty
    <3>1. bad # {} /\ code(Min(bad)) \notin Excuses /\ code(Min(bad)) # "ok"
      BY <1>9, <2>1, <2>7 DEF Excuses
    <3>2. Min(bad) \in 1..n
      <4>1. bad \in SUBSET Nat /\ bad \subseteq 1..n
        BY <1>5
      <4> HIDE DEF bad
      <4> QED
        BY <3>1, <4>1, MinIsLeast
    <3>3. PICK i \in 1..n : OnLine(said[taken + i], taken + i - 1) \notin Excuses \union {"ok"}
      <4>1. code(Min(bad)) = OnLine(said[taken + Min(bad)], taken + Min(bad) - 1)
        BY <1>6, <3>2
      <4> QED
        BY <3>1, <3>2, <4>1
    <3>4. taken + i \in 1..Len(said)
      BY <1>5
    <3>5. CASE said[taken + i] \in NoMessage \/ Construct(said[taken + i]) # "ok"
      BY <3>4, <3>5 DEF Faulty
    <3>6. CASE taken + i - 1 >= Expected
      <4>1. Len(said) > Expected
        BY <1>2, <1>5, <3>6
      <4> QED
        BY <4>1 DEF Faulty
    <3> QED
      BY <3>3, <3>5, <3>6 DEF OnLine, Excuses, NoMessage
  <2>8. Faulty => Faulty'
    <3>1. (SaidProperly' <=> SaidProperly) /\ (LeftProperly' <=> LeftProperly)
      BY <1>8, <2>2, SameWords, SameFiles
    <3> QED
      BY <1>8, <2>3, <3>1 DEF Faulty, NoMessage, CutLine, EmptyLine, LongLine, InGroup
  <2>9. FailureInv'
    BY <2>7, <2>8 DEF FailureInv, Excuses, Interrupts
  <2> QED
    BY <1>1, <2>4, <2>5, <2>6, <2>9
<1>10. CASE /\ bad = {}
            /\ answers' = answers \o burst
            /\ taken' = taken + n
            /\ UNCHANGED turn
  <2>1. SameTurn
    BY <1>8, <1>10 DEF SameTurn
  <2>2. LinesOf(turn.attempt)' = LinesOf(turn.attempt) /\ Expected' = Expected
    BY <2>1, SameLines
  <2>3. TurnInv'
    BY <1>8, <1>10 DEF TurnInv, At, Settled, TurnShape
  <2>4. \A i \in 1..n : OnLine(said[taken + i], taken + i - 1) = "ok"
    <3>1. \A i \in 1..n : code(i) = "ok"
      BY <1>10
    <3> QED
      BY <1>6, <3>1
  <2>5. taken + n <= Expected
    <3>1. ~(taken + n - 1 >= Expected)
      <4>1. OnLine(said[taken + n], taken + n - 1) = "ok"
        BY <1>5, <2>4
      <4> QED
        BY <4>1 DEF OnLine
    <3> QED
      BY <1>2, <1>5, <3>1
  <2>6. ASSUME NEW i \in 1..(taken + n)
        PROVE  said[i] \notin NoMessage /\ Construct(said[i]) = "ok"
    <3>1. CASE i <= taken
      BY <1>5, <3>1 DEF ReadInv
    <3>2. CASE i > taken
      <4>1. PICK j \in 1..n : i = taken + j
        <5>1. i - taken \in 1..n /\ i = taken + (i - taken)
          BY <1>5, <3>2
        <5> QED
          BY <5>1
      <4>2. said[i] # CutLine
        BY <1>2, <1>5
      <4> QED
        BY <2>4, <4>1, <4>2 DEF OnLine, NoMessage
    <3> QED
      BY <1>5, <3>1, <3>2
  <2>7. answers' = SubSeq(said, 1, taken + n)
    BY <1>6, <1>10 DEF ReadInv
  <2>8. ReadInv'
    <3>1. said' = said /\ taken' = taken + n
      BY <1>8, <1>10
    <3>2. (said \in Seq(LinesOf(turn.attempt)))'
      BY <2>2, <3>1 DEF ReadInv
    <3>3. (\A i \in 1..Len(said) : said[i] = CutLine => i = Len(said))'
      BY <3>1 DEF ReadInv, CutLine
    <3>4. (taken \in 0..Len(said) /\ taken <= Expected)'
      BY <1>5, <2>2, <2>5, <3>1
    <3>5. (answers = SubSeq(said, 1, taken))'
      BY <2>7, <3>1
    <3>6. (\A i \in 1..taken : said[i] \notin NoMessage /\ Construct(said[i]) = "ok")'
      BY <2>6, <3>1 DEF NoMessage, CutLine, EmptyLine, LongLine
    <3> QED
      BY <3>2, <3>3, <3>4, <3>5, <3>6 DEF ReadInv
  <2>9. MessagesInv' /\ FilesInv' /\ FailureInv'
    BY <1>8, <1>10
       DEF MessagesInv, FilesInv, FailureInv, Settled, Greeted, Answered, Compared, Unchanged,
           Named, At
  <2> QED
    BY <1>1, <2>3, <2>8, <2>9
<1> QED
  BY <1>7, <1>9, <1>10

-----------------------------------------------------------------------------
(* The decisions about a worker that has said all it will say. *)

LEMMA FaultsKept ==
  ASSUME SameTurn, UNCHANGED <<said, worker, files, workspace>>, helpers' \in {helpers, Escaped}
  PROVE  Faulty => Faulty'
<1>1. Expected' = Expected /\ (SaidProperly' <=> SaidProperly) /\ (LeftProperly' <=> LeftProperly)
  BY SameLines, SameWords, SameFiles
<1>2. helpers \cap InGroup = {} => helpers' = helpers
  BY DEF Escaped
<1> QED
  BY <1>1, <1>2 DEF Faulty, NoMessage, CutLine, EmptyLine, LongLine, InGroup

(* A refusal keeps the invariant when there is an excuse for it or it is   *)
(* for something that is wrong.                                            *)
LEMMA Refused ==
  ASSUME ExchangeInv, ExchangeTypeOK', ~At("idle"),
         NEW error, Fail(error), error \notin Excuses => Faulty',
         UNCHANGED <<schema, said, taken, answers>>
  PROVE  ExchangeInv'
<1> USE DEF ExchangeInv
<1>1. /\ turn'.pc = "failing" /\ turn'.kind = turn.kind /\ turn'.attempt = turn.attempt
      /\ turn'.error = error /\ TurnShape' /\ SameTurn
  BY Moves DEF SameTurn, TurnInv
<1>2. LinesOf(turn.attempt)' = LinesOf(turn.attempt) /\ Expected' = Expected
  BY <1>1, SameLines
<1>3. TurnInv'
  BY <1>1 DEF TurnInv, At, Settled
<1>4. ReadInv'
  BY <1>2 DEF ReadInv, NoMessage, CutLine, EmptyLine, LongLine
<1>5. MessagesInv' /\ FilesInv'
  BY <1>1 DEF MessagesInv, FilesInv, Settled, Greeted, Answered, Compared, Unchanged, Named, At
<1>6. FailureInv'
  BY <1>1 DEF FailureInv, Excuses, Interrupts
<1> QED
  BY <1>3, <1>4, <1>5, <1>6

(* Where the turn goes on, what has been said and read stays in order. *)
LEMMA WentOn ==
  ASSUME ExchangeInv, NEW step, step # "failing", Goto(step), UNCHANGED <<schema, said, taken, answers>>
  PROVE  /\ turn'.pc = step /\ turn'.kind = turn.kind /\ turn'.attempt = turn.attempt
         /\ TurnShape' /\ SameTurn /\ ReadInv' /\ FailureInv' /\ Expected' = Expected
<1> USE DEF ExchangeInv
<1>1. /\ turn'.pc = step /\ turn'.kind = turn.kind /\ turn'.attempt = turn.attempt
      /\ TurnShape' /\ SameTurn
  BY Moves DEF SameTurn, TurnInv
<1>2. LinesOf(turn.attempt)' = LinesOf(turn.attempt) /\ Expected' = Expected
  BY <1>1, SameLines
<1>3. ReadInv'
  BY <1>2 DEF ReadInv, NoMessage, CutLine, EmptyLine, LongLine
<1> QED
  BY <1>1, <1>2, <1>3 DEF FailureInv, At

(* What the bridge has read of a settled worker is what it said. *)
LEMMA AnswersAreSaid ==
  ASSUME ExchangeInv, taken = Len(said)
  PROVE  /\ Len(answers) = Len(said) /\ Len(said) \in Nat /\ Expected \in {1, 2}
         /\ Len(said) <= Expected
         /\ \A i \in 1..Len(said) :
              /\ answers[i] = said[i] /\ said[i] \in LinesOf(turn.attempt)
              /\ said[i] \notin NoMessage /\ Construct(said[i]) = "ok"
BY PendingLines, ElementOfSeq DEF ExchangeInv, ReadInv

LEMMA SettledAnswers ==
  ASSUME ExchangeInv, turn.pc \in Settled
  PROVE  /\ turn.attempt \in Attempts /\ worker = "exited" /\ helpers \cap InGroup = {}
         /\ Expected = IF Coding THEN 2 ELSE 1
         /\ \A i \in 1..Expected : answers[i] = said[i] /\ said[i] \in LinesOf(turn.attempt)
                                   /\ said[i] \notin NoMessage /\ Construct(said[i]) = "ok"
<1>1. /\ taken = Len(said) /\ Len(said) = Expected /\ worker = "exited" /\ helpers \cap InGroup = {}
      /\ turn.attempt \in Attempts
  BY DEF ExchangeInv, TurnInv, Settled, At
<1>2. Expected = IF Coding THEN 2 ELSE 1
  BY DEF Expected, Coding, ExchangeInv, ExchangeTypeOK
<1> QED
  BY <1>1, <1>2, AnswersAreSaid

LEMMA DecideSteps ==
  ASSUME ExchangeInv, DecideNext
  PROVE  ExchangeInv'
<1> USE DEF ExchangeInv
<1>1. ExchangeTypeOK'
  BY TypeSteps DEF ExchangeNext, DecideNext
<1>2. UNCHANGED <<schema, worker, helpers, said, files, workspace, taken, answers>>
  BY DEF DecideNext, ReadEnd, Interrupt, ValidateResponse, ValidateCodingResult, CheckArtifact,
         AssertClean, CompareWorkspace, ComparePaths, world, output
<1>3. ASSUME NEW error, Fail(error), ~At("idle"), error \notin Excuses => Faulty PROVE ExchangeInv'
  <2>1. SameTurn
    BY <1>2, <1>3, Moves DEF SameTurn, TurnInv
  <2>2. Faulty => Faulty'
    BY <1>2, <2>1, FaultsKept
  <2> QED
    BY <1>1, <1>2, <1>3, <2>2, Refused
<1>4. ASSUME NEW step \in Settled \union {"ended"}, Goto(step)
      PROVE  /\ turn'.pc = step /\ turn'.kind = turn.kind /\ turn'.attempt = turn.attempt
             /\ TurnShape' /\ SameTurn /\ ReadInv' /\ FailureInv' /\ Expected' = Expected
  BY <1>2, <1>4, WentOn DEF Settled
<1>5. ASSUME SameTurn
      PROVE  /\ IsGreeting(said[1])' <=> IsGreeting(said[1])
             /\ IsResultAfter(said[2], said[1])' <=> IsResultAfter(said[2], said[1])
  BY <1>2, <1>5, SameWords
<1>6. CASE ReadEnd
  <2>1. CASE taken < Len(said)
    <3>1. Fail("incomplete_jsonl") /\ At("reading") /\ Pending = <<>>
      BY <1>6, <2>1 DEF ReadEnd
    <3>2. Len(said) \in 1..Len(said) /\ said[Len(said)] = CutLine
      <4>1. Len(Pending) = 0
        BY <3>1, EmptySeq
      <4>2. Whole < Len(said)
        BY <2>1, <4>1, PendingLines
      <4> QED
        BY <4>2, PendingLines
    <3>3. Faulty
      BY <3>2 DEF Faulty, NoMessage
    <3> QED
      BY <1>3, <3>1, <3>3 DEF At
  <2>2. CASE ~(taken < Len(said))
    <3>1. Goto("ended") /\ At("reading") /\ ~HoldsStdout
      BY <1>6, <2>2 DEF ReadEnd
    <3>2. turn'.pc = "ended" /\ TurnShape' /\ turn'.attempt = turn.attempt /\ ReadInv' /\ FailureInv'
      BY <1>4, <3>1
    <3>3. worker \in {"exited", "crashed"} /\ taken = Len(said)
      <4>1. worker # "up"
        BY <3>1 DEF HoldsStdout
      <4>2. worker \in {"exited", "crashed"}
        BY <3>1, <4>1 DEF TurnInv, At, ExchangeTypeOK
      <4>3. taken = Len(said)
        BY <2>2, PendingLines
      <4> QED
        BY <4>2, <4>3
    <3>4. TurnInv'
      BY <1>2, <1>6, <3>1, <3>2, <3>3 DEF TurnInv, At, Settled, ReadEnd
    <3>5. MessagesInv' /\ FilesInv'
      BY <3>2 DEF MessagesInv, FilesInv, Settled, Greeted, Answered, Compared, Unchanged, Named, At
    <3> QED
      BY <1>1, <3>2, <3>4, <3>5
  <2> QED
    BY <2>1, <2>2
<1>7. CASE Interrupt
  BY <1>3, <1>7 DEF Interrupt, At, Excuses
<1>8. CASE ValidateResponse
  <2>1. /\ turn.pc = "exited" /\ turn.attempt \in Attempts /\ worker = "exited"
        /\ answers[1] = said[1] /\ said[1] \in LinesOf(turn.attempt) /\ said[1] \notin NoMessage
    <3>1. turn.pc = "exited"
      BY <1>8 DEF ValidateResponse, At
    <3>2. 1 \in 1..Expected
      BY DEF Expected
    <3> QED
      BY <3>1, <3>2, SettledAnswers DEF Settled
  <2>2. CASE ResponseCode(said[1]) = "ok"
    <3>1. IsGreeting(said[1])
      BY <2>1, <2>2, OnlyGreetingsPass
    <3>2. Goto(IF turn.kind = "handshake" THEN "recording" ELSE "greeted")
      BY <1>8, <2>1, <2>2 DEF ValidateResponse, Proceed
    <3>3. /\ turn'.pc = IF turn.kind = "handshake" THEN "recording" ELSE "greeted"
          /\ turn'.kind = turn.kind /\ turn'.attempt = turn.attempt
          /\ TurnShape' /\ SameTurn /\ ReadInv' /\ FailureInv' /\ Expected' = Expected
      BY <1>4, <3>2 DEF Settled
    <3>4. TurnInv'
      BY <1>2, <1>8, <2>1, <3>3
         DEF TurnInv, At, Settled, Coding, ExchangeTypeOK, InGroup, ValidateResponse
    <3>5. MessagesInv'
      BY <1>2, <1>5, <2>1, <3>1, <3>3
         DEF MessagesInv, Settled, Greeted, Answered, Compared, Unchanged, Named, Coding, At
    <3>6. FilesInv'
      BY <1>2, <2>1, <3>3
         DEF FilesInv, Answered, Compared, Unchanged, Named, Coding, At
    <3> QED
      BY <1>1, <3>3, <3>4, <3>5, <3>6
  <2>3. CASE ResponseCode(said[1]) # "ok"
    <3>1. Fail(ResponseCode(said[1]))
      BY <1>8, <2>1, <2>3 DEF ValidateResponse, Proceed
    <3>2. Faulty
      <4>1. ~IsGreeting(said[1])
        BY <2>1, <2>3, GreetingsAreGreetings
      <4> QED
        BY <2>1, <4>1 DEF Faulty, SaidProperly
    <3> QED
      BY <1>3, <2>1, <3>1, <3>2 DEF At
  <2> QED
    BY <2>2, <2>3
<1>9. CASE ValidateCodingResult
  <2>1. /\ turn.pc = "greeted" /\ turn.attempt \in Attempts /\ worker = "exited" /\ Coding
        /\ answers[1] = said[1] /\ answers[2] = said[2] /\ said[2] \in LinesOf(turn.attempt)
        /\ said[2] \notin NoMessage /\ Construct(said[2]) = "ok" /\ said[2].type = "result"
        /\ IsGreeting(said[1])
    <3>1. turn.pc = "greeted" /\ Coding
      BY <1>9 DEF ValidateCodingResult, At, TurnInv
    <3>2. said[2].type = "result" /\ IsGreeting(said[1])
      BY <3>1 DEF MessagesInv, Settled, Greeted
    <3>3. Expected = 2
      BY <3>1, SettledAnswers DEF Settled
    <3> QED
      BY <3>1, <3>2, <3>3, SettledAnswers DEF Settled
  <2>2. CASE ResultCode(said[2], said[1]) = "ok"
    <3>1. IsResultAfter(said[2], said[1])
      BY <2>1, <2>2, OnlyResultsPass
    <3>2. Goto("checking")
      BY <1>9, <2>1, <2>2 DEF ValidateCodingResult, Proceed
    <3>3. /\ turn'.pc = "checking" /\ turn'.kind = turn.kind /\ turn'.attempt = turn.attempt
          /\ TurnShape' /\ SameTurn /\ ReadInv' /\ FailureInv' /\ Expected' = Expected
      BY <1>4, <3>2 DEF Settled
    <3>4. TurnInv'
      BY <1>2, <2>1, <3>3 DEF TurnInv, At, Settled, Coding, InGroup
    <3>5. MessagesInv'
      BY <1>2, <1>5, <2>1, <3>1, <3>3
         DEF MessagesInv, Settled, Greeted, Answered, Compared, Unchanged, Named, Coding, At
    <3>6. FilesInv'
      <4>1. verified' = {}
        BY <1>9, <2>1 DEF ValidateCodingResult, TurnInv
      <4> QED
        BY <3>3, <4>1 DEF FilesInv, Answered, Compared, Unchanged, Named, At
    <3> QED
      BY <1>1, <3>3, <3>4, <3>5, <3>6
  <2>3. CASE ResultCode(said[2], said[1]) # "ok"
    <3>1. Fail(ResultCode(said[2], said[1]))
      BY <1>9, <2>1, <2>3 DEF ValidateCodingResult, Proceed
    <3>2. Faulty
      <4>1. ~IsResultAfter(said[2], said[1])
        BY <2>1, <2>3, ResultsAreResults
      <4> QED
        BY <2>1, <4>1 DEF Faulty, SaidProperly, Coding
    <3> QED
      BY <1>3, <2>1, <3>1, <3>2 DEF At
  <2> QED
    BY <2>2, <2>3
<1>10. ASSUME turn.pc \in {"checking", "clean", "unchanged"}
       PROVE  /\ Coding /\ worker = "exited" /\ helpers \cap InGroup = {} /\ answers[2] = said[2]
              /\ IsGreeting(said[1]) /\ IsResultAfter(said[2], said[1])
              /\ said[2].type = "result" /\ turn.attempt \in Attempts
  <2>1. Coding
    BY <1>10 DEF TurnInv
  <2>2. 2 \in 1..Expected
    BY <1>10, <2>1, SettledAnswers DEF Settled
  <2>3. IsGreeting(said[1]) /\ IsResultAfter(said[2], said[1]) /\ said[2].type = "result"
    BY <1>10, <2>1 DEF MessagesInv, Settled, Greeted, Answered, Compared, Unchanged
  <2> QED
    BY <1>10, <2>1, <2>2, <2>3, SettledAnswers DEF Settled
<1>11. ASSUME turn.pc \in {"checking", "clean", "unchanged"},
              NEW step \in Settled \ {"exited", "greeted"}, Goto(step)
       PROVE  TurnInv' /\ MessagesInv'
  <2>1. turn'.pc = step /\ turn'.kind = turn.kind /\ turn'.attempt = turn.attempt
        /\ TurnShape' /\ SameTurn /\ Expected' = Expected
    BY <1>4, <1>11
  <2>2. TurnInv'
    BY <1>2, <1>10, <1>11, <2>1 DEF TurnInv, At, Settled, Coding, InGroup
  <2>3. MessagesInv'
    BY <1>2, <1>5, <1>10, <1>11, <2>1
       DEF MessagesInv, Settled, Greeted, Answered, Compared, Unchanged, Named, Coding, At
  <2> QED
    BY <2>2, <2>3
<1>12. ASSUME turn.pc \in {"checking", "clean", "unchanged"}, ~LeftProperly PROVE Faulty
  BY <1>10, <1>12 DEF Faulty
<1>13. CASE CheckArtifact
  <2>1. PICK name \in ArtifactNames \ verified :
          IF files[answers[2].artifacts[name]] = "claimed"
          THEN verified' = verified \union {name} /\ UNCHANGED turn
          ELSE Fail("coding_artifact_digest_mismatch") /\ UNCHANGED verified
    BY <1>13 DEF CheckArtifact
  <2>2. turn.pc = "checking" /\ answers[2].artifacts[name] = PathOf(name)
    BY <1>10, <1>13 DEF CheckArtifact, At, PathOf
  <2>3. CASE files[PathOf(name)] = "claimed"
    <3>1. verified' = verified \union {name} /\ turn' = turn /\ SameTurn
      BY <1>2, <2>1, <2>2, <2>3 DEF SameTurn
    <3>2. LinesOf(turn.attempt)' = LinesOf(turn.attempt) /\ Expected' = Expected
      BY <3>1, SameLines
    <3>3. TurnInv' /\ ReadInv'
      BY <1>2, <2>2, <3>1, <3>2
         DEF TurnInv, TurnShape, ReadInv, At, Settled, Coding, InGroup, NoMessage, CutLine,
             EmptyLine, LongLine
    <3>4. MessagesInv' /\ FailureInv'
      BY <1>2, <1>5, <2>2, <3>1
         DEF MessagesInv, FailureInv, Settled, Greeted, Answered, Compared, Unchanged, Named,
             Coding, At
    <3>5. FilesInv'
      BY <1>2, <2>2, <2>3, <3>1 DEF FilesInv, Answered, Compared, Unchanged, Named, At, PathOf
    <3> QED
      BY <1>1, <3>3, <3>4, <3>5
  <2>4. CASE files[PathOf(name)] # "claimed"
    <3>1. Fail("coding_artifact_digest_mismatch")
      BY <2>1, <2>2, <2>4
    <3>2. ~LeftProperly
      <4>1. SUFFICES ASSUME LeftProperly PROVE FALSE
        OBVIOUS
      <4>2. PathOf(name) \in Written
        BY <1>10, <2>2, <4>1 DEF LeftProperly, Coding, PathOf
      <4> QED
        BY <1>10, <2>2, <2>4, <4>1, <4>2 DEF LeftProperly, Coding
    <3> QED
      BY <1>3, <1>12, <2>2, <3>1, <3>2 DEF At
  <2> QED
    BY <2>3, <2>4
<1>14. CASE AssertClean
  <2>1. turn.pc = "checking" /\ verified = ArtifactNames /\ verified' = verified
    BY <1>14 DEF AssertClean, At
  <2>2. CASE Goto("clean")
    <3>1. TurnInv' /\ MessagesInv' /\ ReadInv' /\ FailureInv' /\ turn'.pc = "clean"
      BY <1>4, <1>11, <2>1, <2>2 DEF Settled
    <3>2. FilesInv'
      BY <1>2, <2>1, <3>1 DEF FilesInv, Answered, Compared, Unchanged, Named, At, PathOf
    <3> QED
      BY <1>1, <3>1, <3>2
  <2>3. CASE Fail("worker_cleanup_unverified")
    BY <1>3, <2>1, <2>3 DEF At, Excuses
  <2> QED
    BY <1>14, <2>2, <2>3 DEF AssertClean
<1>15. CASE CompareWorkspace
  <2>1. turn.pc = "clean" /\ verified' = verified
    BY <1>15 DEF CompareWorkspace, At
  <2>2. CASE workspace = "own"
    <3>1. TurnInv' /\ MessagesInv' /\ ReadInv' /\ FailureInv' /\ turn'.pc = "unchanged"
      BY <1>4, <1>11, <1>15, <2>1, <2>2 DEF Settled, CompareWorkspace
    <3>2. FilesInv'
      BY <1>2, <2>1, <2>2, <3>1 DEF FilesInv, Answered, Compared, Unchanged, Named, At, PathOf
    <3> QED
      BY <1>1, <3>1, <3>2
  <2>3. CASE workspace # "own"
    <3>1. Fail("coding_workspace_changed") /\ ~LeftProperly
      BY <1>10, <1>15, <2>1, <2>3 DEF CompareWorkspace, LeftProperly, Coding
    <3> QED
      BY <1>3, <1>12, <2>1, <3>1 DEF At
  <2> QED
    BY <2>2, <2>3
<1>16. CASE ComparePaths
  <2>1. turn.pc = "unchanged" /\ verified' = verified
        /\ Claimed = {PathOf(name) : name \in ArtifactNames}
    BY <1>10, <1>16 DEF ComparePaths, At, Claimed, PathOf
  <2>2. CASE Written = Claimed
    <3>1. TurnInv' /\ MessagesInv' /\ ReadInv' /\ FailureInv' /\ turn'.pc = "recording"
      BY <1>4, <1>11, <1>16, <2>1, <2>2 DEF Settled, ComparePaths
    <3>2. FilesInv'
      BY <1>2, <2>1, <2>2, <3>1
         DEF FilesInv, Answered, Compared, Unchanged, Named, At, PathOf, Written
    <3> QED
      BY <1>1, <3>1, <3>2
  <2>3. CASE Written # Claimed
    <3>1. Fail("coding_artifact_set_mismatch") /\ ~LeftProperly
      BY <1>10, <1>16, <2>1, <2>3 DEF ComparePaths, LeftProperly, Coding, PathOf
    <3> QED
      BY <1>3, <1>12, <2>1, <3>1 DEF At
  <2> QED
    BY <2>2, <2>3
<1> QED
  BY <1>6, <1>7, <1>8, <1>9, <1>13, <1>14, <1>15, <1>16 DEF DecideNext

(* The exit is collected: the sequence of answers decides. *)
LEMMA CollectSteps ==
  ASSUME ExchangeInv, CollectExit
  PROVE  ExchangeInv'
<1> USE DEF ExchangeInv
<1>1. ExchangeTypeOK'
  BY TypeSteps DEF ExchangeNext
<1>2. /\ UNCHANGED <<schema, worker, said, files, workspace, taken, answers, verified>>
      /\ helpers' = Escaped /\ turn.pc = "ended" /\ turn.attempt \in Attempts
      /\ worker \in {"exited", "crashed"} /\ taken = Len(said) /\ verified = {}
  BY DEF CollectExit, world, At, TurnInv
<1>3. /\ Len(answers) = Len(said) /\ Len(said) \in Nat /\ Len(said) <= Expected
      /\ Expected = IF Coding THEN 2 ELSE 1
      /\ \A i \in 1..Len(said) : answers[i] = said[i]
  BY <1>2, AnswersAreSaid DEF Expected, Coding, ExchangeTypeOK
<1>4. CASE SequenceCode # "ok"
  <2>1. Fail(SequenceCode)
    BY <1>4 DEF CollectExit, Proceed
  <2>2. ~(worker = "exited" /\ SaidProperly)
    <3>1. SUFFICES ASSUME worker = "exited", SaidProperly PROVE FALSE
      OBVIOUS
    <3>2. Len(said) = Expected /\ IsGreeting(said[1]) /\ (Coding => IsResultAfter(said[2], said[1]))
      BY <3>1 DEF SaidProperly, Coding
    <3>3. said[1].type = "handshake.response" /\ (Coding => said[2].type = "result")
      BY <1>2, <3>2, GreetingsAreGreetings, ResultsAreResults
    <3>4. answers[1] = said[1] /\ (Coding => answers[2] = said[2])
      BY <1>3, <3>2
    <3> QED
      BY <1>3, <1>4, <3>1, <3>2, <3>3, <3>4 DEF SequenceCode, Coding
  <2>3. SameTurn
    BY <1>2, <2>1, Moves DEF SameTurn, TurnInv
  <2>4. Faulty'
    BY <1>2, <2>2, <2>3, FaultsKept DEF Faulty
  <2> QED
    BY <1>1, <1>2, <2>1, <2>4, Refused DEF At
<1>5. CASE SequenceCode = "ok"
  <2>1. Goto("exited")
    BY <1>5 DEF CollectExit, Proceed
  <2>2. /\ turn'.pc = "exited" /\ turn'.kind = turn.kind /\ turn'.attempt = turn.attempt
        /\ TurnShape' /\ SameTurn /\ ReadInv' /\ FailureInv' /\ Expected' = Expected
    BY <1>2, <2>1, WentOn
  <2>3. worker = "exited" /\ Len(said) = Expected /\ (Coding => answers[2].type = "result")
    BY <1>2, <1>3, <1>5 DEF SequenceCode, Coding
  <2>4. TurnInv'
    <3>1. helpers' \cap InGroup = {}
      BY <1>2 DEF Escaped
    <3> QED
      BY <1>2, <2>2, <2>3, <3>1 DEF TurnInv, At, Settled, Coding, InGroup
  <2>5. MessagesInv'
    <3>1. Coding => said[2].type = "result"
      BY <1>3, <2>3
    <3> QED
      BY <1>2, <2>2, <3>1
         DEF MessagesInv, Settled, Greeted, Answered, Compared, Unchanged, Named, Coding, At
  <2>6. FilesInv'
    BY <2>2 DEF FilesInv, Answered, Compared, Unchanged, Named, At
  <2> QED
    BY <1>1, <2>2, <2>4, <2>5, <2>6
<1> QED
  BY <1>4, <1>5

-----------------------------------------------------------------------------
(* The beginning and the end of an operation. *)

LEMMA OutsideSteps ==
  ASSUME ExchangeInv, NEW kind \in {"handshake", "read_only_coding"}, NEW a \in Attempts,
         Admit(kind, a) \/ Spawn \/ Recover \/ Complete \/ AccountFailure \/ Close
  PROVE  ExchangeInv'
<1> USE DEF ExchangeInv
<1>1. ExchangeTypeOK'
  BY TypeSteps DEF ExchangeNext
<1>2. ASSUME turn' = turn, schema' = schema,
             UNCHANGED <<worker, helpers, said, taken, answers, files, workspace, verified>>
      PROVE  ExchangeInv'
  <2>1. SameTurn
    BY <1>2 DEF SameTurn
  <2>2. LinesOf(turn.attempt)' = LinesOf(turn.attempt) /\ Expected' = Expected
    BY <2>1, SameLines
  <2>3. TurnInv' /\ ReadInv'
    BY <1>2, <2>2
       DEF TurnInv, TurnShape, ReadInv, At, Settled, Coding, InGroup, NoMessage, CutLine,
           EmptyLine, LongLine
  <2>4. MessagesInv' /\ FilesInv'
    BY <1>2, <2>1, SameWords
       DEF MessagesInv, FilesInv, Settled, Greeted, Answered, Compared, Unchanged, Named,
           Coding, At, PathOf, Written
  <2>5. Faulty => Faulty'
    BY <1>2, <2>1, FaultsKept
  <2>6. FailureInv'
    BY <1>2, <2>5 DEF FailureInv, At, Excuses
  <2> QED
    BY <1>1, <2>3, <2>4, <2>6
<1>3. ASSUME said' = <<>>, taken' = 0, answers' = <<>>, verified' = {}, TurnShape',
             turn'.pc \in {"idle", "created", "reading"},
             turn'.pc = "idle" => turn'.attempt = NoAttempt,
             turn'.pc # "idle" => turn'.attempt \in Attempts,
             IF turn'.pc = "reading" THEN worker' = "up" ELSE worker' = "none"
      PROVE  ExchangeInv'
  <2>1. TurnInv'
    BY <1>3 DEF TurnInv, At, Settled
  <2>2. ReadInv'
    <3>1. <<>> \in Seq(LinesOf(turn.attempt)') /\ Len(<<>>) = 0 /\ SubSeq(<<>>, 1, 0) = <<>>
      BY EmptySeq, SubSeqEmpty
    <3>2. Expected' \in {1, 2}
      BY DEF Expected
    <3> QED
      BY <1>3, <3>1, <3>2 DEF ReadInv
  <2>3. MessagesInv' /\ FilesInv' /\ FailureInv'
    BY <1>3
       DEF MessagesInv, FilesInv, FailureInv, Settled, Greeted, Answered, Compared, Unchanged,
           Named, At
  <2> QED
    BY <1>1, <2>1, <2>2, <2>3
<1>4. ASSUME turn.pc \in {"idle", "created"}
      PROVE  said = <<>> /\ taken = 0 /\ answers = <<>> /\ worker = "none" /\ verified = {}
  <2>1. said = <<>> /\ taken = 0 /\ worker = "none" /\ verified = {} /\ answers = SubSeq(said, 1, 0)
    BY <1>4 DEF TurnInv, ReadInv
  <2> QED
    BY <2>1, SubSeqEmpty
<1>5. CASE Admit(kind, a)
  <2>1. turn.pc = "idle" /\ UNCHANGED <<schema, worker, helpers, said, taken, answers, files,
                                        workspace, verified>>
    BY <1>5 DEF Admit, At, output
  <2>2. CASE parent = "running"
    <3>1. turn' = [pc |-> "created", kind |-> kind, attempt |-> a, error |-> "none"]
      BY <1>5, <2>2 DEF Admit
    <3>2. TurnShape'
      BY <3>1 DEF TurnShape
    <3> QED
      BY <1>3, <1>4, <2>1, <3>1, <3>2
  <2>3. CASE parent # "running"
    BY <1>2, <1>5, <2>1, <2>3 DEF Admit
  <2> QED
    BY <2>2, <2>3
<1>6. CASE Spawn
  <2>1. turn.pc = "created" /\ UNCHANGED <<schema, helpers, said, taken, answers, verified>>
        /\ turn.attempt \in Attempts
    BY <1>6 DEF Spawn, At, world, TurnInv
  <2>2. CASE worker' = "up" /\ Goto("reading")
    <3>1. turn'.pc = "reading" /\ turn'.attempt = turn.attempt /\ TurnShape'
      BY <2>2, Moves DEF TurnInv
    <3> QED
      BY <1>3, <1>4, <2>1, <2>2, <3>1
  <2>3. CASE Fail("artifact_root_not_empty") \/ Fail("worker_start_failed")
    BY <1>1, <2>1, <2>3, Refused DEF At, Excuses
  <2> QED
    BY <1>6, <2>2, <2>3 DEF Spawn
<1>7. CASE Recover
  BY <1>2, <1>7 DEF Recover, output
<1>8. CASE Complete
  <2>1. turn.pc = "recording" /\ UNCHANGED <<schema, worker, helpers, said, taken, answers, files,
                                             workspace, verified>>
    BY <1>8 DEF Complete, At, output
  <2>2. /\ turn'.pc = "accepted" /\ turn'.kind = turn.kind /\ turn'.attempt = turn.attempt
        /\ TurnShape' /\ SameTurn /\ ReadInv' /\ FailureInv' /\ Expected' = Expected
    BY <1>8, <2>1, WentOn DEF Complete
  <2>3. TurnInv'
    BY <2>1, <2>2 DEF TurnInv, At, Settled, Coding, InGroup
  <2>4. MessagesInv' /\ FilesInv'
    BY <2>1, <2>2, SameWords
       DEF MessagesInv, FilesInv, Settled, Greeted, Answered, Compared, Unchanged, Named,
           Coding, At, PathOf, Written
  <2> QED
    BY <1>1, <2>2, <2>3, <2>4
<1>9. CASE AccountFailure \/ Close
  <2>1. turn' = Idle /\ worker' = "none" /\ said' = <<>> /\ taken' = 0 /\ answers' = <<>>
        /\ verified' = {}
    BY <1>9 DEF AccountFailure, Close, CallReturns
  <2>2. TurnShape'
    BY <2>1 DEF TurnShape, Idle
  <2> QED
    BY <1>3, <2>1, <2>2 DEF Idle
<1> QED
  BY <1>5, <1>6, <1>7, <1>8, <1>9

-----------------------------------------------------------------------------
(* Theorems. *)

LEMMA ExchangeStart == ExchangeInit => ExchangeInv
<1> SUFFICES ASSUME ExchangeInit PROVE ExchangeInv
  OBVIOUS
<1> USE DEF ExchangeInit
<1>1. <<>> \in Seq(LinesOf(turn.attempt)) /\ Len(<<>>) = 0 /\ SubSeq(<<>>, 1, 0) = <<>>
      /\ Expected \in {1, 2}
  BY EmptySeq, SubSeqEmpty DEF Expected
<1>2. ExchangeTypeOK
  BY <1>1, ExchangeAssumption DEF ExchangeTypeOK, Idle
<1>3. TurnInv
  BY DEF TurnInv, TurnShape, At, Idle, Settled
<1>4. ReadInv
  BY <1>1 DEF ReadInv
<1>5. MessagesInv /\ FilesInv /\ FailureInv
  BY DEF MessagesInv, FilesInv, FailureInv, Settled, Greeted, Answered, Compared, Unchanged, Named,
         At, Idle
<1> QED
  BY <1>2, <1>3, <1>4, <1>5 DEF ExchangeInv

LEMMA ExchangeSteps ==
  ASSUME ExchangeInv, [ExchangeNext]_vars
  PROVE  ExchangeInv'
<1>1. ASSUME NEW kind \in {"handshake", "read_only_coding"}, NEW a \in Attempts, Admit(kind, a)
      PROVE  ExchangeInv'
  BY <1>1, OutsideSteps
<1>2. CASE Spawn \/ Recover \/ Complete \/ AccountFailure \/ Close
  <2>1. CASE Attempts # {}
    <3>1. PICK a \in Attempts : TRUE
      BY <2>1
    <3> QED
      BY <1>2, <3>1, OutsideSteps
  <2>2. CASE Attempts = {}
    <3>1. turn.pc = "idle"
      BY <2>2 DEF ExchangeInv, TurnInv, At
    <3> QED
      BY <1>2, <2>2, <3>1 DEF Spawn, Recover, Complete, AccountFailure, Close, At
  <2> QED
    BY <2>1, <2>2
<1>3. CASE ReadBurst
  BY <1>3, ReadSteps
<1>4. CASE CollectExit
  BY <1>4, CollectSteps
<1>5. CASE DecideNext
  BY <1>5, DecideSteps
<1>6. CASE WorkerNext
  BY <1>6, WorkerSteps
<1>7. CASE UNCHANGED vars
  <2>1. SameTurn
    BY <1>7 DEF vars, SameTurn
  <2>2. LinesOf(turn.attempt)' = LinesOf(turn.attempt) /\ Expected' = Expected
    BY <2>1, SameLines
  <2>3. Faulty => Faulty'
    BY <1>7, <2>1, FaultsKept DEF vars
  <2>4. TurnInv' /\ ReadInv'
    BY <1>7, <2>2
       DEF ExchangeInv, TurnInv, TurnShape, ReadInv, At, Settled, Coding, InGroup, NoMessage,
           CutLine, EmptyLine, LongLine, vars
  <2>5. MessagesInv' /\ FilesInv' /\ FailureInv'
    BY <1>7, <2>1, <2>3, SameWords
       DEF ExchangeInv, MessagesInv, FilesInv, FailureInv, Settled, Greeted, Answered, Compared,
           Unchanged, Named, Coding, At, PathOf, Written, Excuses, vars
  <2>6. ExchangeTypeOK'
    <3>1. (/\ schema \in {"codex-app-server", "codex-app-server-fixture"}
           /\ parent \in {"running", "recovering", "stopped"}
           /\ turn.pc \in {"idle", "created", "reading", "ended", "exited", "greeted", "checking",
                           "clean", "unchanged", "recording", "accepted", "failing"}
           /\ turn.kind \in {"handshake", "read_only_coding"}
           /\ turn.attempt \in Attempts \union {NoAttempt})'
      BY <1>7 DEF ExchangeInv, ExchangeTypeOK, vars
    <3>2. (/\ charged \in 0..RetryCeiling
           /\ worker \in {"none", "up", "exited", "crashed"}
           /\ helpers \subseteq HelperKinds \union {"gone"}
           /\ taken \in 0..Len(said) /\ Len(said) <= LineLimit)'
      BY <1>7 DEF ExchangeInv, ExchangeTypeOK, HelperKinds, InGroup, vars
    <3>3. (/\ files \in [Paths -> Contents \union {"absent"}]
           /\ workspace \in {"own", "changed"}
           /\ verified \subseteq ArtifactNames
           /\ outcome \in [Attempts -> {"none", "refused", "accepted"}]
           /\ faults \in 0..FaultLimit)'
      BY <1>7 DEF ExchangeInv, ExchangeTypeOK, Contents, vars
    <3> QED
      BY <3>1, <3>2, <3>3 DEF ExchangeTypeOK
  <2> QED
    BY <2>4, <2>5, <2>6 DEF ExchangeInv
<1> QED
  BY <1>1, <1>2, <1>3, <1>4, <1>5, <1>6, <1>7 DEF ExchangeNext, DecideNext, WorkerNext

(* At every moment of every exchange the variables have their types, what  *)
(* has been read is the front of what has been said, and each decision     *)
(* taken so far still stands.                                              *)
THEOREM ExchangeInvariant == ExchangeSpec => []ExchangeInv
<1>1. ExchangeInit => ExchangeInv
  BY ExchangeStart
<1>2. ExchangeInv /\ [ExchangeNext]_vars => ExchangeInv'
  BY ExchangeSteps
<1> QED
  BY <1>1, <1>2, PTL DEF ExchangeSpec

(* The variables of an exchange have their types. *)
THEOREM ExchangeTyped == ExchangeSpec => []ExchangeTypeOK
<1>1. ExchangeInv => ExchangeTypeOK
  BY DEF ExchangeInv
<1> QED
  BY <1>1, ExchangeInvariant, PTL

(* An accepted turn is one in which the worker said a response and, to a   *)
(* coding request, a result of this attempt and nothing else, exited with  *)
(* code 0 and, when no process of its own is left, left exactly the files  *)
(* of the result and the workspace as it was: the lines were validated one *)
(* by one when the stream had ended, and nobody could write any more       *)
(* between the comparison of a file and the acceptance.                    *)
THEOREM AcceptedTurnsAreProper == ExchangeSpec => []OnlyProperTurnsAreAccepted
<1>1. ExchangeInv => OnlyProperTurnsAreAccepted
  <2> SUFFICES ASSUME ExchangeInv, At("accepted")
               PROVE  worker = "exited" /\ SaidProperly /\ (Escaped = {} => LeftProperly)
    BY DEF OnlyProperTurnsAreAccepted
  <2> USE DEF ExchangeInv
  <2>1. /\ turn.pc = "accepted" /\ turn.pc \in Settled
        /\ worker = "exited" /\ helpers \cap InGroup = {} /\ Len(said) = Expected /\ taken = Len(said)
    BY DEF At, Settled, TurnInv
  <2>2. IsGreeting(said[1]) /\ (Coding => IsResultAfter(said[2], said[1]))
    BY <2>1 DEF MessagesInv, Greeted, Answered, Compared, Unchanged, Named, Settled
  <2>3. Messages(said)
    <3>1. DOMAIN said = 1..Len(said)
      BY LenProperties DEF ReadInv
    <3> QED
      BY <2>1, <3>1 DEF ReadInv, Messages, NoMessage
  <2>4. ASSUME Escaped = {}, Coding PROVE LeftProperly
    <3>1. helpers = {}
      BY <2>1, <2>4 DEF Escaped
    <3>2. /\ \A name \in ArtifactNames : files[PathOf(name)] = "claimed"
          /\ workspace = "own" /\ Written = {PathOf(name) : name \in ArtifactNames}
      BY <2>1, <2>4, <3>1 DEF FilesInv, Answered, Compared, Unchanged, Named
    <3> QED
      BY <3>2 DEF LeftProperly, PathOf
  <2> QED
    BY <2>1, <2>2, <2>3, <2>4 DEF SaidProperly, LeftProperly, Coding
<1> QED
  BY <1>1, ExchangeInvariant, PTL

(* A worker that did all it should is refused only with an excuse: each    *)
(* other refusal is for a line, an exit code, a file or a workspace that   *)
(* is still wrong when it is accounted for.                                *)
THEOREM RefusalsAreForFaults == ExchangeSpec => []RefusalsHaveAReason
<1>1. ExchangeInv => RefusalsHaveAReason
  <2> SUFFICES ASSUME ExchangeInv, At("failing"), turn.error \notin Excuses, Escaped = {},
                      worker = "exited", SaidProperly, LeftProperly
               PROVE  FALSE
    BY DEF RefusalsHaveAReason
  <2>1. Faulty /\ turn.attempt \in Attempts /\ (helpers \cap InGroup = {} => helpers = {})
    BY DEF ExchangeInv, FailureInv, TurnInv, At, Escaped
  <2>2. /\ Len(said) = Expected /\ Messages(said) /\ IsGreeting(said[1])
        /\ Coding => IsResultAfter(said[2], said[1])
    BY DEF SaidProperly, Coding
  <2>3. said[1].defects = {} /\ (Coding => said[2].defects = {})
    BY <2>1, <2>2, GreetingsAreGreetings, ResultsAreResults
  <2>4. Construct(said[1]) = "ok" /\ (Coding => Construct(said[2]) = "ok")
    BY <2>3, DefectsAreFound
  <2>5. DOMAIN said = 1..Len(said) /\ Expected = IF Coding THEN 2 ELSE 1
    BY LenProperties DEF ExchangeInv, ReadInv, ExchangeTypeOK, Expected, Coding
  <2>6. ASSUME NEW i \in 1..Len(said) PROVE said[i] \notin NoMessage /\ Construct(said[i]) = "ok"
    <3>1. i = 1 \/ (Coding /\ i = 2)
      BY <2>2, <2>5
    <3> QED
      BY <2>2, <2>4, <2>5, <3>1 DEF Messages, NoMessage
  <2>7. ~(Len(said) > Expected)
    BY <2>2, <2>5
  <2> QED
    BY <2>1, <2>6, <2>7 DEF Faulty
<1> QED
  BY <1>1, ExchangeInvariant, PTL

(* An accepted result is one that may complete a run, but for what the     *)
(* bridge was itself declared without.                                     *)
THEOREM AcceptedResultsComplete == ExchangeSpec => []AcceptedResultsMayComplete
<1>1. ASSUME ExchangeInv, At("accepted"), Coding
      PROVE  /\ MissingCompletionFields(answers[2], Codex) \subseteq Undeclared
             /\ Undeclared = {} => ValidateWorkerCompletion(answers[2], Codex) = "ok"
             /\ ~Codex => FabricatedCodexFields(answers[2].identity) = {}
  <2> DEFINE m == answers[2]
             greeting == said[1]
  <2>1. m = said[2] /\ IsGreeting(greeting) /\ IsResultAfter(m, greeting)
    <3>1. At("accepted") /\ turn.pc \in Settled /\ Greeted /\ Answered
      BY <1>1 DEF At, Settled, Greeted, Answered, Compared, Unchanged, Named
    <3>2. taken = 2 /\ answers = SubSeq(said, 1, 2) /\ Len(said) = 2 /\ said \in Seq(LinesOf(turn.attempt))
      BY <1>1, <3>1 DEF ExchangeInv, TurnInv, ReadInv, Expected, Coding
    <3> QED
      BY <1>1, <3>1, <3>2 DEF ExchangeInv, MessagesInv
  <2>2. turn.attempt \in Attempts
    BY <1>1 DEF ExchangeInv, TurnInv, At
  <2>3. PICK r \in Results(turn.attempt) :
          m = Renamed(r, {"event_id", "artifact_id"} \union OwnNames, m.identity)
    BY <2>1 DEF IsResultAfter
  <2>4. /\ r.type = "result" /\ r.defects = {} /\ r.provenance = Declared
        /\ r.identity = IdentityOf(turn.attempt, CodexName)
        /\ r = Record(r)
    BY <2>3 DEF Results, Message, Record
  <2> HIDE DEF m
  <2>5. /\ m.type = "result" /\ m.defects = {} /\ m.provenance = Declared
        /\ \A f \in IdentityFields :
             m.identity[f] = IF f \in {"event_id", "artifact_id"} \union OwnNames /\ ~IsMissing(m.identity[f])
                             THEN m.identity[f] ELSE IdentityOf(turn.attempt, CodexName)[f]
    BY <2>3, <2>4 DEF Renamed, Record
  <2>6. /\ \A f \in RequiredFields : ~IsMissing(m.identity[f])
        /\ Codex => \A f \in ConditionalFields : ~IsMissing(m.identity[f])
        /\ ~Codex => \A f \in ConditionalFields : IsMissing(m.identity[f])
    BY <2>2, <2>5, Fields, ExchangeAssumption
       DEF IdentityOf, CodexName, OwnNames, IsMissing, RequiredFields, ConditionalFields, IdentityFields
  <2>7. /\ MissingOf(m.identity, RequiredFields) = {}
        /\ Codex => MissingOf(m.identity, ConditionalFields) = {}
        /\ ~Codex => FabricatedCodexFields(m.identity) = {}
    BY <2>6 DEF MissingOf, FabricatedCodexFields
  <2>8. MissingCompletionFields(m, Codex) \subseteq Undeclared
    BY <2>5, <2>7 DEF MissingCompletionFields, Declared
  <2>9. Undeclared = {} => ValidateWorkerCompletion(m, Codex) = "ok"
    BY <2>5, <2>7, <2>8 DEF ValidateWorkerCompletion
  <2> QED
    BY <2>7, <2>8, <2>9 DEF m
<1>2. ExchangeInv => AcceptedResultsMayComplete
  BY <1>1 DEF AcceptedResultsMayComplete, Coding
<1> QED
  BY <1>2, ExchangeInvariant, PTL
=============================================================================
