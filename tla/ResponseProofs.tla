--------------------------- MODULE ResponseProofs ---------------------------
(***************************************************************************)
(* The exchange of a request for its response, and the stream the          *)
(* responses are read from.  exchangeRequest returns in a clean state, for *)
(* any number of interim responses: ReturnIsClean speaks of the moment of  *)
(* return only; the invariant follows the upload, the deadlines and the    *)
(* result there.  The reader of the stream stays aligned, for any heads:   *)
(* the invariant says what the upstream may have put on the wire.          *)
(***************************************************************************)
EXTENDS ExchangeRequest, ResponseStream, SequenceTheorems, TLAPS

\* The upload reports exactly once, when it ends, and truthfully.
Reported ==
    /\ (upload = "finished") <=> (written # "empty")
    /\ complete <=> (written = "ok")

\* Only exchanges with a goroutine of their own arm a deadline, and none but the
\* reader's is armed before the upload is cancelled.
Deadlines ==
    /\ pc \in {"write", "read", "poll"} => ~clientRead /\ ~upWrite
    /\ ~expect => ~clientRead /\ ~upWrite /\ ~upRead

\* How far the exchange has come.
Progress ==
    /\ pc = "write" => ~expect
    /\ pc \in {"poll", "join"} => expect
    /\ pc = "read" /\ ~expect => written = "ok"
    /\ pc # "done" => ~close
    /\ pc \in {"write", "read"} => resp = "none" /\ failure = "none"
    /\ pc \in {"poll", "join"} => ((resp = "final") <=> (failure = "none"))

IInv == TypeOK /\ Reported /\ Deadlines /\ Progress /\ ReturnIsClean

LEMMA InitIInv == Init => IInv
<1> SUFFICES ASSUME Init PROVE IInv
  OBVIOUS
<1>1. /\ complete \in BOOLEAN /\ early \in BOOLEAN /\ close \in BOOLEAN
      /\ clientRead \in BOOLEAN /\ upWrite \in BOOLEAN /\ upRead \in BOOLEAN
  BY Zenon DEF Init
<1>2. TypeOK
  <2>1. pipe \in Seq({"interim", "final"}) /\ interim \in 0..MaxInterim
    BY ExchangeAssumption DEF Init
  <2>2. pc \in {"write", "read"}
    BY DEF Init
  <2> QED
    BY <1>1, <2>1, <2>2 DEF Init, TypeOK
<1>3. Reported /\ Deadlines /\ Progress /\ ReturnIsClean
  BY DEF Init, Reported, Deadlines, Progress, ReturnIsClean
<1> QED
  BY <1>2, <1>3 DEF IInv

LEMMA UploadIInv == ASSUME IInv, pc # "done", Upload PROVE IInv'
  <1> USE ExchangeAssumption DEF IInv, TypeOK, Reported, Deadlines, Progress, ReturnIsClean, kind, upstreamVars, deadlines, result
  <1>1. CASE UploadHeader
    BY <1>1 DEF UploadHeader
  <1>2. CASE UploadCompletes
    BY <1>2 DEF UploadCompletes
  <1>3. CASE UploadFails
    BY <1>3 DEF UploadFails, WriteRequestFails
  <1>4. CASE UploadReports
    BY <1>4 DEF UploadReports
  <1> QED
    BY <1>1, <1>2, <1>3, <1>4 DEF Upload

LEMMA ReadIInv == ASSUME IInv, Read PROVE IInv'
  <1> USE ExchangeAssumption DEF IInv, TypeOK, Reported, Deadlines, Progress, ReturnIsClean, kind, uploadVars, upstreamVars,
              deadlines, result, AfterRead
  <1>1. CASE ReadInterim
    BY <1>1 DEF ReadInterim
  <1>2. CASE RelayFails
    BY <1>2 DEF RelayFails
  <1>3. CASE ReadFinal
    BY <1>3 DEF ReadFinal
  <1>4. CASE ReadFails
    BY <1>4 DEF ReadFails
  <1> QED
    BY <1>1, <1>2, <1>3, <1>4 DEF Read

LEMMA DecideIInv == ASSUME IInv, Decide PROVE IInv'
  <1> USE ExchangeAssumption DEF IInv, TypeOK, Reported, Deadlines, Progress, ReturnIsClean, kind, uploadVars, upstreamVars,
              deadlines, result
  <1>1. CASE SyncWritten
    BY <1>1 DEF SyncWritten
  <1>2. CASE SyncWriteFailed
    BY <1>2 DEF SyncWriteFailed
  <1>3. CASE Poll
    BY <1>3, Zenon DEF Poll
  <1>4. CASE CancelUpload
    BY <1>4 DEF CancelUpload
  <1>5. CASE Join
    BY <1>5, Zenon DEF Join
  <1> QED
    BY <1>1, <1>2, <1>3, <1>4, <1>5 DEF Decide

LEMMA PeersIInv == ASSUME IInv, Peers PROVE IInv'
  <1> USE ExchangeAssumption DEF IInv, TypeOK, Reported, Deadlines, Progress, ReturnIsClean, kind, uploadVars, upstreamVars,
     deadlines, result
  <1>1. CASE ClientSendsBody
    BY <1>1 DEF ClientSendsBody
  <1>2. CASE ClientGoes
    BY <1>2 DEF ClientGoes
  <1>3. CASE UpstreamInterim
    BY <1>3 DEF UpstreamInterim
  <1>4. CASE UpstreamFinal
    BY <1>4 DEF UpstreamFinal
  <1>5. CASE UpstreamBreaks
    BY <1>5 DEF UpstreamBreaks
  <1> QED
    BY <1>1, <1>2, <1>3, <1>4, <1>5 DEF Peers

LEMMA NextIInv == IInv /\ [Next]_vars => IInv'
  <1> SUFFICES ASSUME IInv, [Next]_vars PROVE IInv'
    OBVIOUS
  <1>1. CASE Next
    BY <1>1, UploadIInv, ReadIInv, DecideIInv, PeersIInv DEF Next
  <1>2. CASE UNCHANGED vars
    BY <1>2 DEF vars, kind, uploadVars, upstreamVars, deadlines, result, IInv, TypeOK, Reported,
       Deadlines, Progress, ReturnIsClean
  <1> QED
    BY <1>1, <1>2

\* When exchangeRequest returns, the upload goroutine has ended, there is either a
\* response or an error, and connections that will be used again have no deadline
\* armed and nothing of the request outstanding; for any number of 1xx responses.
THEOREM ExchangeReturnsClean == Spec => []ReturnIsClean
  <1>1. IInv => ReturnIsClean
    BY DEF IInv
  <1> QED
    BY <1>1, InitIInv, NextIInv, PTL DEF Spec

-----------------------------------------------------------------------------
(* The responses on one upstream connection.                               *)

\* Lengths that validateResponseContentLength accepts are one number.
LEMMA OneLength ==
  ASSUME NEW head, ValidateResponseContentLength(head),
         NEW text \in ToSet(Parts(head.lengths))
  PROVE  /\ ParseUint(Parts(head.lengths)[1]) \in Nat
         /\ Number(text) = ParseUint(Parts(head.lengths)[1])
<1> DEFINE parts == Parts(head.lengths)
<1>1. PICK i \in DOMAIN parts : text = parts[i]
  BY DEF ToSet
<1>2. ParseUint(parts[i]) = ParseUint(parts[1]) /\ ParseUint(parts[1]) # Bad
  BY <1>1 DEF ValidateResponseContentLength
<1> HIDE DEF parts
<1>3. ASSUME NEW t, ParseUint(t) # Bad
      PROVE  ParseUint(t) = Number(t) /\ Number(t) \in Nat
  <2>1. Number(t) \in 0..(2^Width - 1) /\ ParseUint(t) = Number(t)
    BY <1>3 DEF ParseUint
  <2> QED
    BY <2>1
<1> QED
  BY <1>1, <1>2, <1>3 DEF parts

\* A body that net/http delimits by length or chunks ends where the upstream ended it.
LEMMA BodyEnds ==
  ASSUME NEW head, head.kind = "final", ValidateResponseContentLength(head),
         NEW length \in Meant(head), BodyLength(head, length) # UntilClose
  PROVE  BodyLength(head, length) = length
<1>0. CASE NoBody(head)
  BY <1>0 DEF BodyLength, Meant
<1>1. CASE ~NoBody(head) /\ head.chunked
  BY <1>1 DEF BodyLength
<1>2. CASE ~NoBody(head) /\ ~head.chunked /\ Parts(head.lengths) = <<>>
  BY <1>2 DEF BodyLength
<1>3. CASE ~NoBody(head) /\ ~head.chunked /\ Parts(head.lengths) # <<>>
  <2>1. PICK text \in ToSet(Parts(head.lengths)) : length = Number(text)
    BY <1>3 DEF Meant
  <2> QED
    BY <1>3, <2>1, OneLength DEF BodyLength
<1> QED
  BY <1>0, <1>1, <1>2, <1>3

\* What Respond puts at the end of the wire.
LEMMA Extended ==
  ASSUME NEW S, NEW w \in Seq(S), NEW h \in S, NEW bytes \in Seq(S), NEW b,
         \A i \in 1..Len(bytes) : bytes[i] = b
  PROVE  LET v == Append(w, h) \o bytes
         IN  /\ v \in Seq(S) /\ Len(v) = Len(w) + 1 + Len(bytes)
             /\ \A i \in 1..Len(w) : v[i] = w[i]
             /\ v[Len(w) + 1] = h
             /\ \A i \in (Len(w) + 2)..Len(v) : v[i] = b
<1> DEFINE a == Append(w, h)
           v == a \o bytes
<1>1. a \in Seq(S) /\ Len(a) = Len(w) + 1 /\ a[Len(w) + 1] = h /\ \A i \in 1..Len(w) : a[i] = w[i]
  BY AppendProperties
<1>3. v = a \o bytes
  OBVIOUS
<1>4. Len(w) \in Nat /\ Len(bytes) \in Nat
  BY LenProperties
<1> HIDE DEF a, v
<1>5. /\ a \o bytes \in Seq(S) /\ Len(a \o bytes) = Len(a) + Len(bytes)
      /\ \A i \in 1..Len(a) + Len(bytes) :
            (a \o bytes)[i] = IF i <= Len(a) THEN a[i] ELSE bytes[i - Len(a)]
  BY <1>1, ConcatProperties, Zenon
<1>6. v \in Seq(S) /\ Len(v) = Len(w) + 1 + Len(bytes)
  BY <1>1, <1>3, <1>4, <1>5, Zenon
<1>7. \A i \in 1..Len(v) : v[i] = IF i <= Len(w) + 1 THEN a[i] ELSE bytes[i - (Len(w) + 1)]
  BY <1>1, <1>3, <1>4, <1>5
<1>8. \A i \in 1..Len(w) : v[i] = w[i]
  BY <1>1, <1>4, <1>6, <1>7
<1>9. v[Len(w) + 1] = h
  BY <1>1, <1>4, <1>6, <1>7
<1>10. \A i \in (Len(w) + 2)..Len(v) : v[i] = b
  <2>1. \A i \in (Len(w) + 2)..Len(v) :
           i \in 1..Len(v) /\ ~(i <= Len(w) + 1) /\ i - (Len(w) + 1) \in 1..Len(bytes)
    BY <1>4, <1>6
  <2> QED
    BY <1>7, <2>1, Zenon
<1> QED
  BY <1>6, <1>8, <1>9, <1>10 DEF a, v

\* What is on the wire while the current request is unanswered: interim responses.
Interims(n) ==
    \A i \in 1..n : wire[i] \in HeadRecords /\ wire[i].kind = "interim" /\ wire[i].answers = asked

\* The answer itself is the k-th head, and nothing but its body follows.
AnswerAt(k) ==
    /\ wire[k] \in HeadRecords /\ wire[k].kind # "interim" /\ wire[k].answers = asked
    /\ \A i \in (k + 1)..Len(wire) : wire[i] = Byte
    /\ Len(wire) - k \in Meant(wire[k])

RInv ==
    /\ asked \in Nat /\ owed \in BOOLEAN
    /\ wire \in Seq(HeadRecords \cup {Byte})
    /\ reader = "idle" => wire = <<>> /\ ~owed
    /\ reader = "read" /\ owed => Interims(Len(wire))
    /\ reader = "read" /\ ~owed => \E k \in 1..Len(wire) : Interims(k - 1) /\ AnswerAt(k)
    /\ RelayedIsDelimited

LEMMA InitRInv == StreamInit => RInv
<1> SUFFICES ASSUME StreamInit PROVE RInv
  OBVIOUS
<1>1. RelayedIsDelimited
  BY DEF StreamInit, RelayedIsDelimited
<1>2. wire = <<>> /\ reader = "idle" /\ asked \in Nat
  BY DEF StreamInit
<1>3. owed \in BOOLEAN /\ ~owed
  BY Zenon DEF StreamInit
<1>4. <<>> \in Seq(HeadRecords \cup {Byte})
  OBVIOUS
<1> QED
  BY <1>1, <1>2, <1>3, <1>4 DEF RInv

\* The first thing on the wire, where the reader stands.
LEMMA FirstOnWire ==
  ASSUME RInv, reader = "read", wire # <<>>
  PROVE  /\ Len(wire) \in Nat /\ 1 \in 1..Len(wire)
         /\ wire[1] \in HeadRecords /\ wire[1].answers = asked
         /\ wire[1].kind # "interim" => ~owed /\ AnswerAt(1)
<1>1. Len(wire) \in Nat /\ 1 \in 1..Len(wire)
  BY EmptySeq, LenProperties DEF RInv
<1>2. CASE owed
  BY <1>1, <1>2 DEF RInv, Interims
<1>3. CASE ~owed
  <2>1. PICK k \in 1..Len(wire) : Interims(k - 1) /\ AnswerAt(k)
    BY <1>3 DEF RInv
  <2>2. CASE k = 1
    BY <1>1, <1>3, <2>1, <2>2 DEF AnswerAt
  <2>3. CASE k # 1
    <3>1. 1 \in 1..(k - 1)
      BY <1>1, <2>3
    <3> QED
      BY <1>1, <2>1, <3>1 DEF Interims
  <2> QED
    BY <2>2, <2>3
<1> QED
  BY <1>2, <1>3, <1>1 DEF RInv

\* An upstream that is owed an answer sends an interim response or the answer.
LEMMA RespondRInv ==
  ASSUME RInv, NEW head \in Heads, NEW length \in Meant(head),
         Respond(head, length)
  PROVE  RInv'
<1> DEFINE h == [head EXCEPT !.answers = asked]
           S == HeadRecords \cup {Byte}
<1>1. /\ owed /\ owed' = (head.kind = "interim") /\ asked' = asked /\ reader' = reader
      /\ relayed' = relayed /\ oldClient' = oldClient /\ headOnly' = headOnly
      /\ wire' = wire \o <<h>> \o [i \in 1..length |-> Byte]
  BY DEF Respond
<1>2. head \in HeadRecords
  BY HeadsAssumption
<1>3. /\ h \in HeadRecords /\ h.kind = head.kind /\ h.answers = asked
      /\ h.chunked = head.chunked /\ h.lengths = head.lengths /\ h.bodiless = head.bodiless
  <2>1. asked \in Nat
    BY DEF RInv
  <2>2. h \in HeadRecords
    BY <1>2, <2>1 DEF HeadRecords
  <2>3. h.kind = head.kind /\ h.answers = asked
    BY <1>2 DEF HeadRecords
  <2>4. h.chunked = head.chunked /\ h.lengths = head.lengths /\ h.bodiless = head.bodiless
    BY <1>2 DEF HeadRecords
  <2> QED
    BY <2>2, <2>3, <2>4
<1>4. Meant(h) = Meant(head)
  BY <1>3 DEF Meant, NoBody
<1>5. length \in Nat
  BY DEF Meant
<1> HIDE DEF h
<1>6. wire \in Seq(S) /\ h \in S /\ Byte \in S
  BY <1>3 DEF RInv
<1> HIDE DEF S
<1>7. /\ wire' \in Seq(S) /\ Len(wire') = Len(wire) + 1 + length
      /\ \A i \in 1..Len(wire) : wire'[i] = wire[i]
      /\ wire'[Len(wire) + 1] = h
      /\ \A i \in (Len(wire) + 2)..Len(wire') : wire'[i] = Byte
  <2> DEFINE bytes == [i \in 1..length |-> Byte]
             v == Append(wire, h) \o bytes
  <2>0. bytes \in Seq(S) /\ Len(bytes) = length /\ \A i \in 1..Len(bytes) : bytes[i] = Byte
    BY <1>5, <1>6, SeqDef
  <2>1. wire' = v
    <3>1. Append(wire, h) = wire \o <<h>>
      BY <1>6, AppendIsConcat
    <3> QED
      BY <1>1, <3>1, Zenon
  <2> HIDE DEF bytes
  <2>2. /\ v \in Seq(S) /\ Len(v) = Len(wire) + 1 + Len(bytes)
        /\ \A i \in 1..Len(wire) : v[i] = wire[i]
        /\ v[Len(wire) + 1] = h
        /\ \A i \in (Len(wire) + 2)..Len(v) : v[i] = Byte
    BY <1>6, <2>0, Extended
  <2> HIDE DEF v
  <2> QED
    BY <2>0, <2>1, <2>2
<1>8. Len(wire) \in Nat
  BY <1>6, LenProperties
<1>9. reader # "idle"
  BY <1>1 DEF RInv
<1>10. RelayedIsDelimited'
  BY <1>1 DEF RInv, RelayedIsDelimited, NoBody
<1>11. owed' \in BOOLEAN /\ asked' \in Nat
  BY <1>1 DEF RInv
<1>12. ASSUME reader = "read", head.kind = "interim" PROVE Interims(Len(wire))'
  <2>1. length = 0
    BY <1>12 DEF Meant
  <2>2. Interims(Len(wire))
    BY <1>1, <1>12 DEF RInv
  <2> SUFFICES ASSUME NEW i \in 1..Len(wire')
               PROVE  wire'[i] \in HeadRecords /\ wire'[i].kind = "interim" /\ wire'[i].answers = asked'
    BY DEF Interims
  <2>3. CASE i \in 1..Len(wire)
    BY <1>1, <1>7, <2>2, <2>3 DEF Interims
  <2>4. CASE i = Len(wire) + 1
    BY <1>1, <1>3, <1>7, <1>12, <2>4
  <2> QED
    BY <1>7, <1>8, <2>1, <2>3, <2>4
<1>13. ASSUME reader = "read", head.kind # "interim"
       PROVE  \E k \in 1..Len(wire') : Interims(k - 1)' /\ AnswerAt(k)'
  <2>0. PICK k \in Nat : k = Len(wire) + 1
    BY <1>8
  <2>1. k \in 1..Len(wire') /\ k - 1 = Len(wire) /\ Len(wire') - k = length /\ k + 1 = Len(wire) + 2
    BY <1>5, <1>7, <1>8, <2>0
  <2>2. Interims(Len(wire))
    BY <1>1, <1>13 DEF RInv
  <2>3. wire'[k] = h
    BY <1>7, <2>0
  <2>4. \A i \in 1..(k - 1) : wire'[i] = wire[i]
    BY <1>7, <2>1
  <2>5. Interims(k - 1)'
    BY <1>1, <2>1, <2>2, <2>4 DEF Interims
  <2>6. AnswerAt(k)'
    <3>1. wire'[k] \in HeadRecords /\ wire'[k].kind # "interim" /\ wire'[k].answers = asked'
      BY <1>1, <1>3, <1>13, <2>3, Zenon
    <3>2. \A i \in (k + 1)..Len(wire') : wire'[i] = Byte
      BY <1>7, <2>1, Zenon
    <3>3. Meant(wire[k])' = Meant(h)
      BY <1>1, <2>3, Zenon DEF Meant, NoBody
    <3>4. Len(wire') - k \in Meant(h)
      BY <1>4, <2>1
    <3> QED
      BY <3>1, <3>2, <3>3, <3>4 DEF AnswerAt
  <2> QED
    BY <2>1, <2>5, <2>6
<1> QED
  BY <1>1, <1>7, <1>9, <1>10, <1>11, <1>12, <1>13, Zenon DEF RInv, S

\* readThroughInterim passes an interim response on and reads the next.
LEMMA RelayInterimRInv ==
  ASSUME RInv, RelayInterim
  PROVE  RInv'
<1> DEFINE S == HeadRecords \cup {Byte}
<1>1. /\ reader = "read" /\ wire # <<>> /\ wire[1].kind = "interim" /\ ~wire[1].forbidden
      /\ wire' = Tail(wire) /\ oldClient' = oldClient /\ asked' = asked /\ owed' = owed /\ reader' = reader
      /\ headOnly' = headOnly
      /\ relayed' = IF oldClient THEN relayed
                    ELSE [head |-> [Clean(wire[1]) EXCEPT !.lengths = <<>>, !.chunked = FALSE],
                          bytes |-> 0]
  BY DEF RelayInterim, Accepted, Parsed
<1>2. Len(wire) \in Nat /\ 1 \in 1..Len(wire) /\ wire[1] \in HeadRecords
  BY <1>1, FirstOnWire
<1>3. wire \in Seq(S)
  BY DEF RInv
<1> HIDE DEF S
<1>4. /\ wire' \in Seq(S) /\ Len(wire') = Len(wire) - 1
      /\ \A i \in 1..Len(wire') : wire'[i] = wire[i + 1]
  BY <1>1, <1>3, HeadTailProperties
<1>5. RelayedIsDelimited'
  <2>1. CASE oldClient
    BY <1>1, <2>1 DEF RInv, RelayedIsDelimited, NoBody
  <2>2. CASE ~oldClient
    <3> DEFINE c == [Clean(wire[1]) EXCEPT !.lengths = <<>>, !.chunked = FALSE]
    <3>1. Clean(wire[1]) \in [kind : {"interim", "final", "garbage"}, lengths : {<<>>, wire[1].lengths},
                                chunked : BOOLEAN, bodiless : BOOLEAN, forbidden : {wire[1].forbidden},
                                authenticate : {FALSE}, answers : Nat]
      BY <1>2, Zenon DEF Clean, HeadRecords
    <3>2. c \in [kind : {"interim", "final", "garbage"}, lengths : {<<>>},
                 chunked : {FALSE}, bodiless : BOOLEAN, forbidden : {wire[1].forbidden},
                 authenticate : {FALSE}, answers : Nat]
      BY <3>1, Zenon
    <3> HIDE DEF c
    <3>3. relayed' = [head |-> c, bytes |-> 0]
      BY <1>1, <2>2 DEF c
    <3>4. relayed'.head = c
      BY <3>3
    <3>5. ~c.forbidden /\ ~c.authenticate /\ ~c.chunked /\ c.lengths = <<>>
      BY <1>1, <3>2, Zenon
    <3> QED
      BY <1>1, <2>2, <3>4, <3>5 DEF RelayedIsDelimited
  <2> QED
    BY <2>1, <2>2
<1>6. ASSUME owed PROVE Interims(Len(wire))'
  <2>1. Interims(Len(wire))
    BY <1>1, <1>6 DEF RInv
  <2>2. \A i \in 1..Len(wire') : i + 1 \in 1..Len(wire)
    BY <1>2, <1>4
  <2> QED
    BY <1>1, <1>4, <2>1, <2>2 DEF Interims
<1>7. ASSUME ~owed PROVE \E k \in 1..Len(wire') : Interims(k - 1)' /\ AnswerAt(k)'
  <2>1. PICK j \in 1..Len(wire) : Interims(j - 1) /\ AnswerAt(j)
    BY <1>1, <1>7 DEF RInv
  <2>2. j # 1
    BY <1>1, <2>1 DEF AnswerAt
  <2>3. PICK k \in 1..Len(wire') : j = k + 1
    BY <1>2, <1>4, <2>1, <2>2
  <2>4. k \in Nat /\ wire'[k] = wire[j]
    BY <1>4, <2>3
  <2>5. Interims(k - 1)'
    <3>1. \A i \in 1..(k - 1) : i \in 1..Len(wire') /\ i + 1 \in 1..(j - 1)
      BY <1>2, <1>4, <2>3
    <3> QED
      BY <1>1, <1>4, <2>1, <3>1 DEF Interims
  <2>6. AnswerAt(k)'
    <3>1. \A i \in (k + 1)..Len(wire') : i \in 1..Len(wire') /\ i + 1 \in (j + 1)..Len(wire)
      BY <1>2, <1>4, <2>3
    <3>2. \A i \in (k + 1)..Len(wire') : wire'[i] = Byte
      BY <1>4, <2>1, <3>1, Zenon DEF AnswerAt
    <3>3. Len(wire') - k = Len(wire) - j
      BY <1>2, <1>4, <2>3
    <3> QED
      BY <1>1, <2>1, <2>4, <3>2, <3>3, Zenon DEF AnswerAt, Meant, NoBody
  <2> QED
    BY <2>5, <2>6
<1> QED
  BY <1>1, <1>4, <1>5, <1>6, <1>7 DEF RInv, S

\* The final response takes its whole body off the wire, or ends the connection.
LEMMA RelayFinalRInv ==
  ASSUME RInv, RelayFinal
  PROVE  RInv'
<1> DEFINE S == HeadRecords \cup {Byte}
           h == wire[1]
           n == BodyLength(h, Len(wire) - 1)
           bytes == IF n = UntilClose THEN Len(wire) - 1 ELSE n
<1>1. /\ reader = "read" /\ wire # <<>> /\ h.kind = "final" /\ ~h.forbidden
      /\ ValidateResponseContentLength(h) /\ ~EmptyLength(h)
      /\ wire' = SubSeq(wire, bytes + 2, Len(wire))
      /\ relayed' = [head |-> Clean(h), bytes |-> bytes]
      /\ reader' = IF n = UntilClose THEN "ended" ELSE "idle"
      /\ oldClient' = oldClient /\ asked' = asked /\ owed' = owed /\ headOnly' = headOnly
  BY DEF RelayFinal, Accepted, Parsed
<1>2. /\ Len(wire) \in Nat /\ 1 \in 1..Len(wire) /\ h \in HeadRecords
      /\ ~owed /\ AnswerAt(1)
  BY <1>1, FirstOnWire
<1>3. wire \in Seq(S)
  BY DEF RInv
<1>4. Len(wire) - 1 \in Meant(h)
  BY <1>2 DEF AnswerAt
<1> HIDE DEF S, h
<1>5. n # UntilClose => n = Len(wire) - 1
  BY <1>1, <1>4, BodyEnds
<1> HIDE DEF n
<1>6. bytes = Len(wire) - 1
  BY <1>5
<1> HIDE DEF bytes
<1>7. wire' = <<>>
  <2>1. wire' = SubSeq(wire, Len(wire) + 1, Len(wire))
    <3>1. bytes + 2 = Len(wire) + 1
      BY <1>2, <1>6
    <3> QED
      BY <1>1, <3>1
  <2> QED
    BY <1>2, <1>3, <2>1, SubSeqProperties, EmptySeq
<1>8. <<>> \in Seq(HeadRecords \cup {Byte})
  OBVIOUS
<1>9. \A text \in ToSet(Parts(h.lengths)) : ~h.chunked /\ ~NoBody(h) => Number(text) = bytes
  <2> SUFFICES ASSUME NEW text \in ToSet(Parts(h.lengths)), ~h.chunked, ~NoBody(h)
               PROVE  Number(text) = bytes
    OBVIOUS
  <2>1. Number(text) = ParseUint(Parts(h.lengths)[1]) /\ Number(text) \in Nat
    BY <1>1, OneLength
  <2>2. Parts(h.lengths) # <<>>
    BY DEF ToSet
  <2>3. n = Number(text)
    BY <2>1, <2>2 DEF n, BodyLength
  <2> QED
    BY <1>5, <1>6, <2>1, <2>3 DEF UntilClose
<1>10. RelayedIsDelimited'
  <2> DEFINE c == Clean(h)
  <2>1. c \in [kind : {"final"}, lengths : {IF h.chunked THEN <<>> ELSE h.lengths},
               chunked : {h.chunked}, bodiless : {h.bodiless}, forbidden : {h.forbidden},
               authenticate : {FALSE}, answers : Nat]
    <3>1. h.lengths = <<>> \/ ~NoLength(h)
      BY <1>1 DEF EmptyLength
    <3>2. (IF h.chunked /\ ~NoLength(h) THEN <<>> ELSE h.lengths) = IF h.chunked THEN <<>> ELSE h.lengths
      BY <3>1
    <3> QED
      BY <1>1, <1>2, <3>2, Zenon DEF Clean, HeadRecords
  <2> HIDE DEF c
  <2>2. relayed'.head = c /\ relayed'.bytes = bytes
    BY <1>1 DEF c
  <2>3. /\ ~c.forbidden /\ ~c.authenticate /\ c.kind = "final" /\ c.chunked = h.chunked
        /\ c.lengths = (IF h.chunked THEN <<>> ELSE h.lengths) /\ c.bodiless = h.bodiless
    BY <1>1, <2>1, Zenon
  <2>4. NoBody(relayed.head)' <=> NoBody(h)
    BY <1>1, <2>2, <2>3 DEF NoBody
  <2>5. c.lengths # <<>> /\ ~NoBody(h) => \A text \in ToSet(Parts(c.lengths)) : Number(text) = bytes
    BY <1>9, <2>3
  <2> QED
    BY <2>2, <2>3, <2>4, <2>5 DEF RelayedIsDelimited
<1> QED
  BY <1>1, <1>2, <1>7, <1>8, <1>10, Zenon DEF RInv

LEMMA NextRInv == RInv /\ [StreamNext]_streamVars => RInv'
<1> SUFFICES ASSUME RInv, [StreamNext]_streamVars PROVE RInv'
  OBVIOUS
<1>1. CASE Ask
  <2>1. /\ wire = <<>> /\ wire' = wire /\ owed' = TRUE /\ asked' = asked + 1 /\ reader' = "read"
        /\ relayed' = Nothing
    BY <1>1 DEF Ask, RInv
  <2>2. asked' \in Nat /\ wire' \in Seq(HeadRecords \cup {Byte})
    BY <2>1 DEF RInv
  <2>3. RelayedIsDelimited'
    BY <2>1 DEF RelayedIsDelimited, Nothing
  <2>4. owed' \in BOOLEAN /\ owed'
    BY <2>1, Zenon
  <2>5. Interims(Len(wire))'
    BY <2>1 DEF Interims
  <2> QED
    BY <2>1, <2>2, <2>3, <2>4, <2>5 DEF RInv
<1>2. ASSUME NEW error, Reject(error) PROVE RInv'
  BY <1>2 DEF Reject, RInv, RelayedIsDelimited, NoBody
<1>3. CASE ParseFails \/ RejectLength \/ RejectBytes
  BY <1>2, <1>3 DEF ParseFails, RejectLength, RejectBytes
<1>4. CASE UNCHANGED streamVars
  <2>1. UNCHANGED <<oldClient, asked, headOnly, owed, wire, reader, relayed>>
    BY <1>4 DEF streamVars
  <2> QED
    BY <2>1, Zenon DEF RInv, Interims, AnswerAt, RelayedIsDelimited, Meant, NoBody
<1> QED
  BY <1>1, <1>3, <1>4, RespondRInv, RelayInterimRInv, RelayFinalRInv DEF StreamNext

\* Every request of a session is answered by its own response, and nothing of that
\* is left for the next: for any heads and lengths an upstream sends, any width of
\* the parsed length and any number of exchanges on the connection.
THEOREM ReaderStaysAligned == StreamSpec => []ReaderAligned
<1>1. RInv => ReaderAligned
  <2> SUFFICES ASSUME RInv PROVE ReaderAligned
    OBVIOUS
  <2>1. reader = "idle" => wire = <<>>
    BY DEF RInv
  <2>2. reader = "read" /\ wire # <<>> => wire[1].kind # "byte" /\ wire[1].answers = asked
    BY FirstOnWire DEF HeadRecords
  <2>3. ASSUME ~owed, Accepted, wire[1].kind = "final"
        PROVE  BodyLength(wire[1], Len(wire) - 1) < Len(wire)
    <3>1. /\ Len(wire) \in Nat /\ AnswerAt(1) /\ ValidateResponseContentLength(wire[1])
      BY <2>3, FirstOnWire DEF Accepted, Parsed
    <3>2. Len(wire) - 1 \in Meant(wire[1])
      BY <3>1 DEF AnswerAt
    <3>3. \/ BodyLength(wire[1], Len(wire) - 1) = Len(wire) - 1
          \/ BodyLength(wire[1], Len(wire) - 1) = UntilClose
      BY <2>3, <3>1, <3>2, BodyEnds
    <3> QED
      BY <3>1, <3>3 DEF UntilClose
  <2> QED
    BY <2>1, <2>2, <2>3 DEF ReaderAligned
<1> QED
  BY <1>1, InitRInv, NextRInv, PTL DEF StreamSpec

\* A relayed response has one framing, whose length is that of the body it was
\* relayed with, and carries nothing that belongs to the upstream hop.
THEOREM RelayedStaysDelimited == StreamSpec => []RelayedIsDelimited
<1>1. RInv => RelayedIsDelimited
  BY DEF RInv
<1> QED
  BY <1>1, InitRInv, NextRInv, PTL DEF StreamSpec
=============================================================================
