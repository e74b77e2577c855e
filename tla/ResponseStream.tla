--------------------------- MODULE ResponseStream ---------------------------
(***************************************************************************)
(* The responses on one upstream connection (readUpstreamResponse and      *)
(* readThroughInterim in internal/proxy/response.go, and                   *)
(* handleUpstreamResponseError).  The stream is a sequence of heads and    *)
(* body bytes; where a response ends depends on how its Content-Length     *)
(* and Transfer-Encoding fields are read, and the next request of the      *)
(* session takes whatever follows for its answer.                          *)
(*                                                                         *)
(* A Content-Length value is a sequence of digits, or of characters that   *)
(* are none, which count as Base or more.  The code parses                 *)
(* decimal digits into 64 bits; Base and Width stand for that at a size    *)
(* where the overflow can be reached.  net/http rejects most malformed     *)
(* lengths itself.  The code's own check repeats that, so here they reach  *)
(* it, all but one: what becomes of an empty first line rests on net/http  *)
(* alone (EmptyLength).                                                    *)
(***************************************************************************)
EXTENDS Integers, Sequences, SequencesExt

CONSTANTS Heads,        \* the heads an upstream may send
          Base, Width,  \* digits, and the bits of a parsed length
          Exchanges     \* bound on the exchanges of one connection

\* Content-Length: field lines, their comma-separated values, the characters of each.
HeadRecords ==
    [kind : {"interim", "final", "garbage"}, lengths : Seq(Seq(Seq(Nat))), chunked : BOOLEAN,
     bodiless : BOOLEAN, forbidden : BOOLEAN, authenticate : BOOLEAN, answers : Nat]

ASSUME HeadsAssumption == Heads \subseteq HeadRecords

Bad == -1       \* not a number
UntilClose == -2  \* the body ends with the connection

VARIABLES oldClient, \* the client speaks HTTP/1.0
          asked,    \* requests sent
          headOnly, \* the current request is a HEAD
          owed,     \* the current request is unanswered by the upstream
          wire,     \* what the upstream has sent and the proxy has not read
          reader,   \* where readThroughInterim is
          relayed,  \* what the client was sent last
          reply     \* the error the client was sent

streamVars == <<oldClient, asked, headOnly, owed, wire, reader, relayed, reply>>

Byte == [kind |-> "byte"]
Nothing == [head |-> Byte, bytes |-> 0]

-----------------------------------------------------------------------------
(* Content-Length.                                                         *)

Numeric(text) == text # <<>> /\ \A i \in DOMAIN text : text[i] \in 0..(Base - 1)

Number(text) == FoldLeft(LAMBDA n, d : n * Base + d, 0, text)

\* strconv.ParseUint
ParseUint(text) ==
    IF Numeric(text) /\ Number(text) \in 0..(2^Width - 1) THEN Number(text) ELSE Bad

\* The values of all field lines, split at commas; blank ones are skipped.
Parts(lengths) == SelectSeq(FlattenSeq(lengths), LAMBDA p : p # <<>>)

ValidateFirstLine(head) ==
    LET line == IF head.lengths = <<>> THEN <<>> ELSE SelectSeq(head.lengths[1], LAMBDA p : p # <<>>)
    IN  \A i \in DOMAIN line : ParseUint(line[i]) = ParseUint(line[1]) /\ ParseUint(line[1]) # Bad

ValidateResponseContentLength(head) ==
    LET parts == Parts(head.lengths)
    IN  \A i \in DOMAIN parts : ParseUint(parts[i]) = ParseUint(parts[1]) /\ ParseUint(parts[1]) # Bad

\* Header.Get finds no Content-Length, or an empty one on the first line.
NoLength(head) == head.lengths = <<>> \/ head.lengths[1] \in {<<>>, <<<<>>>>}

\* http.ReadResponse rejects a Content-Length whose first line is empty, beside
\* Transfer-Encoding too.
EmptyLength(head) == head.lengths # <<>> /\ NoLength(head)

\* The answer to a HEAD, a 204 and a 304 end with their head, whatever it says.
NoBody(head) == headOnly \/ head.bodiless

\* How net/http, which is given the request, delimits the body of a final response:
\* by its absence, by its chunks, by the connection's end, or by its length.
BodyLength(head, chunks) ==
    IF NoBody(head) THEN 0
    ELSE IF head.chunked THEN chunks
    ELSE IF Parts(head.lengths) = <<>> THEN UntilClose ELSE ParseUint(Parts(head.lengths)[1])

\* The lengths an upstream that sends this head can mean.
Meant(head) ==
    IF head.kind # "final" \/ NoBody(head) THEN {0}
    ELSE IF head.chunked \/ Parts(head.lengths) = <<>> THEN 0..1
         ELSE {Number(text) : text \in {t \in ToSet(Parts(head.lengths)) : Numeric(t)}} \cap Nat

-----------------------------------------------------------------------------
StreamInit ==
    /\ oldClient \in BOOLEAN
    /\ asked = 0
    /\ headOnly = FALSE
    /\ owed = FALSE
    /\ wire = <<>>
    /\ reader = "idle"
    /\ relayed = Nothing
    /\ reply = "none"

\* The session sends the next request on the connection.
Ask ==
    /\ reader = "idle"
    /\ asked < Exchanges
    /\ asked' = asked + 1
    /\ headOnly' \in BOOLEAN
    /\ owed' = TRUE
    /\ reader' = "read"
    /\ relayed' = Nothing
    /\ UNCHANGED <<oldClient, wire, reply>>

\* The upstream sends a head and its body.
Respond(head, length) ==
    /\ owed
    /\ Len(wire) < 2
    /\ wire' = wire \o <<[head EXCEPT !.answers = asked]>> \o [i \in 1..length |-> Byte]
    /\ owed' = (head.kind = "interim")
    /\ UNCHANGED <<oldClient, asked, headOnly, reader, relayed, reply>>

\* handleUpstreamResponseError: a 502, and the connection is not used again.
Reject(error) ==
    /\ reply' = error
    /\ reader' = "ended"
    /\ UNCHANGED <<oldClient, asked, headOnly, owed, wire, relayed>>

\* http.ReadResponse fails over what is no head.
ParseFails ==
    /\ reader = "read"
    /\ wire # <<>>
    /\ wire[1].kind \in {"byte", "garbage"}
    /\ Reject("errUnparseableResponse")

Parsed == reader = "read" /\ wire # <<>> /\ wire[1].kind \in {"interim", "final"}

\* http.ReadResponse or the code itself rejects the Content-Length.
RejectLength ==
    /\ Parsed
    /\ EmptyLength(wire[1]) \/ ~ValidateResponseContentLength(wire[1])
    /\ Reject("errInvalidContentLength")

\* validateResponseHeaderBytes
RejectBytes ==
    /\ Parsed
    /\ ~EmptyLength(wire[1])
    /\ ValidateResponseContentLength(wire[1])
    /\ wire[1].forbidden
    /\ Reject("errMalformedResponseHeader")

Accepted ==
    /\ Parsed
    /\ ~EmptyLength(wire[1])
    /\ ValidateResponseContentLength(wire[1])
    /\ ~wire[1].forbidden

CleanKeepingLength(head) == [head EXCEPT !.authenticate = FALSE]

\* A Content-Length that Header.Get finds gives way to Transfer-Encoding,
\* Proxy-Authenticate is dropped.
Clean(head) ==
    [head EXCEPT !.lengths = IF head.chunked /\ ~NoLength(head) THEN <<>> ELSE @,
                 !.authenticate = FALSE]

\* relayInterimResponse strips the framing fields; an HTTP/1.0 client gets nothing.
RelayInterim ==
    /\ Accepted
    /\ wire[1].kind = "interim"
    /\ relayed' = IF oldClient THEN relayed
                  ELSE [head |-> [Clean(wire[1]) EXCEPT !.lengths = <<>>, !.chunked = FALSE], bytes |-> 0]
    /\ wire' = Tail(wire)
    /\ UNCHANGED <<oldClient, asked, headOnly, owed, reader, reply>>

\* The final response, once the body that BodyLength finds is there.
RelayFinal ==
    /\ Accepted
    /\ wire[1].kind = "final"
    /\ LET n == BodyLength(wire[1], Len(wire) - 1)
           bytes == IF n = UntilClose THEN Len(wire) - 1 ELSE n
       IN  /\ bytes < Len(wire)
           /\ wire' = SubSeq(wire, bytes + 2, Len(wire))
           /\ relayed' = [head |-> Clean(wire[1]), bytes |-> bytes]
           /\ reader' = IF n = UntilClose THEN "ended" ELSE "idle"
    /\ UNCHANGED <<oldClient, asked, headOnly, owed, reply>>

StreamNext ==
    \/ Ask
    \/ \E head \in Heads : \E length \in Meant(head) : Respond(head, length)
    \/ ParseFails
    \/ RejectLength
    \/ RejectBytes
    \/ RelayInterim
    \/ RelayFinal

StreamSpec == StreamInit /\ [][StreamNext]_streamVars

-----------------------------------------------------------------------------
\* The reader stays aligned with the requests of the session: whatever mix of
\* interim and final responses, blank, repeated, padded or oversized lengths the
\* upstream sends, and whether or not a body follows them, each request is answered
\* by its own response, nothing of it is left for the next, and the reader does not
\* wait for a body that will not come (readThroughInterim, readUpstreamResponse,
\* validateResponseContentLength).
ReaderAligned ==
    /\ reader = "idle" => wire = <<>>
    /\ reader = "read" /\ wire # <<>> => wire[1].kind # "byte" /\ wire[1].answers = asked
    /\ ~owed /\ Accepted /\ wire[1].kind = "final" => BodyLength(wire[1], Len(wire) - 1) < Len(wire)

\* The client can delimit what it is sent: one framing only, whose length is that
\* of the body if there is one; an interim response has none, and goes to no
\* HTTP/1.0 client.  In particular no Content-Length line that Header.Get overlooks
\* (readUpstreamResponse) is left beside Transfer-Encoding.  Forbidden bytes and the
\* upstream's Proxy-Authenticate never reach the client.
RelayedIsDelimited ==
    relayed # Nothing =>
        /\ ~relayed.head.forbidden /\ ~relayed.head.authenticate
        /\ relayed.head.chunked => relayed.head.lengths = <<>>
        /\ relayed.head.lengths # <<>> /\ ~NoBody(relayed.head) =>
               \A text \in ToSet(Parts(relayed.head.lengths)) : Number(text) = relayed.bytes
        /\ relayed.head.kind = "interim" =>
               ~oldClient /\ ~relayed.head.chunked /\ relayed.head.lengths = <<>>
=============================================================================
