-------------------------- MODULE ExchangeRequest ---------------------------
(***************************************************************************)
(* One request/response exchange (exchangeRequest and readThroughInterim   *)
(* in internal/proxy/response.go).  A request that waits for 100 Continue  *)
(* is written by a goroutine of its own while the session already reads    *)
(* responses; every other request is written first and answered after.    *)
(* The client may withhold its body, the upstream may answer early, either *)
(* may go away, and the two goroutines meet through one channel and three  *)
(* connection deadlines.                                                   *)
(***************************************************************************)
EXTENDS Naturals, Sequences

CONSTANT MaxInterim  \* bound on the 1xx responses of one exchange

ASSUME ExchangeAssumption == MaxInterim \in Nat

VARIABLES expect,      \* the request has a body and expects 100-continue
          http10,      \* the client speaks HTTP/1.0
          body,        \* the client's body: withheld, sent, or its sender gone
          upload,      \* the goroutine (or the synchronous call) that runs writeRequest
          written,     \* the channel the upload reports to
          complete,    \* the whole request is on its way to the upstream
          pipe,        \* responses on their way from the upstream
          upstream,    \* what the upstream has done
          early,       \* the final response was read before the request was complete
          clientRead,  \* the read deadline of the client connection has passed
          upWrite,     \* the write deadline of the upstream connection has passed
          upRead,      \* the read deadline of the upstream connection has passed
          pc,          \* where exchangeRequest is
          interim,     \* 1xx responses the upstream has sent
          resp,        \* the response returned, and its Close flag
          close,
          failure      \* which of the three errors the caller acts on

uploadVars == <<upload, written, complete>>
upstreamVars == <<pipe, upstream, early>>
deadlines == <<clientRead, upWrite, upRead>>
result == <<resp, close, failure>>
kind == <<expect, http10>>
vars == <<kind, body, uploadVars, upstreamVars, deadlines, pc, interim, result>>

Init ==
    /\ expect \in BOOLEAN
    /\ http10 \in BOOLEAN
    /\ body \in {"withheld", "sent"}
    /\ upload = "header"
    /\ written = "empty"
    /\ complete = FALSE
    /\ pipe = <<>>
    /\ upstream = "open"
    /\ early = FALSE
    /\ clientRead = FALSE
    /\ upWrite = FALSE
    /\ upRead = FALSE
    /\ pc = IF expect THEN "read" ELSE "write"
    /\ interim = 0
    /\ resp = "none"
    /\ close = FALSE
    /\ failure = "none"

-----------------------------------------------------------------------------
(* writeRequest, on its own goroutine when expect holds.                   *)

UploadHeader ==
    /\ upload = "header"
    /\ upstream # "broken"
    /\ upload' = "body"
    /\ UNCHANGED <<kind, body, written, complete, upstreamVars, deadlines, pc, interim, result>>

\* The last byte is accepted by the upstream connection and the upload reports.
UploadCompletes ==
    /\ upload = "body"
    /\ body = "sent"
    /\ upstream # "broken"
    /\ complete' = TRUE
    /\ upload' = "finished"
    /\ written' = "ok"
    /\ UNCHANGED <<kind, body, upstreamVars, deadlines, pc, interim, result>>

\* Where writeRequest can fail: a write to the upstream fails when that is broken
\* or its write deadline has passed, a read of the body when the client is gone or
\* its read deadline has passed.  While the body is withheld the upload waits for
\* the client alone and notices nothing of the upstream.
WriteRequestFails ==
    \/ /\ upload = "header" \/ (upload = "body" /\ body = "sent")
       /\ upstream = "broken" \/ upWrite
    \/ /\ upload = "body"
       /\ body = "gone" \/ clientRead

\* A write to the upstream or a read of the client's body fails; the reader is
\* woken through the read deadline of the upstream connection.
UploadFails ==
    /\ WriteRequestFails
    /\ upload' = "failed"
    /\ upRead' = (upRead \/ expect)
    /\ UNCHANGED <<kind, body, written, complete, upstreamVars, clientRead, upWrite, pc, interim, result>>

\* written <- writeErr
UploadReports ==
    /\ upload = "failed"
    /\ upload' = "finished"
    /\ written' = "err"
    /\ UNCHANGED <<kind, body, complete, upstreamVars, deadlines, pc, interim, result>>

-----------------------------------------------------------------------------
(* readThroughInterim.                                                     *)

\* The read phase is over: exchangeRequest returns at once on the synchronous
\* path and looks at the upload otherwise.
AfterRead == pc' = IF expect THEN "poll" ELSE "done"

\* A 1xx response is relayed, or dropped for an HTTP/1.0 client, and the next
\* response is read.
ReadInterim ==
    /\ pc = "read"
    /\ pipe # <<>> /\ Head(pipe) = "interim"
    /\ pipe' = Tail(pipe)
    /\ UNCHANGED <<kind, body, uploadVars, upstream, early, deadlines, pc, interim, result>>

\* Relaying the 1xx fails: the client is gone.
RelayFails ==
    /\ pc = "read"
    /\ pipe # <<>> /\ Head(pipe) = "interim"
    /\ ~http10
    /\ body = "gone"
    /\ pipe' = Tail(pipe)
    /\ failure' = "client"
    /\ AfterRead
    /\ UNCHANGED <<kind, body, uploadVars, upstream, early, deadlines, interim, resp, close>>

\* The final response; after the read deadline it can only come from the buffer.
ReadFinal ==
    /\ pc = "read"
    /\ pipe # <<>> /\ Head(pipe) = "final"
    /\ pipe' = Tail(pipe)
    /\ resp' = "final"
    /\ early' = ~complete
    /\ AfterRead
    /\ UNCHANGED <<kind, body, uploadVars, upstream, deadlines, interim, close, failure>>

\* The upstream is gone, its response is malformed (a final or an interim one),
\* or the upload has woken the read.
ReadFails ==
    /\ pc = "read"
    /\ (pipe = <<>> /\ upstream = "broken") \/ pipe # <<>> \/ upRead
    /\ failure' = "response"
    /\ AfterRead
    /\ UNCHANGED <<kind, body, uploadVars, upstreamVars, deadlines, interim, resp, close>>

-----------------------------------------------------------------------------
(* exchangeRequest around them.                                            *)

\* The synchronous path: the request is on the wire, or it is not.
SyncWritten ==
    /\ pc = "write"
    /\ written = "ok"
    /\ pc' = "read"
    /\ UNCHANGED <<kind, body, uploadVars, upstreamVars, deadlines, interim, result>>

SyncWriteFailed ==
    /\ pc = "write"
    /\ written = "err"
    /\ failure' = "request"
    /\ pc' = "done"
    /\ UNCHANGED <<kind, body, uploadVars, upstreamVars, deadlines, interim, resp, close>>

\* The upload has already reported.  A response survives a failed upload, but
\* the connection is not used again; without one the failed upload is the error.
Poll ==
    /\ pc = "poll"
    /\ written # "empty"
    /\ close' = (close \/ (resp = "final" /\ written = "err"))
    /\ failure' = IF resp = "none" /\ written = "err" THEN "request" ELSE failure
    /\ upRead' = FALSE
    /\ pc' = "done"
    /\ UNCHANGED <<kind, body, uploadVars, upstreamVars, clientRead, upWrite, interim, resp>>

CancelUpstreamOnly ==
    /\ pc = "poll"
    /\ written = "empty"
    /\ upWrite' = TRUE
    /\ pc' = "join"
    /\ UNCHANGED <<kind, body, uploadVars, upstreamVars, clientRead, upRead, interim, result>>

\* The upload is still running: both places where it may wait are woken.
CancelUpload ==
    /\ pc = "poll"
    /\ written = "empty"
    /\ clientRead' = TRUE
    /\ upWrite' = TRUE
    /\ pc' = "join"
    /\ UNCHANGED <<kind, body, uploadVars, upstreamVars, upRead, interim, result>>

JoinKeepingDeadlines ==
    /\ pc = "join"
    /\ written # "empty"
    /\ upRead' = FALSE
    /\ pc' = "done"
    /\ UNCHANGED <<kind, body, uploadVars, upstreamVars, clientRead, upWrite, interim, result>>

\* The upload has ended: completed after all, which clears the deadlines, or
\* cancelled, which leaves the error that caused the cancellation.  A response
\* is kept and marked as the last one of its connection.
Join ==
    /\ pc = "join"
    /\ written # "empty"
    /\ clientRead' = (written = "err")
    /\ upWrite' = (written = "err")
    /\ upRead' = FALSE
    /\ close' = (resp = "final")
    /\ pc' = "done"
    /\ UNCHANGED <<kind, body, uploadVars, upstreamVars, interim, resp, failure>>

-----------------------------------------------------------------------------
(* The two peers.                                                          *)

ClientSendsBody ==
    /\ body = "withheld"
    /\ body' = "sent"
    /\ UNCHANGED <<kind, uploadVars, upstreamVars, deadlines, pc, interim, result>>

ClientGoes ==
    /\ body # "gone"
    /\ body' = "gone"
    /\ UNCHANGED <<kind, uploadVars, upstreamVars, deadlines, pc, interim, result>>

UpstreamInterim ==
    /\ upload # "header"
    /\ upstream = "open"
    /\ interim < MaxInterim
    /\ interim' = interim + 1
    /\ pipe' = Append(pipe, "interim")
    /\ UNCHANGED <<kind, body, uploadVars, upstream, early, deadlines, pc, result>>

UpstreamFinal ==
    /\ upload # "header"
    /\ upstream = "open"
    /\ pipe' = Append(pipe, "final")
    /\ upstream' = "answered"
    /\ UNCHANGED <<kind, body, uploadVars, early, deadlines, pc, interim, result>>

UpstreamBreaks ==
    /\ upstream # "broken"
    /\ upstream' = "broken"
    /\ UNCHANGED <<kind, body, uploadVars, pipe, early, deadlines, pc, interim, result>>

Upload == UploadHeader \/ UploadCompletes \/ UploadFails \/ UploadReports
Read == ReadInterim \/ RelayFails \/ ReadFinal \/ ReadFails
Decide == SyncWritten \/ SyncWriteFailed \/ Poll \/ CancelUpload \/ Join
Peers == ClientSendsBody \/ ClientGoes \/ UpstreamInterim \/ UpstreamFinal \/ UpstreamBreaks

Next ==
    /\ pc # "done"
    /\ Upload \/ Read \/ Decide \/ Peers

Spec == Init /\ [][Next]_vars

\* The two goroutines are scheduled, and a read or write whose deadline has
\* passed returns.  The peers are under no obligation.
Fairness ==
    /\ WF_vars(pc # "done" /\ UploadHeader)
    /\ WF_vars(pc # "done" /\ UploadFails)
    /\ WF_vars(pc # "done" /\ UploadReports)
    /\ WF_vars(pc # "done" /\ Read)
    /\ WF_vars(pc # "done" /\ Decide)

FairSpec == Spec /\ Fairness

-----------------------------------------------------------------------------
\* The variables keep their types.
TypeOK ==
    /\ body \in {"withheld", "sent", "gone"}
    /\ upload \in {"header", "body", "failed", "finished"}
    /\ written \in {"empty", "ok", "err"}
    /\ upstream \in {"open", "answered", "broken"}
    /\ pc \in {"write", "read", "poll", "join", "done"}
    /\ expect \in BOOLEAN /\ http10 \in BOOLEAN
    /\ complete \in BOOLEAN /\ early \in BOOLEAN /\ close \in BOOLEAN
    /\ clientRead \in BOOLEAN /\ upWrite \in BOOLEAN /\ upRead \in BOOLEAN
    /\ interim \in 0..MaxInterim
    /\ pipe \in Seq({"interim", "final"})
    /\ resp \in {"none", "final"}
    /\ failure \in {"none", "request", "client", "response"}

\* What exchangeRequest leaves behind.  The upload has ended, so that the client
\* reader and the upstream connection have one user again.  The caller finds a
\* response or an error, never both and never neither: a final response that was
\* read is not traded for the failure of its upload.  The body of the response can
\* be read, and if the connections are to be used again then the whole request
\* went before it and no deadline stays armed on either.
ReturnIsClean ==
    pc = "done" =>
        /\ upload = "finished"
        /\ (resp = "final") # (failure # "none")
        /\ resp = "final" => ~upRead
        /\ resp = "final" /\ ~close => complete /\ ~clientRead /\ ~upWrite

\* exchangeRequest returns although the client never sends its body and the
\* upstream never reads it, once it has the final response or an error in hand; and
\* once the upload has failed, although the upstream says nothing.
ExchangeEnds ==
    /\ (pc = "poll") ~> (pc = "done")
    /\ (upload = "failed") ~> (pc = "done")

\* What the comment in exchangeRequest asks for (response.go:296-300): a response
\* that was read before its request was completely sent is the last one of its
\* connection.
EarlyResponseIsLast == expect /\ pc = "done" /\ resp = "final" /\ early => close
=============================================================================
