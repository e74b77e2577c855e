------------------------------ MODULE Establish ------------------------------
(***************************************************************************)
(* How a request gets its connection (dialAndAuthUpstream and              *)
(* tunnelViaUpstream in internal/proxy/forward.go, dialUpstream in         *)
(* dial.go, dialDirect and tunnelDirect in direct.go) and how a CONNECT    *)
(* becomes a tunnel (handleConnectTunnel in connect.go).  The token, the   *)
(* dial, the TLS handshake, the CONNECT request and its answer each may    *)
(* fail or never come, and the client may go away at any point.  Where the *)
(* token comes from is left to the module that composes this one.          *)
(***************************************************************************)
EXTENDS Naturals, Sequences

CONSTANT MaxInterim   \* bound on the 1xx answers to a CONNECT

\* What is asked for and configured.  A TLS connection is only made upstream.
Setups == [method : {"GET", "CONNECT"}, direct : BOOLEAN, tls : BOOLEAN,
           dialTimeout : BOOLEAN, http10 : BOOLEAN]

VARIABLES setup,    \* the request and the configuration
          pc,
          timer,    \* the dial timeout
          raw,      \* the TCP connection to the upstream proxy or the target
          auth,     \* the token is on the request
          gone,     \* the client has gone away
          granted,  \* the other side has agreed to the tunnel
          replies,  \* final answers written to the client
          interim   \* 1xx answers read

vars == <<setup, pc, timer, raw, auth, gone, granted, replies, interim>>

Init ==
    /\ setup \in Setups
    /\ setup.direct => ~setup.tls
    /\ pc = IF setup.direct THEN "start" ELSE "token"
    /\ timer = "off"
    /\ raw = "none"
    /\ auth = FALSE
    /\ gone = FALSE
    /\ granted = FALSE
    /\ replies = <<>>
    /\ interim = 0

\* The handler returns after it has written reply, if any; its deferred Close runs.
\* The connection of a GET outlives the handler only when it was established.
Return(reply) ==
    /\ pc' = "over"
    /\ replies' = replies \o reply
    /\ raw' = IF raw = "open" THEN "closed" ELSE raw
    /\ timer' = "off"

-----------------------------------------------------------------------------
\* GetToken, and tokenErrorToProxyError.
GetToken ==
    /\ pc = "token"
    /\ auth' = TRUE
    /\ pc' = "start"
    /\ UNCHANGED <<setup, timer, raw, gone, granted, replies, interim>>

TokenErrorToProxyError(err) ==
    CASE err = "CircuitBreakerError" -> "errCircuitBreakerOpen"
      [] err = "CredentialError" -> "errCredentialFailure"
      [] err = "NegotiationError" -> "errNegotiationFailure"
      [] OTHER -> "errTokenAcquisition"

GetTokenFails(err) ==
    /\ pc = "token"
    /\ Return(<<TokenErrorToProxyError(err)>>)
    /\ UNCHANGED <<setup, auth, gone, granted, interim>>

-----------------------------------------------------------------------------
(* dialUpstream and dialDirect.  The timeout starts with the dial; for TLS *)
(* the same context goes on to cover the handshake.                        *)

Dial ==
    /\ pc = "start"
    /\ timer' = IF setup.dialTimeout THEN "running" ELSE "off"
    /\ pc' = "dial"
    /\ UNCHANGED <<setup, raw, auth, gone, granted, replies, interim>>

TimerExpires ==
    /\ timer = "running"
    /\ timer' = "expired"
    /\ UNCHANGED <<setup, pc, raw, auth, gone, granted, replies, interim>>

\* The connection is there.  A direct CONNECT is answered at once.
Opened ==
    /\ timer' = "off"
    /\ granted' = setup.direct
    /\ pc' = CASE setup.method = "GET" -> "ready"
               [] setup.method = "CONNECT" /\ setup.direct -> "confirm"
               [] OTHER -> "request"

ConnectedUnbounded ==
    /\ pc = "dial"
    /\ raw' = "open"
    /\ IF setup.tls THEN pc' = "handshake" /\ timer' = "off" /\ UNCHANGED granted ELSE Opened
    /\ UNCHANGED <<setup, auth, gone, replies, interim>>

Connected ==
    /\ pc = "dial"
    /\ raw' = "open"
    /\ IF setup.tls THEN pc' = "handshake" /\ UNCHANGED <<timer, granted>> ELSE Opened
    /\ UNCHANGED <<setup, auth, gone, replies, interim>>

HandshakeDone ==
    /\ pc = "handshake"
    /\ Opened
    /\ UNCHANGED <<setup, raw, auth, gone, replies, interim>>

\* handleDialError: the dial or the handshake ran into a timeout (the proxy's own,
\* or the kernel's), or failed otherwise.
HandleDialError(err) == IF err = "timeout" THEN "errConnectionTimeout" ELSE "errConnectionRefused"

DialFails(err) ==
    /\ pc = "dial"
    /\ timer = "expired" => err = "timeout"
    /\ Return(<<HandleDialError(err)>>)
    /\ UNCHANGED <<setup, auth, gone, granted, interim>>

HandshakeFailsKeepingRaw(err) ==
    /\ pc = "handshake"
    /\ timer = "expired" => err = "timeout"
    /\ pc' = "over"
    /\ replies' = replies \o <<HandleDialError(err)>>
    /\ timer' = "off"
    /\ UNCHANGED <<setup, raw, auth, gone, granted, interim>>

\* raw.Close() before dialUpstream returns the error
HandshakeFails(err) ==
    /\ pc = "handshake"
    /\ timer = "expired" => err = "timeout"
    /\ Return(<<HandleDialError(err)>>)
    /\ UNCHANGED <<setup, auth, gone, granted, interim>>

-----------------------------------------------------------------------------
(* tunnelViaUpstream and handleConnectTunnel.                              *)

WriteProxy ==
    /\ pc = "request"
    /\ pc' = "response"
    /\ UNCHANGED <<setup, timer, raw, auth, gone, granted, replies, interim>>

WriteProxyFails ==
    /\ pc = "request"
    /\ Return(<<"errConnectionTerminated">>)
    /\ UNCHANGED <<setup, auth, gone, granted, interim>>

\* readThroughInterim: a 1xx answer is relayed, or dropped for HTTP/1.0.
ReadInterim ==
    /\ pc = "response"
    /\ interim < MaxInterim
    /\ interim' = interim + 1
    /\ \/ gone /\ ~setup.http10 /\ Return(<<>>)
       \/ UNCHANGED <<pc, timer, raw, replies>>
    /\ UNCHANGED <<setup, auth, gone, granted>>

\* handleUpstreamResponseError
ReadFails(reply) ==
    /\ pc = "response"
    /\ Return(<<reply>>)
    /\ UNCHANGED <<setup, auth, gone, granted, interim>>

\* The upstream's own rejection is relayed, and ends the session.
Rejected ==
    /\ pc = "response"
    /\ Return(<<"upstream">>)
    /\ UNCHANGED <<setup, auth, gone, granted, interim>>

Accepted ==
    /\ pc = "response"
    /\ granted' = TRUE
    /\ pc' = "confirm"
    /\ UNCHANGED <<setup, timer, raw, auth, gone, replies, interim>>

\* writeConnectOK, and then forwardTunnel
WriteConnectOK ==
    /\ pc = "confirm"
    /\ replies' = Append(replies, "2xx")
    /\ pc' = "tunnel"
    /\ UNCHANGED <<setup, timer, raw, auth, gone, granted, interim>>

WriteConnectOKFails ==
    /\ pc = "confirm"
    /\ gone
    /\ Return(<<>>)
    /\ UNCHANGED <<setup, auth, gone, granted, interim>>

TunnelEnds ==
    /\ pc = "tunnel"
    /\ Return(<<>>)
    /\ UNCHANGED <<setup, auth, gone, granted, interim>>

ClientGoes ==
    /\ ~gone
    /\ gone' = TRUE
    /\ UNCHANGED <<setup, pc, timer, raw, auth, granted, replies, interim>>

-----------------------------------------------------------------------------
ResponseErrors == {"errInvalidContentLength", "errMalformedResponseHeader", "errUnparseableResponse"}

FailedDial == \E err \in {"timeout", "refused"} : DialFails(err) \/ HandshakeFails(err)

\* Every step but those of the token.
Connecting ==
    \/ Dial
    \/ TimerExpires
    \/ Connected
    \/ HandshakeDone
    \/ FailedDial
    \/ WriteProxy
    \/ WriteProxyFails
    \/ ReadInterim
    \/ \E reply \in ResponseErrors : ReadFails(reply)
    \/ Rejected
    \/ Accepted
    \/ WriteConnectOK
    \/ WriteConnectOKFails
    \/ TunnelEnds
    \/ ClientGoes
=============================================================================
