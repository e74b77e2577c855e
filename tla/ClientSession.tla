---------------------------- MODULE ClientSession ----------------------------
(***************************************************************************)
(* One client connection (internal/proxy/forward.go, direct.go,            *)
(* session.go): handleClientCtx, the keep-alive loop of run, the direct    *)
(* loop of forwardDirect inside it, and the goroutine that watches for     *)
(* shutdown.  The session and its watcher share mu, idle and the client    *)
(* connection; the context is cancelled by main at any moment.             *)
(*                                                                         *)
(* A request is a record of what the code looks at: its method, its host   *)
(* (canonical, as sameHost compares it), whether its Via names this proxy, *)
(* whether a CONNECT port is allowed, its Max-Forwards, whether it ends    *)
(* the connection (HTTP/1.0 or Connection: close), and whose               *)
(* Proxy-Authorization it carries.  Token acquisition, dialling, the       *)
(* exchange itself (exchangeRequest) and the tunnel are left open: each    *)
(* takes time and may fail.                                                *)
(***************************************************************************)
EXTENDS Naturals

CONSTANTS Requests,     \* the requests a client may send
          NoRequest,    \* no request has been read
          Hosts,        \* canonical host:port values
          NoHost,       \* no direct connection is open
          NoProxy,      \* the hosts -noproxy matches
          Restricted,   \* is -allowed-ips set
          MaxRequests   \* bound on the requests of one connection

NoLimit == 99  \* a request without a Max-Forwards count

\* Requests with a Proxy-Authorization from the set auths.
Records(auths) ==
    [method : {"GET", "OPTIONS", "CONNECT"}, host : Hosts, loops : BOOLEAN,
     portAllowed : BOOLEAN, hops : 0..NoLimit, close : BOOLEAN, auth : auths]

ASSUME SessionAssumption ==
    /\ Requests \subseteq Records({"none", "client"})
    /\ NoRequest \notin Records({"none", "client", "negotiate"})
    /\ NoHost \notin Hosts
    /\ NoProxy \subseteq Hosts
    /\ Restricted \in BOOLEAN
    /\ MaxRequests \in Nat

VARIABLES ctxDone,     \* the context is cancelled
          mu,          \* s.mu is held by the session
          idle,        \* s.idle
          conn,        \* s.conn
          watcher,     \* the shutdown watcher of handleClientCtx
          pc,          \* where the session is
          first,       \* iter = 0: no request of this connection has been served
          got,         \* what http.ReadRequest returned
          req,         \* the request being served, as rewritten so far
          original,    \* the same request as the client sent it
          proxyConn,   \* s.proxyConn
          target,      \* boundHost of the direct connection, NoHost if none is open
          via,         \* the connection the current exchange uses
          respClose,   \* resp.Close
          closeSent,   \* the client has been sent Connection: close
          spoiled,     \* connections on which an exchange was cut short or said to be the last
          reads        \* requests read so far

shutdownVars == <<ctxDone, mu, idle, conn, watcher>>
requestVars == <<got, req, original, reads>>
connVars == <<proxyConn, target, via, spoiled>>
vars == <<shutdownVars, requestVars, connVars, pc, first, respClose, closeSent>>

-----------------------------------------------------------------------------
(* The pieces of the handlers.                                             *)

\* The session ends: forwardDirect's deferred Close runs on the way out, and a
\* response the proxy writes itself carries Connection: close.
End(reply) ==
    /\ pc' = "cleanup"
    /\ target' = NoHost
    /\ closeSent' = (closeSent \/ reply)

\* sanitizeHopByHop and applyMaxForwards as they rewrite a request.
Sanitize(r) ==
    [r EXCEPT !.auth = "none",
              !.hops = IF r.method = "OPTIONS" /\ @ # NoLimit THEN @ - 1 ELSE @]

Rejected(r) == r.loops \/ (r.method = "CONNECT" /\ ~r.portAllowed)

AnsweredLocally(r) == r.method = "OPTIONS" /\ r.hops = 0

ConnectionWillClose == req.close \/ respClose

-----------------------------------------------------------------------------
Init ==
    /\ ctxDone \in BOOLEAN
    /\ mu = FALSE
    /\ idle = FALSE
    /\ conn = "open"
    /\ watcher = "none"
    /\ pc = "start"
    /\ first = TRUE
    /\ got = "none"
    /\ req = NoRequest
    /\ original = NoRequest
    /\ proxyConn = "nil"
    /\ target = NoHost
    /\ via = "none"
    /\ respClose = FALSE
    /\ closeSent = FALSE
    /\ spoiled = {}
    /\ reads = 0

\* The IP allowlist denies the client: it gets errClientDenied.
Deny ==
    /\ pc = "start"
    /\ Restricted
    /\ End(TRUE)
    /\ UNCHANGED <<shutdownVars, requestVars, proxyConn, via, spoiled, first, respClose>>

\* handleClientCtx starts the watcher and calls run.
Start ==
    /\ pc = "start"
    /\ watcher' = "waiting"
    /\ pc' = "lock"
    /\ UNCHANGED <<ctxDone, mu, idle, conn, requestVars, connVars, first, respClose, closeSent>>

-----------------------------------------------------------------------------
(* readRequest, called by run and, on a direct connection, by              *)
(* nextDirectRequest.                                                      *)

ReadAfterShutdownKeepsMu ==
    /\ pc = "lock"
    /\ ctxDone
    /\ mu' = TRUE
    /\ End(FALSE)
    /\ UNCHANGED <<ctxDone, idle, conn, watcher, requestVars, proxyConn, via, spoiled, first, respClose>>

\* Under mu, which is released again: shutdown has begun, so nothing is read.
ReadAfterShutdown ==
    /\ pc = "lock"
    /\ ctxDone
    /\ End(FALSE)
    /\ UNCHANGED <<shutdownVars, requestVars, proxyConn, via, spoiled, first, respClose>>

ReadCheckUnlocked ==
    /\ pc = "lock"
    /\ ~ctxDone
    /\ pc' = "markIdle"
    /\ UNCHANGED <<shutdownVars, requestVars, connVars, first, respClose, closeSent>>

\* Under mu: the context is still alive.
ReadCheck ==
    /\ pc = "lock"
    /\ ~ctxDone
    /\ mu' = TRUE
    /\ pc' = "markIdle"
    /\ UNCHANGED <<ctxDone, idle, conn, watcher, requestVars, connVars, first, respClose, closeSent>>

ReadIdle ==
    /\ pc = "markIdle"
    /\ idle' = TRUE
    /\ mu' = FALSE
    /\ pc' = "reading"
    /\ UNCHANGED <<ctxDone, conn, watcher, requestVars, connVars, first, respClose, closeSent>>

\* http.ReadRequest returns a request, from the connection or from what reqReader
\* has buffered.
ReadGets(r) ==
    /\ pc = "reading"
    /\ reads < MaxRequests
    /\ got' = "request"
    /\ req' = r
    /\ original' = r
    /\ reads' = reads + 1
    /\ pc' = "markBusy"
    /\ UNCHANGED <<shutdownVars, connVars, first, respClose, closeSent>>

\* http.ReadRequest fails: the connection was closed or reset, or else the
\* request is malformed or late.
ReadFails(closing) ==
    /\ pc = "reading"
    /\ conn = "closed" => closing
    /\ got' = IF closing THEN "closed" ELSE "malformed"
    /\ pc' = "markBusy"
    /\ UNCHANGED <<shutdownVars, req, original, reads, connVars, first, respClose, closeSent>>

ReadBusy ==
    /\ pc = "markBusy"
    /\ ~mu
    /\ idle' = FALSE
    /\ pc' = "readDone"
    /\ UNCHANGED <<ctxDone, mu, conn, watcher, requestVars, connVars, first, respClose, closeSent>>

\* readRequest returns errSessionShutdown, or the error of the read; the first
\* request of a connection is answered with a 400 when it is malformed.
ReadGivesUp ==
    /\ pc = "readDone"
    /\ ctxDone \/ got # "request"
    /\ End(~ctxDone /\ got = "malformed" /\ first)
    /\ UNCHANGED <<shutdownVars, requestVars, proxyConn, via, spoiled, first, respClose>>

ReadReturnsAnyway ==
    /\ pc = "readDone"
    /\ got = "request"
    /\ target' = IF req.host = target THEN target ELSE NoHost
    /\ pc' = "validate"
    /\ UNCHANGED <<shutdownVars, requestVars, proxyConn, via, spoiled, first, respClose, closeSent>>

ReadReturnsValidated ==
    /\ pc = "readDone"
    /\ ~ctxDone
    /\ got = "request"
    /\ target' = IF req.host = target THEN target ELSE NoHost
    /\ req' = IF target = NoHost \/ req.host = target THEN req ELSE Sanitize(req)
    /\ pc' = "validate"
    /\ UNCHANGED <<shutdownVars, got, original, reads, proxyConn, via, spoiled, first, respClose, closeSent>>

ReadReturnsKeepingTarget ==
    /\ pc = "readDone"
    /\ ~ctxDone
    /\ got = "request"
    /\ pc' = "validate"
    /\ UNCHANGED <<shutdownVars, requestVars, connVars, first, respClose, closeSent>>

\* readRequest returns the request.  A direct connection bound to another host is
\* closed and the request goes back to run as pending, before it is validated.
ReadReturns ==
    /\ pc = "readDone"
    /\ ~ctxDone
    /\ got = "request"
    /\ target' = IF req.host = target THEN target ELSE NoHost
    /\ pc' = "validate"
    /\ UNCHANGED <<shutdownVars, requestVars, proxyConn, via, spoiled, first, respClose, closeSent>>

-----------------------------------------------------------------------------
(* validateRequest and routeRequest.                                       *)

\* A loop, a forbidden port, or Max-Forwards: 0: the proxy answers itself.
ValidateRefuses ==
    /\ pc = "validate"
    /\ Rejected(req) \/ AnsweredLocally(req)
    /\ End(TRUE)
    /\ UNCHANGED <<shutdownVars, requestVars, proxyConn, via, spoiled, first, respClose>>

ValidateRequestAnyHops ==
    /\ pc = "validate"
    /\ ~Rejected(req)
    /\ req' = Sanitize(req)
    /\ pc' = "route"
    /\ UNCHANGED <<shutdownVars, got, original, reads, connVars, first, respClose, closeSent>>

ValidateRequest ==
    /\ pc = "validate"
    /\ ~Rejected(req)
    /\ ~AnsweredLocally(req)
    /\ req' = Sanitize(req)
    /\ pc' = "route"
    /\ UNCHANGED <<shutdownVars, got, original, reads, connVars, first, respClose, closeSent>>

\* The request goes out on connection c.
Admit(c) ==
    /\ via' = c
    /\ pc' = IF c = "tunnel" THEN "tunnel" ELSE "exchange"

\* nextDirectRequest: the request is for the host of the open direct connection.
RouteBound ==
    /\ pc = "route"
    /\ target # NoHost
    /\ req.method # "CONNECT"
    /\ Admit("direct")
    /\ UNCHANGED <<shutdownVars, requestVars, proxyConn, target, spoiled, first, respClose, closeSent>>

\* A CONNECT cannot tunnel on the direct connection: errMismatchedTarget.
RouteMismatch ==
    /\ pc = "route"
    /\ target # NoHost
    /\ req.method = "CONNECT"
    /\ End(TRUE)
    /\ UNCHANGED <<shutdownVars, requestVars, proxyConn, via, spoiled, first, respClose>>

\* forwardDirect dials the host and binds the connection to it.
RouteDirect ==
    /\ pc = "route"
    /\ target = NoHost
    /\ req.host \in NoProxy
    /\ req.method # "CONNECT"
    /\ Admit("direct")
    /\ target' = req.host
    /\ spoiled' = spoiled \ {"direct"}
    /\ UNCHANGED <<shutdownVars, requestVars, proxyConn, first, respClose, closeSent>>

\* relayViaUpstream on a new connection: dialAndAuthUpstream puts the token on
\* the request that opens it.
RouteFirstUpstream ==
    /\ pc = "route"
    /\ target = NoHost
    /\ req.host \notin NoProxy
    /\ req.method # "CONNECT"
    /\ proxyConn = "nil"
    /\ proxyConn' = "open"
    /\ req' = [req EXCEPT !.auth = "negotiate"]
    /\ Admit("upstream")
    /\ UNCHANGED <<shutdownVars, got, original, reads, target, spoiled, first, respClose, closeSent>>

\* relayViaUpstream on the connection that is already authenticated.
RouteUpstream ==
    /\ pc = "route"
    /\ target = NoHost
    /\ req.host \notin NoProxy
    /\ req.method # "CONNECT"
    /\ proxyConn = "open"
    /\ Admit("upstream")
    /\ UNCHANGED <<shutdownVars, requestVars, proxyConn, target, spoiled, first, respClose, closeSent>>

\* tunnelDirect and tunnelViaUpstream open a connection of their own; only the
\* upstream one carries the token.
RouteTunnel ==
    /\ pc = "route"
    /\ target = NoHost
    /\ req.method = "CONNECT"
    /\ req' = IF req.host \in NoProxy THEN req ELSE [req EXCEPT !.auth = "negotiate"]
    /\ Admit("tunnel")
    /\ UNCHANGED <<shutdownVars, got, original, reads, proxyConn, target, spoiled, first, respClose, closeSent>>

\* GetToken or the dial fails, and the client is told so.
RouteFails ==
    /\ pc = "route"
    /\ target = NoHost
    /\ req.method = "CONNECT" \/ req.host \in NoProxy \/ proxyConn = "nil"
    /\ End(TRUE)
    /\ UNCHANGED <<shutdownVars, requestVars, proxyConn, via, spoiled, first, respClose>>

-----------------------------------------------------------------------------
(* The exchange (relayViaUpstream, relayDirect) and writeResponse.         *)

\* exchangeRequest returns a final response, which may announce a close.
ExchangeReturns(close) ==
    /\ pc = "exchange"
    /\ respClose' = close
    /\ spoiled' = IF close THEN spoiled \cup {via} ELSE spoiled
    /\ pc' = "respond"
    /\ UNCHANGED <<shutdownVars, requestVars, proxyConn, target, via, first, closeSent>>

\* exchangeRequest fails.  A request that could not be written, and a response
\* the upstream proxy cut short, are answered with a 502; a client that is gone,
\* and a direct response that could not be read, are not.
ExchangeFails(error) ==
    /\ pc = "exchange"
    /\ spoiled' = spoiled \cup {via}
    /\ End(error = "request" \/ (error = "response" /\ via = "upstream"))
    /\ UNCHANGED <<shutdownVars, requestVars, proxyConn, via, first, respClose>>

\* writeResponse looks at the context once, before it serialises.
WriteResponseChecks ==
    /\ pc = "respond"
    /\ respClose' = (respClose \/ ctxDone)
    /\ pc' = "write"
    /\ UNCHANGED <<shutdownVars, requestVars, connVars, first, closeSent>>

\* The response reached the client; the session goes on unless a side closes.
WriteResponse ==
    /\ pc = "write"
    /\ first' = FALSE
    /\ IF ConnectionWillClose
       THEN End(respClose)
       ELSE /\ pc' = "lock"
            /\ target' = target
            /\ closeSent' = (closeSent \/ respClose)
    /\ UNCHANGED <<shutdownVars, requestVars, proxyConn, via, spoiled, respClose>>

WriteResponseFailsQuietly ==
    /\ pc = "write"
    /\ spoiled' = spoiled \cup {via, "client"}
    /\ pc' = "lock"
    /\ UNCHANGED <<shutdownVars, requestVars, proxyConn, target, via, first, respClose, closeSent>>

\* Response.Write failed part-way: neither stream can be used again.
WriteResponseFails ==
    /\ pc = "write"
    /\ spoiled' = spoiled \cup {via, "client"}
    /\ End(FALSE)
    /\ UNCHANGED <<shutdownVars, requestVars, proxyConn, via, first, respClose>>

\* The tunnel has run to its end, or was not established and the client may have
\* been told so; its connection is closed.
TunnelEnds(reply) ==
    /\ pc = "tunnel"
    /\ End(reply)
    /\ UNCHANGED <<shutdownVars, requestVars, proxyConn, via, spoiled, first, respClose>>

\* The deferred calls of handleClientCtx.
Cleanup ==
    /\ pc = "cleanup"
    /\ proxyConn' = IF proxyConn = "open" THEN "closed" ELSE proxyConn
    /\ conn' = "closed"
    /\ pc' = "done"
    /\ UNCHANGED <<ctxDone, mu, idle, watcher, requestVars, target, via, spoiled, first, respClose, closeSent>>

-----------------------------------------------------------------------------
(* The watcher, and the context.                                           *)

WatcherWakes ==
    /\ watcher = "waiting"
    /\ ctxDone
    /\ watcher' = "closing"
    /\ UNCHANGED <<ctxDone, mu, idle, conn, requestVars, connVars, pc, first, respClose, closeSent>>

\* The session is over and has closed stopWatch.
WatcherStops ==
    /\ watcher = "waiting"
    /\ pc = "done"
    /\ watcher' = "done"
    /\ UNCHANGED <<ctxDone, mu, idle, conn, requestVars, connVars, pc, first, respClose, closeSent>>

BeginShutdownBusyOnly ==
    /\ watcher = "closing"
    /\ ~mu
    /\ watcher' = "done"
    /\ conn' = IF idle THEN conn ELSE "closed"
    /\ UNCHANGED <<ctxDone, mu, idle, requestVars, connVars, pc, first, respClose, closeSent>>

BeginShutdown ==
    /\ watcher = "closing"
    /\ ~mu
    /\ watcher' = "done"
    /\ conn' = IF idle THEN "closed" ELSE conn
    /\ UNCHANGED <<ctxDone, mu, idle, requestVars, connVars, pc, first, respClose, closeSent>>

\* main cancels the context on SIGINT or SIGTERM.
Cancel ==
    /\ ~ctxDone
    /\ ctxDone' = TRUE
    /\ UNCHANGED <<mu, idle, conn, watcher, requestVars, connVars, pc, first, respClose, closeSent>>

Read ==
    \/ ReadAfterShutdown
    \/ ReadCheck
    \/ ReadIdle
    \/ ReadBusy
    \/ ReadGivesUp
    \/ ReadReturns

Route ==
    \/ RouteBound
    \/ RouteMismatch
    \/ RouteDirect
    \/ RouteFirstUpstream
    \/ RouteUpstream
    \/ RouteTunnel
    \/ RouteFails

Exchange ==
    \/ \E close \in BOOLEAN : ExchangeReturns(close)
    \/ \E error \in {"request", "client", "response"} : ExchangeFails(error)

Write ==
    \/ WriteResponseChecks
    \/ WriteResponse
    \/ WriteResponseFails

Client ==
    \/ \E r \in Requests : ReadGets(r)
    \/ \E closing \in BOOLEAN : ReadFails(closing)

Watcher ==
    \/ WatcherWakes
    \/ WatcherStops
    \/ BeginShutdown

Next ==
    \/ Deny
    \/ Start
    \/ Client
    \/ Read
    \/ ValidateRefuses
    \/ ValidateRequest
    \/ Route
    \/ Exchange
    \/ Write
    \/ \E reply \in BOOLEAN : TunnelEnds(reply)
    \/ Cleanup
    \/ Watcher
    \/ Cancel

Spec == Init /\ [][Next]_vars

\* The goroutines of the proxy are scheduled, and a read on a closed connection
\* returns.  Nothing is assumed of the client, of its read timeout, of the peers
\* of an exchange, or of a tunnel.
Fairness ==
    /\ WF_vars(Read)
    /\ WF_vars(conn = "closed" /\ ReadFails(TRUE))
    /\ WF_vars(Cleanup)
    /\ WF_vars(Watcher)

FairSpec == Spec /\ Fairness

-----------------------------------------------------------------------------
Reading == {"lock", "markIdle", "reading", "markBusy", "readDone"}
Serving == {"validate", "route", "exchange", "respond", "write", "tunnel"}

\* The variables keep their types; in particular a forwarded Max-Forwards never
\* drops below zero.
TypeOK ==
    /\ ctxDone \in BOOLEAN
    /\ mu \in BOOLEAN
    /\ idle \in BOOLEAN
    /\ conn \in {"open", "closed"}
    /\ watcher \in {"none", "waiting", "closing", "done"}
    /\ pc \in Reading \cup Serving \cup {"start", "cleanup", "done"}
    /\ first \in BOOLEAN
    /\ got \in {"none", "request", "closed", "malformed"}
    /\ original \in Requests \cup {NoRequest}
    /\ (req = NoRequest) = (original = NoRequest)
    /\ req \in Records({"none", "client", "negotiate"}) \cup {NoRequest}
    /\ proxyConn \in {"nil", "open", "closed"}
    /\ target \in Hosts \cup {NoHost}
    /\ via \in {"none", "upstream", "direct", "tunnel"}
    /\ respClose \in BOOLEAN
    /\ closeSent \in BOOLEAN
    /\ spoiled \subseteq {"upstream", "direct", "client"}
    /\ reads \in 0..MaxRequests

\* No wake-up is lost: once the watcher has run beginShutdown, a session that is
\* blocked in http.ReadRequest (readRequest) reads from a closed connection, so
\* an idle client cannot hold the drain for its read timeout.
ShutdownWakesReader == ctxDone /\ watcher = "done" /\ pc = "reading" => conn = "closed"

\* Every request goes out where the routing policy sends its host: on the direct
\* connection dialled for that very host, or on the upstream connection for a
\* host -noproxy does not match, even when the host changes between the requests
\* of one client connection.
PolicyRouting ==
    pc = "exchange" =>
        IF req.host \in NoProxy
        THEN via = "direct" /\ target = req.host
        ELSE via = "upstream" /\ proxyConn = "open" /\ target = NoHost

\* What is sent has been through validateRequest exactly once, rerouted or not:
\* Max-Forwards is one less than the client's, and the client's own
\* Proxy-Authorization is gone.  The SPNEGO token is on it only towards the
\* upstream proxy.
ValidatedOnce ==
    pc \in {"exchange", "tunnel"} =>
        /\ req.hops = IF original.method = "OPTIONS" /\ original.hops # NoLimit
                      THEN original.hops - 1 ELSE original.hops
        /\ req.auth # "client"
        /\ req.auth = "negotiate" => req.host \notin NoProxy
        /\ ~Rejected(original)

\* An upstream or direct connection carries another request only if every earlier
\* exchange on it ran to its end and announced no close, and the client another
\* only if its responses did: a cut-off body is never followed by a response.
NoReuseAfterFailure ==
    /\ pc = "exchange" => via \notin spoiled
    /\ pc \in Reading => "client" \notin spoiled

\* The session as module Serve sees it.
Stage == IF pc = "done" THEN "ended" ELSE IF pc \in Serving THEN "busy" ELSE "idle"

Life == INSTANCE SessionLife WITH life <- Stage, open <- conn = "open", told <- closeSent

\* handleClientCtx implements SessionLife: a request that was read after the
\* cancellation, or buffered before it, is never taken up, whichever loop reads it;
\* none is after the client was told Connection: close; and the watcher closes the
\* connection under an idle session only.
ImplementsSessionLife == Life!Spec

\* The watcher goroutine of handleClientCtx ends with the session or with the
\* shutdown, whichever comes first: stopWatch or the context wakes it, and no path
\* through readRequest leaves mu locked for beginShutdown to wait on, while the
\* session is busy or after it is over.
WatcherEnds == (watcher = "waiting" /\ (ctxDone \/ pc = "done")) ~> (watcher = "done")

\* A session that waits for a request when shutdown begins, or comes back to wait
\* for one, ends without the client doing anything.
ShutdownEndsIdleSession == (ctxDone /\ pc \in Reading) ~> (pc = "done")
=============================================================================
