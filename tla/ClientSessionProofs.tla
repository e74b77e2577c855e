------------------------- MODULE ClientSessionProofs -------------------------
(***************************************************************************)
(* Proofs about ClientSession, for any set of requests and hosts and any   *)
(* number of requests on the connection.                                   *)
(***************************************************************************)
EXTENDS ClientSession, TLAPS

\* Where the session and the watcher stand to each other: mu is held between the
\* check of the context and idle = true, so a watcher that is past beginShutdown
\* has either been seen by that check or has seen idle.
ShutdownInv ==
    /\ mu \in BOOLEAN /\ idle \in BOOLEAN /\ ctxDone \in BOOLEAN
    /\ mu <=> pc = "markIdle"
    /\ idle <=> pc \in {"reading", "markBusy"}
    /\ watcher \in {"closing", "done"} /\ pc # "done" => ctxDone
    /\ pc = "markIdle" => watcher # "done"
    /\ conn \in {"open", "closed"}
    /\ conn = "closed" /\ pc # "done" => ctxDone

\* What the session has said when it ends.
EndInv ==
    /\ pc \in Reading \cup Serving \cup {"start", "cleanup", "done"}
    /\ closeSent \in BOOLEAN
    /\ closeSent => pc \in {"cleanup", "done"}

IInv == ShutdownInv /\ EndInv /\ ShutdownWakesReader

LEMMA InitIInv == Init => IInv
  BY Zenon DEF Init, IInv, ShutdownInv, EndInv, ShutdownWakesReader, Reading, Serving

\* The steps of the session between two reads, which touch nothing that the
\* watcher looks at.
SessionStep ==
    \/ Deny \/ ReadAfterShutdown \/ ReadGivesUp \/ ReadReturns
    \/ ValidateRefuses \/ ValidateRequest \/ Route \/ Exchange \/ Write
    \/ \E reply \in BOOLEAN : TunnelEnds(reply)

LEMMA SessionStepShape ==
  ASSUME SessionStep, EndInv
  PROVE  /\ UNCHANGED shutdownVars
         /\ pc \in {"start", "lock", "readDone"} \cup Serving
         /\ \/ pc' = "cleanup" /\ target' = NoHost /\ closeSent' \in BOOLEAN
            \/ pc' \in Serving /\ closeSent' = closeSent
            \/ pc' = "lock" /\ pc = "write" /\ closeSent' \in BOOLEAN /\ (closeSent' => closeSent)
         /\ pc = "lock" => pc' = "cleanup"
         /\ pc' \in Serving /\ pc \notin Serving => pc = "readDone" /\ ~ctxDone
<1> USE DEF EndInv, Serving
<1>1. CASE Deny
  BY <1>1 DEF Deny, End
<1>2. CASE ReadAfterShutdown
  BY <1>2 DEF ReadAfterShutdown, End
<1>3. CASE ReadGivesUp
  BY <1>3 DEF ReadGivesUp, End
<1>4. CASE ReadReturns
  BY <1>4 DEF ReadReturns
<1>5. CASE ValidateRefuses
  BY <1>5 DEF ValidateRefuses, End
<1>6. CASE ValidateRequest
  BY <1>6 DEF ValidateRequest
<1>7. CASE Route
  <2>1. CASE RouteBound \/ RouteDirect
    BY <2>1 DEF RouteBound, RouteDirect, Admit
  <2>2. CASE RouteFirstUpstream \/ RouteUpstream
    BY <2>2 DEF RouteFirstUpstream, RouteUpstream, Admit
  <2>3. CASE RouteTunnel
    BY <2>3 DEF RouteTunnel, Admit
  <2>4. CASE RouteMismatch \/ RouteFails
    BY <2>4, Zenon DEF RouteMismatch, RouteFails, End
  <2> QED
    BY <1>7, <2>1, <2>2, <2>3, <2>4 DEF Route
<1>8. CASE Exchange
  <2>1. ASSUME NEW close \in BOOLEAN, ExchangeReturns(close)
        PROVE UNCHANGED <<shutdownVars, closeSent>> /\ pc = "exchange" /\ pc' = "respond"
    BY <2>1 DEF ExchangeReturns
  <2>2. ASSUME NEW error \in {"request", "client", "response"}, ExchangeFails(error)
        PROVE /\ UNCHANGED shutdownVars /\ pc = "exchange" /\ pc' = "cleanup"
              /\ target' = NoHost /\ closeSent' \in BOOLEAN
    BY <2>2 DEF ExchangeFails, End
  <2> QED
    BY <1>8, <2>1, <2>2 DEF Exchange
<1>9. CASE Write
  <2>1. CASE WriteResponseChecks
    BY <2>1 DEF WriteResponseChecks
  <2>2. CASE WriteResponse
    BY <2>2, Zenon DEF WriteResponse, End, ConnectionWillClose
  <2>3. CASE WriteResponseFails
    BY <2>3 DEF WriteResponseFails, End
  <2> QED
    BY <1>9, <2>1, <2>2, <2>3 DEF Write
<1>10. ASSUME NEW reply \in BOOLEAN, TunnelEnds(reply)
       PROVE /\ UNCHANGED shutdownVars /\ pc = "tunnel" /\ pc' = "cleanup"
             /\ target' = NoHost /\ closeSent' \in BOOLEAN
  BY <1>10 DEF TunnelEnds, End
<1> QED
  BY <1>1, <1>2, <1>3, <1>4, <1>5, <1>6, <1>7, <1>8, <1>9, <1>10 DEF SessionStep

\* The steps of readRequest and of the client inside it.
ReadStep ==
    \/ Start \/ ReadCheck \/ ReadIdle \/ ReadBusy
    \/ \E r \in Requests : ReadGets(r)
    \/ \E closing \in BOOLEAN : ReadFails(closing)

LEMMA NextSplit == Next => SessionStep \/ ReadStep \/ Cleanup \/ Watcher \/ Cancel
  BY DEF Next, SessionStep, ReadStep, Client, Read

LEMMA NextIInv == IInv /\ [Next]_vars => IInv'
<1> SUFFICES ASSUME IInv, [Next]_vars PROVE IInv'
  OBVIOUS
<1> USE DEF IInv, ShutdownInv, EndInv, ShutdownWakesReader
<1>1. CASE SessionStep
  <2>1. EndInv'
    BY <1>1, SessionStepShape DEF Reading, Serving, shutdownVars
  <2>2. ShutdownInv' /\ ShutdownWakesReader'
    BY <1>1, SessionStepShape DEF Reading, Serving, shutdownVars
  <2> QED
    BY <2>1, <2>2
<1>2. CASE ReadStep
  <2> USE DEF Reading, Serving
  <2>1. CASE Start
    BY <2>1 DEF Start
  <2>2. CASE ReadCheck
    BY <2>2 DEF ReadCheck
  <2>3. CASE ReadIdle
    BY <2>3, Zenon DEF ReadIdle
  <2>4. CASE ReadBusy
    BY <2>4, Zenon DEF ReadBusy
  <2>5. ASSUME NEW r \in Requests, ReadGets(r) PROVE IInv'
    BY <2>5 DEF ReadGets, shutdownVars, connVars
  <2>6. ASSUME NEW closing \in BOOLEAN, ReadFails(closing) PROVE IInv'
    BY <2>6 DEF ReadFails, shutdownVars, connVars
  <2> QED
    BY <1>2, <2>1, <2>2, <2>3, <2>4, <2>5, <2>6 DEF ReadStep
<1>3. CASE Cleanup
  BY <1>3 DEF Cleanup, Reading, Serving
<1>4. CASE Watcher
  <2>1. UNCHANGED <<pc, ctxDone, mu, idle, closeSent, target, proxyConn>>
    BY <1>4 DEF Watcher, WatcherWakes, WatcherStops, BeginShutdown, connVars
  <2>2. CASE WatcherWakes
    BY <2>1, <2>2 DEF WatcherWakes
  <2>3. CASE WatcherStops
    BY <2>1, <2>3 DEF WatcherStops
  <2>4. CASE BeginShutdown
    BY <2>1, <2>4 DEF BeginShutdown
  <2> QED
    BY <1>4, <2>2, <2>3, <2>4 DEF Watcher
<1>5. CASE Cancel
  BY <1>5 DEF Cancel, connVars
<1>6. CASE UNCHANGED vars
  BY <1>6 DEF vars, shutdownVars, connVars
<1> QED
  BY <1>1, <1>2, <1>3, <1>4, <1>5, <1>6, NextSplit

\* No wake-up is lost between readRequest and beginShutdown (forward.go:285-315).
THEOREM NoLostWakeUp == Spec => []ShutdownWakesReader
<1>1. IInv => ShutdownWakesReader
  BY DEF IInv
<1> QED
  BY <1>1, InitIInv, NextIInv, PTL DEF Spec

-----------------------------------------------------------------------------
(* The refinement of SessionLife.                                          *)

LEMMA InitRefines == Init => Life!Init
  BY DEF Init, Life!Init, Stage, Serving

LEMMA NextRefines == IInv /\ [Next]_vars => [Life!Next]_(Life!vars)
<1> SUFFICES ASSUME IInv, [Next]_vars
             PROVE Life!Next \/ UNCHANGED <<ctxDone, Stage, conn = "open", closeSent>>
  BY DEF Life!vars
<1> USE DEF IInv, ShutdownInv, EndInv
<1>1. CASE SessionStep
  <2>1. ctxDone' = ctxDone /\ conn' = conn
    BY <1>1, SessionStepShape DEF shutdownVars
  <2>2. CASE pc' \in Serving /\ pc \notin Serving
    <3>1. pc = "readDone" /\ ~ctxDone /\ closeSent' = closeSent
      BY <1>1, <2>2, SessionStepShape DEF Serving
    <3>2. Stage = "idle" /\ Stage' = "busy" /\ conn = "open" /\ ~closeSent
      BY <2>2, <3>1 DEF Stage, Serving
    <3> QED
      BY <2>1, <3>1, <3>2 DEF Life!Next, Life!TakeUp
  <2>3. CASE pc' \in Serving /\ pc \in Serving
    <3>1. Stage' = Stage /\ closeSent' = closeSent
      BY <1>1, <2>3, SessionStepShape DEF Stage, Serving
    <3> QED
      BY <2>1, <3>1
  <2>4. CASE pc' \notin Serving
    <3>1. Stage \in {"idle", "busy"} /\ Stage' = "idle"
      BY <1>1, <2>4, SessionStepShape DEF Stage, Serving
    <3>2. closeSent' \in {closeSent, TRUE}
      BY <1>1, <2>4, SessionStepShape, Zenon DEF Serving
    <3> QED
      BY <2>1, <3>1, <3>2, Zenon DEF Life!Next, Life!Answer
  <2> QED
    BY <2>2, <2>3, <2>4
<1>2. CASE ReadStep
  <2>1. UNCHANGED <<ctxDone, conn, closeSent>>
    BY <1>2 DEF ReadStep, Start, ReadCheck, ReadIdle, ReadBusy, ReadGets, ReadFails, shutdownVars
  <2>2. Stage' = Stage
    BY <1>2 DEF ReadStep, Start, ReadCheck, ReadIdle, ReadBusy, ReadGets, ReadFails, Stage, Serving
  <2> QED
    BY <2>1, <2>2
<1>3. CASE Cleanup
  <2>1. Stage = "idle" /\ Stage' = "ended" /\ conn' = "closed"
    BY <1>3 DEF Cleanup, Stage, Serving
  <2>2. UNCHANGED <<ctxDone, closeSent>>
    BY <1>3 DEF Cleanup
  <2> QED
    BY <2>1, <2>2 DEF Life!Next, Life!End
<1>4. CASE Watcher
  <2>1. UNCHANGED <<pc, ctxDone, closeSent>>
    BY <1>4 DEF Watcher, WatcherWakes, WatcherStops, BeginShutdown
  <2>2. Stage' = Stage
    BY <2>1 DEF Stage
  <2>3. conn' = conn \/ (conn' = "closed" /\ ctxDone /\ Stage = "idle")
    BY <1>4 DEF Watcher, WatcherWakes, WatcherStops, BeginShutdown, Stage, Serving
  <2> QED
    BY <2>1, <2>2, <2>3 DEF Life!Next, Life!WatcherCloses
<1>5. CASE Cancel
  <2>1. ctxDone' = TRUE /\ UNCHANGED <<pc, conn, closeSent>>
    BY <1>5 DEF Cancel
  <2>2. Stage' = Stage
    BY <2>1 DEF Stage
  <2> QED
    BY <2>1, <2>2 DEF Life!Next, Life!Cancel
<1>6. CASE UNCHANGED vars
  BY <1>6 DEF vars, shutdownVars, Stage
<1> QED
  BY <1>1, <1>2, <1>3, <1>4, <1>5, <1>6, NextSplit

\* handleClientCtx implements SessionLife, the session module Serve is built on.
THEOREM SessionKeepsPromise == Spec => ImplementsSessionLife
<1>1. IInv /\ [Next]_vars => [Life!Next]_(Life!vars)
  BY NextRefines
<1> QED
  BY <1>1, InitIInv, NextIInv, InitRefines, PTL DEF Spec, ImplementsSessionLife, Life!Spec

-----------------------------------------------------------------------------
(* Routing, rewriting and reuse.                                           *)

\* A direct connection is only ever open to a host -noproxy matches, and a request
\* is routed while it is open only if it is for that host.
RoutingInv ==
    /\ target \in NoProxy \cup {NoHost}
    /\ pc \in {"validate", "route"} /\ target # NoHost => req.host = target
    /\ PolicyRouting

\* How far the request differs from what the client sent.
RewriteInv ==
    /\ pc = "validate" \/ (pc \in {"markBusy", "readDone"} /\ got = "request") =>
         req = original /\ original \in Requests
    /\ pc = "route" =>
         /\ original \in Requests
         /\ req = Sanitize(original)
         /\ ~Rejected(original)
    /\ ValidatedOnce

\* A session that has spoiled a connection is on its way out.
SpoiledInv ==
    spoiled # {} => pc \in {"cleanup", "done"} \/ (pc \in {"respond", "write"} /\ respClose)

ServeInv == RoutingInv /\ RewriteInv /\ SpoiledInv

LEMMA InitServeInv == Init => ServeInv
  BY DEF Init, ServeInv, RoutingInv, PolicyRouting, RewriteInv, ValidatedOnce, SpoiledInv

\* Sanitize changes nothing but the two fields it rewrites.
LEMMA SanitizeFields ==
  ASSUME NEW r \in Requests
  PROVE  /\ Sanitize(r).host = r.host /\ Sanitize(r).method = r.method
         /\ Sanitize(r).auth = "none"
         /\ Sanitize(r).hops = IF r.method = "OPTIONS" /\ r.hops # NoLimit THEN r.hops - 1 ELSE r.hops
         /\ LET sent == [Sanitize(r) EXCEPT !.auth = "negotiate"]
            IN  sent.host = r.host /\ sent.hops = Sanitize(r).hops /\ sent.auth = "negotiate"
  BY SessionAssumption DEF Sanitize, Records

LEMMA EndsServeInv ==
  ASSUME ServeInv, pc' = "cleanup", target' = NoHost
  PROVE  ServeInv'
  BY DEF ServeInv, RoutingInv, PolicyRouting, RewriteInv, ValidatedOnce, SpoiledInv

LEMMA RouteServeInv == ASSUME ServeInv, Route PROVE ServeInv'
<1> USE SessionAssumption DEF ServeInv, RoutingInv, RewriteInv, SpoiledInv, shutdownVars, requestVars
<1>1. CASE RouteBound
  <2>1. RoutingInv'
    BY <1>1 DEF RouteBound, Admit, PolicyRouting
  <2>2. RewriteInv'
    BY <1>1, SanitizeFields DEF RouteBound, Admit, ValidatedOnce, Rejected
  <2>3. SpoiledInv'
    BY <1>1 DEF RouteBound, Admit
  <2> QED
    BY <2>1, <2>2, <2>3
<1>2. CASE RouteDirect
  <2>1. RoutingInv'
    BY <1>2 DEF RouteDirect, Admit, PolicyRouting
  <2>2. RewriteInv'
    BY <1>2, SanitizeFields DEF RouteDirect, Admit, ValidatedOnce, Rejected
  <2>3. SpoiledInv'
    BY <1>2 DEF RouteDirect, Admit
  <2> QED
    BY <2>1, <2>2, <2>3
<1>3. CASE RouteFirstUpstream
  <2>1. req'.host = req.host /\ req'.hops = req.hops /\ req'.auth = "negotiate"
    BY <1>3, SanitizeFields DEF RouteFirstUpstream
  <2>2. RoutingInv'
    BY <1>3, <2>1 DEF RouteFirstUpstream, Admit, PolicyRouting
  <2>3. RewriteInv'
    BY <1>3, <2>1, SanitizeFields DEF RouteFirstUpstream, Admit, ValidatedOnce, Rejected
  <2>4. SpoiledInv'
    BY <1>3 DEF RouteFirstUpstream, Admit
  <2> QED
    BY <2>2, <2>3, <2>4
<1>4. CASE RouteUpstream
  <2>1. RoutingInv'
    BY <1>4 DEF RouteUpstream, Admit, PolicyRouting
  <2>2. RewriteInv'
    BY <1>4, SanitizeFields DEF RouteUpstream, Admit, ValidatedOnce, Rejected
  <2>3. SpoiledInv'
    BY <1>4 DEF RouteUpstream, Admit
  <2> QED
    BY <2>1, <2>2, <2>3
<1>5. CASE RouteTunnel
  <2>1. /\ req'.host = req.host /\ req'.hops = req.hops
        /\ req'.auth = IF req.host \in NoProxy THEN "none" ELSE "negotiate"
    BY <1>5, SanitizeFields DEF RouteTunnel
  <2>2. RoutingInv'
    BY <1>5, <2>1 DEF RouteTunnel, Admit, PolicyRouting
  <2>3. RewriteInv'
    BY <1>5, <2>1, SanitizeFields DEF RouteTunnel, Admit, ValidatedOnce, Rejected
  <2>4. SpoiledInv'
    BY <1>5 DEF RouteTunnel, Admit
  <2> QED
    BY <2>2, <2>3, <2>4
<1>6. CASE RouteMismatch \/ RouteFails
  BY <1>6, EndsServeInv DEF RouteMismatch, RouteFails, End
<1> QED
  BY <1>1, <1>2, <1>3, <1>4, <1>5, <1>6 DEF Route

LEMMA NextServeInv == ServeInv /\ [Next]_vars => ServeInv'
<1> SUFFICES ASSUME ServeInv, [Next]_vars PROVE ServeInv'
  OBVIOUS
<1> USE DEF ServeInv, RoutingInv, PolicyRouting, RewriteInv, ValidatedOnce, SpoiledInv
<1>1. CASE Deny \/ ReadAfterShutdown \/ ReadGivesUp \/ ValidateRefuses \/ WriteResponseFails
  BY <1>1, EndsServeInv DEF Deny, ReadAfterShutdown, ReadGivesUp, ValidateRefuses, WriteResponseFails, End
<1>2. ASSUME NEW reply \in BOOLEAN, TunnelEnds(reply) PROVE ServeInv'
  BY <1>2, EndsServeInv DEF TunnelEnds, End
<1>3. CASE Start \/ ReadCheck \/ ReadIdle \/ ReadBusy
  BY <1>3 DEF Start, ReadCheck, ReadIdle, ReadBusy, requestVars, connVars
<1>4. ASSUME NEW r \in Requests, ReadGets(r) PROVE ServeInv'
  BY <1>4 DEF ReadGets, connVars
<1>5. ASSUME NEW closing \in BOOLEAN, ReadFails(closing) PROVE ServeInv'
  BY <1>5 DEF ReadFails, connVars
<1>6. CASE ReadReturns
  BY <1>6 DEF ReadReturns, requestVars
<1>7. CASE ValidateRequest
  BY <1>7, SanitizeFields DEF ValidateRequest, connVars
<1>8. CASE Route
  BY <1>8, RouteServeInv
<1>9. CASE Exchange
  <2>1. ASSUME NEW close \in BOOLEAN, ExchangeReturns(close) PROVE ServeInv'
    BY <2>1 DEF ExchangeReturns, requestVars
  <2>2. ASSUME NEW error \in {"request", "client", "response"}, ExchangeFails(error) PROVE ServeInv'
    BY <2>2, EndsServeInv DEF ExchangeFails, End
  <2> QED
    BY <1>9, <2>1, <2>2 DEF Exchange
<1>10. CASE WriteResponseChecks
  BY <1>10, Zenon DEF WriteResponseChecks, requestVars, connVars
<1>11. CASE WriteResponse
  <2>1. CASE ConnectionWillClose
    BY <1>11, <2>1, EndsServeInv DEF WriteResponse, End
  <2>2. CASE ~ConnectionWillClose
    BY <1>11, <2>2 DEF WriteResponse, ConnectionWillClose, requestVars
  <2> QED
    BY <2>1, <2>2
<1>12. CASE Cleanup
  BY <1>12 DEF Cleanup, requestVars
<1>13. CASE Watcher \/ Cancel
  BY <1>13 DEF Watcher, WatcherWakes, WatcherStops, BeginShutdown, Cancel, requestVars, connVars
<1>14. CASE UNCHANGED vars
  BY <1>14 DEF vars, requestVars, connVars
<1> QED
  BY <1>1, <1>2, <1>3, <1>4, <1>5, <1>6, <1>7, <1>8, <1>9, <1>10, <1>11, <1>12, <1>13, <1>14
  DEF Next, Client, Read, Write

LEMMA ServeInvariance == Spec => []ServeInv
  BY InitServeInv, NextServeInv, PTL DEF Spec

\* run and nextDirectRequest send every request where the policy for its host sends
\* it, for any hosts and any sequence of requests on one connection.
THEOREM RoutedByPolicy == Spec => []PolicyRouting
<1>1. ServeInv => PolicyRouting
  BY DEF ServeInv, RoutingInv
<1> QED
  BY <1>1, ServeInvariance, PTL

\* Whatever is forwarded has been through validateRequest exactly once, whichever
\* loop read it, and the token is on it only towards the upstream proxy.
THEOREM RequestsAreValidatedOnce == Spec => []ValidatedOnce
<1>1. ServeInv => ValidatedOnce
  BY DEF ServeInv, RewriteInv
<1> QED
  BY <1>1, ServeInvariance, PTL

\* No connection is used again after an exchange on it failed or announced a close
\* (writeResponse, relayViaUpstream, relayDirect).
THEOREM FailedIsNotReused == Spec => []NoReuseAfterFailure
<1>1. ServeInv => NoReuseAfterFailure
  BY DEF ServeInv, SpoiledInv, NoReuseAfterFailure, Reading
<1> QED
  BY <1>1, ServeInvariance, PTL

-----------------------------------------------------------------------------
(* The types.  They rest on RewriteInv: only a request that                *)
(* validateRequest has let through is counted down.                        *)

Known == Records({"none", "client", "negotiate"})

\* The variables that neither IInv nor RoutingInv gives a type.
TypeInv ==
    /\ watcher \in {"none", "waiting", "closing", "done"}
    /\ first \in BOOLEAN
    /\ respClose \in BOOLEAN
    /\ got \in {"none", "request", "closed", "malformed"}
    /\ original \in Requests \cup {NoRequest}
    /\ (req = NoRequest) = (original = NoRequest)
    /\ req \in Known \cup {NoRequest}
    /\ proxyConn \in {"nil", "open", "closed"}
    /\ via \in {"none", "upstream", "direct", "tunnel"}
    /\ pc \in {"respond", "write"} => via \in {"upstream", "direct"}
    /\ spoiled \subseteq {"upstream", "direct", "client"}
    /\ reads \in 0..MaxRequests

\* A request that validateRequest lets through is a request still, with a hop count
\* of zero or more.
LEMMA SanitizeKnown ==
  ASSUME NEW r \in Requests, ~AnsweredLocally(r)
  PROVE  Sanitize(r) \in Known
<1>1. r \in Records({"none", "client"})
  BY SessionAssumption
<1>2. (IF r.method = "OPTIONS" /\ r.hops # NoLimit THEN r.hops - 1 ELSE r.hops) \in 0..NoLimit
  BY <1>1 DEF Records, AnsweredLocally, NoLimit
<1> QED
  BY <1>1, <1>2, Zenon DEF Known, Records, Sanitize

\* The token on a request leaves it one.
LEMMA NegotiateKnown ==
  ASSUME NEW r \in Known
  PROVE  [r EXCEPT !.auth = "negotiate"] \in Known
  BY DEF Known, Records

LEMMA RequestsKnown == Requests \subseteq Known /\ NoRequest \notin Known
  BY SessionAssumption DEF Known, Records

LEMMA InitTypeInv == Init => TypeInv
<1> SUFFICES ASSUME Init PROVE TypeInv
  OBVIOUS
<1>1. first \in BOOLEAN /\ respClose \in BOOLEAN
  BY Zenon DEF Init
<1>2. reads \in 0..MaxRequests
  BY SessionAssumption DEF Init
<1>3. (req = NoRequest) = (original = NoRequest)
  BY DEF Init
<1> QED
  BY <1>1, <1>2, <1>3 DEF Init, TypeInv

LEMMA NextTypeInv == ServeInv /\ TypeInv /\ [Next]_vars => TypeInv'
<1> SUFFICES ASSUME ServeInv, TypeInv, [Next]_vars PROVE TypeInv'
  OBVIOUS
<1> USE DEF TypeInv, requestVars, connVars, shutdownVars, End
<1>0. ASSUME UNCHANGED <<first, respClose, got, original, req, proxyConn, via, spoiled, reads>>,
             watcher' \in {"none", "waiting", "closing", "done"},
             pc' \in {"respond", "write"} => pc \in {"respond", "write"}
      PROVE  TypeInv'
  BY <1>0
<1>1. CASE Deny \/ ReadAfterShutdown \/ ReadGivesUp \/ ValidateRefuses
  <2>1. UNCHANGED <<first, respClose, got, original, req, proxyConn, via, spoiled, reads, watcher>>
    BY <1>1 DEF Deny, ReadAfterShutdown, ReadGivesUp, ValidateRefuses
  <2>2. pc' = "cleanup"
    BY <1>1 DEF Deny, ReadAfterShutdown, ReadGivesUp, ValidateRefuses
  <2> QED
    BY <1>0, <2>1, <2>2
<1>2. ASSUME NEW reply \in BOOLEAN, TunnelEnds(reply) PROVE TypeInv'
  BY <1>2 DEF TunnelEnds
<1>3. CASE Start \/ ReadCheck \/ ReadIdle \/ ReadBusy
  <2>1. /\ UNCHANGED <<first, respClose, got, original, req, proxyConn, via, spoiled, reads>>
        /\ watcher' \in {watcher, "waiting"}
        /\ pc' \notin {"respond", "write"}
    BY <1>3 DEF Start, ReadCheck, ReadIdle, ReadBusy
  <2> QED
    BY <1>0, <2>1
<1>4. ASSUME NEW r \in Requests, ReadGets(r) PROVE TypeInv'
  <2>1. reads' \in 0..MaxRequests
    BY <1>4, SessionAssumption DEF ReadGets
  <2>2. r \in Known /\ r # NoRequest
    BY RequestsKnown
  <2> QED
    BY <1>4, <2>1, <2>2 DEF ReadGets
<1>5. ASSUME NEW closing \in BOOLEAN, ReadFails(closing) PROVE TypeInv'
  BY <1>5 DEF ReadFails
<1>6. CASE ReadReturns
  BY <1>6 DEF ReadReturns
<1>7. CASE ValidateRequest
  <2>1. req \in Requests /\ req = original
    BY <1>7 DEF ValidateRequest, ServeInv, RewriteInv
  <2>2. req' \in Known
    BY <1>7, <2>1, SanitizeKnown DEF ValidateRequest
  <2>3. req' # NoRequest /\ original # NoRequest
    BY <2>1, <2>2, RequestsKnown
  <2> QED
    BY <1>7, <2>2, <2>3 DEF ValidateRequest
<1>8. CASE Route
  <2>1. req \in Known /\ original # NoRequest
    BY <1>8, RequestsKnown DEF Route, RouteBound, RouteMismatch, RouteDirect, RouteFirstUpstream,
       RouteUpstream, RouteTunnel, RouteFails, ServeInv, RewriteInv
  <2>2. req' \in Known
    BY <1>8, <2>1, NegotiateKnown DEF Route, RouteBound, RouteMismatch, RouteDirect,
       RouteFirstUpstream, RouteUpstream, RouteTunnel, RouteFails
  <2>3. req' # NoRequest
    BY <2>2, RequestsKnown
  <2>4. /\ UNCHANGED <<watcher, first, respClose, got, original, reads>>
        /\ proxyConn' \in {"nil", "open", "closed"}
        /\ spoiled' \subseteq spoiled
        /\ via' \in {"none", "upstream", "direct", "tunnel"}
        /\ pc' \notin {"respond", "write"}
    BY <1>8 DEF Route, RouteBound, RouteMismatch, RouteDirect,
       RouteFirstUpstream, RouteUpstream, RouteTunnel, RouteFails, Admit
  <2> QED
    BY <2>1, <2>2, <2>3, <2>4
<1>9. CASE Exchange
  <2>1. pc = "exchange"
    BY <1>9 DEF Exchange, ExchangeReturns, ExchangeFails
  <2>2. via \in {"upstream", "direct"}
    BY <2>1 DEF ServeInv, RoutingInv, PolicyRouting
  <2>3. ASSUME NEW close \in BOOLEAN, ExchangeReturns(close) PROVE TypeInv'
    BY <2>2, <2>3 DEF ExchangeReturns
  <2>4. ASSUME NEW error \in {"request", "client", "response"}, ExchangeFails(error) PROVE TypeInv'
    BY <2>2, <2>4 DEF ExchangeFails
  <2> QED
    BY <1>9, <2>3, <2>4 DEF Exchange
<1>10. CASE WriteResponseChecks
  <2>1. respClose' \in BOOLEAN
    BY <1>10 DEF WriteResponseChecks
  <2> QED
    BY <1>10, <2>1 DEF WriteResponseChecks
<1>11. CASE WriteResponse
  BY <1>11, Zenon DEF WriteResponse
<1>12. CASE WriteResponseFails
  BY <1>12 DEF WriteResponseFails
<1>13. CASE Cleanup
  BY <1>13 DEF Cleanup
<1>14. CASE Watcher \/ Cancel
  <2>1. /\ UNCHANGED <<first, respClose, got, original, req, proxyConn, via, spoiled, reads, pc>>
        /\ watcher' \in {watcher, "closing", "done"}
    BY <1>14 DEF Watcher, WatcherWakes, WatcherStops, BeginShutdown, Cancel
  <2> QED
    BY <1>0, <2>1
<1>15. CASE UNCHANGED vars
  BY <1>15 DEF vars
<1> QED
  BY <1>1, <1>2, <1>3, <1>4, <1>5, <1>6, <1>7, <1>8, <1>9, <1>10, <1>11, <1>12, <1>13, <1>14, <1>15
  DEF Next, Client, Read, Write

\* The variables of a session keep their types for any requests and hosts; in
\* particular applyMaxForwards never forwards a count below zero.
THEOREM SessionIsTyped == Spec => []TypeOK
<1>1. IInv /\ ServeInv /\ TypeInv => TypeOK
  BY SessionAssumption DEF IInv, ShutdownInv, EndInv, ServeInv, RoutingInv, TypeInv, Known, TypeOK
<1> QED
  BY <1>1, InitIInv, NextIInv, ServeInvariance, InitTypeInv, NextTypeInv, PTL DEF Spec
=============================================================================
