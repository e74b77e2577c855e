------------------------------- MODULE Headers -------------------------------
(***************************************************************************)
(* How this proxy rewrites a request (internal/proxy/headers.go,           *)
(* validateRequest, routeRequest), and what that does along a chain of     *)
(* proxies that may lead back here.  A header is a function from field     *)
(* names to field lines, each a sequence of list entries; http.Header.Get  *)
(* sees the first line only.  The other proxies are the environment: they  *)
(* keep Via and add their own entry, to its last line or on one of their   *)
(* own, and name in Connection what they like.                             *)
(***************************************************************************)
EXTENDS Naturals, Sequences, SequencesExt

CONSTANTS Self,           \* cfg.Pseudonym
          Others,         \* the other proxies
          Options,        \* field names a Connection header may list
          ForwardedEnabled, XForwardedForEnabled,
          MaxPath         \* bound on the proxies a request passes

\* GenerateViaPseudonym makes a pseudonym no other proxy has.
ASSUME PseudonymAssumption == Self \notin Others

HopByHop == {"Connection", "Keep-Alive", "Proxy-Authorization"}
FieldNames == HopByHop \cup {"Via", "Forwarded", "X-Forwarded-For", "X-Forwarded-Host",
                             "Content-Length", "Cookie"}
NoLimit == 9  \* no Max-Forwards, or one that is not a number

VARIABLES at,       \* where the request is: at a proxy, at the origin, or answered
          method,
          hops,     \* Max-Forwards
          chunked,  \* len(req.TransferEncoding) > 0
          header,
          path,     \* the proxies that have forwarded it
          route,    \* how it left this proxy, if it did
          listed    \* what Connection listed when it came here

headerVars == <<at, method, hops, chunked, header, path, route, listed>>

-----------------------------------------------------------------------------
(* Header operations.                                                      *)

HGet(h, f) == IF h[f] = <<>> THEN <<>> ELSE h[f][1]
HSet(h, f, line) == [h EXCEPT ![f] = <<line>>]
HDel(h, fs) == [f \in FieldNames |-> IF f \in fs THEN <<>> ELSE h[f]]
FieldEntries(h, f) == UNION {ToSet(line) : line \in ToSet(h[f])}

\* appendHeaderValue reads the first line and replaces them all.
AppendHeaderValue(h, f, v) == HSet(h, f, Append(HGet(h, f), v))

InjectVia(h) == AppendHeaderValue(h, "Via", Self)

\* The X-Forwarded-Proto field goes with X-Forwarded-Host.
InjectForwardingHeaders(h) ==
    LET f == IF ForwardedEnabled THEN AppendHeaderValue(h, "Forwarded", Self) ELSE h
        x == AppendHeaderValue(f, "X-Forwarded-For", Self)
    IN  IF ~XForwardedForEnabled THEN f
        ELSE IF HGet(x, "X-Forwarded-Host") = <<>>
             THEN HSet(x, "X-Forwarded-Host", <<Self>>) ELSE x

Listed(h) == FieldEntries(h, "Connection")

\* Connection's options and the well-known hop-by-hop fields; Keep-Alive stands
\* for Proxy-Connection, TE, Trailer and Upgrade.  Content-Length gives way to
\* Transfer-Encoding.
SanitizeHopByHop(h) ==
    HDel(h, Listed(h) \cup HopByHop \cup IF chunked THEN {"Content-Length"} ELSE {})

LoopDetectedAfterSanitize == Self \in ToSet(HGet(SanitizeHopByHop(header), "Via"))

\* validateRequest looks for its pseudonym before it sanitises.
LoopDetected == Self \in ToSet(HGet(header, "Via"))

\* applyMaxForwards
Limited == method = "OPTIONS" /\ hops # NoLimit

AnsweredHere == Limited /\ hops = 0

Decrement == IF Limited THEN hops - 1 ELSE hops

RewriteThenSanitize(way, h) ==
    LET f == InjectForwardingHeaders(h)
        a == IF way = "fresh" THEN HSet(f, "Proxy-Authorization", <<"negotiate">>) ELSE f
    IN  SanitizeHopByHop(InjectVia(IF way = "direct" THEN h ELSE a))

\* What leaves: directly, on a fresh upstream connection, which the token opens
\* (dialAndAuthUpstream), or on one that is in use.
Rewrite(way, h) ==
    LET s == SanitizeHopByHop(h)
        f == InjectForwardingHeaders(s)
        a == IF way = "fresh" THEN HSet(f, "Proxy-Authorization", <<"negotiate">>) ELSE f
    IN  InjectVia(IF way = "direct" THEN s ELSE a)

-----------------------------------------------------------------------------
NoHeader == [f \in FieldNames |-> <<>>]

Connection(options) == IF options = {} THEN <<>> ELSE <<SetToSeq(options)>>

\* A client's request, at the first proxy of its way.
HeaderInit ==
    /\ at \in Others \cup {Self}
    /\ method \in {"GET", "OPTIONS"}
    /\ hops \in {0, 2, NoLimit}
    /\ chunked \in BOOLEAN
    /\ \E options \in SUBSET Options :
        header = [NoHeader EXCEPT !["Connection"] = Connection(options),
                                  !["Keep-Alive"] = <<<<"client">>>>,
                                  !["Proxy-Authorization"] = <<<<"client">>>>,
                                  !["Content-Length"] = <<<<"client">>>>,
                                  !["Cookie"] = <<<<"client">>>>]
    /\ path = <<>>
    /\ route = "none"
    /\ listed = {}

\* A loop is refused, and Max-Forwards: 0 answered here.
Answer ==
    /\ at = Self
    /\ LoopDetected \/ AnsweredHere
    /\ at' = "answered"
    /\ UNCHANGED <<method, hops, chunked, header, path, route, listed>>

\* validateRequest passes the request, and it is routed.
Forward(way, next) ==
    /\ at = Self
    /\ ~LoopDetected
    /\ ~AnsweredHere
    /\ Len(path) < MaxPath
    /\ at' = next
    /\ hops' = Decrement
    /\ header' = Rewrite(way, header)
    /\ path' = Append(path, Self)
    /\ route' = way
    /\ listed' = Listed(header)
    /\ UNCHANGED <<method, chunked>>

\* Another proxy forwards it, or answers when Max-Forwards is used up.
Pass(p, next, options, ownLine) ==
    /\ at = p /\ next # p
    /\ Len(path) < MaxPath
    /\ UNCHANGED <<method, chunked, route, listed>>
    /\ IF AnsweredHere
       THEN at' = "answered" /\ UNCHANGED <<hops, header, path>>
       ELSE /\ at' = next
            /\ hops' = Decrement
            /\ path' = Append(path, p)
            /\ header' = [header EXCEPT !["Connection"] = Connection(options),
                                        !["Proxy-Authorization"] = <<>>,
                                        !["Via"] = IF @ = <<>> \/ ownLine THEN Append(@, <<p>>)
                                                   ELSE Front(@) \o <<Append(Last(@), p)>>]

HeaderNext ==
    \/ Answer
    \/ \E way \in {"direct", "fresh", "reused"}, next \in Others \cup {Self, "origin"} :
          Forward(way, next)
    \/ \E p \in Others, next \in Others \cup {Self, "origin"}, options \in SUBSET Options,
          ownLine \in BOOLEAN : Pass(p, next, options, ownLine)

HeaderSpec == HeaderInit /\ [][HeaderNext]_headerVars

-----------------------------------------------------------------------------
\* A request that comes back is stopped: this proxy forwards it once, wherever the
\* others send it and even if Connection lists Via (forward.go:32-38).  The others keep
\* the Via that came in and append to its last line, or add a line of their own.
LoopIsBroken == \A i, j \in DOMAIN path : path[i] = Self /\ path[j] = Self => i = j

\* What leaves carries this proxy's own fields, which no Connection option can
\* strip since they are added after sanitizeHopByHop: its Via entry, its Forwarded
\* entry, and the token exactly on the request that opens an upstream connection.
\* The client's hop-by-hop fields stay behind and end-to-end ones go on.
OwnFieldsArrive ==
    path # <<>> /\ Last(path) = Self =>
        /\ \A f \in HopByHop \ {"Proxy-Authorization"} : header[f] = <<>>
        /\ header["Proxy-Authorization"] = IF route = "fresh" THEN <<<<"negotiate">>>> ELSE <<>>
        /\ Len(header["Via"]) = 1 /\ Last(header["Via"][1]) = Self
        /\ route # "direct" /\ ForwardedEnabled => Self \in FieldEntries(header, "Forwarded")
        /\ route # "direct" /\ XForwardedForEnabled =>
               Self \in FieldEntries(header, "X-Forwarded-For") /\ header["X-Forwarded-Host"] # <<>>
        /\ (header["Cookie"] = <<>>) = ("Cookie" \in listed)
        /\ chunked => header["Content-Length"] = <<>>
=============================================================================
