----------------------------- MODULE HostRouting -----------------------------
(***************************************************************************)
(* Which client a session admits (handleClientCtx in internal/proxy/       *)
(* forward.go) and which host a request is taken to name (direct.go,       *)
(* noproxy.go, forward.go).  One target can be written in many ways: in    *)
(* either case, with or without its port, in brackets.  Four pieces of     *)
(* code read such a text, each in its own way: the -noproxy matcher, the   *)
(* comparison that keeps a direct connection bound to its host, the dial,  *)
(* and the check of a CONNECT port.  ClientSession takes hosts as          *)
(* canonical; here is the reason it may.                                   *)
(*                                                                         *)
(* A text is its name, a sequence of labels ("::1" is one label), and how  *)
(* it is spelled.  A pattern of -noproxy is its head ("*", "." or "*."),   *)
(* a name and the prefix length, counted in labels.                        *)
(***************************************************************************)
EXTENDS Integers, Sequences, SequencesExt, AllowList

CONSTANTS Names,        \* names and addresses
          Addresses,    \* IP addresses, of hosts and in patterns
          IPv6,         \* the addresses written with colons
          Ports,        \* explicit ports
          NoProxyLists, \* the pattern lists an operator may configure
          ConnectPorts, \* -connect-ports
          AllowLists,   \* the values of -allowed-ips, each a set of entries
          NoText        \* no host

NoPort == "none"
NoBits == 9

Texts ==
    {t \in [name : Names, upper : BOOLEAN, brackets : 0..1, port : Ports \cup {NoPort}] :
        t.name \in IPv6 /\ t.port # NoPort => t.brackets = 1}

Requests == [method : {"GET", "CONNECT"}, host : Texts]

ASSUME RoutingAssumption ==
    /\ NoPort \notin Ports
    /\ NoText \notin Texts \cup Requests
    /\ \A list \in AllowLists : list \subseteq Entries

VARIABLES noProxy,  \* cfg.NoProxy
          client,   \* the client that has just connected, and how it was received
          life,     \* of the session
          bound,    \* boundHost of the open direct connection
          addr,     \* the address it was dialled at
          pending,  \* the request being served
          sent      \* where the last request went

vars == <<noProxy, client, life, bound, addr, pending, sent>>

Nothing == [req |-> NoText, via |-> "none", addr |-> NoText]

-----------------------------------------------------------------------------
(* Host texts.                                                             *)

Bare(n) == [name |-> n, upper |-> FALSE, brackets |-> 0, port |-> NoPort]

\* net.SplitHostPort wants a port, and brackets around a name with colons only once.
Splits(t) ==
    /\ t.port # NoPort
    /\ t.brackets <= 1
    /\ t.name \in IPv6 => t.brackets = 1

SplitHost(t) == [t EXCEPT !.brackets = 0, !.port = NoPort]

\* net.JoinHostPort adds brackets to a host that contains a colon.
JoinHostPort(t, p) == [t EXCEPT !.port = p, !.brackets = IF t.name \in IPv6 THEN @ + 1 ELSE @]

Lower(t) == [t EXCEPT !.upper = FALSE]

StripIPv6Brackets(t) == [t EXCEPT !.brackets = IF @ > 0 THEN @ - 1 ELSE @]

Canon(t, defaultPort) ==
    LET h == Lower(t)
    IN  IF Splits(h)
        THEN JoinHostPort(SplitHost(h), h.port)
        ELSE JoinHostPort(StripIPv6Brackets(h), defaultPort)

SameHostAnyPort(a, b, defaultPort) ==
    SplitHost(Canon(a, defaultPort)) = SplitHost(Canon(b, defaultPort))

SameHost(a, b, defaultPort) == Canon(a, defaultPort) = Canon(b, defaultPort)

\* The target dialDirect hands to the dialer.
DialTarget(t, defaultPort) == IF Splits(t) THEN t ELSE JoinHostPort(t, defaultPort)

\* What the dialer makes of a target that splits.
Resolve(t) == [name |-> t.name, port |-> t.port]

-----------------------------------------------------------------------------
(* The -noproxy matcher.                                                   *)

\* NewNoProxyMatcher classifies a pattern; the first form that fits wins.
Kind(p) ==
    CASE p.head = "*" /\ p.name = <<>> -> "all"
      [] p.head = "" /\ p.name \in Addresses /\ p.bits # NoBits -> "cidr"
      [] p.head = "" /\ p.name \in Addresses /\ p.bits = NoBits -> "ip"
      [] p.head \in {".", "*."} -> "wildcard"
      [] OTHER -> "hostname"

\* noProxyRule.matches, for a host stripped of its port.  A wildcard covers its
\* base domain and every subdomain.
RuleMatches(p, h) ==
    CASE Kind(p) = "all" -> TRUE
      [] Kind(p) = "hostname" -> p.head = "" /\ p.bits = NoBits /\ h = Bare(p.name)
      [] Kind(p) = "wildcard" -> h = Bare(h.name) /\ IsSuffix(p.name, h.name)
      [] Kind(p) = "ip" -> h.brackets = 0 /\ h.name = p.name
      [] Kind(p) = "cidr" ->
           /\ h.brackets = 0 /\ h.name \in Addresses
           /\ (h.name \in IPv6) = (p.name \in IPv6)
           /\ SubSeq(h.name, 1, p.bits) = SubSeq(p.name, 1, p.bits)

Match(t) ==
    LET h == Lower(IF Splits(t) THEN SplitHost(t) ELSE StripIPv6Brackets(t))
    IN  \E p \in noProxy : RuleMatches(p, h)

ConnectPortAllowedIfNamed(t) == ConnectPorts = {} \/ (Splits(t) => t.port \in ConnectPorts)

\* validateRequest's check of a CONNECT port.
ConnectPortAllowed(t) ==
    LET port == IF Splits(t) THEN t.port ELSE "443"
    IN  ConnectPorts = {} \/ {port, "*"} \cap ConnectPorts # {}

-----------------------------------------------------------------------------
Init ==
    /\ noProxy \in NoProxyLists
    /\ client = NoText
    /\ life = "new"
    /\ bound = NoText
    /\ addr = NoText
    /\ pending = NoText
    /\ sent = Nothing

Hangup ==
    /\ life' = "over"
    /\ bound' = NoText
    /\ addr' = NoText
    /\ pending' = NoText

\* handleClientCtx consults cfg.AllowedIPs before anything else.  The list is looked
\* at once in a session, so it is chosen here.
Connect(list, ip) ==
    /\ life = "new"
    /\ client' = [list |-> list, from |-> ip]
    /\ life' = IF IpAllowed(ParseIP(ip), ParseAllowList(list)) THEN "open" ELSE "over"
    /\ UNCHANGED <<noProxy, bound, addr, pending, sent>>

\* readRequest; nextDirectRequest gives up the direct connection when the request
\* is for another host, and the request goes back to run.
Receive(r) ==
    /\ life = "open"
    /\ pending = NoText
    /\ pending' = r
    /\ client' = NoText
    /\ sent' = Nothing
    /\ LET kept == bound # NoText /\ SameHost(r.host, bound, "80")
       IN  /\ bound' = IF kept THEN bound ELSE NoText
           /\ addr' = IF kept THEN addr ELSE NoText
    /\ UNCHANGED <<noProxy, life>>

Refused == pending.method = "CONNECT" /\ ~ConnectPortAllowed(pending.host)

\* errForbiddenPort, or errMismatchedTarget on a direct connection.
Refuse ==
    /\ pending # NoText
    /\ Refused \/ (bound # NoText /\ pending.method = "CONNECT")
    /\ Hangup
    /\ UNCHANGED <<noProxy, client, sent>>

\* relayDirect on the connection that is already open.
SendBound ==
    /\ bound # NoText
    /\ pending # NoText
    /\ pending.method = "GET"
    /\ sent' = [req |-> pending, via |-> "direct", addr |-> addr]
    /\ pending' = NoText
    /\ UNCHANGED <<noProxy, client, life, bound, addr>>

\* routeRequest with a matcher that covers the host.
Bypasses == pending # NoText /\ bound = NoText /\ ~Refused /\ Match(pending.host)

DefaultPort == IF pending.method = "CONNECT" THEN "443" ELSE "80"

Target == DialTarget(pending.host, DefaultPort)

\* forwardDirect: the connection is bound to the host it was dialled for.
SendDirect ==
    /\ Bypasses
    /\ pending.method = "GET"
    /\ Splits(Target)
    /\ bound' = pending.host
    /\ addr' = Resolve(Target)
    /\ sent' = [req |-> pending, via |-> "direct", addr |-> Resolve(Target)]
    /\ pending' = NoText
    /\ UNCHANGED <<noProxy, client, life>>

\* tunnelDirect
TunnelDirect ==
    /\ Bypasses
    /\ pending.method = "CONNECT"
    /\ Splits(Target)
    /\ sent' = [req |-> pending, via |-> "direct", addr |-> Resolve(Target)]
    /\ Hangup
    /\ UNCHANGED <<noProxy, client>>

\* handleDialError: nobody answers, or the target is not an address at all.
DialFails ==
    /\ Bypasses
    /\ Hangup
    /\ UNCHANGED <<noProxy, client, sent>>

\* relayViaUpstream and tunnelViaUpstream
SendUpstream ==
    /\ pending # NoText
    /\ bound = NoText
    /\ ~Refused
    /\ ~Match(pending.host)
    /\ sent' = [req |-> pending, via |-> "upstream", addr |-> NoText]
    /\ IF pending.method = "CONNECT"
       THEN Hangup
       ELSE pending' = NoText /\ UNCHANGED <<life, bound, addr>>
    /\ UNCHANGED <<noProxy, client>>

Next ==
    \/ \E list \in AllowLists, ip \in IPs : Connect(list, ip)
    \/ \E r \in Requests : Receive(r)
    \/ Refuse
    \/ SendBound
    \/ SendDirect
    \/ TunnelDirect
    \/ DialFails
    \/ SendUpstream

Spec == Init /\ [][Next]_vars

-----------------------------------------------------------------------------
\* However a request spells its host, it goes where the policy for that host
\* sends it, at the port it names or the default of its scheme.  The direct loop
\* never asks the matcher again (nextDirectRequest), so this needs sameHost and
\* Match to agree on which texts are the same host.
RoutedAsNamed ==
    sent.via # "none" =>
        LET host == sent.req.host
            scheme == IF sent.req.method = "CONNECT" THEN "443" ELSE "80"
            port == IF host.port = NoPort THEN scheme ELSE host.port
        IN  IF \E p \in noProxy : RuleMatches(p, Bare(host.name))
            THEN sent.via = "direct" /\ sent.addr = [name |-> host.name, port |-> port]
            ELSE sent.via = "upstream"

\* A tunnel that bypasses the upstream proxy ends at a port -connect-ports lists:
\* validateRequest and tunnelDirect default a missing port alike.
TunnelPortAllowed ==
    sent.via = "direct" /\ sent.req.method = "CONNECT" =>
        ConnectPorts = {} \/ {sent.addr.port, "*"} \cap ConnectPorts # {}

\* Clients are admitted exactly as -allowed-ips names them, in whichever form their
\* address and the entry are written and wherever a prefix ends; without entries
\* everybody is (ParseAllowList and ipAllowed).
AdmitsAsNamed ==
    client # NoText =>
        (life = "open" <=> \/ client.list = {}
                           \/ \E entry \in client.list : client.from \in NamedBy(entry))
=============================================================================
