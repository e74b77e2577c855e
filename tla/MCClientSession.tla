--------------------------- MODULE MCClientSession ---------------------------
(***************************************************************************)
(* Two hosts that bypass the upstream proxy and one that does not, and a   *)
(* small alphabet of requests: each host plainly, and every feature of a   *)
(* request that validateRequest or the routing looks at.                   *)
(***************************************************************************)
EXTENDS ClientSession

Get(h) == [method |-> "GET", host |-> h, loops |-> FALSE, portAllowed |-> TRUE,
           hops |-> NoLimit, close |-> FALSE, auth |-> "none"]

MCHosts == {"intranet", "printer", "web"}
MCNoProxy == {"intranet", "printer"}

MCRequests ==
    {Get(h) : h \in MCHosts}
    \cup {[Get(h) EXCEPT !.method = "OPTIONS", !.hops = n] : h \in {"intranet", "web"}, n \in {0, 2}}
    \cup {[Get(h) EXCEPT !.method = "CONNECT"] : h \in {"intranet", "web"}}
    \cup {[Get("web") EXCEPT !.method = "CONNECT", !.portAllowed = FALSE],
          [Get("web") EXCEPT !.close = TRUE],
          [Get("web") EXCEPT !.auth = "client"],
          [Get("printer") EXCEPT !.loops = TRUE]}
=============================================================================
