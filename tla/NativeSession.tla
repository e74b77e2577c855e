---------------------------- MODULE NativeSession ----------------------------
(***************************************************************************)
(* A request that gets its connection with a token from the native         *)
(* provider: modules Establish and GSSProvider composed, with the circuit  *)
(* breaker in between reduced to that it may refuse.                       *)
(* NewNativeTokenProvider asks for a first token at start-up and only logs *)
(* how that went.                                                          *)
(***************************************************************************)
EXTENDS GSSProvider, Sequences

CONSTANT MaxInterim

VARIABLES probed,   \* NewNativeTokenProvider has returned
          setup, stage, timer, raw, auth, gone, granted, replies, interim   \* of Establish

Conn == INSTANCE Establish WITH pc <- stage

connVars == <<setup, stage, timer, raw, auth, gone, granted, replies, interim>>
sessionVars == <<vars, probed, connVars>>

SessionInit == Init /\ probed = FALSE /\ Conn!Init

\* The provider is called at start-up, and by dialAndAuthUpstream.
Asks ==
    /\ GetToken
    /\ probed => stage = "token"
    /\ UNCHANGED <<probed, connVars>>

Works ==
    /\ Work
    /\ pc' # "idle"
    /\ UNCHANGED <<probed, connVars>>

ProbeReturns ==
    /\ ~probed
    /\ Work
    /\ pc' = "idle"
    /\ probed' = TRUE
    /\ UNCHANGED connVars

TokenReturns ==
    /\ probed
    /\ Work
    /\ pc' = "idle"
    /\ IF ret' = "token" THEN Conn!GetToken ELSE Conn!GetTokenFails(ret')
    /\ UNCHANGED probed

BreakerRefuses ==
    /\ probed
    /\ pc = "idle"
    /\ Conn!GetTokenFails("CircuitBreakerError")
    /\ UNCHANGED <<vars, probed>>

Connects ==
    /\ probed
    /\ Conn!Connecting
    /\ UNCHANGED <<vars, probed>>

SessionNext == Asks \/ Works \/ ProbeReturns \/ TokenReturns \/ BreakerRefuses \/ Connects

SessionSpec == SessionInit /\ [][SessionNext]_sessionVars

\* The dial timeout fires, and a dial or a handshake whose context has expired
\* returns.  Nothing is assumed of the upstream proxy, the target or GSS-API.
FairSession ==
    /\ SessionSpec
    /\ WF_sessionVars(Connects /\ Conn!TimerExpires)
    /\ WF_sessionVars(timer = "expired" /\ Connects /\ Conn!FailedDial)

-----------------------------------------------------------------------------
\* However establishing the connection ends, and wherever it fails: no connection
\* is left open behind a handler that is over; the client has one final answer, or
\* has gone; it is told 2xx only after the other side agreed, and data flows only
\* after it was told; and the token goes to the upstream proxy alone.
WholeOutcome ==
    /\ stage = "over" => raw # "open" /\ (replies = <<>> => gone)
    /\ Len(replies) <= 1
    /\ replies = <<"2xx">> => granted
    /\ stage = "tunnel" => replies = <<"2xx">> /\ raw = "open"
    /\ stage \in {"request", "ready"} => raw = "open" /\ auth # setup.direct
    /\ \A r \in {"errCredentialFailure", "errNegotiationFailure"} :
          replies = <<r>> => raw = "none" /\ ret # "token" /\ held = {}

\* One dial timeout bounds the dial and the TLS handshake together: an upstream
\* that accepts the connection and then says nothing does not hold the session.
DialEnds ==
    (setup.dialTimeout /\ stage \in {"dial", "handshake"}) ~> (stage \notin {"dial", "handshake"})
=============================================================================
