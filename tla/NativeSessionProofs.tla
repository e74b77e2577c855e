------------------------- MODULE NativeSessionProofs -------------------------
(***************************************************************************)
(* Proofs about GSSProvider, for a buffer of any size from two bytes on    *)
(* and messages of any number and length, and about the set-up of a        *)
(* connection around it, for any number of interim answers.                *)
(***************************************************************************)
EXTENDS NativeSession, TLAPS

-----------------------------------------------------------------------------
(* The provider by itself.                                                 *)

\* One message keeps the offset below the buffer's end, and nothing wraps.
LEMMA AppendFits ==
  ASSUME WithinBuffer, offset \in Nat, NEW length \in Nat
  PROVE  /\ Separated \in Nat
         /\ Separated + (IF length < Room THEN length ELSE Room) \in Nat
         /\ Separated + (IF length < Room THEN length ELSE Room) < BufLen
  BY BufferAssumption DEF WithinBuffer, Separated, Room

LEMMA InitIInv == Init => IInv
<1> SUFFICES ASSUME Init PROVE IInv
  OBVIOUS
<1>1. TypeOK
  BY Zenon DEF Init, TypeOK
<1>2. WithinBuffer /\ MayHold
  BY BufferAssumption DEF Init, WithinBuffer, MayHold
<1> QED
  BY <1>1, <1>2 DEF IInv

LEMMA NextIInv == IInv /\ [Next]_vars => IInv'
<1> SUFFICES ASSUME IInv, [Next]_vars PROVE IInv'
  OBVIOUS
<1> USE DEF IInv, TypeOK, WithinBuffer, MayHold
<1>1. CASE GetToken
  BY <1>1 DEF GetToken
<1>2. CASE Proceed("import", {"name"}, "acquire")
  BY <1>2 DEF Proceed
<1>3. CASE Proceed("acquire", {"cred"}, "init")
  BY <1>3 DEF Proceed
<1>4. ASSUME NEW output \in {{}, {"output"}}, Proceed("init", {"context"} \cup output, "copy")
      PROVE IInv'
  BY <1>4, Zenon DEF Proceed
<1>5. ASSUME NEW call \in {"import", "acquire"}, Fail(call, {}) PROVE IInv'
  BY <1>5, BufferAssumption DEF Fail, Release
<1>6. ASSUME NEW context \in {{}, {"context"}}, Fail("init", context) PROVE IInv'
  <2>1. /\ held' \subseteq {"cspn", "name", "cred", "context"}
        /\ pc' = "format" /\ failed' = "init" /\ part' = "major" /\ offset' = 0
        /\ minor' \in BOOLEAN /\ ret' = ret
    BY <1>6, Zenon DEF Fail
  <2>2. MayHold'
    BY <2>1 DEF Release
  <2> QED
    BY <2>1, <2>2, BufferAssumption
<1>7. ASSUME NEW length \in Lengths, NEW more \in BOOLEAN, AppendMessage(length, more)
      PROVE IInv'
  <2>1. length \in Nat
    BY BufferAssumption
  <2>2. offset' \in Nat /\ offset' < BufLen
    BY <1>7, <2>1, AppendFits DEF AppendMessage
  <2>3. /\ pc = "format" /\ pc' \in {"format", "formatted"}
        /\ part' \in {"major", "minor"}
        /\ UNCHANGED <<held, failed, minor, ret>>
    BY <1>7 DEF AppendMessage
  <2> QED
    BY <2>2, <2>3 DEF Release
<1>8. CASE ReturnError
  <2>1. held' = {}
    BY <1>8, Zenon DEF ReturnError
  <2> QED
    BY <1>8, <2>1, Zenon DEF ReturnError
<1>9. ASSUME NEW allocated \in BOOLEAN, CopyToken(allocated) PROVE IInv'
  BY <1>9 DEF CopyToken
<1>10. CASE Encode
  <2>1. held' = {}
    BY <1>10 DEF Encode
  <2> QED
    BY <1>10, <2>1 DEF Encode
<1>11. CASE UNCHANGED vars
  BY <1>11 DEF vars, Release
<1> QED
  BY <1>1, <1>2, <1>3, <1>4, <1>5, <1>6, <1>7, <1>8, <1>9, <1>10, <1>11 DEF Next, Work

\* However a token acquisition ends, nothing it obtained is left behind
\* (gss_darwin.c:44-151, auth_gss_darwin.go:45-70).
THEOREM EverythingIsReleased == Spec => []NothingHeld
<1>1. IInv => NothingHeld
  BY DEF IInv, MayHold, NothingHeld
<1> QED
  BY <1>1, InitIInv, NextIInv, PTL DEF Spec

\* Error messages of any number and length stay inside a buffer of any size
\* (append_status_messages and format_gss_error, gss_darwin.c:12-42).
THEOREM MessagesStayInBuffer == Spec => []WithinBuffer
<1>1. IInv => WithinBuffer
  BY DEF IInv
<1> QED
  BY <1>1, InitIInv, NextIInv, PTL DEF Spec

-----------------------------------------------------------------------------
(* The provider within the set-up of a connection.                         *)

LEMMA StepOfProvider == [SessionNext]_sessionVars => [Next]_vars
  BY DEF SessionNext, sessionVars, Asks, Works, ProbeReturns, TokenReturns, BreakerRefuses,
     Connects, Next

\* What the provider is proved to do by itself holds whoever calls it, at start-up
\* and for a request.
THEOREM SessionReleasesProvider == SessionSpec => [](NothingHeld /\ WithinBuffer)
<1>1. SessionInit => IInv
  BY InitIInv DEF SessionInit
<1>2. IInv /\ [SessionNext]_sessionVars => IInv'
  BY StepOfProvider, NextIInv
<1>3. IInv => NothingHeld /\ WithinBuffer
  BY DEF IInv, MayHold, NothingHeld
<1> QED
  BY <1>1, <1>2, <1>3, PTL DEF SessionSpec

Before == {"token", "start", "dial", "handshake", "request", "response", "confirm", "ready"}
Dialled == {"handshake", "request", "response", "confirm", "ready", "tunnel"}
Answers == {"2xx", "upstream", "errCircuitBreakerOpen", "errCredentialFailure",
            "errNegotiationFailure", "errTokenAcquisition", "errConnectionTimeout",
            "errConnectionRefused", "errConnectionTerminated"} \cup Conn!ResponseErrors

\* What there is at each point: before the tunnel no answer; an open connection
\* from the dial's end to the handler's; the token from GetToken on, unless the
\* connection is direct.
Outcome ==
    /\ setup \in Conn!Setups
    /\ stage \in Before \cup {"tunnel", "over"}
    /\ stage \in Before => replies = <<>>
    /\ stage = "tunnel" => replies = <<"2xx">>
    /\ stage = "over" => (replies = <<>> /\ gone) \/ \E r \in Answers : replies = <<r>>
    /\ stage \in {"token", "start", "dial"} => raw = "none"
    /\ stage \in Dialled => raw = "open"
    /\ stage = "over" => raw # "open"
    /\ stage = "token" => ~setup.direct
    /\ stage \in Before \ {"token"} => auth = ~setup.direct
    /\ stage \in {"confirm", "tunnel"} => granted = TRUE
    /\ replies = <<"2xx">> => granted = TRUE

\* The provider runs for the probe and for the token only, so that its last answer
\* stands when the client is told of it.
Calls ==
    /\ probed \in BOOLEAN
    /\ ~probed => stage \in {"token", "start"}
    /\ probed /\ stage # "token" => pc = "idle"
    /\ \A r \in {"errCredentialFailure", "errNegotiationFailure"} :
          replies = <<r>> => raw = "none" /\ ret # "token"

SInv == IInv /\ Outcome /\ Calls

\* The handler returns with at most one answer, and closes what it opened.
LEMMA ReturnOutcome ==
  ASSUME Outcome, NEW reply, Conn!Return(reply), stage \in Before \cup {"tunnel"},
         \/ reply = <<>> /\ (stage = "tunnel" \/ gone = TRUE)
         \/ stage # "tunnel" /\ \E r \in Answers \ {"2xx"} : reply = <<r>>,
         UNCHANGED <<setup, auth, gone, granted>>
  PROVE  /\ Outcome'
         /\ stage' = "over"
         /\ replies' = reply \/ (reply = <<>> /\ replies' = replies)
         /\ stage \in {"token", "start", "dial"} => raw' = "none"
<1>1. stage' = "over" /\ raw' # "open" /\ (raw = "none" => raw' = "none")
  BY DEF Conn!Return
<1>2. CASE reply = <<>>
  <2>1. replies' = replies
    BY <1>2 DEF Conn!Return, Outcome, Before
  <2> QED
    BY <1>1, <1>2, <2>1 DEF Outcome, Before, Dialled, Answers
<1>3. CASE stage # "tunnel" /\ \E r \in Answers \ {"2xx"} : reply = <<r>>
  <2>1. PICK r \in Answers \ {"2xx"} : reply = <<r>>
    BY <1>3
  <2>2. replies = <<>>
    BY <1>3 DEF Outcome, Before
  <2>3. replies' = <<>> \o <<r>>
    BY <2>1, <2>2 DEF Conn!Return
  <2>4. <<>> \o <<r>> = <<r>>
    OBVIOUS
  <2>5. replies' = <<r>>
    BY <2>3, <2>4
  <2> QED
    BY <1>1, <2>1, <2>5 DEF Outcome, Before, Dialled
<1> QED
  BY <1>2, <1>3

\* Every step that establishes the connection keeps Outcome and the token's stage,
\* and none of them gives one of the answers that speak of the token.
LEMMA ConnectingOutcome ==
  ASSUME Outcome, Conn!Connecting
  PROVE  /\ Outcome'
         /\ (stage' = "token") = (stage = "token")
         /\ \A r \in {"errCredentialFailure", "errNegotiationFailure"} :
               replies' = <<r>> => replies = <<r>> /\ raw' = raw
<1> DEFINE Same == (stage' = "token") = (stage = "token")
           Kept == \A r \in {"errCredentialFailure", "errNegotiationFailure"} :
                      replies' = <<r>> => replies = <<r>> /\ raw' = raw
<1> SUFFICES Outcome' /\ Same /\ Kept
  OBVIOUS
\* A return without an answer, or with one that does not speak of the token.
<1>a. ASSUME NEW reply, Conn!Return(reply), stage \in (Before \ {"token"}) \cup {"tunnel"},
             \/ reply = <<>> /\ (stage = "tunnel" \/ gone = TRUE)
             \/ /\ stage # "tunnel"
                /\ \E r \in Answers \ {"2xx", "errCredentialFailure", "errNegotiationFailure"} :
                      reply = <<r>>,
             UNCHANGED <<setup, auth, gone, granted>>
      PROVE  Outcome' /\ Same /\ Kept
  <2>1. Outcome' /\ stage' = "over" /\ (replies' = reply \/ (reply = <<>> /\ replies' = replies))
    BY <1>a, ReturnOutcome, Zenon
  <2>2. \A r \in {"errCredentialFailure", "errNegotiationFailure"} : replies # <<r>>
    BY <1>a DEF Outcome, Before
  <2>3. \A r \in {"errCredentialFailure", "errNegotiationFailure"} : replies' # <<r>>
    BY <1>a, <2>1, <2>2
  <2> QED
    BY <1>a, <2>1, <2>3
<1>1. CASE Conn!Dial
  BY <1>1 DEF Conn!Dial, Outcome, Before, Dialled
<1>2. CASE Conn!TimerExpires \/ Conn!ClientGoes
  BY <1>2 DEF Conn!TimerExpires, Conn!ClientGoes, Outcome, Before, Dialled
<1>3. CASE Conn!Connected
  BY <1>3 DEF Conn!Connected, Conn!Opened, Conn!Setups, Outcome, Before, Dialled
<1>4. CASE Conn!HandshakeDone
  BY <1>4 DEF Conn!HandshakeDone, Conn!Opened, Conn!Setups, Outcome, Before, Dialled
<1>5. CASE Conn!FailedDial
  <2>1. PICK err : Conn!DialFails(err) \/ Conn!HandshakeFails(err)
    BY <1>5 DEF Conn!FailedDial
  <2>2. /\ Conn!Return(<<Conn!HandleDialError(err)>>) /\ stage \in {"dial", "handshake"}
        /\ UNCHANGED <<setup, auth, gone, granted>>
    BY <2>1 DEF Conn!DialFails, Conn!HandshakeFails
  <2>3. Conn!HandleDialError(err) \in {"errConnectionTimeout", "errConnectionRefused"}
    BY DEF Conn!HandleDialError
  <2> QED
    BY <1>a, <2>2, <2>3, Zenon DEF Before, Answers
<1>6. CASE Conn!WriteProxy
  BY <1>6 DEF Conn!WriteProxy, Outcome, Before, Dialled
<1>7. CASE Conn!WriteProxyFails
  BY <1>a, <1>7, Zenon DEF Conn!WriteProxyFails, Before, Answers
<1>8. CASE Conn!ReadInterim
  <2>1. CASE gone /\ ~setup.http10 /\ Conn!Return(<<>>)
    <3>1. gone = TRUE
      BY <2>1
    <3> QED
      BY <1>a, <1>8, <2>1, <3>1 DEF Conn!ReadInterim, Before
  <2>2. CASE UNCHANGED <<stage, timer, raw, replies>>
    BY <1>8, <2>2 DEF Conn!ReadInterim, Outcome
  <2> QED
    BY <1>8, <2>1, <2>2 DEF Conn!ReadInterim
<1>9. ASSUME NEW reply \in Conn!ResponseErrors, Conn!ReadFails(reply)
      PROVE  Outcome' /\ Same /\ Kept
  BY <1>a, <1>9, Zenon DEF Conn!ReadFails, Conn!ResponseErrors, Before, Answers
<1>10. CASE Conn!Rejected
  BY <1>a, <1>10, Zenon DEF Conn!Rejected, Before, Answers
<1>11. CASE Conn!Accepted
  BY <1>11 DEF Conn!Accepted, Outcome, Before, Dialled
<1>12. CASE Conn!WriteConnectOK
  BY <1>12 DEF Conn!WriteConnectOK, Outcome, Before, Dialled
<1>13. CASE Conn!WriteConnectOKFails
  BY <1>a, <1>13 DEF Conn!WriteConnectOKFails, Before
<1>14. CASE Conn!TunnelEnds
  BY <1>a, <1>14 DEF Conn!TunnelEnds
<1> QED
  BY <1>1, <1>2, <1>3, <1>4, <1>5, <1>6, <1>7, <1>8, <1>9, <1>10, <1>11, <1>12, <1>13, <1>14
     DEF Conn!Connecting

LEMMA InitSInv == SessionInit => SInv
<1> SUFFICES ASSUME SessionInit PROVE SInv
  OBVIOUS
<1>1. IInv
  BY InitIInv DEF SessionInit
<1>2. Outcome
  BY Zenon DEF SessionInit, Conn!Init, Conn!Setups, Outcome, Before, Dialled, Answers
<1>3. Calls
  BY Zenon DEF SessionInit, Init, Conn!Init, Conn!Setups, Calls
<1> QED
  BY <1>1, <1>2, <1>3 DEF SInv

\* A token that could not be had is answered by the error it failed with.
LEMMA TokenFailureOutcome ==
  ASSUME Outcome, NEW err, Conn!GetTokenFails(err)
  PROVE  /\ Outcome'
         /\ stage' = "over" /\ raw' = "none"
         /\ err = "CircuitBreakerError" => replies' = <<"errCircuitBreakerOpen">>
<1> DEFINE answer == Conn!TokenErrorToProxyError(err)
<1>1. answer \in {"errCircuitBreakerOpen", "errCredentialFailure", "errNegotiationFailure",
                  "errTokenAcquisition"}
  BY DEF Conn!TokenErrorToProxyError
<1>2. answer \in Answers \ {"2xx"}
  BY <1>1 DEF Answers
<1>3. /\ Conn!Return(<<answer>>) /\ stage = "token"
      /\ UNCHANGED <<setup, auth, gone, granted>>
  BY DEF Conn!GetTokenFails
<1>4. stage \in Before
  BY <1>3 DEF Before
<1> HIDE DEF answer
<1>5. /\ Outcome' /\ stage' = "over" /\ raw' = "none"
      /\ replies' = <<answer>> \/ (<<answer>> = <<>> /\ replies' = replies)
  BY <1>2, <1>3, <1>4, ReturnOutcome, Zenon
<1>6. replies' = <<answer>>
  BY <1>5
<1>7. err = "CircuitBreakerError" => answer = "errCircuitBreakerOpen"
  BY DEF answer, Conn!TokenErrorToProxyError
<1> QED
  BY <1>5, <1>6, <1>7

LEMMA NextSInv == SInv /\ [SessionNext]_sessionVars => SInv'
<1> SUFFICES ASSUME SInv, [SessionNext]_sessionVars PROVE SInv'
  OBVIOUS
<1>1. IInv'
  BY StepOfProvider, NextIInv DEF SInv
<1> SUFFICES Outcome' /\ Calls'
  BY <1>1 DEF SInv
<1>2. ASSUME UNCHANGED connVars PROVE Outcome'
  BY <1>2 DEF SInv, connVars, Outcome
<1>3. CASE Asks
  <2>1. Calls'
    <3>1. replies = <<>>
      BY <1>3 DEF Asks, SInv, Outcome, Calls, Before
    <3> QED
      BY <1>3, <3>1 DEF Asks, connVars, GetToken, SInv, Calls
  <2> QED
    BY <1>2, <1>3, <2>1 DEF Asks
<1>4. CASE Works
  <2>1. pc # "idle"
    BY <1>4 DEF Works, Work, Proceed, Fail, AppendMessage, ReturnError, CopyToken, Encode
  <2>2. replies = <<>> /\ (probed => stage = "token")
    BY <2>1 DEF SInv, Outcome, Calls, Before
  <2>3. Calls'
    BY <1>4, <2>2 DEF Works, connVars, SInv, Calls
  <2> QED
    BY <1>2, <1>4, <2>3 DEF Works
<1>5. CASE ProbeReturns
  <2>1. replies = <<>>
    BY <1>5 DEF ProbeReturns, SInv, Outcome, Calls, Before
  <2>2. Calls'
    BY <1>5, <2>1 DEF ProbeReturns, connVars, SInv, Calls
  <2> QED
    BY <1>2, <1>5, <2>2 DEF ProbeReturns
<1>6. CASE TokenReturns
  <2>1. CASE ret' = "token"
    <3>1. Conn!GetToken /\ pc' = "idle" /\ probed' = probed /\ probed
      BY <1>6, <2>1 DEF TokenReturns
    <3>2. Outcome'
      BY <3>1, Zenon DEF Conn!GetToken, SInv, Outcome, Before, Dialled
    <3>3. replies' = <<>>
      BY <3>1 DEF Conn!GetToken, SInv, Outcome, Before
    <3> QED
      BY <3>1, <3>2, <3>3 DEF SInv, Calls
  <2>2. CASE ret' # "token"
    <3>1. Conn!GetTokenFails(ret') /\ pc' = "idle" /\ probed' = probed /\ probed
      BY <1>6, <2>2 DEF TokenReturns
    <3>2. Outcome' /\ stage' = "over" /\ raw' = "none"
      BY <3>1, TokenFailureOutcome DEF SInv
    <3> QED
      BY <2>2, <3>1, <3>2 DEF SInv, Calls
  <2> QED
    BY <2>1, <2>2
<1>7. CASE BreakerRefuses
  <2>1. /\ Outcome' /\ stage' = "over" /\ replies' = <<"errCircuitBreakerOpen">>
    BY <1>7, TokenFailureOutcome DEF BreakerRefuses, SInv
  <2> QED
    BY <1>7, <2>1 DEF BreakerRefuses, vars, SInv, Calls
<1>8. CASE Connects
  <2>1. /\ Outcome'
        /\ (stage' = "token") = (stage = "token")
        /\ \A r \in {"errCredentialFailure", "errNegotiationFailure"} :
              replies' = <<r>> => replies = <<r>> /\ raw' = raw
    BY <1>8, ConnectingOutcome DEF Connects, SInv
  <2> QED
    BY <1>8, <2>1 DEF Connects, vars, SInv, Calls
<1>9. CASE UNCHANGED sessionVars
  BY <1>2, <1>9 DEF sessionVars, vars, connVars, SInv, Calls
<1> QED
  BY <1>3, <1>4, <1>5, <1>6, <1>7, <1>8, <1>9 DEF SessionNext

\* However establishing a connection ends (dialAndAuthUpstream, dialUpstream,
\* tunnelViaUpstream, handleConnectTunnel), nothing is left open, the client has
\* one final answer or has gone, 2xx is said only after the other side agreed, and
\* the token goes upstream only: for any number of interim answers and any buffer
\* of the provider's.
THEOREM SetUpIsWhole == SessionSpec => []WholeOutcome
<1>1. SInv => WholeOutcome
  <2> SUFFICES ASSUME SInv PROVE WholeOutcome
    OBVIOUS
  <2>1. stage = "over" => raw # "open" /\ (replies = <<>> => gone)
    BY DEF SInv, Outcome
  <2>2. Len(replies) <= 1
    <3>1. replies = <<>> \/ \E r : replies = <<r>>
      BY DEF SInv, Outcome
    <3>2. CASE replies = <<>>
      <4>1. Len(<<>>) = 0
        OBVIOUS
      <4>2. Len(replies) = 0
        BY <3>2, <4>1, Zenon
      <4> QED
        BY <4>2
    <3>3. ASSUME NEW r, replies = <<r>> PROVE Len(replies) <= 1
      <4>1. Len(<<r>>) = 1
        OBVIOUS
      <4>2. Len(replies) = 1
        BY <3>3, <4>1, Zenon
      <4> QED
        BY <4>2
    <3> QED
      BY <3>1, <3>2, <3>3
  <2>3. \A r \in {"errCredentialFailure", "errNegotiationFailure"} :
          replies = <<r>> => raw = "none" /\ ret # "token" /\ held = {}
    <3> SUFFICES ASSUME NEW r \in {"errCredentialFailure", "errNegotiationFailure"},
                        replies = <<r>>
                 PROVE  raw = "none" /\ ret # "token" /\ held = {}
      OBVIOUS
    <3>1. stage = "over"
      BY DEF SInv, Outcome
    <3>2. pc = "idle"
      BY <3>1 DEF SInv, Calls
    <3> QED
      BY <3>2 DEF SInv, IInv, MayHold, Calls
  <2>4. stage \in {"request", "ready"} => raw = "open" /\ auth # setup.direct
    BY DEF SInv, Outcome, Conn!Setups, Before, Dialled
  <2> QED
    BY <2>1, <2>2, <2>3, <2>4 DEF SInv, Outcome, Dialled, WholeOutcome
<1> QED
  BY <1>1, InitSInv, NextSInv, PTL DEF SessionSpec
=============================================================================
