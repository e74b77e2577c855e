----------------------- MODULE TokenAcquisitionProofs -----------------------
(***************************************************************************)
(* Proofs about Gokrb5Provider for any set of callers, any passwords and   *)
(* any number of edits; and that what breaker and provider are proved to   *)
(* do apart holds for the two together, where the breaker cannot wedge.    *)
(***************************************************************************)
EXTENDS TokenAcquisition, TLAPS

-----------------------------------------------------------------------------
(* The provider by itself.                                                 *)

\* p.mu is held from the check to the return.
Exclusive == \A c \in Callers : pc[c] \notin {"idle", "lock"} => mu = c

\* A caller past the guard has no rejection standing against it, and one that logs
\* in has no ticket that is still good.
PastTheGuard ==
    \A c \in Callers :
        /\ pc[c] \in {"ticket", "exchange", "context"} => ~passwordRejected
        /\ pc[c] = "exchange" => ticketClient # "fresh"

\* The guard knows whether the present content of the file has been rejected.
GuardKnows ==
    /\ lastRejected <= version
    /\ ~closed /\ passwordRejected /\ lastRejected = version => password = rejectedFingerprint
    /\ ~closed /\ ~passwordRejected => lastRejected < version

\* A login is with a content the file has, or had.
LoginIsOfVersion ==
    \A c \in Callers : pc[c] = "exchange" =>
        /\ lastRejected < login[c].version
        /\ login[c].version <= version
        /\ login[c].version = version => login[c].password = password

IInv == /\ TypeOK
        /\ Exclusive
        /\ ClosedIsQuiet
        /\ PastTheGuard
        /\ NoGoodTicketWithheld
        /\ GuardKnows
        /\ LoginIsOfVersion

LEMMA InitIInv == Init => IInv
<1> SUFFICES ASSUME Init PROVE IInv
  OBVIOUS
<1> USE ProviderAssumption
<1>1. TypeOK
  BY Zenon DEF Init, TypeOK, NoLogin
<1>2. \A c \in Callers : pc[c] = "idle"
  BY DEF Init
<1>3. Exclusive /\ ClosedIsQuiet /\ PastTheGuard /\ LoginIsOfVersion
  BY <1>2 DEF Exclusive, ClosedIsQuiet, PastTheGuard, LoginIsOfVersion
<1>4. NoGoodTicketWithheld /\ GuardKnows
  BY DEF Init, NoGoodTicketWithheld, GuardKnows
<1> QED
  BY <1>1, <1>3, <1>4 DEF IInv

LEMMA NextIInv == IInv /\ [Next]_vars => IInv'
<1> SUFFICES ASSUME IInv, [Next]_vars PROVE IInv'
  OBVIOUS
<1> USE ProviderAssumption DEF IInv, TypeOK, Exclusive, ClosedIsQuiet, PastTheGuard,
        NoGoodTicketWithheld, GuardKnows, LoginIsOfVersion, NoLogin, closeVars, guardVars, worldVars
<1>1. ASSUME NEW c \in Callers, Call(c) PROVE IInv'
  BY <1>1 DEF Call
<1>2. ASSUME NEW c \in Callers, Acquire(c) PROVE IInv'
  BY <1>2 DEF Acquire
<1>3. ASSUME NEW c \in Callers, Refuse(c) PROVE IInv'
  BY <1>3 DEF Refuse, ReturnToken
<1>4. ASSUME NEW c \in Callers, PassGuard(c) PROVE IInv'
  <2>1. CASE passwordRejected
    <3>1. /\ passwordRejected' = FALSE
          /\ pc' = [pc EXCEPT ![c] = "ticket"] /\ pc[c] = "check" /\ ~closed
          /\ ticker' = "stopped" /\ tick' \in BOOLEAN
          /\ UNCHANGED <<mu, login, ret, closeVars, ticketClient, rejectedFingerprint, stop, warner,
                         worldVars, lastRejected>>
      BY <1>4, <2>1, Zenon DEF PassGuard, LiftGuard, StopTicker
    <3>2. lastRejected < version
      BY <1>4, <2>1 DEF PassGuard, Lifted
    <3>3. passwordRejected' \in BOOLEAN
      BY <3>1, Zenon
    <3>4. TypeOK'
      BY <3>1, <3>3
    <3> QED
      BY <3>1, <3>2, <3>4
  <2>2. CASE ~passwordRejected
    BY <1>4, <2>2 DEF PassGuard
  <2> QED
    BY <2>1, <2>2
<1>5. ASSUME NEW c \in Callers, ReuseTicket(c) PROVE IInv'
  BY <1>5 DEF ReuseTicket
<1>6. ASSUME NEW c \in Callers, BeginLogin(c) PROVE IInv'
  BY <1>6 DEF BeginLogin
<1>7. ASSUME NEW c \in Callers, PasswordUnavailable(c) PROVE IInv'
  BY <1>7 DEF PasswordUnavailable, ReturnToken
<1>8. ASSUME NEW c \in Callers, LoginSucceeds(c) PROVE IInv'
  <2>1. TypeOK'
    BY <1>8 DEF LoginSucceeds
  <2> QED
    BY <1>8, <2>1 DEF LoginSucceeds
<1>9. ASSUME NEW c \in Callers, LoginRejected(c) PROVE IInv'
  <2>1. /\ passwordRejected' = TRUE
        /\ rejectedFingerprint' \in Passwords \cup {NoPassword}
        /\ ticker' = "running" /\ tick' \in BOOLEAN
        /\ stop' \in {stop, "open"} /\ warner' \in {warner, "select"}
        /\ UNCHANGED <<closeVars, ticketClient, worldVars>>
    BY <1>9, Zenon DEF LoginRejected, RejectPassword
  <2>2. TypeOK'
    BY <1>9, <2>1 DEF LoginRejected, ReturnToken
  <2>3. /\ pc' = [pc EXCEPT ![c] = "idle"] /\ mu' = NoCaller /\ pc[c] = "exchange"
        /\ lastRejected' = login[c].version /\ rejectedFingerprint' = login[c].password
    BY <1>9 DEF LoginRejected, ReturnToken, RejectPassword
  <2>4. \A d \in Callers : pc'[d] \in {"idle", "lock"}
    BY <2>3
  <2>5. GuardKnows'
    BY <2>1, <2>3
  <2>6. ClosedIsQuiet' /\ NoGoodTicketWithheld'
    BY <2>1, <2>3
  <2> QED
    BY <2>2, <2>4, <2>5, <2>6
<1>10. ASSUME NEW c \in Callers, LoginFails(c) PROVE IInv'
  BY <1>10 DEF LoginFails, ReturnToken
<1>11. ASSUME NEW c \in Callers, NEW ok \in BOOLEAN, InitSecContext(c, ok) PROVE IInv'
  BY <1>11 DEF InitSecContext, ReturnToken
<1>12. CASE WarnerTicks
  <2>1. /\ tick' \in BOOLEAN /\ warner' = "lock"
        /\ UNCHANGED <<mu, pc, login, ret, closeVars, ticketClient, passwordRejected,
                       rejectedFingerprint, ticker, stop, worldVars, lastRejected>>
    BY <1>12, Zenon DEF WarnerTicks
  <2> QED
    BY <2>1
<1>13. CASE WarnerStops
  BY <1>13 DEF WarnerStops
<1>14. CASE WarnerRechecks
  <2>1. CASE ~closed /\ passwordRejected /\ Lifted
    <3>1. /\ passwordRejected' = FALSE
          /\ ticker' = "stopped" /\ tick' \in BOOLEAN
          /\ warner' \in {"none", "select", "lock", "exited"}
          /\ UNCHANGED <<mu, pc, login, ret, closeVars, ticketClient, rejectedFingerprint, stop,
                         worldVars, lastRejected>>
      BY <1>14, <2>1, Zenon DEF WarnerRechecks, LiftGuard, StopTicker
    <3>2. lastRejected < version
      BY <2>1 DEF Lifted
    <3> QED
      BY <3>1, <3>2, Zenon
  <2>2. CASE ~(~closed /\ passwordRejected /\ Lifted)
    BY <1>14, <2>2 DEF WarnerRechecks
  <2> QED
    BY <2>1, <2>2
<1>15. CASE CallClose
  BY <1>15 DEF CallClose
<1>16. CASE Close
  BY <1>16, Zenon DEF Close
<1>17. CASE TicketRefreshDue
  BY <1>17 DEF TicketRefreshDue
<1>18. CASE TickerFires
  BY <1>18 DEF TickerFires
<1>19. ASSUME NEW w \in Passwords, EditPasswordFile(w) PROVE IInv'
  BY <1>19 DEF EditPasswordFile
<1>20. ASSUME NEW w \in Passwords, RotateAccountPassword(w) PROVE IInv'
  BY <1>20 DEF RotateAccountPassword
<1>21. CASE ChmodPasswordFile
  BY <1>21 DEF ChmodPasswordFile
<1>22. CASE UNCHANGED vars
  BY <1>22 DEF vars
<1> QED
  BY <1>1, <1>2, <1>3, <1>4, <1>5, <1>6, <1>7, <1>8, <1>9, <1>10, <1>11, <1>12, <1>13,
     <1>14, <1>15, <1>16, <1>17, <1>18, <1>19, <1>20, <1>21, <1>22 DEF Next, Step, Warner, World

\* The ticker runs while a rejection stands; IInv is needed for a rejection to come
\* only before Close.
LEMMA NextWarnings == IInv /\ WarningsFollowRejection /\ [Next]_vars => WarningsFollowRejection'
<1> SUFFICES ASSUME IInv, WarningsFollowRejection, [Next]_vars PROVE WarningsFollowRejection'
  OBVIOUS
<1> USE DEF WarningsFollowRejection, closeVars, guardVars
<1>1. ASSUME NEW c \in Callers, PassGuard(c) PROVE WarningsFollowRejection'
  BY <1>1 DEF PassGuard, LiftGuard, StopTicker
<1>2. ASSUME NEW c \in Callers, LoginRejected(c) PROVE WarningsFollowRejection'
  <2>1. ~closed
    BY <1>2 DEF LoginRejected, IInv, TypeOK, ClosedIsQuiet
  <2> QED
    BY <1>2, <2>1 DEF LoginRejected, RejectPassword
<1>3. CASE WarnerTicks
  BY <1>3 DEF WarnerTicks
<1>4. CASE WarnerStops
  BY <1>4 DEF WarnerStops
<1>5. CASE WarnerRechecks
  BY <1>5 DEF WarnerRechecks, LiftGuard, StopTicker
<1>6. CASE Close
  BY <1>6 DEF Close
<1>7. CASE TickerFires
  BY <1>7 DEF TickerFires
<1>8. CASE UNCHANGED <<closed, passwordRejected, ticker, stop, warner>>
  BY <1>8
<1>9. ASSUME NEW c \in Callers, Call(c) \/ Acquire(c) \/ Step(c), ~PassGuard(c), ~LoginRejected(c)
      PROVE  UNCHANGED <<closed, passwordRejected, ticker, stop, warner>>
  BY <1>9 DEF Call, Acquire, Step, Refuse, ReuseTicket, BeginLogin, PasswordUnavailable,
     LoginSucceeds, LoginFails, InitSecContext
<1>10. ASSUME World, ~TickerFires PROVE UNCHANGED <<closed, passwordRejected, ticker, stop, warner>>
  BY <1>10 DEF World, TicketRefreshDue, EditPasswordFile, RotateAccountPassword, ChmodPasswordFile
<1>11. CASE CallClose
  BY <1>11 DEF CallClose
<1>12. CASE UNCHANGED vars
  BY <1>12 DEF vars
<1> QED
  BY <1>1, <1>2, <1>3, <1>4, <1>5, <1>6, <1>7, <1>8, <1>9, <1>10, <1>11, <1>12 DEF Next, Warner

\* No content of the password file is sent to the KDC again once the KDC has
\* rejected it, for any number of callers and edits (auth_gokrb5.go:344-369).
THEOREM RejectedIsNotResent == Spec => []LockoutGuard
<1>1. IInv => LockoutGuard
  BY DEF IInv, TypeOK, LoginIsOfVersion, LockoutGuard
<1> QED
  BY InitIInv, NextIInv, <1>1, PTL DEF Spec

\* A standing rejection never withholds a ticket that is still good
\* (auth_gokrb5.go:218-233).
THEOREM GoodTicketsAreUsed == Spec => []NoGoodTicketWithheld
<1>1. IInv => NoGoodTicketWithheld
  BY DEF IInv
<1> QED
  BY InitIInv, NextIInv, <1>1, PTL DEF Spec

\* Nobody logs in or uses a ticket once Close has returned
\* (auth_gokrb5.go:191-193, 382-400).
THEOREM QuietAfterClose == Spec => []ClosedIsQuiet
<1>1. IInv => ClosedIsQuiet
  BY DEF IInv
<1> QED
  BY InitIInv, NextIInv, <1>1, PTL DEF Spec

\* The warnings run exactly while a rejection stands, are started once, and end with
\* Close (auth_gokrb5.go:307-318, 360-364, 383-400).
THEOREM WarningsAreExact == Spec => []WarningsFollowRejection
<1>1. Init => WarningsFollowRejection
  BY DEF Init, WarningsFollowRejection
<1> QED
  BY InitIInv, NextIInv, NextWarnings, <1>1, PTL DEF Spec

-----------------------------------------------------------------------------
(* The provider behind the breaker.                                        *)

BP == INSTANCE CircuitBreakerProofs WITH mu <- cbMu, pc <- cbPc, ret <- cbRet

\* Each step of the composition is one of the provider, or none.
LEMMA StepOfProvider == [AcquisitionNext]_acquisitionVars => [Next]_vars
  BY DEF AcquisitionNext, acquisitionVars, Ask, AcquireBreaker, CircuitOpen, Admit, AcquireProvider,
     Run, TimeoutElapses, Others, Next

\* Each step of the composition is one of the breaker, or none.
LEMMA StepOfBreaker == [AcquisitionNext]_acquisitionVars => [BP!Next]_(BP!vars)
<1> SUFFICES ASSUME [AcquisitionNext]_acquisitionVars PROVE [BP!Next]_(BP!vars)
  OBVIOUS
<1>1. ASSUME NEW c \in Callers, Breaker!Call(c) PROVE BP!Call(c)
  BY <1>1 DEF Breaker!Call, BP!Call
<1>2. ASSUME NEW c \in Callers, Breaker!Acquire(c) PROVE BP!Acquire(c)
  BY <1>2 DEF Breaker!Acquire, BP!Acquire
<1>3. ASSUME NEW c \in Callers, Breaker!Refuse(c) PROVE BP!Refuse(c)
  BY <1>3 DEF Breaker!Refuse, BP!Refuse, Breaker!CurrentState, BP!CurrentState, Breaker!SetState,
     BP!SetState, Breaker!Admits, BP!Admits, Breaker!MaxRequests, BP!MaxRequests,
     Breaker!Regenerate, BP!Regenerate
<1>4. ASSUME NEW c \in Callers, Breaker!Admit(c) PROVE BP!Admit(c)
  BY <1>4 DEF Breaker!Admit, BP!Admit, Breaker!CurrentState, BP!CurrentState, Breaker!SetState,
     BP!SetState, Breaker!Admits, BP!Admits, Breaker!MaxRequests, BP!MaxRequests,
     Breaker!CountRequest, BP!CountRequest, Breaker!Regenerate, BP!Regenerate
<1>5. ASSUME NEW c \in Callers, NEW ok \in BOOLEAN, Breaker!Return(c, ok) PROVE BP!Return(c, ok)
  BY <1>5 DEF Breaker!Return, BP!Return, Breaker!CurrentState, BP!CurrentState, Breaker!SetState,
     BP!SetState, Breaker!OnSuccess, BP!OnSuccess, Breaker!OnFailure, BP!OnFailure,
     Breaker!CountFailure, BP!CountFailure, Breaker!ReadyToTrip, BP!ReadyToTrip,
     Breaker!Regenerate, BP!Regenerate
<1>6. Breaker!TimeoutElapses => BP!TimeoutElapses
  BY DEF Breaker!TimeoutElapses, BP!TimeoutElapses
<1>7. UNCHANGED breakerVars => UNCHANGED BP!vars
  BY DEF breakerVars, BP!vars
<1> QED
  BY <1>1, <1>2, <1>3, <1>4, <1>5, <1>6, <1>7, Zenon DEF AcquisitionNext, acquisitionVars,
     Ask, AcquireBreaker, CircuitOpen, Admit, AcquireProvider, Run, TimeoutElapses, Others, BP!Next

\* A caller is inside the provider exactly while the breaker has it inside Execute.
Together == \A c \in Callers : cbPc[c] = "inner" <=> pc[c] # "idle"

CInv == IInv /\ BP!IInv /\ Together

LEMMA InitCInv == AcquisitionInit => CInv
<1> SUFFICES ASSUME AcquisitionInit PROVE CInv
  OBVIOUS
<1>1. IInv
  BY InitIInv DEF AcquisitionInit
<1>2. BP!Init
  BY DEF AcquisitionInit, Breaker!Init, BP!Init, Breaker!SetState, BP!SetState
<1>3. BP!IInv
  BY <1>2, BP!InitIInv, ProviderAssumption, ThresholdAssumption
<1>4. Together
  BY DEF AcquisitionInit, Breaker!Init, Init, Together
<1> QED
  BY <1>1, <1>3, <1>4 DEF CInv

LEMMA NextCInv == CInv /\ [AcquisitionNext]_acquisitionVars => CInv'
<1> SUFFICES ASSUME CInv, [AcquisitionNext]_acquisitionVars PROVE CInv'
  OBVIOUS
<1>1. IInv'
  BY StepOfProvider, NextIInv DEF CInv
<1>2. BP!IInv'
  BY StepOfBreaker, BP!NextIInv, ProviderAssumption, ThresholdAssumption DEF CInv
<1>3. Together'
  <2> USE DEF Together
  <2>0. /\ Together
        /\ pc \in [Callers -> {"idle", "lock", "check", "ticket", "exchange", "context"}]
        /\ cbPc \in [Callers -> {"idle", "lock", "execute", "inner"}]
    BY DEF CInv, IInv, TypeOK, BP!IInv, BP!TypeOK
  <2>1. ASSUME NEW c \in Callers, Ask(c) PROVE Together'
    BY <2>0, <2>1 DEF Ask, Breaker!Call, vars
  <2>2. ASSUME NEW c \in Callers, AcquireBreaker(c) PROVE Together'
    BY <2>0, <2>2 DEF AcquireBreaker, Breaker!Acquire, vars
  <2>3. ASSUME NEW c \in Callers, CircuitOpen(c) PROVE Together'
    BY <2>0, <2>3 DEF CircuitOpen, Breaker!Refuse, vars
  <2>4. ASSUME NEW c \in Callers, Admit(c) PROVE Together'
    BY <2>0, <2>4 DEF Admit, Breaker!Admit, Call
  <2>5. ASSUME NEW c \in Callers, AcquireProvider(c) PROVE Together'
    BY <2>0, <2>5 DEF AcquireProvider, Acquire, breakerVars
  <2>6. ASSUME NEW c \in Callers, Run(c) PROVE Together'
    <3>1. pc[c] # "idle" /\ \A d \in Callers \ {c} : pc'[d] = pc[d]
      BY <2>0, <2>6 DEF Run, Step, Refuse, PassGuard, ReuseTicket, BeginLogin, PasswordUnavailable,
         LoginSucceeds, LoginRejected, LoginFails, InitSecContext, ReturnToken
    <3>2. CASE pc'[c] = "idle"
      BY <2>0, <2>6, <3>1, <3>2 DEF Run, Breaker!Return
    <3>3. CASE pc'[c] # "idle"
      BY <2>0, <2>6, <3>1, <3>3 DEF Run, breakerVars
    <3> QED
      BY <3>2, <3>3
  <2>7. CASE TimeoutElapses
    BY <2>0, <2>7 DEF TimeoutElapses, Breaker!TimeoutElapses, vars
  <2>8. CASE Others
    BY <2>0, <2>8 DEF Others, breakerVars, Warner, World, WarnerTicks, WarnerStops, WarnerRechecks,
       CallClose, Close, TicketRefreshDue, TickerFires, EditPasswordFile, RotateAccountPassword,
       ChmodPasswordFile
  <2>9. CASE UNCHANGED acquisitionVars
    BY <2>0, <2>9 DEF acquisitionVars, breakerVars, vars
  <2> QED
    BY <2>1, <2>2, <2>3, <2>4, <2>5, <2>6, <2>7, <2>8, <2>9 DEF AcquisitionNext
<1> QED
  BY <1>1, <1>2, <1>3 DEF CInv

\* A half-open circuit always has its probe under way in the provider, for any
\* number of callers (circuit_breaker.go:78-102).
THEOREM BreakerCannotWedge == AcquisitionSpec => []NeverWedgedHalfOpen
<1>1. CInv => NeverWedgedHalfOpen
  BY DEF CInv, BP!IInv, Together, NeverWedgedHalfOpen
<1> QED
  BY InitCInv, NextCInv, <1>1, PTL DEF AcquisitionSpec

\* Behind the breaker, too, no rejected content is sent again, warnings follow
\* rejections, good tickets are used and a closed provider is quiet: every step of
\* the composition is one of the provider, or none.
THEOREM AcquisitionIsGuarded ==
  AcquisitionSpec =>
    [](LockoutGuard /\ WarningsFollowRejection /\ NoGoodTicketWithheld /\ ClosedIsQuiet)
<1>1. AcquisitionInit => IInv /\ WarningsFollowRejection
  BY InitIInv DEF AcquisitionInit, Init, WarningsFollowRejection
<1>2. IInv /\ WarningsFollowRejection /\ [AcquisitionNext]_acquisitionVars
        => (IInv /\ WarningsFollowRejection)'
  BY StepOfProvider, NextIInv, NextWarnings
<1>3. IInv => LockoutGuard /\ NoGoodTicketWithheld /\ ClosedIsQuiet
  BY DEF IInv, TypeOK, LoginIsOfVersion, LockoutGuard
<1> QED
  BY <1>1, <1>2, <1>3, PTL DEF AcquisitionSpec

\* The account's login budget is kept by what buildProvider assembles: the provider
\* spends and restores it only as LoginBudget allows, for any number of sessions,
\* passwords and edits (cli.go buildProvider, circuit_breaker.go:45-49).
THEOREM AcquisitionKeepsBudget == AcquisitionSpec => Breaker!KeepsLoginBudget
<1> USE DEF BP!Budget, Breaker!Budget, BP!Attempts, Breaker!Attempts, BP!Cardinality, Breaker!Cardinality
<1>1. BP!Budget = Breaker!Budget /\ BP!Attempts = Breaker!Attempts
  OBVIOUS
<1>2. BP!Budget' = Breaker!Budget' /\ BP!Attempts' = Breaker!Attempts'
  OBVIOUS
<1> HIDE DEF BP!Budget, Breaker!Budget, BP!Attempts, Breaker!Attempts
<1>3. AcquisitionInit => Breaker!Promise!Init
  <2> SUFFICES ASSUME AcquisitionInit PROVE Breaker!Promise!Init
    OBVIOUS
  <2>1. BP!Init
    BY DEF AcquisitionInit, Breaker!Init, BP!Init, Breaker!SetState, BP!SetState
  <2>2. BP!Promise!Init
    BY <2>1, BP!InitRefines, ProviderAssumption, ThresholdAssumption
  <2> QED
    BY <1>1, <2>2 DEF BP!Promise!Init, Breaker!Promise!Init
<1>4. CInv /\ [AcquisitionNext]_acquisitionVars
        => [Breaker!Promise!Next]_(Breaker!Promise!vars)
  <2> SUFFICES ASSUME CInv, [AcquisitionNext]_acquisitionVars
               PROVE  [Breaker!Promise!Next]_(Breaker!Promise!vars)
    OBVIOUS
  <2>1. [BP!Promise!Next]_(BP!Promise!vars)
    BY StepOfBreaker, BP!NextRefines, ProviderAssumption, ThresholdAssumption DEF CInv
  <2> QED
    BY <1>1, <1>2, <2>1 DEF BP!Promise!vars, Breaker!Promise!vars, BP!Promise!Next,
       Breaker!Promise!Next, BP!Promise!Begin, Breaker!Promise!Begin, BP!Promise!Succeed,
       Breaker!Promise!Succeed, BP!Promise!Fail, Breaker!Promise!Fail, BP!Promise!CoolDown,
       Breaker!Promise!CoolDown
<1> QED
  BY <1>3, <1>4, InitCInv, NextCInv, PTL
  DEF AcquisitionSpec, Breaker!KeepsLoginBudget, Breaker!Promise!Spec
=============================================================================
