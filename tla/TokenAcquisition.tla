-------------------------- MODULE TokenAcquisition --------------------------
(***************************************************************************)
(* Token acquisition as buildProvider (cli.go) assembles it for -user: the *)
(* circuit breaker around the gokrb5 provider.  A call the breaker admits  *)
(* is a call of the provider's GetToken, and what that returns is what the *)
(* breaker records.  Close goes straight to the provider: it takes p.mu    *)
(* and neither takes the breaker's mutex nor touches its counts.           *)
(***************************************************************************)
EXTENDS Gokrb5Provider

CONSTANT Threshold   \* -cb-threshold

ASSUME ThresholdAssumption == Threshold \in Nat \ {0}

VARIABLES cbMu, cbPc, cb, current, cbRet   \* the breaker's

Breaker == INSTANCE CircuitBreaker WITH mu <- cbMu, pc <- cbPc, ret <- cbRet

breakerVars == <<cbMu, cbPc, cb, current, cbRet>>
acquisitionVars == <<vars, breakerVars>>

AcquisitionInit == Init /\ Breaker!Init

Ask(c) == Breaker!Call(c) /\ UNCHANGED vars

AcquireBreaker(c) == Breaker!Acquire(c) /\ UNCHANGED vars

CircuitOpen(c) == Breaker!Refuse(c) /\ UNCHANGED vars

\* The closure given to cb.Execute calls p.inner.GetToken.
Admit(c) == Breaker!Admit(c) /\ Call(c)

AcquireProvider(c) == Acquire(c) /\ UNCHANGED breakerVars

RunGuardUncounted(c) ==
    /\ Step(c)
    /\ IF pc'[c] # "idle" THEN UNCHANGED breakerVars
       ELSE IF pc[c] # "check" THEN Breaker!Return(c, ret'[c] = "token")
       ELSE /\ cbPc' = [cbPc EXCEPT ![c] = "idle"]
            /\ cbMu' = NoCaller
            /\ cbRet' = [cbRet EXCEPT ![c] = "failure"]
            /\ UNCHANGED <<cb, current>>

\* The provider's GetToken runs; when it returns, Execute records the result.
Run(c) ==
    /\ Step(c)
    /\ IF pc'[c] = "idle" THEN Breaker!Return(c, ret'[c] = "token")
                          ELSE UNCHANGED breakerVars

TimeoutElapses == Breaker!TimeoutElapses /\ UNCHANGED vars

\* The warning goroutine, main calling Close, and the world outside.
Others == (Warner \/ CallClose \/ Close \/ World) /\ UNCHANGED breakerVars

AcquisitionNext ==
    \/ \E c \in Callers :
          \/ Ask(c)
          \/ AcquireBreaker(c)
          \/ CircuitOpen(c)
          \/ Admit(c)
          \/ AcquireProvider(c)
          \/ Run(c)
    \/ TimeoutElapses
    \/ Others

AcquisitionSpec == AcquisitionInit /\ [][AcquisitionNext]_acquisitionVars

(* Beyond the fairness of the provider: the breaker's timeout passes, its  *)
(* mutex is handed to whoever waits for it, and a KDC that is asked again  *)
(* and again does not fail every time with an error other than a           *)
(* rejection.  Nobody has to call GetToken.                                *)
AcquisitionFairness ==
    /\ Fairness
    /\ WF_acquisitionVars(TimeoutElapses)
    /\ \A c \in Callers :
          /\ SF_acquisitionVars(AcquireBreaker(c))
          /\ WF_acquisitionVars(CircuitOpen(c) \/ Admit(c))
          /\ SF_acquisitionVars(AcquireProvider(c))
          /\ SF_acquisitionVars(Run(c) /\ LoginSucceeds(c))
          /\ SF_acquisitionVars(Run(c) /\ InitSecContext(c, TRUE))

FairAcquisition == AcquisitionSpec /\ AcquisitionFairness

-----------------------------------------------------------------------------
\* The breaker cannot wedge half-open (circuit_breaker.go:78-82): a half-open
\* circuit admits one probe, so it must not outlive that probe.  However the
\* probe ends, refused by the lockout guard or by a closed provider included, its
\* result closes the circuit or opens it again.
NeverWedgedHalfOpen ==
    cb.state = "halfopen" => \E c \in Callers : pc[c] # "idle"

\* The file holds the account's password, and that is not the value the KDC
\* rejected last: when the account is reset to the file's rejected value instead,
\* the guard stands until the file changes.
Healthy ==
    /\ ~closed /\ readable /\ password = kdcPassword
    /\ passwordRejected => password # rejectedFingerprint

Asked == \E c \in Callers : cbPc[c] # "idle"

\* The proxy recovers: when the operator has put the right password in the file
\* and it stays right, and clients go on asking, tokens are obtained again and
\* again, through the standing rejection, the open circuit and the half-open probe
\* (README.md:284-287).
Recovers == (<>[]Healthy /\ []<>Asked) => []<>(\E c \in Callers : cbRet[c] = "token")
=============================================================================
