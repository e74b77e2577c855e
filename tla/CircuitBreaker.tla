--------------------------- MODULE CircuitBreaker ---------------------------
(***************************************************************************)
(* CircuitBreakerTokenProvider (internal/proxy/circuit_breaker.go): the    *)
(* wrapper every client session calls for a SPNEGO token.  Callers         *)
(* serialise on mu, and gobreaker, an external library modelled from the   *)
(* way the wrapper configures and calls it, decides whether the wrapped    *)
(* provider is tried.  The wrapped provider is left open here: its call    *)
(* takes time and ends in either way.                                      *)
(*                                                                         *)
(* Time enters only as the expiry of the open state, the flag cb.elapsed.  *)
(* gobreaker numbers its states' generations and ignores a result recorded *)
(* in another generation than the one that admitted it; current[c] says    *)
(* whether caller c's generation is still the current one, so no counter   *)
(* has to grow.  Counts.Requests is read in the half-open state only and   *)
(* is counted there only.                                                  *)
(***************************************************************************)
EXTENDS Naturals, FiniteSets

CONSTANTS Callers,     \* the session goroutines that ask for tokens
          NoCaller,    \* the owner of a free mutex
          Threshold    \* consecutive failures that open the circuit

ASSUME BreakerAssumption ==
    /\ NoCaller \notin Callers
    /\ Threshold \in Nat \ {0}

VARIABLES mu,        \* CircuitBreakerTokenProvider.mu: its owner, or NoCaller
          pc,        \* where each caller is in GetToken
          cb,        \* the gobreaker.CircuitBreaker
          current,   \* is the generation that admitted a caller still current
          ret        \* what a caller's last GetToken returned

vars == <<mu, pc, cb, current, ret>>

-----------------------------------------------------------------------------
(* The breaker.  MaxRequests is 1: one probe in the half-open state, whose *)
(* success closes the circuit.                                             *)

MaxRequests == 1

\* Entering a state starts a generation with cleared counts.
SetState(s) == [state |-> s, elapsed |-> FALSE, failures |-> 0, requests |-> 0]

ReadyToTripLate(b) == b.failures > Threshold

ReadyToTrip(b) == b.failures >= Threshold

CurrentState(b) ==
    IF b.state = "open" /\ b.elapsed THEN SetState("halfopen") ELSE b

Admits(b) ==
    \/ b.state = "closed"
    \/ b.state = "halfopen" /\ b.requests < MaxRequests

CountRequest(b) ==
    IF b.state = "halfopen" THEN [b EXCEPT !.requests = @ + 1] ELSE b

OnSuccess(b) ==
    IF b.state = "halfopen" THEN SetState("closed") ELSE [b EXCEPT !.failures = 0]

CountFailure(b) == [b EXCEPT !.failures = @ + 1]

OnFailure(b) ==
    CASE b.state = "closed" ->
            IF ReadyToTrip(CountFailure(b)) THEN SetState("open") ELSE CountFailure(b)
      [] b.state = "halfopen" -> SetState("open")
      [] OTHER -> b

\* Callers admitted before a change of state belong to a past generation.
Regenerate(b) ==
    IF b.state = cb.state THEN current ELSE [c \in Callers |-> FALSE]

-----------------------------------------------------------------------------
Init ==
    /\ mu = NoCaller
    /\ pc = [c \in Callers |-> "idle"]
    /\ cb = SetState("closed")
    /\ current = [c \in Callers |-> FALSE]
    /\ ret = [c \in Callers |-> "none"]

\* A session asks for a token.
Call(c) ==
    /\ pc[c] = "idle"
    /\ pc' = [pc EXCEPT ![c] = "lock"]
    /\ ret' = [ret EXCEPT ![c] = "none"]
    /\ UNCHANGED <<mu, cb, current>>

AcquireUnserialised(c) ==
    /\ pc[c] = "lock"
    /\ pc' = [pc EXCEPT ![c] = "execute"]
    /\ UNCHANGED <<mu, cb, current, ret>>

Acquire(c) ==
    /\ pc[c] = "lock"
    /\ mu = NoCaller
    /\ mu' = c
    /\ pc' = [pc EXCEPT ![c] = "execute"]
    /\ UNCHANGED <<cb, current, ret>>

\* cb.Execute lets the call through to the wrapped provider.
Admit(c) ==
    LET b == CurrentState(cb) IN
    /\ pc[c] = "execute"
    /\ Admits(b)
    /\ cb' = CountRequest(b)
    /\ current' = [Regenerate(b) EXCEPT ![c] = TRUE]
    /\ pc' = [pc EXCEPT ![c] = "inner"]
    /\ UNCHANGED <<mu, ret>>

RefuseHoldingMu(c) ==
    LET b == CurrentState(cb) IN
    /\ pc[c] = "execute"
    /\ ~Admits(b)
    /\ cb' = b
    /\ current' = Regenerate(b)
    /\ ret' = [ret EXCEPT ![c] = IF b.state = "open" THEN "open" ELSE "toomany"]
    /\ pc' = [pc EXCEPT ![c] = "idle"]
    /\ UNCHANGED mu

\* cb.Execute refuses with ErrOpenState or ErrTooManyRequests, which GetToken
\* returns as a CircuitBreakerError; the deferred Unlock runs on the way out.
Refuse(c) ==
    LET b == CurrentState(cb) IN
    /\ pc[c] = "execute"
    /\ ~Admits(b)
    /\ cb' = b
    /\ current' = Regenerate(b)
    /\ ret' = [ret EXCEPT ![c] = IF b.state = "open" THEN "open" ELSE "toomany"]
    /\ pc' = [pc EXCEPT ![c] = "idle"]
    /\ mu' = NoCaller

\* The wrapped provider returns; cb.Execute records the result unless its
\* generation is over, and GetToken returns it and unlocks mu.
Return(c, ok) ==
    LET b == CurrentState(cb)
        recorded == IF ~Regenerate(b)[c] THEN b
                    ELSE IF ok THEN OnSuccess(b) ELSE OnFailure(b)
    IN
    /\ pc[c] = "inner"
    /\ cb' = recorded
    /\ current' = [Regenerate(recorded) EXCEPT ![c] = FALSE]
    /\ ret' = [ret EXCEPT ![c] = IF ok THEN "token" ELSE "failure"]
    /\ pc' = [pc EXCEPT ![c] = "idle"]
    /\ mu' = NoCaller

\* -cb-timeout has passed since the circuit opened.
TimeoutElapses ==
    /\ cb.state = "open"
    /\ ~cb.elapsed
    /\ cb' = [cb EXCEPT !.elapsed = TRUE]
    /\ UNCHANGED <<mu, pc, current, ret>>

Next ==
    \/ \E c \in Callers : Call(c) \/ Acquire(c) \/ Admit(c) \/ Refuse(c)
    \/ \E c \in Callers, ok \in BOOLEAN : Return(c, ok)
    \/ TimeoutElapses

Spec == Init /\ [][Next]_vars

(* Go hands a contended mutex over in arrival order once a waiter has      *)
(* starved for a millisecond, hence strong fairness of Acquire.  A wrapped *)
(* call ends because gokrb5 puts a deadline on its KDC exchanges.  Nothing *)
(* makes a session ask for a token, and no property needs the timeout.     *)
Fairness ==
    \A c \in Callers :
        /\ SF_vars(Acquire(c))
        /\ WF_vars(Admit(c) \/ Refuse(c))
        /\ WF_vars(\E ok \in BOOLEAN : Return(c, ok))

FairSpec == Spec /\ Fairness

-----------------------------------------------------------------------------
\* The variables keep their types; a refused call
\* returns a CircuitBreakerError with the reason.
TypeOK ==
    /\ mu \in Callers \cup {NoCaller}
    /\ pc \in [Callers -> {"idle", "lock", "execute", "inner"}]
    /\ cb \in [state : {"closed", "halfopen", "open"}, elapsed : BOOLEAN,
               failures : Nat, requests : Nat]
    /\ current \in [Callers -> BOOLEAN]
    /\ ret \in [Callers -> {"none", "token", "failure", "open", "toomany"}]

\* Every result counts, and every refusal means an open circuit: because
\* GetToken holds mu across cb.Execute, no result is recorded in a generation
\* that is already over, so no failed login escapes the count, and no caller is
\* turned away by ErrTooManyRequests while another one probes
\* (circuit_breaker.go:36-42 and 94-95).
EveryResultCounts ==
    \A c \in Callers : (pc[c] = "inner" => current[c]) /\ ret[c] # "toomany"

\* The inductive invariant behind both: mu is owned by the caller between Acquire
\* and its return, a half-open circuit is one with its probe under way, and an
\* open one has nobody inside the wrapped provider.
IInv ==
    /\ TypeOK
    /\ EveryResultCounts
    /\ \A c \in Callers : pc[c] \in {"execute", "inner"} <=> mu = c
    /\ cb.state = "closed" => cb.failures < Threshold
    /\ cb.state = "halfopen" => \E c \in Callers : pc[c] = "inner"
    /\ cb.state = "open" => \A c \in Callers : pc[c] # "inner"

\* The failures the account can still be charged before the circuit stops them.
Budget ==
    CASE cb.state = "closed" -> Threshold - cb.failures
      [] cb.state = "halfopen" -> 1
      [] OTHER -> IF cb.elapsed THEN 1 ELSE 0

Attempts == Cardinality({c \in Callers : pc[c] = "inner"})

Promise == INSTANCE LoginBudget WITH budget <- Budget, inflight <- Attempts

\* The breaker keeps the promise of LoginBudget: however its callers interleave,
\* at most Threshold attempts fail in a row before attempts stop, and each
\* cool-down admits one more (circuit_breaker.go:45-49).
KeepsLoginBudget == Promise!Spec

\* Every GetToken call returns, also on the paths where the breaker refuses: the
\* deferred Unlock (circuit_breaker.go:85) leaves nobody waiting for mu.
EveryCallReturns == \A c \in Callers : pc[c] # "idle" ~> pc[c] = "idle"
=============================================================================
