------------------------ MODULE CircuitBreakerProofs ------------------------
(***************************************************************************)
(* Proofs about CircuitBreaker for any set of callers and any threshold.   *)
(***************************************************************************)
EXTENDS CircuitBreaker, FiniteSetTheorems, TLAPS

LEMMA InitIInv == Init => IInv
  BY BreakerAssumption DEF Init, IInv, TypeOK, EveryResultCounts, SetState

\* A result is recorded in the state it was admitted in, and counted there.
LEMMA ReturnRecords ==
  ASSUME IInv, NEW c \in Callers, NEW ok \in BOOLEAN, Return(c, ok)
  PROVE  /\ cb.state \in {"closed", "halfopen"}
         /\ cb' = IF ok THEN OnSuccess(cb) ELSE OnFailure(cb)
         /\ current' = [Regenerate(cb') EXCEPT ![c] = FALSE]
<1>1. pc[c] = "inner" /\ current[c] /\ cb.state # "open"
  BY DEF IInv, EveryResultCounts, Return
<1>2. CurrentState(cb) = cb
  BY <1>1 DEF CurrentState
<1>3. Regenerate(cb)[c]
  BY <1>1 DEF Regenerate
<1> QED
  BY <1>1, <1>2, <1>3 DEF Return, IInv, TypeOK, Regenerate

LEMMA NextIInv == IInv /\ [Next]_vars => IInv'
<1> SUFFICES ASSUME IInv, [Next]_vars PROVE IInv'
  OBVIOUS
<1> USE BreakerAssumption DEF IInv, TypeOK, EveryResultCounts
<1>1. ASSUME NEW c \in Callers, Call(c) PROVE IInv'
  BY <1>1 DEF Call
<1>2. ASSUME NEW c \in Callers, Acquire(c) PROVE IInv'
  BY <1>2 DEF Acquire
<1>3. ASSUME NEW c \in Callers, Admit(c) PROVE IInv'
  <2> DEFINE b == CurrentState(cb)
  <2>1. /\ b.state \in {"closed", "halfopen"}
        /\ b.state = "closed" => b = cb
        /\ b \in [state : {"closed", "halfopen", "open"}, elapsed : BOOLEAN,
                   failures : Nat, requests : Nat]
    BY <1>3 DEF Admit, Admits, CurrentState, SetState
  <2>2. /\ cb' \in [state : {"closed", "halfopen", "open"}, elapsed : BOOLEAN,
                     failures : Nat, requests : Nat]
        /\ cb'.state = b.state
        /\ cb'.failures = b.failures
    BY <1>3, <2>1 DEF Admit, CountRequest
  <2>3. /\ Regenerate(b) \in [Callers -> BOOLEAN]
        /\ current' = [Regenerate(b) EXCEPT ![c] = TRUE]
        /\ pc' = [pc EXCEPT ![c] = "inner"]
        /\ pc[c] = "execute" /\ mu = c /\ mu' = mu /\ ret' = ret
    BY <1>3 DEF Admit, Regenerate
  <2>4. \A d \in Callers : d # c => pc'[d] # "inner" /\ pc[d] # "inner"
    BY <2>3
  <2> QED
    BY <2>1, <2>2, <2>3, <2>4
<1>4. ASSUME NEW c \in Callers, Refuse(c) PROVE IInv'
  BY <1>4 DEF Refuse, Admits, CurrentState, SetState, Regenerate, MaxRequests
<1>5. ASSUME NEW c \in Callers, NEW ok \in BOOLEAN, Return(c, ok) PROVE IInv'
  <2>1. /\ cb.state \in {"closed", "halfopen"}
        /\ cb' = IF ok THEN OnSuccess(cb) ELSE OnFailure(cb)
        /\ current' = [Regenerate(cb') EXCEPT ![c] = FALSE]
    BY <1>5, ReturnRecords
  <2>2. /\ cb' \in [state : {"closed", "halfopen", "open"}, elapsed : BOOLEAN,
                     failures : Nat, requests : Nat]
        /\ cb'.state # "halfopen"
        /\ cb'.state = "closed" => cb'.failures < Threshold
    BY <2>1 DEF OnSuccess, OnFailure, CountFailure, ReadyToTrip, SetState
  <2>3. Regenerate(cb') \in [Callers -> BOOLEAN]
    BY DEF Regenerate
  <2>4. /\ pc[c] = "inner" /\ mu = c /\ mu' = NoCaller
        /\ pc' = [pc EXCEPT ![c] = "idle"]
        /\ ret' = [ret EXCEPT ![c] = IF ok THEN "token" ELSE "failure"]
    BY <1>5 DEF Return
  <2>5. \A d \in Callers : pc'[d] \notin {"execute", "inner"}
    BY <2>4
  <2> QED
    BY <2>1, <2>2, <2>3, <2>4, <2>5
<1>6. CASE TimeoutElapses
  BY <1>6, Zenon DEF TimeoutElapses
<1>7. CASE UNCHANGED vars
  BY <1>7 DEF vars
<1> QED
  BY <1>1, <1>2, <1>3, <1>4, <1>5, <1>6, <1>7 DEF Next

\* GetToken keeps every variable of the breaker in its type
\* (circuit_breaker.go:83-102).
THEOREM TypeCorrect == Spec => []TypeOK
<1>1. IInv => TypeOK
  BY DEF IInv
<1> QED
  BY <1>1, InitIInv, NextIInv, PTL DEF Spec

\* No result is recorded in a generation that is over and no caller is refused
\* by ErrTooManyRequests, for any number of callers (circuit_breaker.go:83-102).
THEOREM EveryResultIsCounted == Spec => []EveryResultCounts
<1>1. IInv => EveryResultCounts
  BY DEF IInv
<1> QED
  BY <1>1, InitIInv, NextIInv, PTL DEF Spec

-----------------------------------------------------------------------------
(* The refinement of LoginBudget.  Since mu serialises the callers, the set *)
(* of callers inside the wrapped provider is empty or a singleton, and the  *)
(* number of attempts under way is 0 or 1.                                  *)

Inside == {c \in Callers : pc[c] = "inner"}

LEMMA AttemptsEmpty == Inside = {} => Attempts = 0
  BY FS_EmptySet DEF Inside, Attempts

LEMMA AttemptsOne == \A c : Inside = {c} => Attempts = 1
  BY FS_Singleton DEF Inside, Attempts

LEMMA AttemptsEmptyNext == Inside' = {} => Attempts' = 0
  BY FS_EmptySet DEF Inside, Attempts

LEMMA AttemptsOneNext == \A c : Inside' = {c} => Attempts' = 1
  BY FS_Singleton DEF Inside, Attempts

LEMMA InitRefines == Init => Promise!Init
<1> SUFFICES ASSUME Init PROVE Promise!Init
  OBVIOUS
<1>1. Attempts = 0
  BY AttemptsEmpty DEF Init, Inside
<1>2. Budget = Threshold
  BY BreakerAssumption DEF Init, Budget, SetState
<1> QED
  BY <1>1, <1>2 DEF Promise!Init

LEMMA NextRefines == IInv /\ [Next]_vars => [Promise!Next]_(Promise!vars)
<1> SUFFICES ASSUME IInv, [Next]_vars
             PROVE Promise!Next \/ (Budget' = Budget /\ Attempts' = Attempts)
  BY DEF Promise!vars
<1> USE BreakerAssumption DEF IInv, TypeOK, EveryResultCounts
<1>1. ASSUME NEW c \in Callers, Call(c) \/ Acquire(c) \/ Refuse(c)
      PROVE Budget' = Budget /\ Attempts' = Attempts
  <2>1. Inside' = Inside
    BY <1>1 DEF Call, Acquire, Refuse, Inside
  <2>2. Attempts' = Attempts
    BY <2>1 DEF Inside, Attempts
  <2>3. cb' = cb
    BY <1>1 DEF Call, Acquire, Refuse, Admits, CurrentState, SetState, MaxRequests
  <2> QED
    BY <2>2, <2>3 DEF Budget
<1>2. ASSUME NEW c \in Callers, Admit(c) PROVE Promise!Begin
  <2>1. Inside = {} /\ Inside' = {c}
    BY <1>2 DEF Admit, Inside
  <2>2. Attempts = 0 /\ Attempts' = 1
    BY <2>1, AttemptsEmpty, AttemptsOneNext, Zenon
  <2>3. Budget > 0 /\ Budget' = Budget
    BY <1>2 DEF Admit, Admits, CurrentState, SetState, CountRequest, Budget
  <2> QED
    BY <2>2, <2>3 DEF Promise!Begin
<1>3. ASSUME NEW c \in Callers, NEW ok \in BOOLEAN, Return(c, ok)
      PROVE Promise!Succeed \/ Promise!Fail
  <2>1. Inside = {c} /\ Inside' = {}
    BY <1>3 DEF Return, Inside
  <2>2. Attempts = 1 /\ Attempts' = 0
    BY <2>1, AttemptsOne, AttemptsEmptyNext
  <2>3. /\ cb.state \in {"closed", "halfopen"}
        /\ cb' = IF ok THEN OnSuccess(cb) ELSE OnFailure(cb)
    BY <1>3, ReturnRecords
  <2>4. CASE ok
    BY <2>2, <2>3, <2>4 DEF OnSuccess, SetState, Budget, Promise!Succeed
  <2>5. CASE ~ok
    BY <2>2, <2>3, <2>5 DEF OnFailure, CountFailure, ReadyToTrip, SetState, Budget,
                            Promise!Fail
  <2> QED
    BY <2>4, <2>5
<1>4. ASSUME TimeoutElapses PROVE Promise!CoolDown
  <2>1. Attempts' = Attempts
    BY <1>4 DEF TimeoutElapses, Attempts
  <2> QED
    BY <1>4, <2>1 DEF TimeoutElapses, Budget, Promise!CoolDown
<1>5. ASSUME UNCHANGED vars PROVE Budget' = Budget /\ Attempts' = Attempts
  BY <1>5 DEF vars, Budget, Attempts
<1> QED
  BY <1>1, <1>2, <1>3, <1>4, <1>5 DEF Next, Promise!Next

\* The circuit breaker implements LoginBudget for any number of concurrent
\* callers and any threshold: at most Threshold attempts fail in a row, and one
\* per cool-down after that (circuit_breaker.go:45-49).
THEOREM BreakerKeepsLoginBudget == Spec => KeepsLoginBudget
<1>1. IInv /\ [Next]_vars => [Promise!Next]_(Promise!vars)
  BY NextRefines
<1> QED
  BY <1>1, InitIInv, NextIInv, InitRefines, PTL DEF Spec, KeepsLoginBudget, Promise!Spec
=============================================================================
