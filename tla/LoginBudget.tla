----------------------------- MODULE LoginBudget -----------------------------
(***************************************************************************)
(* What the circuit breaker promises to the directory account: a budget of *)
(* credential attempts that may fail.  Every attempt that fails spends one *)
(* unit, one that succeeds restores the whole budget, and once the budget  *)
(* is spent a cool-down grants a single further attempt.  An attempt may   *)
(* begin only when the budget would survive the failure of every attempt   *)
(* under way, so no interleaving of callers overspends it.                 *)
(***************************************************************************)
EXTENDS Naturals

CONSTANT Threshold   \* -cb-threshold: failures in a row that open the circuit

VARIABLES budget,    \* failures the account can still be charged
          inflight   \* credential attempts under way

vars == <<budget, inflight>>

Init == budget = Threshold /\ inflight = 0

Begin ==
    /\ inflight < budget
    /\ inflight' = inflight + 1
    /\ UNCHANGED budget

Succeed ==
    /\ inflight > 0
    /\ inflight' = inflight - 1
    /\ budget' = Threshold

Fail ==
    /\ inflight > 0
    /\ inflight' = inflight - 1
    /\ budget' = budget - 1

CoolDown ==
    /\ budget = 0
    /\ budget' = 1
    /\ UNCHANGED inflight

Next == Begin \/ Succeed \/ Fail \/ CoolDown

Spec == Init /\ [][Next]_vars
==============================================================================
