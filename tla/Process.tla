------------------------------- MODULE Process -------------------------------
(***************************************************************************)
(* The process from its command line to its exit (main.go): the start-up   *)
(* of module Startup and then Serve.  The socket listens before Serve      *)
(* runs, so clients can already be waiting; a signal cancels the context   *)
(* only once main serves.                                                  *)
(***************************************************************************)
EXTENDS Serve

CONSTANTS Width, Thresholds

ASSUME FlagAssumption == Width \in Nat /\ Thresholds \subseteq Int

VARIABLES stage, flags, exit, breaker

Start == INSTANCE Startup

startVars == <<stage, flags, exit, breaker>>
processVars == <<vars, startVars>>

ProcessInit == Init /\ Start!Init

StartsUp == Start!Boot /\ UNCHANGED vars

ClientConnects(c) ==
    /\ stage \in {"config", "serving"}
    /\ Connect(c)
    /\ UNCHANGED startVars

Serving(A) == stage = "serving" /\ A /\ UNCHANGED startVars

\* The rest of main: Serve returns, the provider is closed, the process exits.
Finish == Exit /\ Start!Return

ProcessNext ==
    \/ StartsUp
    \/ \E c \in Conns : ClientConnects(c) \/ Serving(Session(c))
    \/ Serving(Cancel)
    \/ Serving(AcceptLoop)
    \/ Serving(Shutdown)
    \/ Serving(WaitReturns)
    \/ Finish

ProcessSpec == ProcessInit /\ [][ProcessNext]_processVars

\* What Serve's fairness says, once Serve runs.
ProcessFairness ==
    /\ WF_processVars(Serving(Shutdown))
    /\ WF_processVars(Finish)
    /\ WF_processVars(Serving(Acquire))
    /\ WF_processVars(Serving(AcquireFails))
    /\ WF_processVars(listener = "closed" /\ Serving(AcceptFails))
    /\ WF_processVars(Serving(BackoffEnds \/ BackoffCancelled))

FairProcess == ProcessSpec /\ ProcessFairness

-----------------------------------------------------------------------------
\* A proxy that serves counts failures up to the threshold that was asked for: no
\* accepted value of -cb-threshold wraps in the conversion to uint32 and opens the
\* circuit early, or at once (validateFlags and buildProvider).
BreakerAsAsked ==
    stage = "serving" => breaker = flags.cbThreshold /\ breaker >= 1 /\ flags.cbTimeout > 0
=============================================================================
