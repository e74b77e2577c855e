-------------------------------- MODULE Serve --------------------------------
(***************************************************************************)
(* The accept loop and the shutdown of the process (internal/proxy/        *)
(* server.go, main.go).  Serve starts an accept goroutine, waits for the   *)
(* context, closes the listener, joins the accept goroutine and drains the *)
(* sessions for at most drainTimeout; main then closes the token provider. *)
(* The listener is netutil.LimitListener when -max-conns is set.           *)
(*                                                                         *)
(* A session is what Serve sees of handleClientCtx (module SessionLife,    *)
(* which ClientSession implements): it is idle or busy, an idle one is     *)
(* closed by its shutdown watcher, a busy one may go on for as long as it  *)
(* likes.                                                                  *)
(***************************************************************************)
EXTENDS Integers, FiniteSets

CONSTANTS Conns,     \* the client connections that may arrive
          MaxConns   \* -max-conns; 0 means no limit

ASSUME ServeAssumption ==
    /\ IsFiniteSet(Conns)
    /\ MaxConns \in Nat

VARIABLES ctxDone,   \* the context is cancelled
          listener,  \* the listening socket
          accept,    \* the accept goroutine
          delay,     \* backoff.delay, in milliseconds
          sem,       \* slots of the LimitListener in use
          conns,     \* the life of each client connection
          released,  \* connections that were closed, which releases their slot once
          serve,     \* where Serve and then main are
          waiter,    \* the goroutine that calls wg.Wait
          outcome,   \* how the drain ended
          provider   \* the token provider

connVars == <<conns, released>>
acceptVars == <<accept, delay>>
mainVars == <<serve, waiter, outcome, provider>>
vars == <<ctxDone, listener, acceptVars, sem, connVars, mainVars>>

AcceptBackoffInitial == 5
AcceptBackoffMax == 1000

Running == {c \in Conns : conns[c] \in {"idle", "busy"}}

Init ==
    /\ ctxDone = FALSE
    /\ listener = "open"
    /\ accept = "acquire"
    /\ delay = 0
    /\ sem = 0
    /\ conns = [c \in Conns |-> "away"]
    /\ released = {}
    /\ serve = "serving"
    /\ waiter = "none"
    /\ outcome = "none"
    /\ provider = "open"

\* The client connects; the kernel queues the connection until it is accepted.
Connect(c) ==
    /\ conns[c] = "away"
    /\ listener = "open"
    /\ conns' = [conns EXCEPT ![c] = "backlog"]
    /\ UNCHANGED <<ctxDone, listener, acceptVars, sem, released, mainVars>>

\* SIGINT or SIGTERM
Cancel ==
    /\ ~ctxDone
    /\ ctxDone' = TRUE
    /\ UNCHANGED <<listener, acceptVars, sem, connVars, mainVars>>

-----------------------------------------------------------------------------
(* The accept goroutine.                                                   *)

\* acceptBackoff.next
NextDelay ==
    LET doubled == 2 * delay
    IN  IF delay = 0 THEN AcceptBackoffInitial
        ELSE IF doubled > AcceptBackoffMax THEN AcceptBackoffMax ELSE doubled

\* LimitListener.Accept first takes a slot.
Acquire ==
    /\ accept = "acquire"
    /\ MaxConns = 0 \/ sem < MaxConns
    /\ sem' = sem + 1
    /\ accept' = "accept"
    /\ UNCHANGED <<ctxDone, listener, delay, connVars, mainVars>>

\* An Accept error: Serve gives up once the context is cancelled, and waits
\* before it tries again otherwise.
AcceptError ==
    IF ctxDone
    THEN accept' = "done" /\ delay' = delay
    ELSE accept' = "backoff" /\ delay' = NextDelay

\* LimitListener.Accept waits for a slot and finds the listener closed.
AcquireFails ==
    /\ accept = "acquire"
    /\ MaxConns # 0
    /\ listener = "closed"
    /\ AcceptError
    /\ UNCHANGED <<ctxDone, listener, sem, connVars, mainVars>>

AcceptFailsKeepingSlot ==
    /\ accept = "accept"
    /\ AcceptError
    /\ UNCHANGED <<ctxDone, listener, sem, connVars, mainVars>>

\* Accept fails, because the listener is closed or for want of resources
\* (EMFILE); the slot is given back.
AcceptFails ==
    /\ accept = "accept"
    /\ AcceptError
    /\ sem' = sem - 1
    /\ UNCHANGED <<ctxDone, listener, connVars, mainVars>>

\* Accept succeeds: the session is added to the WaitGroup and started.
Accept(c) ==
    /\ accept = "accept"
    /\ listener = "open"
    /\ conns[c] = "backlog"
    /\ conns' = [conns EXCEPT ![c] = "idle"]
    /\ delay' = 0
    /\ accept' = "acquire"
    /\ UNCHANGED <<ctxDone, listener, sem, released, mainVars>>

BackoffEnds ==
    /\ accept = "backoff"
    /\ accept' = "acquire"
    /\ UNCHANGED <<ctxDone, listener, delay, sem, connVars, mainVars>>

BackoffCancelled ==
    /\ accept = "backoff"
    /\ ctxDone
    /\ accept' = "done"
    /\ UNCHANGED <<ctxDone, listener, delay, sem, connVars, mainVars>>

-----------------------------------------------------------------------------
(* The sessions, as handleClientCtx runs them.                             *)

\* A request arrives: ClientSession.readRequest admits it only while the context
\* is alive.
SessionServes(c) ==
    /\ conns[c] = "idle"
    /\ c \notin released
    /\ ~ctxDone
    /\ conns' = [conns EXCEPT ![c] = "busy"]
    /\ UNCHANGED <<ctxDone, listener, acceptVars, sem, released, mainVars>>

SessionAnswers(c) ==
    /\ conns[c] = "busy"
    /\ conns' = [conns EXCEPT ![c] = "idle"]
    /\ UNCHANGED <<ctxDone, listener, acceptVars, sem, released, mainVars>>

\* conn.Close of the limited connection: the slot is released by the first call.
CloseConn(c) ==
    /\ released' = released \cup {c}
    /\ sem' = IF c \in released THEN sem ELSE sem - 1

\* beginShutdown closes an idle connection while its session is still running.
WatcherCloses(c) ==
    /\ ctxDone
    /\ conns[c] = "idle"
    /\ c \notin released
    /\ CloseConn(c)
    /\ UNCHANGED <<ctxDone, listener, acceptVars, conns, mainVars>>

\* handleClientCtx returns: the deferred Close, then wg.Done.
SessionEnds(c) ==
    /\ c \in Running
    /\ CloseConn(c)
    /\ conns' = [conns EXCEPT ![c] = "ended"]
    /\ UNCHANGED <<ctxDone, listener, acceptVars, mainVars>>

-----------------------------------------------------------------------------
(* Serve after the cancellation, and main.                                 *)

CloseListenerForgotten ==
    /\ serve = "serving"
    /\ ctxDone
    /\ serve' = "joining"
    /\ UNCHANGED <<ctxDone, listener, acceptVars, sem, connVars, waiter, outcome, provider>>

\* <-ctx.Done(), then l.Close().  Connections still in the backlog are reset.
CloseListener ==
    /\ serve = "serving"
    /\ ctxDone
    /\ listener' = "closed"
    /\ conns' = [c \in Conns |-> IF conns[c] = "backlog" THEN "ended" ELSE conns[c]]
    /\ serve' = "joining"
    /\ UNCHANGED <<ctxDone, acceptVars, sem, released, waiter, outcome, provider>>

DrainWithoutJoining ==
    /\ serve = "joining"
    /\ serve' = "draining"
    /\ waiter' = "waiting"
    /\ UNCHANGED <<ctxDone, listener, acceptVars, sem, connVars, outcome, provider>>

\* <-acceptDone, then the goroutine that waits for the sessions is started.
JoinAccept ==
    /\ serve = "joining"
    /\ accept = "done"
    /\ serve' = "draining"
    /\ waiter' = "waiting"
    /\ UNCHANGED <<ctxDone, listener, acceptVars, sem, connVars, outcome, provider>>

\* wg.Wait returns and done is closed.
WaitReturns ==
    /\ waiter = "waiting"
    /\ Running = {}
    /\ waiter' = "done"
    /\ UNCHANGED <<ctxDone, listener, acceptVars, sem, connVars, serve, outcome, provider>>

Drained ==
    /\ serve = "draining"
    /\ waiter = "done"
    /\ outcome' = "drained"
    /\ serve' = "returned"
    /\ UNCHANGED <<ctxDone, listener, acceptVars, sem, connVars, waiter, provider>>

DrainTimeout ==
    /\ serve = "draining"
    /\ outcome' = "timeout"
    /\ serve' = "returned"
    /\ UNCHANGED <<ctxDone, listener, acceptVars, sem, connVars, waiter, provider>>

\* main closes the provider and the process exits.
Exit ==
    /\ serve = "returned"
    /\ provider' = "closed"
    /\ serve' = "exited"
    /\ UNCHANGED <<ctxDone, listener, acceptVars, sem, connVars, waiter, outcome>>

AcceptLoop ==
    \/ Acquire
    \/ AcquireFails
    \/ AcceptFails
    \/ BackoffEnds
    \/ BackoffCancelled
    \/ \E c \in Conns : Accept(c)

Session(c) ==
    \/ SessionServes(c)
    \/ SessionAnswers(c)
    \/ WatcherCloses(c)
    \/ SessionEnds(c)

Shutdown ==
    \/ CloseListener
    \/ JoinAccept
    \/ Drained
    \/ DrainTimeout

\* The process is gone once main has returned.
Next ==
    /\ serve # "exited"
    /\ \/ AcceptLoop
       \/ Shutdown
       \/ Exit
       \/ WaitReturns
       \/ Cancel
       \/ \E c \in Conns : Connect(c) \/ Session(c)

Spec == Init /\ [][Next]_vars

\* Goroutines are scheduled, timers fire, Accept on a closed listener returns.
\* Sessions, and clients, need not do anything.
Fairness ==
    /\ WF_vars(Shutdown)
    /\ WF_vars(Exit)
    /\ WF_vars(Acquire)
    /\ WF_vars(AcquireFails)
    /\ WF_vars(listener = "closed" /\ AcceptFails)
    /\ WF_vars(BackoffEnds \/ BackoffCancelled)

FairSpec == Spec /\ Fairness

-----------------------------------------------------------------------------
\* The variables keep their types; the accept wait doubles from 5 ms and is
\* capped at 1 s.  How large sem is, SlotsAccountedFor says.
TypeOK ==
    /\ ctxDone \in BOOLEAN
    /\ listener \in {"open", "closed"}
    /\ accept \in {"acquire", "accept", "backoff", "done"}
    /\ delay \in 0..AcceptBackoffMax
    /\ sem \in Int
    /\ conns \in [Conns -> {"away", "backlog", "idle", "busy", "ended"}]
    /\ released \subseteq Conns
    /\ serve \in {"serving", "joining", "draining", "returned", "exited"}
    /\ waiter \in {"none", "waiting", "done"}
    /\ outcome \in {"none", "drained", "timeout"}
    /\ provider \in {"open", "closed"}

\* The slots in use are those of the open client connections and the one the
\* accept loop holds while it waits: none is lost on an accept error or returned
\* twice when the watcher and the session both close a connection, and no more
\* than -max-conns connections are open.
SlotsAccountedFor ==
    LET open == Running \ released
        held == IF accept = "accept" THEN 1 ELSE 0
    IN  /\ sem = Cardinality(open) + held
        /\ MaxConns # 0 => Cardinality(open) <= MaxConns

\* wg.Go never runs once wg.Wait may: the accept loop has ended before the waiter
\* starts, so "drained" means that no session runs, then or later, and the token
\* provider is closed under a running session only after the drain timeout.
NoSessionAfterDrain ==
    /\ waiter # "none" => accept = "done"
    /\ outcome = "drained" => Running = {}
    /\ provider = "closed" /\ Running # {} => outcome = "timeout"

\* Shutdown finishes: once the context is cancelled the process exits, whether
\* the accept loop is waiting for a slot, for a connection or for its backoff,
\* and whatever the sessions do.
ShutdownFinishes == ctxDone ~> (serve = "exited")
=============================================================================
