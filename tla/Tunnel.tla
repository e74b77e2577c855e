------------------------------- MODULE Tunnel -------------------------------
(***************************************************************************)
(* A CONNECT tunnel (internal/proxy/connect.go, tunnel_write.go): two      *)
(* goroutines, one per direction, each running idleCopy, and the           *)
(* tunnelClock they share.  A direction is named after the end it reads    *)
(* from.                                                                   *)
(*                                                                         *)
(* Time passes in ticks and is kept relative: the clock's timestamp "last" *)
(* is represented by its age, capped at the timeout, and a deadline by the *)
(* ticks that are left of it.  The clock is modelled at the grain of its   *)
(* atomic operations: touch reads the time and then stores it by           *)
(* compare-and-swap; quietFor loads the timestamp, reads the time, and     *)
(* loads the timestamp again.                                              *)
(***************************************************************************)
EXTENDS Naturals

CONSTANTS Timeout,      \* the idle timeout, in ticks
          CloseWriters  \* the ends whose connection has a CloseWrite method

Ends == {"client", "peer"}
Other(h) == IF h = "client" THEN "peer" ELSE "client"

ASSUME TunnelAssumption ==
    /\ Timeout \in Nat \ {0}
    /\ CloseWriters \subseteq Ends

\* What the tunnel runs with: whether there is an idle timeout at all, and whether
\* the peer end is a TLS connection.
Kinds == [idleCheck : BOOLEAN, tls : BOOLEAN]

VARIABLES kind,
          pc,      \* where each direction is
          age,     \* ticks since clock.last
          stamp,   \* ticks since the time a touch has read
          snap,    \* ticks since the timestamp quietFor has loaded
          dirty,   \* clock.last has changed since quietFor loaded it
          quiet,   \* what quietFor has computed
          timer,   \* ticks left of the deadline the direction waits under
          open,    \* the two connections are open
          ended,   \* how the direction ended
          sawEof,  \* the ends that have been sent an end of file
          moved    \* ticks since a byte last moved in either direction

clockVars == <<age, stamp, snap, dirty, quiet>>
vars == <<kind, pc, clockVars, timer, open, ended, sawEof, moved>>

Cap(n) == IF n > Timeout THEN Timeout ELSE n

Init ==
    /\ kind \in Kinds
    /\ pc = [h \in Ends |-> IF kind.idleCheck THEN "load" ELSE "read"]
    /\ age = 0
    /\ stamp = [h \in Ends |-> 0]
    /\ snap = [h \in Ends |-> 0]
    /\ dirty = [h \in Ends |-> FALSE]
    /\ quiet = [h \in Ends |-> 0]
    /\ timer = [h \in Ends |-> 0]
    /\ open = TRUE
    /\ ended = [h \in Ends |-> "no"]
    /\ sawEof = {}
    /\ moved = 0

Touching == {"touchRead", "touchWrite", "touchNotify"}

Goto(h, l) == pc' = [pc EXCEPT ![h] = l]

Fail(h, why) ==
    /\ Goto(h, "failed")
    /\ ended' = [ended EXCEPT ![h] = why]

\* A tick: timestamps grow older, deadlines come nearer.
Tick ==
    /\ age' = Cap(age + 1)
    /\ moved' = Cap(moved + 1)
    /\ stamp' = [h \in Ends |-> IF pc[h] \in Touching THEN Cap(stamp[h] + 1) ELSE stamp[h]]
    /\ snap' = [h \in Ends |-> IF pc[h] = "since" THEN Cap(snap[h] + 1) ELSE snap[h]]
    /\ timer' = [h \in Ends |-> IF timer[h] = 0 THEN 0 ELSE timer[h] - 1]
    /\ UNCHANGED <<kind, pc, dirty, quiet, open, ended, sawEof>>

-----------------------------------------------------------------------------
(* tunnelClock                                                             *)

\* quietForSince: last := c.last.Load()
QuietLoad(h) ==
    /\ pc[h] = "load"
    /\ snap' = [snap EXCEPT ![h] = age]
    /\ dirty' = [dirty EXCEPT ![h] = FALSE]
    /\ Goto(h, "since")
    /\ UNCHANGED <<kind, age, stamp, quiet, timer, open, ended, sawEof, moved>>

\* elapsed := since(c.origin)
QuietSince(h) ==
    /\ pc[h] = "since"
    /\ quiet' = [quiet EXCEPT ![h] = snap[h]]
    /\ snap' = [snap EXCEPT ![h] = 0]
    /\ Goto(h, "check")
    /\ UNCHANGED <<kind, age, stamp, dirty, timer, open, ended, sawEof, moved>>

QuietAssumed(h) == TRUE

\* The second load: the result stands only if no touch came between.
QuietUnchanged(h) == ~dirty[h]

QuietRetry(h) ==
    /\ pc[h] = "check"
    /\ ~QuietUnchanged(h)
    /\ quiet' = [quiet EXCEPT ![h] = 0]
    /\ Goto(h, "load")
    /\ UNCHANGED <<kind, age, stamp, snap, dirty, timer, open, ended, sawEof, moved>>

\* The budget is spent: errTunnelIdle.
IdleEnds(h) ==
    /\ pc[h] = "check"
    /\ QuietUnchanged(h)
    /\ quiet[h] >= Timeout
    /\ quiet' = [quiet EXCEPT ![h] = 0]
    /\ Fail(h, "idle")
    /\ UNCHANGED <<kind, age, stamp, snap, dirty, timer, open, sawEof, moved>>

\* The read deadline is armed from what is left of the budget.
ArmRead(h) ==
    /\ pc[h] = "check"
    /\ QuietUnchanged(h)
    /\ quiet[h] < Timeout
    /\ timer' = [timer EXCEPT ![h] = Timeout - quiet[h]]
    /\ quiet' = [quiet EXCEPT ![h] = 0]
    /\ Goto(h, "read")
    /\ UNCHANGED <<kind, age, stamp, snap, dirty, open, ended, sawEof, moved>>

TouchBackwards(h, next) ==
    /\ age' = stamp[h]
    /\ dirty' = [k \in Ends |-> TRUE]
    /\ stamp' = [stamp EXCEPT ![h] = 0]
    /\ timer' = [timer EXCEPT ![h] = IF next = "write" THEN Timeout ELSE 0]
    /\ Goto(h, next)
    /\ UNCHANGED <<kind, snap, quiet, open, ended, sawEof, moved>>

\* touchAt: the compare-and-swap loop only ever moves the timestamp forward.
\* Then the next chunk is written under a new deadline, or the copy goes on.
Touch(h, next) ==
    /\ age' = IF stamp[h] < age THEN stamp[h] ELSE age
    /\ dirty' = [k \in Ends |-> dirty[k] \/ stamp[h] < age]
    /\ stamp' = [stamp EXCEPT ![h] = 0]
    /\ timer' = [timer EXCEPT ![h] = IF next = "write" THEN Timeout ELSE 0]
    /\ Goto(h, next)
    /\ UNCHANGED <<kind, snap, quiet, open, ended, sawEof, moved>>

-----------------------------------------------------------------------------
(* idleCopy and forwardHalf                                                *)

\* A byte moves, and the touch that records it reads the time.
Moves(h, l) ==
    /\ moved' = 0
    /\ stamp' = [stamp EXCEPT ![h] = 0]
    /\ timer' = [timer EXCEPT ![h] = 0]
    /\ Goto(h, l)
    /\ UNCHANGED <<kind, age, snap, dirty, quiet, open, ended, sawEof>>

\* Without an idle timeout idleCopy is a plain io.Copy and there is no clock.
ReadData(h) ==
    /\ pc[h] = "read"
    /\ open
    /\ Moves(h, IF kind.idleCheck THEN "touchRead" ELSE "write")

\* The read deadline passed: the copy ends if the clock says that the whole
\* tunnel is idle and arms a new deadline otherwise, so quietFor runs again.
ReadTimesOut(h) ==
    /\ pc[h] = "read"
    /\ kind.idleCheck
    /\ timer[h] = 0
    /\ Goto(h, "load")
    /\ UNCHANGED <<kind, clockVars, timer, open, ended, sawEof, moved>>

ReadEofDropped(h) ==
    /\ pc[h] = "read"
    /\ open
    /\ ~(kind.tls /\ Other(h) = "peer")
    /\ timer' = [timer EXCEPT ![h] = 0]
    /\ ended' = [ended EXCEPT ![h] = "eof"]
    /\ Goto(h, "done")
    /\ UNCHANGED <<kind, clockVars, open, sawEof, moved>>

\* The destination is an upstreamTLSConn.
Notifies(h) == kind.tls /\ Other(h) = "peer"

\* End of file: forwardHalf half-closes the destination and is done.
ReadEof(h) ==
    /\ pc[h] = "read"
    /\ open
    /\ ~Notifies(h)
    /\ timer' = [timer EXCEPT ![h] = 0]
    /\ sawEof' = sawEof \cup ({Other(h)} \cap CloseWriters)
    /\ ended' = [ended EXCEPT ![h] = "eof"]
    /\ Goto(h, "done")
    /\ UNCHANGED <<kind, clockVars, open, moved>>

\* A TLS connection is half-closed by a close_notify alert, which has to be written:
\* under the deadline of any other write, or of crypto/tls where there is no clock.
Notify(h) ==
    /\ pc[h] = "read"
    /\ open
    /\ Notifies(h)
    /\ timer' = [timer EXCEPT ![h] = Timeout]
    /\ Goto(h, "notify")
    /\ UNCHANGED <<kind, clockVars, open, ended, sawEof, moved>>

\* The alert counts as progress like any other byte.
NotifyAccepted(h) ==
    /\ pc[h] = "notify"
    /\ open
    /\ moved' = 0
    /\ stamp' = [stamp EXCEPT ![h] = 0]
    /\ timer' = [timer EXCEPT ![h] = 0]
    /\ sawEof' = sawEof \cup {Other(h)}
    /\ ended' = [ended EXCEPT ![h] = "eof"]
    /\ Goto(h, IF kind.idleCheck THEN "touchNotify" ELSE "done")
    /\ UNCHANGED <<kind, age, snap, dirty, quiet, open>>

NotifyTimesOut(h) ==
    /\ pc[h] = "notify"
    /\ timer[h] = 0
    /\ Fail(h, "timeout")
    /\ UNCHANGED <<kind, clockVars, timer, open, sawEof, moved>>

NotifyFails(h) ==
    /\ pc[h] = "notify"
    /\ timer' = [timer EXCEPT ![h] = 0]
    /\ Fail(h, "error")
    /\ UNCHANGED <<kind, clockVars, open, sawEof, moved>>

\* The read fails, or the half-close of a plain connection does.
ReadFails(h) ==
    /\ pc[h] = "read"
    /\ timer' = [timer EXCEPT ![h] = 0]
    /\ Fail(h, "error")
    /\ UNCHANGED <<kind, clockVars, open, sawEof, moved>>

\* clock.touch() after a read; the data is then written under a new deadline.
TouchRead(h) ==
    /\ pc[h] = "touchRead"
    /\ Touch(h, "write")

\* tunnelConn.Read below TLS: what came in holds no data yet, and TLS reads on.
TouchRecord(h) ==
    /\ pc[h] = "touchRead"
    /\ kind.tls /\ h = "peer"
    /\ Touch(h, "load")

WriteAccepts(h) ==
    /\ pc[h] = "write"
    /\ open
    /\ \/ kind.idleCheck /\ Moves(h, "touchWrite")
       \/ ~kind.idleCheck /\ \E next \in {"write", "read"} : Moves(h, next)

\* clock.touch() after a chunk was accepted: the next chunk, or the next read.
TouchWrite(h) ==
    /\ pc[h] = "touchWrite"
    /\ \E next \in {"write", "load"} : Touch(h, next)

TouchNotify(h) ==
    /\ pc[h] = "touchNotify"
    /\ Touch(h, "done")

WriteWaitsForever(h) ==
    /\ pc[h] = "write"
    /\ ~open
    /\ Fail(h, "timeout")
    /\ UNCHANGED <<kind, clockVars, timer, open, sawEof, moved>>

\* No chunk was accepted before the write deadline.
WriteTimesOut(h) ==
    /\ pc[h] = "write"
    /\ kind.idleCheck
    /\ timer[h] = 0
    /\ Fail(h, "timeout")
    /\ UNCHANGED <<kind, clockVars, timer, open, sawEof, moved>>

WriteFails(h) ==
    /\ pc[h] = "write"
    /\ timer' = [timer EXCEPT ![h] = 0]
    /\ Fail(h, "error")
    /\ UNCHANGED <<kind, clockVars, open, sawEof, moved>>

\* forwardTunnel closes both connections when a direction failed.
Teardown(h) ==
    /\ pc[h] = "failed"
    /\ open' = FALSE
    /\ Goto(h, "done")
    /\ UNCHANGED <<kind, clockVars, timer, ended, sawEof, moved>>

Clock(h) ==
    \/ QuietLoad(h)
    \/ QuietSince(h)
    \/ QuietRetry(h)
    \/ IdleEnds(h)
    \/ ArmRead(h)
    \/ TouchRead(h)
    \/ TouchRecord(h)
    \/ TouchWrite(h)
    \/ TouchNotify(h)

Copy(h) ==
    \/ ReadData(h)
    \/ ReadTimesOut(h)
    \/ ReadEof(h)
    \/ Notify(h)
    \/ NotifyAccepted(h)
    \/ NotifyTimesOut(h)
    \/ NotifyFails(h)
    \/ ReadFails(h)
    \/ WriteAccepts(h)
    \/ WriteTimesOut(h)
    \/ WriteFails(h)
    \/ Teardown(h)

Finished == \A h \in Ends : pc[h] = "done"

Next ==
    /\ ~Finished
    /\ Tick \/ \E h \in Ends : Clock(h) \/ Copy(h)

Spec == Init /\ [][Next]_vars

\* Time passes, the goroutines are scheduled, and a read or write returns when
\* its deadline has passed or its connection is closed.  The two peers need not
\* send or accept anything.
Fairness ==
    /\ WF_vars(~Finished /\ Tick)
    /\ \A h \in Ends :
         /\ WF_vars(Clock(h))
         /\ WF_vars(ReadTimesOut(h))
         /\ WF_vars(WriteTimesOut(h))
         /\ WF_vars(NotifyTimesOut(h))
         /\ WF_vars(~open /\ (ReadFails(h) \/ WriteFails(h) \/ NotifyFails(h)))
         /\ WF_vars(Teardown(h))

FairSpec == Spec /\ Fairness

-----------------------------------------------------------------------------
\* The variables keep their types; no deadline is armed for longer than the
\* timeout.
TypeOK ==
    /\ kind \in Kinds
    /\ pc \in [Ends -> {"load", "since", "check", "read", "write", "notify", "failed", "done"} \cup Touching]
    /\ age \in 0..Timeout
    /\ moved \in 0..Timeout
    /\ stamp \in [Ends -> 0..Timeout]
    /\ snap \in [Ends -> 0..Timeout]
    /\ dirty \in [Ends -> BOOLEAN]
    /\ quiet \in [Ends -> 0..Timeout]
    /\ timer \in [Ends -> 0..Timeout]
    /\ open \in BOOLEAN
    /\ ended \in [Ends -> {"no", "eof", "idle", "timeout", "error"}]
    /\ sawEof \subseteq Ends

TouchPending == \E h \in Ends : pc[h] \in Touching

\* The lock-free clock is exact: whenever no touch is under way, clock.last is
\* the time the latest byte moved in either direction, however the touches of
\* the two goroutines interleaved.
ClockIsExact == kind.idleCheck /\ ~TouchPending => age = moved

\* A direction gives the tunnel up as idle only when nothing has moved in either
\* direction for the whole timeout: a one-way transfer is never cut off by its
\* silent direction.  (A byte whose touch is still under way is not observed.)
IdleIsReal ==
    [][\A h \in Ends :
          ended[h] # "idle" /\ ended'[h] = "idle" => moved >= Timeout \/ TouchPending]_vars

\* A direction that ended with an end of file has passed it on to its
\* destination, and a direction that failed has closed both connections
\* ("preserving half-close on normal EOF and closing both connections if either
\* copy fails").
EndIsPassedOn ==
    \A h \in Ends : pc[h] = "done" =>
        IF ended[h] = "eof" THEN Other(h) \in sawEof ELSE ~open

\* A tunnel in which nothing moves any more is closed, whatever state its two
\* directions are in and although neither peer ever closes or reads, the alert that
\* half-closes a TLS connection included (upstreamTLSConn.CloseWrite), unless there
\* is no idle timeout; and once a direction has failed both end, although the other
\* one still moves data.
TunnelEnds ==
    /\ kind.idleCheck => []<><<\E h \in Ends : ReadData(h) \/ WriteAccepts(h)>>_vars \/ <>Finished
    /\ (\E h \in Ends : pc[h] = "failed") ~> Finished
=============================================================================
