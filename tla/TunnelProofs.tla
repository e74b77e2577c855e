---------------------------- MODULE TunnelProofs ----------------------------
(***************************************************************************)
(* Proofs about the tunnel, for every timeout.  That the idle clock is     *)
(* exact rests on what the touches under way will do to it: a timestamp    *)
(* that a touch has read is never newer than the latest byte, and as long  *)
(* as the clock lags behind that byte some touch is about to correct it.   *)
(***************************************************************************)
EXTENDS Tunnel, TLAPS

\* The clock and the touches under way.
ClockLags ==
    /\ moved <= age
    /\ \A h \in Ends : pc[h] \in Touching => moved <= stamp[h]
    /\ kind.idleCheck => age = moved \/ \E h \in Ends : pc[h] \in Touching /\ stamp[h] = moved

\* Without an idle timeout nobody looks at the clock.
ClockInUse == \A h \in Ends : pc[h] \in {"load", "since", "check"} \cup Touching => kind.idleCheck

\* What quietFor has seen is the clock, unless a touch came in between.
QuietIsSound ==
    \A h \in Ends : ~dirty[h] =>
        /\ pc[h] = "since" => snap[h] = age
        /\ pc[h] = "check" => quiet[h] <= age

IInv == TypeOK /\ ClockLags /\ ClockInUse /\ QuietIsSound

LEMMA EndsAreTwo == \A h \in Ends : Other(h) \in Ends /\ Other(h) # h
  BY DEF Ends, Other

\* Initially nothing has moved and the clock has just been started.
LEMMA InitIInv == Init => IInv
  BY TunnelAssumption DEF Init, IInv, TypeOK, ClockLags, ClockInUse, QuietIsSound, Ends, Kinds, Touching

\* A tick makes everything older alike, up to the same cap.
LEMMA TickIInv == ASSUME IInv, Tick PROVE IInv'
  <1> USE TunnelAssumption DEF IInv
  <1>1. TypeOK'
    BY DEF Tick, TypeOK, Cap
  <1>2. ClockLags' /\ ClockInUse'
    BY DEF Tick, TypeOK, Cap, ClockLags, ClockInUse
  <1>3. QuietIsSound'
    BY DEF Tick, TypeOK, Cap, QuietIsSound, Touching
  <1> QED
    BY <1>1, <1>2, <1>3

\* A compare-and-swap moves the clock to the newest timestamp it has met.
LEMMA TouchIInv ==
    ASSUME IInv, NEW h \in Ends, pc[h] \in Touching, NEW next \in {"write", "load", "done"}, Touch(h, next)
    PROVE  IInv'
  <1> USE TunnelAssumption DEF IInv
  <1>1. TypeOK'
    BY DEF Touch, Goto, TypeOK
  <1>2. ClockLags' /\ ClockInUse'
    BY DEF Touch, Goto, TypeOK, ClockLags, ClockInUse, Touching
  <1>3. QuietIsSound'
    <2> SUFFICES ASSUME NEW k \in Ends, ~dirty'[k]
                 PROVE  /\ pc'[k] = "since" => snap'[k] = age'
                        /\ pc'[k] = "check" => quiet'[k] <= age'
      BY DEF QuietIsSound
    <2>1. ~dirty[k] /\ ~(stamp[h] < age)
      BY Zenon DEF Touch
    <2>2. age' = age
      BY <2>1 DEF Touch
    <2> QED
      BY <2>1, <2>2 DEF Touch, Goto, TypeOK, QuietIsSound
  <1> QED
    BY <1>1, <1>2, <1>3

\* A byte moves: its own touch is now under way, with the newest timestamp, if there
\* is a clock.
LEMMA MovesIInv ==
    ASSUME IInv, NEW h \in Ends, NEW l, Moves(h, l),
           l \in IF kind.idleCheck THEN Touching ELSE {"read", "write"}
    PROVE  IInv'
  <1> USE TunnelAssumption DEF IInv
  <1>1. TypeOK'
    <2>1. l \in {"read", "write"} \cup Touching
      OBVIOUS
    <2> QED
      BY <2>1 DEF Moves, Goto, TypeOK
  <1>2. ClockLags' /\ ClockInUse'
    BY DEF Moves, Goto, TypeOK, ClockLags, ClockInUse, Touching
  <1>3. QuietIsSound'
    BY DEF Moves, Goto, TypeOK, QuietIsSound, Touching
  <1> QED
    BY <1>1, <1>2, <1>3

\* The two loads of quietFor.
LEMMA QuietIInv ==
    ASSUME IInv, NEW h \in Ends, QuietLoad(h) \/ QuietSince(h) \/ QuietRetry(h) \/ IdleEnds(h) \/ ArmRead(h)
    PROVE  IInv'
  <1> USE TunnelAssumption DEF IInv
  <1>1. TypeOK'
    <2>1. CASE QuietSince(h) \/ QuietRetry(h)
      BY <2>1 DEF QuietSince, QuietRetry, Goto, TypeOK
    <2>2. CASE IdleEnds(h)
      BY <2>2 DEF IdleEnds, Fail, Goto, TypeOK
    <2>3. CASE ArmRead(h)
      BY <2>3 DEF ArmRead, Goto, TypeOK
    <2>4. CASE QuietLoad(h)
      <3>1. dirty' \in [Ends -> BOOLEAN]
        BY <2>4, Zenon DEF QuietLoad, TypeOK
      <3> QED
        BY <2>4, <3>1 DEF QuietLoad, Goto, TypeOK
    <2> QED
      BY <2>1, <2>2, <2>3, <2>4
  <1>2. ClockLags' /\ ClockInUse'
    BY DEF QuietLoad, QuietSince, QuietRetry, IdleEnds, ArmRead, Fail, Goto, TypeOK, ClockLags, ClockInUse, Touching
  <1>3. QuietIsSound'
    BY DEF QuietLoad, QuietSince, QuietRetry, IdleEnds, ArmRead, Fail, Goto, TypeOK, QuietIsSound
  <1> QED
    BY <1>1, <1>2, <1>3

\* The other steps of a direction do not touch the clock.
LEMMA CopyIInv ==
    ASSUME IInv, NEW h \in Ends,
           \/ ReadTimesOut(h) \/ ReadEof(h) \/ ReadFails(h)
           \/ WriteTimesOut(h) \/ WriteFails(h) \/ Teardown(h)
           \/ Notify(h) \/ NotifyTimesOut(h) \/ NotifyFails(h)
    PROVE  IInv'
  <1> USE TunnelAssumption DEF IInv, clockVars
  <1>1. TypeOK'
    <2>1. CASE ReadTimesOut(h) \/ Teardown(h)
      BY <2>1, Zenon DEF ReadTimesOut, Teardown, Goto, TypeOK
    <2>2. CASE ReadEof(h)
      BY <2>2, EndsAreTwo DEF ReadEof, Goto, TypeOK
    <2>3. CASE ReadFails(h) \/ WriteTimesOut(h) \/ WriteFails(h)
      BY <2>3 DEF ReadFails, WriteTimesOut, WriteFails, Fail, Goto, TypeOK
    <2>4. CASE Notify(h) \/ NotifyTimesOut(h) \/ NotifyFails(h)
      BY <2>4 DEF Notify, NotifyTimesOut, NotifyFails, Fail, Goto, TypeOK
    <2> QED
      BY <2>1, <2>2, <2>3, <2>4
  <1>2. ClockLags' /\ ClockInUse'
    BY DEF ReadTimesOut, ReadEof, ReadFails, WriteTimesOut, WriteFails, Teardown,
       Notify, NotifyTimesOut, NotifyFails, Fail, Goto, TypeOK,
       ClockLags, ClockInUse, Touching
  <1>3. QuietIsSound'
    BY DEF ReadTimesOut, ReadEof, ReadFails, WriteTimesOut, WriteFails, Teardown,
       Notify, NotifyTimesOut, NotifyFails, Fail, Goto, TypeOK,
       QuietIsSound
  <1> QED
    BY <1>1, <1>2, <1>3

\* The alert of a half-close moves like any byte.
LEMMA NotifyIInv == ASSUME IInv, NEW h \in Ends, NotifyAccepted(h) PROVE IInv'
  <1> USE TunnelAssumption DEF IInv
  <1>1. TypeOK'
    BY EndsAreTwo DEF NotifyAccepted, Goto, TypeOK, Touching
  <1>2. ClockLags' /\ ClockInUse'
    BY DEF NotifyAccepted, Goto, TypeOK, ClockLags, ClockInUse, Touching
  <1>3. QuietIsSound'
    BY DEF NotifyAccepted, Goto, TypeOK, QuietIsSound, Touching
  <1> QED
    BY <1>1, <1>2, <1>3

LEMMA NextIInv == IInv /\ [Next]_vars => IInv'
  <1> SUFFICES ASSUME IInv, [Next]_vars PROVE IInv'
    OBVIOUS
  <1>1. CASE Tick
    BY <1>1, TickIInv
  <1>2. ASSUME NEW h \in Ends, Clock(h) PROVE IInv'
    <2>1. CASE TouchRead(h) \/ TouchRecord(h)
      BY <2>1, TouchIInv DEF TouchRead, TouchRecord, Touching
    <2>2. CASE TouchWrite(h)
      BY <2>2, TouchIInv DEF TouchWrite, Touching
    <2>3. CASE TouchNotify(h)
      BY <2>3, TouchIInv DEF TouchNotify, Touching
    <2> QED
      BY <1>2, <2>1, <2>2, <2>3, QuietIInv DEF Clock
  <1>3. ASSUME NEW h \in Ends, Copy(h) PROVE IInv'
    <2>1. CASE ReadData(h) \/ WriteAccepts(h)
      BY <2>1, MovesIInv DEF ReadData, WriteAccepts, Touching
    <2> QED
      BY <1>3, <2>1, CopyIInv, NotifyIInv DEF Copy
  <1>4. CASE UNCHANGED vars
    BY <1>4 DEF vars, clockVars, IInv, TypeOK, ClockLags, ClockInUse, QuietIsSound
  <1> QED
    BY <1>1, <1>2, <1>3, <1>4 DEF Next

LEMMA Invariance == Spec => []IInv
  BY InitIInv, NextIInv, PTL DEF Spec

\* The lock-free clock (tunnelClock.touchAt) is exact for every timeout: whenever
\* no touch is under way it holds the time the latest byte moved.
THEOREM ClockHoldsLatestMove == Spec => []ClockIsExact
  <1>1. IInv => ClockIsExact
    BY DEF IInv, TypeOK, ClockLags, ClockIsExact, TouchPending
  <1> QED
    BY <1>1, Invariance, PTL

\* idleCopy gives a tunnel up as idle only after a whole timeout in which no byte
\* moved in either direction, for every timeout: the second load of quietFor
\* catches the touch that would make its answer stale.
THEOREM IdlenessIsReal == Spec => IdleIsReal
  <1>1. IInv /\ [Next]_vars =>
          [\A h \in Ends :
             ended[h] # "idle" /\ ended'[h] = "idle" => moved >= Timeout \/ TouchPending]_vars
    <2> SUFFICES ASSUME IInv, Next, NEW h \in Ends, ended[h] # "idle", ended'[h] = "idle"
                 PROVE  moved >= Timeout \/ TouchPending
      OBVIOUS
    <2>1. IdleEnds(h)
      <3>1. ASSUME Tick PROVE FALSE
        BY <3>1 DEF Tick
      <3>2. ASSUME NEW k \in Ends, Clock(k) PROVE IdleEnds(h)
        <4>1. CASE IdleEnds(k)
          BY <4>1, Zenon DEF IdleEnds, Fail, IInv, TypeOK
        <4> QED
          BY <3>2, <4>1 DEF Clock, QuietLoad, QuietSince, QuietRetry, ArmRead, TouchRead, TouchRecord,
             TouchWrite, TouchNotify, Touch
      <3>3. ASSUME NEW k \in Ends, Copy(k) PROVE FALSE
        BY <3>3 DEF Copy, ReadData, WriteAccepts, Moves, ReadTimesOut, ReadEof, ReadFails,
           WriteTimesOut, WriteFails, Teardown, Notify, NotifyAccepted, NotifyTimesOut, NotifyFails,
           Fail, IInv, TypeOK
      <3> QED
        BY <3>1, <3>2, <3>3 DEF Next
    <2>2. age >= Timeout
      BY <2>1, TunnelAssumption DEF IdleEnds, QuietUnchanged, IInv, QuietIsSound, TypeOK
    <2> QED
      BY <2>1, <2>2 DEF IInv, IdleEnds, TypeOK, ClockLags, ClockInUse, TouchPending
  <1> QED
    BY <1>1, Invariance, PTL DEF Spec, IdleIsReal

\* What a direction that has ended leaves behind, when both ends can be half-closed.
EndInv ==
    /\ EndIsPassedOn
    /\ \A h \in Ends : pc[h] = "failed" => ended[h] # "eof"
    /\ \A h \in Ends : pc[h] = "touchNotify" => ended[h] = "eof" /\ Other(h) \in sawEof

\* When both connections have a CloseWrite method, forwardHalf passes every end of
\* file on and forwardTunnel closes both connections after any other end.
THEOREM HalfCloseIsKept == ASSUME CloseWriters = Ends PROVE Spec => []EndIsPassedOn
  <1>1. Init => EndInv
    BY DEF Init, EndInv, EndIsPassedOn
  <1>2. TypeOK /\ EndInv /\ [Next]_vars => EndInv'
    <2> SUFFICES ASSUME TypeOK, EndInv, [Next]_vars PROVE EndInv'
      OBVIOUS
    <2> USE DEF EndInv, EndIsPassedOn, TypeOK
    <2>1. CASE Tick
      BY <2>1 DEF Tick
    <2>2. ASSUME NEW h \in Ends, Clock(h) PROVE EndInv'
      <3>1. CASE IdleEnds(h)
        BY <3>1 DEF IdleEnds, Fail, Goto
      <3>2. CASE TouchRead(h) \/ TouchRecord(h) \/ TouchWrite(h) \/ TouchNotify(h)
        BY <3>2 DEF TouchRead, TouchRecord, TouchWrite, TouchNotify, Touch, Goto
      <3> QED
        BY <2>2, <3>1, <3>2 DEF Clock, QuietLoad, QuietSince, QuietRetry, ArmRead, Goto
    <2>3. ASSUME NEW h \in Ends, Copy(h) PROVE EndInv'
      <3>1. CASE ReadEof(h)
        BY <3>1, EndsAreTwo DEF ReadEof, Goto
      <3>2. CASE Teardown(h)
        BY <3>2 DEF Teardown, Goto
      <3>3. CASE ReadFails(h) \/ WriteTimesOut(h) \/ WriteFails(h) \/ NotifyTimesOut(h) \/ NotifyFails(h)
        BY <3>3 DEF ReadFails, WriteTimesOut, WriteFails, NotifyTimesOut, NotifyFails, Fail, Goto
      <3>4. CASE NotifyAccepted(h)
        BY <3>4, EndsAreTwo DEF NotifyAccepted, Goto
      <3> QED
        BY <2>3, <3>1, <3>2, <3>3, <3>4 DEF Notify, Copy, ReadData, WriteAccepts, Moves, ReadTimesOut, Goto
    <2>4. CASE UNCHANGED vars
      BY <2>4 DEF vars
    <2> QED
      BY <2>1, <2>2, <2>3, <2>4 DEF Next
  <1>3. EndInv => EndIsPassedOn
    BY DEF EndInv
  <1>4. IInv => TypeOK
    BY DEF IInv
  <1> QED
    BY <1>1, <1>2, <1>3, <1>4, Invariance, PTL DEF Spec
=============================================================================
