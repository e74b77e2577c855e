---------------------------- MODULE ProcessProofs ----------------------------
(***************************************************************************)
(* Proofs about Serve, and Serve within Process, for any finite set of     *)
(* clients and any -max-conns.                                             *)
(***************************************************************************)
EXTENDS Process, FiniteSetTheorems, TLAPS

Open == Running \ released
Held == IF accept = "accept" THEN 1 ELSE 0

\* Only a connection that was accepted has been closed, and no slot beyond the
\* limit is in use.
Slots ==
    /\ \A c \in released : conns[c] \in {"idle", "busy", "ended"}
    /\ sem = Cardinality(Open) + Held
    /\ MaxConns # 0 => sem <= MaxConns

\* The drain comes after the accept loop, its result after the waiter, and the
\* provider's Close after the result.
Drain ==
    /\ serve \in {"serving", "joining", "draining", "returned", "exited"}
    /\ serve \in {"serving", "joining"} => waiter = "none" /\ outcome = "none"
    /\ serve # "exited" => provider = "open"
    /\ waiter # "none" => accept = "done"
    /\ waiter = "done" => Running = {}
    /\ outcome = "drained" => waiter = "done"
    /\ serve \in {"returned", "exited"} => outcome \in {"drained", "timeout"}

IInv == TypeOK /\ Slots /\ Drain

LEMMA OpenIsFinite == ASSUME TypeOK PROVE IsFiniteSet(Open) /\ Cardinality(Open) \in Nat
<1>1. Open \subseteq Conns
  BY DEF Open, Running
<1> QED
  BY <1>1, ServeAssumption, FS_Subset, FS_CardinalityType

LEMMA InitIInv == Init => IInv
<1> SUFFICES ASSUME Init PROVE IInv
  OBVIOUS
<1>1. TypeOK /\ Drain
  <2>1. ctxDone \in BOOLEAN
    BY Zenon DEF Init
  <2>2. delay \in 0..AcceptBackoffMax
    BY DEF Init, AcceptBackoffMax
  <2> QED
    BY <2>1, <2>2 DEF Init, TypeOK, Drain
<1>2. Open = {}
  BY DEF Init, Open, Running
<1>3. Cardinality(Open) = 0
  BY <1>2, FS_EmptySet
<1> QED
  BY <1>1, <1>3, ServeAssumption DEF Init, IInv, Slots, Held

LEMMA NextTypeOK == TypeOK /\ Slots /\ [Next]_vars => TypeOK'
<1> SUFFICES ASSUME TypeOK, Slots, [Next]_vars PROVE TypeOK'
  OBVIOUS
<1> USE DEF TypeOK, connVars, acceptVars, mainVars
<1>1. CASE AcceptLoop
  <2>1. NextDelay \in 0..AcceptBackoffMax
    BY DEF NextDelay, AcceptBackoffInitial, AcceptBackoffMax
  <2>2. CASE AcquireFails \/ AcceptFails
    BY <2>1, <2>2 DEF AcquireFails, AcceptFails, AcceptError
  <2>3. CASE Acquire \/ BackoffEnds \/ BackoffCancelled
    BY <2>3 DEF Acquire, BackoffEnds, BackoffCancelled
  <2>4. ASSUME NEW c \in Conns, Accept(c) PROVE TypeOK'
    BY <2>4 DEF Accept, AcceptBackoffMax
  <2> QED
    BY <1>1, <2>2, <2>3, <2>4 DEF AcceptLoop
<1>2. CASE Shutdown
  BY <1>2 DEF Shutdown, CloseListener, JoinAccept, Drained, DrainTimeout
<1>3. CASE Exit \/ WaitReturns \/ Cancel
  BY <1>3, Zenon DEF Exit, WaitReturns, Cancel
<1>4. ASSUME NEW c \in Conns, Connect(c) PROVE TypeOK'
  BY <1>4 DEF Connect
<1>5. ASSUME NEW c \in Conns, Session(c) PROVE TypeOK'
  BY <1>5 DEF Session, SessionServes, SessionAnswers, WatcherCloses, SessionEnds, CloseConn, Running
<1>6. CASE UNCHANGED vars
  BY <1>6 DEF vars
<1> QED
  BY <1>1, <1>2, <1>3, <1>4, <1>5, <1>6 DEF Next

LEMMA NextDrain == TypeOK /\ Drain /\ [Next]_vars => Drain'
<1> SUFFICES ASSUME TypeOK, Drain, [Next]_vars PROVE Drain'
  OBVIOUS
<1> USE DEF TypeOK, Drain, connVars, acceptVars, mainVars, Running
<1>1. CASE AcceptLoop
  BY <1>1 DEF AcceptLoop, Acquire, AcquireFails, AcceptFails, AcceptError, BackoffEnds,
     BackoffCancelled, Accept
<1>2. CASE CloseListener
  BY <1>2 DEF CloseListener
<1>3. CASE JoinAccept \/ Drained \/ DrainTimeout
  BY <1>3 DEF JoinAccept, Drained, DrainTimeout
<1>4. CASE Exit \/ WaitReturns \/ Cancel
  BY <1>4 DEF Exit, WaitReturns, Cancel
<1>5. ASSUME NEW c \in Conns, Connect(c) PROVE Drain'
  BY <1>5 DEF Connect
<1>6. ASSUME NEW c \in Conns, Session(c) PROVE Drain'
  BY <1>6 DEF Session, SessionServes, SessionAnswers, WatcherCloses, SessionEnds, CloseConn
<1>7. CASE UNCHANGED vars
  BY <1>7 DEF vars
<1> QED
  BY <1>1, <1>2, <1>3, <1>4, <1>5, <1>6, <1>7 DEF Next, Shutdown

LEMMA NextSlots == TypeOK /\ Slots /\ [Next]_vars => Slots'
<1> SUFFICES ASSUME TypeOK, Slots, [Next]_vars PROVE Slots'
  OBVIOUS
<1> USE ServeAssumption DEF TypeOK, Slots, connVars, acceptVars, mainVars
<1>0. IsFiniteSet(Open) /\ Cardinality(Open) \in Nat
  BY OpenIsFinite
\* A step that leaves the open connections, the slots and the held one alone.
<1>a. ASSUME Open' = Open, sem' = sem, Held' = Held,
             \A c \in released' : conns'[c] \in {"idle", "busy", "ended"}
      PROVE  Slots'
  BY <1>0, <1>a
\* A step that closes an open connection.
<1>b. ASSUME NEW c \in Open, Open' = Open \ {c}, sem' = sem - 1, Held' = Held,
             \A d \in released' : conns'[d] \in {"idle", "busy", "ended"}
      PROVE  Slots'
  <2>1. Cardinality(Open') = Cardinality(Open) - 1
    BY <1>0, <1>b, FS_RemoveElement, Zenon
  <2> QED
    BY <1>0, <1>b, <2>1 DEF Held
<1>1. CASE Acquire
  <2>1. Open' = Open /\ Held = 0 /\ Held' = 1
    BY <1>1 DEF Acquire, Open, Running, Held
  <2> QED
    BY <1>0, <1>1, <2>1 DEF Acquire
<1>2. CASE AcceptFails
  <2>1. Open' = Open /\ Held = 1 /\ Held' = 0
    BY <1>2 DEF AcceptFails, AcceptError, Open, Running, Held
  <2> QED
    BY <1>0, <1>2, <2>1 DEF AcceptFails
<1>3. ASSUME NEW c \in Conns, Accept(c) PROVE Slots'
  <2>1. c \notin released
    BY <1>3 DEF Accept
  <2>2. Open' = Open \cup {c} /\ c \notin Open /\ Held = 1 /\ Held' = 0
    BY <1>3, <2>1 DEF Accept, Open, Running, Held
  <2>3. Cardinality(Open') = Cardinality(Open) + 1
    BY <1>0, <2>2, FS_AddElement, Zenon
  <2> QED
    BY <1>0, <1>3, <2>2, <2>3 DEF Accept
<1>4. CASE AcquireFails \/ BackoffEnds \/ BackoffCancelled
  <2>1. Open' = Open /\ sem' = sem /\ Held' = Held /\ released' = released /\ conns' = conns
    BY <1>4 DEF AcquireFails, AcceptError, BackoffEnds, BackoffCancelled, Open, Running, Held
  <2> QED
    BY <1>a, <2>1
<1>5. CASE CloseListener
  <2>1. Open' = Open /\ sem' = sem /\ Held' = Held /\ released' = released
    BY <1>5 DEF CloseListener, Open, Running, Held
  <2>2. \A c \in released' : conns'[c] \in {"idle", "busy", "ended"}
    BY <1>5, <2>1 DEF CloseListener
  <2> QED
    BY <1>a, <2>1, <2>2
<1>6. CASE JoinAccept \/ Drained \/ DrainTimeout \/ Exit \/ WaitReturns \/ Cancel
  <2>1. Open' = Open /\ sem' = sem /\ Held' = Held /\ released' = released /\ conns' = conns
    BY <1>6 DEF JoinAccept, Drained, DrainTimeout, Exit, WaitReturns, Cancel, Open, Running, Held
  <2> QED
    BY <1>a, <2>1
<1>7. ASSUME NEW c \in Conns, Connect(c) \/ SessionServes(c) \/ SessionAnswers(c) PROVE Slots'
  <2>1. Open' = Open /\ sem' = sem /\ Held' = Held /\ released' = released
    BY <1>7 DEF Connect, SessionServes, SessionAnswers, Open, Running, Held
  <2>2. \A d \in released' : conns'[d] \in {"idle", "busy", "ended"}
    BY <1>7, <2>1 DEF Connect, SessionServes, SessionAnswers
  <2> QED
    BY <1>a, <2>1, <2>2
<1>8. ASSUME NEW c \in Conns, WatcherCloses(c) PROVE Slots'
  <2>1. c \in Open /\ Open' = Open \ {c} /\ sem' = sem - 1 /\ Held' = Held
    BY <1>8 DEF WatcherCloses, CloseConn, Open, Running, Held
  <2>2. \A d \in released' : conns'[d] \in {"idle", "busy", "ended"}
    BY <1>8 DEF WatcherCloses, CloseConn
  <2> QED
    BY <1>b, <2>1, <2>2, Zenon
<1>9. ASSUME NEW c \in Conns, SessionEnds(c) PROVE Slots'
  <2>1. \A d \in released' : conns'[d] \in {"idle", "busy", "ended"}
    BY <1>9 DEF SessionEnds, CloseConn
  <2>2. CASE c \in released
    <3>1. Open' = Open /\ sem' = sem /\ Held' = Held
      BY <1>9, <2>2 DEF SessionEnds, CloseConn, Open, Running, Held
    <3> QED
      BY <1>a, <2>1, <3>1
  <2>3. CASE c \notin released
    <3>1. c \in Open /\ Open' = Open \ {c} /\ sem' = sem - 1 /\ Held' = Held
      BY <1>9, <2>3 DEF SessionEnds, CloseConn, Open, Running, Held
    <3> QED
      BY <1>b, <2>1, <3>1, Zenon
  <2> QED
    BY <2>2, <2>3
<1>10. CASE UNCHANGED vars
  <2>1. Open' = Open /\ sem' = sem /\ Held' = Held /\ released' = released /\ conns' = conns
    BY <1>10 DEF vars, Open, Running, Held
  <2> QED
    BY <1>a, <2>1
<1> QED
  BY <1>1, <1>2, <1>3, <1>4, <1>5, <1>6, <1>7, <1>8, <1>9, <1>10
     DEF Next, AcceptLoop, Shutdown, Session

LEMMA NextIInv == IInv /\ [Next]_vars => IInv'
  BY NextTypeOK, NextSlots, NextDrain DEF IInv

LEMMA IInvIsEnough == IInv => SlotsAccountedFor /\ NoSessionAfterDrain
<1> SUFFICES ASSUME IInv PROVE SlotsAccountedFor /\ NoSessionAfterDrain
  OBVIOUS
<1>1. SlotsAccountedFor
  BY OpenIsFinite, ServeAssumption DEF IInv, Slots, Open, Held, SlotsAccountedFor
<1>2. NoSessionAfterDrain
  BY DEF IInv, Drain, NoSessionAfterDrain
<1> QED
  BY <1>1, <1>2

\* No slot of the limit is lost or returned twice, and no more connections than
\* -max-conns are open, for any number of clients (server.go:47-74, main.go:75-78).
THEOREM SlotsAreExact == Spec => []SlotsAccountedFor
  BY InitIInv, NextIInv, IInvIsEnough, PTL DEF Spec

\* "Drained" means that no session runs, then or later (server.go:76-92).
THEOREM DrainIsFinal == Spec => []NoSessionAfterDrain
  BY InitIInv, NextIInv, IInvIsEnough, PTL DEF Spec

\* Both hold of the whole process: whatever main does before and after Serve, its
\* steps are steps of Serve or leave Serve alone (main.go:66-86).
THEOREM ProcessServes == ProcessSpec => [](SlotsAccountedFor /\ NoSessionAfterDrain)
<1> DEFINE PInv == IInv /\ (stage # "exited" => serve # "exited")
<1>1. ProcessInit => PInv
  BY InitIInv DEF ProcessInit, Init
<1>2. PInv /\ [ProcessNext]_processVars => PInv'
  <2> SUFFICES ASSUME PInv, [ProcessNext]_processVars PROVE PInv'
    OBVIOUS
  <2>1. [Next]_vars
    BY DEF ProcessNext, processVars, StartsUp, ClientConnects, Serving, Finish, Next, Start!Return
  <2>2. stage' # "exited" => serve' # "exited"
    <3>1. CASE Finish
      BY <3>1 DEF Finish, Start!Return, Start!Exit
    <3>2. CASE StartsUp
      <4>1. stage # "exited"
        BY <3>2 DEF StartsUp, Start!Boot, Start!ParseFails, Start!ShowVersion, Start!FlagsRefused,
           Start!BuildProvider, Start!BuildProviderFails, Start!Listen, Start!ListenFails,
           Start!BuildConfig, Start!BuildConfigFails, Start!Killed
      <4> QED
        BY <3>2, <4>1 DEF StartsUp, vars, mainVars
    <3>3. ASSUME NEW c \in Conns, ClientConnects(c) PROVE stage' # "exited" => serve' # "exited"
      BY <3>3 DEF ClientConnects, Connect, startVars, mainVars
    <3>4. ASSUME NEW c \in Conns, Serving(Session(c)) PROVE stage' # "exited" => serve' # "exited"
      BY <3>4 DEF Serving, startVars, Session, SessionServes, SessionAnswers, WatcherCloses,
         SessionEnds, mainVars
    <3>5. CASE Serving(Cancel) \/ Serving(WaitReturns) \/ Serving(Shutdown)
      BY <3>5 DEF Serving, startVars, mainVars, Cancel, WaitReturns, Shutdown, CloseListener,
         JoinAccept, Drained, DrainTimeout
    <3>6. CASE Serving(AcceptLoop)
      BY <3>6 DEF Serving, startVars, mainVars, AcceptLoop, Acquire, AcquireFails, AcceptFails,
         BackoffEnds, BackoffCancelled, Accept
    <3>7. CASE UNCHANGED processVars
      BY <3>7 DEF processVars, vars, mainVars, startVars
    <3> QED
      BY <3>1, <3>2, <3>3, <3>4, <3>5, <3>6, <3>7 DEF ProcessNext
  <2> QED
    BY <2>1, <2>2, NextIInv
<1>3. PInv => SlotsAccountedFor /\ NoSessionAfterDrain
  BY IInvIsEnough
<1> QED
  BY <1>1, <1>2, <1>3, PTL DEF ProcessSpec

-----------------------------------------------------------------------------
(* The flags and the breaker that is built from them.                      *)

\* Once the provider is built, its breaker has the threshold of the flags.
FlagInv ==
    /\ flags \in [cbThreshold : Thresholds, cbTimeout : {0, 1}]
    /\ stage \in {"listen", "config", "serving"} =>
          breaker = flags.cbThreshold /\ breaker >= 1 /\ flags.cbTimeout > 0

LEMMA SmallIsItself == ASSUME NEW x \in Int, NEW m \in Int, 0 < x, x <= m - 1 PROVE x % m = x
  OBVIOUS

\* An accepted threshold is below 2^Width, where the conversion changes nothing.
LEMMA AcceptedFits ==
  ASSUME FlagInv, Start!ValidateFlags
  PROVE  flags.cbThreshold % 2 ^ Width = flags.cbThreshold
<1>1. flags.cbThreshold \in Int
  BY FlagAssumption, Zenon DEF FlagInv
<1>2. 2 ^ Width \in Int
  BY FlagAssumption
<1>3. 0 < flags.cbThreshold /\ flags.cbThreshold <= 2 ^ Width - 1
  BY DEF Start!ValidateFlags, Start!CbThresholdMax
<1> QED
  BY <1>1, <1>2, <1>3, SmallIsItself

LEMMA NextFlagInv == FlagInv /\ [ProcessNext]_processVars => FlagInv'
<1> SUFFICES ASSUME FlagInv, [ProcessNext]_processVars PROVE FlagInv'
  OBVIOUS
<1>1. CASE StartsUp
  <2> USE DEF FlagInv
  <2>1. CASE Start!BuildProvider
    <3>1. breaker' = flags.cbThreshold /\ flags' = flags
      BY <2>1, AcceptedFits DEF Start!BuildProvider
    <3>2. flags.cbThreshold \in Int /\ flags.cbThreshold > 0 /\ flags.cbTimeout > 0
      BY <2>1, FlagAssumption, Zenon DEF Start!BuildProvider, Start!ValidateFlags
    <3> QED
      BY <3>1, <3>2
  <2>2. CASE Start!Listen \/ Start!BuildConfig
    BY <2>2 DEF Start!Listen, Start!BuildConfig
  <2>3. ASSUME NEW code, Start!Exit(code) PROVE FlagInv'
    BY <2>3 DEF Start!Exit
  <2> QED
    BY <1>1, <2>1, <2>2, <2>3 DEF StartsUp, Start!Boot, Start!ParseFails, Start!ShowVersion,
       Start!FlagsRefused, Start!BuildProviderFails, Start!ListenFails, Start!BuildConfigFails,
       Start!Killed
<1>2. CASE Finish
  BY <1>2 DEF Finish, Start!Return, Start!Exit, FlagInv
<1>3. CASE UNCHANGED startVars
  BY <1>3 DEF startVars, FlagInv
<1> QED
  BY <1>1, <1>2, <1>3 DEF ProcessNext, processVars, ClientConnects, Serving

\* The threshold a serving proxy counts to is the one of -cb-threshold, for every
\* width of the breaker's counter and every value of the flag (validateFlags and
\* buildProvider, cli.go:115-143).
THEOREM ThresholdIsKept == ProcessSpec => []BreakerAsAsked
<1>1. ProcessInit => FlagInv
  BY DEF ProcessInit, Start!Init, FlagInv
<1>2. FlagInv => BreakerAsAsked
  BY DEF FlagInv, BreakerAsAsked
<1> QED
  BY <1>1, <1>2, NextFlagInv, PTL DEF ProcessSpec
=============================================================================
