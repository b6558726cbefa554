--------------------------- MODULE WatchdogProofs ---------------------------
(***************************************************************************)
(* Proofs about Watchdog, for any number of connections, any interval and  *)
(* any behaviour of the peers.                                             *)
(*                                                                         *)
(* Everything rests on TickerHonest, which relates what the ticker knows   *)
(* (left, fired) to the silence that has really passed (idle): time not    *)
(* yet counted down has been spent in silence, and a tick that waits in    *)
(* the channel means that a whole interval has.  Reset keeps it only       *)
(* because it drops the waiting tick.                                      *)
(***************************************************************************)
EXTENDS Watchdog, TLAPS

TickerHonest ==
    /\ idle + left >= Interval
    /\ fired => idle = Interval

IndInv == TypeOK /\ TickerHonest

LEMMA InitInductive == Init => IndInv
<1> SUFFICES ASSUME Init PROVE IndInv
  OBVIOUS
<1>1. inbox \in [Conns -> Seq(Lines)]
  <2>1. <<>> \in Seq(Lines)
    OBVIOUS
  <2> QED
    BY <2>1 DEF Init
<1>2. left = Interval /\ idle = 0 /\ ~fired /\ Interval \in Nat /\ Interval > 0
  <2>1. Interval \in Nat /\ Interval > 0
    BY IntervalAssumption
  <2> QED
    BY <2>1 DEF Init
<1>3. left \in 1..Interval /\ idle \in 0..Interval /\ idle + left >= Interval
  BY <1>2
<1>4. TickerHonest
  BY <1>2, <1>3 DEF TickerHonest
<1> QED
  BY <1>1, <1>2, <1>3, <1>4 DEF Init, IndInv, TypeOK, Loops, Beats, Verdicts, HandlerPCs

\* The steps that do not touch the ticker and the clock.
Untimed == UNCHANGED <<left, idle>> /\ (fired' => fired)

LEMMA UntimedHonest == TickerHonest /\ Untimed => TickerHonest'
BY DEF TickerHonest, Untimed

LEMMA ResetHonest ==
    ResetTicker => /\ TickerHonest'
                   /\ left' \in 1..Interval /\ fired' \in BOOLEAN /\ idle' \in 0..Interval
<1> SUFFICES ASSUME ResetTicker
             PROVE  TickerHonest' /\ left' \in 1..Interval /\ fired' \in BOOLEAN /\ idle' \in 0..Interval
  OBVIOUS
<1>1. left' = Interval /\ idle' = 0 /\ ~fired' /\ fired' \in BOOLEAN
  BY DEF ResetTicker
<1>2. Interval \in Nat /\ Interval > 0
  BY IntervalAssumption
<1> QED
  BY <1>1, <1>2 DEF TickerHonest

LEMMA TickKeeps == IndInv /\ Tick => IndInv'
<1> SUFFICES ASSUME IndInv, Tick PROVE IndInv'
  OBVIOUS
<1>1. left \in 1..Interval /\ idle \in 0..Interval /\ Interval \in Nat \ {0}
  BY IntervalAssumption DEF IndInv, TypeOK
<1>2. TickerHonest'
  <2>1. idle + left >= Interval /\ (fired => idle = Interval)
    BY DEF IndInv, TickerHonest
  <2>2. idle' + left' >= Interval
    BY <1>1, <2>1 DEF Tick
  <2>3. fired' => fired \/ left = 1
    BY DEF Tick
  <2>4. left = 1 => idle' = Interval
    BY <1>1, <2>1 DEF Tick
  <2>5. fired => idle' = Interval
    BY <2>1 DEF Tick
  <2> QED
    BY <2>2, <2>3, <2>4, <2>5 DEF TickerHonest
<1>3. left' \in 1..Interval /\ idle' \in 0..Interval
  BY <1>1 DEF Tick
<1>4. fired' \in BOOLEAN
  BY DEF IndInv, TypeOK, Tick
<1> QED
  BY <1>2, <1>3, <1>4 DEF IndInv, TypeOK, Tick, connVars

LEMMA StopKeeps == IndInv /\ Stop => IndInv'
<1> SUFFICES ASSUME IndInv, Stop PROVE IndInv'
  OBVIOUS
<1>1. CASE StopCancelled
  BY <1>1, UntimedHonest DEF IndInv, TypeOK, StopCancelled, Untimed, connVars, Verdicts
<1>2. CASE StopTimeout
  BY <1>2, UntimedHonest DEF IndInv, TypeOK, StopTimeout, Untimed, connVars, Verdicts
<1>3. ASSUME NEW c \in Conns, StopMismatch(c) PROVE IndInv'
  BY <1>3, UntimedHonest
     DEF IndInv, TypeOK, StopMismatch, Close, Untimed, Verdicts, HandlerPCs
<1> QED
  BY <1>1, <1>2, <1>3 DEF Stop

LEMMA HandleKeeps == ASSUME IndInv, NEW c \in Conns, Handle(c) PROVE IndInv'
<1> USE DEF IndInv, TypeOK, HandlerPCs
<1>1. CASE ReadLine(c)
  <2>1. Tail(inbox[c]) \in Seq(Lines)
    BY <1>1 DEF ReadLine
  <2> QED
    BY <1>1, <2>1, UntimedHonest DEF ReadLine, Untimed, sideVars
<1>2. CASE ReadFails(c)
  BY <1>2, UntimedHonest DEF ReadFails, Close, Untimed, sideVars
<1>3. CASE ReadPanics(c)
  BY <1>3, UntimedHonest DEF ReadPanics, Untimed, connVars, Verdicts
<1>4. CASE Hear(c)
  BY <1>4, ResetHonest DEF Hear
<1> QED
  BY <1>1, <1>2, <1>3, <1>4 DEF Handle

LEMMA NextKeeps == IndInv /\ [Next]_vars => IndInv'
<1> SUFFICES ASSUME IndInv, [Next]_vars PROVE IndInv'
  OBVIOUS
<1>1. CASE Tick \/ Stop
  BY <1>1, TickKeeps, StopKeeps
<1>2. CASE Cancel
  BY <1>2, UntimedHonest DEF IndInv, TypeOK, Cancel, Untimed, connVars
<1>3. CASE StartTicker
  BY <1>3, ResetHonest DEF IndInv, TypeOK, StartTicker, connVars, Verdicts
<1>4. ASSUME NEW c \in Conns, Connect(c) PROVE IndInv'
  BY <1>4, UntimedHonest DEF IndInv, TypeOK, Connect, Untimed, sideVars, HandlerPCs, Beats
<1>5. ASSUME NEW c \in Conns, Handle(c) PROVE IndInv'
  BY <1>5, HandleKeeps
<1>6. ASSUME NEW c \in Conns, Heartbeat(c) PROVE IndInv'
  <2>1. /\ UNCHANGED <<sideVars, handler, inbox, peerUp>>
        /\ \E b \in Beats : beat' = [beat EXCEPT ![c] = b]
    BY <1>6 DEF Heartbeat, HeartbeatTick, HeartbeatWritten, HeartbeatEnds, Beats
  <2>2. beat' \in [Conns -> Beats]
    BY <2>1 DEF IndInv, TypeOK
  <2> QED
    BY <2>1, <2>2, UntimedHonest DEF IndInv, TypeOK, Untimed, sideVars
<1>7. ASSUME NEW c \in Conns, PeerCloses(c) PROVE IndInv'
  BY <1>7, UntimedHonest DEF IndInv, TypeOK, PeerCloses, Untimed, sideVars
<1>8. ASSUME NEW c \in Conns, NEW l \in Lines, PeerSends(c, l) PROVE IndInv'
  <2>1. Append(inbox[c], l) \in Seq(Lines)
    BY DEF IndInv, TypeOK
  <2> QED
    BY <1>8, <2>1, UntimedHonest DEF IndInv, TypeOK, PeerSends, Untimed, sideVars
<1>9. CASE AcceptFails
  BY <1>9, UntimedHonest DEF IndInv, TypeOK, AcceptFails, Loops, Untimed, connVars
<1>10. CASE UNCHANGED vars
  BY <1>10, UntimedHonest DEF IndInv, TypeOK, vars, sideVars, connVars, Untimed
<1> QED
  BY <1>1, <1>2, <1>3, <1>4, <1>5, <1>6, <1>7, <1>8, <1>9, <1>10 DEF Next

LEMMA Invariance == Spec => []IndInv
BY InitInductive, NextKeeps, PTL DEF Spec

-----------------------------------------------------------------------------
\* The watchdog's state is of its type.
THEOREM Typed == Spec => []TypeOK
BY Invariance, PTL DEF IndInv

\* A watchdog says that no heartbeat came within the interval only if none did,
\* whatever the order of heartbeats, ticks and the select (watchdog.go 103-112).
THEOREM Honest == Spec => TimeoutMeansSilence
<1>1. IndInv /\ [Next]_vars
      => [verdict' = "timeout" /\ verdict # "timeout" => idle >= Interval]_vars
  <2> SUFFICES ASSUME IndInv, [Next]_vars, verdict' = "timeout", verdict # "timeout"
               PROVE  idle >= Interval
    OBVIOUS
  <2>1. StopTimeout
    BY DEF Next, Tick, Cancel, StartTicker, Stop, StopCancelled, StopMismatch, Connect, Handle,
           ReadLine, ReadFails, ReadPanics, Hear, Heartbeat, HeartbeatTick, HeartbeatWritten,
           HeartbeatEnds, AcceptFails, PeerCloses, PeerSends, sideVars, vars
  <2> QED
    BY <2>1, IntervalAssumption DEF StopTimeout, IndInv, TickerHonest
<1> QED
  BY <1>1, Invariance, PTL DEF Spec, TimeoutMeansSilence

-----------------------------------------------------------------------------
\* The refinement of FailureDetector.  Its variables are functions of ours.
DetVerdict == IF verdict = "new" THEN "running" ELSE verdict
Suspects == {c \in Conns : handler[c] = "sending"}

\* A step that is none of the detector's business.
LEMMA Stutter ==
    ASSUME UNCHANGED <<cancelled, idle>>, DetVerdict' = DetVerdict, Suspects' = Suspects
    PROVE  UNCHANGED Detector!vars
BY DEF Detector!vars, DetVerdict, Suspects

LEMMA SameHandlers == handler' = handler => Suspects' = Suspects
BY DEF Suspects

LEMMA HandlerMoves ==
    ASSUME TypeOK, NEW c \in Conns, NEW pc \in HandlerPCs, pc # "sending",
           handler[c] # "sending", handler' = [handler EXCEPT ![c] = pc]
    PROVE  Suspects' = Suspects
BY DEF TypeOK, Suspects

LEMMA StepSimulates ==
    ASSUME IndInv, Next
    PROVE  [Detector!Next]_(Detector!vars)
<1>0. TypeOK /\ TickerHonest
  BY DEF IndInv
<1>1. CASE Tick
  <2>1. Detector!Pass
    BY <1>1, SameHandlers DEF Tick, connVars, Detector!Pass, Suspects
  <2> QED
    BY <2>1 DEF Detector!Next
<1>2. CASE Cancel
  <2>1. Detector!Cancel
    BY <1>2, SameHandlers DEF Cancel, connVars, Detector!Cancel, Suspects
  <2> QED
    BY <2>1 DEF Detector!Next
<1>3. CASE StartTicker
  <2>1. Detector!Hear
    BY <1>3, SameHandlers DEF StartTicker, ResetTicker, connVars, Detector!Hear, Suspects
  <2> QED
    BY <2>1 DEF Detector!Next
<1>4. CASE Stop
  <2>1. CASE StopCancelled
    <3>1. Detector!GiveUp
      BY <2>1 DEF StopCancelled, connVars, Detector!GiveUp
    <3> QED
      BY <3>1 DEF Detector!Next
  <2>2. CASE StopTimeout
    <3>1. Detector!GiveUp
      BY <1>0, <2>2 DEF StopTimeout, connVars, Detector!GiveUp, TickerHonest
    <3> QED
      BY <3>1 DEF Detector!Next
  <2>3. ASSUME NEW c \in Conns, StopMismatch(c) PROVE Detector!Next
    <3>1. c \in Suspects /\ Suspects' = Suspects \ {c}
      BY <1>0, <2>3 DEF TypeOK, StopMismatch, Close, Suspects
    <3>2. Detector!GiveUp
      BY <2>3, <3>1 DEF StopMismatch, Detector!GiveUp, Suspects
    <3> QED
      BY <3>2 DEF Detector!Next
  <2> QED
    BY <1>4, <2>1, <2>2, <2>3 DEF Stop
<1>5. ASSUME NEW c \in Conns, Connect(c) PROVE UNCHANGED Detector!vars
  <2>1. Suspects' = Suspects
    BY <1>0, <1>5, HandlerMoves DEF Connect, HandlerPCs
  <2> QED
    BY <1>5, <2>1, Stutter DEF Connect, sideVars, DetVerdict
<1>6. ASSUME NEW c \in Conns, ReadLine(c) PROVE [Detector!Next]_(Detector!vars)
  <2>1. CASE Head(inbox[c]) = "mine"
    <3>1. Suspects' = Suspects
      BY <1>0, <1>6, <2>1, HandlerMoves DEF ReadLine, HandlerPCs
    <3> QED
      BY <1>6, <3>1, Stutter DEF ReadLine, sideVars, DetVerdict
  <2>2. CASE Head(inbox[c]) # "mine"
    <3>1. Suspects' = Suspects \cup {c}
      BY <1>0, <1>6, <2>2 DEF ReadLine, TypeOK, Suspects
    <3>2. Detector!Suspect(c)
      BY <1>6, <3>1 DEF ReadLine, sideVars, Detector!Suspect, Suspects
    <3> QED
      BY <3>2 DEF Detector!Next
  <2> QED
    BY <2>1, <2>2
<1>7. ASSUME NEW c \in Conns, ReadFails(c) PROVE UNCHANGED Detector!vars
  <2>1. Suspects' = Suspects
    BY <1>0, <1>7, HandlerMoves DEF ReadFails, Close, HandlerPCs
  <2> QED
    BY <1>7, <2>1, Stutter DEF ReadFails, sideVars, DetVerdict
<1>8. ASSUME NEW c \in Conns, ReadPanics(c) PROVE Detector!Next
  <2>1. Detector!Crash
    BY <1>8 DEF ReadPanics, connVars, Detector!Crash
  <2> QED
    BY <2>1 DEF Detector!Next
<1>9. ASSUME NEW c \in Conns, Hear(c) PROVE Detector!Next
  <2>1. Suspects' = Suspects
    BY <1>0, <1>9, HandlerMoves DEF Hear, HandlerPCs
  <2>2. Detector!Hear
    BY <1>9, <2>1 DEF Hear, ResetTicker, Detector!Hear, Suspects
  <2> QED
    BY <2>2 DEF Detector!Next
<1>10. ASSUME NEW c \in Conns,
              \/ Heartbeat(c) \/ PeerCloses(c)
              \/ \E l \in Lines : PeerSends(c, l)
       PROVE UNCHANGED Detector!vars
  BY <1>10, SameHandlers, Stutter
     DEF Heartbeat, HeartbeatTick, HeartbeatWritten, HeartbeatEnds, PeerCloses,
         PeerSends, sideVars, DetVerdict
<1>11. CASE AcceptFails
  BY <1>11, SameHandlers, Stutter DEF AcceptFails, connVars, DetVerdict
<1> QED
  BY <1>1, <1>2, <1>3, <1>4, <1>5, <1>6, <1>7, <1>8, <1>9, <1>10, <1>11 DEF Next, Handle

\* The watchdog implements the failure detector it documents (watchdog.go
\* 51-53 and 71-73): it gives up after a silent interval, on a foreign ID, or
\* because it was cancelled.
THEOREM Implements == Spec => DetectorSpec
<1>1. Init => Detector!Init
  BY DEF Init, Detector!Init
<1>2. IndInv /\ [Next]_vars => [Detector!Next]_(Detector!vars)
  <2>1. ASSUME UNCHANGED vars PROVE UNCHANGED Detector!vars
    BY <2>1 DEF vars, sideVars, connVars, Detector!vars
  <2> QED
    BY <2>1, StepSimulates
<1> QED
  BY <1>1, <1>2, Invariance, PTL DEF Spec, DetectorSpec, Detector!Spec
=============================================================================
