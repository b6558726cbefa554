--------------------------- MODULE BridgeRunProofs ---------------------------
(***************************************************************************)
(* Proofs about BridgeRun, for any number of tunnels.                      *)
(*                                                                         *)
(* What a stop produces is recognised by what comes before it: a listener  *)
(* is closed only for a group that is done (Closing), so that an error     *)
(* that the closing causes is never the first one (StopErrors); and Run    *)
(* gets to its ACK only by way of its watchdog (Progress), whose return    *)
(* stops the group (Watched).                                              *)
(***************************************************************************)
EXTENDS BridgeRun, TLAPS

\* A listener is closed, and a goroutine that waits to close it is through,
\* only once the group is done; a group never stops being done.
Closing ==
    /\ \A s \in Services : closer[s] = "done" => Done(s)
    /\ \A s \in Services : port[s] = "closed" => closer[s] = "done"
    /\ \A s \in Services : serve[s] = "none" => port[s] = "unbound"

StopErrors ==
    /\ inner # "canceled"
    /\ inner = "closed" => OuterDone
    /\ outer \in {"closed", "canceled"} => signalled
    /\ main = "ended" => signalled

Progress ==
    /\ main \in {"listen", "accept", "handshake"} => run = "none"
    /\ run = "none" => ~acked
    /\ run = "tunnels" => settings # "badLevel"
    /\ run \in {"ready", "wait"} \/ acked => settings = "good" /\ watchdog # "none"

Watched == watchdog = "returned" => InnerDone

IndInv == TypeOK /\ Closing /\ StopErrors /\ Progress /\ Watched
-----------------------------------------------------------------------------
\* Keep keeps what it has, and takes nothing but what it is given.
LEMMA Kept ==
    ASSUME NEW k \in Causes \cup {"none"}, NEW e \in Causes \cup {"none"}
    PROVE  /\ Keep(k, e) \in Causes \cup {"none"}
           /\ k # "none" => Keep(k, e) = k
           /\ k = "none" => Keep(k, e) = e
BY DEF Keep

LEMMA Names == \A s \in Services : /\ s \in Outer <=> s \notin Inner
                                   /\ s \in Servers => s \notin Outer
                                   /\ "mon" \in Services /\ "mon" \in Outer
BY ServicesAssumption, NamesAssumption DEF Services, Outer, Inner

LEMMA InitInductive == Init => IndInv
BY DEF Init, IndInv, TypeOK, Closing, StopErrors, Progress, Watched, Settings, Causes

\* A step of a service that leaves its closer and its port alone, and that
\* reports an error e to its group.
LEMMA ReportKeeps ==
    ASSUME IndInv, NEW s \in Services, NEW e \in {"bind", "accept", "closed", "none"},
           Serve(s, "returned"), Report(s, e),
           e = "closed" => s \in Servers /\ InnerDone,
           UNCHANGED <<main, run, closer, watchdog, signalled, settings, port, acked>>
    PROVE  IndInv'
<1>1. /\ e \in Causes \cup {"none"} /\ inner \in Causes \cup {"none"} /\ outer \in Causes \cup {"none"}
  BY DEF IndInv, TypeOK, Causes
<1>2. inner' \in Causes \cup {"none"} /\ outer' \in Causes \cup {"none"}
  BY <1>1, Kept DEF Report
<1>3. TypeOK'
  BY <1>2 DEF IndInv, TypeOK, Serve
<1>4. (OuterDone => OuterDone') /\ (InnerDone => InnerDone')
  BY <1>1, Kept DEF Report, OuterDone, InnerDone
<1>5. Closing' /\ Watched'
  BY <1>4 DEF IndInv, TypeOK, Closing, Watched, Done, Serve
<1>6. StopErrors'
  <2>1. CASE s \in Outer
    <3>1. e # "closed" /\ inner' = inner /\ outer' = Keep(outer, e)
      BY <2>1, Names DEF Report
    <3> QED
      BY <1>1, <1>4, <3>1, Kept DEF IndInv, StopErrors
  <2>2. CASE s \notin Outer
    <3>1. inner' = Keep(inner, e) /\ outer' = outer
      BY <2>2 DEF Report
    <3> QED
      BY <1>1, <1>4, <3>1, Kept DEF IndInv, StopErrors, InnerDone
  <2> QED
    BY <2>1, <2>2
<1>7. Progress'
  BY DEF IndInv, Progress
<1> QED
  BY <1>3, <1>5, <1>6, <1>7 DEF IndInv

LEMMA ServiceKeeps == ASSUME IndInv, NEW s \in Services, ServiceStep(s) PROVE IndInv'
<1>1. CASE Bind(s)
  <2>1. /\ TypeOK'
    BY <1>1 DEF IndInv, TypeOK, Bind, Serve
  <2>2. Closing'
    BY <1>1 DEF IndInv, TypeOK, Closing, Bind, Serve, Done, OuterDone, InnerDone
  <2>3. StopErrors' /\ Progress' /\ Watched'
    BY <1>1 DEF IndInv, StopErrors, Progress, Watched, Bind, OuterDone, InnerDone
  <2> QED
    BY <2>1, <2>2, <2>3 DEF IndInv
<1>2. CASE BindFails(s)
  BY <1>2, ReportKeeps DEF BindFails
<1>3. CASE Close(s)
  <2>1. TypeOK'
    BY <1>3 DEF IndInv, TypeOK, Close
  <2>2. Closing'
    BY <1>3 DEF IndInv, TypeOK, Closing, Close, Done, OuterDone, InnerDone
  <2>3. StopErrors' /\ Progress' /\ Watched'
    BY <1>3 DEF IndInv, StopErrors, Progress, Watched, Close, OuterDone, InnerDone
  <2> QED
    BY <2>1, <2>2, <2>3 DEF IndInv
<1>4. CASE ServeEnds(s)
  <2>1. Done(s)
    BY <1>4 DEF IndInv, Closing, ServeEnds
  <2>2. s \in Servers => InnerDone
    BY <2>1, Names DEF Done
  <2> QED
    BY <1>4, <2>2, ReportKeeps DEF ServeEnds
<1>5. CASE ClientSeesDone(s)
  <2>1. TypeOK'
    BY <1>5 DEF IndInv, TypeOK, ClientSeesDone, Serve
  <2> QED
    BY <1>5, <2>1 DEF IndInv, TypeOK, Serve, Closing, StopErrors, Progress, Watched, ClientSeesDone, Done, OuterDone, InnerDone
<1>6. CASE AcceptFails(s)
  BY <1>6, ReportKeeps DEF AcceptFails
<1> QED
  BY <1>1, <1>2, <1>3, <1>4, <1>5, <1>6 DEF ServiceStep

LEMMA WatchdogKeeps == ASSUME IndInv, WatchdogGivesUp \/ WatchdogCancelled PROVE IndInv'
<1>1. CASE WatchdogGivesUp
  <2>1. inner \in Causes \cup {"none"} /\ "watchdog" \in Causes \cup {"none"}
    BY DEF IndInv, TypeOK, Causes
  <2>2. /\ inner' \in Causes \cup {"none"} /\ inner' # "none"
        /\ inner # "none" => inner' = inner
        /\ inner = "none" => inner' = "watchdog"
    BY <1>1, <2>1, Kept DEF WatchdogGivesUp
  <2>3. TypeOK'
    BY <1>1, <2>2 DEF IndInv, TypeOK, WatchdogGivesUp
  <2> QED
    BY <1>1, <2>2, <2>3
    DEF IndInv, Closing, StopErrors, Progress, Watched, WatchdogGivesUp, Done, OuterDone, InnerDone
<1>2. CASE WatchdogCancelled
  <2>1. TypeOK'
    BY <1>2 DEF IndInv, TypeOK, WatchdogCancelled
  <2> QED
    BY <1>2, <2>1
    DEF IndInv, Closing, StopErrors, Progress, Watched, WatchdogCancelled, Done, OuterDone, InnerDone
<1> QED
  BY <1>1, <1>2

\* A return of Run: its error is the group's, if it is the first.
LEMMA ReturnKeeps ==
    ASSUME IndInv, NEW e \in Causes \cup {"none"}, RunReturns(e), run # "none",
           e \in {"closed", "canceled"} => OuterDone,
           acked' \in BOOLEAN, acked' # acked => run = "ready",
           UNCHANGED <<main, serve, closer, watchdog, signalled, settings, port, inner>>
    PROVE  IndInv'
<1>1. outer \in Causes \cup {"none"}
  BY DEF IndInv, TypeOK
<1>2. /\ outer' \in Causes \cup {"none"} /\ run' = "returned"
      /\ outer # "none" => outer' = outer
      /\ outer = "none" => outer' = e
  BY <1>1, Kept DEF RunReturns
<1>3. TypeOK'
  BY <1>2 DEF IndInv, TypeOK
<1>4. Closing' /\ StopErrors' /\ Watched'
  BY <1>2 DEF IndInv, Closing, StopErrors, Watched, Done, OuterDone, InnerDone
<1>5. Progress'
  BY <1>2 DEF IndInv, TypeOK, Progress
<1> QED
  BY <1>3, <1>4, <1>5 DEF IndInv

LEMMA RunKeeps == ASSUME IndInv, RunStep PROVE IndInv'
<1>1. CASE SetLevel
  <2>1. CASE settings = "badLevel"
    BY <1>1, <2>1, ReturnKeeps DEF SetLevel, Causes, IndInv, TypeOK
  <2>2. CASE settings # "badLevel"
    <3>1. TypeOK'
      BY <1>1, <2>2 DEF IndInv, TypeOK, SetLevel
    <3> QED
      BY <1>1, <2>2, <3>1
      DEF IndInv, Closing, StopErrors, Progress, Watched, SetLevel, Done, OuterDone, InnerDone
  <2> QED
    BY <2>1, <2>2
<1>2. ASSUME NEW s \in Inner, StartTunnel(s) PROVE IndInv'
  <2>1. TypeOK'
    BY <1>2 DEF IndInv, TypeOK, StartTunnel, Serve, Services
  <2>2. Closing'
    <3>1. \A t \in Services : /\ closer'[t] = "done" => closer[t] = "done"
                              /\ port[t] = "closed" => closer'[t] = "done"
                              /\ serve'[t] = "none" => serve[t] = "none"
      BY <1>2 DEF IndInv, TypeOK, StartTunnel, Serve, Closing, Services
    <3> QED
      BY <1>2, <3>1 DEF IndInv, Closing, StartTunnel, Done, OuterDone, InnerDone
  <2>3. StopErrors' /\ Progress' /\ Watched'
    BY <1>2 DEF IndInv, StopErrors, Progress, Watched, StartTunnel, OuterDone, InnerDone
  <2> QED
    BY <2>1, <2>2, <2>3 DEF IndInv
<1>3. CASE NewWatchdog
  <2>1. UNCHANGED <<serve, closer, signalled, settings, port, acked, inner>> /\ run = "tunnels"
    BY <1>3 DEF NewWatchdog
  <2>2. CASE RunReturns("settings") /\ UNCHANGED <<main, watchdog>>
    BY <2>1, <2>2, ReturnKeeps DEF Causes, IndInv, TypeOK
  <2>3. CASE main' = "panic" /\ UNCHANGED <<run, watchdog, outer>>
    <3>1. TypeOK'
      BY <2>1, <2>3 DEF IndInv, TypeOK
    <3> QED
      BY <2>1, <2>3, <3>1
      DEF IndInv, Closing, StopErrors, Progress, Watched, Done, OuterDone, InnerDone
  <2>4. CASE settings \notin {"nilID", "zeroInterval"} /\ watchdog' = "running" /\ run' = "ready"
             /\ UNCHANGED <<main, outer>>
    <3>1. TypeOK'
      BY <2>1, <2>4 DEF IndInv, TypeOK
    <3>2. settings = "good"
      BY <2>1, <2>4 DEF IndInv, TypeOK, Settings, Progress
    <3> QED
      BY <2>1, <2>4, <3>1, <3>2
      DEF IndInv, Closing, StopErrors, Progress, Watched, Done, OuterDone, InnerDone
  <2> QED
    BY <1>3, <2>2, <2>3, <2>4 DEF NewWatchdog
<1>4. CASE SendReady
  <2>1. CASE acked' = TRUE /\ run' = "wait" /\ UNCHANGED outer
    <3>1. TypeOK'
      BY <1>4, <2>1 DEF IndInv, TypeOK, SendReady
    <3> QED
      BY <1>4, <2>1, <3>1
      DEF IndInv, Closing, StopErrors, Progress, Watched, SendReady, Done, OuterDone, InnerDone
  <2>2. CASE RunReturns("ack") /\ UNCHANGED acked
    BY <1>4, <2>2, ReturnKeeps DEF SendReady, Causes, IndInv, TypeOK
  <2>3. CASE OuterDone /\ RunReturns("canceled") /\ acked' \in {acked, TRUE}
    BY <1>4, <2>3, ReturnKeeps DEF SendReady, Causes, IndInv, TypeOK
  <2> QED
    BY <1>4, <2>1, <2>2, <2>3 DEF SendReady
<1>5. CASE RunJoins
  BY <1>5, ReturnKeeps DEF RunJoins, Causes, IndInv, TypeOK, StopErrors
<1> QED
  BY <1>1, <1>2, <1>3, <1>4, <1>5 DEF RunStep

LEMMA MainKeeps == ASSUME IndInv, MainStep PROVE IndInv'
<1>1. CASE ListenInit \/ AcceptEnclave \/ AcceptEnclaveFails
  <2>1. TypeOK'
    BY <1>1 DEF IndInv, TypeOK, ListenInit, AcceptEnclave, AcceptEnclaveFails
  <2> QED
    BY <1>1, <2>1 DEF IndInv, Closing, StopErrors, Progress, Watched, ListenInit, AcceptEnclave, AcceptEnclaveFails,
                      Done, OuterDone, InnerDone
<1>2. CASE Handshake
  <2>1. TypeOK'
    BY <1>2 DEF IndInv, TypeOK, Handshake
  <2> QED
    BY <1>2, <2>1 DEF IndInv, Closing, StopErrors, Progress, Watched, Handshake,
                      Done, OuterDone, InnerDone
<1>3. CASE MainJoins
  <2>1. TypeOK'
    BY <1>3 DEF IndInv, TypeOK, MainJoins
  <2>2. OuterDone
    BY <1>3, Names DEF IndInv, Closing, MainJoins, Done, Services, Outer
  <2>3. main' = "ended" => signalled
    BY <1>3, <2>2 DEF IndInv, StopErrors, MainJoins, OuterDone
  <2> QED
    BY <1>3, <2>1, <2>3 DEF IndInv, Closing, StopErrors, Progress, Watched, MainJoins,
                            Done, OuterDone, InnerDone
<1> QED
  BY <1>1, <1>2, <1>3 DEF MainStep

LEMMA SignalKeeps == ASSUME IndInv, Signal PROVE IndInv'
<1>1. TypeOK'
  BY DEF IndInv, TypeOK, Signal, procs
<1> QED
  BY <1>1 DEF IndInv, Closing, StopErrors, Progress, Watched, Signal, procs, Done, OuterDone, InnerDone

LEMMA Invariance == Spec => []IndInv
<1>1. IndInv /\ [Next]_vars => IndInv'
  <2> SUFFICES ASSUME IndInv, [Next]_vars PROVE IndInv'
    OBVIOUS
  <2>1. CASE UNCHANGED vars
    BY <2>1 DEF vars, procs, IndInv, TypeOK, Closing, StopErrors, Progress, Watched,
                Done, OuterDone, InnerDone
  <2> QED
    BY <2>1, ServiceKeeps, WatchdogKeeps, RunKeeps, MainKeeps, SignalKeeps DEF Next
<1> QED
  BY <1>1, InitInductive, PTL DEF Spec

\* For any tunnels, every variable of the bridge process keeps to its type.
THEOREM Typed == Spec => []TypeOK
BY Invariance, PTL DEF IndInv

\* For any tunnels, an exit is clean only after a signal, and an error that the
\* stop produces (of a tcpproxy, of readyFunc) is never taken for its cause.
THEOREM Truthful == Spec => []TrueCause
<1>1. IndInv => TrueCause
  BY DEF IndInv, StopErrors, TrueCause
<1> QED
  BY <1>1, Invariance, PTL

\* For any tunnels, readyFunc answers only for a bridge that has its watchdog.
THEOREM Ready == Spec => []AckMeansWatched
<1>1. IndInv => AckMeansWatched
  BY DEF IndInv, Progress, Watched, AckMeansWatched
<1> QED
  BY <1>1, Invariance, PTL
=============================================================================
