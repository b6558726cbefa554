------------------------------ MODULE BridgeRun ------------------------------
(***************************************************************************)
(* The bridge process as its goroutines see it: main, Bridge.Run and the   *)
(* two error groups they wait for (cmd/enclave-bridge).                    *)
(*                                                                         *)
(* A service listens on a port: the stdout tunnel and the monitoring       *)
(* server in main's group, a tcpproxy per server tunnel and a listener per *)
(* client tunnel in Run's.  A tunnel on vsock starts the goroutine that    *)
(* closes its listener once it has the listener.  A tcpproxy or a fiber    *)
(* app is closed by a member of the group that is started next to it, and  *)
(* closing it before it listens does nothing (both are external).          *)
(***************************************************************************)
EXTENDS Naturals

CONSTANTS Servers,  \* settings.Servers, each with its proxy
          Clients   \* settings.Clients, each with its vsock listener

ASSUME ServicesAssumption == Servers \cap Clients = {}
ASSUME NamesAssumption == {"stdout", "mon"} \cap (Servers \cup Clients) = {}

VARIABLES signalled,  \* parentCtx: SIGINT or SIGTERM was received
          settings,   \* what the enclave sent for the bridge to run with
          main,       \* the main goroutine
          run,        \* Bridge.Run
          serve,      \* the goroutine that listens and accepts
          closer,     \* the goroutine that closes the listener
          port,       \* the listener
          watchdog,   \* the member that runs StartServerSide
          acked,      \* the enclave was told that the bridge is set up
          outer,      \* the error that main's group keeps
          inner       \* the error that Run's group keeps

procs == <<main, run, serve, closer, watchdog>>
vars == <<procs, signalled, settings, port, acked, outer, inner>>

Outer == {"stdout", "mon"}
Inner == Servers \cup Clients
Services == Outer \cup Inner
ClosedFromOutside == Servers \cup {"mon"}
Settings == {"good", "badLevel", "nilID", "zeroInterval"}
Causes == {"settings", "ack", "canceled", "bind", "accept", "closed", "watchdog"}

Init ==
    /\ signalled = FALSE
    /\ settings = "good"
    /\ main = "listen"
    /\ run = "none"
    /\ serve = [s \in Services |-> IF s \in Outer THEN "start" ELSE "none"]
    /\ closer = [s \in Services |-> IF s = "mon" THEN "waiting" ELSE "none"]
    /\ port = [s \in Services |-> "unbound"]
    /\ watchdog = "none"
    /\ acked = FALSE
    /\ outer = "none" /\ inner = "none"

-----------------------------------------------------------------------------
Alive == main \notin {"ended", "fatal", "panic"}

\* errgroup.WithContext: the parent's cancellation or the first error.
OuterDone == signalled \/ outer # "none"
InnerDone == OuterDone \/ inner # "none"
Done(s) == IF s \in Outer THEN OuterDone ELSE InnerDone

\* A member returns e: the group keeps the first error.
Keep(kept, e) == IF kept = "none" THEN e ELSE kept

Report(s, e) ==
    IF s \in Outer THEN outer' = Keep(outer, e) /\ UNCHANGED inner
                   ELSE inner' = Keep(inner, e) /\ UNCHANGED outer

Serve(s, p) == serve' = [serve EXCEPT ![s] = p]

-----------------------------------------------------------------------------
\* Listen of a service.  A vsock listener gets its closing goroutine here.
Bind(s) ==
    /\ serve[s] = "start"
    /\ Serve(s, "serving")
    /\ port' = [port EXCEPT ![s] = "open"]
    /\ closer' = [closer EXCEPT ![s] = IF s \in ClosedFromOutside THEN @ ELSE "waiting"]
    /\ UNCHANGED <<main, run, watchdog, signalled, settings, acked, outer, inner>>

\* Mutant: a tunnel that cannot listen is given up without a word.
BindFailsSilently(s) ==
    /\ serve[s] = "start"
    /\ Serve(s, "returned")
    /\ UNCHANGED <<main, run, closer, watchdog, signalled, settings, port, acked, outer, inner>>

BindFails(s) ==
    /\ serve[s] = "start"
    /\ Serve(s, "returned")
    /\ Report(s, "bind")
    /\ UNCHANGED <<main, run, closer, watchdog, signalled, settings, port, acked>>

\* Mutant: the parent's context in place of the group's.
CloseOnSignal(s) ==
    /\ closer[s] = "waiting" /\ signalled
    /\ closer' = [closer EXCEPT ![s] = "done"]
    /\ port' = [port EXCEPT ![s] = IF @ = "open" THEN "closed" ELSE @]
    /\ UNCHANGED <<main, run, serve, watchdog, signalled, settings, acked, outer, inner>>

\* <-ctx.Done(), then Close or Shutdown, which finds a listener or does not.
Close(s) ==
    /\ closer[s] = "waiting" /\ Done(s)
    /\ closer' = [closer EXCEPT ![s] = "done"]
    /\ port' = [port EXCEPT ![s] = IF @ = "open" THEN "closed" ELSE @]
    /\ UNCHANGED <<main, run, serve, watchdog, signalled, settings, acked, outer, inner>>

\* Accept finds its listener closed.  Only Run of a tcpproxy calls that an error.
ServeEnds(s) ==
    /\ serve[s] = "serving" /\ port[s] = "closed"
    /\ Serve(s, "returned")
    /\ Report(s, IF s \in Servers THEN "closed" ELSE "none")
    /\ UNCHANGED <<main, run, closer, watchdog, signalled, settings, port, acked>>

\* The loop of a client tunnel looks at the context between two connections.
ClientSeesDone(s) ==
    /\ s \in Clients
    /\ serve[s] = "serving" /\ InnerDone
    /\ Serve(s, "returned")
    /\ UNCHANGED <<main, run, closer, watchdog, signalled, settings, port, acked, outer, inner>>

\* Any other error of Accept; a client tunnel logs it and goes on.
AcceptFails(s) ==
    /\ s \notin Clients
    /\ serve[s] = "serving" /\ port[s] = "open"
    /\ Serve(s, "returned")
    /\ Report(s, "accept")
    /\ UNCHANGED <<main, run, closer, watchdog, signalled, settings, port, acked>>

\* Mutant: the verdict of the watchdog is logged and dropped.
WatchdogGivesUpSilently ==
    /\ watchdog = "running"
    /\ watchdog' = "returned"
    /\ UNCHANGED <<main, run, serve, closer, signalled, settings, port, acked, outer, inner>>

WatchdogGivesUp ==
    /\ watchdog = "running"
    /\ watchdog' = "returned"
    /\ inner' = Keep(inner, "watchdog")
    /\ UNCHANGED <<main, run, serve, closer, signalled, settings, port, acked, outer>>

WatchdogCancelled ==
    /\ watchdog = "running" /\ InnerDone
    /\ watchdog' = "returned"
    /\ UNCHANGED <<main, run, serve, closer, signalled, settings, port, acked, outer, inner>>

-----------------------------------------------------------------------------
\* Bridge.Run.
RunReturns(e) ==
    /\ run' = "returned"
    /\ outer' = Keep(outer, e)

SetLevel ==
    /\ run = "level"
    /\ IF settings = "badLevel" THEN RunReturns("settings")
                                ELSE run' = "tunnels" /\ UNCHANGED outer
    /\ UNCHANGED <<main, serve, closer, watchdog, signalled, settings, port, acked, inner>>

StartTunnel(s) ==
    /\ run = "tunnels"
    /\ s \in Inner /\ serve[s] = "none"
    /\ s \in Clients => \A t \in Servers : serve[t] # "none"
    /\ Serve(s, "start")
    /\ closer' = [closer EXCEPT ![s] = IF s \in Servers THEN "waiting" ELSE @]
    /\ UNCHANGED <<main, run, watchdog, signalled, settings, port, acked, outer, inner>>

\* time.NewTicker panics on an interval of zero.  The early return leaves the
\* tunnels to the cancellation that main's group makes of it.
NewWatchdog ==
    /\ run = "tunnels"
    /\ \A s \in Inner : serve[s] # "none"
    /\ \/ settings = "nilID" /\ RunReturns("settings") /\ UNCHANGED <<main, watchdog>>
       \/ settings = "zeroInterval" /\ main' = "panic" /\ UNCHANGED <<run, watchdog, outer>>
       \/ /\ settings \notin {"nilID", "zeroInterval"}
          /\ watchdog' = "running"
          /\ run' = "ready"
          /\ UNCHANGED <<main, outer>>
    /\ UNCHANGED <<serve, closer, signalled, settings, port, acked, inner>>

\* readyFunc: the ACK is written, or the enclave is gone, or main's group is
\* done (and the ACK may have been written all the same).
SendReady ==
    /\ run = "ready"
    /\ \/ acked' = TRUE /\ run' = "wait" /\ UNCHANGED outer
       \/ RunReturns("ack") /\ UNCHANGED acked
       \/ OuterDone /\ RunReturns("canceled") /\ acked' \in {acked, TRUE}
    /\ UNCHANGED <<main, serve, closer, watchdog, signalled, settings, port, inner>>

\* group.Wait of Run's group, for every one of its members.
RunJoins ==
    /\ run = "wait"
    /\ watchdog = "returned"
    /\ \A s \in Inner : serve[s] = "returned" /\ (s \in Servers => closer[s] = "done")
    /\ RunReturns(inner)
    /\ UNCHANGED <<main, serve, closer, watchdog, signalled, settings, port, acked, inner>>

-----------------------------------------------------------------------------
\* CreateBridge: the init port may be no port, or taken.
ListenInit ==
    /\ main = "listen"
    /\ main' \in {"accept", "fatal"}
    /\ UNCHANGED <<run, serve, closer, watchdog, signalled, settings, port, acked, outer, inner>>

\* An enclave connects; no signal makes Accept return.
AcceptEnclave ==
    /\ main = "accept"
    /\ main' = "handshake"
    /\ UNCHANGED <<run, serve, closer, watchdog, signalled, settings, port, acked, outer, inner>>

\* An error of Accept is the one occasion to look at the context.
AcceptEnclaveFails ==
    /\ main = "accept"
    /\ main' = IF OuterDone THEN "fatal" ELSE "accept"
    /\ UNCHANGED <<run, serve, closer, watchdog, signalled, settings, port, acked, outer, inner>>

\* Every read of the handshake has its time limit; a failure is fatal.
Handshake ==
    /\ main = "handshake"
    /\ \/ /\ \E x \in Settings : settings' = x
          /\ main' = "wait"
          /\ run' = "level"
       \/ main' = "fatal" /\ UNCHANGED <<run, settings>>
    /\ UNCHANGED <<serve, closer, watchdog, signalled, port, acked, outer, inner>>

\* Mutant: the group's context is asked, and not its error.
MainJoinsByContext ==
    /\ main = "wait"
    /\ run = "returned" /\ closer["mon"] = "done"
    /\ \A s \in Outer : serve[s] = "returned"
    /\ main' = IF OuterDone THEN "ended" ELSE "fatal"
    /\ UNCHANGED <<run, serve, closer, watchdog, signalled, settings, port, acked, outer, inner>>

\* group.Wait of main's group; a cancelled context is no failure.
MainJoins ==
    /\ main = "wait"
    /\ run = "returned" /\ closer["mon"] = "done"
    /\ \A s \in Outer : serve[s] = "returned"
    /\ main' = IF outer \in {"none", "canceled"} THEN "ended" ELSE "fatal"
    /\ UNCHANGED <<run, serve, closer, watchdog, signalled, settings, port, acked, outer, inner>>

Signal ==
    /\ ~signalled
    /\ signalled' = TRUE
    /\ UNCHANGED <<procs, settings, port, acked, outer, inner>>

-----------------------------------------------------------------------------
ServiceStep(s) ==
    Bind(s) \/ BindFails(s) \/ Close(s) \/ ServeEnds(s) \/ ClientSeesDone(s) \/ AcceptFails(s)
RunStep ==
    SetLevel \/ (\E s \in Inner : StartTunnel(s)) \/ NewWatchdog \/ SendReady \/ RunJoins
MainStep == ListenInit \/ AcceptEnclave \/ AcceptEnclaveFails \/ Handshake \/ MainJoins

Next ==
    /\ Alive
    /\ \/ \E s \in Services : ServiceStep(s)
       \/ WatchdogGivesUp \/ WatchdogCancelled
       \/ RunStep \/ MainStep \/ Signal

\* Goroutines run.  No enclave has to connect, no port to fail, no watchdog to
\* give up; the select of a watchdog that is cancelled has a case that is ready.
Fairness ==
    /\ \A s \in Services :
          /\ WF_vars(Alive /\ (Bind(s) \/ BindFails(s)))
          /\ WF_vars(Alive /\ Close(s))
          /\ WF_vars(Alive /\ ServeEnds(s))
    /\ WF_vars(Alive /\ WatchdogCancelled)
    /\ WF_vars(Alive /\ RunStep)
    /\ WF_vars(Alive /\ (ListenInit \/ Handshake \/ MainJoins))

Spec == Init /\ [][Next]_vars
FairSpec == Spec /\ Fairness

-----------------------------------------------------------------------------
\* Every variable keeps to its type.
TypeOK ==
    /\ signalled \in BOOLEAN
    /\ settings \in Settings
    /\ main \in {"listen", "accept", "handshake", "wait", "ended", "fatal", "panic"}
    /\ run \in {"none", "level", "tunnels", "ready", "wait", "returned"}
    /\ serve \in [Services -> {"none", "start", "serving", "returned"}]
    /\ closer \in [Services -> {"none", "waiting", "done"}]
    /\ port \in [Services -> {"unbound", "open", "closed"}]
    /\ watchdog \in {"none", "running", "returned"}
    /\ acked \in BOOLEAN
    /\ outer \in Causes \cup {"none"}
    /\ inner \in Causes \cup {"none"}

\* The exit tells the truth: it is clean only after a signal, and the errors
\* that a stop itself produces never hide the failure that caused it.
TrueCause ==
    /\ main = "ended" => signalled
    /\ outer \in {"closed", "canceled"} => signalled

\* An enclave is told to go ahead only by a bridge whose settings it could use,
\* and that watches it from before the ACK until the whole group is told to stop.
AckMeansWatched ==
    acked => /\ settings = "good"
             /\ watchdog # "none"
             /\ watchdog = "returned" => InnerDone

\* A bridge that said it is set up comes to listen on every port it was asked
\* to, or stops: no tunnel is missing for good behind a watchdog that is happy.
ServesOrStops == acked ~> (\A s \in Inner : port[s] = "open") \/ InnerDone \/ ~Alive

\* One failure takes everything down: nothing holds a failing bridge up but a
\* listener that came to be after its closer had been and gone.
Stranded(s) == s \in ClosedFromOutside /\ closer[s] = "done" /\ port[s] = "open"
ComesDown ==
    main \notin {"listen", "accept", "handshake"} /\ InnerDone
        ~> ~Alive \/ \E s \in ClosedFromOutside : Stranded(s)
=============================================================================
