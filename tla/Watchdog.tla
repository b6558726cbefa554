------------------------------ MODULE Watchdog ------------------------------
(***************************************************************************)
(* One watchdog of pkg/watchdog/watchdog.go and the goroutines around it.  *)
(*                                                                         *)
(* startTicker runs in the goroutine that called StartServerSide or        *)
(* StartClientSide and decides when the watchdog stops.  Each connection   *)
(* has a HandleConn goroutine that reads heartbeats and resets the ticker, *)
(* and a Heartbeat goroutine that writes them.  A line is "mine" when      *)
(* uuid.FromBytesOrNil of its bytes is the watchdog's enclaveID and        *)
(* "other" when it is not.                                                 *)
(*                                                                         *)
(* Time passes in ticks; the ticker is a go 1.23+ ticker, whose Reset also *)
(* drops a tick that has fired and has not been received (go.mod 3).       *)
(***************************************************************************)
EXTENDS Naturals, Sequences

CONSTANTS Conns,      \* connections that peers may open
          Interval,   \* w.interval, in ticks
          InboxBound  \* bound: lines in flight towards us on one connection

ASSUME IntervalAssumption == Interval \in Nat \ {0}
ASSUME InboxBoundAssumption == InboxBound \in Nat

VARIABLES server,     \* StartServerSide, or StartClientSide: it does not change
          cancelled,  \* ctx of Start...Side
          verdict,    \* state of startTicker, and what it returned
          left,       \* ticks until w.ticker fires
          fired,      \* w.ticker.C holds a tick
          loop,       \* the goroutine that accepts or dials; on a closed listener it spins
          handler,    \* program counter of HandleConn on each connection
          beat,       \* the Heartbeat goroutine of the connection: off, in its select, in its Write
          inbox,      \* lines sent by the peer and not yet read
          peerUp,     \* the peer's end is open
          idle        \* history: ticks since the ticker was last reset, up to Interval

sideVars == <<server, loop, cancelled, verdict, left, fired, idle>>
connVars == <<handler, beat, inbox, peerUp>>
vars == <<sideVars, connVars>>

Lines == {"mine", "other"}
Verdicts == {"new", "running", "nil", "timeout", "mismatch", "panic"}
HandlerPCs == {"none", "reading", "heard", "sending", "returned"}
Loops == {"accepting", "spinning", "dialing"}
Beats == {"off", "waiting", "writing"}
Running == verdict \in {"new", "running"}
Alive == verdict # "panic"

Init ==
    /\ server \in BOOLEAN
    /\ loop = IF server THEN "accepting" ELSE "dialing"
    /\ cancelled = FALSE
    /\ verdict = "new"
    /\ left = Interval
    /\ fired = FALSE
    /\ idle = 0
    /\ handler = [c \in Conns |-> "none"]
    /\ beat = [c \in Conns |-> "off"]
    /\ inbox = [c \in Conns |-> <<>>]
    /\ peerUp = [c \in Conns |-> TRUE]

-----------------------------------------------------------------------------
\* Mutant: a go 1.22 ticker, whose Reset leaves a fired tick in the channel.
ResetKeepsTick ==
    /\ left' = Interval
    /\ UNCHANGED fired
    /\ idle' = 0

\* w.ticker.Reset(w.interval)
ResetTicker ==
    /\ left' = Interval
    /\ fired' = FALSE
    /\ idle' = 0

\* The clock stops with startTicker: nobody reads the ticker after it.
Tick ==
    /\ Running
    /\ left' = IF left = 1 THEN Interval ELSE left - 1
    /\ fired' = (fired \/ left = 1)
    /\ idle' = IF idle = Interval THEN Interval ELSE idle + 1
    /\ UNCHANGED <<server, loop, cancelled, verdict, connVars>>

Cancel ==
    /\ Alive
    /\ ~cancelled
    /\ cancelled' = TRUE
    /\ UNCHANGED <<server, loop, verdict, left, fired, idle, connVars>>

-----------------------------------------------------------------------------
\* startTicker: reset the ticker, then select.
StartTicker ==
    /\ verdict = "new"
    /\ ResetTicker
    /\ verdict' = "running"
    /\ UNCHANGED <<server, loop, cancelled, connVars>>

StopCancelled ==
    /\ verdict = "running"
    /\ cancelled
    /\ verdict' = "nil"
    /\ UNCHANGED <<server, loop, cancelled, left, fired, idle, connVars>>

\* Mutant: an open connection is taken for a sign of life.
StopTimeoutUnconnected ==
    /\ verdict = "running"
    /\ fired
    /\ \A c \in Conns : handler[c] # "reading"
    /\ fired' = FALSE
    /\ verdict' = "timeout"
    /\ UNCHANGED <<server, loop, cancelled, left, idle, connVars>>

\* Mutant: the error of the timeout is lost.
StopTimeoutNil ==
    /\ verdict = "running"
    /\ fired
    /\ fired' = FALSE
    /\ verdict' = "nil"
    /\ UNCHANGED <<server, loop, cancelled, left, idle, connVars>>

StopTimeout ==
    /\ verdict = "running"
    /\ fired
    /\ fired' = FALSE
    /\ verdict' = "timeout"
    /\ UNCHANGED <<server, loop, cancelled, left, idle, connVars>>

\* HandleConn returns and closes the connection: what is unread is gone.
Close(c) ==
    /\ handler' = [handler EXCEPT ![c] = "returned"]
    /\ inbox' = [inbox EXCEPT ![c] = <<>>]

\* Mutant: the loop logs the error and goes on.
StopMismatchContinues(c) ==
    /\ verdict = "running"
    /\ handler[c] = "sending"
    /\ Close(c)
    /\ UNCHANGED <<sideVars, beat, peerUp>>

\* watchErrChan is unbuffered: the handler is released with the verdict.
StopMismatch(c) ==
    /\ verdict = "running"
    /\ handler[c] = "sending"
    /\ verdict' = "mismatch"
    /\ Close(c)
    /\ UNCHANGED <<server, loop, cancelled, left, fired, idle, beat, peerUp>>

-----------------------------------------------------------------------------
\* The accept loop of the server and the dial loop of the client, which handles
\* one connection at a time.  HandleConn starts with its Heartbeat goroutine.
Connect(c) ==
    /\ Alive
    /\ handler[c] = "none"
    /\ IF server THEN loop = "accepting" /\ Running
                 ELSE \A d \in Conns : handler[d] \in {"none", "returned"}
    /\ handler' = [handler EXCEPT ![c] = "reading"]
    /\ beat' = [beat EXCEPT ![c] = "waiting"]
    /\ UNCHANGED <<sideVars, inbox, peerUp>>

\* startTicker has returned and the listener is closed: Accept fails at once,
\* the error is logged, and the loop goes on to fail again, for ever.
AcceptFails ==
    /\ Alive
    /\ loop = "accepting"
    /\ ~Running
    /\ loop' = "spinning"
    /\ UNCHANGED <<server, cancelled, verdict, left, fired, idle, connVars>>

\* ReadBytesWithContext hands over a line it has read before a cancellation.
\* A foreign ID leaves the handler blocked on watchErrChan.
ReadLine(c) ==
    /\ Alive
    /\ handler[c] = "reading"
    /\ inbox[c] # <<>>
    /\ ~cancelled
    /\ inbox' = [inbox EXCEPT ![c] = Tail(@)]
    /\ handler' = [handler EXCEPT ![c] = IF Head(inbox[c]) = "mine" THEN "heard" ELSE "sending"]
    /\ UNCHANGED <<sideVars, beat, peerUp>>

\* Mutant: a read that does not watch the context.
ReadFailsAtEOF(c) ==
    /\ Alive
    /\ handler[c] = "reading"
    /\ inbox[c] = <<>> /\ ~peerUp[c]
    /\ Close(c)
    /\ UNCHANGED <<sideVars, beat, peerUp>>

\* It reports the end of the stream, or the cancellation.
ReadFails(c) ==
    /\ Alive
    /\ handler[c] = "reading"
    /\ cancelled \/ (inbox[c] = <<>> /\ ~peerUp[c])
    /\ Close(c)
    /\ UNCHANGED <<sideVars, beat, peerUp>>

\* It returns (nil, nil): the read is over, the worker saw the cancellation and
\* closed both channels, and the select took byteChan (the zero values
\* of ResultAccounted in CtxIO).  enclaveID[:len(enclaveID)-1] then panics.
ReadPanics(c) ==
    /\ Alive
    /\ handler[c] = "reading"
    /\ cancelled
    /\ inbox[c] # <<>> \/ ~peerUp[c]
    /\ verdict' = "panic"
    /\ UNCHANGED <<server, loop, cancelled, left, fired, idle, connVars>>

\* The heartbeat resets the ticker, running or not, and the loop goes on.
Hear(c) ==
    /\ Alive
    /\ handler[c] = "heard"
    /\ ResetTicker
    /\ handler' = [handler EXCEPT ![c] = "reading"]
    /\ UNCHANGED <<server, loop, cancelled, verdict, beat, inbox, peerUp>>

\* Heartbeat's own ticker wins the select, after a cancellation too.
HeartbeatTick(c) ==
    /\ Alive
    /\ beat[c] = "waiting"
    /\ beat' = [beat EXCEPT ![c] = "writing"]
    /\ UNCHANGED <<sideVars, handler, inbox, peerUp>>

\* The open connection takes the line.  It need not: a peer that does not read
\* blocks the Write, which no cancellation ends.
HeartbeatWritten(c) ==
    /\ Alive
    /\ beat[c] = "writing"
    /\ handler[c] # "returned" /\ peerUp[c]
    /\ beat' = [beat EXCEPT ![c] = "waiting"]
    /\ UNCHANGED <<sideVars, handler, inbox, peerUp>>

\* Heartbeat returns: its select sees the end of the context, or its Write finds
\* the connection closed, by HandleConn's deferred Close or by the peer.
HeartbeatEnds(c) ==
    /\ Alive
    /\ \/ beat[c] = "waiting" /\ cancelled
       \/ beat[c] = "writing" /\ (handler[c] = "returned" \/ ~peerUp[c])
    /\ beat' = [beat EXCEPT ![c] = "off"]
    /\ UNCHANGED <<sideVars, handler, inbox, peerUp>>

-----------------------------------------------------------------------------
\* The peers may send anything, and close the connection before its handler
\* starts too.
PeerSends(c, l) ==
    /\ Alive
    /\ peerUp[c]
    /\ handler[c] \notin {"none", "returned"}
    /\ Len(inbox[c]) < InboxBound
    /\ inbox' = [inbox EXCEPT ![c] = Append(@, l)]
    /\ UNCHANGED <<sideVars, handler, beat, peerUp>>

PeerCloses(c) ==
    /\ Alive
    /\ peerUp[c]
    /\ handler[c] # "returned"
    /\ peerUp' = [peerUp EXCEPT ![c] = FALSE]
    /\ UNCHANGED <<sideVars, handler, beat, inbox>>

Stop == StopCancelled \/ StopTimeout \/ \E c \in Conns : StopMismatch(c)
Handle(c) == ReadLine(c) \/ ReadFails(c) \/ ReadPanics(c) \/ Hear(c)
Heartbeat(c) == HeartbeatTick(c) \/ HeartbeatWritten(c) \/ HeartbeatEnds(c)

Next ==
    \/ Tick \/ Cancel \/ StartTicker \/ Stop \/ AcceptFails
    \/ \E c \in Conns :
          \/ Connect(c) \/ Handle(c) \/ Heartbeat(c)
          \/ PeerCloses(c) \/ \E l \in Lines : PeerSends(c, l)

\* Time passes and runnable goroutines run; peers and the context need not act,
\* and nothing makes a Write succeed.  A select that finds its ticker and the
\* context ready picks at random: strong fairness for the end of the heartbeat.
Fairness ==
    /\ WF_vars(Tick) /\ WF_vars(StartTicker) /\ WF_vars(Stop) /\ WF_vars(AcceptFails)
    /\ \A c \in Conns : /\ WF_vars(Handle(c))
                        /\ WF_vars(HeartbeatTick(c)) /\ SF_vars(HeartbeatEnds(c))

Spec == Init /\ [][Next]_vars
FairSpec == Spec /\ Fairness

-----------------------------------------------------------------------------
\* Type invariant.
TypeOK ==
    /\ server \in BOOLEAN
    /\ loop \in Loops
    /\ cancelled \in BOOLEAN
    /\ verdict \in Verdicts
    /\ left \in 1..Interval
    /\ fired \in BOOLEAN
    /\ idle \in 0..Interval
    /\ handler \in [Conns -> HandlerPCs]
    /\ beat \in [Conns -> Beats]
    /\ inbox \in [Conns -> Seq(Lines)]
    /\ peerUp \in [Conns -> BOOLEAN]

\* "No heartbeat within the interval" is only ever said when it is true: a
\* heartbeat that resets the ticker just before the select wins over a tick
\* that had already fired (watchdog.go 103-112 against 142).
TimeoutMeansSilence ==
    [][verdict' = "timeout" /\ verdict # "timeout" => idle >= Interval]_vars

\* A watchdog that runs and hears nothing does not run for ever.
SilenceIsDetected == []<>(verdict # "running" \/ idle = 0)

\* A foreign ID on any connection ends the watchdog, whatever the others say.
MismatchStops == \A c \in Conns : handler[c] = "sending" ~> ~Running

\* After a cancellation the server's watchdog returns and the goroutines of every
\* connection end.  Two exceptions: a handler that waits to report a mismatch
\* nobody receives any more stays for ever, and so does its Heartbeat if the peer
\* blocks the Write, because the connection is never closed.  The accept loop
\* (watchdog.go 57-67) does not end either: it is left spinning on the closed
\* listener, where it accepts nothing.
CancelDrains ==
    cancelled /\ server ~>
        \/ ~Alive
        \/ /\ ~Running /\ loop = "spinning"
           /\ \A c \in Conns :
                 \/ handler[c] \in {"none", "returned"} /\ beat[c] = "off"
                 \/ handler[c] = "sending" /\ beat[c] \in {"off", "writing"}

\* The watchdog implements the abstract failure detector: a verdict of each
\* kind has the cause the comments at watchdog.go 51-53 give for it.
Detector == INSTANCE FailureDetector WITH
    verdict <- IF verdict = "new" THEN "running" ELSE verdict,
    quiet <- idle,
    suspects <- {c \in Conns : handler[c] = "sending"}

DetectorSpec == Detector!Spec

\* "If the context is cancelled, the watchdog will stop without error"
\* (watchdog.go 53 and 73).
CancelNeverCrashes == Alive
=============================================================================
