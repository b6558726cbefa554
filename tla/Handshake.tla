------------------------------ MODULE Handshake ------------------------------
(***************************************************************************)
(* The enclave's process during and after its handshake: the object        *)
(* BridgeHandshake (pkg/enclave/handshake), the program that uses it       *)
(* (examples/simple-enclave) and the goroutines of both.  Session has the  *)
(* protocol between the processes; here the bridge is only a peer that     *)
(* answers, sends something else, hangs up, dies or comes back.            *)
(*                                                                         *)
(* main calls StartHandshake, starts FinishHandshakeAndWait in its group   *)
(* (finish), and waits in WaitForBridgeSetup for the goroutine that reads  *)
(* the bridge's ACK (acker).  Visitors are any other goroutines of the     *)
(* program, with calls of Environment or Close.                            *)
(***************************************************************************)
EXTENDS Naturals

CONSTANT Visitors  \* other goroutines of the program

VARIABLES
    main, finish, acker, visitor,      \* the goroutines
    mutex, conn, ready, err, env,      \* the fields of BridgeHandshake
    app, closer,                       \* the server, and who shuts it down
    signalled, gerr,                   \* the context, the group's error
    port,                              \* initPort: enclave.InitPort or a custom one
    bridge, up, talk, line,            \* the peer, its end, what was said last
    linked,                            \* the watchdog has a connection
    heard, seen                        \* history: the ACK, what a visitor got last

object == <<mutex, conn, ready, err, env>>
peer == <<bridge, up, talk, line>>
group == <<app, closer, gerr>>
history == <<heard, seen>>
ctx == <<port, signalled>>
vars == <<main, finish, acker, visitor, object, group, ctx, peer, linked, history>>

Init ==
    /\ main = "lock" /\ finish = "none" /\ acker = "none"
    /\ visitor = [v \in Visitors |-> "idle"]
    /\ mutex = "free" /\ conn = "nil" /\ ready = FALSE /\ err = "none" /\ env = "nil"
    /\ app = "none" /\ closer = "none"
    /\ port \in {"InitPort", "custom"}
    /\ signalled = FALSE /\ gerr = "none"
    /\ bridge = "other" /\ up = FALSE /\ talk = "none" /\ line = "none"
    /\ linked = FALSE
    /\ heard = FALSE /\ seen = "nothing"

Alive == main \notin {"ended", "fatal"}
Starting == main \in {"lock", "dial", "hello", "read", "parse", "reject"}
GroupDone == signalled \/ gerr # "none"

\* ReadBytesWithContext: the line, an error, or neither (CtxIO: the context was
\* cancelled between the end of the read and the check of it).
ReadResults ==
    LET over == conn = "closed" \/ line # "none" \/ ~up
        broken == conn = "closed" \/ (line = "none" /\ ~up)
    IN  (IF line # "none" /\ conn = "open" THEN {line} ELSE {})
        \cup (IF broken \/ signalled THEN {"error"} ELSE {})
        \cup (IF over /\ signalled THEN {"zero"} ELSE {})

\* A member of the group returns e; the first error stays.
Return(e) == gerr' = IF gerr = "none" THEN e ELSE gerr

-----------------------------------------------------------------------------
\* StartHandshakeWithPort: the mutex is held until it returns.
Lock ==
    /\ main = "lock" /\ mutex = "free"
    /\ mutex' = "main"
    /\ ready' = FALSE
    /\ main' = "dial"
    /\ UNCHANGED <<finish, acker, visitor, conn, err, env, group, ctx, peer, linked, history>>

\* setupConnection, again and again; nothing looks at the context in between.
Dial ==
    /\ main = "dial"
    /\ IF bridge = "none" THEN conn' = "nil" /\ UNCHANGED <<bridge, up, main>>
                          ELSE conn' = "open" /\ bridge' = "mine" /\ up' = TRUE /\ main' = "hello"
    /\ talk' = "none" /\ line' = "none"
    /\ UNCHANGED <<finish, acker, visitor, mutex, ready, err, env, group, ctx, linked, history>>

Hello ==
    /\ main = "hello"
    /\ \/ up /\ talk' = "hello" /\ main' = "read" /\ UNCHANGED conn
       \/ ~up /\ conn' = "closed" /\ main' = "dial" /\ UNCHANGED talk
    /\ UNCHANGED <<finish, acker, visitor, mutex, ready, err, env, group, ctx, bridge, up, line,
                   linked, history>>

ReadEnv ==
    /\ main = "read"
    /\ \E x \in ReadResults :
          IF x = "error"
          THEN /\ conn' = "closed" /\ main' = "dial"
               /\ UNCHANGED <<env, line>>
          ELSE /\ env' = "empty" /\ line' = "none"
               /\ main' = IF x = "env" THEN "parse" ELSE "reject"
               /\ UNCHANGED conn
    /\ UNCHANGED <<finish, acker, visitor, mutex, ready, err, group, ctx, bridge, up, talk, linked,
                   history>>

\* json.Unmarshal keeps what it could use of a line that it rejects.
Parse ==
    /\ main \in {"parse", "reject"}
    /\ mutex' = "free"
    /\ IF main = "parse"
       THEN env' = "whole" /\ main' = "setup" /\ UNCHANGED conn
       ELSE env' \in {"empty", "part"} /\ conn' = "closed" /\ main' = "failed"
    /\ UNCHANGED <<finish, acker, visitor, ready, err, group, ctx, peer, linked, history>>

-----------------------------------------------------------------------------
\* main: Fatal after a handshake that failed, or the settings and the group.
Failed ==
    /\ main = "failed"
    /\ main' = "fatal"
    /\ UNCHANGED <<finish, acker, visitor, object, group, ctx, peer, linked, history>>

Launch ==
    /\ main = "setup"
    /\ main' = "waitReady"
    /\ finish' = "lock"
    /\ UNCHANGED <<acker, visitor, object, group, ctx, peer, linked, history>>

\* WaitForBridgeSetup, without a context.
WaitReady ==
    /\ main = "waitReady" /\ ready
    /\ main' = IF err = "none" THEN "listen" ELSE "fatal"
    /\ UNCHANGED <<finish, acker, visitor, object, group, ctx, peer, linked, history>>

Listen ==
    /\ main = "listen"
    /\ \/ main' = "join" /\ app' = "start" /\ closer' = "waiting"
       \/ main' = "fatal" /\ UNCHANGED <<app, closer>>
    /\ UNCHANGED <<finish, acker, visitor, object, gerr, ctx, peer, linked, history>>

Join ==
    /\ main = "join"
    /\ finish = "returned" /\ app = "returned" /\ closer = "done"
    /\ main' = IF gerr = "none" THEN "ended" ELSE "fatal"
    /\ UNCHANGED <<finish, acker, visitor, object, group, ctx, peer, linked, history>>

Serve ==
    /\ app = "start"
    /\ app' = "serving"
    /\ UNCHANGED <<main, finish, acker, visitor, object, closer, gerr, ctx, peer, linked, history>>

ServeFails ==
    /\ app = "serving"
    /\ app' = "returned" /\ Return("app")
    /\ UNCHANGED <<main, finish, acker, visitor, object, closer, ctx, peer, linked, history>>

\* Shutdown, which does nothing to a server that does not yet serve (external).
Shutdown ==
    /\ closer = "waiting" /\ GroupDone
    /\ closer' = "done"
    /\ app' = IF app = "serving" THEN "returned" ELSE app
    /\ UNCHANGED <<main, finish, acker, visitor, object, gerr, ctx, peer, linked, history>>

-----------------------------------------------------------------------------
\* FinishHandshakeAndWait, with main's context and not that of the group.
FinishLock ==
    /\ finish = "lock" /\ mutex = "free"
    /\ IF conn = "nil" THEN finish' = "returned" /\ Return("noConn") /\ UNCHANGED mutex
                       ELSE finish' = "write" /\ mutex' = "finish" /\ UNCHANGED gerr
    /\ UNCHANGED <<main, acker, visitor, conn, ready, err, env, app, closer, ctx, peer, linked, history>>

\* WriteWithContext returns nil: the line is out, or its write has failed and the
\* context ended before the error was passed on (ResultAccounted in CtxIO).
CfgWritten ==
    \/ conn = "open" /\ up /\ talk' = "cfg"
    \/ (conn = "closed" \/ ~up) /\ signalled /\ UNCHANGED talk

\* Mutant: ready is closed with the configuration sent.
WriteCfgMarksReady ==
    /\ finish = "write" /\ CfgWritten
    /\ mutex' = "free"
    /\ acker' = "read" /\ ready' = TRUE
    /\ finish' = "waitReady"
    /\ UNCHANGED <<main, visitor, conn, err, env, group, ctx, bridge, up, line, linked, history>>

WriteCfg ==
    /\ finish = "write" /\ CfgWritten
    /\ mutex' = "free"
    /\ acker' = "read"
    /\ finish' = "waitReady"
    /\ UNCHANGED <<main, visitor, conn, ready, err, env, group, ctx, bridge, up, line, linked, history>>

\* Mutant: one of the returns forgets the mutex.
WriteCfgFailsLocked ==
    /\ finish = "write"
    /\ conn = "closed" \/ ~up \/ signalled
    /\ finish' = "returned" /\ Return("write")
    /\ UNCHANGED <<main, acker, visitor, object, app, closer, ctx, peer, linked, history>>

\* A cancelled write may have been done all the same.
WriteCfgFails ==
    /\ finish = "write"
    /\ conn = "closed" \/ ~up \/ signalled
    /\ mutex' = "free"
    /\ finish' = "returned" /\ Return("write")
    /\ talk' \in {talk} \cup IF conn = "open" /\ up THEN {"cfg"} ELSE {}
    /\ UNCHANGED <<main, acker, visitor, conn, ready, err, env, app, closer, ctx, bridge, up, line,
                   linked, history>>

\* Mutant: the line is not compared with the ACK.
ReadReadyUnchecked ==
    /\ acker = "read"
    /\ \E x \in ReadResults :
          /\ err' = IF x = "error" THEN "missing" ELSE err
          /\ heard' = (x = "ack")
    /\ line' = "none"
    /\ acker' = "close"
    /\ UNCHANGED <<main, finish, visitor, mutex, conn, ready, env, group, ctx, bridge, up, talk,
                   linked, seen>>

\* ErrMissingAck takes the place of the error of the read as well.
ReadReady ==
    /\ acker = "read"
    /\ \E x \in ReadResults :
          /\ err' = IF x = "ack" THEN err ELSE "missing"
          /\ heard' = (x = "ack")
    /\ line' = "none"
    /\ acker' = "close"
    /\ UNCHANGED <<main, finish, visitor, mutex, conn, ready, env, group, ctx, bridge, up, talk,
                   linked, seen>>

\* conn.Close and markReady.
CloseConn ==
    /\ acker = "close"
    /\ conn' = "closed"
    /\ acker' = "mark"
    /\ UNCHANGED <<main, finish, visitor, mutex, ready, err, env, group, ctx, peer, linked, history>>

\* Mutant: ready is closed for a bridge that is set up only.
MarkReadyIfAcked ==
    /\ acker = "mark"
    /\ ready' = (err = "none")
    /\ acker' = "done"
    /\ UNCHANGED <<main, finish, visitor, mutex, conn, err, env, group, ctx, peer, linked, history>>

MarkReady ==
    /\ acker = "mark"
    /\ ready' = TRUE
    /\ acker' = "done"
    /\ UNCHANGED <<main, finish, visitor, mutex, conn, err, env, group, ctx, peer, linked, history>>

-----------------------------------------------------------------------------
\* runWatchdog.  It starts whatever the ACK was.
AwaitReady ==
    /\ finish = "waitReady"
    /\ \/ ready /\ finish' = "watchdog" /\ UNCHANGED gerr
       \/ signalled /\ finish' = "returned" /\ Return("ctx")
    /\ UNCHANGED <<main, acker, visitor, object, app, closer, ctx, peer, linked, history>>

\* A bridge that is set up accepts heartbeats, and answers them, on its port.
Reachable == bridge = "mine" /\ heard /\ port = "InitPort"

WdDial ==
    /\ finish = "watchdog" /\ ~linked /\ Reachable
    /\ linked' = TRUE
    /\ UNCHANGED <<main, finish, acker, visitor, object, group, ctx, peer, history>>

\* Mutant: the verdict is logged and FinishHandshakeAndWait returns nil.
WdGivesUpNil ==
    /\ finish = "watchdog" /\ ~linked /\ ~Reachable
    /\ finish' = "returned" /\ Return("none")
    /\ UNCHANGED <<main, acker, visitor, object, app, closer, ctx, peer, linked, history>>

\* An interval is long: it does not pass while there is a bridge that answers.
\* A bridge started since may serve another enclave, which is a mismatch.
WdGivesUp ==
    /\ finish = "watchdog" /\ ~linked /\ ~Reachable
    /\ finish' = "returned"
    /\ \/ Return("timeout")
       \/ bridge = "other" /\ port = "InitPort" /\ Return("mismatch")
    /\ UNCHANGED <<main, acker, visitor, object, app, closer, ctx, peer, linked, history>>

WdCancelled ==
    /\ finish = "watchdog" /\ signalled
    /\ finish' = "returned"
    /\ UNCHANGED <<main, acker, visitor, object, group, ctx, peer, linked, history>>

-----------------------------------------------------------------------------
\* Mutant: Environment does without the mutex.
EnvironmentUnlocked(v) ==
    /\ visitor[v] = "env"
    /\ seen' = env
    /\ visitor' = [visitor EXCEPT ![v] = "idle"]
    /\ UNCHANGED <<main, finish, acker, object, group, ctx, peer, linked, heard>>

Environment(v) ==
    /\ visitor[v] = "env" /\ mutex = "free"
    /\ seen' = env
    /\ visitor' = [visitor EXCEPT ![v] = "idle"]
    /\ UNCHANGED <<main, finish, acker, object, group, ctx, peer, linked, heard>>

Close(v) ==
    /\ visitor[v] = "close" /\ mutex = "free"
    /\ conn' = IF conn = "nil" THEN "nil" ELSE "closed"
    /\ visitor' = [visitor EXCEPT ![v] = "idle"]
    /\ UNCHANGED <<main, finish, acker, mutex, ready, err, env, group, ctx, peer, linked, history>>

Visit(v) ==
    /\ visitor[v] = "idle"
    /\ \E call \in {"env", "close"} : visitor' = [visitor EXCEPT ![v] = call]
    /\ UNCHANGED <<main, finish, acker, object, group, ctx, peer, linked, history>>

Signal ==
    /\ ~signalled
    /\ signalled' = TRUE
    /\ UNCHANGED <<main, finish, acker, visitor, object, group, port, peer, linked, history>>

\* The bridge answers and hangs up after its ACK.  The watchdog of a bridge that
\* serves somebody else sends a heartbeat instead.
Answer ==
    /\ up /\ line = "none"
    /\ \/ talk = "hello" /\ talk' = "env" /\ line' = "env" /\ UNCHANGED up
       \/ talk = "cfg" /\ talk' = "ready" /\ line' = "ack" /\ up' = FALSE
       \/ line' = "beat" /\ UNCHANGED <<talk, up>>
    /\ UNCHANGED <<main, finish, acker, visitor, object, group, ctx, bridge, linked, history>>

HangUp ==
    /\ up
    /\ up' = FALSE
    /\ UNCHANGED <<main, finish, acker, visitor, object, group, ctx, bridge, talk, line, linked,
                   history>>

\* A bridge exits with all its connections, and another one is started.
BridgeExits ==
    /\ bridge' = IF bridge = "none" THEN "other" ELSE "none"
    /\ up' = FALSE /\ linked' = FALSE
    /\ UNCHANGED <<main, finish, acker, visitor, object, group, ctx, talk, line, history>>

-----------------------------------------------------------------------------
StartStep == Lock \/ Dial \/ Hello \/ ReadEnv \/ Parse
MainStep == Failed \/ Launch \/ WaitReady \/ Listen \/ Join
FinishStep == FinishLock \/ WriteCfg \/ WriteCfgFails \/ AwaitReady \/ WdGivesUp \/ WdCancelled
AckerStep == ReadReady \/ CloseConn \/ MarkReady
VisitorStep(v) == Environment(v) \/ Close(v)

Next ==
    /\ Alive
    /\ \/ StartStep \/ MainStep \/ FinishStep \/ WdDial \/ AckerStep
       \/ Serve \/ ServeFails \/ Shutdown
       \/ \E v \in Visitors : VisitorStep(v) \/ Visit(v)
       \/ Signal \/ Answer \/ HangUp \/ BridgeExits

\* Goroutines run, and a mutex is handed to one that waits.  The bridge has to
\* do nothing, and a watchdog that is to stop finds the context done.
Fairness ==
    /\ WF_vars(Alive /\ StartStep) /\ WF_vars(Alive /\ MainStep)
    /\ WF_vars(Alive /\ FinishStep)
    /\ WF_vars(Alive /\ WdCancelled)
    /\ WF_vars(Alive /\ AckerStep)
    /\ WF_vars(Alive /\ Serve) /\ WF_vars(Alive /\ Shutdown)
    /\ SF_vars(Alive /\ FinishLock)
    /\ \A v \in Visitors : SF_vars(Alive /\ VisitorStep(v))

Spec == Init /\ [][Next]_vars
FairSpec == Spec /\ Fairness

-----------------------------------------------------------------------------
\* Every variable keeps to its type.
TypeOK ==
    /\ main \in {"lock", "dial", "hello", "read", "parse", "reject", "setup", "failed", "waitReady",
                 "listen", "join", "ended", "fatal"}
    /\ finish \in {"none", "lock", "write", "waitReady", "watchdog", "returned"}
    /\ acker \in {"none", "read", "close", "mark", "done"}
    /\ visitor \in [Visitors -> {"idle", "env", "close"}]
    /\ mutex \in {"free", "main", "finish"}
    /\ conn \in {"nil", "open", "closed"}
    /\ ready \in BOOLEAN
    /\ err \in {"none", "missing"}
    /\ env \in {"nil", "empty", "part", "whole"}
    /\ app \in {"none", "start", "serving", "returned"}
    /\ closer \in {"none", "waiting", "done"}
    /\ port \in {"InitPort", "custom"}
    /\ signalled \in BOOLEAN
    /\ gerr \in {"none", "app", "noConn", "write", "ctx", "timeout", "mismatch"}
    /\ bridge \in {"none", "mine", "other"} /\ up \in BOOLEAN
    /\ talk \in {"none", "hello", "env", "cfg", "ready"}
    /\ line \in {"none", "env", "ack", "beat"}
    /\ linked \in BOOLEAN
    /\ heard \in BOOLEAN
    /\ seen \in {"nothing", "nil", "empty", "part", "whole"}

\* WaitForBridgeSetup returns nil, and the enclave opens its port, only after the
\* bridge's ACK was read: not after a cancelled read, a Close or a heartbeat.
ReadyIsTrue == main \in {"listen", "join", "ended"} => heard

\* Nobody gets hold of an environment that is being built; a part of one is
\* only ever seen when StartHandshake has failed.
EnvironmentWhole == seen \in {"empty", "part"} => main \in {"failed", "fatal"}

\* WaitForBridgeSetup comes back once the configuration is out and there is
\* something to learn: an answer, a hang-up, a Close or a signal.
WaitReturns ==
    main = "waitReady" /\ acker # "none" /\ (signalled \/ ~up \/ line # "none" \/ conn = "closed")
        ~> main # "waitReady"

\* Every return of FinishHandshakeAndWait gives the mutex back: outside of
\* StartHandshake, which may try for ever, Close and Environment get their turn.
VisitorServed ==
    \A v \in Visitors : visitor[v] # "idle" /\ ~Starting ~> visitor[v] = "idle" \/ ~Alive

\* An enclave that has lost its bridge exits, but for a configuration that could
\* not be sent (nobody closes ready) and a server that begins after its Shutdown.
Unready == finish = "returned" /\ acker = "none" /\ main = "waitReady"
Stranded == closer = "done" /\ app = "serving"
LossEndsEnclave == finish = "returned" ~> ~Alive \/ Unready \/ Stranded

\* What the program has from the object so far.
Caller ==
    CASE main = "waitReady" -> "waiting"
      [] main \in {"listen", "join"} -> "running"
      [] main \in {"failed", "ended", "fatal"} -> "over"
      [] OTHER -> "starting"

Object == INSTANCE Setup WITH
    caller <- Caller,
    acked <- heard,
    verdict <- IF ~ready THEN "pending" ELSE IF err = "none" THEN "up" ELSE "missing"

\* The object is a one-shot verdict on the bridge: markReady comes after the
\* error is in place, nothing changes either of them afterwards, and nothing but
\* the ACK lets the program go past WaitForBridgeSetup.
SetupSpec == Object!Spec
=============================================================================
