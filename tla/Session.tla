------------------------------- MODULE Session -------------------------------
(***************************************************************************)
(* The life of one bridge process and one enclave, restarted for ever: the *)
(* handshake of CreateBridge and Run (cmd/enclave-bridge/bridge.go) with   *)
(* BridgeHandshake (pkg/enclave/handshake/enclave_setup.go), and the       *)
(* watchdogs that then tie the two together over the same port.            *)
(*                                                                         *)
(* The hazard is that the init port serves both purposes: a bridge cannot  *)
(* tell a new enclave from an old one but by what it says, nor can an      *)
(* enclave tell a bridge that waits from one that serves someone else.     *)
(*                                                                         *)
(* Connections are vsock streams of lines.  What a peer wrote before it    *)
(* closed is still read; writing to a closed peer fails or is lost.  Time  *)
(* is abstract: a time limit that expires on a peer that is alive and slow *)
(* is a fault, and faults are bounded.                                     *)
(*                                                                         *)
(* A heartbeat is an ID as it is, so that a newline in it makes two lines  *)
(* of it (HeartbeatFraming): nobody recognises such an ID, its own side    *)
(* included, and the first of the two lines may even be an ACK.            *)
(***************************************************************************)
EXTENDS Naturals, Sequences

CONSTANTS Conns,      \* connections open at the same time
          Ids,        \* enclave IDs; one is drawn again once nothing holds it
          Split,      \* those with a newline among their bytes
          None,       \* no ID
          MaxFaults,  \* bound: crashes, signals and unlucky timeouts
          QueueBound  \* bound: heartbeats in flight one way on a connection

ASSUME NoneAssumption == None \notin Ids
ASSUME SplitAssumption == Split \subseteq Ids
ASSUME BoundsAssumption == MaxFaults \in Nat /\ QueueBound \in Nat \ {0}

VARIABLES bpc,      \* the bridge process: CreateBridge, then Run
          bwd,      \* its watchdog, and with it the listener
          served,   \* the ID in the bridge's settings
          epc,      \* the enclave: BridgeHandshake, then its watchdog
          eid,      \* the ID of this enclave
          joined,   \* history: what the bridge served when it sent the ready ACK
          backlog,  \* connections the bridge's listener has not accepted
          bEnd,     \* what the bridge's end of each connection is used for
          eEnd,     \* what the enclave's end is used for
          toB, toE, \* lines in flight
          faults    \* bound: faults so far

bVars == <<bpc, bwd, served>>
eVars == <<epc, eid, joined>>
bSide == <<backlog, bEnd, toB>>
eSide == <<eEnd, toE>>
vars == <<bVars, eVars, bSide, eSide, faults>>

Ack(i) == [kind |-> "ack", id |-> i]
Env == [kind |-> "env", id |-> None]
Cfg(i) == [kind |-> "cfg", id |-> i]
Beat(i) == [kind |-> "beat", id |-> i]

Handshaking == {"readAck", "sendEnv", "readCfg", "setup", "sendReady"}
BridgePCs == {"down", "accept", "watch", "stranded"} \cup Handshaking
WatchdogStates == {"off", "running", "quiet", "stopped"}
EnclavePCs == {"down", "dial", "sendAck", "readEnv", "app", "readReady",
               "watch", "failed", "hung"}
BridgeUses == {"closed", "backlog", "hs", "wd", "stuck"}
EnclaveUses == {"closed", "hs", "wd"}
Lines == [kind : {"ack", "env", "cfg", "beat"}, id : Ids \cup {None}]

Init ==
    /\ bpc = "down" /\ bwd = "off" /\ served = None
    /\ epc = "down" /\ eid = None /\ joined = None
    /\ backlog = <<>>
    /\ bEnd = [c \in Conns |-> "closed"]
    /\ eEnd = [c \in Conns |-> "closed"]
    /\ toB = [c \in Conns |-> <<>>]
    /\ toE = [c \in Conns |-> <<>>]
    /\ faults = 0

-----------------------------------------------------------------------------
\* The listener opens before Accept and closes when the watchdog stops.
Listening == bpc # "down" /\ bwd # "stopped"
Free(c) == bEnd[c] = "closed" /\ eEnd[c] = "closed"

\* The watchdog runs; "quiet" if nothing has reset its ticker for a while.
Watching == bwd \in {"running", "quiet"}

\* uuid.FromBytesOrNil of a line of heartbeat, compared with the own ID.
Recognises(own, l) == l = Beat(own) /\ own \notin Split

\* What may be equal to enclave.ACK, a byte and a newline.
CanBeAck(l) == l.kind = "ack" \/ (l.kind = "beat" /\ l.id \in Split)

\* A bufio.Reader lives for one read: what it read past the line goes with it.
AfterRead(q) == {SubSeq(q, k + 1, Len(q)) : k \in 1..Len(q)}

\* A write succeeds, even if nobody will read it.
ToEnclave(c, l) == toE' = IF eEnd[c] = "closed" THEN toE ELSE [toE EXCEPT ![c] = Append(@, l)]
ToBridge(c, l) == toB' = IF bEnd[c] = "closed" THEN toB ELSE [toB EXCEPT ![c] = Append(@, l)]

CloseBridgeEnds(S) ==
    /\ bEnd' = [c \in Conns |-> IF c \in S THEN "closed" ELSE bEnd[c]]
    /\ toB' = [c \in Conns |-> IF c \in S THEN <<>> ELSE toB[c]]
CloseEnclaveEnds(S) ==
    /\ eEnd' = [c \in Conns |-> IF c \in S THEN "closed" ELSE eEnd[c]]
    /\ toE' = [c \in Conns |-> IF c \in S THEN <<>> ELSE toE[c]]

\* logger.Fatal in main, or a crash.
BridgeGone ==
    /\ bpc' = "down" /\ bwd' = "off" /\ served' = None
    /\ backlog' = <<>>
    /\ CloseBridgeEnds(Conns)
    /\ UNCHANGED <<eVars, eSide>>

\* group.Wait waits for ever for a proxy that was closed before it ran (Stranded
\* in BridgeRun).  What ends with the context has ended, a stuck handler has not.
Strand ==
    /\ bpc' = "stranded" /\ bwd' = "stopped"
    /\ backlog' = <<>>
    /\ CloseBridgeEnds({c \in Conns : bEnd[c] # "stuck"})
    /\ UNCHANGED <<served, eVars, eSide>>

EnclaveGone ==
    /\ epc' = "down" /\ eid' = None /\ joined' = None
    /\ CloseEnclaveEnds(Conns)
    /\ UNCHANGED <<bVars, bSide>>

-----------------------------------------------------------------------------
\* CreateBridge.
Start ==
    /\ bpc = "down"
    /\ bpc' = "accept"
    /\ UNCHANGED <<bwd, served, eVars, bSide, eSide, faults>>

\* Mutant: the environment is sent before the ACK is read.
AcceptSendsEnv(c) ==
    /\ bpc = "accept"
    /\ backlog # <<>> /\ c = Head(backlog)
    /\ backlog' = Tail(backlog)
    /\ bEnd' = [bEnd EXCEPT ![c] = "hs"]
    /\ bpc' = "readAck"
    /\ ToEnclave(c, Env)
    /\ UNCHANGED <<bwd, served, toB, eVars, eEnd, faults>>

Accept(c) ==
    /\ bpc = "accept"
    /\ backlog # <<>> /\ c = Head(backlog)
    /\ backlog' = Tail(backlog)
    /\ bEnd' = [bEnd EXCEPT ![c] = "hs"]
    /\ bpc' = "readAck"
    /\ UNCHANGED <<bwd, served, toB, eVars, eSide, faults>>

\* Mutant: any first line will do.
ReadAckAny(c) ==
    /\ bpc = "readAck" /\ bEnd[c] = "hs" /\ toB[c] # <<>>
    /\ bpc' = "sendEnv"
    /\ \E q \in AfterRead(toB[c]) : toB' = [toB EXCEPT ![c] = q]
    /\ UNCHANGED <<bwd, served, backlog, bEnd, eVars, eSide, faults>>

ReadAck(c) ==
    /\ bpc = "readAck" /\ bEnd[c] = "hs" /\ toB[c] # <<>>
    /\ \/ /\ CanBeAck(Head(toB[c]))
          /\ bpc' = "sendEnv"
          /\ \E q \in AfterRead(toB[c]) : toB' = [toB EXCEPT ![c] = q]
          /\ UNCHANGED <<bwd, served, backlog, bEnd, eVars, eSide>>
       \/ Head(toB[c]).kind # "ack" /\ BridgeGone
    /\ UNCHANGED faults

\* End of stream, or readTimeout: a watchdog sends its first line after half
\* an interval, 15s in the standard settings against 10s.
BridgeReadFails(c) ==
    /\ bpc \in {"readAck", "readCfg"} /\ bEnd[c] = "hs" /\ toB[c] = <<>>
    /\ eEnd[c] # "hs"
    /\ BridgeGone
    /\ UNCHANGED faults

\* completeHandshake.
SendEnv(c) ==
    /\ bpc = "sendEnv" /\ bEnd[c] = "hs"
    /\ \/ /\ bpc' = "readCfg"
          /\ ToEnclave(c, Env)
          /\ UNCHANGED <<bwd, served, bSide, eVars, eEnd>>
       \/ eEnd[c] = "closed" /\ BridgeGone
    /\ UNCHANGED faults

ReadCfg(c) ==
    /\ bpc = "readCfg" /\ bEnd[c] = "hs" /\ toB[c] # <<>>
    /\ \/ /\ Head(toB[c]).kind = "cfg"
          /\ served' = Head(toB[c]).id
          /\ bpc' = "setup"
          /\ \E q \in AfterRead(toB[c]) : toB' = [toB EXCEPT ![c] = q]
          /\ UNCHANGED <<bwd, backlog, bEnd, eVars, eSide>>
       \/ Head(toB[c]).kind # "cfg" /\ BridgeGone
    /\ UNCHANGED faults

\* Mutant: the watchdog is not started.
SetUpNoWatchdog ==
    /\ bpc = "setup"
    /\ bpc' = "sendReady"
    /\ UNCHANGED <<bwd, served, eVars, bSide, eSide, faults>>

\* Run: the tunnels and the watchdog are started, then readyFunc is called.
SetUp ==
    /\ bpc = "setup"
    /\ bpc' = "sendReady"
    /\ bwd' = "running"
    /\ UNCHANGED <<served, eVars, bSide, eSide, faults>>

\* Without the ACK, Run returns and main waits for the group it has itself.
SendReady(c) ==
    /\ bpc = "sendReady" /\ bEnd[c] = "hs"
    /\ \/ /\ bpc' = "watch"
          /\ ToEnclave(c, Ack(served))
          /\ CloseBridgeEnds({c})
          /\ UNCHANGED <<bwd, served, backlog, eVars, eEnd>>
       \/ eEnd[c] = "closed" /\ (BridgeGone \/ Strand)
    /\ UNCHANGED faults

\* group.Wait, which returns once every goroutine has, if they all do; a handler
\* that is cancelled may also panic (WatchdogCrash.cfg).
Exit ==
    /\ bpc = "watch" /\ bwd = "stopped"
    /\ BridgeGone \/ Strand
    /\ UNCHANGED faults

-----------------------------------------------------------------------------
\* The bridge's watchdog.
WdAccept(c) ==
    /\ Watching
    /\ backlog # <<>> /\ c = Head(backlog)
    /\ backlog' = Tail(backlog)
    /\ bEnd' = [bEnd EXCEPT ![c] = "wd"]
    /\ UNCHANGED <<bVars, toB, eVars, eSide, faults>>

\* Mutant: any line is a sign of life.
WdReadAny(c) ==
    /\ bEnd[c] = "wd" /\ toB[c] # <<>>
    /\ bwd' = IF bwd = "quiet" THEN "running" ELSE bwd
    /\ \E q \in AfterRead(toB[c]) : toB' = [toB EXCEPT ![c] = q]
    /\ UNCHANGED <<bpc, served, backlog, bEnd, eVars, eSide, faults>>

\* The served ID resets the ticker; anything else leaves the handler waiting to
\* report it.
WdRead(c) ==
    /\ bEnd[c] = "wd" /\ toB[c] # <<>>
    /\ \/ /\ Recognises(served, Head(toB[c]))
          /\ bwd' = IF bwd = "quiet" THEN "running" ELSE bwd
          /\ UNCHANGED bEnd
       \/ /\ ~Recognises(served, Head(toB[c]))
          /\ bEnd' = [bEnd EXCEPT ![c] = "stuck"]
          /\ UNCHANGED bwd
    /\ \E q \in AfterRead(toB[c]) : toB' = [toB EXCEPT ![c] = q]
    /\ UNCHANGED <<bpc, served, backlog, eVars, eSide, faults>>

WdEnd(c) ==
    /\ bEnd[c] = "wd" /\ toB[c] = <<>> /\ eEnd[c] = "closed"
    /\ CloseBridgeEnds({c})
    /\ UNCHANGED <<bVars, backlog, eVars, eSide, faults>>

\* The Heartbeat goroutine of a connection outlives a stuck handler.
WdBeat(c) ==
    /\ bEnd[c] \in {"wd", "stuck"} /\ eEnd[c] # "closed"
    /\ bpc # "stranded"
    /\ Len(toE[c]) < QueueBound
    /\ ToEnclave(c, Beat(served))
    /\ UNCHANGED <<bVars, bSide, eVars, eEnd, faults>>

\* StartServerSide returns and closes the listener.
WdStop(S) ==
    /\ Watching
    /\ bwd' = "stopped"
    /\ backlog' = <<>>
    /\ CloseBridgeEnds({c \in Conns : bEnd[c] = "backlog"} \cup S)
    /\ UNCHANGED <<bpc, served, eVars, eSide>>

WdMismatch(c) == bEnd[c] = "stuck" /\ WdStop({c}) /\ UNCHANGED faults

\* Most of an interval passes and no heartbeat resets the ticker.
WdQuiet ==
    /\ bwd = "running"
    /\ bwd' = "quiet"
    /\ UNCHANGED <<bpc, served, eVars, bSide, eSide, faults>>

\* The rest of it passes too (a Fault if the enclave is there).
WdTimeout == bwd = "quiet" /\ eid # served /\ WdStop({}) /\ UNCHANGED faults

-----------------------------------------------------------------------------
\* StartHandshake, which dials until it has read a line.
EnclaveStart ==
    /\ epc = "down"
    /\ epc' = "dial"
    /\ UNCHANGED <<eid, joined, bVars, bSide, eSide, faults>>

Connect(c, use) ==
    /\ Listening /\ Free(c)
    /\ backlog' = Append(backlog, c)
    /\ bEnd' = [bEnd EXCEPT ![c] = "backlog"]
    /\ eEnd' = [eEnd EXCEPT ![c] = use]
    /\ UNCHANGED <<toB, toE, bVars, faults>>

Dial(c) ==
    /\ epc = "dial"
    /\ Connect(c, "hs")
    /\ epc' = "sendAck"
    /\ UNCHANGED <<eid, joined>>

SendAck(c) ==
    /\ epc = "sendAck" /\ eEnd[c] = "hs"
    /\ \/ /\ epc' = "readEnv"
          /\ ToBridge(c, Ack(None))
          /\ UNCHANGED eSide
       \/ /\ bEnd[c] = "closed"
          /\ epc' = "dial"
          /\ CloseEnclaveEnds({c})
          /\ UNCHANGED toB
    /\ UNCHANGED <<eid, joined, bVars, backlog, bEnd, faults>>

\* A line that is no environment ends the enclave.
ReadEnv(c) ==
    /\ epc = "readEnv" /\ eEnd[c] = "hs" /\ toE[c] # <<>>
    /\ \/ /\ Head(toE[c]) = Env
          /\ epc' = "app"
          /\ \E q \in AfterRead(toE[c]) : toE' = [toE EXCEPT ![c] = q]
          /\ UNCHANGED <<eid, joined, bVars, bSide, eEnd>>
       \/ Head(toE[c]) # Env /\ EnclaveGone
    /\ UNCHANGED faults

ReadEnvFails(c) ==
    /\ epc = "readEnv" /\ eEnd[c] = "hs" /\ toE[c] = <<>> /\ bEnd[c] = "closed"
    /\ epc' = "dial"
    /\ CloseEnclaveEnds({c})
    /\ UNCHANGED <<eid, joined, bVars, bSide, faults>>

\* uuid.NewV4 draws an ID that nothing holds.
IdsIn(q) == {q[n].id : n \in DOMAIN q}
IdsHeld == {served, eid, joined} \cup UNION {IdsIn(toB[c]) \cup IdsIn(toE[c]) : c \in Conns}

\* FinishHandshakeAndWait.  An error of the write leaves b.ready open, and
\* WaitForBridgeSetup waits for it.
SendCfg(c) ==
    /\ epc = "app" /\ eEnd[c] = "hs"
    /\ \/ \E i \in Ids \ IdsHeld :
             /\ eid' = i
             /\ epc' = "readReady"
             /\ ToBridge(c, Cfg(i))
       \/ /\ bEnd[c] = "closed"
          /\ epc' = "hung"
          /\ UNCHANGED <<eid, toB>>
    /\ UNCHANGED <<joined, bVars, backlog, bEnd, eSide, faults>>

\* Mutant: the error of the read is ignored.
ReadReadyIgnoresError(c) ==
    /\ epc = "readReady" /\ eEnd[c] = "hs"
    /\ \/ /\ toE[c] # <<>>
          /\ joined' = Head(toE[c]).id
       \/ /\ toE[c] = <<>> /\ bEnd[c] = "closed"
          /\ UNCHANGED joined
    /\ epc' = "watch"
    /\ CloseEnclaveEnds({c})
    /\ UNCHANGED <<eid, bVars, bSide, faults>>

\* The ACK closes the handshake; so does anything else, but as a failure.
ReadReady(c) ==
    /\ epc = "readReady" /\ eEnd[c] = "hs"
    /\ \/ /\ toE[c] # <<>> /\ Head(toE[c]).kind = "ack"
          /\ joined' = Head(toE[c]).id
          /\ epc' = "watch"
       \/ /\ IF toE[c] = <<>> THEN bEnd[c] = "closed" ELSE Head(toE[c]).kind # "ack"
          /\ epc' = "failed"
          /\ UNCHANGED joined
    /\ CloseEnclaveEnds({c})
    /\ UNCHANGED <<eid, bVars, bSide, faults>>

\* Mutant: the enclave dials again, with its watchdog still running.
FailRetries ==
    /\ epc = "failed"
    /\ epc' = "dial"
    /\ UNCHANGED <<eid, joined, bVars, bSide, eSide, faults>>

\* WaitForBridgeSetup returned the error.
Fail ==
    /\ epc = "failed"
    /\ EnclaveGone
    /\ UNCHANGED faults

-----------------------------------------------------------------------------
\* Mutant: the dialer is the one of the handshake, which sends an ACK.
EnclaveWdDialAcks(c) ==
    /\ epc \in {"watch", "failed"}
    /\ \A d \in Conns : eEnd[d] # "wd"
    /\ Listening /\ Free(c)
    /\ backlog' = Append(backlog, c)
    /\ bEnd' = [bEnd EXCEPT ![c] = "backlog"]
    /\ eEnd' = [eEnd EXCEPT ![c] = "wd"]
    /\ toB' = [toB EXCEPT ![c] = <<Ack(None)>>]
    /\ UNCHANGED <<toE, bVars, eVars, faults>>

\* The enclave's watchdog; it runs even if the handshake failed.
EnclaveWdDial(c) ==
    /\ epc \in {"watch", "failed"}
    /\ \A d \in Conns : eEnd[d] # "wd"
    /\ Connect(c, "wd")
    /\ UNCHANGED eVars

EnclaveWdRead(c) ==
    /\ eEnd[c] = "wd" /\ toE[c] # <<>>
    /\ \/ /\ Recognises(eid, Head(toE[c]))
          /\ \E q \in AfterRead(toE[c]) : toE' = [toE EXCEPT ![c] = q]
          /\ UNCHANGED <<eVars, bVars, bSide, eEnd>>
       \/ ~Recognises(eid, Head(toE[c])) /\ EnclaveGone
    /\ UNCHANGED faults

EnclaveWdEnd(c) ==
    /\ eEnd[c] = "wd" /\ toE[c] = <<>> /\ bEnd[c] = "closed"
    /\ CloseEnclaveEnds({c})
    /\ UNCHANGED <<eVars, bVars, bSide, faults>>

EnclaveWdBeat(c) ==
    /\ eEnd[c] = "wd" /\ bEnd[c] # "closed"
    /\ Len(toB[c]) < QueueBound
    /\ ToBridge(c, Beat(eid))
    /\ UNCHANGED <<eVars, bVars, backlog, bEnd, eSide, faults>>


EnclaveWdTimeout ==
    /\ epc = "watch"
    /\ served # eid \/ ~Watching
    /\ EnclaveGone
    /\ UNCHANGED faults

-----------------------------------------------------------------------------
\* A process is killed, an enclave's time limit is unlucky, or the bridge's
\* watchdog stops: a tunnel has failed, or an enclave was slow for an interval.
Fault ==
    /\ faults < MaxFaults
    /\ faults' = faults + 1
    /\ \/ bpc # "down" /\ BridgeGone
       \/ epc # "down" /\ EnclaveGone
       \/ WdStop({})

BridgeStep(c) ==
    \/ Start \/ Accept(c) \/ ReadAck(c) \/ BridgeReadFails(c) \/ SendEnv(c)
    \/ ReadCfg(c) \/ SetUp \/ SendReady(c) \/ Exit
WdHandle(c) == WdRead(c) \/ WdEnd(c)
WdVerdict == WdTimeout \/ \E c \in Conns : WdMismatch(c)
EnclaveStep(c) ==
    \/ EnclaveStart \/ Dial(c) \/ SendAck(c) \/ ReadEnv(c) \/ ReadEnvFails(c)
    \/ SendCfg(c) \/ ReadReady(c) \/ Fail
EnclaveWdHandle(c) == EnclaveWdDial(c) \/ EnclaveWdRead(c) \/ EnclaveWdEnd(c)

Next ==
    \/ \E c \in Conns :
          \/ BridgeStep(c) \/ WdAccept(c) \/ WdHandle(c) \/ WdBeat(c)
          \/ EnclaveStep(c) \/ EnclaveWdHandle(c) \/ EnclaveWdBeat(c)
    \/ WdQuiet \/ WdVerdict \/ EnclaveWdTimeout \/ Fault

\* What uuid.NewV4 draws has a newline only now and then.
DrawsPlainId(c) == SendCfg(c) /\ eid' \in Ids \ Split

\* Processes are restarted, goroutines run, time passes and tickers tick.
Fairness ==
    /\ WF_vars(\E c \in Conns : BridgeStep(c))
    /\ WF_vars(\E c \in Conns : EnclaveStep(c))
    /\ WF_vars(\E c \in Conns : WdAccept(c))
    /\ WF_vars(WdQuiet) /\ WF_vars(WdVerdict) /\ WF_vars(EnclaveWdTimeout)
    /\ WF_vars(\E c \in Conns : EnclaveWdBeat(c))
    /\ SF_vars(\E c \in Conns : DrawsPlainId(c))
    /\ \A c \in Conns : WF_vars(WdHandle(c)) /\ WF_vars(EnclaveWdHandle(c))

Spec == Init /\ [][Next]_vars
FairSpec == Spec /\ Fairness

-----------------------------------------------------------------------------
\* Type invariant.
TypeOK ==
    /\ bpc \in BridgePCs
    /\ bwd \in WatchdogStates
    /\ served \in Ids \cup {None}
    /\ epc \in EnclavePCs
    /\ eid \in Ids \cup {None}
    /\ joined \in Ids \cup {None}
    /\ backlog \in Seq(Conns)
    /\ \A c \in Conns : bEnd[c] = "backlog" <=> \E n \in DOMAIN backlog : backlog[n] = c
    /\ bEnd \in [Conns -> BridgeUses]
    /\ eEnd \in [Conns -> EnclaveUses]
    /\ toB \in [Conns -> Seq(Lines)]
    /\ toE \in [Conns -> Seq(Lines)]
    /\ faults \in 0..MaxFaults

\* An enclave that believes its bridge is set up was set up by a bridge that
\* runs with this enclave's configuration, whatever crashed in between.
Agreement == epc = "watch" => joined = eid

\* Neither side of a handshake ever writes ahead of the other, so that a
\* reader that is dropped after one line takes no other line with it.
NoReadAhead ==
    \A c \in Conns : bEnd[c] = "hs" /\ eEnd[c] = "hs" => Len(toB[c]) + Len(toE[c]) <= 1

\* "If an ack is not sent then this may not be a new enclave and we want to
\* bail" (bridge.go 69): a bridge never gives its environment to, or takes a
\* configuration from, the watchdog of an enclave that outlived another bridge;
\* the environment only if the ID of that enclave reads as an ACK.
BailOnOldEnclave ==
    \A c \in Conns :
        bpc \in Handshaking \ {"readAck"} /\ bEnd[c] = "hs" /\ eEnd[c] = "wd"
            => bpc \in {"sendEnv", "readCfg"} /\ eid \in Split

\* No false mismatch: the bridge's watchdog only accuses a connection when the
\* enclave it serves is gone, or has an ID that cannot be sent as a line.
NoFalseMismatch ==
    \A c \in Conns : bEnd[c] = "stuck" => eid # served \/ served \in Split

\* The watchdog "terminates the bridge if the enclave is unresponsive or
\* restarted" (pkg/config/settings.go 28): whatever the next enclave says on the
\* port meanwhile, but for a bridge that was asked to end and never does.
RestartDetected == bpc = "watch" /\ eid # served ~> bpc \in {"down", "stranded"}

InSession ==
    /\ bpc = "watch" /\ Watching
    /\ epc = "watch" /\ served = eid /\ eid \notin Split


\* What an enclave knows of its bridge: an ACK that waits to be read is an offer.
Offered == \E c \in Conns : eEnd[c] = "hs" /\ toE[c] # <<>> /\ Head(toE[c]).kind = "ack"
Stage == CASE epc = "watch" -> "paired"
           [] epc # "watch" /\ Offered -> "offered"
           [] OTHER -> "apart"

Abstract == INSTANCE Pairing WITH serving <- served, self <- eid, stage <- Stage

\* The handshake pairs one bridge with one enclave as if that took a single
\* step, whatever crashes, restarts and leftovers of old sessions come between
\* its lines: no bridge takes up an enclave that has had an offer before.
PairingSpec == Abstract!Spec
=============================================================================
