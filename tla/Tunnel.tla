------------------------------- MODULE Tunnel -------------------------------
(***************************************************************************)
(* One connection through a tunnel of pkg/tunnel.                          *)
(*                                                                         *)
(* tunnel = "client": a program in the enclave dials the bridge over vsock *)
(* (dialVsock of pkg/client/client.go), names its target in a line, and    *)
(* waits for an ACK; ClientTunnel.HandleConn dials the target over TCP.    *)
(* tunnel = "server": a TCP client reaches ServerTunnel.HandleConn, which  *)
(* dials the enclave over vsock.  Both then copy in both directions.       *)
(*                                                                         *)
(* "near" is the peer that opened the connection, "far" the one the        *)
(* handler dials.  Data is a numbered sequence of chunks each way.         *)
(***************************************************************************)
EXTENDS Naturals, Sequences

CONSTANTS MaxData,   \* bound: chunks that a peer sends
          WireBound  \* bound: what a connection buffers one way

ASSUME BoundsAssumption == MaxData \in Nat \ {0} /\ WireBound \in Nat \ {0}

VARIABLES tunnel,   \* which of the two tunnels: it does not change
          pc,       \* HandleConn
          expired,  \* requestCtx, or the parentCtx of the server tunnel, is done
          copier,   \* the goroutine of each direction
          chunk,    \* what it has read and not yet written
          wireIn,   \* from the source of each direction to the handler
          wireOut,  \* from the handler to its destination
          sent,     \* history: chunks sent each way
          got,      \* chunks that arrived
          peer      \* the two programs that talk through the tunnel

handlerVars == <<tunnel, pc, copier, chunk>>
wires == <<wireIn, wireOut>>
vars == <<tunnel, pc, expired, copier, chunk, wireIn, wireOut, sent, got, peer>>

Dirs == {"up", "down"}
Ends == {"near", "far"}
Source(d) == IF d = "up" THEN "near" ELSE "far"
Dest(d) == IF d = "up" THEN "far" ELSE "near"
Target == 0  \* the line with the address
Ack == 0     \* the line that answers it
Items == 0..MaxData

\* "connect" and "await" are dialVsock; "finished" has shut down its writing.
PeerStates == {"absent", "connect", "await", "open", "finished", "closed"}
PCs == {"readTarget", "dial", "writeAck", "relay", "returned"}
Talks(e) == peer[e] \in {"open", "finished"}
Silent(e) == peer[e] \in {"finished", "closed"}

Init ==
    /\ tunnel \in {"client", "server"}
    /\ pc = IF tunnel = "client" THEN "readTarget" ELSE "dial"
    /\ expired = FALSE
    /\ copier = [d \in Dirs |-> "off"]
    /\ chunk = [d \in Dirs |-> <<>>]
    /\ wireIn = [d \in Dirs |-> <<>>]
    /\ wireOut = [d \in Dirs |-> <<>>]
    /\ sent = [d \in Dirs |-> 0]
    /\ got = [d \in Dirs |-> <<>>]
    /\ peer = [e \in Ends |-> IF e = "far" THEN "absent"
                             ELSE IF tunnel = "client" THEN "connect" ELSE "open"]

-----------------------------------------------------------------------------
\* The rest of a queue after a bufio.Reader has taken a line from it, and with
\* the line as much more as had arrived.
AfterLine(q) == {SubSeq(q, k + 1, Len(q)) : k \in 1..Len(q)}

\* The deferred Close of both connections; the server tunnel closes only the
\* near one.  The peers still read what has been written to them.
Return ==
    /\ pc' = "returned"
    /\ copier' = [d \in Dirs |-> "done"]
    /\ chunk' = [d \in Dirs |-> <<>>]
    /\ wireIn' = [d \in Dirs |-> <<>>]

\* Mutant: the answer goes out before the dial.
ReadTargetAnswered ==
    /\ pc = "readTarget"
    /\ wireIn["up"] # <<>>
    /\ wireIn' = [wireIn EXCEPT !["up"] = Tail(@)]
    /\ wireOut' = [wireOut EXCEPT !["down"] = Append(@, Ack)]
    /\ pc' = "dial"
    /\ UNCHANGED <<tunnel, expired, copier, chunk, sent, got, peer>>

\* HandleConn of the client tunnel: the target line has no time limit.
ReadTarget ==
    /\ pc = "readTarget"
    /\ wireIn["up"] # <<>>
    /\ \E q \in AfterLine(wireIn["up"]) : wireIn' = [wireIn EXCEPT !["up"] = q]
    /\ pc' = "dial"
    /\ UNCHANGED <<tunnel, expired, copier, chunk, wireOut, sent, got, peer>>

ReadTargetFails ==
    /\ pc = "readTarget"
    /\ wireIn["up"] = <<>> /\ Silent("near")
    /\ Return
    /\ UNCHANGED <<tunnel, expired, wireOut, sent, got, peer>>

\* The dial is the one step that looks at the context of the client tunnel.
Dial ==
    /\ pc = "dial"
    /\ tunnel = "client" => ~expired
    /\ peer' = [peer EXCEPT !["far"] = "open"]
    /\ IF tunnel = "client"
       THEN pc' = "writeAck" /\ UNCHANGED copier
       ELSE pc' = "relay" /\ copier' = [d \in Dirs |-> "read"]
    /\ UNCHANGED <<tunnel, expired, chunk, wires, sent, got>>

DialFails ==
    /\ pc = "dial"
    /\ Return
    /\ UNCHANGED <<tunnel, expired, wireOut, sent, got, peer>>

\* Mutant: the ACK that the client waits for is forgotten.
WriteAckForgotten ==
    /\ pc = "writeAck"
    /\ \/ /\ pc' = "relay"
          /\ copier' = [d \in Dirs |-> "read"]
          /\ UNCHANGED <<chunk, wires>>
       \/ peer["near"] = "closed" /\ Return /\ UNCHANGED wireOut
    /\ UNCHANGED <<tunnel, expired, sent, got, peer>>

WriteAck ==
    /\ pc = "writeAck"
    /\ \/ /\ wireOut' = [wireOut EXCEPT !["down"] = Append(@, Ack)]
          /\ pc' = "relay"
          /\ copier' = [d \in Dirs |-> "read"]
          /\ UNCHANGED <<chunk, wireIn>>
       \/ peer["near"] = "closed" /\ Return /\ UNCHANGED wireOut
    /\ UNCHANGED <<tunnel, expired, sent, got, peer>>

-----------------------------------------------------------------------------
\* io.CopyBuffer: a read, then a write, until the source ends or one fails.
CopyRead(d) ==
    /\ copier[d] = "read"
    /\ wireIn[d] # <<>>
    /\ chunk' = [chunk EXCEPT ![d] = <<Head(wireIn[d])>>]
    /\ wireIn' = [wireIn EXCEPT ![d] = Tail(@)]
    /\ copier' = [copier EXCEPT ![d] = "write"]
    /\ UNCHANGED <<tunnel, pc, expired, wireOut, sent, got, peer>>

CopyEnds(d) ==
    /\ copier[d] = "read"
    /\ wireIn[d] = <<>> /\ Silent(Source(d))
    /\ copier' = [copier EXCEPT ![d] = "done"]
    /\ UNCHANGED <<tunnel, pc, expired, chunk, wires, sent, got, peer>>

\* What is written to a peer that is gone may still be taken, for nothing.
CopyWrite(d) ==
    /\ copier[d] = "write"
    /\ Len(wireOut[d]) < WireBound
    /\ wireOut' = [wireOut EXCEPT ![d] = @ \o chunk[d]]
    /\ chunk' = [chunk EXCEPT ![d] = <<>>]
    /\ copier' = [copier EXCEPT ![d] = "read"]
    /\ UNCHANGED <<tunnel, pc, expired, wireIn, sent, got, peer>>

\* Mutant: a copier whose write fails goes on.
CopyFailsOn(d) ==
    /\ copier[d] = "write"
    /\ peer[Dest(d)] = "closed"
    /\ UNCHANGED vars

CopyFails(d) ==
    /\ copier[d] = "write"
    /\ peer[Dest(d)] = "closed"
    /\ copier' = [copier EXCEPT ![d] = "done"]
    /\ UNCHANGED <<tunnel, pc, expired, chunk, wires, sent, got, peer>>

\* Mutant: the end of one direction ends the connection.
JoinFirst ==
    /\ pc = "relay"
    /\ \E d \in Dirs : copier[d] = "done"
    /\ Return
    /\ UNCHANGED <<tunnel, expired, wireOut, sent, got, peer>>

\* group.Wait, for both goroutines.
Join ==
    /\ pc = "relay"
    /\ \A d \in Dirs : copier[d] = "done"
    /\ Return
    /\ UNCHANGED <<tunnel, expired, wireOut, sent, got, peer>>

-----------------------------------------------------------------------------
\* Mutant: dialVsock does not wait for the answer.
SendTargetEagerly ==
    /\ peer["near"] = "connect"
    /\ wireIn' = [wireIn EXCEPT !["up"] = Append(@, Target)]
    /\ peer' = [peer EXCEPT !["near"] = "open"]
    /\ UNCHANGED <<handlerVars, expired, wireOut, sent, got>>

\* dialVsock.
SendTarget ==
    /\ peer["near"] = "connect"
    /\ wireIn' = [wireIn EXCEPT !["up"] = Append(@, Target)]
    /\ peer' = [peer EXCEPT !["near"] = "await"]
    /\ UNCHANGED <<handlerVars, expired, wireOut, sent, got>>

\* An error leaves the connection to the garbage collector, unclosed.  "closed"
\* stands for it: the handler has returned by then, and the program never had it.
AwaitAck ==
    /\ peer["near"] = "await"
    /\ \/ /\ wireOut["down"] # <<>> /\ Head(wireOut["down"]) = Ack
          /\ \E q \in AfterLine(wireOut["down"]) : wireOut' = [wireOut EXCEPT !["down"] = q]
          /\ peer' = [peer EXCEPT !["near"] = "open"]
       \/ /\ IF wireOut["down"] = <<>> THEN pc = "returned" ELSE Head(wireOut["down"]) # Ack
          /\ peer' = [peer EXCEPT !["near"] = "closed"]
          /\ UNCHANGED wireOut
    /\ UNCHANGED <<handlerVars, expired, wireIn, sent, got>>

\* The peers.  A target of the client tunnel, and an enclave behind the
\* server tunnel, speak HTTP: they answer what they have received.
MaySpeak(e) == peer[e] = "open" /\ (e = "far" => got["up"] # <<>>)

PeerSends(d) ==
    /\ MaySpeak(Source(d))
    /\ sent[d] < MaxData
    /\ Len(wireIn[d]) < WireBound
    /\ pc # "returned"
    /\ sent' = [sent EXCEPT ![d] = @ + 1]
    /\ wireIn' = [wireIn EXCEPT ![d] = Append(@, sent[d] + 1)]
    /\ UNCHANGED <<handlerVars, expired, wireOut, got, peer>>

PeerReceives(d) ==
    /\ Talks(Dest(d))
    /\ wireOut[d] # <<>>
    /\ got' = [got EXCEPT ![d] = Append(@, Head(wireOut[d]))]
    /\ wireOut' = [wireOut EXCEPT ![d] = Tail(@)]
    /\ UNCHANGED <<handlerVars, expired, wireIn, sent, peer>>

\* Only a return of the handler tells a peer that the other one is done.
\* (Behind the server tunnel it takes a finalizer of the runtime.)
PeerSeesEnd(d) ==
    /\ pc = "returned"
    /\ Talks(Dest(d))
    /\ wireOut[d] = <<>>
    /\ peer' = [peer EXCEPT ![Dest(d)] = "closed"]
    /\ UNCHANGED <<handlerVars, expired, wires, sent, got>>

\* A peer shuts down its writing, or leaves, or dies.
PeerFinishes(e) ==
    /\ peer[e] = "open"
    /\ peer' = [peer EXCEPT ![e] = "finished"]
    /\ UNCHANGED <<handlerVars, expired, wires, sent, got>>

PeerLeaves(e) ==
    /\ peer[e] \notin {"absent", "closed"}
    /\ peer' = [peer EXCEPT ![e] = "closed"]
    /\ UNCHANGED <<handlerVars, expired, wires, sent, got>>

\* requestTimeout runs out, or the bridge stops.
Expire ==
    /\ ~expired
    /\ expired' = TRUE
    /\ UNCHANGED <<handlerVars, wires, sent, got, peer>>

-----------------------------------------------------------------------------
Handler ==
    \/ ReadTarget \/ ReadTargetFails \/ Dial \/ DialFails \/ WriteAck \/ Join
    \/ \E d \in Dirs : CopyRead(d) \/ CopyEnds(d) \/ CopyWrite(d) \/ CopyFails(d)

Peers ==
    \/ SendTarget \/ AwaitAck \/ Expire
    \/ \E d \in Dirs : PeerSends(d) \/ PeerReceives(d) \/ PeerSeesEnd(d)
    \/ \E e \in Ends : PeerFinishes(e) \/ PeerLeaves(e)

Next == Handler \/ Peers

Spec == Init /\ [][Next]_vars

\* Goroutines run, and both dials are bounded in time (one by a timer, one by
\* the kernel).  Nothing obliges a peer to speak, to finish or to leave; a peer
\* that stays reads what arrives.
Fairness ==
    /\ WF_vars(ReadTarget \/ ReadTargetFails)
    /\ WF_vars(Dial \/ DialFails)
    /\ WF_vars(WriteAck)
    /\ WF_vars(Join)
    /\ \A d \in Dirs :
         /\ WF_vars(CopyRead(d) \/ CopyEnds(d))
         /\ WF_vars(CopyWrite(d) \/ CopyFails(d))
         /\ WF_vars(PeerReceives(d))
    /\ WF_vars(SendTarget)
    /\ WF_vars(AwaitAck)
    /\ WF_vars(PeerSeesEnd("down"))

FairSpec == Spec /\ Fairness

-----------------------------------------------------------------------------
\* Every variable keeps to its type, and neither wire to its bound is exceeded.
TypeOK ==
    /\ tunnel \in {"client", "server"}
    /\ pc \in PCs
    /\ expired \in BOOLEAN
    /\ copier \in [Dirs -> {"off", "read", "write", "done"}]
    /\ sent \in [Dirs -> 0..MaxData]
    /\ chunk \in [Dirs -> Seq(Items)] /\ got \in [Dirs -> Seq(Items)]
    /\ wireIn \in [Dirs -> Seq(Items)] /\ wireOut \in [Dirs -> Seq(Items)]
    /\ peer \in [Ends -> PeerStates]
    /\ \A d \in Dirs :
         /\ Len(chunk[d]) <= 1 /\ Len(got[d]) <= MaxData
         /\ Len(wireIn[d]) <= WireBound /\ Len(wireOut[d]) <= WireBound

\* Towards a peer that is there, nothing that was sent is lost, doubled or out of
\* its order: what has arrived, what is on either wire and what a copier holds are
\* all the chunks sent.  The buffered readers that HandleConn and dialVsock drop
\* after a line take none of them along, and neither does the return of the
\* handler, which throws away what it has not copied: no peer sees the end of a
\* stream before the whole of it.  (Data leaves out that line, which nothing
\* precedes.)
Unreachable(e) == peer[e] = "closed" \/ (peer[e] = "absent" /\ pc = "returned")
Data(q) == IF q # <<>> /\ Head(q) = Target THEN Tail(q) ELSE q
Upto(n) == [i \in 1..n |-> i]
Intact ==
    \A d \in Dirs : ~Unreachable(Dest(d)) =>
        got[d] \o Data(wireOut[d]) \o chunk[d] \o Data(wireIn[d]) = Upto(sent[d])

\* The tunnel seen from its two ends.
End(e) == IF peer[e] \in {"absent", "connect", "await"} THEN "apart" ELSE peer[e]
Direct == INSTANCE Connection WITH end <- [e \in Ends |-> End(e)]

\* For those that use it the tunnel is a connection: dialVsock gets its ACK only
\* when the target has been reached, and what is written is read once and in
\* order.  (Intact and Delivered say that no end is closed too early.)
DirectSpec == Direct!Spec

\* A program that has named its target gets a connection or an error: dialVsock
\* has no timeout of its own.
Answered == peer["near"] = "await" ~> peer["near"] # "await"

\* What a peer sends arrives, unless the other one leaves first or was never
\* reached: also after the sender has finished or left, and after the other
\* direction has ended.
Delivered ==
    \A d \in Dirs : \A n \in 1..MaxData :
        sent[d] >= n ~> Len(got[d]) >= n \/ Unreachable(Dest(d))

\* HandleConn returns, and gives its buffers back, once both peers have left,
\* whatever was under way.  One that stays and says nothing holds it forever.
Released == (\A e \in Ends : peer[e] = "closed") ~> pc = "returned"

\* What client_tunnel.go says of requestCtx: it bounds the entire operation.
TimeoutEndsRequest == expired ~> pc = "returned"
=============================================================================
