---------------------------- MODULE TunnelProofs ----------------------------
(***************************************************************************)
(* Proofs about Tunnel, for any amount of data and any capacity of the     *)
(* connections.                                                            *)
(*                                                                         *)
(* A connection has two phases.  While it is being greeted (Greeting) the  *)
(* lines of dialVsock and of HandleConn are all there is: the peers are    *)
(* silent, so that a reader that is dropped after a line drops nothing.    *)
(* Afterwards there is only data (Flows), and each direction is a queue in *)
(* four parts: what has arrived, the wire to the destination, the chunk in *)
(* the copier's hand and the wire from the source.                         *)
(***************************************************************************)
EXTENDS Tunnel, SequenceTheorems, TLAPS

Chunks == 1..MaxData
Before == {"readTarget", "dial", "writeAck"}

\* No copier runs before the relay, and none that reads holds a chunk.
Copiers ==
    /\ pc \in Before => \A d \in Dirs : copier[d] = "off"
    /\ \A d \in Dirs : copier[d] \in {"off", "read"} => chunk[d] = <<>>

\* The far peer comes with the dial, the greeting belongs to the client tunnel.
Dialled ==
    /\ peer["far"] \notin {"connect", "await"}
    /\ pc \in {"readTarget", "dial"} => peer["far"] = "absent"
    /\ pc \in {"writeAck", "relay"} => peer["far"] # "absent"
    /\ tunnel = "server" => pc \notin {"readTarget", "writeAck"}

Greeting ==
    /\ peer["near"] \in {"connect", "await", "closed"}
    /\ peer["near"] = "connect" => pc = "readTarget" /\ wireIn["up"] = <<>>
    /\ tunnel = "client"
    /\ \A d \in Dirs : sent[d] = 0 /\ got[d] = <<>> /\ chunk[d] = <<>>
    /\ wireIn["up"] \in {<<>>} \cup IF pc = "readTarget" THEN {<<Target>>} ELSE {}
    /\ wireOut["down"] \in {<<>>} \cup IF pc \in Before THEN {} ELSE {<<Ack>>}
    /\ wireOut["down"] # <<>> => peer["far"] # "absent"
    /\ wireIn["down"] = <<>> /\ wireOut["up"] = <<>>

\* A direction as one queue.
Line(d) == ((got[d] \o wireOut[d]) \o chunk[d]) \o wireIn[d]
Parts(d) ==
    /\ got[d] \in Seq(Chunks) /\ wireOut[d] \in Seq(Chunks)
    /\ chunk[d] \in Seq(Chunks) /\ wireIn[d] \in Seq(Chunks)
Counted(d) == Len(got[d]) + Len(wireOut[d]) + Len(chunk[d]) + Len(wireIn[d]) <= sent[d]
Flows(d) ==
    /\ Parts(d)
    /\ Counted(d)
    /\ ~Unreachable(Dest(d)) => Line(d) = Upto(sent[d])

Flowing ==
    /\ pc \notin {"readTarget", "writeAck"} /\ (pc = "dial" => tunnel = "server")
    /\ peer["near"] \notin {"connect", "await"}
    /\ \A d \in Dirs : Flows(d)

\* A copier has stopped when nothing more comes, or nobody takes it: what the
\* return of HandleConn throws away is of no use to a peer.
Drained(d) == chunk[d] = <<>> /\ wireIn[d] = <<>>
Stopped(d) == peer[Dest(d)] = "closed" \/ (Drained(d) /\ Silent(Source(d)))
Ended ==
    /\ peer["far"] = "absent" => Drained("down")
    /\ pc = "relay" => \A d \in Dirs : copier[d] = "done" => Stopped(d)

IndInv == TypeOK /\ Copiers /\ Dialled /\ Ended /\ (Greeting \/ Flowing)
-----------------------------------------------------------------------------
\* Queues and their parts.
LEMMA HeadLeads ==
    ASSUME NEW S, NEW q \in Seq(S), q # <<>>
    PROVE  /\ Head(q) \in S /\ Tail(q) \in Seq(S) /\ Len(Tail(q)) = Len(q) - 1
           /\ <<Head(q)>> \o Tail(q) = q /\ <<Head(q)>> \in Seq(S)
<1>1. Head(q) \in S /\ Tail(q) \in Seq(S) /\ Len(Tail(q)) = Len(q) - 1
      /\ \A i \in 1..Len(Tail(q)) : Tail(q)[i] = q[i + 1]
  BY HeadTailProperties
<1>2. /\ <<Head(q)>> \in Seq(S) /\ Len(<<Head(q)>>) = 1 /\ <<Head(q)>>[1] = Head(q)
      /\ Len(q) \in Nat /\ Len(q) > 0 /\ Head(q) = q[1]
  BY <1>1, EmptySeq
<1>3. /\ <<Head(q)>> \o Tail(q) \in Seq(S)
      /\ Len(<<Head(q)>> \o Tail(q)) = Len(q)
      /\ \A i \in 1..Len(q) : (<<Head(q)>> \o Tail(q))[i] = q[i]
  BY <1>1, <1>2, ConcatProperties
<1>4. <<Head(q)>> \o Tail(q) = q
  BY <1>3, SeqEqual
<1> QED
  BY <1>1, <1>2, <1>4

LEMMA UptoNext ==
    ASSUME NEW n \in Nat
    PROVE  /\ Upto(n) \in Seq(Nat) /\ Len(Upto(n)) = n
           /\ Upto(n) \o <<n + 1>> = Upto(n + 1)
<1>1. ASSUME NEW m \in Nat PROVE Upto(m) \in Seq(Nat) /\ Len(Upto(m)) = m
  BY <1>1 DEF Upto
<1>2. <<n + 1>> \in Seq(Nat) /\ Len(<<n + 1>>) = 1 /\ <<n + 1>>[1] = n + 1
  OBVIOUS
<1>0. Upto(n) \in Seq(Nat) /\ Len(Upto(n)) = n
  BY <1>1
<1>3. /\ Upto(n) \o <<n + 1>> \in Seq(Nat)
      /\ Len(Upto(n) \o <<n + 1>>) = n + 1
      /\ \A i \in 1..(n + 1) : (Upto(n) \o <<n + 1>>)[i] = IF i <= n THEN Upto(n)[i] ELSE <<n + 1>>[i - n]
  BY <1>0, <1>2, ConcatProperties
<1>4. \A i \in 1..(n + 1) : (Upto(n) \o <<n + 1>>)[i] = Upto(n + 1)[i]
  BY <1>2, <1>3 DEF Upto
<1>5. n + 1 \in Nat
  OBVIOUS
<1>6. Upto(n + 1) \in Seq(Nat) /\ Len(Upto(n + 1)) = n + 1
  BY <1>1, <1>5
<1>7. Upto(n) \o <<n + 1>> = Upto(n + 1)
  BY <1>3, <1>4, <1>6, SeqEqual
<1> QED
  BY <1>0, <1>7

\* The steps of a chunk: into the hand, out of it, to its reader; and a new one.
LEMMA Taken ==
    ASSUME NEW S, NEW a \in Seq(S), NEW q \in Seq(S), q # <<>>
    PROVE  (a \o <<Head(q)>>) \o Tail(q) = (a \o <<>>) \o q
<1>1. (a \o <<Head(q)>>) \o Tail(q) = a \o (<<Head(q)>> \o Tail(q))
  BY HeadLeads, ConcatAssociative
<1>2. a \o <<>> = a
  BY ConcatEmptySeq
<1> QED
  BY <1>1, <1>2, HeadLeads

LEMMA Passed ==
    ASSUME NEW S, NEW a \in Seq(S), NEW b \in Seq(S), NEW c \in Seq(S)
    PROVE  (a \o (b \o c)) \o <<>> = (a \o b) \o c
<1>1. b \o c \in Seq(S) /\ a \o (b \o c) \in Seq(S)
  BY ConcatProperties
<1>2. (a \o (b \o c)) \o <<>> = a \o (b \o c)
  BY <1>1, ConcatEmptySeq
<1>3. a \o (b \o c) = (a \o b) \o c
  BY ConcatAssociative, SMTT(30)
<1> QED
  BY <1>2, <1>3, Zenon

LEMMA Reached ==
    ASSUME NEW S, NEW a \in Seq(S), NEW q \in Seq(S), q # <<>>
    PROVE  Append(a, Head(q)) \o Tail(q) = a \o q
<1>1. Append(a, Head(q)) = a \o <<Head(q)>>
  BY HeadLeads, AppendIsConcat
<1>2. (a \o <<Head(q)>>) \o Tail(q) = a \o (<<Head(q)>> \o Tail(q))
  BY HeadLeads, ConcatAssociative
<1> QED
  BY <1>1, <1>2, HeadLeads

LEMMA Added ==
    ASSUME NEW S, NEW a \in Seq(S), NEW q \in Seq(S), NEW x \in S
    PROVE  a \o Append(q, x) = (a \o q) \o <<x>>
<1>1. Append(q, x) = q \o <<x>> /\ <<x>> \in Seq(S)
  BY AppendIsConcat
<1> QED
  BY <1>1, ConcatAssociative

LEMMA Sized ==
    ASSUME NEW q \in Seq(Chunks)
    PROVE  q \in Seq(Items) /\ Len(q) \in Nat /\ Data(q) = q
<1>1. Chunks \subseteq Items /\ 0 \notin Chunks
  BY BoundsAssumption DEF Chunks, Items
<1>2. q \in Seq(Items) /\ Len(q) \in Nat
  BY <1>1, SeqMonotonic, LenProperties
<1>3. q # <<>> => Head(q) # 0
  BY <1>1, HeadLeads
<1> QED
  BY <1>2, <1>3 DEF Data, Target
-----------------------------------------------------------------------------
LEMMA InitInductive == Init => IndInv
<1> SUFFICES ASSUME Init PROVE IndInv
  OBVIOUS
<1>1. /\ 0 \in 0..MaxData /\ <<>> \in Seq(Items) /\ <<>> \in Seq(Chunks)
      /\ Len(<<>>) = 0 /\ 0 <= MaxData /\ 0 <= WireBound /\ 0 <= 1
  BY BoundsAssumption, EmptySeq
<1>2. TypeOK
  BY <1>1 DEF Init, TypeOK, PCs, PeerStates, Dirs, Ends
<1>3. Copiers /\ Dialled /\ Ended
  BY DEF Init, Copiers, Dialled, Ended, Drained, Before, Dirs, Ends
<1>4. CASE tunnel = "client"
  BY <1>2, <1>3, <1>4 DEF Init, IndInv, Greeting, Dirs, Ends, Before
<1>5. CASE tunnel = "server"
  <2>1. ASSUME NEW d \in Dirs PROVE Flows(d)
    <3>1. <<>> \o <<>> = <<>>
      BY <1>1, ConcatEmptySeq
    <3>2. Line(d) = <<>>
      BY <3>1 DEF Init, Line
    <3>3. Upto(0) = <<>>
      BY UptoNext, EmptySeq
    <3> QED
      BY <1>1, <3>2, <3>3 DEF Init, Flows, Parts, Counted
  <2> QED
    BY <1>2, <1>3, <1>5, <2>1 DEF Init, IndInv, Flowing, Ends
<1> QED
  BY <1>4, <1>5 DEF Init
-----------------------------------------------------------------------------
\* A direction that no step touches, and one whose end is no longer there.
LEMMA SameFlow ==
    ASSUME NEW d \in Dirs, Flows(d),
           got'[d] = got[d], wireOut'[d] = wireOut[d], chunk'[d] = chunk[d],
           wireIn'[d] = wireIn[d], sent'[d] = sent[d],
           Unreachable(Dest(d)) => Unreachable(Dest(d))'
    PROVE  Flows(d)'
BY DEF Flows, Parts, Counted, Line

LEMMA FlowTyped ==
    ASSUME NEW d \in Dirs, Flows(d), TypeOK
    PROVE  /\ got[d] \in Seq(Items) /\ wireOut[d] \in Seq(Items)
           /\ chunk[d] \in Seq(Items) /\ wireIn[d] \in Seq(Items)
           /\ Len(got[d]) \in Nat /\ Len(wireOut[d]) \in Nat
           /\ Len(chunk[d]) \in Nat /\ Len(wireIn[d]) \in Nat
           /\ sent[d] \in Nat /\ sent[d] <= MaxData
           /\ got[d] \o wireOut[d] \in Seq(Chunks)
           /\ (got[d] \o wireOut[d]) \o chunk[d] \in Seq(Chunks)
           /\ Line(d) \in Seq(Chunks)
           /\ Counted(d) /\ (~Unreachable(Dest(d)) => Line(d) = Upto(sent[d]))
<1>1. got[d] \o wireOut[d] \in Seq(Chunks)
  BY ConcatProperties DEF Flows, Parts
<1>2. (got[d] \o wireOut[d]) \o chunk[d] \in Seq(Chunks)
  BY <1>1, ConcatProperties DEF Flows, Parts
<1>3. Line(d) \in Seq(Chunks)
  BY <1>2, ConcatProperties DEF Flows, Parts, Line
<1>4. sent[d] \in Nat /\ sent[d] <= MaxData
  BY BoundsAssumption DEF TypeOK
<1> QED
  BY <1>1, <1>2, <1>3, <1>4, Sized DEF Flows, Parts

\* How a step may change what the four parts hold.
LEMMA Counts ==
    ASSUME NEW a \in Nat, NEW b \in Nat, NEW c \in Nat, NEW e \in Nat, NEW n \in Nat,
           a + b + c + e <= n
    PROVE  /\ a + b + 0 + 0 <= n
           /\ c = 0 => a + b + 1 + (e - 1) <= n
           /\ a + (b + c) + 0 + e <= n
           /\ a + b + c + (e + 1) <= n + 1
           /\ (a + 1) + (b - 1) + c + e <= n
           /\ b > 0 => a + 1 <= n
OBVIOUS

\* The end of HandleConn leaves the wires to the peers, and nothing else.
LEMMA ReturnKeeps ==
    ASSUME IndInv, Return, pc # "returned", UNCHANGED <<tunnel, expired, wireOut, sent, got, peer>>,
           peer["near"] # "connect",
           Greeting \/ \A d \in Dirs : ~Unreachable(Dest(d))' => Drained(d)
    PROVE  IndInv'
<1>1. /\ <<>> \in Seq(Items) /\ <<>> \in Seq(Chunks) /\ Len(<<>>) = 0
      /\ 0 <= 1 /\ 0 <= WireBound
  BY BoundsAssumption, EmptySeq
<1>2. TypeOK'
  BY <1>1 DEF IndInv, TypeOK, Return, PCs
<1>3. Copiers' /\ Dialled' /\ Ended'
  BY DEF IndInv, Copiers, Dialled, Ended, Drained, Return, Before, Dirs
<1>4. CASE Greeting
  BY <1>2, <1>3, <1>4 DEF IndInv, Greeting, Return, Before, Dirs
<1>5. CASE Flowing /\ ~Greeting
  <2>1. ASSUME NEW d \in Dirs PROVE Flows(d)'
    <3>1. Flows(d) /\ TypeOK
      BY <1>5 DEF Flowing, IndInv
    <3>2. /\ Len(got[d]) \in Nat /\ Len(wireOut[d]) \in Nat /\ Len(chunk[d]) \in Nat
          /\ Len(wireIn[d]) \in Nat /\ sent[d] \in Nat
      BY <3>1, FlowTyped
    <3>3. chunk'[d] = <<>> /\ wireIn'[d] = <<>> /\ pc' = "returned"
      BY DEF Return
    <3>4. Len(got[d]) + Len(wireOut[d]) + Len(chunk[d]) + Len(wireIn[d]) <= sent[d]
      BY <3>1 DEF Flows, Counted
    <3>5. Len(got[d]) + Len(wireOut[d]) + 0 + 0 <= sent[d]
      BY <3>2, <3>4, Counts
    <3>6. Counted(d)'
      BY <1>1, <3>3, <3>5 DEF Counted
    <3>7. ~Unreachable(Dest(d))' => Line(d)' = Line(d) /\ ~Unreachable(Dest(d))
      BY <1>5, <3>3 DEF Drained, Line, Unreachable
    <3> QED
      BY <1>1, <3>1, <3>3, <3>6, <3>7 DEF Flows, Parts
  <2> QED
    BY <1>2, <1>3, <1>5, <2>1 DEF IndInv, Flowing, Return
<1> QED
  BY <1>4, <1>5 DEF IndInv

LEMMA ReadTargetKeeps == ASSUME IndInv, ReadTarget PROVE IndInv'
<1>1. Greeting /\ wireIn["up"] = <<Target>>
  BY DEF IndInv, Flowing, Greeting, ReadTarget
<1>2. Len(<<Target>>) = 1 /\ SubSeq(<<Target>>, 2, 1) = <<>>
  BY SubSeqEmpty
<1>3. \A q \in AfterLine(wireIn["up"]) : q = <<>>
  BY <1>1, <1>2 DEF AfterLine
<1>4. wireIn' = [wireIn EXCEPT !["up"] = <<>>] /\ pc' = "dial"
  BY <1>3 DEF ReadTarget
<1>5. <<>> \in Seq(Items) /\ Len(<<>>) = 0 /\ 0 <= WireBound
  BY BoundsAssumption, EmptySeq
<1>6. TypeOK'
  BY <1>4, <1>5 DEF IndInv, TypeOK, ReadTarget, PCs
<1>7. Copiers' /\ Dialled' /\ Ended'
  BY <1>4 DEF IndInv, Copiers, Dialled, Ended, Drained, Stopped, Silent, ReadTarget, Before
<1>8. wireIn'["up"] = <<>> /\ wireIn'["down"] = wireIn["down"]
  BY <1>4 DEF IndInv, TypeOK, Dirs
<1>9. Greeting'
  BY <1>1, <1>4, <1>8 DEF Greeting, ReadTarget, Before
<1> QED
  BY <1>6, <1>7, <1>9 DEF IndInv

LEMMA DialKeeps == ASSUME IndInv, Dial PROVE IndInv'
<1>1. /\ peer' = [peer EXCEPT !["far"] = "open"] /\ peer'["near"] = peer["near"]
      /\ peer["far"] = "absent" /\ peer'["far"] = "open"
  BY DEF IndInv, TypeOK, Dialled, Dial, Ends
<1>2. TypeOK'
  BY DEF IndInv, TypeOK, Dial, PCs, PeerStates, Dirs, Ends, wires
<1>3. Copiers' /\ Dialled'
  BY <1>1 DEF IndInv, TypeOK, Copiers, Dialled, Dial, Before, wires
<1>6. Ended'
  BY <1>1 DEF IndInv, Ended, Drained, Dial, wires
<1>4. CASE Greeting
  BY <1>1, <1>2, <1>3, <1>4, <1>6 DEF IndInv, Greeting, Dial, Before, wires
<1>5. CASE Flowing
  <2>1. tunnel = "server"
    BY <1>5 DEF IndInv, Dial, Flowing
  <2>2. ASSUME NEW d \in Dirs PROVE Flows(d)'
    <3>1. Flows(d)
      BY <1>5 DEF Flowing
    <3>2. Unreachable(Dest(d)) => Unreachable(Dest(d))'
      BY <1>1 DEF Dial, Unreachable, Dest
    <3> QED
      BY <3>1, <3>2, SameFlow DEF Unreachable, Dial, wires
  <2> QED
    BY <1>1, <1>2, <1>3, <1>5, <1>6, <2>1, <2>2 DEF IndInv, Flowing, Dial
<1> QED
  BY <1>4, <1>5 DEF IndInv

LEMMA WriteAckKeeps == ASSUME IndInv, WriteAck PROVE IndInv'
<1>1. Greeting /\ pc = "writeAck" /\ peer["near"] # "connect"
  BY DEF IndInv, Flowing, Greeting, WriteAck
<1>2. CASE Return /\ UNCHANGED wireOut
  BY <1>1, <1>2, ReturnKeeps DEF WriteAck
<1>3. CASE ~(Return /\ UNCHANGED wireOut)
  <2>1. /\ wireOut' = [wireOut EXCEPT !["down"] = Append(@, Ack)]
        /\ pc' = "relay" /\ copier' = [d \in Dirs |-> "read"] /\ UNCHANGED <<chunk, wireIn>>
        /\ UNCHANGED <<tunnel, expired, sent, got, peer>>
    BY <1>3 DEF WriteAck
  <2>2. wireOut["down"] = <<>> /\ wireOut \in [Dirs -> Seq(Items)] /\ "down" \in Dirs
    BY <1>1 DEF Greeting, Before, IndInv, TypeOK, Dirs
  <2>3. Append(<<>>, Ack) = <<Ack>> /\ <<Ack>> \in Seq(Items) /\ Len(<<Ack>>) = 1 /\ 1 <= WireBound
    BY BoundsAssumption DEF Ack, Items
  <2>4. wireOut' = [wireOut EXCEPT !["down"] = <<Ack>>]
    BY <2>1, <2>2, <2>3
  <2>5. wireOut'["down"] = <<Ack>> /\ wireOut'["up"] = wireOut["up"]
    BY <2>2, <2>4 DEF Dirs
  <2>6. TypeOK'
    BY <2>1, <2>3, <2>4 DEF IndInv, TypeOK, PCs, Dirs
  <2>7. Copiers' /\ Dialled' /\ Ended'
    BY <1>1, <2>1 DEF IndInv, Copiers, Dialled, Ended, Drained, Stopped, Silent, Before, Greeting
  <2>8. Greeting'
    BY <1>1, <2>1, <2>5 DEF Greeting, Before, IndInv, Dialled
  <2> QED
    BY <2>6, <2>7, <2>8 DEF IndInv
<1> QED
  BY <1>2, <1>3

\* A copier that stops leaves its queue as it is.
LEMMA StopKeeps ==
    ASSUME IndInv, NEW d \in Dirs, copier[d] # "off", copier' = [copier EXCEPT ![d] = "done"],
           UNCHANGED <<tunnel, pc, expired, chunk, wires, sent, got, peer>>, Stopped(d)
    PROVE  IndInv'
<1>1. TypeOK'
  BY DEF IndInv, TypeOK, wires
<1>2. Copiers' /\ Dialled' /\ Ended'
  BY DEF IndInv, TypeOK, Copiers, Dialled, Ended, Drained, Stopped, Silent, wires
<1>3. Greeting => Greeting'
  BY DEF Greeting, wires
<1>4. ASSUME NEW f \in Dirs, Flows(f) PROVE Flows(f)'
  BY <1>4, SameFlow DEF Unreachable, wires
<1>5. Flowing => Flowing'
  BY <1>4 DEF Flowing
<1> QED
  BY <1>1, <1>2, <1>3, <1>5 DEF IndInv

LEMMA CopyReadKeeps == ASSUME IndInv, NEW d \in Dirs, CopyRead(d) PROVE IndInv'
<1>1. Flowing /\ TypeOK /\ pc \notin Before /\ chunk[d] = <<>>
  BY DEF IndInv, Copiers, Greeting, CopyRead, Dirs, Before
<1>2. Flows(d) /\ wireIn[d] \in Seq(Chunks) /\ got[d] \o wireOut[d] \in Seq(Chunks)
  BY <1>1, FlowTyped DEF Flowing, Flows, Parts
<1>3. /\ Tail(wireIn[d]) \in Seq(Chunks) /\ <<Head(wireIn[d])>> \in Seq(Chunks)
      /\ Len(Tail(wireIn[d])) = Len(wireIn[d]) - 1 /\ Len(<<Head(wireIn[d])>>) = 1
  BY <1>2, HeadLeads DEF CopyRead
<1>4. Tail(wireIn[d]) \in Seq(Items) /\ <<Head(wireIn[d])>> \in Seq(Items)
  BY <1>3, Sized
<1>5. /\ wireIn' = [wireIn EXCEPT ![d] = Tail(wireIn[d])] /\ chunk' = [chunk EXCEPT ![d] = <<Head(wireIn[d])>>]
      /\ wireIn'[d] = Tail(wireIn[d]) /\ chunk'[d] = <<Head(wireIn[d])>>
  BY <1>1 DEF CopyRead, TypeOK
<1>6. Len(wireIn[d]) \in Nat /\ Len(wireIn[d]) <= WireBound
  BY <1>1, <1>2, FlowTyped DEF TypeOK
<1>7. Len(wireIn[d]) - 1 <= WireBound
  BY <1>6, BoundsAssumption
<1>8. TypeOK'
  BY <1>1, <1>3, <1>4, <1>5, <1>7 DEF TypeOK, CopyRead
<1>9. Copiers' /\ Dialled' /\ Ended'
  BY <1>1, <1>5 DEF IndInv, TypeOK, Copiers, Dialled, Ended, Drained, Stopped, Silent, CopyRead
<1>10. Flows(d)'
  <2>1. Parts(d)'
    BY <1>2, <1>3, <1>5 DEF Flows, Parts, CopyRead
  <2>2. Counted(d)'
    <3>1. /\ Len(got[d]) \in Nat /\ Len(wireOut[d]) \in Nat /\ sent[d] \in Nat
          /\ Len(chunk[d]) \in Nat /\ Len(chunk[d]) = 0
      BY <1>1, <1>2, FlowTyped, EmptySeq
    <3>2. Len(got[d]) + Len(wireOut[d]) + Len(chunk[d]) + Len(wireIn[d]) <= sent[d]
      BY <1>2 DEF Flows, Counted
    <3>3. Len(got[d]) + Len(wireOut[d]) + 1 + (Len(wireIn[d]) - 1) <= sent[d]
      BY <1>6, <3>1, <3>2, Counts
    <3> QED
      BY <1>3, <1>5, <3>3 DEF Counted, CopyRead
  <2>3. Line(d)' = Line(d)
    <3>1. ((got[d] \o wireOut[d]) \o <<Head(wireIn[d])>>) \o Tail(wireIn[d])
              = ((got[d] \o wireOut[d]) \o <<>>) \o wireIn[d]
      BY <1>2, Taken DEF CopyRead
    <3> QED
      BY <1>1, <1>5, <3>1 DEF CopyRead, Line
  <2> QED
    BY <1>2, <2>1, <2>2, <2>3 DEF Flows, Unreachable, CopyRead
<1>11. ASSUME NEW f \in Dirs, f # d PROVE Flows(f)'
  BY <1>1, <1>11, SameFlow DEF Unreachable, Flowing, CopyRead, TypeOK
<1> QED
  BY <1>1, <1>8, <1>9, <1>10, <1>11 DEF IndInv, Flowing, CopyRead

LEMMA CopyWriteKeeps == ASSUME IndInv, NEW d \in Dirs, CopyWrite(d) PROVE IndInv'
<1>1. TypeOK /\ pc \notin Before /\ wireOut[d] \in Seq(Items) /\ chunk[d] \in Seq(Items)
  BY DEF IndInv, Copiers, TypeOK, CopyWrite
<1>2. /\ wireOut[d] \o chunk[d] \in Seq(Items)
      /\ Len(wireOut[d] \o chunk[d]) = Len(wireOut[d]) + Len(chunk[d])
      /\ Len(wireOut[d]) \in Nat /\ Len(chunk[d]) \in Nat
      /\ <<>> \in Seq(Items) /\ <<>> \in Seq(Chunks) /\ Len(<<>>) = 0 /\ 0 <= 1
  BY <1>1, ConcatProperties, LenProperties, EmptySeq
<1>3. /\ wireOut' = [wireOut EXCEPT ![d] = wireOut[d] \o chunk[d]] /\ wireOut'[d] = wireOut[d] \o chunk[d]
      /\ chunk' = [chunk EXCEPT ![d] = <<>>] /\ chunk'[d] = <<>>
  BY <1>1 DEF CopyWrite, TypeOK
<1>4. Len(wireOut[d]) < WireBound /\ Len(chunk[d]) <= 1
  BY <1>1 DEF CopyWrite, TypeOK
<1>5. Len(wireOut[d] \o chunk[d]) <= WireBound
  <2>1. \A w, c \in Nat : w < WireBound /\ c <= 1 => w + c <= WireBound
    BY BoundsAssumption
  <2> QED
    BY <1>2, <1>4, <2>1
<1>6. TypeOK'
  BY <1>1, <1>2, <1>3, <1>5 DEF TypeOK, CopyWrite
<1>7. Copiers' /\ Dialled' /\ Ended'
  BY <1>1, <1>3 DEF IndInv, TypeOK, Copiers, Dialled, Ended, Drained, Stopped, Silent, CopyWrite
<1>8. CASE Greeting
  <2>1. chunk[d] = <<>> /\ wireOut[d] \o <<>> = wireOut[d]
    BY <1>1, <1>8, ConcatEmptySeq DEF Greeting
  <2>2. wireOut'[d] = wireOut[d] /\ chunk'[d] = <<>>
    BY <1>3, <2>1
  <2>3. \A f \in Dirs : wireOut'[f] = wireOut[f] /\ chunk'[f] = chunk[f]
    BY <1>1, <1>3, <2>1, <2>2 DEF TypeOK
  <2>4. Greeting'
    BY <1>8, <2>3 DEF Greeting, CopyWrite, Dirs
  <2> QED
    BY <1>6, <1>7, <2>4 DEF IndInv
<1>9. CASE Flowing
  <2>1. Flows(d) /\ Parts(d)
    BY <1>9 DEF Flowing, Flows
  <2>2. Parts(d)'
    BY <1>2, <1>3, <2>1, ConcatProperties DEF Parts, CopyWrite
  <2>3. Counted(d)'
    <3>1. Len(got[d]) \in Nat /\ Len(wireIn[d]) \in Nat /\ sent[d] \in Nat
      BY <1>1, <2>1, FlowTyped
    <3>2. Len(got[d]) + Len(wireOut[d]) + Len(chunk[d]) + Len(wireIn[d]) <= sent[d]
      BY <2>1 DEF Flows, Counted
    <3>3. Len(got[d]) + (Len(wireOut[d]) + Len(chunk[d])) + 0 + Len(wireIn[d]) <= sent[d]
      BY <1>2, <3>1, <3>2, Counts
    <3> QED
      BY <1>2, <1>3, <3>3 DEF Counted, CopyWrite
  <2>4. Line(d)' = Line(d)
    <3>1. (got[d] \o (wireOut[d] \o chunk[d])) \o <<>> = (got[d] \o wireOut[d]) \o chunk[d]
      <4>1. got[d] \in Seq(Chunks) /\ wireOut[d] \in Seq(Chunks) /\ chunk[d] \in Seq(Chunks)
        BY <2>1 DEF Parts
      <4>2. \A a, b, c \in Seq(Chunks) : (a \o (b \o c)) \o <<>> = (a \o b) \o c
        BY Passed
      <4> QED
        BY <4>1, <4>2, Zenon
    <3> QED
      BY <1>3, <3>1 DEF CopyWrite, Line
  <2>5. Flows(d)'
    BY <2>1, <2>2, <2>3, <2>4 DEF Flows, Unreachable, CopyWrite
  <2>6. ASSUME NEW f \in Dirs, f # d PROVE Flows(f)'
    BY <1>1, <1>9, <2>6, SameFlow DEF Unreachable, Flowing, CopyWrite, TypeOK
  <2> QED
    BY <1>6, <1>7, <1>9, <2>5, <2>6 DEF IndInv, Flowing, CopyWrite
<1> QED
  BY <1>8, <1>9 DEF IndInv
-----------------------------------------------------------------------------
LEMMA SendTargetKeeps == ASSUME IndInv, SendTarget PROVE IndInv'
<1>1. Greeting /\ TypeOK /\ wireIn["up"] = <<>> /\ pc = "readTarget" /\ "up" \in Dirs /\ "near" \in Ends
  BY DEF IndInv, Flowing, Greeting, SendTarget, Dirs, Ends
<1>2. Append(<<>>, Target) = <<Target>> /\ <<Target>> \in Seq(Items) /\ Len(<<Target>>) = 1 /\ 1 <= WireBound
  BY BoundsAssumption DEF Target, Items
<1>3. wireIn' = [wireIn EXCEPT !["up"] = <<Target>>]
  BY <1>1, <1>2 DEF SendTarget
<1>4. wireIn'["up"] = <<Target>> /\ wireIn'["down"] = wireIn["down"]
      /\ peer'["near"] = "await" /\ peer'["far"] = peer["far"]
  BY <1>1, <1>3 DEF SendTarget, TypeOK, Dirs, Ends
<1>5. TypeOK'
  BY <1>1, <1>2, <1>3 DEF TypeOK, SendTarget, handlerVars, PeerStates
<1>6. Copiers' /\ Dialled' /\ Ended'
  BY <1>1, <1>4 DEF IndInv, Copiers, Dialled, Ended, Drained, Stopped, Silent, SendTarget, handlerVars
<1>7. Greeting'
  BY <1>1, <1>4 DEF Greeting, SendTarget, handlerVars, Before
<1> QED
  BY <1>5, <1>6, <1>7 DEF IndInv

LEMMA AwaitAckKeeps == ASSUME IndInv, AwaitAck PROVE IndInv'
<1>1. Greeting /\ TypeOK /\ "near" \in Ends /\ "down" \in Dirs
  BY DEF IndInv, Flowing, AwaitAck, Dirs, Ends
<1>2. CASE wireOut["down"] = <<>>
  <2>1. peer' = [peer EXCEPT !["near"] = "closed"] /\ peer'["near"] = "closed" /\ peer'["far"] = peer["far"]
        /\ UNCHANGED wireOut
    BY <1>1, <1>2 DEF AwaitAck, TypeOK, Ends
  <2>2. TypeOK'
    BY <1>1, <2>1 DEF TypeOK, AwaitAck, handlerVars, PeerStates
  <2>3. Copiers' /\ Dialled' /\ Ended'
    BY <2>1 DEF IndInv, Copiers, Dialled, Ended, Drained, Stopped, Silent, AwaitAck, handlerVars
  <2>4. Greeting'
    BY <1>1, <2>1 DEF Greeting, AwaitAck, handlerVars
  <2> QED
    BY <2>2, <2>3, <2>4 DEF IndInv
<1>3. CASE wireOut["down"] # <<>>
  <2>1. wireOut["down"] = <<Ack>> /\ pc \notin Before
    BY <1>1, <1>3 DEF Greeting
  <2>2. Len(<<Ack>>) = 1 /\ SubSeq(<<Ack>>, 2, 1) = <<>> /\ Head(<<Ack>>) = Ack
    BY SubSeqEmpty
  <2>3. \A q \in AfterLine(wireOut["down"]) : q = <<>>
    BY <2>1, <2>2 DEF AfterLine
  <2>4. wireOut' = [wireOut EXCEPT !["down"] = <<>>] /\ peer' = [peer EXCEPT !["near"] = "open"]
    BY <1>3, <2>1, <2>2, <2>3 DEF AwaitAck
  <2>5. /\ wireOut'["down"] = <<>> /\ wireOut'["up"] = wireOut["up"]
        /\ peer'["near"] = "open" /\ peer'["far"] = peer["far"]
    BY <1>1, <2>4 DEF TypeOK, Dirs, Ends
  <2>6. /\ <<>> \in Seq(Items) /\ <<>> \in Seq(Chunks) /\ Len(<<>>) = 0 /\ 0 <= WireBound
        /\ <<>> \o <<>> = <<>> /\ Upto(0) = <<>>
    <3>1. Upto(0) = <<>>
      BY UptoNext, EmptySeq
    <3>2. <<>> \in Seq(Items) /\ <<>> \in Seq(Chunks) /\ Len(<<>>) = 0 /\ 0 <= WireBound
      BY BoundsAssumption, EmptySeq
    <3>3. <<>> \o <<>> = <<>>
      BY <3>2, ConcatEmptySeq
    <3> QED
      BY <3>1, <3>2, <3>3
  <2>7. TypeOK'
    BY <1>1, <2>4, <2>6 DEF TypeOK, AwaitAck, handlerVars, PeerStates
  <2>8. Copiers' /\ Dialled' /\ Ended'
    <3>1. ASSUME NEW d \in Dirs, Stopped(d) PROVE Stopped(d)'
      BY <2>5, <3>1 DEF AwaitAck, Stopped, Drained, Silent, Source, Dest, handlerVars
    <3> QED
      BY <2>5, <3>1 DEF IndInv, Copiers, Dialled, Ended, Drained, AwaitAck, handlerVars
  <2>9. ASSUME NEW d \in Dirs PROVE Flows(d)'
    <3>1. got'[d] = <<>> /\ wireOut'[d] = <<>> /\ chunk'[d] = <<>> /\ wireIn'[d] = <<>> /\ sent'[d] = 0
      BY <1>1, <2>1, <2>5 DEF Greeting, AwaitAck, handlerVars, Dirs, Before
    <3>2. Line(d)' = <<>>
      BY <2>6, <3>1 DEF Line
    <3> QED
      BY <2>6, <3>1, <3>2 DEF Flows, Parts, Counted
  <2> QED
    BY <1>1, <2>1, <2>5, <2>7, <2>8, <2>9 DEF IndInv, Flowing, AwaitAck, handlerVars, Before
<1> QED
  BY <1>2, <1>3

LEMMA PeerSendsKeeps == ASSUME IndInv, NEW d \in Dirs, PeerSends(d) PROVE IndInv'
<1>1. Flowing /\ TypeOK
  BY DEF IndInv, Greeting, PeerSends, MaySpeak, Source, Dirs
<1>2. Flows(d) /\ Parts(d)
  BY <1>1 DEF Flowing, Flows
<1>3. /\ Len(wireIn[d]) \in Nat /\ wireIn[d] \in Seq(Items) /\ sent[d] \in Nat
      /\ Len(wireIn[d]) < WireBound /\ sent[d] < MaxData
  BY <1>1, <1>2, FlowTyped DEF PeerSends
<1>4. sent[d] + 1 \in Chunks /\ sent[d] + 1 \in Items /\ sent[d] + 1 \in 0..MaxData
  BY <1>3, BoundsAssumption DEF Chunks, Items
<1>5. /\ wireIn' = [wireIn EXCEPT ![d] = Append(wireIn[d], sent[d] + 1)]
      /\ wireIn'[d] = Append(wireIn[d], sent[d] + 1)
      /\ sent' = [sent EXCEPT ![d] = sent[d] + 1] /\ sent'[d] = sent[d] + 1
  BY <1>1 DEF PeerSends, TypeOK
<1>6. /\ Append(wireIn[d], sent[d] + 1) \in Seq(Items) /\ Append(wireIn[d], sent[d] + 1) \in Seq(Chunks)
      /\ Len(Append(wireIn[d], sent[d] + 1)) = Len(wireIn[d]) + 1
  BY <1>2, <1>3, <1>4, AppendProperties DEF Parts
<1>7. Len(wireIn[d]) + 1 <= WireBound
  BY <1>3, BoundsAssumption
<1>8. TypeOK'
  BY <1>1, <1>4, <1>5, <1>6, <1>7 DEF TypeOK, PeerSends, handlerVars
<1>9. Copiers' /\ Dialled'
  BY DEF IndInv, Copiers, Dialled, PeerSends, handlerVars
<1>12. Ended'
  <2>1. peer' = peer /\ chunk' = chunk /\ copier' = copier /\ pc' = pc /\ peer[Source(d)] = "open"
    BY DEF PeerSends, MaySpeak, handlerVars
  <2>2. \A f \in Dirs : f # d => wireIn'[f] = wireIn[f]
    BY <1>1, <1>5 DEF TypeOK
  <2>3. peer["far"] = "absent" => d # "down"
    BY <2>1 DEF Source
  <2>4. ~Silent(Source(d))
    BY <2>1 DEF Silent
  <2>5. ASSUME NEW f \in Dirs, Stopped(f) PROVE Stopped(f)'
    BY <2>1, <2>2, <2>4, <2>5 DEF Stopped, Drained, Silent
  <2> QED
    BY <2>1, <2>2, <2>3, <2>5 DEF IndInv, Ended, Drained, Dirs
<1>10. Flows(d)'
  <2>1. Parts(d)'
    BY <1>2, <1>5, <1>6 DEF Parts, PeerSends, handlerVars
  <2>2. Counted(d)'
    <3>1. Len(got[d]) \in Nat /\ Len(wireOut[d]) \in Nat /\ Len(chunk[d]) \in Nat
      BY <1>1, <1>2, FlowTyped
    <3>2. Len(got[d]) + Len(wireOut[d]) + Len(chunk[d]) + Len(wireIn[d]) <= sent[d]
      BY <1>2 DEF Flows, Counted
    <3>3. Len(got[d]) + Len(wireOut[d]) + Len(chunk[d]) + (Len(wireIn[d]) + 1) <= sent[d] + 1
      BY <1>3, <3>1, <3>2, Counts
    <3> QED
      BY <1>5, <1>6, <3>3 DEF Counted, PeerSends, handlerVars
  <2>3. Line(d)' = Line(d) \o <<sent[d] + 1>>
    <3>1. (got[d] \o wireOut[d]) \o chunk[d] \in Seq(Chunks) /\ wireIn[d] \in Seq(Chunks)
      BY <1>1, <1>2, FlowTyped DEF Parts
    <3>2. ((got[d] \o wireOut[d]) \o chunk[d]) \o Append(wireIn[d], sent[d] + 1)
              = (((got[d] \o wireOut[d]) \o chunk[d]) \o wireIn[d]) \o <<sent[d] + 1>>
      <4>1. \A a, q \in Seq(Chunks) : \A x \in Chunks : a \o Append(q, x) = (a \o q) \o <<x>>
        BY Added
      <4> QED
        BY <1>4, <3>1, <4>1, Zenon
    <3> QED
      BY <1>5, <3>2 DEF PeerSends, handlerVars, Line
  <2>4. Upto(sent[d]) \o <<sent[d] + 1>> = Upto(sent[d] + 1)
    BY <1>3, UptoNext
  <2> QED
    BY <1>2, <1>5, <2>1, <2>2, <2>3, <2>4 DEF Flows, Unreachable, PeerSends, handlerVars
<1>11. ASSUME NEW f \in Dirs, f # d PROVE Flows(f)'
  BY <1>1, <1>11, SameFlow DEF Unreachable, Flowing, PeerSends, TypeOK, handlerVars
<1> QED
  BY <1>1, <1>8, <1>9, <1>10, <1>11, <1>12 DEF IndInv, Flowing, PeerSends, handlerVars

LEMMA PeerReceivesKeeps == ASSUME IndInv, NEW d \in Dirs, PeerReceives(d) PROVE IndInv'
<1>1. Flowing /\ TypeOK
  BY DEF IndInv, Greeting, PeerReceives, Talks, Dest, Dirs
<1>2. Flows(d) /\ Parts(d)
  BY <1>1 DEF Flowing, Flows
<1>3. /\ Tail(wireOut[d]) \in Seq(Chunks) /\ Head(wireOut[d]) \in Chunks
      /\ Len(Tail(wireOut[d])) = Len(wireOut[d]) - 1
  BY <1>2, HeadLeads DEF PeerReceives, Parts
<1>4. /\ Append(got[d], Head(wireOut[d])) \in Seq(Chunks)
      /\ Len(Append(got[d], Head(wireOut[d]))) = Len(got[d]) + 1
  BY <1>2, <1>3, AppendProperties DEF Parts
<1>5. Tail(wireOut[d]) \in Seq(Items) /\ Append(got[d], Head(wireOut[d])) \in Seq(Items)
      /\ Len(Tail(wireOut[d])) \in Nat
  BY <1>3, <1>4, Sized
<1>6. /\ wireOut' = [wireOut EXCEPT ![d] = Tail(wireOut[d])] /\ wireOut'[d] = Tail(wireOut[d])
      /\ got' = [got EXCEPT ![d] = Append(got[d], Head(wireOut[d]))]
      /\ got'[d] = Append(got[d], Head(wireOut[d]))
  BY <1>1 DEF PeerReceives, TypeOK
<1>7. /\ Len(got[d]) \in Nat /\ Len(wireOut[d]) \in Nat /\ Len(chunk[d]) \in Nat
      /\ Len(wireIn[d]) \in Nat /\ sent[d] \in Nat /\ sent[d] <= MaxData
  BY <1>1, <1>2, FlowTyped
<1>8. Len(got[d]) + Len(wireOut[d]) + Len(chunk[d]) + Len(wireIn[d]) <= sent[d]
  BY <1>2 DEF Flows, Counted
<1>9. Len(wireOut[d]) <= WireBound
  BY <1>1 DEF TypeOK
<1>10. Len(got[d]) + 1 <= MaxData /\ Len(wireOut[d]) - 1 <= WireBound
  <2>1. Len(wireOut[d]) > 0 => Len(got[d]) + 1 <= sent[d]
    BY <1>7, <1>8, Counts
  <2>2. Len(wireOut[d]) # 0
    BY <1>2, EmptySeq DEF PeerReceives, Parts
  <2>3. \A g, w, n \in Nat : /\ (w > 0 => g + 1 <= n) /\ w # 0 /\ n <= MaxData /\ w <= WireBound
                              => g + 1 <= MaxData /\ w - 1 <= WireBound
    BY BoundsAssumption
  <2> QED
    BY <1>7, <1>9, <2>1, <2>2, <2>3
<1>11. TypeOK'
  BY <1>1, <1>3, <1>4, <1>5, <1>6, <1>10 DEF TypeOK, PeerReceives, handlerVars
<1>12. Copiers' /\ Dialled' /\ Ended'
  BY DEF IndInv, Copiers, Dialled, Ended, Drained, Stopped, Silent, PeerReceives, handlerVars
<1>13. Flows(d)'
  <2>1. Parts(d)'
    BY <1>2, <1>3, <1>4, <1>6 DEF Parts, PeerReceives, handlerVars
  <2>2. (Len(got[d]) + 1) + (Len(wireOut[d]) - 1) + Len(chunk[d]) + Len(wireIn[d]) <= sent[d]
    BY <1>7, <1>8, Counts
  <2>3. Counted(d)'
    BY <1>3, <1>4, <1>6, <2>2 DEF Counted, PeerReceives, handlerVars
  <2>4. Line(d)' = Line(d)
    <3>1. Append(got[d], Head(wireOut[d])) \o Tail(wireOut[d]) = got[d] \o wireOut[d]
      BY <1>2, Reached DEF PeerReceives, Parts
    <3> QED
      BY <1>6, <3>1 DEF PeerReceives, handlerVars, Line
  <2> QED
    BY <1>2, <2>1, <2>3, <2>4 DEF Flows, Unreachable, PeerReceives, handlerVars
<1>14. ASSUME NEW f \in Dirs, f # d PROVE Flows(f)'
  BY <1>1, <1>14, SameFlow DEF Unreachable, Flowing, PeerReceives, TypeOK, handlerVars
<1> QED
  BY <1>1, <1>11, <1>12, <1>13, <1>14 DEF IndInv, Flowing, PeerReceives, handlerVars

\* A peer that finishes or leaves takes nothing from the queues.
LEMMA LeaveKeeps ==
    ASSUME IndInv, NEW e \in Ends, NEW s \in {"finished", "closed"},
           peer[e] \notin {"absent", "closed"}, s = "finished" => peer[e] = "open",
           peer' = [peer EXCEPT ![e] = s], UNCHANGED <<handlerVars, expired, wires, sent, got>>
    PROVE  IndInv'
<1>1. TypeOK'
  BY DEF IndInv, TypeOK, PeerStates, handlerVars, wires
<1>2. \A f \in Ends : peer'[f] = IF f = e THEN s ELSE peer[f]
  BY DEF IndInv, TypeOK
<1>3. Copiers' /\ Dialled' /\ Ended'
  <2>1. \A f \in Ends : /\ peer[f] = "closed" => peer'[f] = "closed"
                        /\ Silent(f) => Silent(f)'
                        /\ peer'[f] = "absent" => peer[f] = "absent"
    BY <1>2 DEF Silent
  <2>2. ASSUME NEW d \in Dirs, Stopped(d) PROVE Stopped(d)'
    BY <2>1, <2>2 DEF Stopped, Drained, Source, Dest, Ends, handlerVars, wires
  <2> QED
    BY <2>1, <2>2 DEF IndInv, Copiers, Dialled, Drained, Ended, handlerVars, wires, Ends
<1>4. Greeting => Greeting'
  BY <1>2 DEF Greeting, handlerVars, wires, Ends
<1>5. ASSUME NEW d \in Dirs, Flows(d) PROVE Flows(d)'
  <2>1. Unreachable(Dest(d)) => Unreachable(Dest(d))'
    BY <1>2 DEF Unreachable, Dest, Ends, handlerVars
  <2> QED
    BY <1>5, <2>1, SameFlow DEF Unreachable, handlerVars, wires
<1>6. Flowing => Flowing'
  BY <1>2, <1>5 DEF Flowing, handlerVars, Ends
<1> QED
  BY <1>1, <1>3, <1>4, <1>6 DEF IndInv

LEMMA StillKeeps ==
    ASSUME IndInv, UNCHANGED <<tunnel, pc, copier, chunk, wireIn, wireOut, sent, got, peer>>,
           expired' \in BOOLEAN
    PROVE  IndInv'
<1>1. TypeOK' /\ Copiers' /\ Dialled' /\ Ended' /\ (Greeting => Greeting')
  BY DEF IndInv, TypeOK, Copiers, Dialled, Greeting, Ended, Drained, Stopped, Silent
<1>2. ASSUME NEW d \in Dirs, Flows(d) PROVE Flows(d)'
  BY <1>2, SameFlow DEF Unreachable
<1>3. Flowing => Flowing'
  BY <1>2 DEF Flowing
<1> QED
  BY <1>1, <1>3 DEF IndInv
-----------------------------------------------------------------------------
LEMMA HandlerKeeps == ASSUME IndInv, Handler PROVE IndInv'
<1>1. CASE ReadTarget
  BY <1>1, ReadTargetKeeps
<1>2. CASE ReadTargetFails
  BY <1>2, ReturnKeeps DEF ReadTargetFails, Silent, IndInv, Flowing
<1>3. CASE Dial
  BY <1>3, DialKeeps
<1>4. CASE DialFails
  <2>1. peer["far"] = "absent" /\ peer["near"] # "connect" /\ Drained("down")
    BY <1>4 DEF DialFails, IndInv, Dialled, Ended, Greeting, Flowing
  <2>2. ASSUME NEW d \in Dirs, ~Unreachable(Dest(d))' PROVE Drained(d)
    BY <1>4, <2>1, <2>2 DEF DialFails, Return, Unreachable, Dest, Dirs
  <2> QED
    BY <1>4, <2>1, <2>2, ReturnKeeps DEF DialFails
<1>5. CASE WriteAck
  BY <1>5, WriteAckKeeps
<1>6. CASE Join
  <2>1. pc # "returned" /\ peer["near"] # "connect" /\ \A d \in Dirs : Stopped(d)
    BY <1>6 DEF Join, IndInv, Ended, Greeting, Flowing
  <2>2. ASSUME NEW d \in Dirs, ~Unreachable(Dest(d))' PROVE Drained(d)
    BY <1>6, <2>1, <2>2 DEF Join, Stopped, Unreachable
  <2> QED
    BY <1>6, <2>1, <2>2, ReturnKeeps DEF Join
<1>7. ASSUME NEW d \in Dirs, CopyRead(d) \/ CopyEnds(d) \/ CopyWrite(d) \/ CopyFails(d) PROVE IndInv'
  <2>1. CASE CopyRead(d)
    BY <2>1, CopyReadKeeps
  <2>2. CASE CopyEnds(d)
    BY <2>2, StopKeeps DEF CopyEnds, IndInv, Copiers, Drained, Stopped
  <2>3. CASE CopyWrite(d)
    BY <2>3, CopyWriteKeeps
  <2>4. CASE CopyFails(d)
    BY <2>4, StopKeeps DEF CopyFails, Stopped
  <2> QED
    BY <1>7, <2>1, <2>2, <2>3, <2>4
<1> QED
  BY <1>1, <1>2, <1>3, <1>4, <1>5, <1>6, <1>7 DEF Handler

LEMMA PeersKeep == ASSUME IndInv, Peers PROVE IndInv'
<1>1. CASE SendTarget
  BY <1>1, SendTargetKeeps
<1>2. CASE AwaitAck
  BY <1>2, AwaitAckKeeps
<1>3. CASE Expire
  <2>1. expired' \in BOOLEAN
    BY <1>3 DEF Expire
  <2> QED
    BY <1>3, <2>1, StillKeeps DEF Expire, handlerVars, wires
<1>4. ASSUME NEW d \in Dirs, PeerSends(d) \/ PeerReceives(d) \/ PeerSeesEnd(d) PROVE IndInv'
  <2>1. Dest(d) \in Ends
    BY DEF Dest, Ends
  <2>2. CASE PeerSeesEnd(d)
    BY <2>1, <2>2, LeaveKeeps DEF PeerSeesEnd, Talks
  <2> QED
    BY <1>4, <2>2, PeerSendsKeeps, PeerReceivesKeeps
<1>5. ASSUME NEW e \in Ends, PeerFinishes(e) \/ PeerLeaves(e) PROVE IndInv'
  <2>1. CASE PeerFinishes(e)
    BY <2>1, LeaveKeeps DEF PeerFinishes
  <2>2. CASE PeerLeaves(e)
    BY <2>2, LeaveKeeps DEF PeerLeaves
  <2> QED
    BY <1>5, <2>1, <2>2
<1> QED
  BY <1>1, <1>2, <1>3, <1>4, <1>5 DEF Peers

LEMMA Invariance == Spec => []IndInv
<1>1. IndInv /\ [Next]_vars => IndInv'
  <2> SUFFICES ASSUME IndInv, [Next]_vars PROVE IndInv'
    OBVIOUS
  <2>1. CASE UNCHANGED vars
    <3>1. expired' \in BOOLEAN
      BY <2>1 DEF vars, IndInv, TypeOK
    <3> QED
      BY <2>1, <3>1, StillKeeps DEF vars
  <2> QED
    BY <2>1, HandlerKeeps, PeersKeep DEF Next
<1> QED
  BY <1>1, InitInductive, PTL DEF Spec

\* Whatever the two programs do, every variable of a connection keeps to its
\* type, and neither wire to its bound is exceeded.
THEOREM Typed == Spec => []TypeOK
BY Invariance, PTL DEF IndInv

\* HandleConn and dialVsock lose, double and reorder nothing, for any amount of
\* data and any capacity of the connections, with the readers they drop.
THEOREM Whole == Spec => []Intact
<1>1. IndInv => Intact
  <2> SUFFICES ASSUME IndInv, NEW d \in Dirs, ~Unreachable(Dest(d))
               PROVE  got[d] \o Data(wireOut[d]) \o chunk[d] \o Data(wireIn[d]) = Upto(sent[d])
    BY DEF Intact
  <2>1. CASE Greeting
    <3>1. <<>> \o <<>> = <<>> /\ Upto(0) = <<>>
      BY EmptySeq, ConcatEmptySeq, UptoNext
    <3>2. Data(<<>>) = <<>> /\ Data(<<0>>) = <<>>
      BY DEF Data, Target
    <3>3. Data(wireOut[d]) = <<>> /\ Data(wireIn[d]) = <<>>
      BY <2>1, <3>2 DEF Greeting, Target, Ack, Dirs
    <3> QED
      BY <2>1, <3>1, <3>3 DEF Greeting
  <2>2. CASE Flowing
    <3>1. Flows(d) /\ Parts(d)
      BY <2>2 DEF Flowing, Flows
    <3>2. Data(wireOut[d]) = wireOut[d] /\ Data(wireIn[d]) = wireIn[d]
      BY <3>1, Sized DEF Parts
    <3> QED
      BY <3>1, <3>2 DEF Flows, Line
  <2> QED
    BY <2>1, <2>2 DEF IndInv
<1> QED
  BY <1>1, Invariance, PTL
-----------------------------------------------------------------------------
\* What a direction holds begins with what has arrived, and goes on with the head
\* of its last wire.
LEMMA NextToArrive ==
    ASSUME NEW S, NEW a \in Seq(S), NEW q \in Seq(S), NEW b \in Seq(S), NEW c \in Seq(S), q # <<>>,
           NEW line, line = ((a \o q) \o b) \o c
    PROVE  Len(a) + 1 <= Len(line) /\ line[Len(a) + 1] = Head(q)
<1>1. Len(a) \in Nat /\ Len(b) \in Nat /\ Len(c) \in Nat /\ Len(q) \in Nat \ {0} /\ Head(q) = q[1]
  BY EmptySeq, LenProperties
<1>2. /\ a \o q \in Seq(S) /\ Len(a \o q) = Len(a) + Len(q)
      /\ (a \o q)[Len(a) + 1] = q[1]
  BY <1>1, ConcatProperties
<1>3. /\ (a \o q) \o b \in Seq(S) /\ Len((a \o q) \o b) = Len(a) + Len(q) + Len(b)
      /\ ((a \o q) \o b)[Len(a) + 1] = q[1]
  BY <1>1, <1>2, ConcatProperties
<1>4. /\ Len(((a \o q) \o b) \o c) = Len(a) + Len(q) + Len(b) + Len(c)
      /\ (((a \o q) \o b) \o c)[Len(a) + 1] = q[1]
  BY <1>1, <1>3, ConcatProperties
<1> QED
  BY <1>1, <1>4

LEMMA ArrivesInOrder ==
    ASSUME IndInv, NEW d \in Dirs, PeerReceives(d)
    PROVE  Len(got[d]) < sent[d] /\ Head(wireOut[d]) = Len(got[d]) + 1
<1>1. Flows(d) /\ Parts(d) /\ ~Unreachable(Dest(d)) /\ wireOut[d] # <<>>
  BY DEF IndInv, Greeting, Flowing, Flows, PeerReceives, Talks, Dest, Dirs, Unreachable
<1>2. Line(d) = Upto(sent[d]) /\ sent[d] \in Nat /\ Len(got[d]) \in Nat
  BY <1>1, FlowTyped DEF IndInv
<1>3. Len(got[d]) + 1 <= Len(Line(d)) /\ Line(d)[Len(got[d]) + 1] = Head(wireOut[d])
  <2> DEFINE a == got[d] q == wireOut[d] b == chunk[d] c == wireIn[d] line == Line(d)
  <2>1. /\ a \in Seq(Chunks) /\ q \in Seq(Chunks) /\ b \in Seq(Chunks) /\ c \in Seq(Chunks)
        /\ q # <<>> /\ line = ((a \o q) \o b) \o c
    BY <1>1 DEF Parts, Line
  <2> HIDE DEF a, q, b, c, line
  <2>2. Len(a) + 1 <= Len(line) /\ line[Len(a) + 1] = Head(q)
    BY <2>1, NextToArrive
  <2> QED
    BY <2>2 DEF a, q, line
<1>4. Len(got[d]) + 1 <= sent[d]
  BY <1>2, <1>3, UptoNext
<1> QED
  BY <1>2, <1>3, <1>4 DEF Upto

DirectEnd == [e \in Ends |-> End(e)]

LEMMA DirectStutters == UNCHANGED <<peer, sent, got>> => UNCHANGED Direct!vars
  BY DEF Direct!vars, End

LEMMA DirectInit == Init => Direct!Init
<1> SUFFICES ASSUME Init PROVE Direct!Init
  OBVIOUS
<1>1. \A e \in Ends : End(e) = IF e = "near" /\ tunnel = "server" THEN "open" ELSE "apart"
  BY DEF Init, End, Ends
<1>2. DirectEnd \in [Ends -> {"apart", "open"}] /\ DirectEnd["far"] = "apart"
  BY <1>1 DEF DirectEnd, Ends
<1> QED
  BY <1>2 DEF DirectEnd, Init, Direct!Init, Direct!Ends, Direct!Dirs, Ends, Dirs

\* One end changes its state, and nothing is written or read.
LEMMA EndStep ==
    ASSUME TypeOK, NEW e \in Ends, NEW s, peer' = [peer EXCEPT ![e] = s],
           s \in {"open", "finished", "closed"}, UNCHANGED <<sent, got>>
    PROVE  /\ DirectEnd' = [DirectEnd EXCEPT ![e] = s]
           /\ \A f \in Ends : DirectEnd[f] = End(f)
           /\ e \in Direct!Ends
<1>1. \A f \in Ends : End(f)' = IF f = e THEN s ELSE End(f)
  BY DEF End, TypeOK
<1> QED
  BY <1>1 DEF DirectEnd, Ends, Direct!Ends

LEMMA LeaveStep ==
    ASSUME TypeOK, NEW e \in Ends, peer[e] # "closed", peer' = [peer EXCEPT ![e] = "closed"],
           UNCHANGED <<sent, got>>
    PROVE  Direct!Next
<1>1. /\ DirectEnd' = [DirectEnd EXCEPT ![e] = "closed"] /\ DirectEnd[e] = End(e) /\ e \in Direct!Ends
  BY EndStep
<1>2. End(e) # "closed"
  BY DEF End
<1>3. Direct!Leave(e)
  BY <1>1, <1>2 DEF DirectEnd, Direct!Leave
<1> QED
  BY <1>1, <1>3 DEF Direct!Next

LEMMA JoinStep ==
    ASSUME TypeOK, NEW e \in Ends, End(e) = "apart", peer' = [peer EXCEPT ![e] = "open"],
           e = "near" => End("far") # "apart", UNCHANGED <<sent, got>>
    PROVE  Direct!Next
<1>1. /\ DirectEnd' = [DirectEnd EXCEPT ![e] = "open"] /\ DirectEnd[e] = End(e) /\ e \in Direct!Ends
      /\ DirectEnd["far"] = End("far")
  BY EndStep DEF Ends
<1>2. Direct!Join(e)
  BY <1>1 DEF DirectEnd, Direct!Join
<1> QED
  BY <1>1, <1>2 DEF Direct!Next

LEMMA DirectStep == IndInv /\ [Next]_vars => [Direct!Next]_(Direct!vars)
<1> SUFFICES ASSUME IndInv, [Next]_vars PROVE [Direct!Next]_(Direct!vars)
  OBVIOUS
<1> USE DEF IndInv
<1>1. CASE Handler
  <2>1. CASE Dial
    <3>1. peer["far"] = "absent" /\ "far" \in Ends
      BY <2>1 DEF Dial, Dialled, Ends
    <3>2. End("far") = "apart"
      BY <3>1 DEF End
    <3> QED
      BY <2>1, <3>1, <3>2, JoinStep DEF Dial
  <2>2. CASE ~Dial
    BY <1>1, <2>2, DirectStutters DEF Handler, ReadTarget, ReadTargetFails, DialFails, WriteAck, Join,
       CopyRead, CopyEnds, CopyWrite, CopyFails, wires
  <2> QED
    BY <2>1, <2>2
<1>2. CASE Expire
  BY <1>2, DirectStutters DEF Expire
<1>3. CASE SendTarget
  <2>1. \A e \in Ends : End(e)' = End(e)
    BY <1>3 DEF SendTarget, End, TypeOK
  <2> QED
    BY <1>3, <2>1 DEF SendTarget, Direct!vars
<1>4. CASE AwaitAck
  <2>1. Greeting /\ "near" \in Ends /\ peer["near"] = "await"
    BY <1>4 DEF AwaitAck, Flowing, Ends
  <2>2. CASE peer' = [peer EXCEPT !["near"] = "closed"]
    BY <1>4, <2>1, <2>2, LeaveStep DEF AwaitAck
  <2>3. CASE ~(peer' = [peer EXCEPT !["near"] = "closed"])
    <3>1. peer["far"] \notin {"absent", "connect", "await"} /\ peer' = [peer EXCEPT !["near"] = "open"]
      BY <1>4, <2>1, <2>3 DEF AwaitAck, Greeting, Dialled
    <3>2. End("near") = "apart" /\ End("far") # "apart"
      BY <2>1, <3>1 DEF End, TypeOK, PeerStates, Ends
    <3> QED
      BY <1>4, <2>1, <3>1, <3>2, JoinStep DEF AwaitAck
  <2> QED
    BY <2>2, <2>3
<1>5. ASSUME NEW d \in Dirs, PeerSends(d) PROVE [Direct!Next]_(Direct!vars)
  <2>1. Direct!Writer(d) = Source(d) /\ Source(d) \in Ends /\ d \in Direct!Dirs
    BY DEF Direct!Writer, Source, Ends, Dirs, Direct!Dirs
  <2>2. peer[Source(d)] = "open" /\ UNCHANGED <<peer, got>> /\ sent' = [sent EXCEPT ![d] = @ + 1]
    BY <1>5 DEF PeerSends, MaySpeak, handlerVars
  <2>3. DirectEnd' = DirectEnd /\ DirectEnd[Source(d)] = "open"
    BY <2>1, <2>2 DEF DirectEnd, End
  <2>4. Direct!Write(d)
    BY <2>1, <2>2, <2>3 DEF DirectEnd, Direct!Write
  <2> QED
    BY <2>1, <2>4 DEF Direct!Next
<1>6. ASSUME NEW d \in Dirs, PeerReceives(d) PROVE [Direct!Next]_(Direct!vars)
  <2>1. Direct!Reader(d) = Dest(d) /\ Dest(d) \in Ends /\ d \in Direct!Dirs
    BY DEF Direct!Reader, Dest, Ends, Dirs, Direct!Dirs
  <2>2. peer[Dest(d)] \in {"open", "finished"} /\ UNCHANGED <<peer, sent>>
    BY <1>6 DEF PeerReceives, Talks
  <2>3. DirectEnd' = DirectEnd /\ DirectEnd[Dest(d)] \in {"open", "finished"}
    BY <2>1, <2>2 DEF DirectEnd, End
  <2>4. Len(got[d]) < sent[d] /\ got' = [got EXCEPT ![d] = Append(got[d], Len(got[d]) + 1)]
    BY <1>6, ArrivesInOrder DEF PeerReceives
  <2>5. Direct!Read(d)
    BY <2>1, <2>2, <2>3, <2>4 DEF DirectEnd, Direct!Read
  <2> QED
    BY <2>1, <2>5 DEF Direct!Next
<1>7. ASSUME NEW d \in Dirs, PeerSeesEnd(d) PROVE [Direct!Next]_(Direct!vars)
  <2>1. Dest(d) \in Ends
    BY DEF Dest, Ends
  <2> QED
    BY <1>7, <2>1, LeaveStep DEF PeerSeesEnd, Talks
<1>8. ASSUME NEW e \in Ends, PeerFinishes(e) PROVE [Direct!Next]_(Direct!vars)
  <2>1. /\ DirectEnd' = [DirectEnd EXCEPT ![e] = "finished"] /\ DirectEnd[e] = End(e)
        /\ End(e) = "open" /\ e \in Direct!Ends
    BY <1>8, EndStep DEF PeerFinishes, End
  <2>2. Direct!Finish(e)
    BY <1>8, <2>1 DEF PeerFinishes, DirectEnd, Direct!Finish
  <2> QED
    BY <2>1, <2>2 DEF Direct!Next
<1>9. ASSUME NEW e \in Ends, PeerLeaves(e) PROVE [Direct!Next]_(Direct!vars)
  BY <1>9, LeaveStep DEF PeerLeaves
<1>10. CASE UNCHANGED vars
  BY <1>10, DirectStutters DEF vars
<1> QED
  BY <1>1, <1>2, <1>3, <1>4, <1>5, <1>6, <1>7, <1>8, <1>9, <1>10 DEF Next, Peers

\* For any amount of data and any capacity of its wires, a tunnel is a connection
\* for the two programs that use it: no dialVsock gets through to a target that
\* has not been reached, and each reads what the other has written, in order.
THEOREM Implements == Spec => DirectSpec
<1>1. Spec => []IndInv
  BY Invariance
<1> QED
  BY <1>1, DirectInit, DirectStep, PTL DEF Spec, DirectSpec, Direct!Spec
=============================================================================
