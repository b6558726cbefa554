---------------------------- MODULE SessionProofs ----------------------------
(***************************************************************************)
(* Proofs about Session, for any number of connections, IDs and faults.    *)
(*                                                                         *)
(* Agreement and BailOnOldEnclave depend on what is in flight.  A ready    *)
(* ACK makes an enclave join, so every ACK on a live handshake must be     *)
(* about the enclave that will read it (AckIsMine); it was when it was     *)
(* sent if the bridge served that enclave then (ServesMine), which it did  *)
(* because the configuration it read came from it (CfgIsMine).  None of it *)
(* survives the reuse of a connection but for Quiet, nor two handshakes at *)
(* once but for OneHandshake.                                              *)
(*                                                                         *)
(* The lemmas XKeeps take one action each and establish the conjuncts of   *)
(* IndInv one by one.  NoReadAhead and NoFalseMismatch rest on a second    *)
(* invariant on top of it, Extra, whose lemmas are the XExtra.  The same   *)
(* two invariants show, action by action (XSimulates), that Session        *)
(* implements Pairing.                                                     *)
(***************************************************************************)
EXTENDS Session, SequenceTheorems, TLAPS

\* A closed end holds nothing to read.
Quiet ==
    \A c \in Conns : /\ bEnd[c] = "closed" => toB[c] = <<>>
                     /\ eEnd[c] = "closed" => toE[c] = <<>>

\* Each side has at most one end in a handshake, and only while it makes one.
OneHandshake ==
    /\ \A c, d \in Conns : bEnd[c] = "hs" /\ bEnd[d] = "hs" => c = d
    /\ \A c, d \in Conns : eEnd[c] = "hs" /\ eEnd[d] = "hs" => c = d
    /\ bpc \notin Handshaking => \A c \in Conns : bEnd[c] # "hs"
    /\ epc \in {"down", "dial", "watch", "failed"} => \A c \in Conns : eEnd[c] # "hs"
    /\ epc \notin {"watch", "failed"} => \A c \in Conns : eEnd[c] # "wd"

\* What is in flight on the handshake of a live enclave is about that enclave.
Configured == epc = "readReady"
CfgIsMine ==
    \A c \in Conns : eEnd[c] = "hs" =>
        \A n \in DOMAIN toB[c] : toB[c][n].kind = "cfg" => Configured /\ toB[c][n].id = eid
AckIsMine ==
    \A c \in Conns : eEnd[c] = "hs" =>
        \A n \in DOMAIN toE[c] : toE[c][n].kind = "ack" => Configured /\ toE[c][n].id = eid
ServesMine ==
    \A c \in Conns : bpc \in {"setup", "sendReady"} /\ bEnd[c] = "hs" /\ eEnd[c] = "hs"
                         => Configured /\ served = eid

\* A watchdog only ever says its heartbeat.
OnlyBeats ==
    \A c \in Conns : eEnd[c] = "wd" => \A n \in DOMAIN toB[c] : toB[c][n] = Beat(eid)

NoRepeats == \A m, n \in DOMAIN backlog : backlog[m] = backlog[n] => m = n

IndInv ==
    /\ TypeOK /\ NoRepeats /\ Quiet /\ OneHandshake
    /\ CfgIsMine /\ AckIsMine /\ ServesMine /\ OnlyBeats
    /\ Agreement /\ BailOnOldEnclave

-----------------------------------------------------------------------------
LEMMA AfterReadIsPart ==
    ASSUME NEW S, NEW q \in Seq(S), q # <<>>, NEW r \in AfterRead(q)
    PROVE  /\ r \in Seq(S)
           /\ Head(q) = q[1] /\ 1 \in DOMAIN q
           /\ \A n \in DOMAIN r : \E m \in DOMAIN q : r[n] = q[m]
<1>1. PICK k \in 1..Len(q) : r = SubSeq(q, k + 1, Len(q))
  BY DEF AfterRead
<1>2. Len(q) \in Nat /\ DOMAIN q = 1..Len(q) /\ k \in Nat /\ k + 1 \in Int /\ Len(q) \in Int
  BY <1>1
<1>3. \A i \in (k + 1)..Len(q) : q[i] \in S
  BY <1>1, <1>2
<1>4. /\ r \in Seq(S)
      /\ Len(r) = IF k + 1 <= Len(q) THEN Len(q) - (k + 1) + 1 ELSE 0
      /\ \A i \in 1..(Len(q) - (k + 1) + 1) : r[i] = q[(k + 1) + i - 1]
  BY <1>1, <1>2, <1>3, SubSeqProperties
<1>5. ASSUME NEW n \in DOMAIN r PROVE n + k \in DOMAIN q /\ r[n] = q[n + k]
  <2>1. Len(r) \in Nat /\ n \in 1..Len(r)
    BY <1>4, LenProperties
  <2>2. n \in 1..(Len(q) - (k + 1) + 1) /\ n + k \in 1..Len(q) /\ (k + 1) + n - 1 = n + k
    BY <1>1, <1>2, <1>4, <2>1
  <2> QED
    BY <1>2, <1>4, <2>2
<1>6. Head(q) = q[1] /\ 1 \in DOMAIN q
  BY <1>1, <1>2
<1> QED
  BY <1>4, <1>5, <1>6

LEMMA AppendIsMore ==
    ASSUME NEW S, NEW q \in Seq(S), NEW l \in S
    PROVE  /\ Append(q, l) \in Seq(S)
           /\ \A n \in DOMAIN Append(q, l) : (n \in DOMAIN q /\ Append(q, l)[n] = q[n])
                                             \/ (n = Len(q) + 1 /\ Append(q, l)[n] = l)
OBVIOUS
LEMMA HeadTyped ==
    ASSUME NEW q \in Seq(Lines), q # <<>>
    PROVE  Head(q).id \in Ids \cup {None}
<1>1. Head(q) \in Lines
  BY HeadTailProperties
<1> QED
  BY <1>1 DEF Lines

LEMMA ToEnclaveAdds ==
    ASSUME TypeOK, NEW c \in Conns, NEW l \in Lines, ToEnclave(c, l)
    PROVE  /\ toE' \in [Conns -> Seq(Lines)]
           /\ eEnd[c] = "closed" => toE' = toE
           /\ \A d \in Conns : d # c => toE'[d] = toE[d]
           /\ \A d \in Conns : \A n \in DOMAIN toE'[d] :
                 \/ n \in DOMAIN toE[d] /\ toE'[d][n] = toE[d][n]
                 \/ d = c /\ toE'[d][n] = l
<1>1. CASE eEnd[c] = "closed"
  BY <1>1 DEF TypeOK, ToEnclave
<1>2. CASE eEnd[c] # "closed"
  <2>1. toE' = [toE EXCEPT ![c] = Append(toE[c], l)] /\ toE[c] \in Seq(Lines)
    BY <1>2 DEF TypeOK, ToEnclave
  <2>2. /\ Append(toE[c], l) \in Seq(Lines)
        /\ \A n \in DOMAIN Append(toE[c], l) :
              \/ n \in DOMAIN toE[c] /\ Append(toE[c], l)[n] = toE[c][n]
              \/ Append(toE[c], l)[n] = l
    BY <2>1, AppendIsMore
  <2> QED
    BY <1>2, <2>1, <2>2 DEF TypeOK
<1> QED
  BY <1>1, <1>2

LEMMA ToBridgeAdds ==
    ASSUME TypeOK, NEW c \in Conns, NEW l \in Lines, ToBridge(c, l)
    PROVE  /\ toB' \in [Conns -> Seq(Lines)]
           /\ bEnd[c] = "closed" => toB' = toB
           /\ \A d \in Conns : d # c => toB'[d] = toB[d]
           /\ \A d \in Conns : \A n \in DOMAIN toB'[d] :
                 \/ n \in DOMAIN toB[d] /\ toB'[d][n] = toB[d][n]
                 \/ d = c /\ toB'[d][n] = l
<1>1. CASE bEnd[c] = "closed"
  BY <1>1 DEF TypeOK, ToBridge
<1>2. CASE bEnd[c] # "closed"
  <2>1. toB' = [toB EXCEPT ![c] = Append(toB[c], l)] /\ toB[c] \in Seq(Lines)
    BY <1>2 DEF TypeOK, ToBridge
  <2>2. /\ Append(toB[c], l) \in Seq(Lines)
        /\ \A n \in DOMAIN Append(toB[c], l) :
              \/ n \in DOMAIN toB[c] /\ Append(toB[c], l)[n] = toB[c][n]
              \/ Append(toB[c], l)[n] = l
    BY <2>1, AppendIsMore
  <2> QED
    BY <1>2, <2>1, <2>2 DEF TypeOK
<1> QED
  BY <1>1, <1>2

\* The listener's queue and the connections marked as waiting in it.
Queued(c) == \E n \in DOMAIN backlog : backlog[n] = c

LEMMA BacklogGrows ==
    ASSUME IndInv, NEW c \in Conns, bEnd[c] # "backlog", backlog' = Append(backlog, c)
    PROVE  /\ backlog' \in Seq(Conns) /\ NoRepeats'
           /\ \A d \in Conns : Queued(d)' <=> Queued(d) \/ d = c
<1>1. backlog \in Seq(Conns) /\ NoRepeats /\ ~Queued(c)
  BY DEF IndInv, TypeOK, Queued
<1>2. /\ Len(backlog) \in Nat /\ DOMAIN backlog = 1..Len(backlog)
      /\ backlog' \in Seq(Conns) /\ Len(backlog') = Len(backlog) + 1
      /\ DOMAIN backlog' = 1..(Len(backlog) + 1)
      /\ \A i \in 1..Len(backlog) : backlog'[i] = backlog[i]
      /\ backlog'[Len(backlog) + 1] = c
  BY <1>1, AppendProperties, LenProperties
<1>3. NoRepeats'
  BY <1>1, <1>2 DEF NoRepeats, Queued
<1>4. ASSUME NEW d \in Conns PROVE Queued(d)' <=> Queued(d) \/ d = c
  BY <1>2 DEF Queued
<1> QED
  BY <1>2, <1>3, <1>4

LEMMA BacklogShrinks ==
    ASSUME IndInv, NEW c \in Conns, backlog # <<>>, c = Head(backlog), backlog' = Tail(backlog)
    PROVE  /\ backlog' \in Seq(Conns) /\ NoRepeats'
           /\ bEnd[c] = "backlog"
           /\ \A d \in Conns : Queued(d)' <=> Queued(d) /\ d # c
<1>1. backlog \in Seq(Conns) /\ NoRepeats
  BY DEF IndInv, TypeOK
<1>2. /\ Len(backlog) \in Nat /\ DOMAIN backlog = 1..Len(backlog) /\ Len(backlog) > 0
      /\ backlog[1] = c
      /\ backlog' \in Seq(Conns) /\ Len(backlog') = Len(backlog) - 1
      /\ DOMAIN backlog' = 1..(Len(backlog) - 1)
      /\ \A i \in 1..(Len(backlog) - 1) : backlog'[i] = backlog[i + 1]
  BY <1>1, HeadTailProperties, LenProperties
<1>3. NoRepeats'
  BY <1>1, <1>2 DEF NoRepeats
<1>4. ASSUME NEW d \in Conns PROVE Queued(d)' <=> Queued(d) /\ d # c
  <2>1. ASSUME NEW i \in DOMAIN backlog, backlog[i] = d, d # c PROVE Queued(d)'
    <3>1. i - 1 \in DOMAIN backlog' /\ backlog'[i - 1] = backlog[i]
      BY <1>2, <2>1
    <3> QED
      BY <2>1, <3>1 DEF Queued
  <2>2. ASSUME NEW i \in DOMAIN backlog', backlog'[i] = d PROVE Queued(d) /\ d # c
    <3>1. i + 1 \in DOMAIN backlog /\ backlog[i + 1] = d /\ 1 \in DOMAIN backlog /\ i + 1 # 1
      BY <1>2, <2>2
    <3> QED
      BY <1>1, <1>2, <3>1 DEF Queued, NoRepeats
  <2> QED
    BY <2>1, <2>2 DEF Queued
<1>5. bEnd[c] = "backlog"
  <2>1. 1 \in DOMAIN backlog /\ backlog[1] = c
    BY <1>2
  <2> QED
    BY <2>1 DEF IndInv, TypeOK
<1> QED
  BY <1>2, <1>3, <1>4, <1>5

LEMMA SendEnvKeeps ==
    ASSUME IndInv, NEW c \in Conns, SendEnv(c), ~BridgeGone
    PROVE  IndInv'
<1> USE DEF IndInv, Configured, TypeOK, BridgePCs, EnclavePCs, Handshaking, BridgeUses,
     EnclaveUses, WatchdogStates
<1>a. Env \in Lines /\ Env.kind = "env" /\ Env.id = None
  BY DEF Env, Lines
<1>b. /\ bpc = "sendEnv" /\ bpc' = "readCfg" /\ ToEnclave(c, Env)
      /\ UNCHANGED <<bwd, served, backlog, bEnd, toB, epc, eid, joined, eEnd, faults>>
  BY DEF SendEnv, bSide, eVars
<1>c. TypeOK
  OBVIOUS
<1>d. /\ toE' \in [Conns -> Seq(Lines)]
      /\ eEnd[c] = "closed" => toE' = toE
      /\ \A d \in Conns : d # c => toE'[d] = toE[d]
      /\ \A d \in Conns : \A n \in DOMAIN toE'[d] :
            \/ n \in DOMAIN toE[d] /\ toE'[d][n] = toE[d][n]
            \/ d = c /\ toE'[d][n] = Env
  BY <1>a, <1>b, <1>c, ToEnclaveAdds
<1>1. TypeOK' /\ NoRepeats'
  BY <1>a, <1>b, <1>d DEF NoRepeats
<1>2. Quiet' /\ OneHandshake'
  BY <1>a, <1>b, <1>d DEF Quiet, OneHandshake
<1>3. CfgIsMine'
  BY <1>a, <1>b, <1>d DEF CfgIsMine, Quiet, OneHandshake
<1>4. AckIsMine'
  <2> SUFFICES ASSUME NEW d \in Conns, eEnd'[d] = "hs",
                      NEW n \in DOMAIN toE'[d], toE'[d][n].kind = "ack"
               PROVE  Configured' /\ toE'[d][n].id = eid'
    BY DEF AckIsMine
  <2>1. CASE n \in DOMAIN toE[d] /\ toE'[d][n] = toE[d][n]
    BY <1>b, <2>1 DEF AckIsMine
  <2>2. CASE d = c /\ toE'[d][n] = Env
    BY <1>a, <2>2
  <2> QED
    BY <1>d, <2>1, <2>2
<1>5. ServesMine'
  BY <1>a, <1>b, <1>d DEF ServesMine, Quiet, OneHandshake, CfgIsMine, AckIsMine
<1>6. OnlyBeats'
  BY <1>a, <1>b, <1>d DEF OnlyBeats, Quiet, OneHandshake
<1>7. Agreement' /\ BailOnOldEnclave'
  BY <1>a, <1>b, <1>d DEF Agreement, BailOnOldEnclave, OneHandshake, AckIsMine, CfgIsMine,
       ServesMine, OnlyBeats
<1> QED
  BY <1>1, <1>2, <1>3, <1>4, <1>5, <1>6, <1>7

LEMMA SendReadyKeeps ==
    ASSUME IndInv, NEW c \in Conns, SendReady(c), ~BridgeGone, ~Strand
    PROVE  IndInv'
<1> USE DEF IndInv, Configured, TypeOK, BridgePCs, EnclavePCs, Handshaking, BridgeUses,
     EnclaveUses, WatchdogStates
<1>a. Ack(served) \in Lines /\ Ack(served).kind = "ack" /\ Ack(served).id = served
  BY DEF Ack, Lines
<1>b. /\ bpc = "sendReady" /\ bEnd[c] = "hs" /\ bpc' = "watch"
      /\ ToEnclave(c, Ack(served)) /\ CloseBridgeEnds({c})
      /\ UNCHANGED <<bwd, served, backlog, epc, eid, joined, eEnd, faults>>
  BY DEF SendReady, eVars
<1>c. TypeOK
  OBVIOUS
<1>d. /\ toE' \in [Conns -> Seq(Lines)]
      /\ eEnd[c] = "closed" => toE' = toE
      /\ \A d \in Conns : d # c => toE'[d] = toE[d]
      /\ \A d \in Conns : \A n \in DOMAIN toE'[d] :
            \/ n \in DOMAIN toE[d] /\ toE'[d][n] = toE[d][n]
            \/ d = c /\ toE'[d][n] = Ack(served)
  BY <1>a, <1>b, <1>c, ToEnclaveAdds
<1>1. TypeOK' /\ NoRepeats'
  BY <1>a, <1>b, <1>d DEF NoRepeats, CloseBridgeEnds
<1>2. Quiet' /\ OneHandshake'
  BY <1>a, <1>b, <1>d DEF Quiet, OneHandshake, CloseBridgeEnds
<1>3. CfgIsMine'
  BY <1>a, <1>b, <1>d DEF CfgIsMine, Quiet, OneHandshake, CloseBridgeEnds
<1>4. AckIsMine'
  <2> SUFFICES ASSUME NEW d \in Conns, eEnd'[d] = "hs",
                      NEW n \in DOMAIN toE'[d], toE'[d][n].kind = "ack"
               PROVE  Configured' /\ toE'[d][n].id = eid'
    BY DEF AckIsMine
  <2>1. CASE n \in DOMAIN toE[d] /\ toE'[d][n] = toE[d][n]
    BY <1>b, <2>1 DEF AckIsMine
  <2>2. CASE d = c /\ toE'[d][n] = Ack(served)
    BY <1>a, <1>b, <2>2 DEF ServesMine
  <2> QED
    BY <1>d, <2>1, <2>2
<1>5. ServesMine'
  BY <1>a, <1>b, <1>d DEF ServesMine, Quiet, OneHandshake, CfgIsMine, AckIsMine, CloseBridgeEnds
<1>6. OnlyBeats'
  BY <1>a, <1>b, <1>d DEF OnlyBeats, Quiet, OneHandshake, CloseBridgeEnds
<1>7. Agreement' /\ BailOnOldEnclave'
  BY <1>a, <1>b, <1>d DEF Agreement, BailOnOldEnclave, OneHandshake, AckIsMine, CfgIsMine,
       ServesMine, OnlyBeats, CloseBridgeEnds
<1> QED
  BY <1>1, <1>2, <1>3, <1>4, <1>5, <1>6, <1>7

LEMMA WdBeatKeeps ==
    ASSUME IndInv, NEW c \in Conns, WdBeat(c)
    PROVE  IndInv'
<1> USE DEF IndInv, Configured, TypeOK, BridgePCs, EnclavePCs, Handshaking, BridgeUses,
     EnclaveUses, WatchdogStates
<1>a. Beat(served) \in Lines /\ Beat(served).kind = "beat" /\ Beat(served).id = served
  BY DEF Beat, Lines
<1>b. /\ ToEnclave(c, Beat(served)) /\ eEnd[c] # "closed"
      /\ UNCHANGED <<bpc, bwd, served, backlog, bEnd, toB, epc, eid, joined, eEnd, faults>>
  BY DEF WdBeat, bSide, bVars, eVars
<1>c. TypeOK
  OBVIOUS
<1>d. /\ toE' \in [Conns -> Seq(Lines)]
      /\ eEnd[c] = "closed" => toE' = toE
      /\ \A d \in Conns : d # c => toE'[d] = toE[d]
      /\ \A d \in Conns : \A n \in DOMAIN toE'[d] :
            \/ n \in DOMAIN toE[d] /\ toE'[d][n] = toE[d][n]
            \/ d = c /\ toE'[d][n] = Beat(served)
  BY <1>a, <1>b, <1>c, ToEnclaveAdds
<1>1. TypeOK' /\ NoRepeats'
  BY <1>a, <1>b, <1>d DEF NoRepeats
<1>2. Quiet' /\ OneHandshake'
  BY <1>a, <1>b, <1>d DEF Quiet, OneHandshake
<1>3. CfgIsMine'
  BY <1>a, <1>b, <1>d DEF CfgIsMine, Quiet, OneHandshake
<1>4. AckIsMine'
  <2> SUFFICES ASSUME NEW d \in Conns, eEnd'[d] = "hs",
                      NEW n \in DOMAIN toE'[d], toE'[d][n].kind = "ack"
               PROVE  Configured' /\ toE'[d][n].id = eid'
    BY DEF AckIsMine
  <2>1. CASE n \in DOMAIN toE[d] /\ toE'[d][n] = toE[d][n]
    BY <1>b, <2>1 DEF AckIsMine
  <2>2. CASE d = c /\ toE'[d][n] = Beat(served)
    BY <1>a, <2>2
  <2> QED
    BY <1>d, <2>1, <2>2
<1>5. ServesMine'
  BY <1>a, <1>b, <1>d DEF ServesMine, Quiet, OneHandshake, CfgIsMine, AckIsMine
<1>6. OnlyBeats'
  BY <1>a, <1>b, <1>d DEF OnlyBeats, Quiet, OneHandshake
<1>7. Agreement' /\ BailOnOldEnclave'
  BY <1>a, <1>b, <1>d DEF Agreement, BailOnOldEnclave, OneHandshake, AckIsMine, CfgIsMine,
       ServesMine, OnlyBeats
<1> QED
  BY <1>1, <1>2, <1>3, <1>4, <1>5, <1>6, <1>7

LEMMA SendAckWritesKeeps ==
    ASSUME IndInv, NEW c \in Conns, SendAck(c), epc' = "readEnv"
    PROVE  IndInv'
<1> USE DEF IndInv, Configured, TypeOK, BridgePCs, EnclavePCs, Handshaking, BridgeUses,
     EnclaveUses, WatchdogStates
<1>a. Ack(None) \in Lines /\ Ack(None).kind = "ack" /\ Ack(None).id = None
  BY DEF Ack, Lines
<1>b. /\ ToBridge(c, Ack(None)) /\ epc = "sendAck" /\ eEnd[c] = "hs"
      /\ UNCHANGED <<bpc, bwd, served, backlog, bEnd, toE, eid, joined, eEnd, faults>>
  BY DEF SendAck, eSide, bVars
<1>c. TypeOK
  OBVIOUS
<1>d. /\ toB' \in [Conns -> Seq(Lines)]
      /\ bEnd[c] = "closed" => toB' = toB
      /\ \A d \in Conns : d # c => toB'[d] = toB[d]
      /\ \A d \in Conns : \A n \in DOMAIN toB'[d] :
            \/ n \in DOMAIN toB[d] /\ toB'[d][n] = toB[d][n]
            \/ d = c /\ toB'[d][n] = Ack(None)
  BY <1>a, <1>b, <1>c, ToBridgeAdds
<1>1. TypeOK' /\ NoRepeats'
  BY <1>a, <1>b, <1>d DEF NoRepeats
<1>2. Quiet' /\ OneHandshake'
  BY <1>a, <1>b, <1>d DEF Quiet, OneHandshake
<1>3. CfgIsMine'
  <2> SUFFICES ASSUME NEW d \in Conns, eEnd'[d] = "hs",
                      NEW n \in DOMAIN toB'[d], toB'[d][n].kind = "cfg"
               PROVE  Configured' /\ toB'[d][n].id = eid'
    BY DEF CfgIsMine
  <2>1. CASE n \in DOMAIN toB[d] /\ toB'[d][n] = toB[d][n]
    BY <1>b, <2>1 DEF CfgIsMine
  <2>2. CASE d = c /\ toB'[d][n] = Ack(None)
    BY <1>a, <2>2
  <2> QED
    BY <1>d, <2>1, <2>2
<1>4. AckIsMine'
  BY <1>a, <1>b, <1>d DEF AckIsMine, Quiet, OneHandshake
<1>5. ServesMine'
  BY <1>a, <1>b, <1>d DEF ServesMine, Quiet, OneHandshake, CfgIsMine, AckIsMine
<1>6. OnlyBeats'
  BY <1>a, <1>b, <1>d DEF OnlyBeats, Quiet, OneHandshake
<1>7. Agreement' /\ BailOnOldEnclave'
  BY <1>a, <1>b, <1>d DEF Agreement, BailOnOldEnclave, OneHandshake, AckIsMine, CfgIsMine,
       ServesMine, OnlyBeats
<1> QED
  BY <1>1, <1>2, <1>3, <1>4, <1>5, <1>6, <1>7

LEMMA SendAckFailsKeeps ==
    ASSUME IndInv, NEW c \in Conns, SendAck(c), epc' = "dial"
    PROVE  IndInv'
<1> USE DEF IndInv, Configured, TypeOK, BridgePCs, EnclavePCs, Handshaking, BridgeUses,
     EnclaveUses, WatchdogStates
<1>a. /\ epc = "sendAck" /\ eEnd[c] = "hs" /\ CloseEnclaveEnds({c})
      /\ UNCHANGED <<bpc, bwd, served, backlog, bEnd, toB, eid, joined, faults>>
  BY DEF SendAck, bVars
<1>1. TypeOK' /\ NoRepeats'
  BY <1>a DEF NoRepeats, CloseEnclaveEnds
<1>2. Quiet' /\ OneHandshake'
  BY <1>a DEF Quiet, OneHandshake, CloseEnclaveEnds
<1>3. CfgIsMine'
  BY <1>a DEF CfgIsMine, Quiet, OneHandshake, CloseEnclaveEnds
<1>4. AckIsMine'
  BY <1>a DEF AckIsMine, Quiet, OneHandshake, CloseEnclaveEnds
<1>5. ServesMine'
  BY <1>a DEF ServesMine, Quiet, OneHandshake, CfgIsMine, AckIsMine, CloseEnclaveEnds
<1>6. OnlyBeats'
  BY <1>a DEF OnlyBeats, Quiet, OneHandshake, CloseEnclaveEnds
<1>7. Agreement' /\ BailOnOldEnclave'
  BY <1>a DEF Agreement, BailOnOldEnclave, OneHandshake, AckIsMine, CfgIsMine, ServesMine,
       OnlyBeats, CloseEnclaveEnds
<1> QED
  BY <1>1, <1>2, <1>3, <1>4, <1>5, <1>6, <1>7

LEMMA SendCfgWritesKeeps ==
    ASSUME IndInv, NEW c \in Conns, NEW i \in Ids,
           SendCfg(c), ToBridge(c, Cfg(i)), eid' = i, epc' = "readReady"
    PROVE  IndInv'
<1> USE DEF IndInv, Configured, TypeOK, BridgePCs, EnclavePCs, Handshaking, BridgeUses,
     EnclaveUses, WatchdogStates
<1>a. Cfg(i) \in Lines /\ Cfg(i).kind = "cfg" /\ Cfg(i).id = i
  BY DEF Cfg, Lines
<1>b. /\ ToBridge(c, Cfg(i)) /\ epc = "app" /\ eEnd[c] = "hs" /\ eid' = i /\ epc' = "readReady"
      /\ UNCHANGED <<bpc, bwd, served, backlog, bEnd, toE, joined, eEnd, faults>>
  BY DEF SendCfg, eSide, bVars
<1>c. TypeOK
  OBVIOUS
<1>d. /\ toB' \in [Conns -> Seq(Lines)]
      /\ bEnd[c] = "closed" => toB' = toB
      /\ \A d \in Conns : d # c => toB'[d] = toB[d]
      /\ \A d \in Conns : \A n \in DOMAIN toB'[d] :
            \/ n \in DOMAIN toB[d] /\ toB'[d][n] = toB[d][n]
            \/ d = c /\ toB'[d][n] = Cfg(i)
  BY <1>a, <1>b, <1>c, ToBridgeAdds
<1>1. TypeOK' /\ NoRepeats'
  BY <1>a, <1>b, <1>d DEF NoRepeats
<1>2. Quiet' /\ OneHandshake'
  BY <1>a, <1>b, <1>d DEF Quiet, OneHandshake
<1>3. CfgIsMine'
  <2> SUFFICES ASSUME NEW d \in Conns, eEnd'[d] = "hs",
                      NEW n \in DOMAIN toB'[d], toB'[d][n].kind = "cfg"
               PROVE  Configured' /\ toB'[d][n].id = eid'
    BY DEF CfgIsMine
  <2>1. CASE n \in DOMAIN toB[d] /\ toB'[d][n] = toB[d][n]
    BY <1>b, <2>1 DEF CfgIsMine
  <2>2. CASE d = c /\ toB'[d][n] = Cfg(i)
    BY <1>a, <1>b, <2>2
  <2> QED
    BY <1>d, <2>1, <2>2
<1>4. AckIsMine'
  BY <1>a, <1>b, <1>d DEF AckIsMine, Quiet, OneHandshake
<1>5. ServesMine'
  BY <1>a, <1>b, <1>d DEF ServesMine, Quiet, OneHandshake, CfgIsMine, AckIsMine
<1>6. OnlyBeats'
  BY <1>a, <1>b, <1>d DEF OnlyBeats, Quiet, OneHandshake
<1>7. Agreement' /\ BailOnOldEnclave'
  BY <1>a, <1>b, <1>d DEF Agreement, BailOnOldEnclave, OneHandshake, AckIsMine, CfgIsMine,
       ServesMine, OnlyBeats
<1> QED
  BY <1>1, <1>2, <1>3, <1>4, <1>5, <1>6, <1>7

LEMMA EnclaveWdBeatKeeps ==
    ASSUME IndInv, NEW c \in Conns, EnclaveWdBeat(c)
    PROVE  IndInv'
<1> USE DEF IndInv, Configured, TypeOK, BridgePCs, EnclavePCs, Handshaking, BridgeUses,
     EnclaveUses, WatchdogStates
<1>a. Beat(eid) \in Lines /\ Beat(eid).kind = "beat" /\ Beat(eid).id = eid
  BY DEF Beat, Lines
<1>b. /\ ToBridge(c, Beat(eid)) /\ bEnd[c] # "closed" /\ eEnd[c] = "wd"
      /\ UNCHANGED <<bpc, bwd, served, backlog, bEnd, toE, epc, eid, joined, eEnd, faults>>
  BY DEF EnclaveWdBeat, eSide, bVars, eVars
<1>c. TypeOK
  OBVIOUS
<1>d. /\ toB' \in [Conns -> Seq(Lines)]
      /\ bEnd[c] = "closed" => toB' = toB
      /\ \A d \in Conns : d # c => toB'[d] = toB[d]
      /\ \A d \in Conns : \A n \in DOMAIN toB'[d] :
            \/ n \in DOMAIN toB[d] /\ toB'[d][n] = toB[d][n]
            \/ d = c /\ toB'[d][n] = Beat(eid)
  BY <1>a, <1>b, <1>c, ToBridgeAdds
<1>1. TypeOK' /\ NoRepeats'
  BY <1>a, <1>b, <1>d DEF NoRepeats
<1>2. Quiet' /\ OneHandshake'
  BY <1>a, <1>b, <1>d DEF Quiet, OneHandshake
<1>3. CfgIsMine'
  <2> SUFFICES ASSUME NEW d \in Conns, eEnd'[d] = "hs",
                      NEW n \in DOMAIN toB'[d], toB'[d][n].kind = "cfg"
               PROVE  Configured' /\ toB'[d][n].id = eid'
    BY DEF CfgIsMine
  <2>1. CASE n \in DOMAIN toB[d] /\ toB'[d][n] = toB[d][n]
    BY <1>b, <2>1 DEF CfgIsMine
  <2>2. CASE d = c /\ toB'[d][n] = Beat(eid)
    BY <1>a, <2>2
  <2> QED
    BY <1>d, <2>1, <2>2
<1>4. AckIsMine'
  BY <1>a, <1>b, <1>d DEF AckIsMine, Quiet, OneHandshake
<1>5. ServesMine'
  BY <1>a, <1>b, <1>d DEF ServesMine, Quiet, OneHandshake, CfgIsMine, AckIsMine
<1>6. OnlyBeats'
  <2> SUFFICES ASSUME NEW d \in Conns, eEnd'[d] = "wd", NEW n \in DOMAIN toB'[d]
               PROVE  toB'[d][n] = Beat(eid)'
    BY DEF OnlyBeats
  <2>1. CASE n \in DOMAIN toB[d] /\ toB'[d][n] = toB[d][n]
    BY <1>b, <2>1 DEF OnlyBeats
  <2>2. CASE d = c /\ toB'[d][n] = Beat(eid)
    BY <1>a, <1>b, <2>2
  <2> QED
    BY <1>d, <2>1, <2>2
<1>7. Agreement' /\ BailOnOldEnclave'
  BY <1>a, <1>b, <1>d DEF Agreement, BailOnOldEnclave, OneHandshake, AckIsMine, CfgIsMine,
       ServesMine, OnlyBeats
<1> QED
  BY <1>1, <1>2, <1>3, <1>4, <1>5, <1>6, <1>7

LEMMA SendCfgFailsKeeps ==
    ASSUME IndInv, NEW c \in Conns, SendCfg(c), epc' = "hung"
    PROVE  IndInv'
<1> USE DEF IndInv, Configured, TypeOK, BridgePCs, EnclavePCs, Handshaking, BridgeUses,
     EnclaveUses, WatchdogStates
<1>a. /\ epc = "app" /\ eEnd[c] = "hs"
      /\ UNCHANGED <<bpc, bwd, served, backlog, bEnd, eEnd, toB, toE, eid, joined, faults>>
  BY DEF SendCfg, bVars, eSide
<1>1. TypeOK' /\ NoRepeats'
  BY <1>a DEF NoRepeats
<1>2. Quiet' /\ OneHandshake'
  BY <1>a DEF Quiet, OneHandshake
<1>3. CfgIsMine'
  BY <1>a DEF CfgIsMine, Quiet, OneHandshake
<1>4. AckIsMine'
  BY <1>a DEF AckIsMine, Quiet, OneHandshake
<1>5. ServesMine'
  BY <1>a DEF ServesMine, Quiet, OneHandshake, CfgIsMine, AckIsMine
<1>6. OnlyBeats'
  BY <1>a DEF OnlyBeats, Quiet, OneHandshake
<1>7. Agreement' /\ BailOnOldEnclave'
  BY <1>a DEF Agreement, BailOnOldEnclave, OneHandshake, AckIsMine, CfgIsMine, ServesMine,
       OnlyBeats
<1> QED
  BY <1>1, <1>2, <1>3, <1>4, <1>5, <1>6, <1>7

LEMMA AcceptKeeps ==
    ASSUME IndInv, NEW c \in Conns, Accept(c)
    PROVE  IndInv'
<1> USE DEF IndInv, Configured, TypeOK, BridgePCs, EnclavePCs, Handshaking, BridgeUses,
     EnclaveUses, WatchdogStates
<1>a. /\ backlog' \in Seq(Conns) /\ NoRepeats'
      /\ bEnd[c] = "backlog"
      /\ \A d \in Conns : Queued(d)' <=> Queued(d) /\ d # c
  BY BacklogShrinks DEF Accept
<1>1. TypeOK' /\ NoRepeats'
  BY <1>a DEF Queued, eVars, eSide, Accept
<1>2. Quiet' /\ OneHandshake'
  BY <1>a DEF Quiet, OneHandshake, eVars, eSide, Accept
<1>3. CfgIsMine'
  BY <1>a DEF CfgIsMine, Quiet, OneHandshake, eVars, eSide, Accept
<1>4. AckIsMine'
  BY <1>a DEF AckIsMine, Quiet, OneHandshake, eVars, eSide, Accept
<1>5. ServesMine'
  BY <1>a DEF ServesMine, Quiet, OneHandshake, CfgIsMine, AckIsMine, eVars, eSide, Accept
<1>6. OnlyBeats'
  BY <1>a DEF OnlyBeats, Quiet, OneHandshake, eVars, eSide, Accept
<1>7. Agreement' /\ BailOnOldEnclave'
  BY <1>a DEF Agreement, BailOnOldEnclave, OneHandshake, AckIsMine, CfgIsMine, ServesMine,
       OnlyBeats, eVars, eSide, Accept
<1> QED
  BY <1>1, <1>2, <1>3, <1>4, <1>5, <1>6, <1>7

LEMMA WdAcceptKeeps ==
    ASSUME IndInv, NEW c \in Conns, WdAccept(c)
    PROVE  IndInv'
<1> USE DEF IndInv, Configured, TypeOK, BridgePCs, EnclavePCs, Handshaking, BridgeUses,
     EnclaveUses, WatchdogStates
<1>a. /\ backlog' \in Seq(Conns) /\ NoRepeats'
      /\ bEnd[c] = "backlog"
      /\ \A d \in Conns : Queued(d)' <=> Queued(d) /\ d # c
  BY BacklogShrinks DEF WdAccept
<1>1. TypeOK' /\ NoRepeats'
  <2>1. \A d \in Conns : bEnd'[d] = "backlog" <=> \E n \in DOMAIN backlog' : backlog'[n] = d
    BY <1>a DEF Queued, WdAccept
  <2>2. bEnd' \in [Conns -> BridgeUses] /\ eEnd' \in [Conns -> EnclaveUses]
    BY DEF bVars, eVars, eSide, WdAccept
  <2>3. UNCHANGED <<bVars, toB, toE, faults>> /\ epc' \in EnclavePCs /\ UNCHANGED <<eid, joined>>
    BY DEF bVars, eVars, eSide, WdAccept
  <2> QED
    BY <1>a, <2>1, <2>2, <2>3 DEF bVars
<1>2. Quiet' /\ OneHandshake'
  BY <1>a DEF Quiet, OneHandshake, bVars, eVars, eSide, WdAccept
<1>3. CfgIsMine'
  BY <1>a DEF CfgIsMine, Quiet, OneHandshake, bVars, eVars, eSide, WdAccept
<1>4. AckIsMine'
  BY <1>a DEF AckIsMine, Quiet, OneHandshake, bVars, eVars, eSide, WdAccept
<1>5. ServesMine'
  BY <1>a DEF ServesMine, Quiet, OneHandshake, CfgIsMine, AckIsMine, bVars, eVars, eSide, WdAccept
<1>6. OnlyBeats'
  BY <1>a DEF OnlyBeats, Quiet, OneHandshake, bVars, eVars, eSide, WdAccept
<1>7. Agreement' /\ BailOnOldEnclave'
  BY <1>a DEF Agreement, BailOnOldEnclave, OneHandshake, AckIsMine, CfgIsMine, ServesMine,
       OnlyBeats, bVars, eVars, eSide, WdAccept
<1> QED
  BY <1>1, <1>2, <1>3, <1>4, <1>5, <1>6, <1>7

LEMMA DialKeeps ==
    ASSUME IndInv, NEW c \in Conns, Dial(c)
    PROVE  IndInv'
<1> USE DEF IndInv, Configured, TypeOK, BridgePCs, EnclavePCs, Handshaking, BridgeUses,
     EnclaveUses, WatchdogStates
<1>a. /\ backlog' \in Seq(Conns) /\ NoRepeats'
      /\ \A d \in Conns : Queued(d)' <=> Queued(d) \/ d = c
  BY BacklogGrows DEF Dial, Connect, Free
<1>1. TypeOK' /\ NoRepeats'
  <2>1. \A d \in Conns : bEnd'[d] = "backlog" <=> \E n \in DOMAIN backlog' : backlog'[n] = d
    <3>1. \A d \in Conns : bEnd[d] = "backlog" <=> Queued(d)
      BY DEF Queued
    <3>2. \A d \in Conns : bEnd'[d] = "backlog" <=> bEnd[d] = "backlog" \/ d = c
      BY DEF Dial, Connect, Free
    <3>3. \A d \in Conns : bEnd'[d] = "backlog" <=> Queued(d)'
      BY <1>a, <3>1, <3>2
    <3> QED
      BY <3>3 DEF Queued
  <2>2. bEnd' \in [Conns -> BridgeUses] /\ eEnd' \in [Conns -> EnclaveUses]
    BY DEF bVars, Dial, Connect, Free
  <2>3. UNCHANGED <<bVars, toB, toE, faults>> /\ epc' \in EnclavePCs /\ UNCHANGED <<eid, joined>>
    BY DEF bVars, Dial, Connect, Free
  <2> QED
    BY <1>a, <2>1, <2>2, <2>3 DEF bVars
<1>2. Quiet' /\ OneHandshake'
  BY <1>a DEF Quiet, OneHandshake, bVars, Dial, Connect, Free
<1>3. CfgIsMine'
  BY <1>a DEF CfgIsMine, Quiet, OneHandshake, bVars, Dial, Connect, Free
<1>4. AckIsMine'
  BY <1>a DEF AckIsMine, Quiet, OneHandshake, bVars, Dial, Connect, Free
<1>5. ServesMine'
  BY <1>a DEF ServesMine, Quiet, OneHandshake, CfgIsMine, AckIsMine, bVars, Dial, Connect, Free
<1>6. OnlyBeats'
  BY <1>a DEF OnlyBeats, Quiet, OneHandshake, bVars, Dial, Connect, Free
<1>7. Agreement' /\ BailOnOldEnclave'
  BY <1>a DEF Agreement, BailOnOldEnclave, OneHandshake, AckIsMine, CfgIsMine, ServesMine,
       OnlyBeats, bVars, Dial, Connect, Free
<1> QED
  BY <1>1, <1>2, <1>3, <1>4, <1>5, <1>6, <1>7

LEMMA EnclaveWdDialKeeps ==
    ASSUME IndInv, NEW c \in Conns, EnclaveWdDial(c)
    PROVE  IndInv'
<1> USE DEF IndInv, Configured, TypeOK, BridgePCs, EnclavePCs, Handshaking, BridgeUses,
     EnclaveUses, WatchdogStates
<1>a. /\ backlog' \in Seq(Conns) /\ NoRepeats'
      /\ \A d \in Conns : Queued(d)' <=> Queued(d) \/ d = c
  BY BacklogGrows DEF EnclaveWdDial, Connect, Free
<1>1. TypeOK' /\ NoRepeats'
  <2>1. \A d \in Conns : bEnd'[d] = "backlog" <=> \E n \in DOMAIN backlog' : backlog'[n] = d
    <3>1. \A d \in Conns : bEnd[d] = "backlog" <=> Queued(d)
      BY DEF Queued
    <3>2. \A d \in Conns : bEnd'[d] = "backlog" <=> bEnd[d] = "backlog" \/ d = c
      BY DEF EnclaveWdDial, Connect, Free
    <3>3. \A d \in Conns : bEnd'[d] = "backlog" <=> Queued(d)'
      BY <1>a, <3>1, <3>2
    <3> QED
      BY <3>3 DEF Queued
  <2>2. bEnd' \in [Conns -> BridgeUses] /\ eEnd' \in [Conns -> EnclaveUses]
    BY DEF bVars, eVars, EnclaveWdDial, Connect, Free
  <2>3. UNCHANGED <<bVars, toB, toE, faults>> /\ epc' \in EnclavePCs /\ UNCHANGED <<eid, joined>>
    BY DEF bVars, eVars, EnclaveWdDial, Connect, Free
  <2> QED
    BY <1>a, <2>1, <2>2, <2>3 DEF bVars
<1>2. Quiet' /\ OneHandshake'
  BY <1>a DEF Quiet, OneHandshake, bVars, eVars, EnclaveWdDial, Connect, Free
<1>3. CfgIsMine'
  BY <1>a DEF CfgIsMine, Quiet, OneHandshake, bVars, eVars, EnclaveWdDial, Connect, Free
<1>4. AckIsMine'
  BY <1>a DEF AckIsMine, Quiet, OneHandshake, bVars, eVars, EnclaveWdDial, Connect, Free
<1>5. ServesMine'
  BY <1>a DEF ServesMine, Quiet, OneHandshake, CfgIsMine, AckIsMine, bVars, eVars,
       EnclaveWdDial, Connect, Free
<1>6. OnlyBeats'
  BY <1>a DEF OnlyBeats, Quiet, OneHandshake, bVars, eVars, EnclaveWdDial, Connect, Free
<1>7. Agreement' /\ BailOnOldEnclave'
  BY <1>a DEF Agreement, BailOnOldEnclave, OneHandshake, AckIsMine, CfgIsMine, ServesMine,
       OnlyBeats, bVars, eVars, EnclaveWdDial, Connect, Free
<1> QED
  BY <1>1, <1>2, <1>3, <1>4, <1>5, <1>6, <1>7

LEMMA StartKeeps ==
    ASSUME IndInv, Start
    PROVE  IndInv'
<1> USE DEF IndInv, Configured, TypeOK, BridgePCs, EnclavePCs, Handshaking, BridgeUses,
     EnclaveUses, WatchdogStates
<1>1. TypeOK' /\ NoRepeats'
  BY DEF NoRepeats, Start, bSide, eSide, eVars
<1>2. Quiet' /\ OneHandshake'
  BY DEF Quiet, OneHandshake, Start, bSide, eSide, eVars
<1>3. CfgIsMine'
  BY DEF CfgIsMine, Quiet, OneHandshake, Start, bSide, eSide, eVars
<1>4. AckIsMine'
  BY DEF AckIsMine, Quiet, OneHandshake, Start, bSide, eSide, eVars
<1>5. ServesMine'
  BY DEF ServesMine, Quiet, OneHandshake, CfgIsMine, AckIsMine, Start, bSide, eSide, eVars
<1>6. OnlyBeats'
  BY DEF OnlyBeats, Quiet, OneHandshake, Start, bSide, eSide, eVars
<1>7. Agreement' /\ BailOnOldEnclave'
  BY DEF Agreement, BailOnOldEnclave, OneHandshake, AckIsMine, CfgIsMine, ServesMine,
       OnlyBeats, Start, bSide, eSide, eVars
<1> QED
  BY <1>1, <1>2, <1>3, <1>4, <1>5, <1>6, <1>7

LEMMA SetUpKeeps ==
    ASSUME IndInv, SetUp
    PROVE  IndInv'
<1> USE DEF IndInv, Configured, TypeOK, BridgePCs, EnclavePCs, Handshaking, BridgeUses,
     EnclaveUses, WatchdogStates
<1>1. TypeOK' /\ NoRepeats'
  BY DEF NoRepeats, SetUp, bSide, eSide, eVars
<1>2. Quiet' /\ OneHandshake'
  BY DEF Quiet, OneHandshake, SetUp, bSide, eSide, eVars
<1>3. CfgIsMine'
  BY DEF CfgIsMine, Quiet, OneHandshake, SetUp, bSide, eSide, eVars
<1>4. AckIsMine'
  BY DEF AckIsMine, Quiet, OneHandshake, SetUp, bSide, eSide, eVars
<1>5. ServesMine'
  BY DEF ServesMine, Quiet, OneHandshake, CfgIsMine, AckIsMine, SetUp, bSide, eSide, eVars
<1>6. OnlyBeats'
  BY DEF OnlyBeats, Quiet, OneHandshake, SetUp, bSide, eSide, eVars
<1>7. Agreement' /\ BailOnOldEnclave'
  BY DEF Agreement, BailOnOldEnclave, OneHandshake, AckIsMine, CfgIsMine, ServesMine,
       OnlyBeats, SetUp, bSide, eSide, eVars
<1> QED
  BY <1>1, <1>2, <1>3, <1>4, <1>5, <1>6, <1>7

LEMMA WdEndKeeps ==
    ASSUME IndInv, NEW c \in Conns, WdEnd(c)
    PROVE  IndInv'
<1> USE DEF IndInv, Configured, TypeOK, BridgePCs, EnclavePCs, Handshaking, BridgeUses,
     EnclaveUses, WatchdogStates
<1>1. TypeOK' /\ NoRepeats'
  BY DEF NoRepeats, WdEnd, bVars, eVars, eSide, CloseBridgeEnds
<1>2. Quiet' /\ OneHandshake'
  BY DEF Quiet, OneHandshake, WdEnd, bVars, eVars, eSide, CloseBridgeEnds
<1>3. CfgIsMine'
  BY DEF CfgIsMine, Quiet, OneHandshake, WdEnd, bVars, eVars, eSide, CloseBridgeEnds
<1>4. AckIsMine'
  BY DEF AckIsMine, Quiet, OneHandshake, WdEnd, bVars, eVars, eSide, CloseBridgeEnds
<1>5. ServesMine'
  BY DEF ServesMine, Quiet, OneHandshake, CfgIsMine, AckIsMine, WdEnd, bVars, eVars, eSide,
       CloseBridgeEnds
<1>6. OnlyBeats'
  BY DEF OnlyBeats, Quiet, OneHandshake, WdEnd, bVars, eVars, eSide, CloseBridgeEnds
<1>7. Agreement' /\ BailOnOldEnclave'
  BY DEF Agreement, BailOnOldEnclave, OneHandshake, AckIsMine, CfgIsMine, ServesMine,
       OnlyBeats, WdEnd, bVars, eVars, eSide, CloseBridgeEnds
<1> QED
  BY <1>1, <1>2, <1>3, <1>4, <1>5, <1>6, <1>7

LEMMA EnclaveStartKeeps ==
    ASSUME IndInv, EnclaveStart
    PROVE  IndInv'
<1> USE DEF IndInv, Configured, TypeOK, BridgePCs, EnclavePCs, Handshaking, BridgeUses,
     EnclaveUses, WatchdogStates
<1>1. TypeOK' /\ NoRepeats'
  BY DEF NoRepeats, EnclaveStart, bVars, bSide, eSide
<1>2. Quiet' /\ OneHandshake'
  BY DEF Quiet, OneHandshake, EnclaveStart, bVars, bSide, eSide
<1>3. CfgIsMine'
  BY DEF CfgIsMine, Quiet, OneHandshake, EnclaveStart, bVars, bSide, eSide
<1>4. AckIsMine'
  BY DEF AckIsMine, Quiet, OneHandshake, EnclaveStart, bVars, bSide, eSide
<1>5. ServesMine'
  BY DEF ServesMine, Quiet, OneHandshake, CfgIsMine, AckIsMine, EnclaveStart, bVars, bSide, eSide
<1>6. OnlyBeats'
  BY DEF OnlyBeats, Quiet, OneHandshake, EnclaveStart, bVars, bSide, eSide
<1>7. Agreement' /\ BailOnOldEnclave'
  BY DEF Agreement, BailOnOldEnclave, OneHandshake, AckIsMine, CfgIsMine, ServesMine,
       OnlyBeats, EnclaveStart, bVars, bSide, eSide
<1> QED
  BY <1>1, <1>2, <1>3, <1>4, <1>5, <1>6, <1>7

LEMMA ReadEnvFailsKeeps ==
    ASSUME IndInv, NEW c \in Conns, ReadEnvFails(c)
    PROVE  IndInv'
<1> USE DEF IndInv, Configured, TypeOK, BridgePCs, EnclavePCs, Handshaking, BridgeUses,
     EnclaveUses, WatchdogStates
<1>1. TypeOK' /\ NoRepeats'
  BY DEF NoRepeats, ReadEnvFails, bVars, bSide, CloseEnclaveEnds
<1>2. Quiet' /\ OneHandshake'
  BY DEF Quiet, OneHandshake, ReadEnvFails, bVars, bSide, CloseEnclaveEnds
<1>3. CfgIsMine'
  BY DEF CfgIsMine, Quiet, OneHandshake, ReadEnvFails, bVars, bSide, CloseEnclaveEnds
<1>4. AckIsMine'
  BY DEF AckIsMine, Quiet, OneHandshake, ReadEnvFails, bVars, bSide, CloseEnclaveEnds
<1>5. ServesMine'
  BY DEF ServesMine, Quiet, OneHandshake, CfgIsMine, AckIsMine, ReadEnvFails, bVars, bSide,
       CloseEnclaveEnds
<1>6. OnlyBeats'
  BY DEF OnlyBeats, Quiet, OneHandshake, ReadEnvFails, bVars, bSide, CloseEnclaveEnds
<1>7. Agreement' /\ BailOnOldEnclave'
  BY DEF Agreement, BailOnOldEnclave, OneHandshake, AckIsMine, CfgIsMine, ServesMine,
       OnlyBeats, ReadEnvFails, bVars, bSide, CloseEnclaveEnds
<1> QED
  BY <1>1, <1>2, <1>3, <1>4, <1>5, <1>6, <1>7

LEMMA EnclaveWdEndKeeps ==
    ASSUME IndInv, NEW c \in Conns, EnclaveWdEnd(c)
    PROVE  IndInv'
<1> USE DEF IndInv, Configured, TypeOK, BridgePCs, EnclavePCs, Handshaking, BridgeUses,
     EnclaveUses, WatchdogStates
<1>1. TypeOK' /\ NoRepeats'
  BY DEF NoRepeats, EnclaveWdEnd, eVars, bVars, bSide, CloseEnclaveEnds
<1>2. Quiet' /\ OneHandshake'
  BY DEF Quiet, OneHandshake, EnclaveWdEnd, eVars, bVars, bSide, CloseEnclaveEnds
<1>3. CfgIsMine'
  BY DEF CfgIsMine, Quiet, OneHandshake, EnclaveWdEnd, eVars, bVars, bSide, CloseEnclaveEnds
<1>4. AckIsMine'
  BY DEF AckIsMine, Quiet, OneHandshake, EnclaveWdEnd, eVars, bVars, bSide, CloseEnclaveEnds
<1>5. ServesMine'
  BY DEF ServesMine, Quiet, OneHandshake, CfgIsMine, AckIsMine, EnclaveWdEnd, eVars, bVars,
       bSide, CloseEnclaveEnds
<1>6. OnlyBeats'
  BY DEF OnlyBeats, Quiet, OneHandshake, EnclaveWdEnd, eVars, bVars, bSide, CloseEnclaveEnds
<1>7. Agreement' /\ BailOnOldEnclave'
  BY DEF Agreement, BailOnOldEnclave, OneHandshake, AckIsMine, CfgIsMine, ServesMine,
       OnlyBeats, EnclaveWdEnd, eVars, bVars, bSide, CloseEnclaveEnds
<1> QED
  BY <1>1, <1>2, <1>3, <1>4, <1>5, <1>6, <1>7

LEMMA ReadReadyKeeps ==
    ASSUME IndInv, NEW c \in Conns, ReadReady(c)
    PROVE  IndInv'
<1> USE DEF IndInv, Configured, TypeOK, BridgePCs, EnclavePCs, Handshaking, BridgeUses,
     EnclaveUses, WatchdogStates
<1>a. toE[c] # <<>> => Head(toE[c]).id \in Ids \cup {None}
  BY HeadTyped
<1>1. TypeOK' /\ NoRepeats'
  <2>1. joined' \in Ids \cup {None} /\ epc' \in EnclavePCs
    BY <1>a DEF ReadReady
  <2> QED
    BY <2>1 DEF NoRepeats, ReadReady, bVars, bSide, CloseEnclaveEnds
<1>2. Quiet' /\ OneHandshake'
  BY DEF Quiet, OneHandshake, ReadReady, bVars, bSide, CloseEnclaveEnds
<1>3. CfgIsMine'
  BY DEF CfgIsMine, Quiet, OneHandshake, ReadReady, bVars, bSide, CloseEnclaveEnds
<1>4. AckIsMine'
  BY DEF AckIsMine, Quiet, OneHandshake, ReadReady, bVars, bSide, CloseEnclaveEnds
<1>5. ServesMine'
  BY DEF ServesMine, Quiet, OneHandshake, CfgIsMine, AckIsMine, ReadReady, bVars, bSide,
       CloseEnclaveEnds
<1>6. OnlyBeats'
  BY DEF OnlyBeats, Quiet, OneHandshake, ReadReady, bVars, bSide, CloseEnclaveEnds
<1>7. Agreement' /\ BailOnOldEnclave'
  BY DEF Agreement, BailOnOldEnclave, OneHandshake, AckIsMine, CfgIsMine, ServesMine,
       OnlyBeats, ReadReady, bVars, bSide, CloseEnclaveEnds
<1> QED
  BY <1>1, <1>2, <1>3, <1>4, <1>5, <1>6, <1>7

LEMMA ReadAckKeeps ==
    ASSUME IndInv, NEW c \in Conns, ReadAck(c), ~BridgeGone
    PROVE  IndInv'
<1> USE DEF IndInv, Configured, TypeOK, BridgePCs, EnclavePCs, Handshaking, BridgeUses,
     EnclaveUses, WatchdogStates
<1>a. PICK q \in AfterRead(toB[c]) : toB' = [toB EXCEPT ![c] = q]
  BY DEF ReadAck
<1>b. /\ bpc = "readAck" /\ bEnd[c] = "hs" /\ toB[c] # <<>> /\ CanBeAck(Head(toB[c]))
      /\ bpc' = "sendEnv"
      /\ UNCHANGED <<bwd, served, backlog, bEnd, epc, eid, joined, eEnd, toE, faults>>
  BY DEF ReadAck, eVars, eSide
<1>c. toB[c] \in Seq(Lines)
  OBVIOUS
<1>d. /\ q \in Seq(Lines) /\ 1 \in DOMAIN toB[c] /\ Head(toB[c]) = toB[c][1]
      /\ \A n \in DOMAIN q : \E m \in DOMAIN toB[c] : q[n] = toB[c][m]
  BY <1>a, <1>b, <1>c, AfterReadIsPart
<1>e. \A d \in Conns : \A n \in DOMAIN toB'[d] : \E m \in DOMAIN toB[d] : toB'[d][n] = toB[d][m]
  BY <1>a, <1>d
<1>f. \A d \in Conns : toB[d] = <<>> => toB'[d] = <<>>
  BY <1>a, <1>b, <1>d
<1>1. TypeOK' /\ NoRepeats'
  BY <1>a, <1>b, <1>d, <1>e, <1>f DEF NoRepeats
<1>2. Quiet' /\ OneHandshake'
  BY <1>a, <1>b, <1>d, <1>e, <1>f DEF Quiet, OneHandshake
<1>3. CfgIsMine'
  BY <1>a, <1>b, <1>d, <1>e, <1>f DEF CfgIsMine, Quiet, OneHandshake
<1>4. AckIsMine'
  BY <1>a, <1>b, <1>d, <1>e, <1>f DEF AckIsMine, Quiet, OneHandshake
<1>5. ServesMine'
  BY <1>a, <1>b, <1>d, <1>e, <1>f DEF ServesMine, Quiet, OneHandshake, CfgIsMine, AckIsMine
<1>6. OnlyBeats'
  BY <1>a, <1>b, <1>d, <1>e, <1>f DEF OnlyBeats, Quiet, OneHandshake
<1>g. eEnd[c] = "wd" => eid \in Split
  <2> SUFFICES ASSUME eEnd[c] = "wd" PROVE eid \in Split
    OBVIOUS
  <2>1. Head(toB[c]) = Beat(eid)
    BY <1>d DEF OnlyBeats
  <2> QED
    BY <1>b, <2>1 DEF CanBeAck, Beat
<1>7. Agreement' /\ BailOnOldEnclave'
  BY <1>g, <1>a, <1>b, <1>d, <1>e, <1>f DEF Agreement, BailOnOldEnclave, OneHandshake, AckIsMine,
       CfgIsMine, ServesMine, OnlyBeats
<1> QED
  BY <1>1, <1>2, <1>3, <1>4, <1>5, <1>6, <1>7

LEMMA ReadCfgKeeps ==
    ASSUME IndInv, NEW c \in Conns, ReadCfg(c), ~BridgeGone
    PROVE  IndInv'
<1> USE DEF IndInv, Configured, TypeOK, BridgePCs, EnclavePCs, Handshaking, BridgeUses,
     EnclaveUses, WatchdogStates
<1>a. PICK q \in AfterRead(toB[c]) : toB' = [toB EXCEPT ![c] = q]
  BY DEF ReadCfg
<1>b. /\ bpc = "readCfg" /\ bEnd[c] = "hs" /\ toB[c] # <<>> /\ Head(toB[c]).kind = "cfg"
      /\ bpc' = "setup" /\ served' = Head(toB[c]).id
      /\ UNCHANGED <<bwd, backlog, bEnd, epc, eid, joined, eEnd, toE, faults>>
  BY DEF ReadCfg, eVars, eSide
<1>c. toB[c] \in Seq(Lines)
  OBVIOUS
<1>d. /\ q \in Seq(Lines) /\ 1 \in DOMAIN toB[c] /\ Head(toB[c]) = toB[c][1]
      /\ \A n \in DOMAIN q : \E m \in DOMAIN toB[c] : q[n] = toB[c][m]
  BY <1>a, <1>b, <1>c, AfterReadIsPart
<1>e. \A d \in Conns : \A n \in DOMAIN toB'[d] : \E m \in DOMAIN toB[d] : toB'[d][n] = toB[d][m]
  BY <1>a, <1>d
<1>f. \A d \in Conns : toB[d] = <<>> => toB'[d] = <<>>
  BY <1>a, <1>b, <1>d
<1>g. Head(toB[c]).id \in Ids \cup {None}
  BY <1>b, <1>c, HeadTyped
<1>1. TypeOK' /\ NoRepeats'
  BY <1>a, <1>b, <1>d, <1>e, <1>f, <1>g DEF NoRepeats
<1>2. Quiet' /\ OneHandshake'
  BY <1>a, <1>b, <1>d, <1>e, <1>f, <1>g DEF Quiet, OneHandshake
<1>3. CfgIsMine'
  BY <1>a, <1>b, <1>d, <1>e, <1>f, <1>g DEF CfgIsMine, Quiet, OneHandshake
<1>4. AckIsMine'
  BY <1>a, <1>b, <1>d, <1>e, <1>f, <1>g DEF AckIsMine, Quiet, OneHandshake
<1>5. ServesMine'
  BY <1>a, <1>b, <1>d, <1>e, <1>f, <1>g DEF ServesMine, Quiet, OneHandshake, CfgIsMine, AckIsMine
<1>6. OnlyBeats'
  BY <1>a, <1>b, <1>d, <1>e, <1>f, <1>g DEF OnlyBeats, Quiet, OneHandshake
<1>h. eEnd[c] # "wd"
  BY <1>b, <1>d DEF OnlyBeats, Beat
<1>7. Agreement' /\ BailOnOldEnclave'
  BY <1>h, <1>a, <1>b, <1>d, <1>e, <1>f, <1>g DEF Agreement, BailOnOldEnclave, OneHandshake,
       AckIsMine, CfgIsMine, ServesMine, OnlyBeats
<1> QED
  BY <1>1, <1>2, <1>3, <1>4, <1>5, <1>6, <1>7

LEMMA ReadEnvKeeps ==
    ASSUME IndInv, NEW c \in Conns, ReadEnv(c), ~EnclaveGone
    PROVE  IndInv'
<1> USE DEF IndInv, Configured, TypeOK, BridgePCs, EnclavePCs, Handshaking, BridgeUses,
     EnclaveUses, WatchdogStates
<1>a. PICK q \in AfterRead(toE[c]) : toE' = [toE EXCEPT ![c] = q]
  BY DEF ReadEnv
<1>b. /\ epc = "readEnv" /\ eEnd[c] = "hs" /\ toE[c] # <<>> /\ epc' = "app"
      /\ UNCHANGED <<bpc, bwd, served, backlog, bEnd, toB, eid, joined, eEnd, faults>>
  BY DEF ReadEnv, bVars, bSide
<1>c. toE[c] \in Seq(Lines)
  OBVIOUS
<1>d. /\ q \in Seq(Lines) /\ 1 \in DOMAIN toE[c] /\ Head(toE[c]) = toE[c][1]
      /\ \A n \in DOMAIN q : \E m \in DOMAIN toE[c] : q[n] = toE[c][m]
  BY <1>a, <1>b, <1>c, AfterReadIsPart
<1>e. \A d \in Conns : \A n \in DOMAIN toE'[d] : \E m \in DOMAIN toE[d] : toE'[d][n] = toE[d][m]
  BY <1>a, <1>d
<1>f. \A d \in Conns : toE[d] = <<>> => toE'[d] = <<>>
  BY <1>a, <1>b, <1>d
<1>1. TypeOK' /\ NoRepeats'
  BY <1>a, <1>b, <1>d, <1>e, <1>f DEF NoRepeats
<1>2. Quiet' /\ OneHandshake'
  BY <1>a, <1>b, <1>d, <1>e, <1>f DEF Quiet, OneHandshake
<1>3. CfgIsMine'
  BY <1>a, <1>b, <1>d, <1>e, <1>f DEF CfgIsMine, Quiet, OneHandshake
<1>4. AckIsMine'
  BY <1>a, <1>b, <1>d, <1>e, <1>f DEF AckIsMine, Quiet, OneHandshake
<1>5. ServesMine'
  BY <1>a, <1>b, <1>d, <1>e, <1>f DEF ServesMine, Quiet, OneHandshake, CfgIsMine, AckIsMine
<1>6. OnlyBeats'
  BY <1>a, <1>b, <1>d, <1>e, <1>f DEF OnlyBeats, Quiet, OneHandshake
<1>7. Agreement' /\ BailOnOldEnclave'
  BY <1>a, <1>b, <1>d, <1>e, <1>f DEF Agreement, BailOnOldEnclave, OneHandshake, AckIsMine,
       CfgIsMine, ServesMine, OnlyBeats
<1> QED
  BY <1>1, <1>2, <1>3, <1>4, <1>5, <1>6, <1>7

LEMMA WdReadKeeps ==
    ASSUME IndInv, NEW c \in Conns, WdRead(c)
    PROVE  IndInv'
<1> USE DEF IndInv, Configured, TypeOK, BridgePCs, EnclavePCs, Handshaking, BridgeUses,
     EnclaveUses, WatchdogStates
<1>a. PICK q \in AfterRead(toB[c]) : toB' = [toB EXCEPT ![c] = q]
  BY DEF WdRead
<1>b. /\ bEnd[c] = "wd" /\ toB[c] # <<>>
      /\ \E u \in {"wd", "stuck"} : bEnd' = [bEnd EXCEPT ![c] = u]
      /\ bwd' \in {bwd, "running"} /\ (bwd' # bwd => bwd = "quiet")
      /\ UNCHANGED <<bpc, served, backlog, epc, eid, joined, eEnd, toE, faults>>
  BY DEF WdRead, bVars, eVars, eSide
<1>c. toB[c] \in Seq(Lines)
  OBVIOUS
<1>d. /\ q \in Seq(Lines) /\ 1 \in DOMAIN toB[c] /\ Head(toB[c]) = toB[c][1]
      /\ \A n \in DOMAIN q : \E m \in DOMAIN toB[c] : q[n] = toB[c][m]
  BY <1>a, <1>b, <1>c, AfterReadIsPart
<1>e. \A d \in Conns : \A n \in DOMAIN toB'[d] : \E m \in DOMAIN toB[d] : toB'[d][n] = toB[d][m]
  BY <1>a, <1>d
<1>f. \A d \in Conns : toB[d] = <<>> => toB'[d] = <<>>
  BY <1>a, <1>b, <1>d
<1>1. TypeOK' /\ NoRepeats'
  BY <1>a, <1>b, <1>d, <1>e, <1>f DEF NoRepeats
<1>2. Quiet' /\ OneHandshake'
  BY <1>a, <1>b, <1>d, <1>e, <1>f DEF Quiet, OneHandshake
<1>3. CfgIsMine'
  BY <1>a, <1>b, <1>d, <1>e, <1>f DEF CfgIsMine, Quiet, OneHandshake
<1>4. AckIsMine'
  BY <1>a, <1>b, <1>d, <1>e, <1>f DEF AckIsMine, Quiet, OneHandshake
<1>5. ServesMine'
  BY <1>a, <1>b, <1>d, <1>e, <1>f DEF ServesMine, Quiet, OneHandshake, CfgIsMine, AckIsMine
<1>6. OnlyBeats'
  BY <1>a, <1>b, <1>d, <1>e, <1>f DEF OnlyBeats, Quiet, OneHandshake
<1>7. Agreement' /\ BailOnOldEnclave'
  BY <1>a, <1>b, <1>d, <1>e, <1>f DEF Agreement, BailOnOldEnclave, OneHandshake, AckIsMine,
       CfgIsMine, ServesMine, OnlyBeats
<1> QED
  BY <1>1, <1>2, <1>3, <1>4, <1>5, <1>6, <1>7

LEMMA EnclaveWdReadKeeps ==
    ASSUME IndInv, NEW c \in Conns, EnclaveWdRead(c), ~EnclaveGone
    PROVE  IndInv'
<1> USE DEF IndInv, Configured, TypeOK, BridgePCs, EnclavePCs, Handshaking, BridgeUses,
     EnclaveUses, WatchdogStates
<1>a. PICK q \in AfterRead(toE[c]) : toE' = [toE EXCEPT ![c] = q]
  BY DEF EnclaveWdRead
<1>b. /\ eEnd[c] = "wd" /\ toE[c] # <<>>
      /\ UNCHANGED <<bpc, bwd, served, backlog, bEnd, toB, epc, eid, joined, eEnd, faults>>
  BY DEF EnclaveWdRead, bVars, eVars, bSide
<1>c. toE[c] \in Seq(Lines)
  OBVIOUS
<1>d. /\ q \in Seq(Lines) /\ 1 \in DOMAIN toE[c] /\ Head(toE[c]) = toE[c][1]
      /\ \A n \in DOMAIN q : \E m \in DOMAIN toE[c] : q[n] = toE[c][m]
  BY <1>a, <1>b, <1>c, AfterReadIsPart
<1>e. \A d \in Conns : \A n \in DOMAIN toE'[d] : \E m \in DOMAIN toE[d] : toE'[d][n] = toE[d][m]
  BY <1>a, <1>d
<1>f. \A d \in Conns : toE[d] = <<>> => toE'[d] = <<>>
  BY <1>a, <1>b, <1>d
<1>1. TypeOK' /\ NoRepeats'
  BY <1>a, <1>b, <1>d, <1>e, <1>f DEF NoRepeats
<1>2. Quiet' /\ OneHandshake'
  BY <1>a, <1>b, <1>d, <1>e, <1>f DEF Quiet, OneHandshake
<1>3. CfgIsMine'
  BY <1>a, <1>b, <1>d, <1>e, <1>f DEF CfgIsMine, Quiet, OneHandshake
<1>4. AckIsMine'
  BY <1>a, <1>b, <1>d, <1>e, <1>f DEF AckIsMine, Quiet, OneHandshake
<1>5. ServesMine'
  BY <1>a, <1>b, <1>d, <1>e, <1>f DEF ServesMine, Quiet, OneHandshake, CfgIsMine, AckIsMine
<1>6. OnlyBeats'
  BY <1>a, <1>b, <1>d, <1>e, <1>f DEF OnlyBeats, Quiet, OneHandshake
<1>7. Agreement' /\ BailOnOldEnclave'
  BY <1>a, <1>b, <1>d, <1>e, <1>f DEF Agreement, BailOnOldEnclave, OneHandshake, AckIsMine,
       CfgIsMine, ServesMine, OnlyBeats
<1> QED
  BY <1>1, <1>2, <1>3, <1>4, <1>5, <1>6, <1>7

LEMMA BridgeGoneKeeps ==
    ASSUME IndInv, BridgeGone, faults' \in 0..MaxFaults
    PROVE  IndInv'
<1> USE DEF IndInv, Configured, TypeOK, BridgePCs, EnclavePCs, Handshaking, BridgeUses,
     EnclaveUses, WatchdogStates
<1>1. TypeOK' /\ NoRepeats'
  BY DEF NoRepeats, BridgeGone, CloseBridgeEnds, eVars, eSide
<1>2. Quiet' /\ OneHandshake'
  BY DEF Quiet, OneHandshake, BridgeGone, CloseBridgeEnds, eVars, eSide
<1>3. CfgIsMine'
  BY DEF CfgIsMine, Quiet, OneHandshake, BridgeGone, CloseBridgeEnds, eVars, eSide
<1>4. AckIsMine'
  BY DEF AckIsMine, Quiet, OneHandshake, BridgeGone, CloseBridgeEnds, eVars, eSide
<1>5. ServesMine'
  BY DEF ServesMine, Quiet, OneHandshake, CfgIsMine, AckIsMine, BridgeGone, CloseBridgeEnds,
       eVars, eSide
<1>6. OnlyBeats'
  BY DEF OnlyBeats, Quiet, OneHandshake, BridgeGone, CloseBridgeEnds, eVars, eSide
<1>7. Agreement' /\ BailOnOldEnclave'
  BY DEF Agreement, BailOnOldEnclave, OneHandshake, AckIsMine, CfgIsMine, ServesMine,
       OnlyBeats, BridgeGone, CloseBridgeEnds, eVars, eSide
<1> QED
  BY <1>1, <1>2, <1>3, <1>4, <1>5, <1>6, <1>7

LEMMA EnclaveGoneKeeps ==
    ASSUME IndInv, EnclaveGone, faults' \in 0..MaxFaults
    PROVE  IndInv'
<1> USE DEF IndInv, Configured, TypeOK, BridgePCs, EnclavePCs, Handshaking, BridgeUses,
     EnclaveUses, WatchdogStates
<1>1. TypeOK' /\ NoRepeats'
  BY DEF NoRepeats, EnclaveGone, CloseEnclaveEnds, bVars, bSide
<1>2. Quiet' /\ OneHandshake'
  BY DEF Quiet, OneHandshake, EnclaveGone, CloseEnclaveEnds, bVars, bSide
<1>3. CfgIsMine'
  BY DEF CfgIsMine, Quiet, OneHandshake, EnclaveGone, CloseEnclaveEnds, bVars, bSide
<1>4. AckIsMine'
  BY DEF AckIsMine, Quiet, OneHandshake, EnclaveGone, CloseEnclaveEnds, bVars, bSide
<1>5. ServesMine'
  BY DEF ServesMine, Quiet, OneHandshake, CfgIsMine, AckIsMine, EnclaveGone, CloseEnclaveEnds,
       bVars, bSide
<1>6. OnlyBeats'
  BY DEF OnlyBeats, Quiet, OneHandshake, EnclaveGone, CloseEnclaveEnds, bVars, bSide
<1>7. Agreement' /\ BailOnOldEnclave'
  BY DEF Agreement, BailOnOldEnclave, OneHandshake, AckIsMine, CfgIsMine, ServesMine,
       OnlyBeats, EnclaveGone, CloseEnclaveEnds, bVars, bSide
<1> QED
  BY <1>1, <1>2, <1>3, <1>4, <1>5, <1>6, <1>7

LEMMA WdStopKeeps ==
    ASSUME IndInv, NEW S \in SUBSET Conns, WdStop(S), faults' \in 0..MaxFaults, \A d \in S : bEnd[d] = "stuck"
    PROVE  IndInv'
<1> USE DEF IndInv, Configured, TypeOK, BridgePCs, EnclavePCs, Handshaking, BridgeUses,
     EnclaveUses, WatchdogStates
<1>1. TypeOK' /\ NoRepeats'
  BY DEF NoRepeats, WdStop, CloseBridgeEnds, eVars, eSide
<1>2. Quiet' /\ OneHandshake'
  BY DEF Quiet, OneHandshake, WdStop, CloseBridgeEnds, eVars, eSide
<1>3. CfgIsMine'
  BY DEF CfgIsMine, Quiet, OneHandshake, WdStop, CloseBridgeEnds, eVars, eSide
<1>4. AckIsMine'
  BY DEF AckIsMine, Quiet, OneHandshake, WdStop, CloseBridgeEnds, eVars, eSide
<1>5. ServesMine'
  BY DEF ServesMine, Quiet, OneHandshake, CfgIsMine, AckIsMine, WdStop, CloseBridgeEnds,
       eVars, eSide
<1>6. OnlyBeats'
  BY DEF OnlyBeats, Quiet, OneHandshake, WdStop, CloseBridgeEnds, eVars, eSide
<1>7. Agreement' /\ BailOnOldEnclave'
  BY DEF Agreement, BailOnOldEnclave, OneHandshake, AckIsMine, CfgIsMine, ServesMine,
       OnlyBeats, WdStop, CloseBridgeEnds, eVars, eSide
<1> QED
  BY <1>1, <1>2, <1>3, <1>4, <1>5, <1>6, <1>7

LEMMA StrandKeeps ==
    ASSUME IndInv, Strand, UNCHANGED faults
    PROVE  IndInv'
<1> USE DEF IndInv, Configured, TypeOK, BridgePCs, EnclavePCs, Handshaking, BridgeUses,
     EnclaveUses, WatchdogStates
<1>1. TypeOK' /\ NoRepeats'
  BY DEF NoRepeats, Strand, CloseBridgeEnds, eVars, eSide
<1>2. Quiet' /\ OneHandshake'
  BY DEF Quiet, OneHandshake, Strand, CloseBridgeEnds, eVars, eSide
<1>3. CfgIsMine'
  BY DEF CfgIsMine, Quiet, OneHandshake, Strand, CloseBridgeEnds, eVars, eSide
<1>4. AckIsMine'
  BY DEF AckIsMine, Quiet, OneHandshake, Strand, CloseBridgeEnds, eVars, eSide
<1>5. ServesMine'
  BY DEF ServesMine, Quiet, OneHandshake, CfgIsMine, AckIsMine, Strand, CloseBridgeEnds, eVars, eSide
<1>6. OnlyBeats'
  BY DEF OnlyBeats, Quiet, OneHandshake, Strand, CloseBridgeEnds, eVars, eSide
<1>7. Agreement' /\ BailOnOldEnclave'
  BY DEF Agreement, BailOnOldEnclave, OneHandshake, AckIsMine, CfgIsMine, ServesMine,
       OnlyBeats, Strand, CloseBridgeEnds, eVars, eSide
<1> QED
  BY <1>1, <1>2, <1>3, <1>4, <1>5, <1>6, <1>7

LEMMA WdQuietKeeps ==
    ASSUME IndInv, WdQuiet
    PROVE  IndInv'
<1> USE DEF IndInv, Configured, TypeOK, BridgePCs, EnclavePCs, Handshaking, BridgeUses,
     EnclaveUses, WatchdogStates
<1>1. TypeOK' /\ NoRepeats'
  BY DEF NoRepeats, WdQuiet, eVars, bSide, eSide
<1>2. Quiet' /\ OneHandshake'
  BY DEF Quiet, OneHandshake, WdQuiet, eVars, bSide, eSide
<1>3. CfgIsMine'
  BY DEF CfgIsMine, Quiet, OneHandshake, WdQuiet, eVars, bSide, eSide
<1>4. AckIsMine'
  BY DEF AckIsMine, Quiet, OneHandshake, WdQuiet, eVars, bSide, eSide
<1>5. ServesMine'
  BY DEF ServesMine, Quiet, OneHandshake, CfgIsMine, AckIsMine, WdQuiet, eVars, bSide, eSide
<1>6. OnlyBeats'
  BY DEF OnlyBeats, Quiet, OneHandshake, WdQuiet, eVars, bSide, eSide
<1>7. Agreement' /\ BailOnOldEnclave'
  BY DEF Agreement, BailOnOldEnclave, OneHandshake, AckIsMine, CfgIsMine, ServesMine,
       OnlyBeats, WdQuiet, eVars, bSide, eSide
<1> QED
  BY <1>1, <1>2, <1>3, <1>4, <1>5, <1>6, <1>7

-----------------------------------------------------------------------------
LEMMA InitInductive == Init => IndInv
<1> SUFFICES ASSUME Init PROVE IndInv
  OBVIOUS
<1>1. <<>> \in Seq(Lines) /\ <<>> \in Seq(Conns) /\ DOMAIN <<>> = {}
  OBVIOUS
<1>2. TypeOK
  BY <1>1, BoundsAssumption DEF Init, TypeOK, BridgePCs, EnclavePCs, BridgeUses, EnclaveUses,
     WatchdogStates
<1>3. NoRepeats /\ Quiet /\ OneHandshake /\ CfgIsMine /\ AckIsMine /\ OnlyBeats
  BY <1>1 DEF Init, NoRepeats, Quiet, OneHandshake, CfgIsMine, AckIsMine, OnlyBeats
<1>4. ServesMine /\ Agreement /\ BailOnOldEnclave
  BY DEF Init, ServesMine, Agreement, BailOnOldEnclave, Handshaking
<1> QED
  BY <1>2, <1>3, <1>4 DEF IndInv

LEMMA BridgeStepKeeps == ASSUME IndInv, NEW c \in Conns, BridgeStep(c) PROVE IndInv'
<1>1. BridgeGone /\ faults' = faults => IndInv'
  BY BridgeGoneKeeps DEF IndInv, TypeOK
<1>8. Strand /\ faults' = faults => IndInv'
  BY StrandKeeps
<1>2. CASE Start \/ Accept(c) \/ SetUp
  BY <1>2, StartKeeps, AcceptKeeps, SetUpKeeps
<1>3. CASE ReadAck(c)
  BY <1>1, <1>3, ReadAckKeeps DEF ReadAck
<1>4. CASE BridgeReadFails(c) \/ Exit
  BY <1>1, <1>4, <1>8 DEF BridgeReadFails, Exit
<1>5. CASE SendEnv(c)
  BY <1>1, <1>5, SendEnvKeeps DEF SendEnv
<1>6. CASE ReadCfg(c)
  BY <1>1, <1>6, ReadCfgKeeps DEF ReadCfg
<1>7. CASE SendReady(c)
  BY <1>1, <1>7, <1>8, SendReadyKeeps DEF SendReady
<1> QED
  BY <1>2, <1>3, <1>4, <1>5, <1>6, <1>7, BridgeStep(c) DEF BridgeStep

LEMMA EnclaveStepKeeps == ASSUME IndInv, NEW c \in Conns, EnclaveStep(c) PROVE IndInv'
<1>1. EnclaveGone /\ faults' = faults => IndInv'
  BY EnclaveGoneKeeps DEF IndInv, TypeOK
<1>2. CASE EnclaveStart \/ Dial(c) \/ ReadEnvFails(c) \/ ReadReady(c)
  BY <1>2, EnclaveStartKeeps, DialKeeps, ReadEnvFailsKeeps, ReadReadyKeeps
<1>3. CASE SendAck(c)
  BY <1>3, SendAckWritesKeeps, SendAckFailsKeeps DEF SendAck
<1>4. CASE ReadEnv(c)
  BY <1>1, <1>4, ReadEnvKeeps DEF ReadEnv
<1>5. CASE SendCfg(c)
  BY <1>5, SendCfgWritesKeeps, SendCfgFailsKeeps DEF SendCfg
<1>6. CASE Fail
  BY <1>1, <1>6 DEF Fail
<1> QED
  BY <1>2, <1>3, <1>4, <1>5, <1>6, EnclaveStep(c) DEF EnclaveStep

LEMMA WatchdogsKeep ==
    ASSUME IndInv, NEW c \in Conns,
           \/ WdAccept(c) \/ WdHandle(c) \/ WdBeat(c) \/ WdMismatch(c) \/ WdTimeout
           \/ EnclaveWdHandle(c) \/ EnclaveWdBeat(c)
    PROVE  IndInv'
<1>1. CASE WdAccept(c) \/ WdHandle(c) \/ WdBeat(c)
  BY <1>1, WdAcceptKeeps, WdReadKeeps, WdEndKeeps, WdBeatKeeps DEF WdHandle
<1>2. CASE WdMismatch(c)
  BY <1>2, WdStopKeeps DEF WdMismatch, IndInv, TypeOK
<1>3. CASE WdTimeout
  BY <1>3, WdStopKeeps DEF WdTimeout, IndInv, TypeOK
<1>4. CASE EnclaveWdDial(c) \/ EnclaveWdEnd(c) \/ EnclaveWdBeat(c)
  BY <1>4, EnclaveWdDialKeeps, EnclaveWdEndKeeps, EnclaveWdBeatKeeps
<1>5. CASE EnclaveWdRead(c)
  BY <1>5, EnclaveWdReadKeeps, EnclaveGoneKeeps DEF EnclaveWdRead, IndInv, TypeOK
<1> QED
  BY <1>1, <1>2, <1>3, <1>4, <1>5 DEF EnclaveWdHandle

LEMMA NextKeeps == IndInv /\ [Next]_vars => IndInv'
<1> SUFFICES ASSUME IndInv, [Next]_vars PROVE IndInv'
  OBVIOUS
<1>1. ASSUME NEW c \in Conns, BridgeStep(c) \/ EnclaveStep(c) PROVE IndInv'
  BY <1>1, BridgeStepKeeps, EnclaveStepKeeps
<1>2. ASSUME NEW c \in Conns,
             \/ WdAccept(c) \/ WdHandle(c) \/ WdBeat(c) \/ WdMismatch(c)
             \/ EnclaveWdHandle(c) \/ EnclaveWdBeat(c)
      PROVE  IndInv'
  BY <1>2, WatchdogsKeep
<1>3. CASE WdTimeout \/ WdQuiet
  BY <1>3, WdStopKeeps, WdQuietKeeps DEF WdTimeout, IndInv, TypeOK
<1>4. CASE EnclaveWdTimeout
  BY <1>4, EnclaveGoneKeeps DEF EnclaveWdTimeout, IndInv, TypeOK
<1>5. CASE Fault
  <2>1. faults' \in 0..MaxFaults
    BY <1>5, BoundsAssumption DEF Fault, IndInv, TypeOK
  <2> QED
    BY <1>5, <2>1, BridgeGoneKeeps, EnclaveGoneKeeps, WdStopKeeps DEF Fault
<1>6. CASE UNCHANGED vars
  BY <1>6 DEF vars, bVars, eVars, bSide, eSide, IndInv, TypeOK, NoRepeats, Quiet, OneHandshake,
              Configured, CfgIsMine, AckIsMine, ServesMine, OnlyBeats, Agreement,
              BailOnOldEnclave
<1> QED
  BY <1>1, <1>2, <1>3, <1>4, <1>5, <1>6 DEF Next, WdVerdict

LEMMA Invariance == Spec => []IndInv
BY InitInductive, NextKeeps, PTL DEF Spec

\* The state of the two processes and of their connections is of its type; in
\* particular the listener's queue holds just the connections nobody accepted.
THEOREM Typed == Spec => []TypeOK
BY Invariance, PTL DEF IndInv

\* An enclave that believes its bridge is set up was set up by a bridge that
\* runs with its configuration (bridge.go 113-136, enclave_setup.go 123-134).
THEOREM Agrees == Spec => []Agreement
BY Invariance, PTL DEF IndInv

\* A bridge makes no handshake with the watchdog of an old enclave (the comment
\* at bridge.go 69).
THEOREM Bails == Spec => []BailOnOldEnclave
BY Invariance, PTL DEF IndInv

-----------------------------------------------------------------------------
\* NoReadAhead and NoFalseMismatch need to know more: that a handshake goes by
\* turns (Lockstep), and that a bridge that serves the enclave that is there
\* has no line of an older one left to read (Match).  That needs the order of
\* the listener's queue: an enclave in its handshake is the last to have
\* dialled (Last), so that nothing waits behind the connection that the bridge
\* takes for its handshake (Alone), and what comes later comes from the
\* enclave it serves.
Met(c) == bEnd[c] = "hs" /\ eEnd[c] = "hs"

\* Who has an ID, and when there is a watchdog to have connections.
Named ==
    /\ epc \in {"down", "dial", "sendAck", "readEnv", "app", "hung"} => eid = None
    /\ bpc \in {"setup", "sendReady", "watch", "stranded"} <=> served # None
    /\ bwd # "off" => bpc \in {"sendReady", "watch", "stranded"}
    /\ bwd = "off" => \A c \in Conns : bEnd[c] \notin {"wd", "stuck"}
    /\ \A c \in Conns : \A n \in DOMAIN toB[c] : toB[c][n].kind = "cfg" => toB[c][n].id # None

\* A configuration whose enclave is gone is not that of the one that came.
FreshCfg ==
    \A c \in Conns : eEnd[c] # "hs" =>
        \A n \in DOMAIN toB[c] : toB[c][n].kind = "cfg" => toB[c][n].id # eid

\* A handshake that nobody has accepted, or that a watchdog has.
Greeted ==
    \A c \in Conns : bEnd[c] = "backlog" /\ eEnd[c] = "hs" =>
        /\ toE[c] = <<>>
        /\ \/ epc = "sendAck" /\ toB[c] = <<>>
           \/ epc = "readEnv" /\ toB[c] = <<Ack(None)>>
Astray ==
    \A c \in Conns : bEnd[c] \in {"wd", "stuck"} /\ eEnd[c] = "hs" =>
        epc \in {"sendAck", "readEnv"} /\ \A n \in DOMAIN toE[c] : toE[c][n].kind # "env"

Last == \A n \in DOMAIN backlog : eEnd[backlog[n]] = "hs" => n = Len(backlog)
Alone ==
    \A c \in Conns : Met(c) =>
        backlog = <<>> /\ \A d \in Conns : bEnd[d] \notin {"wd", "stuck"}

Turn(c, b, e, inB, inE) == bpc \in b /\ epc = e /\ toB[c] = inB /\ toE[c] = inE
Lockstep ==
    \A c \in Conns : Met(c) =>
        \/ Turn(c, {"readAck"}, "sendAck", <<>>, <<>>)
        \/ Turn(c, {"readAck"}, "readEnv", <<Ack(None)>>, <<>>)
        \/ Turn(c, {"sendEnv"}, "readEnv", <<>>, <<>>)
        \/ Turn(c, {"readCfg"}, "readEnv", <<>>, <<Env>>)
        \/ Turn(c, {"readCfg"}, "app", <<>>, <<>>)
        \/ Turn(c, {"readCfg"}, "readReady", <<Cfg(eid)>>, <<>>)
        \/ Turn(c, {"setup", "sendReady"}, "readReady", <<>>, <<>>)

Match ==
    served = eid /\ eid # None /\ eid \notin Split =>
        \A c \in Conns : bEnd[c] \in {"backlog", "wd", "stuck"} =>
            /\ bEnd[c] # "stuck" /\ eEnd[c] # "hs"
            /\ \A n \in DOMAIN toB[c] : toB[c][n] = Beat(eid)

Extra == Named /\ FreshCfg /\ Greeted /\ Astray /\ Last /\ Alone /\ Lockstep /\ Match

LEMMA AfterReadOfOne ==
    ASSUME NEW x, NEW r \in AfterRead(<<x>>)
    PROVE  r = <<>>
<1>1. Len(<<x>>) = 1 /\ SubSeq(<<x>>, 2, 1) = <<>>
  BY SubSeqEmpty
<1> QED
  BY <1>1 DEF AfterRead

LEMMA LastStays ==
    ASSUME IndInv, Last, backlog' = backlog, \A d \in Conns : eEnd'[d] = "hs" => eEnd[d] = "hs"
    PROVE  Last'
<1>1. \A n \in DOMAIN backlog : backlog[n] \in Conns
  BY DEF IndInv, TypeOK
<1> QED
  BY <1>1 DEF Last

LEMMA LastShrinks ==
    ASSUME IndInv, Last, NEW c \in Conns, backlog # <<>>, c = Head(backlog),
           backlog' = Tail(backlog), eEnd' = eEnd
    PROVE  bEnd[c] = "backlog" /\ (eEnd[c] = "hs" => backlog' = <<>>) /\ Last'
<1>1. /\ Len(backlog) \in Nat /\ DOMAIN backlog = 1..Len(backlog) /\ Len(backlog) > 0
      /\ backlog[1] = c
      /\ backlog' \in Seq(Conns) /\ Len(backlog') = Len(backlog) - 1
      /\ DOMAIN backlog' = 1..(Len(backlog) - 1)
      /\ \A i \in 1..(Len(backlog) - 1) : backlog'[i] = backlog[i + 1]
  BY HeadTailProperties, LenProperties DEF IndInv, TypeOK
<1>2. bEnd[c] = "backlog"
  <2>1. backlog[1] = c /\ 1 \in DOMAIN backlog
    BY <1>1
  <2> QED
    BY <2>1 DEF IndInv, TypeOK
<1>3. eEnd[c] = "hs" => backlog' = <<>>
  BY <1>1, EmptySeq DEF Last
<1>4. ASSUME NEW n \in DOMAIN backlog', eEnd'[backlog'[n]] = "hs" PROVE n = Len(backlog')
  <2>1. n + 1 \in DOMAIN backlog /\ backlog[n + 1] = backlog'[n]
    BY <1>1
  <2>2. n + 1 = Len(backlog)
    BY <1>4, <2>1 DEF Last
  <2> QED
    BY <1>1, <2>2
<1> QED
  BY <1>2, <1>3, <1>4 DEF Last

LEMMA LastGrows ==
    ASSUME IndInv, NEW c \in Conns, backlog' = Append(backlog, c), bEnd[c] = "closed",
           \A d \in Conns : eEnd[d] # "hs",
           \A d \in Conns : d # c => eEnd'[d] = eEnd[d]
    PROVE  Last'
<1>1. /\ Len(backlog) \in Nat /\ DOMAIN backlog = 1..Len(backlog) /\ backlog \in Seq(Conns)
      /\ Len(backlog') = Len(backlog) + 1 /\ DOMAIN backlog' = 1..(Len(backlog) + 1)
      /\ \A i \in 1..Len(backlog) : backlog'[i] = backlog[i]
  BY AppendProperties, LenProperties DEF IndInv, TypeOK
<1>2. ASSUME NEW n \in DOMAIN backlog', n # Len(backlog') PROVE eEnd'[backlog'[n]] # "hs"
  <2>1. n \in DOMAIN backlog /\ backlog'[n] = backlog[n] /\ backlog[n] \in Conns
    BY <1>1, <1>2
  <2>2. backlog[n] # c
    BY <2>1 DEF IndInv, TypeOK
  <2> QED
    BY <2>1, <2>2
<1> QED
  BY <1>2 DEF Last

LEMMA StartExtra ==
    ASSUME IndInv, IndInv', Extra, Start
    PROVE  Extra'
<1>a. /\ bpc = "down" /\ bpc' = "accept"
      /\ UNCHANGED <<bwd, served, backlog, bEnd, eEnd, toB, toE, epc, eid>>
  BY DEF Start, eVars, bSide, eSide
<1>1. Named' /\ FreshCfg' /\ Greeted' /\ Astray' /\ Last'
  BY <1>a DEF Extra, Named, FreshCfg, Greeted, Astray, Last
<1>2. Alone' /\ Lockstep' /\ Match'
  BY <1>a DEF Extra, Alone, Met, Lockstep, Turn, Match, Named
<1> QED
  BY <1>1, <1>2 DEF Extra

LEMMA SetUpExtra ==
    ASSUME IndInv, IndInv', Extra, SetUp
    PROVE  Extra'
<1>a. /\ bpc = "setup" /\ bpc' = "sendReady" /\ bwd' = "running"
      /\ UNCHANGED <<served, backlog, bEnd, eEnd, toB, toE, epc, eid>>
  BY DEF SetUp, eVars, bSide, eSide
<1>1. Named' /\ FreshCfg' /\ Greeted' /\ Astray' /\ Last'
  BY <1>a DEF Extra, Named, FreshCfg, Greeted, Astray, Last
<1>2. Alone' /\ Lockstep' /\ Match'
  BY <1>a DEF Extra, Alone, Met, Lockstep, Turn, Match, Named
<1> QED
  BY <1>1, <1>2 DEF Extra

LEMMA EnclaveStartExtra ==
    ASSUME IndInv, IndInv', Extra, EnclaveStart
    PROVE  Extra'
<1>a. /\ epc = "down" /\ epc' = "dial"
      /\ UNCHANGED <<bpc, bwd, served, backlog, bEnd, eEnd, toB, toE, eid>>
  BY DEF EnclaveStart, bVars, bSide, eSide
<1>1. Named' /\ FreshCfg' /\ Greeted' /\ Astray' /\ Last'
  BY <1>a DEF Extra, Named, FreshCfg, Greeted, Astray, Last
<1>2. Alone' /\ Lockstep' /\ Match'
  BY <1>a DEF Extra, Alone, Met, Lockstep, Turn, Match, Named
<1> QED
  BY <1>1, <1>2 DEF Extra

LEMMA SendCfgFailsExtra ==
    ASSUME IndInv, IndInv', Extra, NEW c \in Conns, SendCfg(c), epc' = "hung"
    PROVE  Extra'
<1>a. /\ epc = "app" /\ eEnd[c] = "hs" /\ bEnd[c] = "closed"
      /\ UNCHANGED <<bpc, bwd, served, backlog, bEnd, eEnd, toB, toE, eid>>
  BY DEF SendCfg, bVars, eSide
<1>1. Named' /\ FreshCfg' /\ Greeted' /\ Astray' /\ Last'
  BY <1>a DEF Extra, Named, FreshCfg, Greeted, Astray, Last
<1>2. Alone' /\ Lockstep' /\ Match'
  BY <1>a DEF Extra, Alone, Met, Lockstep, Turn, IndInv, TypeOK, Quiet, OneHandshake, Match,
     Named
<1> QED
  BY <1>1, <1>2 DEF Extra

LEMMA BridgeGoneExtra ==
    ASSUME IndInv, IndInv', Extra, BridgeGone
    PROVE  Extra'
<1>a. /\ bpc' = "down" /\ bwd' = "off" /\ served' = None /\ backlog' = <<>>
      /\ (\A c \in Conns : bEnd'[c] = "closed" /\ toB'[c] = <<>>)
      /\ UNCHANGED <<eEnd, toE, epc, eid>>
  BY DEF BridgeGone, CloseBridgeEnds, eVars, eSide
<1>1. Named' /\ FreshCfg' /\ Greeted' /\ Astray' /\ Last'
  BY <1>a DEF Extra, Named, FreshCfg, Greeted, Astray, Last
<1>2. Alone' /\ Lockstep' /\ Match'
  BY <1>a DEF Extra, Alone, Met, Lockstep, Turn, Match, Named
<1> QED
  BY <1>1, <1>2 DEF Extra

LEMMA EnclaveGoneExtra ==
    ASSUME IndInv, IndInv', Extra, EnclaveGone
    PROVE  Extra'
<1>a. /\ epc' = "down" /\ eid' = None
      /\ (\A c \in Conns : eEnd'[c] = "closed" /\ toE'[c] = <<>>)
      /\ UNCHANGED <<bpc, bwd, served, backlog, bEnd, toB>>
  BY DEF EnclaveGone, CloseEnclaveEnds, bVars, bSide
<1>1. Named' /\ FreshCfg' /\ Greeted' /\ Astray'
  BY <1>a DEF Extra, Named, FreshCfg, Greeted, Astray
<1>2. Last'
  <2>1. \A d \in Conns : eEnd'[d] = "hs" => eEnd[d] = "hs"
    BY <1>a
  <2> QED
    BY <1>a, <2>1, LastStays DEF Extra
<1>3. Alone' /\ Lockstep' /\ Match'
  BY <1>a DEF Extra, Alone, Met, Lockstep, Turn, Match, Named
<1> QED
  BY <1>1, <1>2, <1>3 DEF Extra

LEMMA WdStopExtra ==
    ASSUME IndInv, IndInv', Extra, NEW S \in SUBSET Conns, WdStop(S), \A c \in S : bEnd[c] = "stuck"
    PROVE  Extra'
<1>a. /\ bwd # "off" /\ bwd' = "stopped" /\ backlog' = <<>>
      /\ UNCHANGED <<bpc, served, eEnd, toE, epc, eid>>
  BY DEF WdStop, Watching, eVars, eSide
<1>b. \A c \in Conns : bEnd[c] = "backlog" => bEnd'[c] = "closed"
  BY <1>a DEF WdStop, CloseBridgeEnds
<1>c. \A c \in Conns :
          (bEnd'[c] = "closed" /\ toB'[c] = <<>>) \/ (bEnd'[c] = bEnd[c] /\ toB'[c] = toB[c])
  BY <1>a, <1>b DEF WdStop, CloseBridgeEnds
<1>1. Named' /\ FreshCfg' /\ Greeted' /\ Astray' /\ Last'
  BY <1>a, <1>b, <1>c DEF Extra, Named, FreshCfg, Greeted, Astray, Last
<1>2. Alone' /\ Lockstep' /\ Match'
  BY <1>a, <1>b, <1>c DEF Extra, Alone, Met, Lockstep, Turn, Match, Named
<1> QED
  BY <1>1, <1>2 DEF Extra

LEMMA StrandExtra ==
    ASSUME IndInv, IndInv', Extra, Strand, bpc \in {"sendReady", "watch"}
    PROVE  Extra'
<1>a. /\ bpc' = "stranded" /\ bwd' = "stopped" /\ backlog' = <<>>
      /\ UNCHANGED <<served, eEnd, toE, epc, eid>>
  BY DEF Strand, eVars, eSide
<1>b. \A c \in Conns :
          \/ bEnd'[c] = "closed" /\ toB'[c] = <<>>
          \/ bEnd[c] = "stuck" /\ bEnd'[c] = "stuck" /\ toB'[c] = toB[c]
  BY <1>a DEF Strand, CloseBridgeEnds
<1>1. Named' /\ FreshCfg' /\ Greeted' /\ Astray' /\ Last'
  BY <1>a, <1>b DEF Extra, Named, FreshCfg, Greeted, Astray, Last
<1>2. Alone' /\ Lockstep' /\ Match'
  BY <1>a, <1>b DEF Extra, Alone, Met, Lockstep, Turn, Match, Named
<1> QED
  BY <1>1, <1>2 DEF Extra

LEMMA WdQuietExtra ==
    ASSUME IndInv, IndInv', Extra, WdQuiet
    PROVE  Extra'
<1>a. /\ bwd = "running" /\ bwd' = "quiet"
      /\ UNCHANGED <<bpc, served, backlog, bEnd, eEnd, toB, toE, epc, eid>>
  BY DEF WdQuiet, eVars, bSide, eSide
<1>1. Named' /\ FreshCfg' /\ Greeted' /\ Astray' /\ Last'
  BY <1>a DEF Extra, Named, FreshCfg, Greeted, Astray, Last
<1>2. Alone' /\ Lockstep' /\ Match'
  BY <1>a DEF Extra, Alone, Met, Lockstep, Turn, Match, Named
<1> QED
  BY <1>1, <1>2 DEF Extra

LEMMA WdEndExtra ==
    ASSUME IndInv, IndInv', Extra, NEW c \in Conns, WdEnd(c)
    PROVE  Extra'
<1>a. /\ bEnd[c] = "wd" /\ eEnd[c] = "closed"
      /\ UNCHANGED <<bpc, bwd, served, backlog, eEnd, toE, epc, eid>>
  BY DEF WdEnd, bVars, eVars, eSide
<1>b. \A d \in Conns :
          \/ d = c /\ bEnd'[d] = "closed" /\ toB'[d] = <<>>
          \/ bEnd'[d] = bEnd[d] /\ toB'[d] = toB[d]
  BY <1>a DEF WdEnd, CloseBridgeEnds
<1>1. Named' /\ FreshCfg' /\ Greeted' /\ Astray' /\ Last'
  BY <1>a, <1>b DEF Extra, Named, FreshCfg, Greeted, Astray, Last
<1>2. Alone' /\ Lockstep' /\ Match'
  BY <1>a, <1>b DEF Extra, Alone, Met, Lockstep, Turn, Match, Named
<1> QED
  BY <1>1, <1>2 DEF Extra

LEMMA EnclaveEndsExtra ==
    ASSUME IndInv, IndInv', Extra, NEW c \in Conns, CloseEnclaveEnds({c}),
           UNCHANGED <<bpc, bwd, served, backlog, bEnd, toB, eid>>, bEnd[c] = "closed",
           \/ eEnd[c] = "wd" /\ epc' = epc
           \/ eEnd[c] = "hs" /\ epc \in {"sendAck", "readEnv"} /\ epc' = "dial"
    PROVE  Extra'
<1>a. \A d \in Conns :
          /\ eEnd'[d] = IF d = c THEN "closed" ELSE eEnd[d]
          /\ toE'[d] = IF d = c THEN <<>> ELSE toE[d]
  BY DEF CloseEnclaveEnds
<1>1. Named'
  BY <1>a DEF Extra, Named, IndInv, TypeOK, Quiet, OneHandshake
<1>2. FreshCfg'
  BY <1>a DEF Extra, FreshCfg, Named, IndInv, TypeOK, Quiet, OneHandshake
<1>3. Astray'
  BY <1>a DEF Extra, Astray, IndInv, TypeOK, Quiet, OneHandshake
<1>4. Greeted'
  <2> SUFFICES ASSUME NEW d \in Conns, bEnd[d] = "backlog", eEnd'[d] = "hs"
               PROVE  /\ toE[d] = <<>> /\ toE'[d] = toE[d] /\ epc' = epc
                      /\ (epc = "sendAck" /\ toB[d] = <<>>) \/ (epc = "readEnv" /\ toB[d] = <<Ack(None)>>)
    BY DEF Greeted
  <2>1. d # c /\ eEnd[d] = "hs" /\ toE'[d] = toE[d]
    BY <1>a
  <2>2. epc' = epc
    BY <2>1 DEF IndInv, OneHandshake
  <2> QED
    BY <2>1, <2>2 DEF Extra, Greeted
<1>5. Last'
  <2>1. \A d \in Conns : eEnd'[d] = "hs" => eEnd[d] = "hs"
    BY <1>a
  <2> QED
    BY <1>a, <2>1, LastStays DEF Extra
<1>6. Alone'
  BY <1>a DEF Extra, Alone, Met
<1>7. Lockstep'
  BY <1>a DEF Extra, Lockstep, Met, Turn, IndInv, TypeOK, Quiet, OneHandshake
<1>8. Match'
  BY <1>a DEF Extra, Match, Named
<1> QED
  BY <1>1, <1>2, <1>3, <1>4, <1>5, <1>6, <1>7, <1>8 DEF Extra

LEMMA ReadReadyExtra ==
    ASSUME IndInv, IndInv', Extra, NEW c \in Conns, ReadReady(c)
    PROVE  Extra'
<1>a. /\ epc = "readReady" /\ epc' \in {"watch", "failed"} /\ eEnd[c] = "hs"
      /\ (toE[c] = <<>> => bEnd[c] = "closed")
      /\ UNCHANGED <<bpc, bwd, served, backlog, bEnd, toB, eid>>
  BY DEF ReadReady, bVars, bSide
<1>b. \A d \in Conns :
          /\ eEnd'[d] = IF d = c THEN "closed" ELSE eEnd[d]
          /\ toE'[d] = IF d = c THEN <<>> ELSE toE[d]
  BY <1>a DEF ReadReady, CloseEnclaveEnds
<1>c. bEnd[c] = "closed"
  <2>1. bEnd[c] \notin {"backlog", "wd", "stuck"}
    BY <1>a DEF Extra, Greeted, Astray
  <2>2. bEnd[c] = "hs" => toE[c] = <<>>
    BY <1>a DEF Extra, Lockstep, Met, Turn
  <2>3. bEnd[c] \in BridgeUses
    BY DEF IndInv, TypeOK
  <2> QED
    BY <1>a, <2>1, <2>2, <2>3 DEF BridgeUses
<1>1. Named'
  BY <1>a, <1>b, <1>c DEF Extra, Named
<1>2. FreshCfg'
  <2>1. toB[c] = <<>> /\ \A d \in Conns : d # c => eEnd'[d] = eEnd[d]
    BY <1>b, <1>c DEF IndInv, Quiet
  <2> QED
    BY <1>a, <2>1 DEF Extra, FreshCfg
<1>3. Greeted'
  BY <1>a, <1>b, <1>c DEF Extra, Greeted
<1>4. Astray'
  BY <1>a, <1>b, <1>c DEF Extra, Astray
<1>5. Last'
  <2>1. \A d \in Conns : eEnd'[d] = "hs" => eEnd[d] = "hs"
    BY <1>b
  <2> QED
    BY <1>a, <2>1, LastStays DEF Extra
<1>6. Alone' /\ Lockstep' /\ Match'
  BY <1>a, <1>b, <1>c DEF Extra, Alone, Met, Lockstep, Turn, IndInv, TypeOK, Quiet,
     OneHandshake, Match, Named
<1> QED
  BY <1>1, <1>2, <1>3, <1>4, <1>5, <1>6 DEF Extra

LEMMA SendEnvExtra ==
    ASSUME IndInv, IndInv', Extra, NEW c \in Conns, SendEnv(c), ~BridgeGone
    PROVE  Extra'
<1>a. /\ bpc = "sendEnv" /\ bpc' = "readCfg" /\ bEnd[c] = "hs"
      /\ UNCHANGED <<bwd, served, backlog, bEnd, eEnd, toB, epc, eid>>
  BY DEF SendEnv, bSide, eVars
<1>b. /\ (\A d \in Conns : d # c => toE'[d] = toE[d])
      /\ (eEnd[c] # "closed" => toE'[c] = Append(toE[c], Env))
  BY <1>a DEF IndInv, TypeOK, SendEnv, ToEnclave
<1>c. Append(<<>>, Env) = <<Env>>
  OBVIOUS
<1>1. Named' /\ FreshCfg' /\ Greeted' /\ Astray' /\ Last'
  BY <1>a, <1>b, <1>c DEF Extra, Named, FreshCfg, Greeted, Astray, Last
<1>2. Alone' /\ Lockstep' /\ Match'
  BY <1>a, <1>b, <1>c DEF Extra, Alone, Met, Lockstep, Turn, IndInv, TypeOK, Quiet,
     OneHandshake, Match, Named
<1> QED
  BY <1>1, <1>2 DEF Extra

LEMMA SendReadyExtra ==
    ASSUME IndInv, IndInv', Extra, NEW c \in Conns, SendReady(c), ~BridgeGone, ~Strand
    PROVE  Extra'
<1>a. /\ bpc = "sendReady" /\ bpc' = "watch" /\ bEnd[c] = "hs"
      /\ UNCHANGED <<bwd, served, backlog, eEnd, epc, eid>>
  BY DEF SendReady, eVars
<1>b. \A d \in Conns :
          /\ bEnd'[d] = IF d = c THEN "closed" ELSE bEnd[d]
          /\ toB'[d] = IF d = c THEN <<>> ELSE toB[d]
  BY <1>a DEF SendReady, CloseBridgeEnds
<1>c. \A d \in Conns : d # c => toE'[d] = toE[d]
  BY <1>a, <1>b DEF IndInv, TypeOK, SendReady, ToEnclave
<1>1. Named' /\ FreshCfg' /\ Greeted' /\ Astray' /\ Last'
  BY <1>a, <1>b, <1>c DEF Extra, Named, FreshCfg, Greeted, Astray, Last
<1>2. Alone'
  BY <1>a, <1>b, <1>c DEF Extra, Alone, Met
<1>3. Lockstep'
  BY <1>a, <1>b, <1>c DEF Extra, Lockstep, Met, Turn, IndInv, TypeOK, Quiet, OneHandshake
<1>4. Match'
  BY <1>a, <1>b, <1>c DEF Extra, Match, Named
<1> QED
  BY <1>1, <1>2, <1>3, <1>4 DEF Extra

LEMMA WdBeatExtra ==
    ASSUME IndInv, IndInv', Extra, NEW c \in Conns, WdBeat(c)
    PROVE  Extra'
<1>a. /\ bEnd[c] \in {"wd", "stuck"} /\ eEnd[c] # "closed"
      /\ UNCHANGED <<bpc, bwd, served, backlog, bEnd, toB, eEnd, epc, eid>>
  BY DEF WdBeat, bVars, bSide, eVars
<1>b. \A d \in Conns : d # c => toE'[d] = toE[d]
  BY <1>a DEF WdBeat, ToEnclave
<1>c. \A d \in Conns : \A n \in DOMAIN toE'[d] :
          (n \in DOMAIN toE[d] /\ toE'[d][n] = toE[d][n]) \/ toE'[d][n].kind = "beat"
  <2>1. Beat(served) \in Lines /\ Beat(served).kind = "beat"
    BY <1>a DEF Beat, Lines, IndInv, TypeOK, WdBeat
  <2>2. TypeOK /\ ToEnclave(c, Beat(served))
    BY <1>a DEF IndInv, WdBeat
  <2>3. \A d \in Conns : \A n \in DOMAIN toE'[d] :
           (n \in DOMAIN toE[d] /\ toE'[d][n] = toE[d][n]) \/ (d = c /\ toE'[d][n] = Beat(served))
    BY <2>1, <2>2, ToEnclaveAdds
  <2> QED
    BY <2>1, <2>3
<1>1. Named' /\ FreshCfg' /\ Greeted' /\ Astray' /\ Last'
  BY <1>a, <1>b, <1>c DEF Extra, Named, FreshCfg, Greeted, Astray, Last
<1>2. Alone' /\ Lockstep' /\ Match'
  BY <1>a, <1>b, <1>c DEF Extra, Alone, Met, Lockstep, Turn, Match, Named
<1> QED
  BY <1>1, <1>2 DEF Extra

LEMMA SendAckWritesExtra ==
    ASSUME IndInv, IndInv', Extra, NEW c \in Conns, SendAck(c), epc' = "readEnv"
    PROVE  Extra'
<1>a. /\ epc = "sendAck" /\ eEnd[c] = "hs"
      /\ UNCHANGED <<bpc, bwd, served, backlog, bEnd, toE, eEnd, eid>>
  BY DEF SendAck, bVars, eSide
<1>b. /\ (\A d \in Conns : d # c => toB'[d] = toB[d])
      /\ (bEnd[c] # "closed" => toB'[c] = Append(toB[c], Ack(None)))
  BY <1>a DEF IndInv, TypeOK, SendAck, ToBridge
<1>c. Append(<<>>, Ack(None)) = <<Ack(None)>>
  OBVIOUS
<1>d. \A d \in Conns : \A n \in DOMAIN toB'[d] :
          (n \in DOMAIN toB[d] /\ toB'[d][n] = toB[d][n]) \/ toB'[d][n].kind = "ack"
  <2>1. Ack(None) \in Lines /\ Ack(None).kind = "ack"
    BY <1>a DEF Ack, Lines, IndInv, TypeOK, SendAck
  <2>2. TypeOK /\ ToBridge(c, Ack(None))
    BY <1>a DEF IndInv, SendAck
  <2>3. \A d \in Conns : \A n \in DOMAIN toB'[d] :
           (n \in DOMAIN toB[d] /\ toB'[d][n] = toB[d][n]) \/ (d = c /\ toB'[d][n] = Ack(None))
    BY <2>1, <2>2, ToBridgeAdds
  <2> QED
    BY <2>1, <2>3
<1>1. Named'
  BY <1>a, <1>b, <1>c, <1>d DEF Extra, Named
<1>2. FreshCfg'
  BY <1>a, <1>b, <1>c, <1>d DEF Extra, FreshCfg, Named
<1>3. Greeted'
  <2> SUFFICES ASSUME NEW d \in Conns, bEnd'[d] = "backlog", eEnd'[d] = "hs"
               PROVE  toE'[d] = <<>> /\ epc' = "readEnv" /\ toB'[d] = <<Ack(None)>>
    BY DEF Greeted
  <2>1. d = c /\ bEnd[c] = "backlog"
    BY <1>a DEF IndInv, OneHandshake
  <2>2. toE[c] = <<>> /\ toB[c] = <<>>
    BY <1>a, <2>1 DEF Extra, Greeted
  <2> QED
    BY <1>a, <1>b, <1>c, <2>1, <2>2
<1>4. Astray'
  BY <1>a, <1>b, <1>c, <1>d DEF Extra, Astray
<1>5. Last'
  BY <1>a, <1>b, <1>c, <1>d DEF Extra, Last
<1>6. Alone' /\ Lockstep' /\ Match'
  BY <1>a, <1>b, <1>c, <1>d DEF Extra, Alone, Met, Lockstep, Turn, IndInv, TypeOK, Quiet,
     OneHandshake, Match, Named
<1> QED
  BY <1>1, <1>2, <1>3, <1>4, <1>5, <1>6 DEF Extra

LEMMA SendCfgWritesExtra ==
    ASSUME IndInv, IndInv', Extra, NEW c \in Conns, SendCfg(c), epc' = "readReady"
    PROVE  Extra'
<1>a. /\ epc = "app" /\ eEnd[c] = "hs" /\ eid' \in Ids \ IdsHeld /\ ToBridge(c, Cfg(eid'))
      /\ UNCHANGED <<bpc, bwd, served, backlog, bEnd, toE, eEnd>>
  BY DEF SendCfg, bVars, eSide
<1>b. /\ (\A d \in Conns : d # c => toB'[d] = toB[d])
      /\ (bEnd[c] # "closed" => toB'[c] = Append(toB[c], Cfg(eid')))
  BY <1>a DEF IndInv, TypeOK, ToBridge
<1>c. Append(<<>>, Cfg(eid')) = <<Cfg(eid')>>
  OBVIOUS
<1>d. \A d \in Conns : \A n \in DOMAIN toB'[d] :
          (n \in DOMAIN toB[d] /\ toB'[d][n] = toB[d][n]) \/ (d = c /\ toB'[d][n].id = eid')
  <2>1. Cfg(eid') \in Lines /\ Cfg(eid').id = eid'
    BY <1>a DEF Cfg, Lines, IndInv, TypeOK, SendCfg
  <2>2. TypeOK /\ ToBridge(c, Cfg(eid'))
    BY <1>a DEF IndInv, SendCfg
  <2>3. \A d \in Conns : \A n \in DOMAIN toB'[d] :
           (n \in DOMAIN toB[d] /\ toB'[d][n] = toB[d][n]) \/ (d = c /\ toB'[d][n] = Cfg(eid'))
    BY <2>1, <2>2, ToBridgeAdds
  <2> QED
    BY <2>1, <2>3
<1>e. /\ eid' # None /\ eid' # served
      /\ \A d \in Conns : \A n \in DOMAIN toB[d] : toB[d][n].id # eid'
  <2>1. eid' # None /\ eid' # served
    BY <1>a, NoneAssumption DEF IdsHeld
  <2>2. ASSUME NEW d \in Conns, NEW n \in DOMAIN toB[d] PROVE toB[d][n].id \in IdsHeld
    BY DEF IdsHeld, IdsIn
  <2> QED
    BY <1>a, <2>1, <2>2
<1>1. Named' /\ FreshCfg' /\ Greeted' /\ Astray' /\ Last'
  BY <1>a, <1>b, <1>c, <1>d, <1>e DEF Extra, Named, FreshCfg, Greeted, Astray, Last
<1>2. Alone' /\ Lockstep' /\ Match'
  BY <1>a, <1>b, <1>c, <1>d, <1>e DEF Extra, Alone, Met, Lockstep, Turn, IndInv, TypeOK, Quiet,
     OneHandshake, Match, Named
<1> QED
  BY <1>1, <1>2 DEF Extra

LEMMA EnclaveWdBeatExtra ==
    ASSUME IndInv, IndInv', Extra, NEW c \in Conns, EnclaveWdBeat(c)
    PROVE  Extra'
<1>a. eEnd[c] = "wd" /\ UNCHANGED <<bpc, bwd, served, backlog, bEnd, toE, eEnd, epc, eid>>
  BY DEF EnclaveWdBeat, bVars, eSide, eVars
<1>b. \A d \in Conns : d # c => toB'[d] = toB[d]
  BY <1>a DEF EnclaveWdBeat, ToBridge
<1>c. \A d \in Conns : \A n \in DOMAIN toB'[d] :
          \/ n \in DOMAIN toB[d] /\ toB'[d][n] = toB[d][n]
          \/ toB'[d][n] = Beat(eid) /\ toB'[d][n].kind = "beat"
  <2>1. Beat(eid) \in Lines /\ Beat(eid).kind = "beat"
    BY <1>a DEF Beat, Lines, IndInv, TypeOK, EnclaveWdBeat
  <2>2. TypeOK /\ ToBridge(c, Beat(eid))
    BY <1>a DEF IndInv, EnclaveWdBeat
  <2>3. \A d \in Conns : \A n \in DOMAIN toB'[d] :
           (n \in DOMAIN toB[d] /\ toB'[d][n] = toB[d][n]) \/ (d = c /\ toB'[d][n] = Beat(eid))
    BY <2>1, <2>2, ToBridgeAdds
  <2> QED
    BY <2>1, <2>3
<1>1. Named' /\ FreshCfg' /\ Greeted' /\ Astray' /\ Last'
  BY <1>a, <1>b, <1>c DEF Extra, Named, FreshCfg, Greeted, Astray, Last
<1>2. Alone' /\ Lockstep' /\ Match'
  BY <1>a, <1>b, <1>c DEF Extra, Alone, Met, Lockstep, Turn, Match, Named
<1> QED
  BY <1>1, <1>2 DEF Extra

LEMMA AcceptExtra ==
    ASSUME IndInv, IndInv', Extra, NEW c \in Conns, Accept(c)
    PROVE  Extra'
<1>a. bpc = "accept" /\ bpc' = "readAck" /\ UNCHANGED <<bwd, served, toB, eEnd, toE, epc, eid>>
  BY DEF Accept, eVars, eSide
<1>b. \A d \in Conns : bEnd'[d] = IF d = c THEN "hs" ELSE bEnd[d]
  BY <1>a DEF IndInv, TypeOK, Accept
<1>c. /\ backlog # <<>> /\ c = Head(backlog) /\ bEnd[c] = "backlog"
      /\ (eEnd[c] = "hs" => backlog' = <<>>) /\ Last'
  BY <1>a, <1>b, LastShrinks DEF IndInv, TypeOK, Quiet, OneHandshake, Extra, Accept
<1>1. Named' /\ FreshCfg' /\ Greeted' /\ Astray' /\ Last'
  BY <1>a, <1>b, <1>c DEF Extra, Named, FreshCfg, Greeted, Astray, Last
<1>d. \A d \in Conns : Met(d)' => d = c /\ eEnd[c] = "hs"
  BY <1>a, <1>b DEF Met, IndInv, OneHandshake, Handshaking
<1>2. Alone'
  BY <1>a, <1>b, <1>c, <1>d DEF Extra, Alone, Named
<1>3. Lockstep'
  <2>1. eEnd[c] = "hs" => /\ toE[c] = <<>>
                          /\ \/ epc = "sendAck" /\ toB[c] = <<>>
                             \/ epc = "readEnv" /\ toB[c] = <<Ack(None)>>
    BY <1>c DEF Extra, Greeted
  <2> QED
    BY <1>a, <1>d, <2>1 DEF Lockstep, Turn
<1>4. Match'
  BY <1>a, <1>b, <1>c DEF Extra, Match
<1> QED
  BY <1>1, <1>2, <1>3, <1>4 DEF Extra

LEMMA WdAcceptExtra ==
    ASSUME IndInv, IndInv', Extra, NEW c \in Conns, WdAccept(c)
    PROVE  Extra'
<1>a. bwd # "off" /\ UNCHANGED <<bpc, bwd, served, toB, eEnd, toE, epc, eid>>
  BY DEF WdAccept, Watching, bVars, eVars, eSide
<1>b. \A d \in Conns : bEnd'[d] = IF d = c THEN "wd" ELSE bEnd[d]
  BY <1>a DEF IndInv, TypeOK, WdAccept
<1>c. /\ backlog # <<>> /\ c = Head(backlog) /\ bEnd[c] = "backlog"
      /\ (eEnd[c] = "hs" => backlog' = <<>>) /\ Last'
  BY <1>a, <1>b, LastShrinks DEF IndInv, TypeOK, Quiet, OneHandshake, Extra, WdAccept
<1>1. Named' /\ FreshCfg' /\ Greeted' /\ Astray' /\ Last'
  BY <1>a, <1>b, <1>c DEF Extra, Named, FreshCfg, Greeted, Astray, Last
<1>2. Alone' /\ Lockstep' /\ Match'
  BY <1>a, <1>b, <1>c DEF Extra, Alone, Met, Lockstep, Turn, Match, Named
<1> QED
  BY <1>1, <1>2 DEF Extra

LEMMA DialExtra ==
    ASSUME IndInv, IndInv', Extra, NEW c \in Conns, Dial(c)
    PROVE  Extra'
<1>a. epc = "dial" /\ epc' = "sendAck" /\ UNCHANGED <<bpc, bwd, served, toB, toE, eid>>
  BY DEF Dial, Connect, bVars
<1>b. /\ bEnd[c] = "closed" /\ toB[c] = <<>> /\ toE[c] = <<>>
      /\ (\A d \in Conns : bEnd'[d] = IF d = c THEN "backlog" ELSE bEnd[d])
      /\ (\A d \in Conns : eEnd'[d] = IF d = c THEN "hs" ELSE eEnd[d])
  BY DEF IndInv, TypeOK, Quiet, OneHandshake, Extra, Dial, Connect, Free
<1>c. \A d \in Conns : eEnd[d] # "hs"
  BY <1>a, <1>b DEF IndInv, TypeOK, Quiet, OneHandshake, Extra
<1>d. Last'
  BY <1>a, <1>b, <1>c, LastGrows DEF Dial, Connect
<1>1. Named' /\ FreshCfg' /\ Greeted' /\ Astray' /\ Last'
  BY <1>a, <1>b, <1>c, <1>d DEF Extra, Named, FreshCfg, Greeted, Astray, Last
<1>2. Alone' /\ Lockstep' /\ Match'
  BY <1>a, <1>b, <1>c, <1>d DEF Extra, Alone, Met, Lockstep, Turn, Match, Named
<1> QED
  BY <1>1, <1>2 DEF Extra

LEMMA EnclaveWdDialExtra ==
    ASSUME IndInv, IndInv', Extra, NEW c \in Conns, EnclaveWdDial(c)
    PROVE  Extra'
<1>a. epc \in {"watch", "failed"} /\ UNCHANGED <<bpc, bwd, served, toB, toE, epc, eid>>
  BY DEF EnclaveWdDial, Connect, bVars, eVars
<1>b. /\ bEnd[c] = "closed" /\ toB[c] = <<>> /\ toE[c] = <<>>
      /\ (\A d \in Conns : bEnd'[d] = IF d = c THEN "backlog" ELSE bEnd[d])
      /\ (\A d \in Conns : eEnd'[d] = IF d = c THEN "wd" ELSE eEnd[d])
  BY DEF IndInv, TypeOK, Quiet, OneHandshake, Extra, EnclaveWdDial, Connect, Free
<1>c. \A d \in Conns : eEnd[d] # "hs"
  BY <1>a, <1>b DEF IndInv, TypeOK, Quiet, OneHandshake, Extra
<1>d. Last'
  BY <1>a, <1>b, <1>c, LastGrows DEF EnclaveWdDial, Connect
<1>1. Named' /\ FreshCfg' /\ Greeted' /\ Astray' /\ Last'
  BY <1>a, <1>b, <1>c, <1>d DEF Extra, Named, FreshCfg, Greeted, Astray, Last
<1>2. Alone' /\ Lockstep' /\ Match'
  BY <1>a, <1>b, <1>c, <1>d DEF Extra, Alone, Met, Lockstep, Turn, Match, Named
<1> QED
  BY <1>1, <1>2 DEF Extra

LEMMA ReadAckExtra ==
    ASSUME IndInv, IndInv', Extra, NEW c \in Conns, ReadAck(c), ~BridgeGone
    PROVE  Extra'
<1>a. /\ bpc = "readAck" /\ bpc' = "sendEnv" /\ bEnd[c] = "hs" /\ toB[c] # <<>>
      /\ UNCHANGED <<bwd, served, backlog, bEnd, eEnd, toE, epc, eid>>
  BY DEF ReadAck, eVars, eSide
<1>b. \E r \in AfterRead(toB[c]) : toB' = [toB EXCEPT ![c] = r]
  BY <1>a DEF ReadAck
<1>c. \A d \in Conns : d # c => toB'[d] = toB[d]
  BY <1>b
<1>d. \A d \in Conns : \A n \in DOMAIN toB'[d] : \E m \in DOMAIN toB[d] : toB'[d][n] = toB[d][m]
  BY <1>a, <1>b, <1>c, AfterReadIsPart DEF IndInv, TypeOK
<1>e. toB[c] = <<Ack(None)>> => toB'[c] = <<>>
  <2>1. toB'[c] \in AfterRead(toB[c])
    BY <1>b DEF IndInv, TypeOK
  <2> QED
    BY <2>1, AfterReadOfOne
<1>1. Named' /\ FreshCfg' /\ Greeted' /\ Astray' /\ Last'
  BY <1>a, <1>b, <1>c, <1>d, <1>e DEF Extra, Named, FreshCfg, Greeted, Astray, Last
<1>2. Alone' /\ Lockstep' /\ Match'
  BY <1>a, <1>b, <1>c, <1>d, <1>e DEF Extra, Alone, Met, Lockstep, Turn, IndInv, TypeOK, Quiet,
     OneHandshake, Match, Named
<1> QED
  BY <1>1, <1>2 DEF Extra

LEMMA ReadCfgExtra ==
    ASSUME IndInv, IndInv', Extra, NEW c \in Conns, ReadCfg(c), ~BridgeGone
    PROVE  Extra'
<1>a. /\ bpc = "readCfg" /\ bpc' = "setup" /\ bEnd[c] = "hs" /\ toB[c] # <<>>
      /\ Head(toB[c]).kind = "cfg" /\ served' = Head(toB[c]).id
      /\ UNCHANGED <<bwd, backlog, bEnd, eEnd, toE, epc, eid>>
  BY DEF ReadCfg, eVars, eSide
<1>b. \E r \in AfterRead(toB[c]) : toB' = [toB EXCEPT ![c] = r]
  BY <1>a DEF ReadCfg
<1>c. \A d \in Conns : d # c => toB'[d] = toB[d]
  BY <1>b
<1>d. \A d \in Conns : \A n \in DOMAIN toB'[d] : \E m \in DOMAIN toB[d] : toB'[d][n] = toB[d][m]
  BY <1>a, <1>b, <1>c, AfterReadIsPart DEF IndInv, TypeOK
<1>e. toB[c] = <<Cfg(eid)>> => toB'[c] = <<>>
  <2>1. toB'[c] \in AfterRead(toB[c])
    BY <1>b DEF IndInv, TypeOK
  <2> QED
    BY <2>1, AfterReadOfOne
<1>f. 1 \in DOMAIN toB[c] /\ Head(toB[c]) = toB[c][1]
  BY <1>a, <1>b, <1>c, <1>d, <1>e, AfterReadIsPart DEF IndInv, TypeOK
<1>g. served' # None /\ (eEnd[c] # "hs" => served' # eid)
  BY <1>a, <1>b, <1>c, <1>d, <1>e, <1>f DEF IndInv, TypeOK, Quiet, OneHandshake, Extra, Named,
     FreshCfg
<1>1. Named' /\ FreshCfg' /\ Greeted' /\ Astray' /\ Last'
  BY <1>a, <1>b, <1>c, <1>d, <1>e, <1>f, <1>g DEF Extra, Named, FreshCfg, Greeted, Astray, Last
<1>2. Alone' /\ Lockstep'
  BY <1>a, <1>b, <1>c, <1>d, <1>e, <1>f, <1>g DEF Extra, Alone, Met, Lockstep, Turn, IndInv,
     TypeOK, Quiet, OneHandshake
<1>3. Match'
  <2>1. CASE eEnd[c] = "hs"
    <3>1. backlog = <<>> /\ \A d \in Conns : bEnd[d] \notin {"wd", "stuck"}
      BY <1>a, <2>1 DEF Extra, Alone, Met
    <3>2. \A d \in Conns : bEnd[d] # "backlog"
      BY <3>1 DEF IndInv, TypeOK
    <3> QED
      BY <1>a, <3>1, <3>2 DEF Match
  <2>2. CASE eEnd[c] # "hs"
    BY <1>a, <1>g, <2>2 DEF Match
  <2> QED
    BY <2>1, <2>2
<1> QED
  BY <1>1, <1>2, <1>3 DEF Extra

LEMMA ReadEnvExtra ==
    ASSUME IndInv, IndInv', Extra, NEW c \in Conns, ReadEnv(c), ~EnclaveGone
    PROVE  Extra'
<1>a. /\ epc = "readEnv" /\ epc' = "app" /\ eEnd[c] = "hs" /\ toE[c] # <<>>
      /\ Head(toE[c]) = Env /\ UNCHANGED <<bpc, bwd, served, backlog, bEnd, eEnd, toB, eid>>
  BY DEF ReadEnv, bVars, bSide
<1>b. \E r \in AfterRead(toE[c]) : toE' = [toE EXCEPT ![c] = r]
  BY <1>a DEF ReadEnv
<1>c. \A d \in Conns : d # c => toE'[d] = toE[d]
  BY <1>b
<1>d. \A d \in Conns : \A n \in DOMAIN toE'[d] : \E m \in DOMAIN toE[d] : toE'[d][n] = toE[d][m]
  BY <1>a, <1>b, <1>c, AfterReadIsPart DEF IndInv, TypeOK
<1>e. \A x : toE[c] = <<x>> => toE'[c] = <<>>
  BY <1>a, <1>b, <1>c, <1>d, AfterReadOfOne DEF IndInv, TypeOK
<1>f. 1 \in DOMAIN toE[c] /\ Head(toE[c]) = toE[c][1] /\ toE[c][1].kind = "env"
  BY <1>a, <1>b, <1>c, <1>d, <1>e, AfterReadIsPart DEF IndInv, TypeOK, Env
<1>1. Named' /\ FreshCfg' /\ Greeted' /\ Astray' /\ Last'
  BY <1>a, <1>b, <1>c, <1>d, <1>e, <1>f DEF Extra, Named, FreshCfg, Greeted, IndInv, TypeOK,
     Quiet, OneHandshake, Astray, Last
<1>2. Alone' /\ Lockstep' /\ Match'
  BY <1>a, <1>b, <1>c, <1>d, <1>e, <1>f DEF Extra, Alone, Met, Lockstep, Turn, IndInv, TypeOK,
     Quiet, OneHandshake, Match, Named
<1> QED
  BY <1>1, <1>2 DEF Extra

LEMMA WdReadExtra ==
    ASSUME IndInv, IndInv', Extra, NEW c \in Conns, WdRead(c)
    PROVE  Extra'
<1>a. /\ bEnd[c] = "wd" /\ toB[c] # <<>>
      /\ bwd' \in {bwd, "running"} /\ (bwd' # bwd => bwd = "quiet")
      /\ UNCHANGED <<bpc, served, backlog, eEnd, toE, epc, eid>>
  BY DEF WdRead, bVars, eVars, eSide
<1>b. \A d \in Conns :
          bEnd'[d] = IF d = c /\ ~Recognises(served, Head(toB[c])) THEN "stuck" ELSE bEnd[d]
  BY <1>a DEF IndInv, TypeOK, WdRead
<1>c. \E r \in AfterRead(toB[c]) : toB' = [toB EXCEPT ![c] = r]
  BY <1>a, <1>b DEF WdRead
<1>d. \A d \in Conns : d # c => toB'[d] = toB[d]
  BY <1>c
<1>e. \A d \in Conns : \A n \in DOMAIN toB'[d] : \E m \in DOMAIN toB[d] : toB'[d][n] = toB[d][m]
  BY <1>a, <1>b, <1>c, <1>d, AfterReadIsPart DEF IndInv, TypeOK
<1>f. 1 \in DOMAIN toB[c] /\ Head(toB[c]) = toB[c][1]
  BY <1>a, <1>b, <1>c, <1>d, <1>e, AfterReadIsPart
<1>1. Named' /\ FreshCfg' /\ Greeted' /\ Astray' /\ Last'
  BY <1>a, <1>b, <1>c, <1>d, <1>e, <1>f DEF Extra, Named, FreshCfg, Greeted, Astray, Last
<1>2. Alone' /\ Lockstep' /\ Match'
  BY <1>a, <1>b, <1>c, <1>d, <1>e, <1>f DEF Extra, Alone, Met, Lockstep, Turn, Match, Named, Recognises
<1> QED
  BY <1>1, <1>2 DEF Extra

LEMMA EnclaveWdReadExtra ==
    ASSUME IndInv, IndInv', Extra, NEW c \in Conns, EnclaveWdRead(c), ~EnclaveGone
    PROVE  Extra'
<1>a. eEnd[c] = "wd" /\ UNCHANGED <<bpc, bwd, served, backlog, bEnd, toB, eEnd, epc, eid>>
  BY DEF EnclaveWdRead, bVars, eVars, bSide
<1>b. \A d \in Conns : d # c => toE'[d] = toE[d]
  BY <1>a DEF IndInv, TypeOK, EnclaveWdRead
<1>1. Named' /\ FreshCfg' /\ Greeted' /\ Astray' /\ Last'
  BY <1>a, <1>b DEF Extra, Named, FreshCfg, Greeted, Astray, Last
<1>2. Alone' /\ Lockstep' /\ Match'
  BY <1>a, <1>b DEF Extra, Alone, Met, Lockstep, Turn, Match, Named
<1> QED
  BY <1>1, <1>2 DEF Extra

LEMMA InitExtra == Init => Extra
<1> SUFFICES ASSUME Init PROVE Extra
  OBVIOUS
<1>1. DOMAIN <<>> = {}
  OBVIOUS
<1> QED
  BY <1>1 DEF Init, Extra, Named, FreshCfg, Greeted, Astray, Last, Alone, Lockstep, Match, Met

LEMMA NextExtra == IndInv /\ IndInv' /\ Extra /\ [Next]_vars => Extra'
<1> SUFFICES ASSUME IndInv, IndInv', Extra, [Next]_vars PROVE Extra'
  OBVIOUS
<1>1. ASSUME NEW c \in Conns, BridgeStep(c) PROVE Extra'
  <2>1. CASE BridgeGone
    BY <2>1, BridgeGoneExtra
  <2>3. CASE Strand /\ (SendReady(c) \/ Exit)
    BY <2>3, StrandExtra DEF SendReady, Exit
  <2>2. CASE ~BridgeGone /\ ~(Strand /\ (SendReady(c) \/ Exit))
    <3>1. Start \/ Accept(c) \/ ReadAck(c) \/ SendEnv(c) \/ ReadCfg(c) \/ SetUp \/ SendReady(c)
      BY <1>1, <2>2, <2>3 DEF BridgeStep, BridgeReadFails, Exit
    <3> QED
      BY <2>2, <3>1, StartExtra, AcceptExtra, ReadAckExtra, SendEnvExtra, ReadCfgExtra, SetUpExtra,
         SendReadyExtra
  <2> QED
    BY <2>1, <2>2, <2>3
<1>2. ASSUME NEW c \in Conns, EnclaveStep(c) PROVE Extra'
  <2>1. CASE EnclaveGone
    BY <2>1, EnclaveGoneExtra
  <2>2. CASE SendAck(c)
    <3>1. CASE epc' = "readEnv"
      BY <2>2, <3>1, SendAckWritesExtra
    <3>2. CASE epc' # "readEnv"
      BY <2>2, <3>2, EnclaveEndsExtra DEF SendAck, bVars
    <3> QED
      BY <3>1, <3>2
  <2>3. CASE ReadEnvFails(c)
    BY <2>3, EnclaveEndsExtra DEF ReadEnvFails, bVars, bSide
  <2>4. CASE SendCfg(c)
    BY <2>4, SendCfgWritesExtra, SendCfgFailsExtra DEF SendCfg
  <2>5. CASE EnclaveStart \/ Dial(c) \/ ReadReady(c)
    BY <2>5, EnclaveStartExtra, DialExtra, ReadReadyExtra
  <2>6. CASE ReadEnv(c) /\ ~EnclaveGone
    BY <2>6, ReadEnvExtra
  <2> QED
    BY <1>2, <2>1, <2>2, <2>3, <2>4, <2>5, <2>6 DEF EnclaveStep, Fail
<1>3. ASSUME NEW c \in Conns,
             WdAccept(c) \/ WdHandle(c) \/ WdBeat(c) \/ EnclaveWdHandle(c) \/ EnclaveWdBeat(c)
      PROVE  Extra'
  <2>1. CASE EnclaveWdRead(c)
    BY <2>1, EnclaveWdReadExtra, EnclaveGoneExtra
  <2>2. CASE EnclaveWdEnd(c)
    BY <2>2, EnclaveEndsExtra DEF EnclaveWdEnd, eVars, bVars, bSide
  <2> QED
    BY <1>3, <2>1, <2>2, WdAcceptExtra, WdReadExtra, WdEndExtra, WdBeatExtra, EnclaveWdDialExtra,
       EnclaveWdBeatExtra DEF WdHandle, EnclaveWdHandle
<1>4. CASE WdVerdict
  BY <1>4, WdStopExtra DEF WdVerdict, WdMismatch, WdTimeout
<1>5. CASE WdQuiet \/ EnclaveWdTimeout \/ Fault
  BY <1>5, BridgeGoneExtra, EnclaveGoneExtra, WdStopExtra, WdQuietExtra DEF EnclaveWdTimeout, Fault
<1>6. CASE UNCHANGED vars
  BY <1>6 DEF vars, bVars, eVars, bSide, eSide, Extra, Named, FreshCfg, Greeted, Astray, Last,
              Alone, Lockstep, Match, Met, Turn
<1> QED
  BY <1>1, <1>2, <1>3, <1>4, <1>5, <1>6 DEF Next

LEMMA MoreInvariance == Spec => [](IndInv /\ Extra)
BY Invariance, InitExtra, NextExtra, PTL DEF Spec

\* Whatever crashes and restarts, the two sides of a handshake write by turns:
\* the readers that bridge.go and enclave_setup.go drop after a line lose none.
THEOREM ByTurns == Spec => []NoReadAhead
<1>1. IndInv /\ Extra => NoReadAhead
  <2> SUFFICES ASSUME IndInv, Extra, NEW c \in Conns, bEnd[c] = "hs", eEnd[c] = "hs"
               PROVE  Len(toB[c]) + Len(toE[c]) <= 1
    BY DEF NoReadAhead
  <2>1. \/ toB[c] = <<>> /\ toE[c] = <<>>
        \/ toB[c] = <<Ack(None)>> /\ toE[c] = <<>>
        \/ toB[c] = <<Cfg(eid)>> /\ toE[c] = <<>>
        \/ toB[c] = <<>> /\ toE[c] = <<Env>>
    BY DEF Extra, Lockstep, Met, Turn
  <2>2. Len(<<>>) = 0 /\ Len(<<Ack(None)>>) = 1 /\ Len(<<Cfg(eid)>>) = 1 /\ Len(<<Env>>) = 1
    OBVIOUS
  <2>3. Len(toB[c]) \in {0, 1} /\ Len(toE[c]) \in {0, 1} /\ (Len(toB[c]) = 0 \/ Len(toE[c]) = 0)
    BY <2>1, <2>2
  <2>4. \A x, y \in {0, 1} : x = 0 \/ y = 0 => x + y <= 1
    OBVIOUS
  <2> QED
    BY <2>3, <2>4
<1> QED
  BY <1>1, MoreInvariance, PTL

\* Whatever crashes and restarts, the bridge's watchdog reports a mismatch only
\* when the enclave that it serves is gone, or has an ID with a newline, which
\* HandleConn (watchdog.go 129-137) cannot recognise.
THEOREM NeverAccused == Spec => []NoFalseMismatch
<1>1. IndInv /\ Extra => NoFalseMismatch
  <2> SUFFICES ASSUME IndInv, Extra, NEW c \in Conns, bEnd[c] = "stuck",
                      eid = served, served \notin Split
               PROVE  FALSE
    BY DEF NoFalseMismatch
  <2>1. bwd # "off"
    BY DEF Extra, Named
  <2>2. served # None
    BY <2>1 DEF Extra, Named
  <2> QED
    BY <2>2 DEF Extra, Match
<1> QED
  BY <1>1, MoreInvariance, PTL

-----------------------------------------------------------------------------
\* The refinement of Pairing.  Only an ACK at the head of the enclave's queue
\* makes an offer, and AckIsMine says who reads it.
LEMMA StageIs ==
    /\ Stage = IF epc = "watch" THEN "paired" ELSE IF Offered THEN "offered" ELSE "apart"
    /\ Stage' = IF epc' = "watch" THEN "paired" ELSE IF Offered' THEN "offered" ELSE "apart"
BY DEF Stage

LEMMA OfferIsRead == IndInv /\ Offered => epc = "readReady"
<1> SUFFICES ASSUME IndInv, NEW c \in Conns, eEnd[c] = "hs", toE[c] # <<>>,
                    Head(toE[c]).kind = "ack"
             PROVE  epc = "readReady"
  BY DEF Offered
<1>1. toE[c] \in Seq(Lines)
  BY DEF IndInv, TypeOK
<1>2. 1 \in DOMAIN toE[c] /\ Head(toE[c]) = toE[c][1]
  BY <1>1, HeadTyped
<1> QED
  BY <1>2 DEF IndInv, AckIsMine, Configured

LEMMA OfferWillBeRead == (IndInv /\ Offered => epc = "readReady")'
BY OfferIsRead, PTL

LEMMA SendingKeepsOffer ==
    ASSUME IndInv, NEW c \in Conns, NEW l \in Lines, l.kind # "ack", ToEnclave(c, l), eEnd' = eEnd
    PROVE  Offered' <=> Offered
<1>1. toE[c] \in Seq(Lines)
  BY DEF IndInv, TypeOK
<1>2. \A d \in Conns : d # c => toE'[d] = toE[d]
  BY DEF ToEnclave, IndInv, TypeOK
<1>3. toE'[c] = toE[c] \/ toE'[c] = Append(toE[c], l)
  BY DEF ToEnclave, IndInv, TypeOK
<1>4. Append(toE[c], l) # <<>>
  BY <1>1, AppendProperties
<1>5. Head(Append(toE[c], l)) = IF toE[c] = <<>> THEN l ELSE Head(toE[c])
  BY <1>1, HeadTailAppend
<1>6. \A d \in Conns : toE'[d] # <<>> /\ Head(toE'[d]).kind = "ack"
                          <=> toE[d] # <<>> /\ Head(toE[d]).kind = "ack"
  BY <1>2, <1>3, <1>4, <1>5
<1> QED
  BY <1>6 DEF Offered

\* A step that pairs nobody and parts nobody.
LEMMA Stutters ==
    ASSUME UNCHANGED <<served, eid>>, epc' = "watch" <=> epc = "watch",
           epc' # "watch" => (Offered' <=> Offered)
    PROVE  UNCHANGED Abstract!vars
BY StageIs DEF Abstract!vars

LEMMA SameEnds == UNCHANGED <<eEnd, toE>> => (Offered' <=> Offered)
BY DEF Offered

LEMMA BridgeGoneSimulates == BridgeGone => Abstract!Next
<1> SUFFICES ASSUME BridgeGone PROVE Abstract!BridgeLeaves
  BY DEF Abstract!Next
<1>1. Stage' = Stage
  BY StageIs, SameEnds DEF BridgeGone, eVars, eSide
<1> QED
  BY <1>1 DEF BridgeGone, eVars, Abstract!BridgeLeaves

LEMMA StrandStutters == Strand => UNCHANGED Abstract!vars
BY SameEnds, Stutters DEF Strand, eVars, eSide

LEMMA EnclaveGoneSimulates == EnclaveGone => Abstract!Next
<1> SUFFICES ASSUME EnclaveGone PROVE Abstract!EnclaveLeaves
  BY DEF Abstract!Next
<1>1. ~Offered' /\ epc' = "down"
  BY DEF EnclaveGone, CloseEnclaveEnds, Offered
<1> QED
  BY <1>1, StageIs DEF EnclaveGone, bVars, Abstract!EnclaveLeaves

LEMMA ReadCfgSimulates ==
    ASSUME IndInv, Extra, NEW c \in Conns, ReadCfg(c), ~BridgeGone
    PROVE  Abstract!Next
<1>1. /\ bpc = "readCfg" /\ bEnd[c] = "hs" /\ toB[c] # <<>>
      /\ Head(toB[c]).kind = "cfg" /\ served' = Head(toB[c]).id
      /\ UNCHANGED <<epc, eid, eEnd, toE>>
  BY DEF ReadCfg, eVars, eSide
<1>2. toB[c] \in Seq(Lines)
  BY DEF IndInv, TypeOK
<1>3. 1 \in DOMAIN toB[c] /\ Head(toB[c]) = toB[c][1] /\ Head(toB[c]) \in Lines
  BY <1>1, <1>2, HeadTyped
<1>4. served' \in Ids
  BY <1>1, <1>3 DEF Lines, Extra, Named
<1>5. served = None
  BY <1>1 DEF Extra, Named
<1>6. ASSUME served' = eid PROVE Stage = "apart"
  <2>1. eEnd[c] = "hs"
    BY <1>1, <1>3, <1>6 DEF Extra, FreshCfg
  <2>2. epc = "readReady" /\ toE[c] = <<>>
    <3>1. toB[c][1].kind = "cfg" /\ toB[c] # <<>>
      BY <1>1, <1>3
    <3>2. Configured
      BY <1>3, <2>1, <3>1 DEF IndInv, CfgIsMine
    <3> QED
      BY <1>1, <2>1, <3>1, <3>2 DEF Extra, Lockstep, Met, Turn, Configured
  <2>3. ~Offered
    BY <2>1, <2>2 DEF Offered, IndInv, OneHandshake
  <2> QED
    BY <2>2, <2>3, StageIs
<1>7. Stage' = Stage
  BY <1>1, StageIs, SameEnds
<1>8. Abstract!Adopt(served')
  BY <1>1, <1>5, <1>6, <1>7 DEF Abstract!Adopt
<1> QED
  BY <1>4, <1>8 DEF Abstract!Next

LEMMA SendReadySimulates ==
    ASSUME IndInv, Extra, NEW c \in Conns, SendReady(c), ~BridgeGone, ~Strand
    PROVE  [Abstract!Next]_(Abstract!vars)
<1>1. /\ bpc = "sendReady" /\ bEnd[c] = "hs" /\ ToEnclave(c, Ack(served))
      /\ UNCHANGED <<served, epc, eid, eEnd>>
  BY DEF SendReady, bVars, eVars
<1>2. CASE eEnd[c] # "hs"
  <2>1. eEnd[c] = "closed"
    BY <1>1, <1>2 DEF IndInv, TypeOK, EnclaveUses, BailOnOldEnclave, Handshaking
  <2> QED
    BY <1>1, <2>1, SameEnds, Stutters DEF ToEnclave
<1>3. CASE eEnd[c] = "hs"
  <2>1. epc = "readReady" /\ toE[c] = <<>>
    BY <1>1, <1>3 DEF Extra, Lockstep, Met, Turn
  <2>2. served = eid
    BY <1>1, <1>3 DEF IndInv, ServesMine
  <2>3. eid # None
    BY <1>1, <2>2 DEF Extra, Named
  <2>4. ~Offered
    BY <1>3, <2>1 DEF Offered, IndInv, OneHandshake
  <2>5. toE'[c] = <<Ack(served)>>
    <3>1. toE'[c] = Append(toE[c], Ack(served))
      BY <1>1, <1>3 DEF ToEnclave, IndInv, TypeOK
    <3>2. Append(<<>>, Ack(served)) = <<Ack(served)>>
      OBVIOUS
    <3> QED
      BY <2>1, <3>1, <3>2
  <2>6. Head(<<Ack(served)>>) = Ack(served) /\ Ack(served).kind = "ack" /\ <<Ack(served)>> # <<>>
    BY DEF Ack
  <2>7. Offered'
    BY <1>1, <1>3, <2>5, <2>6 DEF Offered
  <2>8. Abstract!Offer
    BY <1>1, <2>1, <2>2, <2>3, <2>4, <2>7, StageIs DEF Abstract!Offer
  <2> QED
    BY <2>8 DEF Abstract!Next
<1> QED
  BY <1>2, <1>3

LEMMA SendCfgSimulates ==
    ASSUME IndInv, IndInv', Extra, NEW c \in Conns, SendCfg(c)
    PROVE  [Abstract!Next]_(Abstract!vars)
<1>1. epc = "app" /\ UNCHANGED <<served, eEnd, toE>> /\ epc' # "watch"
  BY DEF SendCfg, bVars, eSide
<1>2. Stage' = Stage
  BY <1>1, StageIs, SameEnds
<1>3. CASE UNCHANGED eid
  BY <1>1, <1>2, <1>3 DEF Abstract!vars
<1>4. ASSUME NEW i \in Ids \ IdsHeld, eid' = i PROVE Abstract!Next
  <2>1. eid = None
    BY <1>1 DEF Extra, Named
  <2>2. i # served
    BY DEF IdsHeld
  <2>3. Abstract!Draw(i)
    BY <1>1, <1>2, <1>4, <2>1, <2>2 DEF Abstract!Draw
  <2> QED
    BY <2>3 DEF Abstract!Next
<1> QED
  BY <1>3, <1>4 DEF SendCfg

LEMMA ReadReadySimulates ==
    ASSUME IndInv, IndInv', NEW c \in Conns, ReadReady(c)
    PROVE  [Abstract!Next]_(Abstract!vars)
<1>1. epc = "readReady" /\ eEnd[c] = "hs" /\ UNCHANGED <<served, eid>>
  BY DEF ReadReady, bVars
<1>2. CASE epc' = "watch"
  <2>1. Offered
    BY <1>1, <1>2 DEF ReadReady, Offered
  <2>2. Abstract!Pair
    BY <1>1, <1>2, <2>1, StageIs DEF Abstract!Pair
  <2> QED
    BY <2>2 DEF Abstract!Next
<1>3. CASE epc' # "watch"
  <2>1. epc' = "failed" /\ (toE[c] = <<>> \/ Head(toE[c]).kind # "ack")
    BY <1>3 DEF ReadReady
  <2>2. ~Offered
    BY <1>1, <2>1 DEF Offered, IndInv, OneHandshake
  <2>3. ~Offered'
    BY <2>1 DEF Offered, IndInv, OneHandshake
  <2> QED
    BY <1>1, <2>1, <2>2, <2>3, Stutters
<1> QED
  BY <1>2, <1>3

LEMMA EnclaveWaits ==
    ASSUME IndInv, IndInv', NEW c \in Conns,
           \/ Dial(c) \/ SendAck(c) \/ ReadEnvFails(c)
           \/ ReadEnv(c) /\ ~EnclaveGone
    PROVE  UNCHANGED Abstract!vars
<1>1. /\ UNCHANGED <<served, eid>>
      /\ epc \in {"dial", "sendAck", "readEnv"} /\ epc' \in {"dial", "sendAck", "readEnv", "app"}
  BY DEF Dial, Connect, SendAck, ReadEnvFails, ReadEnv, bVars
<1>2. ~Offered
  BY <1>1, OfferIsRead
<1>3. ~Offered'
  BY <1>1, OfferWillBeRead
<1> QED
  BY <1>1, <1>2, <1>3, Stutters

LEMMA WatchdogsSimulate ==
    ASSUME IndInv, NEW c \in Conns,
           \/ WdAccept(c) \/ WdHandle(c) \/ WdBeat(c) \/ EnclaveWdBeat(c)
           \/ EnclaveWdDial(c) \/ EnclaveWdEnd(c)
           \/ EnclaveWdRead(c) /\ ~EnclaveGone
    PROVE  UNCHANGED Abstract!vars
<1>1. UNCHANGED <<served, epc, eid>>
  BY DEF WdAccept, WdHandle, WdRead, WdEnd, WdBeat, EnclaveWdBeat, EnclaveWdDial, Connect,
         EnclaveWdEnd, EnclaveWdRead, bVars, eVars
<1>2. Offered' <=> Offered
  <2>1. CASE WdAccept(c) \/ WdHandle(c) \/ EnclaveWdBeat(c)
    BY <2>1, SameEnds DEF WdAccept, WdHandle, WdRead, WdEnd, EnclaveWdBeat, eSide
  <2>2. CASE WdBeat(c)
    <3>1. Beat(served) \in Lines /\ Beat(served).kind # "ack"
      BY DEF Beat, Lines, IndInv, TypeOK
    <3> QED
      BY <2>2, <3>1, SendingKeepsOffer DEF WdBeat
  <2>3. CASE EnclaveWdDial(c)
    <3>1. eEnd[c] = "closed" /\ eEnd' = [eEnd EXCEPT ![c] = "wd"] /\ toE' = toE
      BY <2>3 DEF EnclaveWdDial, Connect, Free
    <3> QED
      BY <3>1 DEF Offered, IndInv, TypeOK
  <2>4. CASE EnclaveWdEnd(c)
    <3>1. eEnd[c] = "wd" /\ CloseEnclaveEnds({c})
      BY <2>4 DEF EnclaveWdEnd
    <3> QED
      BY <3>1 DEF Offered, CloseEnclaveEnds
  <2>5. CASE EnclaveWdRead(c) /\ ~EnclaveGone
    <3>1. eEnd[c] = "wd" /\ eEnd' = eEnd /\ \A d \in Conns : d # c => toE'[d] = toE[d]
      BY <2>5 DEF EnclaveWdRead, IndInv, TypeOK
    <3> QED
      BY <3>1 DEF Offered
  <2> QED
    BY <2>1, <2>2, <2>3, <2>4, <2>5
<1> QED
  BY <1>1, <1>2, Stutters

LEMMA StepPairs ==
    ASSUME IndInv, IndInv', Extra, Next
    PROVE  [Abstract!Next]_(Abstract!vars)
<1>1. CASE BridgeGone \/ EnclaveGone
  BY <1>1, BridgeGoneSimulates, EnclaveGoneSimulates
<1>2. ASSUME NEW c \in Conns, BridgeStep(c), ~BridgeGone, ~Strand
      PROVE  [Abstract!Next]_(Abstract!vars)
  <2>1. CASE Start \/ Accept(c) \/ ReadAck(c) \/ SetUp
    <3>1. UNCHANGED <<served, epc, eid, eEnd, toE>>
      BY <1>2, <2>1 DEF Start, Accept, ReadAck, SetUp, eVars, eSide
    <3> QED
      BY <3>1, SameEnds, Stutters
  <2>2. CASE SendEnv(c)
    <3>1. ToEnclave(c, Env) /\ UNCHANGED <<served, epc, eid, eEnd>>
      BY <1>2, <2>2 DEF SendEnv, eVars
    <3>2. Env \in Lines /\ Env.kind # "ack"
      BY DEF Env, Lines
    <3> QED
      BY <3>1, <3>2, SendingKeepsOffer, Stutters
  <2>3. CASE ReadCfg(c) \/ SendReady(c)
    BY <1>2, <2>3, ReadCfgSimulates, SendReadySimulates
  <2> QED
    BY <1>2, <2>1, <2>2, <2>3 DEF BridgeStep, BridgeReadFails, Exit
<1>3. ASSUME NEW c \in Conns, EnclaveStep(c), ~EnclaveGone PROVE [Abstract!Next]_(Abstract!vars)
  <2>1. CASE EnclaveStart
    <3>1. UNCHANGED <<served, eid, eEnd, toE>> /\ epc # "watch" /\ epc' # "watch"
      BY <2>1 DEF EnclaveStart, bVars, eSide
    <3> QED
      BY <3>1, SameEnds, Stutters
  <2>2. CASE Dial(c) \/ SendAck(c) \/ ReadEnv(c) \/ ReadEnvFails(c)
    BY <1>3, <2>2, EnclaveWaits
  <2>3. CASE SendCfg(c) \/ ReadReady(c)
    BY <2>3, SendCfgSimulates, ReadReadySimulates
  <2> QED
    BY <1>3, <2>1, <2>2, <2>3 DEF EnclaveStep, Fail
<1>4. ASSUME NEW c \in Conns, ~EnclaveGone,
             WdAccept(c) \/ WdHandle(c) \/ WdBeat(c) \/ EnclaveWdHandle(c) \/ EnclaveWdBeat(c)
      PROVE  UNCHANGED Abstract!vars
  BY <1>4, WatchdogsSimulate DEF EnclaveWdHandle
<1>5. CASE WdVerdict \/ WdQuiet \/ WdStop({})
  <2>1. UNCHANGED <<served, epc, eid, eEnd, toE>>
    BY <1>5 DEF WdVerdict, WdMismatch, WdTimeout, WdStop, WdQuiet, eVars, eSide
  <2> QED
    BY <2>1, SameEnds, Stutters
<1>6. CASE Strand
  BY <1>6, StrandStutters
<1> QED
  BY <1>1, <1>2, <1>3, <1>4, <1>5, <1>6 DEF Next, EnclaveWdTimeout, Fault

\* The handshake pairs one bridge with one enclave as if in a single step
\* (bridge.go 54-136 with enclave_setup.go 51-162, on either's restarts).
THEOREM Implements == Spec => PairingSpec
<1>1. Init => Abstract!Init
  <2> SUFFICES ASSUME Init PROVE served = None /\ eid = None /\ Stage = "apart"
    BY DEF Abstract!Init
  <2> QED
    BY StageIs DEF Init, Offered
<1>2. IndInv /\ IndInv' /\ Extra /\ [Next]_vars => [Abstract!Next]_(Abstract!vars)
  <2>1. ASSUME UNCHANGED vars PROVE UNCHANGED Abstract!vars
    BY <2>1, SameEnds, Stutters DEF vars, bVars, eVars, eSide
  <2> QED
    BY <2>1, StepPairs
<1> QED
  BY <1>1, <1>2, MoreInvariance, PTL DEF Spec, PairingSpec, Abstract!Spec
=============================================================================
