---------------------------- MODULE HeartbeatProofs ----------------------------
(***************************************************************************)
(* HeartbeatTiming, for every interval and latency and every break: a      *)
(* living peer is not given up on a connection that lasts, a dead one is   *)
(* given up in time.                                                       *)
(*                                                                         *)
(* HeartbeatFraming, for IDs of any length and any bytes: a foreign ID is  *)
(* never taken for ours, and ours is recognised if it has no newline.      *)
(***************************************************************************)
EXTENDS HeartbeatTiming, HeartbeatFraming, SequenceTheorems, TLAPS

-----------------------------------------------------------------------------
\* Timing.

Alive == dead = None

\* How far the watchdog's ticker may be behind on a connection that is up, by
\* what there is to wait for.  Before the first heartbeat there is no bound, only
\* the youth of the connection; what is under way then was sent on an earlier one.
\* While a heartbeat is under way the ticker may still count from before the
\* connection, but only if that heartbeat is the first.
Behind ==
    Alive /\ conn = "up" =>
        /\ ~beaten => age = phase /\ (flight # None => phase <= flight)
        /\ beaten /\ flight # None => /\ flight = phase
                                      /\ age <= Half + flight \/ since <= Half + flight
        /\ beaten /\ flight = None => since <= phase

\* How long a peer has been dead, by the heartbeat that it left under way.
Overdue ==
    dead # None => IF flight # None THEN dead <= flight ELSE dead <= since + Delay

IndInv == TypeOK /\ Behind /\ Overdue /\ NoFalseAlarm

USE DEF None

-----------------------------------------------------------------------------
LEMMA HalfFact == Half \in Nat /\ Half > 0 /\ Delay < Half /\ Half + Delay < Interval
  BY TimesAssumption, HalfAssumption DEF Half

LEMMA InitInv == Init => IndInv
<1> SUFFICES ASSUME Init PROVE IndInv
    OBVIOUS
<1>1. TypeOK
  <2>1. beaten \in BOOLEAN
    BY DEF Init
  <2> QED
    BY <2>1, HalfFact, TimesAssumption DEF Init, TypeOK
<1>2. Behind
  BY HalfFact, TimesAssumption DEF Init, Behind
<1>3. Overdue /\ NoFalseAlarm
  BY DEF Init, Overdue, NoFalseAlarm
<1> QED
  BY <1>1, <1>2, <1>3 DEF IndInv

\* Each action for itself; Half stays closed, HalfFact says all about it.
LEMMA StepInv == IndInv /\ [Next]_vars => IndInv'
<1> SUFFICES ASSUME IndInv, [Next]_vars PROVE IndInv'
    OBVIOUS
<1> USE HalfFact, TimesAssumption
<1>1. CASE Tick
  <2>1. TypeOK'
    BY <1>1 DEF Tick, IndInv, TypeOK, Behind, Alive, Expiry, Period
  <2>2. Behind'
    <3> SUFFICES ASSUME Alive', conn' = "up" PROVE Behind'
        BY DEF Behind
    <3>1. Alive /\ conn = "up"
      BY <1>1 DEF Tick, Alive, IndInv, TypeOK
    <3>2. CASE ~beaten
      BY <1>1, <3>1, <3>2 DEF Tick, IndInv, TypeOK, Behind, Alive, Period
    <3>3. CASE beaten
      BY <1>1, <3>1, <3>3 DEF Tick, IndInv, TypeOK, Behind, Alive
    <3> QED
      BY <3>2, <3>3 DEF IndInv, TypeOK
  <2>3. Overdue'
    BY <1>1 DEF Tick, IndInv, TypeOK, Overdue, Expiry, Period
  <2>4. NoFalseAlarm'
    BY <1>1 DEF Tick, IndInv, TypeOK, NoFalseAlarm
  <2> QED
    BY <2>1, <2>2, <2>3, <2>4 DEF IndInv
<1>2. CASE Connect
  <2>1. beaten' \in BOOLEAN
    BY <1>2 DEF Connect
  <2>2. TypeOK' /\ Overdue' /\ NoFalseAlarm'
    BY <1>2, <2>1 DEF Connect, IndInv, TypeOK, Overdue, NoFalseAlarm
  <2>3. Behind'
    BY <1>2 DEF Connect, IndInv, TypeOK, Behind, Alive
  <2> QED
    BY <2>2, <2>3 DEF IndInv
<1>3. CASE Beat
  BY <1>3 DEF Beat, IndInv, TypeOK, Behind, Overdue, NoFalseAlarm, Alive, Period
<1>4. CASE Read
  BY <1>4 DEF Read, IndInv, TypeOK, Behind, Overdue, NoFalseAlarm, Alive
<1>5. CASE Break
  BY <1>5 DEF Break, IndInv, TypeOK, Behind, Overdue, NoFalseAlarm, Alive
<1>6. CASE Die
  BY <1>6 DEF Die, IndInv, TypeOK, Behind, Overdue, NoFalseAlarm, Alive
<1>7. CASE Timeout
  \* Whatever there is to wait for, on a connection that is old enough the
  \* ticker is behind by less than an interval.
  <2>1. Alive /\ conn = "up" => age <= Half + Delay \/ since < Interval
    BY DEF IndInv, TypeOK, Behind, Alive
  <2>2. NoFalseAlarm'
    BY <1>7, <2>1 DEF Timeout, Expiry, IndInv, TypeOK, Alive, NoFalseAlarm
  <2>3. TypeOK' /\ Behind' /\ Overdue'
    BY <1>7 DEF Timeout, IndInv, TypeOK, Behind, Overdue, Alive
  <2> QED
    BY <2>2, <2>3 DEF IndInv
<1>8. CASE UNCHANGED vars
  BY <1>8 DEF vars, IndInv, TypeOK, Behind, Overdue, NoFalseAlarm, Alive
<1> QED
  BY <1>1, <1>2, <1>3, <1>4, <1>5, <1>6, <1>7, <1>8 DEF Next

LEMMA Inductive == Spec => []IndInv
  BY InitInv, StepInv, PTL DEF Spec

\* Every variable of the clock keeps to its type.
THEOREM Typed == Spec => []TypeOK
<1>1. IndInv => TypeOK
  BY DEF IndInv
<1> QED
  BY Inductive, <1>1, PTL

\* Heartbeat and startTicker, with breaks at any moment and outages of any
\* length: a living peer is given up only without a connection, or on one too
\* young for its first heartbeat to be overdue.
THEOREM NeverFalse == Spec => []NoFalseAlarm
<1>1. IndInv => NoFalseAlarm
  BY DEF IndInv
<1> QED
  BY Inductive, <1>1, PTL

\* startTicker: it gives up a dead one after an interval and a latency.
THEOREM InTime == Spec => []DetectedInTime
<1>1. IndInv => DetectedInTime
  BY HalfFact, TimesAssumption DEF IndInv, TypeOK, Overdue, DetectedInTime
<1> QED
  BY Inductive, <1>1, PTL

-----------------------------------------------------------------------------
\* Framing.

\* A reader finds a whole heartbeat at the head of the socket, or nothing.
Whole ==
    socket # <<>> =>
        /\ Len(socket) > IdLen
        /\ \A i \in 1..IdLen : socket[i] = theirs[i]
        /\ socket[IdLen + 1] = NL

FramingInv == FramingTypeOK /\ Whole /\ NotFooled /\ Recognised

LEMMA Sizes == NL \in Bytes /\ IdLen \in Nat /\ BufSize \in Nat
  BY BytesAssumption, SizesAssumption

LEMMA IdIsSequence ==
    ASSUME NEW id \in Ids
    PROVE  id \in Seq(Bytes) /\ Len(id) = IdLen
  BY Sizes DEF Ids

\* The first line of a whole heartbeat is the ID, unless there is a newline in
\* the ID, which makes it shorter than any ID.
LEMMA LineOfHeartbeat ==
    ASSUME theirs \in Ids, socket \in Seq(Bytes), Whole,
           NEW n \in 1..Len(socket), socket[n] = NL,
           \A i \in 1..(n - 1) : socket[i] # NL
    PROVE  LET line == WithoutDelimiter(SubSeq(socket, 1, n))
           IN  IF \E i \in 1..IdLen : theirs[i] = NL
               THEN Len(line) # IdLen
               ELSE line = theirs
<1> DEFINE line == WithoutDelimiter(SubSeq(socket, 1, n))
<1>1. /\ IdLen \in Nat /\ Len(socket) \in Nat /\ n \in Nat /\ socket # <<>>
      /\ theirs \in Seq(Bytes) /\ Len(theirs) = IdLen
  BY IdIsSequence, EmptySeq, LenProperties, Sizes
<1>2. /\ Len(socket) > IdLen
      /\ \A i \in 1..IdLen : socket[i] = theirs[i]
      /\ socket[IdLen + 1] = NL
  BY <1>1 DEF Whole
<1>3. n <= IdLen + 1
  BY <1>1, <1>2
<1>4. /\ SubSeq(socket, 1, n) \in Seq(Bytes) /\ Len(SubSeq(socket, 1, n)) = n
      /\ \A i \in 1..n : SubSeq(socket, 1, n)[i] = socket[i]
  BY <1>1, SubSeqProperties
<1>5. /\ line \in Seq(Bytes) /\ Len(line) = n - 1
      /\ \A i \in 1..(n - 1) : line[i] = socket[i]
  BY <1>1, <1>4, SubSeqProperties DEF WithoutDelimiter
<1>6. CASE \E i \in 1..IdLen : theirs[i] = NL
  <2>1. n <= IdLen
    BY <1>1, <1>2, <1>6
  <2> QED
    BY <1>1, <1>5, <1>6, <2>1
<1>7. CASE ~ \E i \in 1..IdLen : theirs[i] = NL
  <2>1. n = IdLen + 1
    BY <1>1, <1>2, <1>3, <1>7
  <2>2. line = theirs
    BY <1>1, <1>2, <1>5, <2>1, SeqEqual
  <2> QED
    BY <1>7, <2>2
<1> QED
  BY <1>6, <1>7

LEMMA FramingInitInv == FramingInit => FramingInv
<1> SUFFICES ASSUME FramingInit PROVE FramingInv
  OBVIOUS
<1>1. socket = <<>> /\ socket \in Seq(Bytes) /\ Len(socket) = 0
  BY DEF FramingInit
<1> QED
  BY <1>1, Sizes DEF FramingInv, Whole, FramingInit, FramingTypeOK, NotFooled,
              Recognised

LEMMA FramingStepInv == FramingInv /\ [FramingNext]_framingVars => FramingInv'
<1> SUFFICES ASSUME FramingInv, [FramingNext]_framingVars PROVE FramingInv'
  OBVIOUS
<1>1. CASE WriteID
  <2>1. theirs \in Seq(Bytes) /\ Len(theirs) = IdLen /\ IdLen \in Nat /\ BufSize \in Nat
    BY IdIsSequence, Sizes DEF FramingInv, FramingTypeOK
  <2>2. /\ Message \in Seq(Bytes) /\ Len(Message) = IdLen + 1
        /\ \A i \in 1..IdLen : Message[i] = theirs[i]
        /\ Message[IdLen + 1] = NL
    BY <2>1, AppendProperties, Sizes DEF Message
  <2>3. socket \in Seq(Bytes) /\ Len(socket) \in Nat
    BY LenProperties DEF FramingInv, FramingTypeOK
  <2>4. /\ socket' \in Seq(Bytes) /\ Len(socket') = Len(socket) + IdLen + 1
        /\ Len(socket') <= BufSize
        /\ \A i \in 1..Len(socket') :
              socket'[i] = IF i <= Len(socket) THEN socket[i] ELSE Message[i - Len(socket)]
    <3> DEFINE message == Message
    <3>1. /\ socket \o message \in Seq(Bytes)
          /\ Len(socket \o message) = Len(socket) + Len(message)
          /\ \A i \in 1..(Len(socket) + Len(message)) :
                (socket \o message)[i] =
                    IF i <= Len(socket) THEN socket[i] ELSE message[i - Len(socket)]
      BY <2>2, <2>3, ConcatProperties
    <3>2. socket' = socket \o message /\ Len(socket \o message) <= BufSize
      BY <1>1 DEF WriteID
    <3> QED
      BY <2>1, <2>2, <2>3, <3>1, <3>2
  <2>5. Whole'
    <3>1. CASE socket = <<>>
      BY <1>1, <2>1, <2>2, <2>4, <3>1 DEF Whole, WriteID
    <3>2. CASE socket # <<>>
      BY <1>1, <2>1, <2>3, <2>4, <3>2 DEF Whole, FramingInv, WriteID
    <3> QED
      BY <3>1, <3>2
  <2> QED
    BY <1>1, <2>4, <2>5 DEF FramingInv, WriteID, FramingTypeOK, NotFooled,
                            Recognised
<1>2. CASE ReadLine
  <2>1. /\ socket \in Seq(Bytes) /\ Len(socket) \in Nat /\ Len(socket) <= BufSize
        /\ ours \in Ids \ {Nil} /\ theirs \in Ids
        /\ IdLen \in Nat /\ BufSize \in Nat
    BY LenProperties, Sizes DEF FramingInv, FramingTypeOK
  <2>2. (IF Len(socket) < BufSize THEN Len(socket) ELSE BufSize) = Len(socket)
    BY <2>1
  <2>3. PICK n \in 1..Len(socket) :
              /\ socket[n] = NL /\ \A i \in 1..(n - 1) : socket[i] # NL
              /\ seen' = IF Matches(WithoutDelimiter(SubSeq(socket, 1, n)))
                           THEN "reset" ELSE "mismatch"
              /\ socket' = SubSeq(socket, Len(socket) + 1, Len(socket))
    BY <1>2, <2>2 DEF ReadLine
  <2>4. socket' = <<>> /\ socket' \in Seq(Bytes) /\ Len(socket') = 0
    BY <2>1, <2>3, SubSeqProperties, EmptySeq
  <2> DEFINE line == WithoutDelimiter(SubSeq(socket, 1, n))
  <2>5. IF \E i \in 1..IdLen : theirs[i] = NL THEN Len(line) # IdLen ELSE line = theirs
    BY <2>1, <2>3, LineOfHeartbeat DEF FramingInv
  <2>6. Len(theirs) = IdLen
    BY <2>1, IdIsSequence
  <2> HIDE DEF line
  <2>7. Matches(line) => theirs = ours
    BY <2>1, <2>5, <2>6 DEF Matches, FromBytesOrNil
  <2>8. ~Matches(line) => theirs # ours \/ \E i \in 1..IdLen : ours[i] = NL
    BY <2>1, <2>5, <2>6 DEF Matches, FromBytesOrNil
  <2>9. /\ seen' = IF Matches(line) THEN "reset" ELSE "mismatch"
        /\ ours' = ours /\ theirs' = theirs
    BY <1>2, <2>3 DEF line, ReadLine
  <2>10. FramingTypeOK'
    BY <2>1, <2>4, <2>9 DEF FramingInv, FramingTypeOK
  <2>11. NotFooled' /\ Recognised'
    BY <2>7, <2>8, <2>9 DEF NotFooled, Recognised
  <2> QED
    BY <2>4, <2>10, <2>11 DEF FramingInv, Whole
<1>3. CASE UNCHANGED framingVars
  BY <1>3 DEF framingVars, FramingInv, Whole, FramingTypeOK, NotFooled, Recognised
<1> QED
  BY <1>1, <1>2, <1>3 DEF FramingNext

LEMMA FramingInductive == FramingSpec => []FramingInv
  BY FramingInitInv, FramingStepInv, PTL DEF FramingSpec

\* Every variable of the byte stream keeps to its type, and what waits fits the
\* buffer of a reader.
THEOREM FramingTyped == FramingSpec => []FramingTypeOK
<1>1. FramingInv => FramingTypeOK
  BY DEF FramingInv
<1> QED
  BY FramingInductive, <1>1, PTL

\* HandleConn and uuid.FromBytesOrNil: whatever the bytes of the two IDs are,
\* newlines included, the ticker is never reset by a foreign one.
THEOREM Unfooled == FramingSpec => []NotFooled
<1>1. FramingInv => NotFooled
  BY DEF FramingInv
<1> QED
  BY FramingInductive, <1>1, PTL

\* HandleConn over ReadBytesWithContext: readers that forget what they buffered
\* never make a mismatch of our own ID, unless it holds the delimiter.
THEOREM Known == FramingSpec => []Recognised
<1>1. FramingInv => Recognised
  BY DEF FramingInv
<1> QED
  BY FramingInductive, <1>1, PTL
=============================================================================
