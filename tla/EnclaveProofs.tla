---------------------------- MODULE EnclaveProofs ----------------------------
(***************************************************************************)
(* Proofs about pkg/enclave: CtxIO, for any number of concurrent calls,    *)
(* and Handshake, for any number of goroutines around BridgeHandshake.     *)
(*                                                                         *)
(* ResultAccounted is not inductive: whether a result is accounted for     *)
(* depends on what the two channels hold at each point of the worker.      *)
(* CallInv says it, call by call; the calls share nothing but the context. *)
(*                                                                         *)
(* For Handshake, HandshakeInv says who holds the mutex (Owner), in which  *)
(* order the goroutines start (Order), that the verdict on the bridge is   *)
(* in place before ready is closed (Verdict), and where an environment may *)
(* be in pieces (Built).                                                   *)
(***************************************************************************)
EXTENDS CtxIO, Handshake, TLAPS

-----------------------------------------------------------------------------
\* CtxIO.

\* The worker has not come to the test of the context, or is past the test
\* and has sent nothing.
Unsent(c) ==
    /\ worker[c] \in {"io", "check", "sendFirst"}
    /\ first[c] = Open /\ second[c] = Open

Past(c) == worker[c] \in {"sendErr", "closeFirst", "closeErr", "done"}

\* What errChan holds until it is received, if the worker sends.
ErrSent(c) ==
    /\ Past(c)
    /\ IF c \in Reads /\ worker[c] # "sendErr"
       THEN second[c].buf = <<outcome[c].err>>
       ELSE second[c].buf = <<>>
    /\ worker[c] = "sendErr" => ~second[c].closed /\ c \in Reads

\* The worker found the context cancelled.
Skipped(c) ==
    /\ cancelled
    /\ worker[c] \in {"closeFirst", "closeErr", "done"}
    /\ first[c].buf = <<>> /\ second[c].buf = <<>>

CallInv(c) ==
    /\ c \notin Reads => outcome[c].data = "nothing"
    /\ caller[c] = "select" =>
          /\ result[c] = Zero
          /\ \/ Unsent(c)
             \/ ErrSent(c) /\ first[c].buf = <<FirstValue(c)>>
             \/ Skipped(c)
    /\ caller[c] = "recvErr" =>
          /\ c \in Reads
          /\ \/ ErrSent(c) /\ result[c].data = outcome[c].data
             \/ Skipped(c) /\ result[c].data = "nothing"
    /\ caller[c] = "returned" =>
          IF Past(c)
          THEN result[c] = outcome[c] \/ (cancelled /\ result[c] \in {Cancelled, Zero})
          ELSE cancelled /\ result[c] = Cancelled

IndInv == IOTypeOK /\ \A c \in Calls : CallInv(c)

-----------------------------------------------------------------------------
LEMMA ZerosTyped ==
    /\ Zero \in [data : Datas, err : Errs]
    /\ \A S : Open \in [buf : Seq(S), closed : BOOLEAN]
<1>1. \A S : <<>> \in Seq(S)
  OBVIOUS
<1> QED
  BY <1>1 DEF Zero, Open, Datas, Errs

LEMMA InitTyped == IOInit => IOTypeOK
<1>1. Open \in [buf : Seq(Datas \cup Errs), closed : BOOLEAN]
  BY ZerosTyped
<1>2. Open \in [buf : Seq(Errs), closed : BOOLEAN]
  BY ZerosTyped
<1>3. Zero \in [data : Datas, err : Errs]
  BY ZerosTyped
<1>4. ASSUME IOInit
      PROVE  /\ first \in [Calls -> [buf : Seq(Datas \cup Errs), closed : BOOLEAN]]
             /\ second \in [Calls -> [buf : Seq(Errs), closed : BOOLEAN]]
  BY <1>1, <1>2, <1>4 DEF IOInit
<1>5. ASSUME IOInit
      PROVE  /\ cancelled \in BOOLEAN
             /\ worker \in [Calls -> WorkerPCs]
             /\ caller \in [Calls -> {"select", "recvErr", "returned"}]
  BY <1>5 DEF IOInit, WorkerPCs
<1>6. ASSUME IOInit
      PROVE  /\ outcome \in [Calls -> [data : Datas, err : Errs]]
             /\ result \in [Calls -> [data : Datas, err : Errs]]
  BY <1>3, <1>6 DEF IOInit
<1> QED
  BY <1>4, <1>5, <1>6 DEF IOTypeOK

LEMMA OutcomesTyped ==
    ASSUME NEW c \in Calls, NEW o \in Outcomes(c)
    PROVE  /\ o \in [data : Datas, err : Errs]
           /\ c \notin Reads => o.data = "nothing"
BY DEF Outcomes, Datas, Errs, Zero

LEMMA FirstValueTyped ==
    ASSUME IOTypeOK, NEW c \in Calls
    PROVE  FirstValue(c) \in Datas \cup Errs
BY DEF IOTypeOK, FirstValue

LEMMA NextTyped == IndInv /\ [IONext]_ioVars => IOTypeOK'
<1> SUFFICES ASSUME IndInv, [IONext]_ioVars PROVE IOTypeOK'
  OBVIOUS
<1>0. IOTypeOK /\ \A c \in Calls : CallInv(c)
  BY DEF IndInv
<1> USE <1>0
<1> USE DEF WorkerPCs
<1>1. CASE Cancel
  BY <1>1 DEF IOTypeOK, Cancel
<1>2. ASSUME NEW c \in Calls, IOCompletes(c) PROVE IOTypeOK'
  BY <1>2, OutcomesTyped DEF IOTypeOK, IOCompletes
<1>3. ASSUME NEW c \in Calls, WorkerStep(c) PROVE IOTypeOK'
  <2>1. CASE CheckCtx(c)
    BY <2>1 DEF IOTypeOK, CheckCtx
  <2>2. CASE SendFirst(c)
    <3>1. Append(first[c].buf, FirstValue(c)) \in Seq(Datas \cup Errs)
      BY FirstValueTyped DEF IOTypeOK
    <3> QED
      BY <2>2, <3>1 DEF IOTypeOK, SendFirst
  <2>3. CASE SendErr(c)
    <3>1. Append(second[c].buf, outcome[c].err) \in Seq(Errs)
      BY DEF IOTypeOK
    <3> QED
      BY <2>3, <3>1 DEF IOTypeOK, SendErr
  <2>4. CASE CloseFirst(c)
    BY <2>4 DEF IOTypeOK, CloseFirst
  <2>5. CASE CloseErr(c)
    BY <2>5 DEF IOTypeOK, CloseErr
  <2> QED
    BY <1>3, <2>1, <2>2, <2>3, <2>4, <2>5 DEF WorkerStep
<1>4. ASSUME NEW c \in Calls, CallerStep(c) PROVE IOTypeOK'
  <2>1. CASE SelectDone(c)
    BY <2>1 DEF IOTypeOK, SelectDone, Cancelled, Datas, Errs
  <2>2. CASE SelectChan(c)
    <3>1. first[c].buf # <<>> => first[c].buf = <<FirstValue(c)>>
      BY <2>2 DEF SelectChan, CallInv, Unsent, ErrSent, Skipped, Past, Open
    <3>2. c \in Reads => Received(first[c], "nothing") \in Datas
      BY <3>1 DEF IOTypeOK, Received, FirstValue, Datas
    <3>3. c \notin Reads => Received(first[c], "nil") \in Errs
      BY <3>1 DEF IOTypeOK, Received, FirstValue, Errs
    <3>4. first' \in [Calls -> [buf : Seq(Datas \cup Errs), closed : BOOLEAN]]
      <4>1. <<>> \in Seq(Datas \cup Errs)
        OBVIOUS
      <4>2. first' = [first EXCEPT ![c].buf = <<>>]
        BY <2>2 DEF SelectChan
      <4> QED
        BY <4>1, <4>2 DEF IOTypeOK
    <3>5. /\ caller' \in [Calls -> {"select", "recvErr", "returned"}]
          /\ result' \in [Calls -> [data : Datas, err : Errs]]
      <4>1. CASE c \in Reads
        <5>1. /\ caller' = [caller EXCEPT ![c] = "recvErr"]
              /\ result' = [result EXCEPT ![c].data = Received(first[c], "nothing")]
          BY <2>2, <4>1 DEF SelectChan
        <5> QED
          BY <5>1, <4>1, <3>2 DEF IOTypeOK
      <4>2. CASE c \notin Reads
        <5>1. /\ caller' = [caller EXCEPT ![c] = "returned"]
              /\ result' = [result EXCEPT ![c].err = Received(first[c], "nil")]
          BY <2>2, <4>2 DEF SelectChan
        <5> QED
          BY <5>1, <4>2, <3>3 DEF IOTypeOK
      <4> QED
        BY <4>1, <4>2
    <3> QED
      BY <2>2, <3>4, <3>5 DEF IOTypeOK, SelectChan
  <2>3. CASE RecvErr(c)
    <3>1. Received(second[c], "nil") \in Errs
      BY DEF IOTypeOK, Received, Errs
    <3>2. second' \in [Calls -> [buf : Seq(Errs), closed : BOOLEAN]]
      <4>1. <<>> \in Seq(Errs)
        OBVIOUS
      <4> QED
        BY <2>3, <4>1 DEF IOTypeOK, RecvErr
    <3>3. result' \in [Calls -> [data : Datas, err : Errs]]
      BY <2>3, <3>1 DEF IOTypeOK, RecvErr
    <3>4. caller' \in [Calls -> {"select", "recvErr", "returned"}]
      BY <2>3 DEF IOTypeOK, RecvErr
    <3> QED
      BY <2>3, <3>2, <3>3, <3>4 DEF IOTypeOK, RecvErr
  <2> QED
    BY <1>4, <2>1, <2>2, <2>3 DEF CallerStep
<1>5. CASE UNCHANGED ioVars
  BY <1>5 DEF IOTypeOK, ioVars
<1> QED
  BY <1>1, <1>2, <1>3, <1>4, <1>5 DEF IONext

-----------------------------------------------------------------------------
LEMMA InitInductive == IOInit => IndInv
<1> SUFFICES ASSUME IOInit PROVE IndInv
  OBVIOUS
<1>1. IOTypeOK
  BY InitTyped
<1>2. ASSUME NEW c \in Calls PROVE CallInv(c)
  BY DEF IOInit, CallInv, Unsent, Zero
<1> QED
  BY <1>1, <1>2 DEF IndInv

\* A step of one call leaves the others' part of the invariant alone.
Same(c) ==
    /\ cancelled' = cancelled /\ worker'[c] = worker[c] /\ outcome'[c] = outcome[c]
    /\ first'[c] = first[c] /\ second'[c] = second[c]
    /\ caller'[c] = caller[c] /\ result'[c] = result[c]

LEMMA SameKeeps ==
    ASSUME NEW c \in Calls, CallInv(c), Same(c)
    PROVE  CallInv(c)'
BY DEF CallInv, Same, Unsent, ErrSent, Skipped, Past, FirstValue

LEMMA StepIsLocal ==
    ASSUME IOTypeOK, NEW c \in Calls, NEW d \in Calls, d # c,
           IOCompletes(d) \/ WorkerStep(d) \/ CallerStep(d)
    PROVE  Same(c)
<1>1. CASE IOCompletes(d)
  BY <1>1 DEF Same, IOTypeOK, IOCompletes
<1>2. CASE WorkerStep(d)
  BY <1>2 DEF Same, IOTypeOK, WorkerStep, CheckCtx, SendFirst, SendErr, CloseFirst, CloseErr
<1>3. CASE CallerStep(d)
  BY <1>3 DEF Same, IOTypeOK, CallerStep, SelectDone, SelectChan, RecvErr
<1> QED
  BY <1>1, <1>2, <1>3

LEMMA CallKeeps ==
    ASSUME IOTypeOK, NEW c \in Calls, CallInv(c),
           IOCompletes(c) \/ WorkerStep(c) \/ CallerStep(c)
    PROVE  CallInv(c)'
<1>1. CASE IOCompletes(c)
  BY <1>1, OutcomesTyped
     DEF IOTypeOK, IOCompletes, CallInv, Unsent, ErrSent, Skipped, Past
<1>2. CASE CheckCtx(c)
  BY <1>2 DEF IOTypeOK, CheckCtx, CallInv, Unsent, ErrSent, Skipped, Past, Open
<1>3. CASE SendFirst(c)
  <2>1. /\ first'[c].buf = Append(first[c].buf, FirstValue(c))
        /\ worker'[c] = IF c \in Reads THEN "sendErr" ELSE "closeFirst"
        /\ UNCHANGED <<cancelled, outcome, second, caller, result>>
    BY <1>3 DEF IOTypeOK, SendFirst
  <2>2. caller[c] # "recvErr"
    BY <1>3 DEF SendFirst, CallInv, ErrSent, Skipped, Past
  <2>3. CASE caller[c] = "select"
    <3>1. first[c] = Open /\ second[c] = Open
      BY <1>3, <2>3 DEF SendFirst, CallInv, Unsent, ErrSent, Skipped, Past
    <3>2. first'[c].buf = <<FirstValue(c)>> /\ second'[c].buf = <<>> /\ ~second'[c].closed
      BY <2>1, <3>1 DEF Open
    <3> QED
      BY <2>1, <2>3, <3>2 DEF CallInv, ErrSent, Past, FirstValue
  <2>4. CASE caller[c] = "returned"
    <3>1. cancelled /\ result[c] = Cancelled
      BY <1>3, <2>4 DEF SendFirst, CallInv, Past
    <3> QED
      BY <2>1, <2>4, <3>1 DEF CallInv
  <2> QED
    BY <2>2, <2>3, <2>4 DEF IOTypeOK
<1>4. CASE SendErr(c)
  <2>1. /\ second'[c].buf = Append(second[c].buf, outcome[c].err)
        /\ worker[c] = "sendErr" /\ worker'[c] = "closeFirst"
        /\ UNCHANGED <<cancelled, outcome, first, caller, result>>
    BY <1>4 DEF IOTypeOK, SendErr
  <2>2. CASE caller[c] \in {"select", "recvErr"}
    <3>1. ErrSent(c)
      BY <2>1, <2>2 DEF CallInv, Unsent, Skipped
    <3>2. c \in Reads /\ second'[c].buf = <<outcome[c].err>>
      <4>1. c \in Reads /\ second[c].buf = <<>>
        BY <2>1, <3>1 DEF ErrSent
      <4> QED
        BY <2>1, <4>1
    <3>3. ErrSent(c)'
      BY <2>1, <3>2 DEF ErrSent, Past
    <3> QED
      <4>1. FirstValue(c)' = FirstValue(c) /\ ~Unsent(c) /\ ~Skipped(c)
        BY <2>1 DEF FirstValue, Unsent, Skipped
      <4>2. caller[c] = "select" => result[c] = Zero /\ first[c].buf = <<FirstValue(c)>>
        BY <4>1 DEF CallInv
      <4>3. caller[c] = "recvErr" => result[c].data = outcome[c].data
        BY <4>1 DEF CallInv
      <4> QED
        BY <2>1, <2>2, <3>2, <3>3, <4>1, <4>2, <4>3 DEF CallInv
  <2>3. CASE caller[c] = "returned"
    BY <2>1, <2>3 DEF CallInv, Past
  <2> QED
    BY <2>2, <2>3 DEF IOTypeOK
<1>5. CASE CloseFirst(c)
  BY <1>5 DEF IOTypeOK, CloseFirst, CallInv, Unsent, ErrSent, Skipped, Past, FirstValue
<1>6. CASE CloseErr(c)
  BY <1>6 DEF IOTypeOK, CloseErr, CallInv, Unsent, ErrSent, Skipped, Past, FirstValue
<1>7. CASE SelectDone(c)
  BY <1>7 DEF IOTypeOK, SelectDone, CallInv, Past
<1>8. CASE SelectChan(c)
  <2>1. /\ caller[c] = "select" /\ Ready(first[c]) /\ result[c] = Zero
        /\ caller'[c] = IF c \in Reads THEN "recvErr" ELSE "returned"
        /\ first'[c].buf = <<>>
        /\ UNCHANGED <<cancelled, worker, outcome, second>>
    BY <1>8 DEF IOTypeOK, SelectChan, CallInv
  <2>2. /\ c \in Reads => result'[c] = [data |-> Received(first[c], "nothing"), err |-> "nil"]
        /\ c \notin Reads => result'[c] = [data |-> "nothing", err |-> Received(first[c], "nil")]
    BY <1>8, <2>1 DEF IOTypeOK, SelectChan, Zero
  <2>3. ~Unsent(c)
    BY <2>1 DEF Unsent, Ready, Open
  <2>4. CASE ErrSent(c) /\ first[c].buf = <<FirstValue(c)>>
    <3>1. ErrSent(c)'
      BY <2>1, <2>4 DEF ErrSent, Past
    <3>2. c \in Reads => result'[c].data = outcome[c].data
      BY <2>2, <2>4 DEF Received, FirstValue
    <3>3. c \notin Reads => result'[c] = outcome[c]
      BY <2>2, <2>4 DEF Received, FirstValue, IOTypeOK, CallInv
    <3> QED
      BY <2>1, <3>1, <3>2, <3>3 DEF CallInv, ErrSent
  <2>5. CASE Skipped(c)
    <3>1. Skipped(c)' /\ Past(c)'
      BY <2>1, <2>5 DEF Skipped, Past
    <3>2. /\ c \in Reads => result'[c].data = "nothing"
          /\ c \notin Reads => result'[c] = Zero
      BY <2>2, <2>5 DEF Skipped, Received, Zero
    <3> QED
      BY <2>1, <3>1, <3>2 DEF CallInv, Skipped
  <2> QED
    BY <2>1, <2>3, <2>4, <2>5 DEF CallInv
<1>9. CASE RecvErr(c)
  <2>1. /\ caller[c] = "recvErr" /\ Ready(second[c]) /\ c \in Reads
        /\ caller'[c] = "returned"
        /\ result'[c] = [data |-> result[c].data, err |-> Received(second[c], "nil")]
        /\ UNCHANGED <<cancelled, worker, outcome>>
    BY <1>9 DEF IOTypeOK, RecvErr, CallInv
  <2>2. CASE ErrSent(c) /\ result[c].data = outcome[c].data
    <3>1. second[c].buf = <<outcome[c].err>>
      BY <2>1, <2>2 DEF ErrSent, Ready
    <3>2. result'[c] = outcome[c]
      BY <2>1, <2>2, <3>1 DEF Received, IOTypeOK
    <3> QED
      BY <2>1, <2>2, <3>2 DEF CallInv, ErrSent, Past
  <2>3. CASE Skipped(c) /\ result[c].data = "nothing"
    <3>1. result'[c] = Zero
      BY <2>1, <2>3 DEF Skipped, Received, Zero
    <3> QED
      BY <2>1, <2>3, <3>1 DEF CallInv, Skipped, Past
  <2> QED
    BY <2>1, <2>2, <2>3 DEF CallInv
<1> QED
  BY <1>1, <1>2, <1>3, <1>4, <1>5, <1>6, <1>7, <1>8, <1>9 DEF WorkerStep, CallerStep

LEMMA NextKeeps == IndInv /\ [IONext]_ioVars => IndInv'
<1> SUFFICES ASSUME IndInv, [IONext]_ioVars PROVE IndInv'
  OBVIOUS
<1>1. IOTypeOK /\ \A c \in Calls : CallInv(c)
  BY DEF IndInv
<1>2. IOTypeOK'
  BY NextTyped
<1>3. ASSUME NEW c \in Calls PROVE CallInv(c)'
  <2>1. CASE Cancel
    BY <1>1, <2>1 DEF Cancel, CallInv, Unsent, ErrSent, Skipped, Past, FirstValue
  <2>2. CASE UNCHANGED ioVars
    BY <1>1, <2>2, SameKeeps DEF ioVars, Same
  <2>3. ASSUME NEW d \in Calls, IOCompletes(d) \/ WorkerStep(d) \/ CallerStep(d)
        PROVE  CallInv(c)'
    <3>1. CASE d = c
      BY <1>1, <2>3, <3>1, CallKeeps
    <3>2. CASE d # c
      BY <1>1, <2>3, <3>2, StepIsLocal, SameKeeps
    <3> QED
      BY <3>1, <3>2
  <2> QED
    BY <2>1, <2>2, <2>3 DEF IONext
<1> QED
  BY <1>2, <1>3 DEF IndInv

-----------------------------------------------------------------------------
\* The wrappers are typed whatever the calls and however they interleave: in
\* particular what is received from a channel is of the channel's type.
THEOREM Typed == IOSpec => []IOTypeOK
<1>1. IndInv => IOTypeOK
  BY DEF IndInv
<1> QED
  BY InitInductive, NextKeeps, <1>1, PTL DEF IOSpec

\* A call never reports the data or the error of anything but its own read or
\* write (pkg/enclave/enclave.go 53-62 and 135-144).
THEOREM Accounted == IOSpec => []ResultAccounted
<1>1. IndInv => ResultAccounted
  BY DEF IndInv, CallInv, ResultAccounted
<1> QED
  BY InitInductive, NextKeeps, <1>1, PTL DEF IOSpec

-----------------------------------------------------------------------------
\* Handshake.

\* The mutex is held in the middle of StartHandshake, and of FinishHandshakeAndWait.
Owner ==
    /\ mutex = "main" <=> main \in {"dial", "hello", "read", "parse", "reject"}
    /\ mutex = "finish" <=> finish = "write"

\* The goroutines start one after the other.
Order ==
    /\ main \in {"lock", "dial", "hello", "read", "parse", "reject", "setup", "failed"} => finish = "none"
    /\ finish \in {"none", "lock", "write"} => acker = "none"
    /\ ready <=> acker = "done"
    /\ main \in {"listen", "join", "ended"} => ready

\* Before ready is closed the verdict is there, and it is that of the ACK.
Verdict ==
    /\ acker \in {"none", "read"} => err = "none" /\ ~heard
    /\ acker \in {"close", "mark", "done"} => (err = "none" <=> heard)

\* An environment in pieces is behind the mutex, or that of a failed handshake.
Built ==
    /\ env \in {"empty", "part"} => main \in {"parse", "reject", "failed", "fatal"}
    /\ EnvironmentWhole

HandshakeInv == TypeOK /\ Owner /\ Order /\ Verdict /\ ReadyIsTrue /\ Built

LEMMA HandshakeInit == Init => HandshakeInv
<1> SUFFICES ASSUME Init PROVE HandshakeInv
  OBVIOUS
<1>1. /\ ready \in BOOLEAN /\ signalled \in BOOLEAN /\ up \in BOOLEAN
      /\ linked \in BOOLEAN /\ heard \in BOOLEAN
  BY DEF Init
<1>2. TypeOK
  BY <1>1 DEF Init, TypeOK
<1>3. Owner /\ Order /\ Verdict /\ ReadyIsTrue /\ Built
  BY DEF Init, Owner, Order, Verdict, ReadyIsTrue, Built, EnvironmentWhole
<1> QED
  BY <1>2, <1>3 DEF HandshakeInv

LEMMA HandshakeTypeStep == TypeOK /\ [Next]_vars => TypeOK'
<1> SUFFICES ASSUME TypeOK, [Next]_vars PROVE TypeOK'
  OBVIOUS
<1> USE DEF TypeOK, object, peer, group, history, ctx
<1>1. CASE Lock
  <2>1. ready' \in BOOLEAN
    BY <1>1 DEF Lock
  <2> QED
    BY <1>1, <2>1 DEF Lock
<1>2. CASE Dial
  <2>1. up' \in BOOLEAN
    BY <1>2 DEF Dial
  <2> QED
    BY <1>2, <2>1 DEF Dial
<1>3. CASE Hello
  BY <1>3 DEF Hello
<1>4. CASE ReadEnv
  BY <1>4 DEF ReadEnv, ReadResults
<1>5. CASE Parse
  BY <1>5 DEF Parse
<1>6. CASE Failed
  BY <1>6 DEF Failed
<1>7. CASE Launch
  BY <1>7 DEF Launch
<1>8. CASE WaitReady
  BY <1>8 DEF WaitReady
<1>9. CASE Listen
  BY <1>9 DEF Listen
<1>10. CASE Join
  BY <1>10 DEF Join
<1>11. CASE FinishLock
  BY <1>11 DEF FinishLock, Return
<1>12. CASE WriteCfg
  BY <1>12 DEF WriteCfg, CfgWritten
<1>13. CASE WriteCfgFails
  BY <1>13 DEF WriteCfgFails, Return
<1>14. CASE AwaitReady
  BY <1>14 DEF AwaitReady, Return
<1>15. CASE WdGivesUp
  BY <1>15 DEF WdGivesUp, Return
<1>16. CASE WdCancelled
  BY <1>16 DEF WdCancelled
<1>17. CASE WdDial
  BY <1>17 DEF WdDial
<1>18. CASE ReadReady
  BY <1>18 DEF ReadReady, ReadResults
<1>19. CASE CloseConn
  BY <1>19 DEF CloseConn
<1>20. CASE MarkReady
  BY <1>20 DEF MarkReady
<1>21. CASE Serve
  BY <1>21 DEF Serve
<1>22. CASE ServeFails
  BY <1>22 DEF ServeFails, Return
<1>23. CASE Shutdown
  BY <1>23 DEF Shutdown
<1>24. ASSUME NEW v \in Visitors, Environment(v) PROVE TypeOK'
  BY <1>24 DEF Environment
<1>25. ASSUME NEW v \in Visitors, Close(v) PROVE TypeOK'
  BY <1>25 DEF Close
<1>26. ASSUME NEW v \in Visitors, Visit(v) PROVE TypeOK'
  BY <1>26 DEF Visit
<1>27. CASE Signal
  BY <1>27 DEF Signal
<1>28. CASE Answer
  <2>1. up' \in BOOLEAN
    BY <1>28 DEF Answer
  <2>2. talk' \in {"none", "hello", "env", "cfg", "ready"} /\ line' \in {"none", "env", "ack", "beat"}
    BY <1>28 DEF Answer
  <2>3. UNCHANGED <<main, finish, acker, visitor, object, group, ctx, bridge, linked, history>>
    BY <1>28 DEF Answer
  <2> QED
    BY <2>1, <2>2, <2>3
<1>29. CASE HangUp
  <2>1. up' \in BOOLEAN
    BY <1>29 DEF HangUp
  <2> QED
    BY <1>29, <2>1 DEF HangUp
<1>30. CASE BridgeExits
  <2>1. up' \in BOOLEAN /\ linked' \in BOOLEAN
    BY <1>30 DEF BridgeExits
  <2> QED
    BY <1>30, <2>1 DEF BridgeExits
<1>31. CASE UNCHANGED vars
  BY <1>31 DEF vars
<1> QED
  BY <1>1, <1>2, <1>3, <1>4, <1>5, <1>6, <1>7, <1>8, <1>9, <1>10, <1>11, <1>12, <1>13, <1>14, <1>15, <1>16, <1>17, <1>18, <1>19, <1>20, <1>21, <1>22, <1>23, <1>24, <1>25, <1>26, <1>27, <1>28, <1>29, <1>30, <1>31
     DEF Next, StartStep, MainStep, FinishStep, AckerStep, VisitorStep

LEMMA HandshakeInvStep == HandshakeInv /\ [Next]_vars => (Owner /\ Order /\ Verdict /\ ReadyIsTrue /\ Built)'
<1> SUFFICES ASSUME HandshakeInv, [Next]_vars PROVE (Owner /\ Order /\ Verdict /\ ReadyIsTrue /\ Built)'
  OBVIOUS
<1> USE DEF HandshakeInv, TypeOK, Owner, Order, Verdict, ReadyIsTrue, Built, EnvironmentWhole, object, peer, group, history, ctx
<1>1. CASE Lock
  BY <1>1 DEF Lock
<1>2. CASE Dial
  BY <1>2 DEF Dial
<1>3. CASE Hello
  BY <1>3 DEF Hello
<1>4. CASE ReadEnv
  BY <1>4 DEF ReadEnv, ReadResults
<1>5. CASE Parse
  BY <1>5 DEF Parse
<1>6. CASE Failed
  BY <1>6 DEF Failed
<1>7. CASE Launch
  BY <1>7 DEF Launch
<1>8. CASE WaitReady
  BY <1>8 DEF WaitReady
<1>9. CASE Listen
  BY <1>9 DEF Listen
<1>10. CASE Join
  BY <1>10 DEF Join
<1>11. CASE FinishLock
  BY <1>11 DEF FinishLock, Return
<1>12. CASE WriteCfg
  BY <1>12 DEF WriteCfg, CfgWritten
<1>13. CASE WriteCfgFails
  BY <1>13 DEF WriteCfgFails, Return
<1>14. CASE AwaitReady
  BY <1>14 DEF AwaitReady, Return
<1>15. CASE WdGivesUp
  BY <1>15 DEF WdGivesUp, Return
<1>16. CASE WdCancelled
  BY <1>16 DEF WdCancelled
<1>17. CASE WdDial
  BY <1>17 DEF WdDial
<1>18. CASE ReadReady
  BY <1>18 DEF ReadReady, ReadResults
<1>19. CASE CloseConn
  BY <1>19 DEF CloseConn
<1>20. CASE MarkReady
  BY <1>20 DEF MarkReady
<1>21. CASE Serve
  BY <1>21 DEF Serve
<1>22. CASE ServeFails
  BY <1>22 DEF ServeFails, Return
<1>23. CASE Shutdown
  BY <1>23 DEF Shutdown
<1>24. ASSUME NEW v \in Visitors, Environment(v) PROVE (Owner /\ Order /\ Verdict /\ ReadyIsTrue /\ Built)'
  BY <1>24 DEF Environment
<1>25. ASSUME NEW v \in Visitors, Close(v) PROVE (Owner /\ Order /\ Verdict /\ ReadyIsTrue /\ Built)'
  BY <1>25 DEF Close
<1>26. ASSUME NEW v \in Visitors, Visit(v) PROVE (Owner /\ Order /\ Verdict /\ ReadyIsTrue /\ Built)'
  BY <1>26 DEF Visit
<1>27. CASE Signal
  BY <1>27 DEF Signal
<1>28. CASE Answer
  BY <1>28 DEF Answer
<1>29. CASE HangUp
  BY <1>29 DEF HangUp
<1>30. CASE BridgeExits
  BY <1>30 DEF BridgeExits
<1>31. CASE UNCHANGED vars
  BY <1>31 DEF vars
<1> QED
  BY <1>1, <1>2, <1>3, <1>4, <1>5, <1>6, <1>7, <1>8, <1>9, <1>10, <1>11, <1>12, <1>13, <1>14, <1>15, <1>16, <1>17, <1>18, <1>19, <1>20, <1>21, <1>22, <1>23, <1>24, <1>25, <1>26, <1>27, <1>28, <1>29, <1>30, <1>31
     DEF Next, StartStep, MainStep, FinishStep, AckerStep, VisitorStep

LEMMA HandshakeInductive == Spec => []HandshakeInv
<1>1. HandshakeInv /\ [Next]_vars => HandshakeInv'
  <2>1. HandshakeInv => TypeOK
    BY DEF HandshakeInv
  <2> QED
    BY <2>1, HandshakeTypeStep, HandshakeInvStep DEF HandshakeInv
<1> QED
  BY HandshakeInit, <1>1, PTL DEF Spec

\* Every variable of the enclave's process keeps to its type.
THEOREM HandshakeTyped == Spec => []TypeOK
<1>1. HandshakeInv => TypeOK
  BY DEF HandshakeInv
<1> QED
  BY HandshakeInductive, <1>1, PTL

\* FinishHandshakeAndWait and WaitForBridgeSetup: whoever cancels or closes in
\* between, the enclave opens its port only after the bridge's ACK.
THEOREM Acked == Spec => []ReadyIsTrue
<1>1. HandshakeInv => ReadyIsTrue
  BY DEF HandshakeInv
<1> QED
  BY HandshakeInductive, <1>1, PTL

\* StartHandshakeWithPort and Environment: none of any number of goroutines gets
\* an environment in pieces, but for that of a handshake which has failed.
THEOREM Unbroken == Spec => []EnvironmentWhole
<1>1. HandshakeInv => EnvironmentWhole
  BY DEF HandshakeInv, Built
<1> QED
  BY HandshakeInductive, <1>1, PTL

-----------------------------------------------------------------------------
\* What the abstract object depends on.
LEMMA ObjectStutters == UNCHANGED <<main, ready, err, heard>> => UNCHANGED Object!vars
  BY DEF Object!vars, Caller

LEMMA ObjectInit == Init => Object!Init
  BY DEF Init, Object!Init, Caller

LEMMA ObjectStep == HandshakeInv /\ [Next]_vars => [Object!Next]_(Object!vars)
<1> SUFFICES ASSUME HandshakeInv, [Next]_vars PROVE [Object!Next]_(Object!vars)
  OBVIOUS
<1> USE DEF object, peer, group, history, ctx
<1>1. CASE Lock
  <2>1. /\ ~ready /\ ~ready' /\ UNCHANGED <<err, heard>>
        /\ Caller = "starting" /\ Caller' = "starting"
    BY <1>1 DEF Lock, HandshakeInv, TypeOK, Order, Caller
  <2> QED
    BY <2>1 DEF Object!vars
<1>2. CASE Dial \/ Hello \/ ReadEnv
  <2>1. Caller = "starting" /\ Caller' = "starting" /\ UNCHANGED <<ready, err, heard>>
    BY <1>2 DEF Dial, Hello, ReadEnv, Caller
  <2> QED
    BY <2>1 DEF Object!vars
<1>3. CASE Parse
  <2>1. Caller = "starting" /\ Caller' \in {"starting", "over"} /\ UNCHANGED <<ready, err, heard>>
    BY <1>3 DEF Parse, Caller
  <2> QED
    BY <2>1 DEF Object!vars, Object!Next, Object!Begin
<1>4. CASE Failed
  <2>1. Caller = "over" /\ Caller' = "over" /\ UNCHANGED <<ready, err, heard>>
    BY <1>4 DEF Failed, Caller
  <2> QED
    BY <2>1 DEF Object!vars
<1>5. CASE Launch
  <2>1. Caller = "starting" /\ Caller' = "waiting" /\ UNCHANGED <<ready, err, heard>>
    BY <1>5 DEF Launch, Caller
  <2> QED
    BY <2>1 DEF Object!Next, Object!Begin
<1>6. CASE WaitReady
  <2>1. /\ Caller = "waiting" /\ ready /\ UNCHANGED <<ready, err, heard>>
        /\ Caller' = IF err = "none" THEN "running" ELSE "over"
    BY <1>6 DEF WaitReady, Caller
  <2> QED
    BY <2>1 DEF Object!Next, Object!Return
<1>7. CASE Listen \/ Join
  <2>1. Caller = "running" /\ Caller' \in {"running", "over"} /\ UNCHANGED <<ready, err, heard>>
    BY <1>7 DEF Listen, Join, Caller
  <2> QED
    BY <2>1 DEF Object!vars, Object!Next, Object!End
<1>8. CASE Alive /\ ReadReady
  \* The goroutine runs, so that main is at the wait and ready is open.
  <2>1. Caller = "waiting" /\ ~ready /\ heard = FALSE /\ heard' \in BOOLEAN
    BY <1>8 DEF ReadReady, HandshakeInv, TypeOK, Owner, Order, Verdict, Alive, Caller
  <2>2. Caller' = "waiting" /\ ~ready'
    BY <1>8, <2>1 DEF ReadReady, Caller
  <2>3. CASE heard'
    BY <2>1, <2>2, <2>3 DEF Object!Next, Object!Ack
  <2>4. CASE ~heard'
    BY <2>1, <2>2, <2>4 DEF Object!vars
  <2> QED
    BY <2>3, <2>4
<1>9. CASE Alive /\ MarkReady
  <2>1. Caller = "waiting" /\ ~ready /\ (err = "none" <=> heard) /\ err \in {"none", "missing"}
    BY <1>9 DEF MarkReady, HandshakeInv, TypeOK, Order, Verdict, Alive, Caller
  <2>2. Caller' = Caller /\ ready' /\ UNCHANGED <<err, heard>>
    BY <1>9 DEF MarkReady, Caller
  <2> QED
    BY <2>1, <2>2 DEF Object!Next, Object!Settle
<1>10. CASE FinishStep \/ WdDial \/ CloseConn \/ Serve \/ ServeFails \/ Shutdown
  BY <1>10, ObjectStutters DEF FinishStep, FinishLock, WriteCfg, WriteCfgFails, AwaitReady, WdGivesUp,
     WdCancelled, WdDial, CloseConn, Serve, ServeFails, Shutdown
<1>11. CASE Signal \/ Answer \/ HangUp \/ BridgeExits \/ \E v \in Visitors : VisitorStep(v) \/ Visit(v)
  BY <1>11, ObjectStutters DEF Signal, Answer, HangUp, BridgeExits, VisitorStep, Environment, Close, Visit
<1>12. CASE UNCHANGED vars
  BY <1>12, ObjectStutters DEF vars
<1> QED
  BY <1>1, <1>2, <1>3, <1>4, <1>5, <1>6, <1>7, <1>8, <1>9, <1>10, <1>11, <1>12
     DEF Next, StartStep, MainStep, AckerStep

\* BridgeHandshake implements the one-shot verdict, for any number of goroutines
\* around it.
THEOREM HandshakeImplements == Spec => SetupSpec
<1>1. Spec => []HandshakeInv
  BY HandshakeInductive
<1> QED
  BY <1>1, ObjectInit, ObjectStep, PTL DEF Spec, SetupSpec, Object!Spec
=============================================================================
