-------------------------------- MODULE CtxIO --------------------------------
(***************************************************************************)
(* The context-aware I/O wrappers of pkg/enclave/enclave.go.               *)
(*                                                                         *)
(* A call starts a worker goroutine that performs the blocking Read or     *)
(* Write, and waits in a select for either the context or the worker's     *)
(* channel.  A read hands back two values over two channels (byteChan, then*)
(* errChan), a write one (writeChan).  A call that has just started its    *)
(* worker is not yet parked in the select, so both cases may be ready when *)
(* it gets there and Go then picks either one.                             *)
(***************************************************************************)
EXTENDS Naturals, Sequences

CONSTANTS Reads,    \* calls of ReadBytesWithContext (or ReadByteWithContext)
          Writes    \* calls of WriteWithContext

ASSUME CallsAssumption == Reads \cap Writes = {}

VARIABLES cancelled,  \* ctx.Err() # nil, for the context the calls share
          worker,     \* program counter of each call's goroutine
          outcome,    \* what the blocking operation itself returned
          first,      \* byteChan of a read, writeChan of a write
          second,     \* errChan of a read
          caller,     \* program counter of each call
          result      \* what the call returns

ioVars == <<cancelled, worker, outcome, first, second, caller, result>>

Calls == Reads \cup Writes

\* "nothing" and "nil" are Go's zero values: a nil slice and a nil error.
Datas == {"nothing", "line", "partial"}
Errs == {"nil", "io", "ctx"}
Zero == [data |-> "nothing", err |-> "nil"]
Cancelled == [data |-> "nothing", err |-> "ctx"]

\* A read fails exactly when it ends before the delimiter; a write has no data.
Outcomes(c) ==
    IF c \in Reads
    THEN {[data |-> "line", err |-> "nil"], [data |-> "partial", err |-> "io"]}
    ELSE {Zero, [data |-> "nothing", err |-> "io"]}

WorkerPCs == {"io", "check", "sendFirst", "sendErr", "closeFirst", "closeErr", "done"}
Open == [buf |-> <<>>, closed |-> FALSE]

\* make(chan T, 1)
HasRoom(ch) == ch.buf = <<>>
\* Mutant: a receive that does not wait for a value or for the close.
ReadyNonBlocking(ch) == TRUE
Ready(ch) == ch.buf # <<>> \/ ch.closed
Received(ch, zero) == IF ch.buf # <<>> THEN Head(ch.buf) ELSE zero

IOInit ==
    /\ cancelled = FALSE
    /\ worker = [c \in Calls |-> "io"]
    /\ outcome = [c \in Calls |-> Zero]
    /\ first = [c \in Calls |-> Open]
    /\ second = [c \in Calls |-> Open]
    /\ caller = [c \in Calls |-> "select"]
    /\ result = [c \in Calls |-> Zero]

-----------------------------------------------------------------------------
\* The context: a deadline passes or the parent is cancelled.
Cancel ==
    /\ ~cancelled
    /\ cancelled' = TRUE
    /\ UNCHANGED <<worker, outcome, first, second, caller, result>>

\* The worker goroutine.
IOCompletes(c) ==
    /\ worker[c] = "io"
    /\ \E o \in Outcomes(c) : outcome' = [outcome EXCEPT ![c] = o]
    /\ worker' = [worker EXCEPT ![c] = "check"]
    /\ UNCHANGED <<cancelled, first, second, caller, result>>

CheckCtx(c) ==
    /\ worker[c] = "check"
    /\ worker' = [worker EXCEPT ![c] = IF cancelled THEN "closeFirst" ELSE "sendFirst"]
    /\ UNCHANGED <<cancelled, outcome, first, second, caller, result>>

\* A read sends its data first and its error second, a write only its error.
FirstValue(c) == IF c \in Reads THEN outcome[c].data ELSE outcome[c].err

\* Mutant: an unbuffered channel, on which the send needs a waiting receiver.
SendFirstUnbuffered(c) ==
    /\ worker[c] = "sendFirst"
    /\ caller[c] = "select"
    /\ first' = [first EXCEPT ![c].buf = Append(@, FirstValue(c))]
    /\ worker' = [worker EXCEPT ![c] = IF c \in Reads THEN "sendErr" ELSE "closeFirst"]
    /\ UNCHANGED <<cancelled, outcome, second, caller, result>>

SendFirst(c) ==
    /\ worker[c] = "sendFirst"
    /\ HasRoom(first[c])
    /\ first' = [first EXCEPT ![c].buf = Append(@, FirstValue(c))]
    /\ worker' = [worker EXCEPT ![c] = IF c \in Reads THEN "sendErr" ELSE "closeFirst"]
    /\ UNCHANGED <<cancelled, outcome, second, caller, result>>

SendErr(c) ==
    /\ worker[c] = "sendErr"
    /\ HasRoom(second[c])
    /\ second' = [second EXCEPT ![c].buf = Append(@, outcome[c].err)]
    /\ worker' = [worker EXCEPT ![c] = "closeFirst"]
    /\ UNCHANGED <<cancelled, outcome, first, caller, result>>

\* Mutant: errChan is never closed.
CloseFirstOnly(c) ==
    /\ worker[c] = "closeFirst"
    /\ first' = [first EXCEPT ![c].closed = TRUE]
    /\ worker' = [worker EXCEPT ![c] = "done"]
    /\ UNCHANGED <<cancelled, outcome, second, caller, result>>

CloseFirst(c) ==
    /\ worker[c] = "closeFirst"
    /\ first' = [first EXCEPT ![c].closed = TRUE]
    /\ worker' = [worker EXCEPT ![c] = IF c \in Reads THEN "closeErr" ELSE "done"]
    /\ UNCHANGED <<cancelled, outcome, second, caller, result>>

CloseErr(c) ==
    /\ worker[c] = "closeErr"
    /\ second' = [second EXCEPT ![c].closed = TRUE]
    /\ worker' = [worker EXCEPT ![c] = "done"]
    /\ UNCHANGED <<cancelled, outcome, first, caller, result>>

\* The select of the caller, and the receive from errChan that follows it.
SelectDone(c) ==
    /\ caller[c] = "select"
    /\ cancelled
    /\ result' = [result EXCEPT ![c] = Cancelled]
    /\ caller' = [caller EXCEPT ![c] = "returned"]
    /\ UNCHANGED <<cancelled, worker, outcome, first, second>>

SelectChan(c) ==
    /\ caller[c] = "select"
    /\ Ready(first[c])
    /\ first' = [first EXCEPT ![c].buf = <<>>]
    /\ IF c \in Reads
       THEN /\ result' = [result EXCEPT ![c].data = Received(first[c], "nothing")]
            /\ caller' = [caller EXCEPT ![c] = "recvErr"]
       ELSE /\ result' = [result EXCEPT ![c].err = Received(first[c], "nil")]
            /\ caller' = [caller EXCEPT ![c] = "returned"]
    /\ UNCHANGED <<cancelled, worker, outcome, second>>

RecvErr(c) ==
    /\ caller[c] = "recvErr"
    /\ Ready(second[c])
    /\ second' = [second EXCEPT ![c].buf = <<>>]
    /\ result' = [result EXCEPT ![c].err = Received(second[c], "nil")]
    /\ caller' = [caller EXCEPT ![c] = "returned"]
    /\ UNCHANGED <<cancelled, worker, outcome, first>>

\* The goroutine's steps after its I/O, and the caller's steps.
WorkerStep(c) ==
    CheckCtx(c) \/ SendFirst(c) \/ SendErr(c) \/ CloseFirst(c) \/ CloseErr(c)
CallerStep(c) == SelectDone(c) \/ SelectChan(c) \/ RecvErr(c)

IONext ==
    \/ Cancel
    \/ \E c \in Calls : IOCompletes(c) \/ WorkerStep(c) \/ CallerStep(c)

\* Goroutines that can run do run; the I/O itself may block for ever.
IOFairness == \A c \in Calls : WF_ioVars(WorkerStep(c)) /\ WF_ioVars(CallerStep(c))

IOSpec == IOInit /\ [][IONext]_ioVars
FairIOSpec == IOSpec /\ IOFairness

-----------------------------------------------------------------------------
\* Type invariant.
IOTypeOK ==
    /\ cancelled \in BOOLEAN
    /\ worker \in [Calls -> WorkerPCs]
    /\ outcome \in [Calls -> [data : Datas, err : Errs]]
    /\ first \in [Calls -> [buf : Seq(Datas \cup Errs), closed : BOOLEAN]]
    /\ second \in [Calls -> [buf : Seq(Errs), closed : BOOLEAN]]
    /\ caller \in [Calls -> {"select", "recvErr", "returned"}]
    /\ result \in [Calls -> [data : Datas, err : Errs]]

\* A call returns what its own read or write returned, the data and the error
\* of the same operation; the context's error and the pair of zero values are
\* the only other results, and both need a cancelled context
\* (pkg/enclave/enclave.go 53-62 and 135-144).  The zero values are no line and
\* no error: the comment at 141-142 holds that a value and an error were sent.
ResultAccounted ==
    \A c \in Calls : caller[c] = "returned" =>
        \/ result[c] = outcome[c]
        \/ cancelled /\ result[c] \in {Cancelled, Zero}

\* The channel capacity is what keeps the goroutine from leaking: once the
\* blocking operation is over the goroutine ends, whether or not the caller is
\* still there to receive (the comments at enclave.go 31-33 and 111-112).
WorkerEnds == \A c \in Calls : worker[c] = "check" ~> worker[c] = "done"

\* Cancelling the context always gets the caller out, even out of the receive
\* from errChan that follows the select and has no case for the context.
CancelReleases == \A c \in Calls : cancelled ~> caller[c] = "returned"
=============================================================================
