--------------------------- MODULE HeartbeatFraming ---------------------------
(***************************************************************************)
(* Heartbeats as bytes: what Heartbeat writes and what HandleConn of the   *)
(* other side makes of it (pkg/watchdog), through ReadBytesWithContext     *)
(* (pkg/enclave), which reads each line with a bufio.Reader of its own.    *)
(* Watchdog and Session take a heartbeat for an ID in one piece; this      *)
(* module is about when that is right.                                     *)
(***************************************************************************)
EXTENDS Naturals, Sequences

CONSTANTS Bytes,   \* what the bytes of an ID are taken from
          IdLen,   \* uuid.Size
          BufSize  \* of a bufio.Reader

NL == 10
ASSUME BytesAssumption == NL \in Bytes /\ 0 \in Bytes
ASSUME SizesAssumption == IdLen \in Nat /\ BufSize \in Nat

Ids == [1..IdLen -> Bytes]
Nil == [i \in 1..IdLen |-> 0]

VARIABLES ours,    \* w.enclaveID
          theirs,  \* the ID of the other side's watchdog
          socket,  \* bytes that have arrived and were not read
          seen     \* what became of the last line: "none", "reset", "mismatch"

framingVars == <<ours, theirs, socket, seen>>

\* New refuses the nil ID.
FramingInit ==
    /\ ours \in Ids \ {Nil}
    /\ theirs \in Ids \ {Nil}
    /\ socket = <<>>
    /\ seen = "none"

-----------------------------------------------------------------------------
Message == Append(theirs, NL)

\* Heartbeat: one Write per tick.  A mismatch ends the connection.  Bound: what
\* waits fits the buffer of a reader.  (The code has 17 bytes of 4096: an hour of
\* heartbeats at the standard interval.)
WriteID ==
    /\ seen # "mismatch"
    /\ Len(socket \o Message) <= BufSize
    /\ socket' = socket \o Message
    /\ UNCHANGED <<ours, theirs, seen>>

\* uuid.FromBytesOrNil.
FromBytesOrNil(line) == IF Len(line) = IdLen THEN line ELSE Nil

\* Mutant: a line that is no ID is passed over.
MatchesOrUnparsed(line) == FromBytesOrNil(line) \in {ours, Nil}

Matches(line) == FromBytesOrNil(line) = ours

\* Mutant: the line is compared with its delimiter.
WithDelimiter(line) == line

WithoutDelimiter(line) == SubSeq(line, 1, Len(line) - 1)

\* ReadBytes fills the buffer with what there is, cuts off the first line, and
\* leaves the rest to be forgotten with the reader.
ReadLine ==
    /\ seen # "mismatch"
    /\ LET size == IF Len(socket) < BufSize THEN Len(socket) ELSE BufSize
       IN  \E n \in 1..size :
              /\ socket[n] = NL /\ \A i \in 1..(n - 1) : socket[i] # NL
              /\ seen' = IF Matches(WithoutDelimiter(SubSeq(socket, 1, n)))
                           THEN "reset" ELSE "mismatch"
              /\ socket' = SubSeq(socket, size + 1, Len(socket))
    /\ UNCHANGED <<ours, theirs>>

FramingNext == WriteID \/ ReadLine

FramingSpec == FramingInit /\ [][FramingNext]_framingVars

-----------------------------------------------------------------------------
\* Every variable keeps to its type.
FramingTypeOK ==
    /\ ours \in Ids \ {Nil} /\ theirs \in Ids \ {Nil}
    /\ socket \in Seq(Bytes) /\ Len(socket) <= BufSize
    /\ seen \in {"none", "reset", "mismatch"}

\* No foreign ID passes for ours, whatever bytes it has and however many of its
\* heartbeats are read, and forgotten, at once.
NotFooled == seen = "reset" => theirs = ours

\* An ID without a newline is always recognised by its own side, also when
\* readers forget whole heartbeats: none is ever taken up in the middle.
Recognised == seen = "mismatch" => theirs # ours \/ \E i \in 1..IdLen : ours[i] = NL
=============================================================================
