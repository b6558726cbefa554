---------------------------- MODULE HeartbeatTiming ----------------------------
(***************************************************************************)
(* One watchdog and the heartbeats of the other side on one clock          *)
(* (pkg/watchdog): the interval counts since the last heartbeat that was   *)
(* read, the other side sends one every half interval, and the first of a  *)
(* connection half an interval after it.  A connection may break at any    *)
(* moment, and nothing bounds how long there is none: the back-off of the  *)
(* client's side grows to the whole interval, and its jitter beyond it.    *)
(*                                                                         *)
(* Watchdog lets heartbeats come and stay away as they like.  This module  *)
(* is about when they come in time.  All of its times are in ticks.        *)
(***************************************************************************)
EXTENDS Integers

CONSTANTS Interval,  \* settings.Watchdog.Interval, the same on both sides
          Delay      \* at most this long from Write to the reader

Half == Interval \div 2

ASSUME TimesAssumption == Interval \in Nat /\ Delay \in Nat

\* time.NewTicker(interval / 2) panics on zero; a heartbeat is read before the
\* next is sent.
ASSUME HalfAssumption == Half > 0 /\ Delay < Half

VARIABLES since,    \* time since w.ticker was reset
          conn,     \* "up" or "down"
          age,      \* time since the connection came up, up to Interval
          phase,    \* time on the ticker of Heartbeat
          beaten,   \* a heartbeat was sent on this connection
          flight,   \* age of the heartbeat under way, or None
          dead,     \* how long the other side has been dead, or None
          verdict   \* of startTicker

vars == <<since, conn, age, phase, beaten, flight, dead, verdict>>

None == -1

Init ==
    /\ since = 0
    /\ conn = "down" /\ age = 0
    /\ phase = 0 /\ beaten = FALSE
    /\ flight = None
    /\ dead = None
    /\ verdict = "none"

-----------------------------------------------------------------------------
\* Mutant: a heartbeat every interval.
PeriodWhole == Interval

\* The ticker of Heartbeat.
Period == Half

\* Mutant: a ticker that was reset twice as far.
ExpiryLate == 2 * Interval

\* The ticker of the watchdog.
Expiry == Interval

\* Time passes, but not past what is due.
Tick ==
    /\ verdict = "none" /\ since < Expiry
    /\ flight # None => flight < Delay
    /\ dead = None /\ conn = "up" => phase < Period
    /\ since' = since + 1
    /\ age' = IF conn = "up" /\ age < Interval THEN age + 1 ELSE age
    /\ phase' = IF conn = "up" /\ dead = None THEN phase + 1 ELSE phase
    /\ flight' = IF flight = None THEN None ELSE flight + 1
    /\ dead' = IF dead = None THEN None ELSE dead + 1
    /\ UNCHANGED <<conn, beaten, verdict>>

\* StartClientSide has dialled, and both sides start a Heartbeat.
Connect ==
    /\ verdict = "none" /\ dead = None
    /\ conn = "down"
    /\ conn' = "up" /\ age' = 0
    /\ phase' = 0 /\ beaten' = FALSE
    /\ UNCHANGED <<since, flight, dead, verdict>>

Beat ==
    /\ verdict = "none" /\ dead = None
    /\ conn = "up" /\ phase = Period
    /\ phase' = 0 /\ beaten' = TRUE
    /\ flight' = 0
    /\ UNCHANGED <<since, conn, age, dead, verdict>>

\* HandleConn reads a line and resets the ticker.
Read ==
    /\ verdict = "none"
    /\ flight # None
    /\ since' = 0
    /\ flight' = None
    /\ UNCHANGED <<conn, age, phase, beaten, dead, verdict>>

\* The connection breaks: before its first heartbeat, between two, or with one
\* under way, which is lost or has already got through.
Break ==
    /\ verdict = "none" /\ dead = None
    /\ conn = "up"
    /\ conn' = "down" /\ age' = 0
    /\ flight' \in {flight, None}
    /\ UNCHANGED <<since, phase, beaten, dead, verdict>>

\* The other side dies, at any moment.
Die ==
    /\ verdict = "none" /\ dead = None
    /\ dead' = 0
    /\ UNCHANGED <<since, conn, age, phase, beaten, flight, verdict>>

\* startTicker returns ErrEnclaveHeartbeatTimeout.
Timeout ==
    /\ verdict = "none" /\ since >= Expiry
    /\ verdict' = "timeout"
    /\ UNCHANGED <<since, conn, age, phase, beaten, flight, dead>>

Next == Tick \/ Connect \/ Beat \/ Read \/ Break \/ Die \/ Timeout

Spec == Init /\ [][Next]_vars

-----------------------------------------------------------------------------
\* Every variable keeps to its type.
TypeOK ==
    /\ since \in 0..Interval
    /\ conn \in {"up", "down"} /\ age \in 0..Interval
    /\ phase \in 0..Half
    /\ beaten \in BOOLEAN
    /\ flight \in {None} \cup 0..Delay
    /\ dead \in {None} \cup Nat
    /\ verdict \in {"none", "timeout"}

\* A connection keeps its living peer: a living enclave, or bridge, is given up
\* only while there is no connection, or on one too young for its first heartbeat
\* to be overdue.  A break therefore costs an alarm only if the next connection
\* comes up no earlier than Interval - (Half + Delay) after the last heartbeat that
\* was read; then it may, as the code has it (watchdog.go 77-99, 110, 156).
NoFalseAlarm ==
    verdict = "timeout" /\ dead = None => conn = "down" \/ age <= Half + Delay

\* A dead one is given up after an interval, and the heartbeat that was under way.
DetectedInTime == dead # None => dead <= Interval + Delay
=============================================================================
