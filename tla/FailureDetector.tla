--------------------------- MODULE FailureDetector ---------------------------
(***************************************************************************)
(* What a watchdog promises to the process that runs it, with no tickers,  *)
(* no goroutines and no queues: it gives up on a silence of a whole        *)
(* interval, on a connection that claims another identity, or when it is   *)
(* cancelled, and for no other reason (the comments at                     *)
(* pkg/watchdog/watchdog.go 51-53 and 71-73).  The crash that the code     *)
(* adds is confined to a cancelled watchdog.                               *)
(***************************************************************************)
EXTENDS Naturals

CONSTANTS Conns, Interval

VARIABLES cancelled,  \* the watchdog has been told to stop
          verdict,    \* "running", or why it gave up
          quiet,      \* ticks since the last sign of life, up to Interval
          suspects    \* connections that wait to be denounced

vars == <<cancelled, verdict, quiet, suspects>>

Init ==
    /\ cancelled = FALSE
    /\ verdict = "running"
    /\ quiet = 0
    /\ suspects = {}

Pass ==
    /\ quiet' = IF quiet = Interval THEN Interval ELSE quiet + 1
    /\ UNCHANGED <<cancelled, verdict, suspects>>

Hear ==
    /\ quiet' = 0
    /\ UNCHANGED <<cancelled, verdict, suspects>>

Suspect(c) ==
    /\ suspects' = suspects \cup {c}
    /\ UNCHANGED <<cancelled, verdict, quiet>>

Cancel ==
    /\ cancelled' = TRUE
    /\ UNCHANGED <<verdict, quiet, suspects>>

GiveUp ==
    /\ verdict = "running"
    /\ \/ quiet = Interval /\ verdict' = "timeout" /\ UNCHANGED suspects
       \/ cancelled /\ verdict' = "nil" /\ UNCHANGED suspects
       \/ \E c \in suspects : verdict' = "mismatch" /\ suspects' = suspects \ {c}
    /\ UNCHANGED <<cancelled, quiet>>

Crash ==
    /\ cancelled
    /\ verdict' = "panic"
    /\ UNCHANGED <<cancelled, quiet, suspects>>

Next == Pass \/ Hear \/ (\E c \in Conns : Suspect(c)) \/ Cancel \/ GiveUp \/ Crash

Spec == Init /\ [][Next]_vars
=============================================================================
