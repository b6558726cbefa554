-------------------------------- MODULE Setup --------------------------------
(***************************************************************************)
(* What BridgeHandshake promises to the program that uses it, without      *)
(* goroutines, mutex, connection or retries: WaitForBridgeSetup answers    *)
(* once, with one verdict for good; the verdict is "up" exactly if the     *)
(* ACK of the bridge was read before it; and the program goes past the     *)
(* call with that verdict only.                                            *)
(***************************************************************************)
VARIABLES caller,  \* "starting", "waiting", "running", "over"
          acked,   \* the bridge has said that it is set up
          verdict  \* what WaitForBridgeSetup returns: "pending", "up", "missing"

vars == <<caller, acked, verdict>>

Init == caller = "starting" /\ acked = FALSE /\ verdict = "pending"

\* StartHandshake returns, with an environment or with an error.
Begin ==
    /\ caller = "starting"
    /\ caller' \in {"waiting", "over"}
    /\ UNCHANGED <<acked, verdict>>

Ack ==
    /\ caller = "waiting" /\ verdict = "pending"
    /\ acked' = TRUE
    /\ UNCHANGED <<caller, verdict>>

Settle ==
    /\ caller = "waiting" /\ verdict = "pending"
    /\ verdict' = IF acked THEN "up" ELSE "missing"
    /\ UNCHANGED <<caller, acked>>

\* WaitForBridgeSetup returns.
Return ==
    /\ caller = "waiting" /\ verdict # "pending"
    /\ caller' = IF verdict = "up" THEN "running" ELSE "over"
    /\ UNCHANGED <<acked, verdict>>

End ==
    /\ caller = "running"
    /\ caller' = "over"
    /\ UNCHANGED <<acked, verdict>>

Next == Begin \/ Ack \/ Settle \/ Return \/ End

Spec == Init /\ [][Next]_vars
=============================================================================
