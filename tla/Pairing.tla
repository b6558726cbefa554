------------------------------- MODULE Pairing -------------------------------
(***************************************************************************)
(* What a session promises, with no ports, connections, lines or           *)
(* heartbeats: a bridge serves one enclave at a time; an enclave is paired *)
(* only after the bridge that serves it, and no other, has offered itself; *)
(* an enclave that was offered a bridge, or is paired, is never taken up   *)
(* by another one, and ends before it can be paired again.  Either may go  *)
(* at any moment and the other does not know.                              *)
(***************************************************************************)
CONSTANTS Ids, None

VARIABLES serving,  \* the enclave that the bridge serves, or None
          self,     \* the enclave there is, or None
          stage     \* of that enclave: "apart", "offered", "paired"

vars == <<serving, self, stage>>

Init == serving = None /\ self = None /\ stage = "apart"

\* An enclave gets an identity that the bridge has not served yet.
Draw(i) ==
    /\ self = None /\ i # serving
    /\ self' = i
    /\ UNCHANGED <<serving, stage>>

\* The bridge takes up an enclave, which may be gone by then.
Adopt(i) ==
    /\ serving = None
    /\ i = self => stage = "apart"
    /\ serving' = i
    /\ UNCHANGED <<self, stage>>

Offer ==
    /\ serving = self /\ self # None
    /\ stage = "apart"
    /\ stage' = "offered"
    /\ UNCHANGED <<serving, self>>

Pair ==
    /\ stage = "offered"
    /\ stage' = "paired"
    /\ UNCHANGED <<serving, self>>

BridgeLeaves ==
    /\ serving' = None
    /\ UNCHANGED <<self, stage>>

EnclaveLeaves ==
    /\ self' = None /\ stage' = "apart"
    /\ UNCHANGED serving

Next ==
    \/ \E i \in Ids : Draw(i) \/ Adopt(i)
    \/ Offer \/ Pair \/ BridgeLeaves \/ EnclaveLeaves

Spec == Init /\ [][Next]_vars
=============================================================================
