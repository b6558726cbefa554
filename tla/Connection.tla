----------------------------- MODULE Connection -----------------------------
(***************************************************************************)
(* What a tunnel promises: that it is as good as a connection.  No         *)
(* handler, copiers, chunks, wires, target line or answer: two ends, of    *)
(* which "near" is the one that opens it, and what each has written and    *)
(* read.  The near end joins only when there is another one; what is       *)
(* written is read once and in order; nothing is read by an end that has   *)
(* left, and nothing written by one that has finished.                     *)
(***************************************************************************)
EXTENDS Naturals, Sequences

VARIABLES end,   \* "apart", "open", "finished" (writes no more), "closed"
          sent,  \* how many chunks have been written each way
          got    \* those that have been read

vars == <<end, sent, got>>

Dirs == {"up", "down"}
Ends == {"near", "far"}
Writer(d) == IF d = "up" THEN "near" ELSE "far"
Reader(d) == IF d = "up" THEN "far" ELSE "near"

\* A TCP client is connected before the server tunnel has seen it.
Init ==
    /\ end \in {e \in [Ends -> {"apart", "open"}] : e["far"] = "apart"}
    /\ sent = [d \in Dirs |-> 0]
    /\ got = [d \in Dirs |-> <<>>]

Join(e) ==
    /\ end[e] = "apart"
    /\ e = "near" => end["far"] # "apart"
    /\ end' = [end EXCEPT ![e] = "open"]
    /\ UNCHANGED <<sent, got>>

Write(d) ==
    /\ end[Writer(d)] = "open"
    /\ sent' = [sent EXCEPT ![d] = @ + 1]
    /\ UNCHANGED <<end, got>>

Read(d) ==
    /\ end[Reader(d)] \in {"open", "finished"}
    /\ Len(got[d]) < sent[d]
    /\ got' = [got EXCEPT ![d] = Append(@, Len(@) + 1)]
    /\ UNCHANGED <<end, sent>>

Finish(e) ==
    /\ end[e] = "open"
    /\ end' = [end EXCEPT ![e] = "finished"]
    /\ UNCHANGED <<sent, got>>

Leave(e) ==
    /\ end[e] # "closed"
    /\ end' = [end EXCEPT ![e] = "closed"]
    /\ UNCHANGED <<sent, got>>

Next ==
    \/ \E e \in Ends : Join(e) \/ Finish(e) \/ Leave(e)
    \/ \E d \in Dirs : Write(d) \/ Read(d)

Spec == Init /\ [][Next]_vars
=============================================================================
