------------------------------ MODULE CallLife ------------------------------
(***************************************************************************)
(* What the call tracker promises about the calls it stores: a call is     *)
(* live from the moment its row is created until it is closed, once and    *)
(* for good, and no call stays live for ever.  Nothing locks a call: when  *)
(* two goroutines set about closing one, the promise ends there.           *)
(***************************************************************************)
CONSTANT Calls

VARIABLE phase  \* phase[c]: where call c is in its life

Closed == {"ended", "discarded", "abandoned", "contended"}

Phases == {"unborn", "live"} \cup Closed

Init == phase = [c \in Calls |-> "unborn"]

\* A packet of a stream that is not being tracked.
Begin(c) ==
    /\ phase[c] = "unborn"
    /\ phase' = [phase EXCEPT ![c] = "live"]

\* The call is stored with its duration and loss.
End(c) ==
    /\ phase[c] = "live"
    /\ phase' = [phase EXCEPT ![c] = "ended"]

\* A key-up: the call is removed from the log.
Discard(c) ==
    /\ phase[c] = "live"
    /\ phase' = [phase EXCEPT ![c] = "discarded"]

\* The row still says active, but nobody tracks it: one call, or every live
\* call when the server dies.
Abandon(S) ==
    /\ \A c \in S : phase[c] = "live"
    /\ phase' = [c \in Calls |-> IF c \in S THEN "abandoned" ELSE phase[c]]

\* Two goroutines have set about closing the call.
Contend(c) ==
    /\ phase[c] = "live"
    /\ phase' = [phase EXCEPT ![c] = "contended"]

Next ==
    \/ \E c \in Calls : Begin(c) \/ End(c) \/ Discard(c) \/ Contend(c)
    \/ \E S \in SUBSET Calls : Abandon(S)

Close(c) == phase[c] = "live" /\ Next /\ phase'[c] \in Closed

Spec == Init /\ [][Next]_phase /\ \A c \in Calls : WF_phase(Close(c))
=============================================================================
