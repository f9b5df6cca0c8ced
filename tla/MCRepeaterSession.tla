------------------------- MODULE MCRepeaterSession -------------------------
(* RepeaterSession with two hotspots, on one IP or on two. *)
EXTENDS RepeaterSession

CONSTANTS a1, a2, ip1, ip2

OneIp  == [a \in Addrs |-> ip1]
TwoIps == [a \in Addrs |-> IF a = a1 THEN ip1 ELSE ip2]
=============================================================================
