--------------------------- MODULE MCCallTracker ---------------------------
(* CallTracker with interchangeable packets, for the runs without liveness. *)
EXTENDS CallTracker, TLC

PacketSymmetry == Permutations(Packets)
=============================================================================
