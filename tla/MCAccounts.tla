------------------------------ MODULE MCAccounts ------------------------------
(***************************************************************************)
(* The accounts of a few members and a few requests at once.               *)
(***************************************************************************)
EXTENDS Accounts, TLC

Symmetry == Permutations(Members) \cup Permutations(Procs)
=============================================================================
