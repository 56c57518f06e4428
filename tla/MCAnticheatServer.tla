-------------------------- MODULE MCAnticheatServer --------------------------
(* Values for the constants of AnticheatServer. *)
EXTENDS AnticheatServer, TLC

ConnSymmetry == Permutations(Conns)
=============================================================================
