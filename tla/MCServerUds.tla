----------------------------- MODULE MCServerUds -----------------------------
(* Instances of ServerUds for TLC. *)
EXTENDS ServerUds, TLC

ConnSymmetry == Permutations(Conns)
==============================================================================
