--------------------------- MODULE MCDivertEngine ---------------------------
(* TLC instance of DivertEngine. *)
EXTENDS DivertEngine, TLC

FlowSymmetry == Permutations(Flows) \cup Permutations(Servers)
=============================================================================
