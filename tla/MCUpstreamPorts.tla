-------------------------- MODULE MCUpstreamPorts --------------------------
(* TLC instance of UpstreamPorts. *)
EXTENDS UpstreamPorts, TLC

ThreadSymmetry == Permutations(Threads)
=============================================================================
