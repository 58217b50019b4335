---------------------------- MODULE MCSupervisor ----------------------------
(* Instances of Supervisor for TLC: connections are interchangeable task slots. *)
EXTENDS Supervisor, TLC

Symmetry == Permutations(Conns)
=============================================================================
