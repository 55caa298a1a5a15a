------------------------------ MODULE MCPidTest -----------------------------
(* Instances of PidTest; its threads are interchangeable. *)
EXTENDS PidTest, TLC

Symmetry == Permutations(Callers)
=============================================================================
