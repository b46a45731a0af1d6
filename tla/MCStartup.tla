------------------------------ MODULE MCStartup ------------------------------
(* Startup for TLC: the two processes are interchangeable. *)
EXTENDS Startup, TLC

ProcSymmetry == Permutations(Procs)
=============================================================================
