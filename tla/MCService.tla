------------------------------ MODULE MCService ------------------------------
(* Service for TLC: the D-Bus calls are interchangeable. *)
EXTENDS Service, TLC

Symmetry == Permutations(Calls)
==============================================================================
