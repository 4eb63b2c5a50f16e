------------------------------ MODULE MCHostRefs ------------------------------
(* The host functions of HostRefs, for two interchangeable variables. *)
EXTENDS HostRefs

MCSymmetry == Permutations(Names)
===============================================================================
