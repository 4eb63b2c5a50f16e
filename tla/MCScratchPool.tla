---------------------------- MODULE MCScratchPool ----------------------------
(***************************************************************************)
(* ScratchPool for TLC: two kinds of slots, function frames with one named *)
(* local or none.                                                          *)
(***************************************************************************)
EXTENDS ScratchPool
==============================================================================
