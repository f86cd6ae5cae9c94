------------------------------ MODULE MCPttFix ------------------------------
(***************************************************************************)
(* PttFix for TLC: symmetry of the devices.                                *)
(***************************************************************************)
EXTENDS PttFix, TLC

Symmetry == Permutations(Devices)
=============================================================================
