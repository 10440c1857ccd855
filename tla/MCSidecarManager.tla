-------------------------- MODULE MCSidecarManager --------------------------
(* SidecarManager for TLC: two outside start() calls, one outside stop().  *)
EXTENDS SidecarManager, TLC

Symmetry == Permutations(Ports)
=============================================================================
