------------------------- MODULE MCPyroscopeService -------------------------
(* Small instances of PyroscopeService for TLC.                            *)
EXTENDS PyroscopeService, TLC

Symmetry == Permutations(Functions)
=============================================================================
