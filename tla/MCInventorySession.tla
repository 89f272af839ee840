------------------------- MODULE MCInventorySession -------------------------
(***************************************************************************)
(* Symmetry for the safety run of InventorySession.                        *)
(***************************************************************************)
EXTENDS InventorySession, TLC

Symmetry == Permutations(Callers) \cup Permutations(Links)
=============================================================================
