----------------------- MODULE MCEPCServiceRefinement -----------------------
(***************************************************************************)
(* Symmetry for the refinement run.                                        *)
(***************************************************************************)
EXTENDS EPCServiceRefinement, TLC

Symmetry == Permutations(Workers)
=============================================================================
