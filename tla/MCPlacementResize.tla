------------------------- MODULE MCPlacementResize -------------------------
(***************************************************************************)
(* Small instances of PlacementResize.                                     *)
(***************************************************************************)
EXTENDS PlacementResize, TLC

CONSTANTS a, b

GroupSymmetry == Permutations(Groups)
=============================================================================
