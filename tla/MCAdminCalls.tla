---------------------------- MODULE MCAdminCalls ----------------------------
(***************************************************************************)
(* An instance of AdminCalls for TLC: two workers, two clusters that may   *)
(* share a coordinator.                                                    *)
(***************************************************************************)
EXTENDS AdminCalls, TLC

CONSTANTS w1, w2, c1, c2, placements, z

WorkerSymmetry == Permutations(Workers)
=============================================================================
