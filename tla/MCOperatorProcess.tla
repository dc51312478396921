-------------------------- MODULE MCOperatorProcess --------------------------
(***************************************************************************)
(* An instance of OperatorProcess for TLC.                                 *)
(***************************************************************************)
EXTENDS OperatorProcess

CONSTANTS w1, w2, c1
=============================================================================
