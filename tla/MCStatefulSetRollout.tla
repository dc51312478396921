------------------------ MODULE MCStatefulSetRollout ------------------------
(***************************************************************************)
(* Instances of StatefulSetRollout for TLC.                                *)
(***************************************************************************)
EXTENDS StatefulSetRollout

InOrder == [i \in 1..NumSets |-> i]
Reversed == [i \in 1..NumSets |-> NumSets + 1 - i]
=============================================================================
