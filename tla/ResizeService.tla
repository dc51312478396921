---------------------------- MODULE ResizeService ----------------------------
(***************************************************************************)
(* What the operator promises about sizes to somebody who edits the        *)
(* cluster only when the last edit has been carried out, in terms of the   *)
(* three numbers that it keeps in step and nothing else: no caches, no     *)
(* passes, no instances that fail and are replaced.                        *)
(*                                                                         *)
(* A group that is to grow has its StatefulSet grown first, one replica at *)
(* a time, and then its new pods added to the placement.  A group that is  *)
(* to shrink has its last pods removed from the placement first, and then  *)
(* its StatefulSet shrunk.  PlacementResize implements this.               *)
(***************************************************************************)
EXTENDS Naturals

CONSTANTS
  Groups,       \* the isolation groups
  MaxInstances  \* bound: pods per StatefulSet

VARIABLES
  desired,   \* the size that the cluster asks for in each group
  replicas,  \* the size of the StatefulSet of each group
  placed     \* the pods, by ordinal, that are in the placement to stay

vars == <<desired, replicas, placed>>

Sizes == 0..MaxInstances
FirstPods(n) == {o \in 0..(MaxInstances - 1) : o < n}

Init ==
  /\ desired \in [Groups -> Sizes]
  /\ replicas = desired
  /\ placed = [g \in Groups |-> {}]

(***************************************************************************)
(* The first placement has pods of every group.                            *)
(***************************************************************************)
Place ==
  /\ \A g \in Groups : placed[g] = {}
  /\ placed' \in [Groups -> SUBSET FirstPods(MaxInstances)]
  /\ \A g \in Groups : placed'[g] # {} /\ placed'[g] \subseteq FirstPods(replicas[g])
  /\ UNCHANGED <<desired, replicas>>

(***************************************************************************)
(* The user asks for another size when everything has the last one.        *)
(***************************************************************************)
Settled(g) == replicas[g] = desired[g] /\ placed[g] = FirstPods(desired[g])

Ask(g) ==
  /\ \A h \in Groups : Settled(h)
  /\ \E n \in Sizes \ {desired[g]} : desired' = [desired EXCEPT ![g] = n]
  /\ UNCHANGED <<replicas, placed>>

Grow(g) ==
  /\ replicas[g] < desired[g]
  /\ replicas' = [replicas EXCEPT ![g] = @ + 1]
  /\ UNCHANGED <<desired, placed>>

(***************************************************************************)
(* Pods are added when the StatefulSet has the size asked for.             *)
(***************************************************************************)
AddPods(g) ==
  /\ replicas[g] = desired[g] /\ placed[g] # {}
  /\ \E S \in SUBSET (FirstPods(replicas[g]) \ placed[g]) :
       S # {} /\ placed' = [placed EXCEPT ![g] = @ \cup S]
  /\ UNCHANGED <<desired, replicas>>

(***************************************************************************)
(* Only pods beyond the size asked for go, when all others are there.      *)
(***************************************************************************)
RemovePods(g) ==
  /\ 0 < desired[g] /\ FirstPods(desired[g]) \subseteq placed[g]
  /\ \E S \in SUBSET (placed[g] \ FirstPods(desired[g])) :
       S # {} /\ placed' = [placed EXCEPT ![g] = @ \ S]
  /\ UNCHANGED <<desired, replicas>>

(***************************************************************************)
(* The pod that a StatefulSet loses is not in the placement any more.      *)
(***************************************************************************)
Shrink(g) ==
  /\ replicas[g] > desired[g]
  /\ placed[g] \subseteq FirstPods(replicas[g] - 1)
  /\ replicas' = [replicas EXCEPT ![g] = @ - 1]
  /\ UNCHANGED <<desired, placed>>

Next ==
  \/ Place
  \/ \E g \in Groups : Ask(g) \/ Grow(g) \/ AddPods(g) \/ RemovePods(g) \/ Shrink(g)

Spec == Init /\ [][Next]_vars

=============================================================================
