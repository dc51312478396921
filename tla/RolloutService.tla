--------------------------- MODULE RolloutService ---------------------------
(***************************************************************************)
(* What the operator promises about updates to somebody who annotates      *)
(* StatefulSets in their order, after the operator's log has shown the     *)
(* edit, and leaves the restart of pods to Kubernetes.  There are no       *)
(* caches and copies: a set is created, annotated, and then processed in one     *)
(* step, which gives it the template that is asked for at that moment and  *)
(* removes the annotation.  Sets are processed in order, and only when all *)
(* sets, that one included, have settled.  StatefulSetRollout implements   *)
(* this.                                                                   *)
(***************************************************************************)
EXTENDS Naturals

CONSTANTS
  NumSets,     \* the number of StatefulSets
  MaxTemplate  \* bound: the templates that may be asked for

Indices == 1..NumSets
Templates == 1..MaxTemplate
Missing == 0

VARIABLES
  wanted,   \* the template that the cluster asks for
  applied,  \* the template of each set, or Missing
  pending,  \* the sets with an update annotation
  settled   \* the sets whose pods all run their template and are ready

vars == <<wanted, applied, pending, settled>>

Init ==
  /\ wanted \in Templates
  /\ \/ applied = [i \in Indices |-> wanted] /\ settled = Indices
     \/ applied = [i \in Indices |-> Missing] /\ settled = {}
  /\ pending = {}

(***************************************************************************)
(* Users.                                                                  *)
(***************************************************************************)
Ask(t) ==
  /\ pending = {}
  /\ wanted' = t
  /\ UNCHANGED <<applied, pending, settled>>

Annotate(i) ==
  /\ applied[i] # Missing
  /\ pending' = pending \cup {i}
  /\ UNCHANGED <<wanted, applied, settled>>

(***************************************************************************)
(* The operator.  A set may be created from an edit before the last.       *)
(***************************************************************************)
Create(i, t) ==
  /\ applied[i] = Missing
  /\ applied' = [applied EXCEPT ![i] = t]
  /\ UNCHANGED <<wanted, pending, settled>>

Process(i) ==
  /\ i \in pending
  /\ \A j \in pending : i <= j
  /\ settled = Indices
  /\ pending' = pending \ {i}
  /\ applied' = [applied EXCEPT ![i] = wanted]
  /\ settled' = IF applied[i] = wanted THEN settled ELSE settled \ {i}
  /\ UNCHANGED wanted

(***************************************************************************)
(* The StatefulSet controller.                                             *)
(***************************************************************************)
Settle(i) ==
  /\ applied[i] # Missing
  /\ settled' = settled \cup {i}
  /\ UNCHANGED <<wanted, applied, pending>>

Next ==
  \/ \E t \in Templates : Ask(t)
  \/ \E i \in Indices : Annotate(i) \/ Process(i) \/ Settle(i)
  \/ \E i \in Indices, t \in Templates : Create(i, t)

Spec == Init /\ [][Next]_vars

=============================================================================
