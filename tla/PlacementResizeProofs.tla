------------------------ MODULE PlacementResizeProofs ------------------------
(***************************************************************************)
(* What PlacementResize guarantees for any groups, sizes and numbers of    *)
(* edits, failures and aborted passes, and whatever the user does; and the *)
(* invariant of resizes, which PatientResizeProofs goes on with.           *)
(***************************************************************************)
EXTENDS PlacementResize, FiniteSetTheorems, TLAPS

(***************************************************************************)
(* Facts about identities and counts.                                      *)
(***************************************************************************)

(***************************************************************************)
(* A pod that is listed has an identity, in its group and at its ordinal.  *)
(***************************************************************************)
LEMMA IdentityType ==
  ASSUME NEW list \in PodLists, NEW g \in Groups, NEW o \in Listed(list, g)
  PROVE  /\ Identity(list, g, o) \in Ids
         /\ GroupOf(Identity(list, g, o)) = g
         /\ OrdinalOf(Identity(list, g, o)) = o
<1>1. o \in Ordinals /\ list[g][o] \in Uids
  BY DEF Listed, PodLists, NoPod
<1>2. 1 \in Uids
  BY ConstantsAssumption DEF Uids
<1> QED
  BY <1>1, <1>2, ConstantsAssumption DEF Identity, Ids, GroupOf, OrdinalOf

(***************************************************************************)
(* The number of pods of a set fits the bound on replicas.                 *)
(***************************************************************************)
LEMMA ListedCount ==
  ASSUME NEW list, NEW g
  PROVE  Cardinality(Listed(list, g)) \in Counts
<1>1. /\ IsFiniteSet(Ordinals)
      /\ Cardinality(Ordinals) = MaxInstances
  BY FS_Interval, ConstantsAssumption DEF Ordinals
<1>2. Listed(list, g) \subseteq Ordinals
  BY DEF Listed
<1>3. /\ IsFiniteSet(Listed(list, g))
      /\ Cardinality(Listed(list, g)) <= MaxInstances
  BY <1>1, <1>2, FS_Subset
<1> QED
  BY <1>3, FS_CardinalityType, ConstantsAssumption DEF Counts

(***************************************************************************)
(* There are finitely many instance IDs.                                   *)
(***************************************************************************)
LEMMA IdsFinite == IsFiniteSet(Ids)
<1>1. IsFiniteSet(Ordinals) /\ IsFiniteSet(Uids)
  BY FS_Interval, ConstantsAssumption DEF Ordinals, Uids
<1> DEFINE T == (Groups \X Ordinals) \X Uids
           f == [id \in Ids |-> <<<<id[1], id[2]>>, id[3]>>]
<1>2. IsFiniteSet(Groups \X Ordinals)
  BY <1>1, FS_Product, ConstantsAssumption
<1>3. IsFiniteSet(T)
  BY <1>1, <1>2, FS_Product
<1>4. f \in Injection(Ids, T)
  <2>1. f \in [Ids -> T]
    BY DEF Ids
  <2>2. ASSUME NEW x \in Ids, NEW y \in Ids, f[x] = f[y] PROVE x = y
    BY <2>2 DEF Ids
  <2> QED
    BY <2>1, <2>2 DEF Injection, IsInjective
<1> QED
  BY <1>3, <1>4, FS_Injection

-----------------------------------------------------------------------------
(***************************************************************************)
(* Type correctness.                                                       *)
(***************************************************************************)

(***************************************************************************)
(* The identities of listed pods are instance IDs.                         *)
(***************************************************************************)
LEMMA IdentitiesType ==
  ASSUME NEW list \in PodLists, NEW g \in Groups
  PROVE  Identities(list, g) \subseteq Ids
BY IdentityType DEF Identities

(***************************************************************************)
(* What is left after a pass returns has its type.                         *)
(***************************************************************************)
LEMMA NoPassType == NoPass \in Passes
<1>1. NoCluster \in Clusters
  BY ConstantsAssumption DEF NoCluster, Clusters, Counts
<1>2. NoSets \in Sets
  BY ConstantsAssumption DEF NoSets, NoSet, Sets, Counts
<1>3. NoPlacement \in Placements
  BY DEF NoPlacement, Placements
<1> QED
  BY <1>1, <1>2, <1>3 DEF NoPass, Passes

(***************************************************************************)
(* The initial state has its type.                                         *)
(***************************************************************************)
LEMMA InitType == Init => TypeOK
<1> SUFFICES ASSUME Init PROVE TypeOK
  OBVIOUS
<1>1. InitialInstances \in Counts /\ 0 \in Counts
  BY ConstantsAssumption DEF Counts
<1>2. cluster \in Clusters
  BY ZenonT(60), <1>1 DEF Init, Clusters, NoCluster
<1>3. sets \in Sets
  <2>1. PICK onDelete \in Strategies :
          sets = [g \in Groups |-> [NoSet EXCEPT !.replicas = InitialInstances,
                                                 !.onDelete = onDelete]]
    BY ZenonT(60) DEF Init
  <2>2. onDelete \in BOOLEAN
    BY ConstantsAssumption
  <2> QED
    BY ZenonT(60), <1>1, <2>1, <2>2 DEF Sets, NoSet
<1>4. pods \in PodLists /\ lastUid \in PodLists
  BY DEF Init, PodLists, NoPod
<1>5. placement \in Placements
  BY DEF Init, Placements, NoPlacement
<1>6. cache \in Caches
  BY <1>2, <1>3, <1>4 DEF Init, Caches
<1>7. pass \in Passes
  BY NoPassType DEF Init
<1> QED
  BY ZenonT(60), <1>2, <1>3, <1>4, <1>5, <1>6, <1>7, ConstantsAssumption DEF Init, TypeOK

(***************************************************************************)
(* What a status write leaves behind, and what a pass that asks for one    *)
(* becomes.                                                                *)
(***************************************************************************)
LEMMA UpdateStatusType ==
  ASSUME TypeOK, NEW copy \in Clusters, UpdateStatus(copy)
  PROVE  cluster' \in Clusters /\ cache' \in Caches
BY ZenonT(60) DEF TypeOK, UpdateStatus, Clusters, Caches

(***************************************************************************)
(* setStatusPodsBootstrapping keeps the types.                             *)
(***************************************************************************)
LEMMA BootstrappingType ==
  ASSUME TypeOK, NEW step \in {"replaceCall", "add"}, NEW ids \in SUBSET Ids,
         SetStatusPodsBootstrapping(step, ids)
  PROVE  cluster' \in Clusters /\ cache' \in Caches /\ pass' \in Passes
<1> DEFINE copy == [pass.cluster EXCEPT !.podsBootstrapping = "True"]
           go == [pass EXCEPT !.pc = step, !.adding = ids, !.cluster = copy]
<1>1. copy \in Clusters
  BY DEF TypeOK, Passes, Clusters
<1>2. go \in Passes /\ [go EXCEPT !.fresh = FALSE] \in Passes
  BY ZenonT(60), <1>1 DEF TypeOK, Passes
<1>3. CASE pass.cluster.podsBootstrapping = "True"
  BY <1>2, <1>3 DEF SetStatusPodsBootstrapping, NoWrite, TypeOK
<1>4. CASE UpdateStatus(copy) /\ pass' = [go EXCEPT !.fresh = FALSE]
  BY ZenonT(60), <1>1, <1>2, <1>4, UpdateStatusType
<1>5. CASE NoWrite /\ Return
  BY <1>5, NoPassType DEF NoWrite, Return, TypeOK
<1> QED
  BY <1>3, <1>4, <1>5 DEF SetStatusPodsBootstrapping

(***************************************************************************)
(* Every step of handleClusterUpdate keeps the types.                      *)
(***************************************************************************)
LEMMA PassType ==
  ASSUME TypeOK, Pass
  PROVE  TypeOK'
<1> USE NoPassType
<1>1. CASE StartPass
  <2>1. pass' \in Passes
    BY ZenonT(60), <1>1 DEF StartPass, TypeOK, Passes, Caches, NoPass, At
  <2> QED
    BY <1>1, <2>1 DEF StartPass, TypeOK, kube, coordinator
<1>2. CASE InitPlacement
  <2>1. pass' \in Passes
    BY <1>2 DEF InitPlacement, TypeOK, Passes, Goto, Return
  <2>2. placementExists' \in BOOLEAN /\ placement' \in Placements
    BY ZenonT(60), <1>2 DEF InitPlacement, TypeOK, Placements, coordinator
  <2> QED
    BY <1>2, <2>1, <2>2 DEF InitPlacement, TypeOK, kube
<1>3. CASE SetStatusPlacementCreated
  <2> DEFINE copy == [pass.cluster EXCEPT !.placementInitialized = TRUE]
  <2>1. copy \in Clusters
    BY ZenonT(60) DEF TypeOK, Passes, Clusters
  <2>2. CASE UpdateStatus(copy) /\ pass' = [pass EXCEPT !.cluster = copy, !.pc = "fetch"]
    <3>1. pass' \in Passes
      BY ZenonT(60), <2>1, <2>2 DEF TypeOK, Passes
    <3> QED
      BY ZenonT(60), <1>3, <2>1, <2>2, <3>1, UpdateStatusType
      DEF SetStatusPlacementCreated, TypeOK, coordinator
  <2>3. CASE NoWrite /\ Return
    BY <1>3, <2>3 DEF SetStatusPlacementCreated, NoWrite, Return, TypeOK, coordinator
  <2> QED
    BY <1>3, <2>2, <2>3 DEF SetStatusPlacementCreated
<1>4. CASE FetchPlacement
  <2>1. PodsForReplacement(placement, cache.pods) \subseteq Ids \X Ids
    <3>1. cache.pods \in PodLists
      BY DEF TypeOK, Caches
    <3> QED
      BY <3>1, IdentityType DEF PodsForReplacement, Mismatches, In, Ids, GroupOf, OrdinalOf
  <2> DEFINE fetched == [pass EXCEPT !.seen = placement, !.sets = cache.sets]
  <2>2. fetched \in Passes
    BY ZenonT(60) DEF TypeOK, Passes, Caches
  <2>3. [fetched EXCEPT !.pc = "resize"] \in Passes
    BY ZenonT(60), <2>2 DEF Passes
  <2>4. ASSUME NEW p \in Ids \X Ids
        PROVE  [fetched EXCEPT !.pc = "replace", !.replacing = {p}] \in Passes
    BY ZenonT(60), <2>2 DEF Passes
  <2>5. pass' \in Passes
    BY ZenonT(60), <1>4, <2>1, <2>3, <2>4 DEF FetchPlacement, Return
  <2> QED
    BY ZenonT(60), <1>4, <2>5 DEF FetchPlacement, TypeOK, kube, coordinator
<1>5. CASE ReplacePodStatus
  BY ZenonT(60), <1>5, BootstrappingType DEF ReplacePodStatus, TypeOK, coordinator
<1>6. CASE ReplacePodInPlacement
  <2>1. pass' \in Passes
    BY <1>6 DEF ReplacePodInPlacement, TypeOK, Passes, Goto, Return
  <2>2. placement' \in Placements
    BY <1>6 DEF ReplacePodInPlacement, TypeOK, Placements
  <2> QED
    BY ZenonT(60), <1>6, <2>1, <2>2 DEF ReplacePodInPlacement, TypeOK, kube
<1>7. ASSUME NEW g \in Groups, ExpandPlacementForSet(g) PROVE TypeOK'
  <2>1. PodsToAdd(g) \in SUBSET Ids
    BY IdentitiesType DEF PodsToAdd, TypeOK, Caches
  <2>2. CASE NoWrite /\ Return
    BY ZenonT(60), <1>7, <2>2 DEF ExpandPlacementForSet, NoWrite, Return, TypeOK, coordinator
  <2>3. CASE SetStatusPodsBootstrapping("add", PodsToAdd(g))
    BY ZenonT(60), <1>7, <2>1, <2>3, BootstrappingType DEF ExpandPlacementForSet, TypeOK, coordinator
  <2> QED
    BY ZenonT(60), <1>7, <2>2, <2>3 DEF ExpandPlacementForSet
<1>8. ASSUME NEW g \in Groups, ShrinkPlacementForSet(g) PROVE TypeOK'
  <2>1. placement' \in Placements
    BY ZenonT(60), <1>8 DEF ShrinkPlacementForSet, TypeOK, Placements
  <2> QED
    BY <1>8, <2>1 DEF ShrinkPlacementForSet, Return, TypeOK, kube
<1>9. ASSUME NEW g \in Groups, PatchStatefulSet(g) PROVE TypeOK'
  <2>1. Desired(g) \in Counts /\ Current(g) \in Counts
    BY DEF TypeOK, Passes, Clusters, Sets, Desired, Current
  <2>2. NewCount(g) \in Counts
    BY <1>9, <2>1, ConstantsAssumption DEF PatchStatefulSet, ToPatch, NewCount, Counts
  <2>3. sets' \in Sets
    BY ZenonT(60), <1>9, <2>2 DEF PatchStatefulSet, TypeOK, Sets
  <2> QED
    BY ZenonT(60), <1>9, <2>3 DEF PatchStatefulSet, Return, TypeOK, coordinator
<1>10. CASE AddPodsToPlacement
  <2>1. placement' \in Placements
    BY <1>10 DEF AddPodsToPlacement, TypeOK, Placements
  <2> QED
    BY <1>10, <2>1 DEF AddPodsToPlacement, Return, TypeOK, kube
<1>11. CASE AllAtSize
  BY <1>11 DEF AllAtSize, Goto, TypeOK, Passes, kube, coordinator
<1>12. CASE ReconcileBootstrappingStatus
  <2> DEFINE copy == [pass.cluster EXCEPT !.podsBootstrapping = "False"]
  <2>1. copy \in Clusters
    BY DEF TypeOK, Passes, Clusters
  <2>2. pass' \in Passes
    BY <1>12 DEF ReconcileBootstrappingStatus, ToCleanup, Goto, Return, TypeOK, Passes
  <2>3. CASE UpdateStatus(copy)
    BY <1>12, <2>1, <2>2, <2>3, UpdateStatusType
    DEF ReconcileBootstrappingStatus, TypeOK, coordinator
  <2>4. CASE NoWrite
    BY <1>12, <2>2, <2>4 DEF ReconcileBootstrappingStatus, NoWrite, TypeOK, coordinator
  <2> QED
    BY <1>12, <2>3, <2>4 DEF ReconcileBootstrappingStatus
<1>13. CASE CleanupAnnotations
  <2>1. PICK g \in InProgress :
          /\ sets' = [sets EXCEPT ![g].inProgress = FALSE]
          /\ Return \/ pass' = [pass EXCEPT !.sets[g].inProgress = FALSE]
    BY ZenonT(60), <1>13 DEF CleanupAnnotations
  <2>2. sets' \in Sets
    BY ZenonT(60), <2>1 DEF InProgress, TypeOK, Sets
  <2>3. [pass.sets EXCEPT ![g].inProgress = FALSE] \in Sets
    <3>1. g \in Groups /\ pass.sets \in Sets
      BY DEF InProgress, TypeOK, Passes
    <3> QED
      BY ZenonT(60), <3>1 DEF Sets
  <2>4. pass' \in Passes
    <3>1. CASE Return
      BY <3>1 DEF Return
    <3>2. CASE pass' = [pass EXCEPT !.sets[g].inProgress = FALSE]
      <4>1. pass' = [pass EXCEPT !.sets = [pass.sets EXCEPT ![g].inProgress = FALSE]]
        BY <3>2 DEF TypeOK, Passes
      <4> QED
        BY ZenonT(60), <2>3, <4>1 DEF TypeOK, Passes
    <3> QED
      BY <2>1, <3>1, <3>2
  <2> QED
    BY <1>13, <2>2, <2>4 DEF CleanupAnnotations, TypeOK, coordinator
<1> QED
  BY ZenonT(60), <1>1, <1>2, <1>3, <1>4, <1>5, <1>6, <1>7, <1>8, <1>9, <1>10, <1>11, <1>12, <1>13 DEF Pass

(***************************************************************************)
(* So does everything users, nodes and Kubernetes do.                      *)
(***************************************************************************)
LEMMA EnvironmentType ==
  ASSUME TypeOK, Environment
  PROVE  TypeOK'
<1>1. CASE SyncCluster \/ SyncSets \/ SyncPods
  <2>1. cache' \in Caches
    BY ZenonT(60), <1>1 DEF SyncCluster, SyncSets, SyncPods, TypeOK, Caches
  <2> QED
    BY <1>1, <2>1 DEF SyncCluster, SyncSets, SyncPods, TypeOK, kube, coordinator
<1>2. ASSUME NEW g \in Groups, NEW o \in Ordinals, CreatePod(g, o) PROVE TypeOK'
  <2>1. lastUid[g][o] \in Uids \cup {NoPod}
    BY ZenonT(60) DEF TypeOK, PodLists
  <2>2. lastUid[g][o] + 1 \in Uids
    BY <1>2, <2>1, ConstantsAssumption DEF CreatePod, Uids, NoPod
  <2>3. pods' \in PodLists /\ lastUid' \in PodLists
    BY ZenonT(60), <1>2, <2>1, <2>2 DEF CreatePod, TypeOK, PodLists
  <2> QED
    BY <1>2, <2>3 DEF CreatePod, TypeOK, coordinator
<1>3. ASSUME NEW g \in Groups, NEW o \in Ordinals, DeletePod(g, o) \/ FailPod(g, o)
      PROVE  TypeOK'
  <2>1. pods' \in PodLists
    <3>1. pods' = [pods EXCEPT ![g][o] = NoPod]
      BY <1>3 DEF DeletePod, FailPod
    <3> QED
      BY <3>1 DEF TypeOK, PodLists
  <2>2. budget' \in [spec : Nat, rollout : Nat, fail : Nat, call : Nat]
    BY <1>3 DEF DeletePod, FailPod, TypeOK
  <2> QED
    BY ZenonT(60), <1>3, <2>1, <2>2 DEF DeletePod, FailPod, TypeOK, coordinator
<1>4. ASSUME NEW g \in Groups, UpdateSetStatus(g) PROVE TypeOK'
  <2>1. sets' \in Sets
    BY ZenonT(60), <1>4, ListedCount DEF UpdateSetStatus, TypeOK, Sets
  <2> QED
    BY <1>4, <2>1 DEF UpdateSetStatus, TypeOK, coordinator
<1>5. ASSUME NEW id \in Ids, BecomeAvailable(id) \/ Leave(id) PROVE TypeOK'
  <2>1. placement' \in Placements
    BY <1>5 DEF BecomeAvailable, Leave, TypeOK, Placements
  <2> QED
    BY <1>5, <2>1 DEF BecomeAvailable, Leave, TypeOK, kube
<1>6. CASE PassAborts
  <2>1. cache' \in Caches
    <3>1. [cluster |-> cluster, fresh |-> TRUE, sets |-> sets, pods |-> pods] \in Caches
      BY DEF TypeOK, Caches
    <3> QED
      BY ZenonT(60), <1>6, <3>1 DEF PassAborts, TypeOK
  <2>2. budget' \in [spec : Nat, rollout : Nat, fail : Nat, call : Nat]
    BY <1>6 DEF PassAborts, TypeOK
  <2> QED
    BY <1>6, <2>1, <2>2, NoPassType DEF PassAborts, Return, TypeOK, kube, coordinator
<1>7. ASSUME NEW g \in Groups, NEW n \in Counts, NEW prevent \in BOOLEAN,
             ChangeSpec(g, n, prevent)
      PROVE  TypeOK'
  <2>1. cluster' \in Clusters
    BY ZenonT(60), <1>7 DEF ChangeSpec, TypeOK, Clusters
  <2>2. cache' \in Caches /\ pass' \in Passes
    BY ZenonT(60), <1>7 DEF ChangeSpec, TypeOK, Caches, Passes
  <2>3. budget' \in [spec : Nat, rollout : Nat, fail : Nat, call : Nat]
    BY <1>7 DEF ChangeSpec, TypeOK
  <2> QED
    BY ZenonT(60), <1>7, <2>1, <2>2, <2>3 DEF ChangeSpec, TypeOK, coordinator
<1>8. ASSUME NEW g \in Groups, ApplyStatefulSetUpdate(g) PROVE TypeOK'
  <2>1. sets' \in Sets
    BY ZenonT(60), <1>8 DEF ApplyStatefulSetUpdate, TypeOK, Sets
  <2>2. budget' \in [spec : Nat, rollout : Nat, fail : Nat, call : Nat]
    BY <1>8 DEF ApplyStatefulSetUpdate, TypeOK
  <2> QED
    BY <1>8, <2>1, <2>2 DEF ApplyStatefulSetUpdate, TypeOK, coordinator
<1> QED
  BY ZenonT(60), <1>1, <1>2, <1>3, <1>4, <1>5, <1>6, <1>7, <1>8
  DEF Environment, StatefulSetController, Database

(***************************************************************************)
(* Every step keeps the types.                                             *)
(***************************************************************************)
LEMMA NextType == TypeOK /\ [Next]_vars => TypeOK'
<1> SUFFICES ASSUME TypeOK, [Next]_vars PROVE TypeOK'
  OBVIOUS
<1>1. CASE Next
  BY <1>1, PassType, EnvironmentType DEF Next
<1>2. CASE UNCHANGED vars
  BY <1>2 DEF vars, TypeOK
<1> QED
  BY <1>1, <1>2

(***************************************************************************)
(* Every value the control loop, its caches and its environment hold is of *)
(* its type; a StatefulSet is never given a negative size or one above the *)
(* largest that was asked for.                                             *)
(***************************************************************************)
THEOREM TypeCorrect == Spec => []TypeOK
BY InitType, NextType, PTL DEF Spec

-----------------------------------------------------------------------------
(***************************************************************************)
(* The view of a pass.  Its own steps and those of everybody else are      *)
(* looked at apart: nobody else touches the pass, and only the database    *)
(* nodes touch the placement.                                              *)
(***************************************************************************)

(***************************************************************************)
(* A pass that returned has no view of the placement any more.             *)
(***************************************************************************)
LEMMA ReturnKeepsView ==
  ASSUME Return
  PROVE  SeenIsCurrent'
BY DEF Return, NoPass, SeenIsCurrent

(***************************************************************************)
(* setStatusPodsBootstrapping does not touch the placement.                *)
(***************************************************************************)
LEMMA BootstrappingKeepsView ==
  ASSUME TypeOK, SeenIsCurrent, UNCHANGED placement, NEW step, NEW ids,
         \/ step = "replaceCall" /\ pass.pc = "replace"
         \/ step = "add" /\ pass.pc = "resize",
         SetStatusPodsBootstrapping(step, ids)
  PROVE  SeenIsCurrent'
<1>1. CASE Return
  BY <1>1, ReturnKeepsView
<1>2. CASE /\ pass'.pc = step
           /\ pass'.seen = pass.seen
           /\ pass'.replacing = pass.replacing
  BY <1>2 DEF SeenIsCurrent
<1> QED
  BY ZenonT(60), <1>1, <1>2 DEF SetStatusPodsBootstrapping, TypeOK, Passes

(***************************************************************************)
(* A step of the pass changes the placement only in the pass's last call,  *)
(* or by its own replace.                                                  *)
(***************************************************************************)
LEMMA PassKeepsView ==
  ASSUME TypeOK, SeenIsCurrent, Pass
  PROVE  SeenIsCurrent'
<1>1. CASE StartPass
  BY <1>1 DEF StartPass, NoPass, SeenIsCurrent
<1>2. CASE InitPlacement
  <2>1. CASE Return
    BY <2>1, ReturnKeepsView
  <2>2. CASE Goto("created")
    BY <1>2, <2>2 DEF InitPlacement, At, Goto, SeenIsCurrent, TypeOK, Passes
  <2> QED
    BY <1>2, <2>1, <2>2 DEF InitPlacement
<1>3. CASE SetStatusPlacementCreated
  <2>1. CASE Return
    BY <2>1, ReturnKeepsView
  <2>2. CASE pass'.pc = "fetch" /\ pass'.replacing = pass.replacing
    BY <1>3, <2>2 DEF SetStatusPlacementCreated, At, SeenIsCurrent
  <2> QED
    BY ZenonT(60), <1>3, <2>1, <2>2 DEF SetStatusPlacementCreated, TypeOK, Passes
<1>4. CASE FetchPlacement
  <2> DEFINE fetched == [pass EXCEPT !.seen = placement, !.sets = cache.sets]
  <2>1. UNCHANGED placement /\ pass.replacing = {}
    BY ZenonT(60), <1>4 DEF FetchPlacement, coordinator, At, SeenIsCurrent
  <2>2. CASE Return
    BY <2>2, ReturnKeepsView
  <2>3. CASE AllAvailable(placement) /\ pass' = [fetched EXCEPT !.pc = "resize"]
    <3>1. pass'.pc = "resize" /\ pass'.seen = placement /\ pass'.replacing = {}
      BY ZenonT(60), <2>1, <2>3 DEF TypeOK, Passes
    <3> QED
      BY ZenonT(60), <2>1, <2>3, <3>1 DEF SeenIsCurrent
  <2>4. ASSUME NEW p \in PodsForReplacement(placement, cache.pods),
               AllAvailable(placement),
               pass' = [fetched EXCEPT !.pc = "replace", !.replacing = {p}]
        PROVE  SeenIsCurrent'
    <3>1. pass'.pc = "replace" /\ pass'.seen = placement /\ pass'.replacing = {p}
      BY ZenonT(60), <2>4 DEF TypeOK, Passes
    <3>2. /\ p[1] \in In(placement)
          /\ GroupOf(p[1]) = GroupOf(p[2])
          /\ OrdinalOf(p[1]) = OrdinalOf(p[2])
      <4>1. PICK i \in In(placement) : p = <<i, Identity(cache.pods, GroupOf(i), OrdinalOf(i))>>
        BY DEF PodsForReplacement, Mismatches
      <4> QED
        BY ZenonT(60), <4>1 DEF Identity, GroupOf, OrdinalOf
    <3> QED
      BY ZenonT(60), <2>1, <2>4, <3>1, <3>2 DEF SeenIsCurrent
  <2> QED
    BY ZenonT(60), <1>4, <2>2, <2>3, <2>4 DEF FetchPlacement
<1>5. CASE ReplacePodStatus
  BY ZenonT(60), <1>5, BootstrappingKeepsView DEF ReplacePodStatus, At, coordinator
<1>6. CASE ReplacePodInPlacement
  <2>1. CASE Return
    BY <2>1, ReturnKeepsView
  <2>2. ASSUME NEW p \in pass.replacing, Goto("resize"),
               placement' = [placement EXCEPT ![p[1]] = "Leaving", ![p[2]] = "Initializing"]
        PROVE  SeenIsCurrent'
    <3>1. /\ pass.pc = "replaceCall"
          /\ pass'.pc = "resize" /\ pass'.seen = pass.seen /\ pass'.replacing = pass.replacing
      BY ZenonT(60), <1>6, <2>2 DEF ReplacePodInPlacement, At, Goto, TypeOK, Passes
    <3>2. ASSUME NEW id \in Ids, id # p[1], id # p[2]
          PROVE  placement'[id] = pass.seen[id]
      BY ZenonT(60), <2>2, <3>1, <3>2 DEF SeenIsCurrent, TypeOK, Placements
    <3> QED
      BY ZenonT(60), <3>1, <3>2 DEF SeenIsCurrent
  <2> QED
    BY ZenonT(60), <1>6, <2>1, <2>2 DEF ReplacePodInPlacement
<1>7. ASSUME NEW g \in Groups, ExpandPlacementForSet(g) PROVE SeenIsCurrent'
  <2>1. CASE Return
    BY ZenonT(60), <2>1, ReturnKeepsView
  <2>2. CASE SetStatusPodsBootstrapping("add", PodsToAdd(g))
    BY <1>7, <2>2, BootstrappingKeepsView DEF ExpandPlacementForSet, At, coordinator
  <2> QED
    BY <1>7, <2>1, <2>2 DEF ExpandPlacementForSet
<1>8. ASSUME NEW g \in Groups, ShrinkPlacementForSet(g) \/ PatchStatefulSet(g)
      PROVE  SeenIsCurrent'
  BY ZenonT(60), <1>8, ReturnKeepsView DEF ShrinkPlacementForSet, PatchStatefulSet
<1>9. CASE AddPodsToPlacement
  BY <1>9, ReturnKeepsView DEF AddPodsToPlacement
<1>10. CASE AllAtSize
  BY <1>10 DEF AllAtSize, Goto, SeenIsCurrent, TypeOK, Passes
<1>11. CASE ReconcileBootstrappingStatus \/ CleanupAnnotations
  <2>1. CASE Return
    BY <2>1, ReturnKeepsView
  <2>2. CASE pass'.pc = "cleanup"
    BY <2>2 DEF SeenIsCurrent
  <2>3. Return \/ pass'.pc = "cleanup"
    BY <1>11
    DEF ReconcileBootstrappingStatus, CleanupAnnotations, ToCleanup, Goto, At, TypeOK, Passes
  <2> QED
    BY ZenonT(60), <2>1, <2>2, <2>3
<1> QED
  BY ZenonT(60), <1>1, <1>2, <1>3, <1>4, <1>5, <1>6, <1>7, <1>8, <1>9, <1>10, <1>11 DEF Pass

(***************************************************************************)
(* The database changes nothing in a placement in which every instance is  *)
(* available, but for the pair this pass replaced.                         *)
(***************************************************************************)
LEMMA EnvironmentKeepsView ==
  ASSUME TypeOK, SeenIsCurrent, Environment
  PROVE  SeenIsCurrent'
<1>1. CASE UNCHANGED <<placement, pass>>
  BY <1>1 DEF SeenIsCurrent
<1>2. CASE PassAborts
  BY ZenonT(60), <1>2, ReturnKeepsView DEF PassAborts
<1>3. ASSUME NEW g \in Groups, NEW n \in Counts, NEW prevent \in BOOLEAN,
             ChangeSpec(g, n, prevent)
      PROVE  SeenIsCurrent'
  <2>1. /\ UNCHANGED placement
        /\ pass'.pc = pass.pc /\ pass'.seen = pass.seen /\ pass'.replacing = pass.replacing
    BY <1>3 DEF ChangeSpec, coordinator, TypeOK, Passes
  <2> QED
    BY <2>1 DEF SeenIsCurrent
<1>4. ASSUME NEW i \in Ids, BecomeAvailable(i) \/ Leave(i) PROVE SeenIsCurrent'
  <2>1. /\ UNCHANGED pass
        /\ placement[i] \in {"Initializing", "Leaving"}
        /\ \A id \in Ids \ {i} : placement'[id] = placement[id]
    BY ZenonT(60), <1>4 DEF BecomeAvailable, Leave, TypeOK, Placements
  <2>2. CASE pass.pc \in {"replace", "replaceCall", "resize", "add"}
    <3>1. placement[i] # pass.seen[i]
      BY ZenonT(60), <2>1, <2>2 DEF SeenIsCurrent, AllAvailable, In
    <3>2. pass.pc \notin {"replace", "replaceCall"}
      BY ZenonT(60), <3>1 DEF SeenIsCurrent
    <3>3. \E p \in pass.replacing : i \in {p[1], p[2]}
      BY ZenonT(60), <2>2, <3>1 DEF SeenIsCurrent
    <3> QED
      BY ZenonT(60), <2>1, <2>2, <3>2, <3>3 DEF SeenIsCurrent
  <2>3. CASE pass.pc \notin {"replace", "replaceCall", "resize", "add"}
    BY <2>1, <2>3 DEF SeenIsCurrent
  <2> QED
    BY ZenonT(60), <2>2, <2>3
<1>5. CASE SyncCluster \/ SyncSets \/ SyncPods
  BY <1>1, <1>5 DEF SyncCluster, SyncSets, SyncPods, coordinator
<1>6. CASE \/ StatefulSetController
           \/ \E g \in Groups, o \in Ordinals : FailPod(g, o)
           \/ \E g \in Groups : ApplyStatefulSetUpdate(g)
  BY ZenonT(60), <1>1, <1>6
  DEF StatefulSetController, CreatePod, DeletePod, UpdateSetStatus, FailPod,
      ApplyStatefulSetUpdate, coordinator
<1> QED
  BY ZenonT(60), <1>2, <1>3, <1>4, <1>5, <1>6 DEF Environment, Database

(***************************************************************************)
(* Every step keeps the view current.                                      *)
(***************************************************************************)
LEMMA NextKeepsView == TypeOK /\ SeenIsCurrent /\ [Next]_vars => SeenIsCurrent'
<1> SUFFICES ASSUME TypeOK, SeenIsCurrent, [Next]_vars PROVE SeenIsCurrent'
  OBVIOUS
<1>1. CASE Next
  BY ZenonT(60), <1>1, PassKeepsView, EnvironmentKeepsView DEF Next
<1>2. CASE UNCHANGED vars
  BY <1>2 DEF vars, SeenIsCurrent
<1> QED
  BY <1>1, <1>2

(***************************************************************************)
(* Between the moment a pass fetches the placement and the moment it acts  *)
(* on it, nothing changes that the pass did not change itself.             *)
(***************************************************************************)
THEOREM ViewCorrect == Spec => []SeenIsCurrent
<1>1. Init => SeenIsCurrent
  BY DEF Init, NoPass, SeenIsCurrent
<1> QED
  BY <1>1, NextKeepsView, TypeCorrect, PTL DEF Spec

-----------------------------------------------------------------------------
(***************************************************************************)
(* Topology changes.  Only three steps of a pass change instances, once    *)
(* there is a placement, in a way that OneChangeAtATime is about.          *)
(***************************************************************************)
Changes == \E id \in Ids : Joins(id) \/ StartsToLeave(id)

(***************************************************************************)
(* Only three steps of a pass start a change of the placement.             *)
(***************************************************************************)
LEMMA WhoChanges ==
  ASSUME TypeOK, Next, placementExists, Changes
  PROVE  \/ At("replaceCall")
         \/ At("resize")
         \/ At("add")
<1>1. CASE UNCHANGED placement
  BY <1>1 DEF Changes, Joins, StartsToLeave
<1>2. ASSUME NEW i \in Ids, BecomeAvailable(i) \/ Leave(i) PROVE FALSE
  BY ZenonT(60), <1>2 DEF BecomeAvailable, Leave, Changes, Joins, StartsToLeave, TypeOK, Placements
<1>3. CASE Pass
  <2>1. CASE StartPass \/ InitPlacement \/ SetStatusPlacementCreated \/ FetchPlacement
    BY ZenonT(60), <1>1, <2>1
    DEF StartPass, InitPlacement, SetStatusPlacementCreated, FetchPlacement, coordinator
  <2>2. CASE \/ ReplacePodStatus \/ AllAtSize
             \/ ReconcileBootstrappingStatus \/ CleanupAnnotations
    BY ZenonT(60), <1>1, <2>2
    DEF ReplacePodStatus, AllAtSize, ReconcileBootstrappingStatus, CleanupAnnotations, coordinator
  <2> QED
    BY ZenonT(60), <1>3, <2>1, <2>2
    DEF Pass, ReplacePodInPlacement, AddPodsToPlacement, ExpandPlacementForSet,
        ShrinkPlacementForSet, PatchStatefulSet
<1>4. CASE Environment
  BY ZenonT(60), <1>1, <1>2, <1>4
  DEF Environment, StatefulSetController, CreatePod, DeletePod, UpdateSetStatus, FailPod,
      SyncCluster, SyncSets, SyncPods, PassAborts, ChangeSpec, ApplyStatefulSetUpdate, Database, coordinator
<1> QED
  BY <1>3, <1>4 DEF Next

(***************************************************************************)
(* The operator never starts to add, remove or replace an instance while   *)
(* another change is in progress, apart from the replace of the same pass. *)
(***************************************************************************)
THEOREM ChangesOneAtATime == Spec => OneChangeAtATime
<1>1. ASSUME TypeOK, SeenIsCurrent, Next, placementExists, Changes, NEW id \in In(placement)
      PROVE  \/ placement[id] = "Available"
             \/ \E p \in pass.replacing : id \in {p[1], p[2]}
  <2>1. pass.pc \in {"replaceCall", "resize", "add"}
    BY <1>1, WhoChanges DEF At
  <2>2. id \in Ids /\ placement[id] # "Absent"
    BY DEF In
  <2> QED
    BY ZenonT(60), <1>1, <2>1, <2>2 DEF SeenIsCurrent, AllAvailable, In
<1>2. TypeOK /\ SeenIsCurrent /\ [Next]_vars =>
        [placementExists /\ (\E id \in Ids : Joins(id) \/ StartsToLeave(id)) =>
           \A id \in In(placement) :
              \/ placement[id] = "Available"
              \/ \E p \in pass.replacing : id \in {p[1], p[2]}]_vars
  BY <1>1 DEF Changes
<1> QED
  BY <1>2, TypeCorrect, ViewCorrect, PTL DEF Spec, OneChangeAtATime

-----------------------------------------------------------------------------
(***************************************************************************)
(* Scaling down.                                                           *)
(***************************************************************************)

(***************************************************************************)
(* Once a pass has its view, a group has no more pods in the placement     *)
(* than the pass counts instances of it: the pair it replaced is one pod.  *)
(***************************************************************************)
LEMMA PlacedCount ==
  ASSUME TypeOK, SeenIsCurrent, pass.pc = "resize", NEW g \in Groups
  PROVE  /\ InPlacement(g) \in Nat
         /\ Cardinality(PlacedOrdinals(g)) \in Nat
         /\ Cardinality(PlacedOrdinals(g)) <= InPlacement(g)
<1> DEFINE S == InGroup(pass.seen, g)
           T == {OrdinalOf(id) : id \in S}
           f == [id \in S |-> OrdinalOf(id)]
<1>1. IsFiniteSet(S) /\ Cardinality(S) \in Nat
  <2>1. S \subseteq Ids
    BY DEF InGroup, In
  <2> QED
    BY ZenonT(60), <2>1, IdsFinite, FS_Subset, FS_CardinalityType
<1>2. f \in Surjection(S, T)
  BY DEF Surjection
<1>3. IsFiniteSet(T) /\ Cardinality(T) <= Cardinality(S)
  BY SMTT(60), <1>1, <1>2, FS_Surjection
<1>4. PlacedOrdinals(g) \subseteq T
  <2> SUFFICES ASSUME NEW id \in InGroup(placement, g)
               PROVE  \E i \in S : OrdinalOf(i) = OrdinalOf(id)
    BY DEF PlacedOrdinals
  <2>1. id \in Ids /\ placement[id] # "Absent" /\ GroupOf(id) = g
    BY DEF InGroup, In
  <2>2. CASE placement[id] = pass.seen[id]
    BY <2>1, <2>2 DEF InGroup, In
  <2>3. ASSUME NEW p \in pass.replacing, id \in {p[1], p[2]}
        PROVE  \E i \in S : OrdinalOf(i) = OrdinalOf(id)
    <3>1. /\ p[1] \in In(pass.seen)
          /\ GroupOf(p[1]) = GroupOf(p[2])
          /\ OrdinalOf(p[1]) = OrdinalOf(p[2])
      BY ZenonT(60) DEF SeenIsCurrent
    <3>2. p[1] \in S /\ OrdinalOf(p[1]) = OrdinalOf(id)
      BY ZenonT(60), <2>1, <2>3, <3>1 DEF InGroup
    <3> QED
      BY ZenonT(60), <3>2
  <2> QED
    BY ZenonT(60), <2>1, <2>2, <2>3 DEF SeenIsCurrent
<1>5. /\ IsFiniteSet(PlacedOrdinals(g))
      /\ Cardinality(PlacedOrdinals(g)) <= Cardinality(T)
  BY <1>3, <1>4, FS_Subset
<1> QED
  BY <1>1, <1>3, <1>5, FS_CardinalityType DEF InPlacement

(***************************************************************************)
(* A pass that scales a StatefulSet down leaves it at least as many        *)
(* replicas as it has pods in the placement.                               *)
(***************************************************************************)
THEOREM ScaleDownKeepsPlaced == Spec => NeverBelowPlacement
<1> DEFINE Kept(g) ==
      sets'[g].replicas # sets[g].replicas /\ sets'[g].replicas < Current(g) =>
        Cardinality(PlacedOrdinals(g)) <= sets'[g].replicas
<1>1. ASSUME TypeOK, SeenIsCurrent, NEW h \in Groups, PatchStatefulSet(h), NEW g \in Groups
      PROVE  Kept(g)
  <2>1. CASE sets'[g].replicas = sets[g].replicas
    BY ZenonT(60), <2>1
  <2>2. CASE sets'[g].replicas # sets[g].replicas
    <3>1. g = h /\ sets'[g].replicas = NewCount(g)
      BY ZenonT(60), <1>1, <2>2 DEF PatchStatefulSet, TypeOK, Sets
    <3>2. pass.pc = "resize" /\ Desired(g) # Current(g) /\ InPlacement(g) <= Desired(g)
      BY ZenonT(60), <1>1, <3>1 DEF PatchStatefulSet, At, ToPatch
    <3>3. Desired(g) \in Nat /\ Current(g) \in Nat
      BY SMTT(60), <1>1, ConstantsAssumption DEF TypeOK, Passes, Clusters, Sets, Counts, Desired, Current
    <3>4. CASE Current(g) < Desired(g)
      BY <3>1, <3>3, <3>4 DEF NewCount
    <3>5. CASE Current(g) > Desired(g)
      <4>1. NewCount(g) >= Desired(g)
        BY <3>3, <3>5 DEF NewCount
      <4>2. /\ InPlacement(g) \in Nat
            /\ Cardinality(PlacedOrdinals(g)) \in Nat
            /\ Cardinality(PlacedOrdinals(g)) <= InPlacement(g)
        BY <1>1, <3>2, PlacedCount
      <4>3. NewCount(g) \in Int
        BY <3>3 DEF NewCount
      <4> HIDE DEF Kept
      <4>4. Cardinality(PlacedOrdinals(g)) <= NewCount(g)
        BY SMTT(60), <3>2, <3>3, <4>1, <4>2, <4>3
      <4> QED
        BY ZenonT(60), <3>1, <4>4 DEF Kept
    <3> QED
      BY <3>2, <3>3, <3>4, <3>5
  <2> QED
    BY <2>1, <2>2
<1>2. ASSUME TypeOK, Next, NEW g \in Groups, ~\E h \in Groups : PatchStatefulSet(h)
      PROVE  sets'[g].replicas = sets[g].replicas
  <2>1. CASE UNCHANGED sets
    BY <2>1
  <2>2. ASSUME NEW h \in Groups, UpdateSetStatus(h)
        PROVE  sets'[g].replicas = sets[g].replicas
    BY ZenonT(60), <1>2, <2>2 DEF UpdateSetStatus, TypeOK, Sets
  <2>3. ASSUME NEW h \in Groups, ApplyStatefulSetUpdate(h)
        PROVE  sets'[g].replicas = sets[g].replicas
    BY ZenonT(60), <1>2, <2>3 DEF ApplyStatefulSetUpdate, TypeOK, Sets
  <2>4. CASE CleanupAnnotations
    BY SMTT(60), <1>2, <2>4 DEF CleanupAnnotations, InProgress, TypeOK, Sets
  <2>5. CASE Pass
    BY ZenonT(60), <1>2, <2>1, <2>5, <2>4
    DEF Pass, StartPass, InitPlacement, SetStatusPlacementCreated, FetchPlacement,
        ReplacePodStatus, ReplacePodInPlacement, ExpandPlacementForSet,
        ShrinkPlacementForSet, AddPodsToPlacement, AllAtSize,
        ReconcileBootstrappingStatus, kube
  <2>6. CASE Environment
    BY ZenonT(60), <2>1, <2>2, <2>6, <2>3
    DEF Environment, StatefulSetController, CreatePod, DeletePod, FailPod, SyncCluster,
        SyncSets, SyncPods, PassAborts, ChangeSpec, Database, BecomeAvailable, Leave, kube
  <2> QED
    BY ZenonT(60), <1>2, <2>5, <2>6 DEF Next
<1>3. TypeOK /\ SeenIsCurrent /\ [Next]_vars => [\A g \in Groups : Kept(g)]_vars
  BY <1>1, <1>2
<1> QED
  BY <1>3, TypeCorrect, ViewCorrect, PTL DEF Spec, NeverBelowPlacement

-----------------------------------------------------------------------------
(***************************************************************************)
(* The ordinals of a set of n pods; a group with an instance that stays    *)
(* for each of them; a list with no other pods.                            *)
(***************************************************************************)
Below(n) == {o \in Ordinals : o < n}
Full(g, n) == Below(n) \subseteq StayingOrdinals(g)
Clean(list, g, n) == Listed(list, g) \subseteq Below(n)

-----------------------------------------------------------------------------
(***************************************************************************)
(* Facts about sizes and counts.                                           *)
(***************************************************************************)

(***************************************************************************)
(* All sizes are counts.                                                   *)
(***************************************************************************)
LEMMA SizeTypes ==
  ASSUME TypeOK, NEW g \in Groups
  PROVE  /\ cluster.desired[g] \in Counts /\ sets[g].replicas \in Counts
         /\ cache.sets[g].replicas \in Counts /\ pass.sets[g].replicas \in Counts
         /\ cache.cluster.desired[g] \in Counts /\ pass.cluster.desired[g] \in Counts
<1>1. cluster \in Clusters /\ cache.cluster \in Clusters /\ pass.cluster \in Clusters
  BY DEF TypeOK, Caches, Passes
<1>2. sets \in Sets /\ cache.sets \in Sets /\ pass.sets \in Sets
  BY DEF TypeOK, Caches, Passes
<1>3. \A c \in Clusters : c.desired[g] \in Counts
  BY DEF Clusters
<1>4. \A s \in Sets : s[g].replicas \in Counts
  BY DEF Sets
<1> QED
  BY ZenonT(60), <1>1, <1>2, <1>3, <1>4

(***************************************************************************)
(* Sizes and ordinals are numbers, and an ordinal is less than the largest *)
(* size.                                                                   *)
(***************************************************************************)
LEMMA CountsAreNumbers == Counts \subseteq Nat /\ Ordinals \subseteq Counts
BY ConstantsAssumption DEF Counts, Ordinals

(***************************************************************************)
(* Comparisons, for the steps that need nothing else about numbers.        *)
(***************************************************************************)
LEMMA Comparisons ==
  /\ \A m \in Nat, n \in Nat : m < n => ~(m >= n) /\ ~(n <= m)
  /\ \A n \in Counts : n <= n
BY CountsAreNumbers

(***************************************************************************)
(* There are n ordinals below n.                                           *)
(***************************************************************************)
LEMMA BelowCount ==
  ASSUME NEW n \in Counts
  PROVE  IsFiniteSet(Below(n)) /\ Cardinality(Below(n)) = n
<1>1. Below(n) = 0..(n - 1) /\ 0 \in Int /\ n - 1 \in Int
  BY ConstantsAssumption DEF Below, Ordinals, Counts
<1>2. (IF 0 > n - 1 THEN 0 ELSE (n - 1) - 0 + 1) = n
  BY CountsAreNumbers
<1> QED
  BY <1>1, <1>2, FS_Interval

(***************************************************************************)
(* A smaller size has fewer pods, and there is one below any but zero.     *)
(***************************************************************************)
LEMMA BelowMonotone ==
  ASSUME NEW m \in Counts, NEW n \in Counts, m <= n
  PROVE  Below(m) \subseteq Below(n)
BY ConstantsAssumption DEF Below, Ordinals, Counts

(***************************************************************************)
(* There is a pod below any size but zero.                                 *)
(***************************************************************************)
LEMMA BelowZero ==
  ASSUME NEW n \in Counts
  PROVE  (n > 0 => 0 \in Below(n)) /\ (n = 0 => Below(n) = {})
BY ConstantsAssumption DEF Below, Ordinals, Counts

(***************************************************************************)
(* The position of a pod in the list is at most its ordinal (sortPods).    *)
(***************************************************************************)
LEMMA IndexBound ==
  ASSUME NEW list, NEW g, NEW o \in Ordinals
  PROVE  IndexIn(list, g, o) \in Nat /\ IndexIn(list, g, o) <= o
<1>1. o \in Counts /\ o \in Nat
  BY CountsAreNumbers
<1>2. {p \in Listed(list, g) : p < o} \subseteq Below(o)
  BY DEF Listed, Below
<1>3. IsFiniteSet(Below(o)) /\ Cardinality(Below(o)) = o
  BY <1>1, BelowCount
<1>4. IsFiniteSet({p \in Listed(list, g) : p < o})
  BY <1>2, <1>3, FS_Subset
<1>5. Cardinality({p \in Listed(list, g) : p < o}) <= Cardinality(Below(o))
  BY <1>2, <1>3, FS_Subset
<1> QED
  BY <1>3, <1>4, <1>5, FS_CardinalityType DEF IndexIn

-----------------------------------------------------------------------------
(***************************************************************************)
(* Facts about the instances that stay.                                    *)
(***************************************************************************)

(***************************************************************************)
(* An instance stays in a group when it is in it and not on its way out.   *)
(***************************************************************************)
LEMMA WhoStays ==
  ASSUME NEW g, NEW id
  PROVE  id \in Staying(g) <=>
           /\ id \in Ids /\ GroupOf(id) = g
           /\ placement[id] # "Absent" /\ placement[id] # "Leaving"
BY DEF Staying, InGroup, In

(***************************************************************************)
(* The same after a step.                                                  *)
(***************************************************************************)
LEMMA WhoStaysNext ==
  ASSUME NEW g, NEW id
  PROVE  id \in Staying(g)' <=>
           /\ id \in Ids /\ GroupOf(id) = g
           /\ placement'[id] # "Absent" /\ placement'[id] # "Leaving"
BY DEF Staying, InGroup, In

(***************************************************************************)
(* An instance's ordinal is one.                                           *)
(***************************************************************************)
LEMMA IdParts ==
  ASSUME NEW id \in Ids
  PROVE  GroupOf(id) \in Groups /\ OrdinalOf(id) \in Ordinals
BY DEF Ids, GroupOf, OrdinalOf

(***************************************************************************)
(* PlacedPodsKept in terms of ordinals.                                    *)
(***************************************************************************)
LEMMA KeptOrdinals ==
  PlacedPodsKept <=> \A g \in Groups : StayingOrdinals(g) \subseteq Below(sets[g].replicas)
<1>1. ASSUME PlacedPodsKept, NEW g \in Groups, NEW o \in StayingOrdinals(g)
      PROVE  o \in Below(sets[g].replicas)
  <2>1. PICK id \in Staying(g) : o = OrdinalOf(id)
    BY <1>1 DEF StayingOrdinals
  <2>2. id \in Ids
    BY <2>1, WhoStays
  <2>3. o \in Ordinals
    BY <2>1, <2>2, IdParts
  <2> QED
    BY <1>1, <2>1, <2>3 DEF PlacedPodsKept, Below
<1>2. ASSUME \A g \in Groups : StayingOrdinals(g) \subseteq Below(sets[g].replicas),
             NEW g \in Groups, NEW id \in Staying(g)
      PROVE  OrdinalOf(id) < sets[g].replicas
  BY <1>2 DEF StayingOrdinals, Below
<1>3. PlacedPodsKept => \A g \in Groups : StayingOrdinals(g) \subseteq Below(sets[g].replicas)
  BY <1>1
<1>4. (\A g \in Groups : StayingOrdinals(g) \subseteq Below(sets[g].replicas)) => PlacedPodsKept
  BY <1>2 DEF PlacedPodsKept
<1> QED
  BY <1>3, <1>4

(***************************************************************************)
(* A group with all its pods in the placement counts at least as many      *)
(* instances, and no pod is beyond when it counts no more.                 *)
(***************************************************************************)
LEMMA FullCount ==
  ASSUME TypeOK, SeenIsCurrent, pass.pc = "resize", NEW g \in Groups, NEW n \in Counts, Full(g, n)
  PROVE  /\ n <= InPlacement(g)
         /\ InPlacement(g) <= n => StayingOrdinals(g) \subseteq Below(n)
<1>1. IsFiniteSet(Below(n)) /\ Cardinality(Below(n)) = n /\ n \in Nat
  BY BelowCount, CountsAreNumbers
<1>2. StayingOrdinals(g) \subseteq PlacedOrdinals(g)
  BY DEF StayingOrdinals, PlacedOrdinals, Staying
<1>3. Below(n) \subseteq PlacedOrdinals(g)
  BY <1>2 DEF Full
<1>4. PlacedOrdinals(g) \subseteq Ordinals /\ IsFiniteSet(Ordinals)
  <2>1. IsFiniteSet(Ordinals)
    BY ConstantsAssumption, FS_Interval DEF Ordinals
  <2>2. InGroup(placement, g) \subseteq Ids
    BY DEF InGroup, In
  <2> QED
    BY <2>1, <2>2, IdParts DEF PlacedOrdinals
<1>5. IsFiniteSet(PlacedOrdinals(g))
  BY <1>4, FS_Subset
<1>6. /\ InPlacement(g) \in Nat
      /\ Cardinality(PlacedOrdinals(g)) \in Nat
      /\ Cardinality(PlacedOrdinals(g)) <= InPlacement(g)
  BY PlacedCount
<1>7. Cardinality(Below(n)) <= Cardinality(PlacedOrdinals(g))
  BY <1>3, <1>5, FS_Subset
<1>8. n <= InPlacement(g)
  BY <1>1, <1>6, <1>7
<1>9. ASSUME InPlacement(g) <= n PROVE StayingOrdinals(g) \subseteq Below(n)
  <2>1. Cardinality(Below(n)) = Cardinality(PlacedOrdinals(g))
    BY <1>1, <1>6, <1>7, <1>9
  <2>2. Below(n) = PlacedOrdinals(g)
    BY <1>3, <1>5, <2>1, FS_Subset
  <2> QED
    BY <1>2, <2>2
<1> QED
  BY <1>8, <1>9

(***************************************************************************)
(* Where the placement is the same, so are the instances that stay.        *)
(***************************************************************************)
LEMMA SamePlacement ==
  ASSUME UNCHANGED placement
  PROVE  \A g : Staying(g)' = Staying(g) /\ StayingOrdinals(g)' = StayingOrdinals(g)
BY DEF StayingOrdinals, Staying, InGroup, In

(***************************************************************************)
(* Before there is a placement no instance stays, and no group that has a  *)
(* size is full.                                                           *)
(***************************************************************************)
LEMMA NothingStays ==
  ASSUME placement = NoPlacement, NEW g
  PROVE  Staying(g) = {} /\ StayingOrdinals(g) = {}
BY DEF NoPlacement, Staying, StayingOrdinals, InGroup, In

(***************************************************************************)
(* Instances that become available or go were, and were not, staying.      *)
(***************************************************************************)
LEMMA DatabaseStaying ==
  ASSUME TypeOK, NEW i \in Ids, BecomeAvailable(i) \/ Leave(i), NEW g
  PROVE  Staying(g)' = Staying(g)
<1>1. \/ placement[i] = "Initializing" /\ placement' = [placement EXCEPT ![i] = "Available"]
      \/ placement[i] = "Leaving" /\ placement' = [placement EXCEPT ![i] = "Absent"]
  BY DEF BecomeAvailable, Leave
<1>2. ASSUME NEW id \in Ids
      PROVE  placement'[id] \notin {"Absent", "Leaving"} <=> placement[id] \notin {"Absent", "Leaving"}
  BY <1>1, <1>2 DEF TypeOK, Placements
<1>3. ASSUME NEW id PROVE id \in Staying(g)' <=> id \in Staying(g)
  BY ZenonT(60), <1>2, WhoStays, WhoStaysNext
<1> QED
  BY <1>3

(***************************************************************************)
(* A replace puts one instance in the place of another, of the same pod.   *)
(***************************************************************************)
LEMMA ReplaceStaying ==
  ASSUME TypeOK, SeenIsCurrent, pass.pc = "replaceCall",
         NEW p \in pass.replacing, placement[p[2]] = "Absent",
         placement' = [placement EXCEPT ![p[1]] = "Leaving", ![p[2]] = "Initializing"],
         NEW g
  PROVE  /\ p[1] \in Ids /\ p[2] \in Ids /\ p[1] # p[2]
         /\ placement[p[1]] = "Available"
         /\ placement'[p[1]] = "Leaving" /\ placement'[p[2]] = "Initializing"
         /\ GroupOf(p[1]) # g => Staying(g)' = Staying(g)
         /\ GroupOf(p[1]) = g => /\ p[1] \in Staying(g) /\ p[2] \notin Staying(g)
                                 /\ Staying(g)' = (Staying(g) \ {p[1]}) \cup {p[2]}
         /\ StayingOrdinals(g)' = StayingOrdinals(g)
<1>1. p[1] \in Ids /\ p[2] \in Ids
  BY DEF TypeOK, Passes
<1>2. /\ placement[p[1]] = "Available"
      /\ GroupOf(p[1]) = GroupOf(p[2]) /\ OrdinalOf(p[1]) = OrdinalOf(p[2])
  BY ZenonT(60), <1>1 DEF SeenIsCurrent, AllAvailable, In
<1>3. p[1] # p[2]
  BY <1>2
<1>4. /\ placement'[p[1]] = "Leaving" /\ placement'[p[2]] = "Initializing"
      /\ \A id \in Ids \ {p[1], p[2]} : placement'[id] = placement[id]
  BY ZenonT(60), <1>1, <1>3 DEF TypeOK, Placements
<1>5. ASSUME GroupOf(p[1]) # g, NEW id PROVE id \in Staying(g)' <=> id \in Staying(g)
  <2>1. id \in Ids /\ GroupOf(id) = g => placement'[id] = placement[id]
    BY ZenonT(60), <1>2, <1>4, <1>5
  <2> QED
    BY ZenonT(60), <2>1, WhoStays, WhoStaysNext
<1>6. ASSUME GroupOf(p[1]) = g PROVE p[1] \in Staying(g) /\ p[2] \notin Staying(g)
  BY <1>1, <1>2, <1>6, WhoStays
<1>7. ASSUME GroupOf(p[1]) = g, NEW id
      PROVE  id \in Staying(g)' <=> id \in (Staying(g) \ {p[1]}) \cup {p[2]}
  <2>1. CASE id = p[1]
    BY ZenonT(60), <1>3, <1>4, <2>1, WhoStaysNext
  <2>2. CASE id = p[2]
    BY ZenonT(60), <1>1, <1>2, <1>4, <1>7, <2>2, WhoStaysNext
  <2>3. CASE id # p[1] /\ id # p[2]
    <3>1. id \in Ids => placement'[id] = placement[id]
      BY ZenonT(60), <1>4, <2>3
    <3>2. id \in Staying(g)' <=> id \in Staying(g)
      BY ZenonT(60), <3>1, WhoStays, WhoStaysNext
    <3> QED
      BY ZenonT(60), <2>3, <3>2
  <2> QED
    BY ZenonT(60), <2>1, <2>2, <2>3
<1>8. GroupOf(p[1]) # g => Staying(g)' = Staying(g)
  BY ZenonT(60), <1>5
<1>9. GroupOf(p[1]) = g => Staying(g)' = (Staying(g) \ {p[1]}) \cup {p[2]}
  BY <1>7
<1>10. StayingOrdinals(g)' = StayingOrdinals(g)
  <2>1. CASE GroupOf(p[1]) # g
    BY ZenonT(60), <1>8, <2>1 DEF StayingOrdinals
  <2>2. CASE GroupOf(p[1]) = g
    <3>1. ASSUME NEW o PROVE o \in StayingOrdinals(g)' <=> o \in StayingOrdinals(g)
      BY ZenonT(60), <1>2, <1>6, <1>9, <2>2 DEF StayingOrdinals
    <3> QED
      BY ZenonT(60), <3>1
  <2> QED
    BY <2>1, <2>2
<1> QED
  BY ZenonT(60), <1>1, <1>2, <1>3, <1>4, <1>6, <1>8, <1>9, <1>10

(***************************************************************************)
(* What calls that add or remove instances do to those that stay.          *)
(***************************************************************************)
LEMMA AddStaying ==
  ASSUME NEW S \in SUBSET Ids,
         \A id \in Ids : placement'[id] = IF id \in S THEN "Initializing" ELSE placement[id],
         NEW g
  PROVE  Staying(g)' = Staying(g) \cup {id \in S : GroupOf(id) = g}
<1>1. ASSUME NEW id PROVE id \in Staying(g)' <=> id \in Staying(g) \cup {i \in S : GroupOf(i) = g}
  <2>1. CASE id \in S
    <3>1. id \in Ids /\ placement'[id] = "Initializing"
      BY <2>1
    <3> QED
      BY <2>1, <3>1, WhoStays, WhoStaysNext
  <2>2. CASE id \notin S
    <3>1. id \in Ids => placement'[id] = placement[id]
      BY <2>2
    <3>2. id \in Staying(g)' <=> id \in Staying(g)
      BY <3>1, WhoStays, WhoStaysNext
    <3> QED
      BY ZenonT(60), <2>2, <3>2
  <2> QED
    BY <2>1, <2>2
<1> QED
  BY <1>1

(***************************************************************************)
(* A call that removes instances takes those from the ones that stay.      *)
(***************************************************************************)
LEMMA RemoveStaying ==
  ASSUME NEW S,
         \A id \in Ids : placement'[id] = IF id \in S THEN "Leaving" ELSE placement[id],
         NEW g
  PROVE  Staying(g)' = Staying(g) \ S
<1>1. ASSUME NEW id PROVE id \in Staying(g)' <=> id \in Staying(g) \ S
  <2>1. CASE id \in S
    <3>1. id \in Ids => placement'[id] = "Leaving"
      BY <2>1
    <3> QED
      BY ZenonT(60), <2>1, <3>1, WhoStaysNext
  <2>2. CASE id \notin S
    <3>1. id \in Ids => placement'[id] = placement[id]
      BY <2>2
    <3>2. id \in Staying(g)' <=> id \in Staying(g)
      BY <3>1, WhoStays, WhoStaysNext
    <3> QED
      BY ZenonT(60), <2>2, <3>2
  <2> QED
    BY <2>1, <2>2
<1> QED
  BY <1>1

-----------------------------------------------------------------------------
(***************************************************************************)
(* What the steps of a pass write.                                         *)
(***************************************************************************)

(***************************************************************************)
(* Writes of conditions.                                                   *)
(***************************************************************************)
OnlyConditions ==
  /\ cluster'.desired = cluster.desired
  /\ cache'.cluster = cache.cluster /\ cache'.sets = cache.sets /\ cache'.pods = cache.pods
  /\ cache'.fresh => cache.fresh

(***************************************************************************)
(* UpdateStatus writes conditions only, and leaves a cache that is not     *)
(* fresh.                                                                  *)
(***************************************************************************)
LEMMA StatusWrites ==
  ASSUME TypeOK, NEW copy, UpdateStatus(copy) \/ NoWrite
  PROVE  OnlyConditions
<1>1. CASE UpdateStatus(copy)
  <2>1. cluster'.desired = cluster.desired
    BY <1>1 DEF UpdateStatus, TypeOK, Clusters
  <2>2. /\ cache'.cluster = cache.cluster /\ cache'.sets = cache.sets /\ cache'.pods = cache.pods
        /\ ~cache'.fresh
    BY <1>1 DEF UpdateStatus, TypeOK, Caches
  <2> QED
    BY <2>1, <2>2 DEF OnlyConditions
<1>2. CASE NoWrite
  BY <1>2 DEF NoWrite, OnlyConditions
<1> QED
  BY <1>1, <1>2

(***************************************************************************)
(* A step that writes nothing writes conditions only.                      *)
(***************************************************************************)
LEMMA NoConditions ==
  ASSUME UNCHANGED <<cluster, cache>>
  PROVE  OnlyConditions
BY DEF OnlyConditions

(***************************************************************************)
(* What a pass has fetched: the placement, with all instances available,   *)
(* and the sets of the cache.                                              *)
(***************************************************************************)
LEMMA FetchParts ==
  ASSUME TypeOK, FetchPlacement
  PROVE  /\ UNCHANGED <<cluster, sets, pods, cache, placementExists, placement>>
         /\ pass.pc = "fetch"
         /\ \/ pass'.pc = "idle" /\ pass' = NoPass
            \/ /\ pass'.pc \in {"resize", "replace"}
               /\ pass'.sets = cache.sets /\ pass'.cluster = pass.cluster
               /\ pass'.seen = placement /\ AllAvailable(placement)
               /\ \/ pass'.pc = "resize" /\ pass'.replacing = pass.replacing
                  \/ pass'.pc = "replace" /\ \E p : pass'.replacing = {p}
<1> DEFINE fetched == [pass EXCEPT !.seen = placement, !.sets = cache.sets]
<1>1. UNCHANGED <<cluster, sets, pods, cache, placementExists, placement>> /\ pass.pc = "fetch"
  BY ZenonT(60) DEF FetchPlacement, kube, coordinator, At
<1>2. CASE Return
  BY <1>1, <1>2 DEF Return, NoPass
<1>3. ASSUME AllAvailable(placement), pass' = [fetched EXCEPT !.pc = "resize"]
      PROVE  /\ pass'.pc = "resize" /\ pass'.sets = cache.sets
             /\ pass'.cluster = pass.cluster /\ pass'.seen = placement
             /\ pass'.replacing = pass.replacing
  BY ZenonT(60), <1>3 DEF TypeOK, Passes
<1>4. ASSUME AllAvailable(placement), NEW p, pass' = [fetched EXCEPT !.pc = "replace", !.replacing = {p}]
      PROVE  /\ pass'.pc = "replace" /\ pass'.sets = cache.sets
             /\ pass'.cluster = pass.cluster /\ pass'.seen = placement
             /\ pass'.replacing = {p}
  BY ZenonT(60), <1>4 DEF TypeOK, Passes
<1>5. \/ Return
      \/ AllAvailable(placement) /\ pass' = [fetched EXCEPT !.pc = "resize"]
      \/ AllAvailable(placement) /\ \E p : pass' = [fetched EXCEPT !.pc = "replace", !.replacing = {p}]
  BY ZenonT(60) DEF FetchPlacement
<1>6. AllAvailable(placement) /\ ~Return =>
        /\ pass'.pc \in {"resize", "replace"}
        /\ pass'.sets = cache.sets /\ pass'.cluster = pass.cluster
        /\ pass'.seen = placement
        /\ \/ pass'.pc = "resize" /\ pass'.replacing = pass.replacing
           \/ pass'.pc = "replace" /\ \E p : pass'.replacing = {p}
  <2> HIDE DEF fetched
  <2> QED
    BY ZenonT(60), <1>3, <1>4, <1>5
<1> QED
  BY ZenonT(60), <1>1, <1>2, <1>5, <1>6

(***************************************************************************)
(* setStatusPodsBootstrapping writes a condition, and the pass goes on or  *)
(* ends.                                                                   *)
(***************************************************************************)
LEMMA BootstrappingParts ==
  ASSUME TypeOK, NEW step, NEW ids, SetStatusPodsBootstrapping(step, ids)
  PROVE  /\ OnlyConditions
         /\ \/ pass'.pc = "idle" /\ pass' = NoPass
            \/ /\ pass'.pc = step /\ pass'.adding = ids
               /\ pass'.sets = pass.sets /\ pass'.cluster.desired = pass.cluster.desired
               /\ pass'.seen = pass.seen /\ pass'.replacing = pass.replacing
<1> DEFINE copy == [pass.cluster EXCEPT !.podsBootstrapping = "True"]
           go == [pass EXCEPT !.pc = step, !.adding = ids, !.cluster = copy]
<1>1. UpdateStatus(copy) \/ NoWrite
  BY ZenonT(60) DEF SetStatusPodsBootstrapping
<1>2. OnlyConditions
  BY ZenonT(60), <1>1, StatusWrites
<1>3. copy.desired = pass.cluster.desired
  BY DEF TypeOK, Passes, Clusters
<1>4. /\ go.pc = step /\ go.adding = ids /\ go.sets = pass.sets /\ go.cluster = copy
      /\ go.seen = pass.seen /\ go.replacing = pass.replacing
  BY ZenonT(60) DEF TypeOK, Passes
<1>5. LET stale == [go EXCEPT !.fresh = FALSE]
      IN  /\ stale.pc = step /\ stale.adding = ids /\ stale.sets = pass.sets /\ stale.cluster = copy
          /\ stale.seen = pass.seen /\ stale.replacing = pass.replacing
  BY ZenonT(60) DEF TypeOK, Passes
<1>6. CASE Return
  BY <1>2, <1>6 DEF Return, NoPass
<1>7. Return \/ pass' = go \/ pass' = [go EXCEPT !.fresh = FALSE]
  BY ZenonT(60) DEF SetStatusPodsBootstrapping
<1> QED
  BY ZenonT(60), <1>2, <1>3, <1>4, <1>5, <1>6, <1>7

(***************************************************************************)
(* The identity of a listed pod has the pod's group and ordinal.           *)
(***************************************************************************)
LEMMA ListedIdentity ==
  ASSUME NEW list, NEW g, NEW id \in Identities(list, g)
  PROVE  GroupOf(id) = g /\ OrdinalOf(id) \in Listed(list, g)
<1>1. PICK o \in Listed(list, g) : id = Identity(list, g, o)
  BY DEF Identities
<1>2. GroupOf(id) = g /\ OrdinalOf(id) = o
  BY <1>1 DEF Identity, GroupOf, OrdinalOf
<1> QED
  BY <1>1, <1>2

(***************************************************************************)
(* expandPlacementForSet ends the pass, or goes on to add pods of the set  *)
(* that are listed.                                                        *)
(***************************************************************************)
LEMMA ExpandParts ==
  ASSUME TypeOK, NEW g \in Groups, ExpandPlacementForSet(g)
  PROVE  /\ pass.pc = "resize" /\ ~Skipped(g) /\ ToExpand(g)
         /\ UNCHANGED <<sets, pods, placementExists, placement>>
         /\ OnlyConditions
         /\ \/ pass'.pc = "idle" /\ pass' = NoPass
            \/ /\ pass'.pc = "add" /\ pass'.adding = PodsToAdd(g)
               /\ pass'.sets = pass.sets /\ pass'.cluster.desired = pass.cluster.desired
               /\ pass'.seen = pass.seen /\ pass'.replacing = pass.replacing
<1>1. /\ pass.pc = "resize" /\ ~Skipped(g) /\ ToExpand(g)
      /\ UNCHANGED <<sets, pods, placementExists, placement>>
  BY ZenonT(60) DEF ExpandPlacementForSet, At, coordinator
<1>2. CASE NoWrite /\ Return
  <2>1. OnlyConditions
    BY <1>2, NoConditions DEF NoWrite
  <2> QED
    BY <1>1, <1>2, <2>1 DEF Return, NoPass
<1>3. CASE SetStatusPodsBootstrapping("add", PodsToAdd(g))
  BY ZenonT(60), <1>1, <1>3, BootstrappingParts
<1> QED
  BY ZenonT(60), <1>2, <1>3 DEF ExpandPlacementForSet

(***************************************************************************)
(* AddPodsToPlacement ends the pass and adds all or nothing.               *)
(***************************************************************************)
LEMMA AddParts ==
  ASSUME TypeOK, AddPodsToPlacement
  PROVE  /\ pass.pc = "add" /\ pass' = NoPass /\ pass'.pc = "idle"
         /\ UNCHANGED <<cluster, sets, pods, cache, placementExists>>
         /\ pass.adding \subseteq Ids
         /\ \/ UNCHANGED placement
            \/ \A g : Staying(g)' = Staying(g) \cup {id \in pass.adding : GroupOf(id) = g}
<1>1. /\ pass.pc = "add" /\ pass' = NoPass /\ pass'.pc = "idle"
      /\ UNCHANGED <<cluster, sets, pods, cache, placementExists>>
  BY DEF AddPodsToPlacement, At, Return, NoPass, kube
<1>2. pass.adding \in SUBSET Ids
  BY DEF TypeOK, Passes
<1>3. CASE placement' = [id \in Ids |-> IF id \in pass.adding THEN "Initializing" ELSE placement[id]]
  <2>1. \A id \in Ids : placement'[id] = IF id \in pass.adding THEN "Initializing" ELSE placement[id]
    BY ZenonT(60), <1>3
  <2>2. \A g : Staying(g)' = Staying(g) \cup {id \in pass.adding : GroupOf(id) = g}
    BY <1>2, <2>1, AddStaying
  <2> QED
    BY <1>1, <1>2, <2>2
<1> QED
  BY ZenonT(60), <1>1, <1>2, <1>3 DEF AddPodsToPlacement

(***************************************************************************)
(* reconcileBootstrappingStatus writes a condition at most.                *)
(***************************************************************************)
LEMMA ReconcileParts ==
  ASSUME TypeOK, ReconcileBootstrappingStatus
  PROVE  /\ pass.pc = "finish" /\ UNCHANGED <<sets, pods, placementExists, placement>>
         /\ OnlyConditions
         /\ \/ pass'.pc = "idle" /\ pass' = NoPass
            \/ /\ pass'.pc = "cleanup" /\ pass'.sets = pass.sets /\ pass'.cluster = pass.cluster
               /\ pass'.seen = pass.seen /\ pass'.replacing = pass.replacing
<1>1. pass.pc = "finish" /\ UNCHANGED <<sets, pods, placementExists, placement>>
  BY ZenonT(60) DEF ReconcileBootstrappingStatus, At, coordinator
<1>2. OnlyConditions
  BY ZenonT(60), StatusWrites DEF ReconcileBootstrappingStatus
<1>3. Return \/ Goto("cleanup")
  BY ZenonT(60) DEF ReconcileBootstrappingStatus, ToCleanup
<1> QED
  BY <1>1, <1>2, <1>3 DEF Return, Goto, NoPass, TypeOK, Passes

(***************************************************************************)
(* One annotation goes, of the set and of the pass's copy; no size does.   *)
(***************************************************************************)
LEMMA CleanupParts ==
  ASSUME TypeOK, CleanupAnnotations
  PROVE  /\ pass.pc = "cleanup" /\ UNCHANGED <<cluster, pods, cache, placementExists, placement>>
         /\ \E g \in Groups :
              /\ pass.sets[g].inProgress
              /\ sets' = [sets EXCEPT ![g].inProgress = FALSE]
              /\ \/ pass'.pc = "idle" /\ pass' = NoPass
                 \/ /\ pass'.pc = "cleanup" /\ pass'.cluster = pass.cluster
                    /\ pass'.seen = pass.seen /\ pass'.replacing = pass.replacing
                    /\ pass'.sets = [pass.sets EXCEPT ![g].inProgress = FALSE]
<1>1. pass.pc = "cleanup" /\ UNCHANGED <<cluster, pods, cache, placementExists, placement>>
  BY ZenonT(60) DEF CleanupAnnotations, At, coordinator
<1>2. PICK g \in InProgress :
        /\ sets' = [sets EXCEPT ![g].inProgress = FALSE]
        /\ IF InProgress = {g} THEN Return
           ELSE pass' = [pass EXCEPT !.sets[g].inProgress = FALSE]
  BY ZenonT(60) DEF CleanupAnnotations
<1>3. g \in Groups /\ pass.sets[g].inProgress
  BY DEF InProgress
<1>4. CASE Return
  BY ZenonT(60), <1>1, <1>2, <1>3, <1>4 DEF Return, NoPass
<1>5. CASE pass' = [pass EXCEPT !.sets[g].inProgress = FALSE]
  BY ZenonT(60), <1>1, <1>2, <1>3, <1>5 DEF TypeOK, Passes
<1> QED
  BY ZenonT(60), <1>2, <1>4, <1>5

(***************************************************************************)
(* An annotation is no size.                                               *)
(***************************************************************************)
LEMMA SameReplicas ==
  ASSUME NEW s \in Sets, NEW g \in Groups, NEW v, NEW h \in Groups
  PROVE  [s EXCEPT ![g].inProgress = v][h].replicas = s[h].replicas
BY DEF Sets

(***************************************************************************)
(* shrinkPlacementForSet removes instances from the end of a sorted list:  *)
(* pods that the desired size does not have.                               *)
(***************************************************************************)
Removable(g, S) ==
  \A id \in S : /\ GroupOf(id) = g /\ OrdinalOf(id) \in Listed(cache.pods, g)
                /\ OrdinalOf(id) >= Desired(g) /\ Desired(g) > 0

(***************************************************************************)
(* shrinkPlacementForSet ends the pass, and removes what is removable or   *)
(* nothing.                                                                *)
(***************************************************************************)
LEMMA ShrinkParts ==
  ASSUME TypeOK, NEW g \in Groups, ShrinkPlacementForSet(g)
  PROVE  /\ pass.pc = "resize" /\ ~Skipped(g) /\ ToShrink(g) /\ pass' = NoPass /\ pass'.pc = "idle"
         /\ UNCHANGED <<cluster, sets, pods, cache, placementExists>>
         /\ \E S : Removable(g, S) /\ \A h : Staying(h)' = Staying(h) \ S
<1>1. /\ pass.pc = "resize" /\ ~Skipped(g) /\ ToShrink(g) /\ pass' = NoPass /\ pass'.pc = "idle"
      /\ UNCHANGED <<cluster, sets, pods, cache, placementExists>>
  BY DEF ShrinkPlacementForSet, At, Return, NoPass, kube
<1>2. CASE UNCHANGED placement
  <2>1. Removable(g, {}) /\ \A h : Staying(h)' = Staying(h) \ {}
    BY <1>2, SamePlacement DEF Removable
  <2> QED
    BY <1>1, <2>1
<1>3. CASE /\ ShrinkAllowed(g)
           /\ placement' = [id \in Ids |-> IF id \in InstancesToRemove(g) THEN "Leaving" ELSE placement[id]]
  <2>1. \A id \in Ids : placement'[id] = IF id \in InstancesToRemove(g) THEN "Leaving" ELSE placement[id]
    BY ZenonT(60), <1>3
  <2>2. \A h : Staying(h)' = Staying(h) \ InstancesToRemove(g)
    BY <2>1, RemoveStaying
  <2>3. ASSUME NEW id \in InstancesToRemove(g)
        PROVE  /\ GroupOf(id) = g /\ OrdinalOf(id) \in Listed(cache.pods, g)
               /\ OrdinalOf(id) >= Desired(g) /\ Desired(g) > 0
    <3>1. id \in Identities(cache.pods, g) /\ IndexIn(cache.pods, g, OrdinalOf(id)) >= Desired(g)
      BY <2>3 DEF InstancesToRemove
    <3>2. GroupOf(id) = g /\ OrdinalOf(id) \in Listed(cache.pods, g)
      BY <3>1, ListedIdentity
    <3>3. OrdinalOf(id) \in Ordinals
      BY <3>2 DEF Listed
    <3>4. PICK i : i = IndexIn(cache.pods, g, OrdinalOf(id))
      OBVIOUS
    <3>5. i \in Nat /\ i <= OrdinalOf(id) /\ OrdinalOf(id) \in Nat
      BY ZenonT(60), <3>3, <3>4, IndexBound, CountsAreNumbers
    <3>6. Desired(g) \in Nat
      BY ZenonT(60), SizeTypes, CountsAreNumbers DEF Desired
    <3>7. i >= Desired(g)
      BY <3>1, <3>4
    <3>8. OrdinalOf(id) >= Desired(g)
      BY <3>5, <3>6, <3>7
    <3> QED
      BY <1>3, <3>2, <3>8 DEF ShrinkAllowed
  <2>4. Removable(g, InstancesToRemove(g))
    BY <2>3 DEF Removable
  <2> QED
    BY <1>1, <2>2, <2>4
<1> QED
  BY ZenonT(60), <1>2, <1>3 DEF ShrinkPlacementForSet

(***************************************************************************)
(* One step from a size to another.                                        *)
(***************************************************************************)
Toward(x, n) == IF x < n THEN x + 1 ELSE IF x > n THEN x - 1 ELSE x

(***************************************************************************)
(* A set on the way to a size: where it goes next, and that it is a size.  *)
(***************************************************************************)
LEMMA OneToward ==
  \A m \in Counts, n \in Counts : m # n =>
    /\ \/ m < n /\ Toward(m, n) = m + 1 /\ Toward(m, n) <= n /\ m <= Toward(m, n)
       \/ m > n /\ Toward(m, n) = m - 1 /\ n <= Toward(m, n)
    /\ Toward(m, n) \in Counts /\ Toward(m, n) <= Toward(m, n)
    /\ m <= n => Toward(m, n) <= n /\ m <= Toward(m, n)
BY ConstantsAssumption DEF Toward, Counts

(***************************************************************************)
(* The patch moves one set by one, towards the desired size.               *)
(***************************************************************************)
LEMMA PatchParts ==
  ASSUME TypeOK, NEW g \in Groups, PatchStatefulSet(g)
  PROVE  /\ pass.pc = "resize" /\ ~Skipped(g) /\ ToPatch(g) /\ pass' = NoPass /\ pass'.pc = "idle"
         /\ UNCHANGED <<cluster, pods, cache, placementExists, placement>>
         /\ \A h \in Groups \ {g} : sets'[h] = sets[h]
         /\ sets'[g].onDelete = sets[g].onDelete /\ sets'[g].inProgress = sets[g].inProgress
         /\ sets'[g].replicas \in {sets[g].replicas, Toward(Current(g), Desired(g))}
<1>1. /\ pass.pc = "resize" /\ ~Skipped(g) /\ ToPatch(g) /\ pass' = NoPass /\ pass'.pc = "idle"
      /\ UNCHANGED <<cluster, pods, cache, placementExists, placement>>
  BY DEF PatchStatefulSet, At, Return, NoPass, coordinator
<1>2. CASE UNCHANGED sets
  BY ZenonT(60), <1>1, <1>2
<1>3. CASE sets' = [sets EXCEPT ![g].replicas = NewCount(g),
                               ![g].observed = @ /\ sets[g].replicas = NewCount(g)]
  <2>1. /\ \A h \in Groups \ {g} : sets'[h] = sets[h]
        /\ sets'[g].onDelete = sets[g].onDelete /\ sets'[g].inProgress = sets[g].inProgress
        /\ sets'[g].replicas = NewCount(g)
    BY ZenonT(60), <1>3 DEF TypeOK, Sets
  <2>2. Current(g) \in Nat /\ Desired(g) \in Nat /\ Current(g) # Desired(g)
    BY ZenonT(60), <1>1, SizeTypes, CountsAreNumbers DEF Current, Desired, ToPatch
  <2>3. NewCount(g) = Toward(Current(g), Desired(g))
    BY <2>2 DEF NewCount, Toward
  <2> QED
    BY <1>1, <2>1, <2>3
<1> QED
  BY ZenonT(60), <1>2, <1>3 DEF PatchStatefulSet

-----------------------------------------------------------------------------
(***************************************************************************)
(* The pair that a pass replaces: there is one at most, and once it is     *)
(* replaced, one of the two stays and was not in the placement before,     *)
(* and the other one leaves.                                               *)
(***************************************************************************)
PairInv ==
  /\ pass.pc \in {"replace", "replaceCall", "resize"} => \A p, q \in pass.replacing : p = q
  /\ pass.pc = "resize" =>
       \A p \in pass.replacing :
         /\ pass.seen[p[2]] = "Absent"
         /\ placement[p[1]] \in {"Leaving", "Absent"}
         /\ placement[p[2]] \in {"Initializing", "Available"}

(***************************************************************************)
(* The steps of a pass keep that.                                          *)
(***************************************************************************)
LEMMA PassKeepsPair ==
  ASSUME TypeOK, SeenIsCurrent, PairInv, Pass
  PROVE  PairInv'
<1>1. CASE pass'.pc \notin {"replace", "replaceCall", "resize"}
  BY <1>1 DEF PairInv
<1>2. CASE StartPass \/ InitPlacement \/ SetStatusPlacementCreated
  <2>1. CASE StartPass
    BY <1>1, <2>1 DEF StartPass, NoPass
  <2>2. CASE InitPlacement
    <3>1. Goto("created") \/ Return
      BY <2>2 DEF InitPlacement
    <3>2. pass'.pc \in {"created", "idle"}
      BY <3>1 DEF Goto, Return, NoPass, TypeOK, Passes
    <3> QED
      BY <1>1, <3>2
  <2>3. CASE SetStatusPlacementCreated
    <3>1. CASE Return
      BY <1>1, <3>1 DEF Return, NoPass
    <3>2. ASSUME NEW c, pass' = [pass EXCEPT !.cluster = c, !.pc = "fetch"]
          PROVE  PairInv'
      <4>1. pass'.pc = "fetch"
        BY ZenonT(60), <3>2 DEF TypeOK, Passes
      <4> QED
        BY <1>1, <4>1
    <3> QED
      BY ZenonT(60), <2>3, <3>1, <3>2 DEF SetStatusPlacementCreated
  <2> QED
    BY <1>2, <2>1, <2>2, <2>3
<1>3. CASE FetchPlacement
  <2>1. pass.replacing = {}
    BY ZenonT(60), <1>3 DEF FetchPlacement, At, SeenIsCurrent
  <2>2. \/ pass'.pc = "idle"
        \/ pass'.pc = "resize" /\ pass'.replacing = {}
        \/ pass'.pc = "replace" /\ \E p : pass'.replacing = {p}
    BY ZenonT(60), <1>3, <2>1, FetchParts
  <2> QED
    BY ZenonT(60), <2>2 DEF PairInv
<1>4. CASE ReplacePodStatus
  <2>1. pass.pc = "replace" /\ SetStatusPodsBootstrapping("replaceCall", {})
    BY <1>4 DEF ReplacePodStatus, At
  <2>2. pass'.pc = "idle" \/ (pass'.pc = "replaceCall" /\ pass'.replacing = pass.replacing)
    BY ZenonT(60), <2>1, BootstrappingParts
  <2> QED
    BY ZenonT(60), <2>1, <2>2 DEF PairInv
<1>5. CASE ReplacePodInPlacement
  <2>1. pass.pc = "replaceCall"
    BY <1>5 DEF ReplacePodInPlacement, At
  <2>2. CASE Return
    BY <1>1, <2>2 DEF Return, NoPass
  <2>3. ASSUME NEW p \in pass.replacing, placement[p[2]] = "Absent",
               placement' = [placement EXCEPT ![p[1]] = "Leaving", ![p[2]] = "Initializing"],
               Goto("resize")
        PROVE  PairInv'
    <3>1. placement'[p[1]] = "Leaving" /\ placement'[p[2]] = "Initializing"
      BY ZenonT(60), <2>1, <2>3, ReplaceStaying
    <3>2. pass'.pc = "resize" /\ pass'.replacing = pass.replacing /\ pass'.seen = pass.seen
      BY ZenonT(60), <2>3 DEF Goto, TypeOK, Passes
    <3>3. pass.seen[p[2]] = "Absent" /\ \A q, t \in pass.replacing : q = t
      BY ZenonT(60), <2>1, <2>3 DEF SeenIsCurrent, PairInv
    <3>4. \A q \in pass.replacing : q = p
      BY <3>3
    <3> QED
      BY ZenonT(60), <3>1, <3>2, <3>3, <3>4 DEF PairInv
  <2> QED
    BY ZenonT(60), <1>5, <2>2, <2>3 DEF ReplacePodInPlacement
<1>6. ASSUME NEW g \in Groups, ExpandPlacementForSet(g) PROVE PairInv'
  <2>1. pass'.pc \in {"idle", "add"}
    BY <1>6, ExpandParts
  <2> QED
    BY <1>1, <2>1
<1>7. CASE \/ \E g \in Groups : ShrinkPlacementForSet(g) \/ PatchStatefulSet(g)
           \/ AddPodsToPlacement
  <2>1. Return
    BY ZenonT(60), <1>7 DEF ShrinkPlacementForSet, PatchStatefulSet, AddPodsToPlacement
  <2> QED
    BY <1>1, <2>1 DEF Return, NoPass
<1>8. CASE AllAtSize
  <2>1. pass'.pc = "finish"
    BY <1>8 DEF AllAtSize, Goto, TypeOK, Passes
  <2> QED
    BY <1>1, <2>1
<1>9. CASE ReconcileBootstrappingStatus \/ CleanupAnnotations
  <2>1. pass'.pc \in {"idle", "cleanup"}
    BY ZenonT(60), <1>9, ReconcileParts, CleanupParts
  <2> QED
    BY <1>1, <2>1
<1> QED
  BY ZenonT(60), <1>2, <1>3, <1>4, <1>5, <1>6, <1>7, <1>8, <1>9 DEF Pass

(***************************************************************************)
(* So do those of everybody else.                                          *)
(***************************************************************************)
LEMMA OthersKeepPair ==
  ASSUME TypeOK, PairInv, Environment
  PROVE  PairInv'
<1>1. CASE UNCHANGED <<placement, pass>>
  BY ZenonT(60), <1>1 DEF PairInv
<1>2. CASE PassAborts
  BY <1>2 DEF PassAborts, Return, NoPass, PairInv
<1>3. ASSUME NEW g \in Groups, NEW n \in Counts, NEW prevent \in BOOLEAN,
             ChangeSpec(g, n, prevent)
      PROVE  PairInv'
  <2>1. /\ UNCHANGED placement
        /\ pass'.pc = pass.pc /\ pass'.seen = pass.seen /\ pass'.replacing = pass.replacing
    BY <1>3 DEF ChangeSpec, coordinator, TypeOK, Passes
  <2> QED
    BY ZenonT(60), <2>1 DEF PairInv
<1>4. ASSUME NEW i \in Ids, BecomeAvailable(i) \/ Leave(i) PROVE PairInv'
  <2>1. UNCHANGED pass
    BY <1>4 DEF BecomeAvailable, Leave
  <2>2. ASSUME NEW id \in Ids
        PROVE  /\ placement[id] \in {"Leaving", "Absent"} => placement'[id] \in {"Leaving", "Absent"}
               /\ placement[id] \in {"Initializing", "Available"} =>
                    placement'[id] \in {"Initializing", "Available"}
    BY ZenonT(60), <1>4, <2>2 DEF BecomeAvailable, Leave, TypeOK, Placements
  <2>3. \A p \in pass.replacing : p[1] \in Ids /\ p[2] \in Ids
    BY DEF TypeOK, Passes
  <2> QED
    BY ZenonT(60), <2>1, <2>2, <2>3 DEF PairInv
<1>5. CASE \/ SyncCluster \/ SyncSets \/ SyncPods \/ StatefulSetController
           \/ \E g \in Groups, o \in Ordinals : FailPod(g, o)
           \/ \E g \in Groups : ApplyStatefulSetUpdate(g)
  <2>1. UNCHANGED <<placement, pass>>
    BY ZenonT(60), <1>5
    DEF SyncCluster, SyncSets, SyncPods, StatefulSetController, CreatePod, DeletePod,
        UpdateSetStatus, FailPod, ApplyStatefulSetUpdate, coordinator
  <2> QED
    BY <1>1, <2>1
<1> QED
  BY ZenonT(60), <1>2, <1>3, <1>4, <1>5 DEF Environment, Database

(***************************************************************************)
(* A pass replaces one pair at most, and has counted neither too many nor  *)
(* too few instances because of it: the new one takes the place of the old *)
(* (checkPodsForReplacement, replacePodInPlacement).                       *)
(***************************************************************************)
THEOREM PairCorrect == Spec => []PairInv
<1>1. Init => PairInv
  BY DEF Init, NoPass, PairInv
<1>2. TypeOK /\ SeenIsCurrent /\ PairInv /\ [Next]_vars => PairInv'
  <2> SUFFICES ASSUME TypeOK, SeenIsCurrent, PairInv, [Next]_vars PROVE PairInv'
    OBVIOUS
  <2>1. CASE Next
    BY ZenonT(60), <2>1, PassKeepsPair, OthersKeepPair DEF Next
  <2>2. CASE UNCHANGED vars
    BY ZenonT(60), <2>2 DEF vars, PairInv
  <2> QED
    BY <2>1, <2>2
<1> QED
  BY <1>1, <1>2, TypeCorrect, ViewCorrect, PTL DEF Spec

(***************************************************************************)
(* Inside the loop over the sets the number of instances that a pass       *)
(* counts for a group is the number that stay, though the pass may just    *)
(* have replaced one and counts in the placement from before that.         *)
(***************************************************************************)
LEMMA SeenCount ==
  ASSUME TypeOK, SeenIsCurrent, PairInv, pass.pc = "resize", NEW g \in Groups
  PROVE  /\ IsFiniteSet(Staying(g))
         /\ Cardinality(Staying(g)) = InPlacement(g)
<1> DEFINE G == InGroup(pass.seen, g)
<1>1. IsFiniteSet(Ids) /\ G \subseteq Ids /\ Staying(g) \subseteq Ids
  BY IdsFinite DEF InGroup, In, Staying
<1>2. IsFiniteSet(G) /\ IsFiniteSet(Staying(g))
  BY ZenonT(60), <1>1, FS_Subset
<1>3. ASSUME NEW id
      PROVE  id \in G <=> id \in Ids /\ GroupOf(id) = g /\ pass.seen[id] = "Available"
  BY DEF SeenIsCurrent, AllAvailable, InGroup, In
<1>4. ASSUME NEW id \in Ids, placement[id] = pass.seen[id]
      PROVE  id \in G <=> id \in Staying(g)
  <2>1. placement[id] # "Absent" => placement[id] = "Available"
    BY <1>4 DEF SeenIsCurrent, AllAvailable, In
  <2> QED
    BY ZenonT(60), <1>3, <1>4, <2>1, WhoStays
<1>5. CASE \A p \in pass.replacing : GroupOf(p[1]) # g
  <2>1. ASSUME NEW id \in Ids, GroupOf(id) = g PROVE placement[id] = pass.seen[id]
    BY ZenonT(60), <1>5, <2>1 DEF SeenIsCurrent
  <2>2. ASSUME NEW id PROVE id \in G <=> id \in Staying(g)
    BY <1>3, <1>4, <2>1, WhoStays
  <2>3. G = Staying(g)
    BY ZenonT(60), <2>2
  <2> QED
    BY <1>2, <2>3 DEF InPlacement
<1>6. ASSUME NEW p \in pass.replacing, GroupOf(p[1]) = g
      PROVE  Cardinality(Staying(g)) = InPlacement(g)
  <2>1. p[1] \in Ids /\ p[2] \in Ids
    BY DEF TypeOK, Passes
  <2>2. GroupOf(p[2]) = g /\ p[1] \in G
    BY ZenonT(60), <1>6, <2>1 DEF SeenIsCurrent, InGroup
  <2>3. p[2] \notin G /\ p[1] \notin Staying(g) /\ p[2] \in Staying(g)
    <3>1. /\ pass.seen[p[2]] = "Absent"
          /\ placement[p[1]] \in {"Leaving", "Absent"}
          /\ placement[p[2]] \in {"Initializing", "Available"}
      BY DEF PairInv
    <3> QED
      BY ZenonT(60), <1>3, <2>1, <2>2, <3>1, WhoStays
  <2>4. \A q \in pass.replacing : q = p
    BY DEF PairInv
  <2>5. ASSUME NEW id \in Ids \ {p[1], p[2]} PROVE placement[id] = pass.seen[id]
    BY ZenonT(60), <2>4 DEF SeenIsCurrent
  <2>6. ASSUME NEW id PROVE id \in Staying(g) <=> id \in (G \ {p[1]}) \cup {p[2]}
    <3>1. id \in Ids \ {p[1], p[2]} => (id \in G <=> id \in Staying(g))
      BY <1>4, <2>5
    <3> QED
      BY ZenonT(60), <1>1, <2>2, <2>3, <3>1
  <2>7. Staying(g) = (G \ {p[1]}) \cup {p[2]}
    BY <2>6
  <2>8. IsFiniteSet(G \ {p[1]}) /\ Cardinality(G \ {p[1]}) = Cardinality(G) - 1
    BY ZenonT(60), <1>2, <2>2, FS_RemoveElement
  <2>9. Cardinality((G \ {p[1]}) \cup {p[2]}) = Cardinality(G \ {p[1]}) + 1
    BY ZenonT(60), <2>3, <2>8, FS_AddElement
  <2>10. Cardinality(G) \in Nat
    BY <1>2, FS_CardinalityType
  <2> QED
    BY <2>7, <2>8, <2>9, <2>10 DEF InPlacement
<1> QED
  BY <1>2, <1>5, <1>6

-----------------------------------------------------------------------------
(***************************************************************************)
(* Counting the instances that stay.  There are finitely many, and at      *)
(* least as many as they have ordinals.                                    *)
(***************************************************************************)
LEMMA StayingFinite ==
  ASSUME NEW g
  PROVE  /\ IsFiniteSet(Staying(g)) /\ Cardinality(Staying(g)) \in Nat
         /\ IsFiniteSet(Staying(g)') /\ Cardinality(Staying(g)') \in Nat
<1>1. Staying(g) \subseteq Ids /\ Staying(g)' \subseteq Ids
  BY DEF Staying, InGroup, In
<1>2. IsFiniteSet(Staying(g)) /\ IsFiniteSet(Staying(g)')
  BY <1>1, IdsFinite, FS_Subset
<1> QED
  BY <1>2, FS_CardinalityType

(***************************************************************************)
(* Where instances are only added there are no fewer.                      *)
(***************************************************************************)
LEMMA MoreStay ==
  ASSUME NEW g, Staying(g) \subseteq Staying(g)', NEW n \in Nat, Cardinality(Staying(g)) >= n
  PROVE  Cardinality(Staying(g)') >= n
<1>1. Cardinality(Staying(g)) <= Cardinality(Staying(g)')
  BY StayingFinite, FS_Subset
<1> QED
  BY <1>1, StayingFinite

(***************************************************************************)
(* A replace leaves as many as there were.                                 *)
(***************************************************************************)
LEMMA SwappedCount ==
  ASSUME NEW g, NEW a \in Staying(g), NEW b, b \notin Staying(g),
         Staying(g)' = (Staying(g) \ {a}) \cup {b}
  PROVE  Cardinality(Staying(g)') = Cardinality(Staying(g))
<1>1. IsFiniteSet(Staying(g)) /\ Cardinality(Staying(g)) \in Nat
  BY StayingFinite
<1>2. IsFiniteSet(Staying(g) \ {a}) /\ Cardinality(Staying(g) \ {a}) = Cardinality(Staying(g)) - 1
  BY <1>1, FS_RemoveElement
<1>3. Cardinality((Staying(g) \ {a}) \cup {b}) = Cardinality(Staying(g) \ {a}) + 1
  BY <1>2, FS_AddElement
<1> QED
  BY <1>1, <1>2, <1>3

(***************************************************************************)
(* The ordinals below n take n instances at least.                         *)
(***************************************************************************)
LEMMA OrdinalsCount ==
  ASSUME NEW g, NEW n \in Counts, Below(n) \subseteq StayingOrdinals(g)'
  PROVE  Cardinality(Staying(g)') >= n
<1> DEFINE f == [id \in Staying(g)' |-> OrdinalOf(id)]
           O == {OrdinalOf(id) : id \in Staying(g)'}
<1>1. O = StayingOrdinals(g)'
  BY DEF StayingOrdinals
<1>2. IsFiniteSet(O) /\ Cardinality(O) <= Cardinality(Staying(g)')
  <2>1. f \in Surjection(Staying(g)', O)
    BY DEF Surjection
  <2> HIDE DEF f, O
  <2> QED
    BY ZenonT(60), <2>1, StayingFinite, FS_Surjection
<1>3. Cardinality(Below(n)) <= Cardinality(O)
  BY <1>1, <1>2, FS_Subset
<1>4. Cardinality(Below(n)) = n /\ n \in Nat
  BY BelowCount, CountsAreNumbers
<1>5. Cardinality(O) \in Nat /\ Cardinality(Staying(g)') \in Nat
  BY <1>2, StayingFinite, FS_CardinalityType
<1> QED
  BY <1>2, <1>3, <1>4, <1>5

-----------------------------------------------------------------------------
(***************************************************************************)
(* The invariant of resizes.  Every step keeps it but an edit by a user    *)
(* who is not patient.  The steps of a pass are in this module, those of   *)
(* everybody else in PatientResizeProofs.                                  *)
(***************************************************************************)

(***************************************************************************)
(* A pass has listed the sets.                                             *)
(***************************************************************************)
Fetched == pass.pc \in {"replace", "replaceCall", "resize", "add", "finish", "cleanup"}

(***************************************************************************)
(* Everything is as these sizes ask for, and all copies of sizes say so.   *)
(***************************************************************************)
AtRest(desired) ==
  \A g \in Groups :
    /\ sets[g].replicas = desired[g] /\ cache.sets[g].replicas = desired[g]
    /\ Fetched => pass.sets[g].replicas = desired[g]
    /\ Full(g, desired[g])
    /\ Clean(pods, g, desired[g]) /\ Clean(cache.pods, g, desired[g])

(***************************************************************************)
(* Where an edit has not been seen, nothing has been done about it: a      *)
(* stale copy of the cluster asks for what is there.                       *)
(***************************************************************************)
SeenInv ==
  /\ cache.fresh => cache.cluster.desired = cluster.desired
  /\ cache.cluster.desired = cluster.desired \/ AtRest(cache.cluster.desired)
  /\ ~At("idle") =>
       \/ pass.cluster.desired = cluster.desired /\ cache.cluster.desired = cluster.desired
       \/ AtRest(pass.cluster.desired)

(***************************************************************************)
(* Copies of a set are at most one step behind, on the way to its size.    *)
(***************************************************************************)
SizeInv ==
  \A g \in Groups :
    /\ sets[g].replicas \in {cache.sets[g].replicas, Toward(cache.sets[g].replicas, cluster.desired[g])}
    /\ Fetched =>
         /\ sets[g].replicas \in {pass.sets[g].replicas, Toward(pass.sets[g].replicas, cluster.desired[g])}
         /\ cache.sets[g].replicas \in {pass.sets[g].replicas, sets[g].replicas}

(***************************************************************************)
(* A group has all instances that are asked for, or it is growing and all  *)
(* copies show it so.  The first is so from the edit on when a group is to *)
(* shrink, and at the end when it is to grow.                              *)
(***************************************************************************)
Growing(g) ==
  /\ sets[g].replicas <= cluster.desired[g] /\ cache.sets[g].replicas <= cluster.desired[g]
  /\ Fetched => pass.sets[g].replicas <= cluster.desired[g]
  /\ Clean(pods, g, sets[g].replicas) /\ Clean(cache.pods, g, sets[g].replicas)

ShapeInv == \A g \in Groups : Full(g, cluster.desired[g]) \/ Growing(g)

(***************************************************************************)
(* Before there is a placement there are no instances and no edits; nobody *)
(* says that there is one, and no pass is past its creation.               *)
(***************************************************************************)
Started ==
  \/ cluster.placementInitialized \/ cache.cluster.placementInitialized
  \/ pass.pc \notin {"idle", "init"}

NewInv ==
  /\ Started => placementExists
  /\ ~placementExists => placement = NoPlacement /\ \A g \in Groups : cluster.desired[g] > 0

(***************************************************************************)
(* What is about to be added is a pod that the set keeps.                  *)
(***************************************************************************)
AddInv == At("add") => \A id \in pass.adding : OrdinalOf(id) < sets[GroupOf(id)].replicas

ResizeInv ==
  /\ SeenInv /\ SizeInv /\ ShapeInv /\ NewInv /\ AddInv
  /\ PlacedPodsKept /\ GroupsKeepAnInstance

-----------------------------------------------------------------------------
(***************************************************************************)
(* Steps that change no size: copies catch up, pods come and go as the     *)
(* sets say, and the placement gains instances of pods that are kept.      *)
(***************************************************************************)
SizesStay ==
  /\ cluster'.desired = cluster.desired
  /\ \A g \in Groups : sets'[g].replicas = sets[g].replicas

CopiesMove ==
  \A g \in Groups :
    /\ cache'.sets[g].replicas \in {cache.sets[g].replicas, sets[g].replicas}
    /\ Fetched' =>
         \/ Fetched /\ pass'.sets[g].replicas = pass.sets[g].replicas
         \/ /\ pass'.sets[g].replicas = cache.sets[g].replicas
            /\ cache'.sets[g].replicas = cache.sets[g].replicas

PodsMove ==
  \A g \in Groups :
    /\ Listed(pods', g) \subseteq Listed(pods, g) \cup Below(sets[g].replicas)
    /\ Listed(cache'.pods, g) \subseteq Listed(cache.pods, g) \cup Listed(pods, g)

PlacementGrows ==
  \A g \in Groups :
    /\ StayingOrdinals(g) \subseteq StayingOrdinals(g)'
    /\ StayingOrdinals(g)' \subseteq StayingOrdinals(g) \cup Below(sets[g].replicas)

(***************************************************************************)
(* A copy of the cluster stays or is taken anew.                           *)
(***************************************************************************)
ViewsMove ==
  /\ cache'.fresh => cache.fresh \/ cache'.cluster.desired = cluster.desired
  /\ cache'.cluster.desired \in {cache.cluster.desired, cluster.desired}
  /\ ~At("idle")' =>
       \/ ~At("idle") /\ pass'.cluster.desired = pass.cluster.desired
       \/ /\ pass'.cluster.desired = cache.cluster.desired
          /\ cache'.cluster.desired = cache.cluster.desired

(***************************************************************************)
(* Such steps keep the sizes of copies, and the shape of the groups where  *)
(* full groups stay full.                                                  *)
(***************************************************************************)
LEMMA KeepSize ==
  ASSUME SizeInv, SizesStay, CopiesMove
  PROVE  SizeInv'
<1> SUFFICES ASSUME NEW g \in Groups
             PROVE  /\ sets'[g].replicas \in {cache'.sets[g].replicas,
                                              Toward(cache'.sets[g].replicas, cluster'.desired[g])}
                    /\ Fetched' =>
                         /\ sets'[g].replicas \in {pass'.sets[g].replicas,
                                                   Toward(pass'.sets[g].replicas, cluster'.desired[g])}
                         /\ cache'.sets[g].replicas \in {pass'.sets[g].replicas, sets'[g].replicas}
  BY ZenonT(60) DEF SizeInv, Fetched, Toward
<1>1. cluster'.desired[g] = cluster.desired[g] /\ sets'[g].replicas = sets[g].replicas
  BY ZenonT(60) DEF SizesStay
<1>2. /\ cache'.sets[g].replicas \in {cache.sets[g].replicas, sets[g].replicas}
      /\ Fetched' =>
           \/ Fetched /\ pass'.sets[g].replicas = pass.sets[g].replicas
           \/ /\ pass'.sets[g].replicas = cache.sets[g].replicas
              /\ cache'.sets[g].replicas = cache.sets[g].replicas
  BY ZenonT(60) DEF CopiesMove
<1>3. /\ sets[g].replicas \in {cache.sets[g].replicas, Toward(cache.sets[g].replicas, cluster.desired[g])}
      /\ Fetched =>
           /\ sets[g].replicas \in {pass.sets[g].replicas, Toward(pass.sets[g].replicas, cluster.desired[g])}
           /\ cache.sets[g].replicas \in {pass.sets[g].replicas, sets[g].replicas}
  BY ZenonT(60) DEF SizeInv
<1> QED
  BY ZenonT(60), <1>1, <1>2, <1>3

(***************************************************************************)
(* They keep the shape of the groups, where full groups stay full.         *)
(***************************************************************************)
LEMMA KeepShape ==
  ASSUME ShapeInv, SizesStay, CopiesMove, PodsMove,
         \A g \in Groups : Full(g, cluster.desired[g]) =>
           Below(cluster.desired[g]) \subseteq StayingOrdinals(g)'
  PROVE  ShapeInv'
<1> SUFFICES ASSUME NEW g \in Groups PROVE (Full(g, cluster.desired[g]) \/ Growing(g))'
  BY ZenonT(60) DEF ShapeInv
<1>1. cluster'.desired[g] = cluster.desired[g] /\ sets'[g].replicas = sets[g].replicas
  BY DEF SizesStay
<1>2. CASE Full(g, cluster.desired[g])
  BY <1>1, <1>2 DEF Full, Below
<1>3. CASE Growing(g)
  <2>1. /\ cache'.sets[g].replicas <= cluster'.desired[g]
        /\ sets'[g].replicas <= cluster'.desired[g]
        /\ Fetched' => pass'.sets[g].replicas <= cluster'.desired[g]
    BY ZenonT(60), <1>1, <1>3 DEF Growing, CopiesMove
  <2>2. Listed(pods', g) \subseteq Below(sets[g].replicas)
    BY ZenonT(60), <1>3 DEF Growing, Clean, PodsMove
  <2>3. Listed(cache'.pods, g) \subseteq Below(sets[g].replicas)
    BY ZenonT(60), <1>3 DEF Growing, Clean, PodsMove
  <2> QED
    BY ZenonT(60), <1>1, <2>1, <2>2, <2>3 DEF Growing, Clean, Listed, Below, Fetched
<1> QED
  BY ZenonT(60), <1>2, <1>3 DEF ShapeInv

(***************************************************************************)
(* Such steps leave things at rest.                                        *)
(***************************************************************************)
LEMMA KeepRest ==
  ASSUME NEW d, AtRest(d), SizesStay, CopiesMove, PodsMove, PlacementGrows
  PROVE  AtRest(d)'
<1> SUFFICES ASSUME NEW g \in Groups
             PROVE  /\ sets'[g].replicas = d[g] /\ cache'.sets[g].replicas = d[g]
                    /\ Fetched' => pass'.sets[g].replicas = d[g]
                    /\ Below(d[g]) \subseteq StayingOrdinals(g)'
                    /\ Clean(pods', g, d[g]) /\ Clean(cache'.pods, g, d[g])
  BY ZenonT(60) DEF AtRest, Full, Fetched, Clean, Below, Listed
<1>1. /\ sets[g].replicas = d[g] /\ cache.sets[g].replicas = d[g]
      /\ Fetched => pass.sets[g].replicas = d[g]
      /\ Below(d[g]) \subseteq StayingOrdinals(g)
      /\ Listed(pods, g) \subseteq Below(d[g]) /\ Listed(cache.pods, g) \subseteq Below(d[g])
  BY ZenonT(60) DEF AtRest, Full, Clean
<1>2. sets'[g].replicas = d[g] /\ cache'.sets[g].replicas = d[g]
  BY <1>1 DEF SizesStay, CopiesMove
<1>3. Fetched' => pass'.sets[g].replicas = d[g]
  BY ZenonT(60), <1>1 DEF CopiesMove
<1>4. Below(d[g]) \subseteq StayingOrdinals(g)'
  BY ZenonT(60), <1>1 DEF PlacementGrows
<1>5. Listed(pods', g) \subseteq Below(d[g]) /\ Listed(cache'.pods, g) \subseteq Below(d[g])
  BY ZenonT(60), <1>1 DEF PodsMove
<1> QED
  BY <1>2, <1>3, <1>4, <1>5 DEF Clean

(***************************************************************************)
(* Such steps keep what is known of edits: a copy that is behind asks for  *)
(* what is there, and it still does.                                       *)
(***************************************************************************)
LEMMA KeepSeen ==
  ASSUME SeenInv, SizesStay, CopiesMove, PodsMove, PlacementGrows, ViewsMove
  PROVE  SeenInv'
<1>1. \A d : AtRest(d) => AtRest(d)'
  BY KeepRest
<1>2. cluster'.desired = cluster.desired
  BY DEF SizesStay
<1>3. ASSUME NEW d, d = cache'.cluster.desired, AtRest(d)' PROVE AtRest(cache.cluster.desired)'
  BY ZenonT(60), <1>3 DEF AtRest
<1>4. ASSUME NEW d, d = pass'.cluster.desired, AtRest(d)' PROVE AtRest(pass.cluster.desired)'
  BY ZenonT(60), <1>4 DEF AtRest
<1>5. PICK dc : dc = cache.cluster.desired
  OBVIOUS
<1>6. PICK dp : dp = pass.cluster.desired
  OBVIOUS
<1>7. /\ cache.fresh => dc = cluster.desired
      /\ dc = cluster.desired \/ AtRest(dc)
      /\ ~At("idle") => \/ dp = cluster.desired /\ dc = cluster.desired
                        \/ AtRest(dp)
  BY ZenonT(60), <1>5, <1>6 DEF SeenInv
<1>8. /\ cache'.fresh => cache.fresh \/ cache'.cluster.desired = cluster.desired
      /\ cache'.cluster.desired = dc \/ cache'.cluster.desired = cluster.desired
      /\ ~At("idle")' =>
           \/ ~At("idle") /\ pass'.cluster.desired = dp
           \/ pass'.cluster.desired = dc /\ cache'.cluster.desired = dc
  BY ZenonT(60), <1>5, <1>6 DEF ViewsMove
<1>9. cache'.fresh => cache'.cluster.desired = cluster'.desired
  BY ZenonT(60), <1>2, <1>7, <1>8
<1>10. cache'.cluster.desired = cluster'.desired \/ AtRest(cache.cluster.desired)'
  BY ZenonT(60), <1>1, <1>2, <1>3, <1>7, <1>8
<1>11. ~At("idle")' =>
         \/ pass'.cluster.desired = cluster'.desired /\ cache'.cluster.desired = cluster'.desired
         \/ AtRest(pass.cluster.desired)'
  BY ZenonT(60), <1>1, <1>2, <1>4, <1>7, <1>8
<1> QED
  BY ZenonT(60), <1>9, <1>10, <1>11 DEF SeenInv

(***************************************************************************)
(* PlacedPodsKept and GroupsKeepAnInstance after a step.                   *)
(***************************************************************************)
LEMMA KeptNext ==
  ASSUME \A g \in Groups : StayingOrdinals(g)' \subseteq Below(sets'[g].replicas)
  PROVE  PlacedPodsKept'
<1>1. ASSUME NEW g \in Groups, NEW id \in Staying(g)' PROVE OrdinalOf(id) < sets'[g].replicas
  BY <1>1 DEF StayingOrdinals, Below
<1> QED
  BY <1>1 DEF PlacedPodsKept

(***************************************************************************)
(* Calm steps keep the pods of the placement.                              *)
(***************************************************************************)
LEMMA KeepKept ==
  ASSUME PlacedPodsKept, SizesStay, PlacementGrows
  PROVE  PlacedPodsKept'
<1>1. ASSUME NEW g \in Groups PROVE StayingOrdinals(g)' \subseteq Below(sets'[g].replicas)
  <2>1. StayingOrdinals(g) \subseteq Below(sets[g].replicas)
    BY KeptOrdinals
  <2>2. StayingOrdinals(g)' \subseteq Below(sets[g].replicas)
    BY <2>1 DEF PlacementGrows
  <2> QED
    BY <2>2 DEF SizesStay
<1> QED
  BY <1>1, KeptNext

(***************************************************************************)
(* GroupsKeepAnInstance after a step, from the ordinals.                   *)
(***************************************************************************)
LEMMA KeepInstance ==
  ASSUME GroupsKeepAnInstance, placementExists,
         \A g \in Groups : Staying(g) # {} => StayingOrdinals(g)' # {}
  PROVE  GroupsKeepAnInstance'
<1>1. ASSUME NEW g \in Groups PROVE Staying(g)' # {}
  BY <1>1 DEF GroupsKeepAnInstance, StayingOrdinals
<1> QED
  BY <1>1 DEF GroupsKeepAnInstance

-----------------------------------------------------------------------------
(***************************************************************************)
(* The quiet steps: all but an edit, a patch and a removal.                *)
(***************************************************************************)
Calm == SizesStay /\ CopiesMove /\ PodsMove /\ PlacementGrows /\ ViewsMove

(***************************************************************************)
(* What calm steps keep.                                                   *)
(***************************************************************************)
LEMMA KeepCalm ==
  ASSUME ResizeInv, Calm
  PROVE  SeenInv' /\ SizeInv' /\ ShapeInv' /\ PlacedPodsKept'
<1>1. \A g \in Groups : Full(g, cluster.desired[g]) =>
        Below(cluster.desired[g]) \subseteq StayingOrdinals(g)'
  BY ZenonT(60) DEF Calm, PlacementGrows, Full
<1>2. SeenInv'
  BY KeepSeen DEF ResizeInv, Calm
<1>3. SizeInv'
  BY KeepSize DEF ResizeInv, Calm
<1>4. ShapeInv'
  BY <1>1, KeepShape DEF ResizeInv, Calm
<1>5. PlacedPodsKept'
  BY KeepKept DEF ResizeInv, Calm
<1> QED
  BY ZenonT(60), <1>2, <1>3, <1>4, <1>5

(***************************************************************************)
(* Where the placement is the same, so are the instances that stay.        *)
(***************************************************************************)
LEMMA SameOrdinals ==
  ASSUME \A g \in Groups : StayingOrdinals(g)' = StayingOrdinals(g)
  PROVE  PlacementGrows
BY DEF PlacementGrows

(***************************************************************************)
(* A step of a pass that ends it or goes on with the same copies.          *)
(***************************************************************************)
PassGoesOn ==
  \/ pass'.pc = "idle"
  \/ /\ pass.pc # "idle"
     /\ pass'.sets = pass.sets /\ pass'.cluster.desired = pass.cluster.desired
     /\ Fetched' => Fetched

(***************************************************************************)
(* A replace ends the pass or goes on to the resizes.                      *)
(***************************************************************************)
LEMMA ReplaceGoesOn ==
  ASSUME TypeOK, ReplacePodInPlacement
  PROVE  PassGoesOn /\ pass'.pc \in {"idle", "resize"}
<1>1. pass.pc = "replaceCall" /\ (Return \/ Goto("resize"))
  BY ZenonT(60) DEF ReplacePodInPlacement, At
<1>2. pass \in Passes
  BY ZenonT(60) DEF TypeOK
<1> QED
  BY <1>1, <1>2 DEF PassGoesOn, Fetched, Return, Goto, NoPass, Passes

(***************************************************************************)
(* Such a step is calm, but for the placement.                             *)
(***************************************************************************)
LEMMA PassMoves ==
  ASSUME OnlyConditions, PassGoesOn, UNCHANGED pods,
         \A g \in Groups : sets'[g].replicas = sets[g].replicas
  PROVE  SizesStay /\ CopiesMove /\ PodsMove /\ ViewsMove
<1>1. SizesStay
  BY DEF OnlyConditions, SizesStay
<1>2. pass'.pc = "idle" => ~Fetched'
  BY DEF Fetched
<1>3. CopiesMove
  BY ZenonT(60), <1>2 DEF OnlyConditions, PassGoesOn, CopiesMove
<1>4. PodsMove
  BY ZenonT(60) DEF OnlyConditions, PodsMove
<1>5. ViewsMove
  BY ZenonT(60) DEF OnlyConditions, PassGoesOn, ViewsMove, At
<1> QED
  BY ZenonT(60), <1>1, <1>3, <1>4, <1>5

(***************************************************************************)
(* Every other actor leaves the pass alone, or aborts it.                  *)
(***************************************************************************)
LEMMA OthersMove ==
  ASSUME cluster' = cluster, UNCHANGED pass \/ pass'.pc = "idle"
  PROVE  /\ \A g \in Groups : Fetched' => Fetched /\ pass'.sets[g].replicas = pass.sets[g].replicas
         /\ ~At("idle")' => ~At("idle") /\ pass'.cluster.desired = pass.cluster.desired
BY DEF Fetched, At

(***************************************************************************)
(* The rest of the invariant, where a step does not touch what it is       *)
(* about.                                                                  *)
(***************************************************************************)
LEMMA KeepNew ==
  ASSUME NewInv, placementExists' = placementExists, placementExists \/ placement' = placement,
         cluster'.desired = cluster.desired,
         Started' => Started \/ placementExists
  PROVE  NewInv'
<1>1. (Started => placementExists) /\ (Started' => placementExists')
  BY DEF NewInv, Started
<1>2. ~placementExists => placement = NoPlacement /\ \A g \in Groups : cluster.desired[g] > 0
  BY DEF NewInv
<1>3. ~placementExists' => placement' = NoPlacement /\ \A g \in Groups : cluster'.desired[g] > 0
  BY ZenonT(60), <1>2
<1> QED
  BY ZenonT(60), <1>1, <1>3 DEF NewInv, Started, NoPlacement

(***************************************************************************)
(* Instances to be added stay such when no size changes.                   *)
(***************************************************************************)
LEMMA KeepAdd ==
  ASSUME TypeOK, AddInv, \A g \in Groups : sets'[g].replicas = sets[g].replicas,
         At("add")' => At("add") /\ pass'.adding = pass.adding
  PROVE  AddInv'
<1>1. ASSUME NEW id \in pass.adding PROVE GroupOf(id) \in Groups
  BY ZenonT(60), <1>1, IdParts DEF TypeOK, Passes
<1> QED
  BY ZenonT(60), <1>1 DEF AddInv, At

(***************************************************************************)
(* A calm step that changes no instance and adds none.                     *)
(***************************************************************************)
LEMMA KeepAll ==
  ASSUME TypeOK, ResizeInv, Calm, placementExists' = placementExists,
         placementExists \/ placement' = placement,
         Started' => Started \/ placementExists,
         AddInv' \/ (At("add")' => At("add") /\ pass'.adding = pass.adding)
  PROVE  ResizeInv'
<1>1. SeenInv' /\ SizeInv' /\ ShapeInv' /\ PlacedPodsKept'
  BY KeepCalm
<1>2. SizesStay /\ PlacementGrows
  BY DEF Calm
<1>3. NewInv'
  BY <1>2, KeepNew DEF ResizeInv, SizesStay
<1>4. AddInv'
  BY <1>2, KeepAdd DEF ResizeInv, SizesStay
<1>5. GroupsKeepAnInstance'
  <2>1. CASE placementExists
    <3>1. \A g \in Groups : Staying(g) # {} => StayingOrdinals(g)' # {}
      <4>1. ASSUME NEW g \in Groups, NEW id \in Staying(g) PROVE OrdinalOf(id) \in StayingOrdinals(g)'
        BY ZenonT(60), <1>2, <4>1 DEF PlacementGrows, StayingOrdinals
      <4> QED
        BY ZenonT(60), <4>1
    <3> QED
      BY <2>1, <3>1, KeepInstance DEF ResizeInv
  <2>2. CASE ~placementExists
    BY <2>2 DEF GroupsKeepAnInstance
  <2> QED
    BY <2>1, <2>2
<1> QED
  BY ZenonT(60), <1>1, <1>3, <1>4, <1>5 DEF ResizeInv

-----------------------------------------------------------------------------
(***************************************************************************)
(* The steps of a pass that are calm.                                      *)
(***************************************************************************)
LEMMA StartKeeps ==
  ASSUME TypeOK, ResizeInv, StartPass
  PROVE  ResizeInv'
<1>1. /\ pass'.cluster = cache.cluster
      /\ pass'.pc = IF cache.cluster.placementInitialized THEN "fetch" ELSE "init"
  BY DEF StartPass, NoPass
<1>2. UNCHANGED <<cluster, sets, pods, cache, placementExists, placement>>
  BY DEF StartPass, kube, coordinator
<1>3. ~Fetched' /\ ~At("add")'
  BY <1>1 DEF Fetched, At
<1>4. PlacementGrows
  BY <1>2, SamePlacement, SameOrdinals
<1>5. SizesStay /\ CopiesMove /\ PodsMove /\ ViewsMove
  BY ZenonT(60), <1>1, <1>2, <1>3 DEF SizesStay, CopiesMove, PodsMove, ViewsMove
<1>6. Started' => Started
  BY ZenonT(60), <1>1, <1>2 DEF Started
<1> QED
  BY ZenonT(60), <1>2, <1>3, <1>4, <1>5, <1>6, KeepAll DEF Calm

(***************************************************************************)
(* The first placement is made of pods that the sets keep: the cluster has *)
(* not been edited, or the pass would have had no pods to make it of.      *)
(***************************************************************************)
LEMMA FirstKept ==
  ASSUME TypeOK, ResizeInv, ~placementExists, NEW g \in Groups
  PROVE  Listed(cache.pods, g) \subseteq Below(sets[g].replicas)
<1>1. placement = NoPlacement /\ cluster.desired[g] > 0
  BY ZenonT(60) DEF ResizeInv, NewInv
<1>2. cluster.desired[g] \in Counts
  BY SizeTypes
<1>3. 0 \in Below(cluster.desired[g])
  BY <1>1, <1>2, BelowZero
<1>4. ~Full(g, cluster.desired[g])
  BY ZenonT(60), <1>1, <1>3, NothingStays DEF Full
<1> QED
  BY <1>4 DEF ResizeInv, ShapeInv, Growing, Clean

(***************************************************************************)
(* validatePlacementWithStatus: the first placement, one that is there     *)
(* already, or too few pods for one.                                       *)
(***************************************************************************)
LEMMA CreateKeeps ==
  ASSUME TypeOK, ResizeInv, InitPlacement
  PROVE  ResizeInv'
<1>1. UNCHANGED <<cluster, sets, pods, cache>> /\ pass.pc = "init"
  BY DEF InitPlacement, kube, At
<1>2. \/ pass'.pc = "idle"
      \/ pass'.pc = "created" /\ pass'.sets = pass.sets /\ pass'.cluster = pass.cluster
  BY DEF InitPlacement, Goto, Return, NoPass, TypeOK, Passes
<1>3. OnlyConditions /\ PassGoesOn
  BY ZenonT(60), <1>1, <1>2 DEF OnlyConditions, PassGoesOn, Fetched
<1>4. SizesStay /\ CopiesMove /\ PodsMove /\ ViewsMove
  BY <1>1, <1>3, PassMoves
<1>5. ~At("add")'
  BY <1>2 DEF At
<1>6. CASE UNCHANGED coordinator
  <2>1. UNCHANGED <<placementExists, placement>>
    BY <1>6 DEF coordinator
  <2>2. PlacementGrows
    BY ZenonT(60), <2>1, SamePlacement, SameOrdinals
  <2>3. Started' => Started \/ placementExists
    <3>1. placementExists \/ pass'.pc = "idle"
      BY <2>1 DEF InitPlacement, Return, NoPass
    <3> QED
      BY ZenonT(60), <1>1, <3>1 DEF Started
  <2> QED
    BY ZenonT(60), <1>4, <1>5, <2>1, <2>2, <2>3, KeepAll DEF Calm
<1>7. CASE /\ ~placementExists /\ Complete(InitRequest)
           /\ placementExists' = TRUE
           /\ placement' = [id \in Ids |-> IF id \in InitRequest THEN "Initializing" ELSE "Absent"]
  <2>1. placement = NoPlacement
    BY ZenonT(60), <1>7 DEF ResizeInv, NewInv
  <2>2. InitRequest \subseteq Ids
    BY IdentitiesType DEF InitRequest, TypeOK, Caches
  <2>3. \A id \in Ids : placement'[id] = IF id \in InitRequest THEN "Initializing" ELSE placement[id]
    BY ZenonT(60), <1>7, <2>1 DEF NoPlacement
  <2>4. ASSUME NEW g \in Groups
        PROVE  Staying(g)' = {id \in InitRequest : GroupOf(id) = g} /\ StayingOrdinals(g) = {}
    BY SMTT(60), <2>1, <2>2, <2>3, AddStaying, NothingStays
  <2>5. ASSUME NEW g \in Groups, NEW id \in InitRequest, GroupOf(id) = g
        PROVE  OrdinalOf(id) \in Listed(cache.pods, g)
    <3>1. PICK h \in Groups : id \in Identities(cache.pods, h)
      BY <2>5 DEF InitRequest
    <3>2. PICK o \in Listed(cache.pods, h) : id = Identity(cache.pods, h, o)
      BY <3>1 DEF Identities
    <3>3. h = g /\ OrdinalOf(id) = o
      BY <2>5, <3>2 DEF Identity, GroupOf, OrdinalOf
    <3> QED
      BY <3>2, <3>3
  <2>6. ASSUME NEW g \in Groups PROVE StayingOrdinals(g)' \subseteq Below(sets[g].replicas)
    <3>1. StayingOrdinals(g)' \subseteq Listed(cache.pods, g)
      BY ZenonT(60), <2>4, <2>5 DEF StayingOrdinals
    <3> QED
      BY ZenonT(60), <1>7, <3>1, FirstKept
  <2>7. PlacementGrows
    BY ZenonT(60), <2>4, <2>6 DEF PlacementGrows
  <2>8. SeenInv' /\ SizeInv' /\ ShapeInv' /\ PlacedPodsKept'
    BY ZenonT(60), <1>4, <2>7, KeepCalm DEF Calm
  <2>9. NewInv'
    BY <1>7 DEF NewInv
  <2>10. AddInv'
    BY <1>5 DEF AddInv
  <2>11. GroupsKeepAnInstance'
    BY ZenonT(60), <1>7, <2>4 DEF GroupsKeepAnInstance, Complete
  <2> QED
    BY ZenonT(60), <2>8, <2>9, <2>10, <2>11 DEF ResizeInv
<1> QED
  BY ZenonT(60), <1>6, <1>7 DEF InitPlacement

(***************************************************************************)
(* Steps of a pass that has a placement, and writes conditions at most.    *)
(***************************************************************************)
LEMMA PassCalm ==
  ASSUME TypeOK, ResizeInv, pass.pc \notin {"idle", "init"},
         UNCHANGED <<pods, placementExists>>,
         \A g \in Groups : sets'[g].replicas = sets[g].replicas,
         OnlyConditions, PassGoesOn, PlacementGrows,
         AddInv' \/ (At("add")' => At("add") /\ pass'.adding = pass.adding)
  PROVE  ResizeInv'
<1>1. SizesStay /\ CopiesMove /\ PodsMove /\ ViewsMove
  BY ZenonT(60), PassMoves
<1>2. Started
  BY DEF Started
<1>3. placementExists
  BY ZenonT(60), <1>2 DEF ResizeInv, NewInv
<1>4. Calm
  BY <1>1 DEF Calm
<1> QED
  BY ZenonT(60), <1>3, <1>4, KeepAll

(***************************************************************************)
(* setStatusPlacementCreated writes a condition; the pass goes on with the *)
(* same sizes.                                                             *)
(***************************************************************************)
LEMMA PlacementCreatedKeeps ==
  ASSUME TypeOK, ResizeInv, SetStatusPlacementCreated
  PROVE  ResizeInv'
<1> DEFINE copy == [pass.cluster EXCEPT !.placementInitialized = TRUE]
<1>1. /\ UpdateStatus(copy) \/ NoWrite
      /\ pass.pc = "created"
      /\ UNCHANGED <<sets, pods, placementExists, placement>>
  BY ZenonT(60) DEF SetStatusPlacementCreated, coordinator, At
<1>2. OnlyConditions
  BY ZenonT(60), <1>1, StatusWrites
<1>3. copy.desired = pass.cluster.desired
  BY DEF TypeOK, Passes, Clusters
<1>4. \/ pass'.pc = "idle"
      \/ pass'.pc = "fetch" /\ pass'.sets = pass.sets /\ pass'.cluster = copy
  <2>1. CASE Return
    BY <2>1 DEF Return, NoPass
  <2>2. CASE pass' = [pass EXCEPT !.cluster = copy, !.pc = "fetch"]
    BY ZenonT(60), <2>2 DEF TypeOK, Passes
  <2> QED
    BY ZenonT(60), <2>1, <2>2 DEF SetStatusPlacementCreated
<1>5. PassGoesOn /\ ~At("add")'
  BY ZenonT(60), <1>1, <1>3, <1>4 DEF PassGoesOn, Fetched, At
<1>6. PlacementGrows
  BY ZenonT(60), <1>1, SamePlacement, SameOrdinals
<1> QED
  BY ZenonT(60), <1>1, <1>2, <1>5, <1>6, PassCalm

(***************************************************************************)
(* The sets that the pass fetches are those of the cache.                  *)
(***************************************************************************)
LEMMA FetchKeeps ==
  ASSUME TypeOK, ResizeInv, FetchPlacement
  PROVE  ResizeInv'
<1>1. /\ UNCHANGED <<cluster, sets, pods, cache, placementExists, placement>>
      /\ pass.pc = "fetch"
      /\ \/ pass'.pc = "idle"
         \/ /\ pass'.pc \in {"resize", "replace"}
            /\ pass'.sets = cache.sets /\ pass'.cluster = pass.cluster
  BY FetchParts
<1>2. SizesStay /\ PodsMove
  BY ZenonT(60), <1>1 DEF SizesStay, PodsMove
<1>3. Fetched' => pass'.sets = cache.sets
  BY <1>1 DEF Fetched
<1>4. CopiesMove
  BY ZenonT(60), <1>1, <1>3 DEF CopiesMove
<1>5. ViewsMove /\ ~At("add")'
  BY ZenonT(60), <1>1 DEF ViewsMove, At
<1>6. PlacementGrows
  BY ZenonT(60), <1>1, SamePlacement, SameOrdinals
<1>7. Started
  BY ZenonT(60), <1>1 DEF Started
<1> QED
  BY ZenonT(60), <1>1, <1>2, <1>4, <1>5, <1>6, <1>7, KeepAll DEF Calm

(***************************************************************************)
(* The status write before a replace is calm.                              *)
(***************************************************************************)
LEMMA ReplaceStatusKeeps ==
  ASSUME TypeOK, ResizeInv, ReplacePodStatus
  PROVE  ResizeInv'
<1>1. /\ pass.pc = "replace" /\ SetStatusPodsBootstrapping("replaceCall", {})
      /\ UNCHANGED <<sets, pods, placementExists, placement>>
  BY ZenonT(60) DEF ReplacePodStatus, At, coordinator
<1>2. OnlyConditions /\ PassGoesOn /\ ~At("add")'
  BY ZenonT(60), <1>1, BootstrappingParts DEF PassGoesOn, Fetched, At
<1>3. PlacementGrows
  BY ZenonT(60), <1>1, SamePlacement, SameOrdinals
<1> QED
  BY ZenonT(60), <1>1, <1>2, <1>3, PassCalm

(***************************************************************************)
(* A replace resizes nothing: the new instance is of the same pod.         *)
(***************************************************************************)
LEMMA ReplaceResize ==
  ASSUME TypeOK, SeenIsCurrent, ReplacePodInPlacement, NEW g
  PROVE  sets'[g].replicas = sets[g].replicas /\ StayingOrdinals(g)' = StayingOrdinals(g)
<1>1. pass.pc = "replaceCall" /\ UNCHANGED sets
  BY DEF ReplacePodInPlacement, At, kube
<1>2. CASE UNCHANGED placement
  BY ZenonT(60), <1>1, <1>2, SamePlacement
<1>3. CASE \E p \in pass.replacing :
             /\ placement[p[2]] = "Absent"
             /\ placement' = [placement EXCEPT ![p[1]] = "Leaving", ![p[2]] = "Initializing"]
  BY ZenonT(60), <1>1, <1>3, ReplaceStaying
<1> QED
  BY ZenonT(60), <1>2, <1>3 DEF ReplacePodInPlacement

(***************************************************************************)
(* So a replace is calm.                                                   *)
(***************************************************************************)
LEMMA ReplaceKeeps ==
  ASSUME TypeOK, SeenIsCurrent, ResizeInv, ReplacePodInPlacement
  PROVE  ResizeInv'
<1>1. /\ pass.pc = "replaceCall" /\ UNCHANGED <<sets, pods, placementExists>>
      /\ OnlyConditions
  BY ZenonT(60), NoConditions DEF ReplacePodInPlacement, At, kube
<1>2. PassGoesOn /\ ~At("add")'
  BY ZenonT(60), ReplaceGoesOn DEF At
<1>3. \A g \in Groups : StayingOrdinals(g)' = StayingOrdinals(g)
  BY ZenonT(60), ReplaceResize
<1>4. PlacementGrows
  BY ZenonT(60), <1>3, SameOrdinals
<1> QED
  BY ZenonT(60), <1>1, <1>2, <1>4, PassCalm

(***************************************************************************)
(* A group that is expanded is not full, so the pods listed are kept.      *)
(***************************************************************************)
LEMMA ExpandedKept ==
  ASSUME TypeOK, SeenIsCurrent, ResizeInv, pass.pc = "resize", NEW g \in Groups, ToExpand(g)
  PROVE  Listed(cache.pods, g) \subseteq Below(sets[g].replicas)
<1>1. \/ pass.cluster.desired = cluster.desired
      \/ AtRest(pass.cluster.desired)
  BY ZenonT(60) DEF ResizeInv, SeenInv, At
<1>2. CASE AtRest(pass.cluster.desired)
  BY ZenonT(60), <1>2 DEF AtRest, Clean
<1>3. CASE pass.cluster.desired = cluster.desired
  <2>1. cluster.desired[g] \in Counts
    BY SizeTypes
  <2>2. InPlacement(g) < cluster.desired[g]
    BY <1>3 DEF ToExpand, Desired
  <2>3. InPlacement(g) \in Nat /\ cluster.desired[g] \in Nat
    BY ZenonT(60), <2>1, PlacedCount, CountsAreNumbers
  <2>4. ~(cluster.desired[g] <= InPlacement(g))
    BY <2>2, <2>3
  <2>5. ~Full(g, cluster.desired[g])
    BY ZenonT(60), <2>1, <2>4, FullCount
  <2> QED
    BY ZenonT(60), <2>5 DEF ResizeInv, ShapeInv, Growing, Clean
<1> QED
  BY ZenonT(60), <1>1, <1>2, <1>3

(***************************************************************************)
(* What is to be added is a pod that is kept.                              *)
(***************************************************************************)
LEMMA ExpandKeeps ==
  ASSUME TypeOK, SeenIsCurrent, ResizeInv, NEW g \in Groups, ExpandPlacementForSet(g)
  PROVE  ResizeInv'
<1>1. /\ pass.pc = "resize" /\ ToExpand(g)
      /\ UNCHANGED <<sets, pods, placementExists, placement>>
      /\ OnlyConditions
      /\ \/ pass'.pc = "idle"
         \/ /\ pass'.pc = "add" /\ pass'.adding = PodsToAdd(g)
            /\ pass'.sets = pass.sets /\ pass'.cluster.desired = pass.cluster.desired
  BY ZenonT(60), ExpandParts
<1>2. PassGoesOn
  BY ZenonT(60), <1>1 DEF PassGoesOn, Fetched
<1>3. PlacementGrows
  BY ZenonT(60), <1>1, SamePlacement, SameOrdinals
<1>4. ASSUME NEW id \in PodsToAdd(g) PROVE OrdinalOf(id) < sets[GroupOf(id)].replicas
  <2>1. GroupOf(id) = g /\ OrdinalOf(id) \in Listed(cache.pods, g)
    BY <1>4, ListedIdentity DEF PodsToAdd
  <2>2. OrdinalOf(id) \in Below(sets[g].replicas)
    BY ZenonT(60), <1>1, <2>1, ExpandedKept
  <2> QED
    BY ZenonT(60), <2>1, <2>2 DEF Below
<1>5. AddInv'
  BY ZenonT(60), <1>1, <1>4 DEF AddInv, At
<1> QED
  BY ZenonT(60), <1>1, <1>2, <1>3, <1>5, PassCalm

(***************************************************************************)
(* The instances that are added are of pods that the set keeps.            *)
(***************************************************************************)
LEMMA AddKeeps ==
  ASSUME TypeOK, ResizeInv, AddPodsToPlacement
  PROVE  ResizeInv'
<1>1. /\ pass.pc = "add" /\ pass'.pc = "idle"
      /\ UNCHANGED <<cluster, sets, pods, cache, placementExists>>
      /\ pass.adding \subseteq Ids
      /\ \/ UNCHANGED placement
         \/ \A g : Staying(g)' = Staying(g) \cup {id \in pass.adding : GroupOf(id) = g}
  BY ZenonT(60), AddParts
<1>2. OnlyConditions /\ PassGoesOn /\ ~At("add")'
  BY ZenonT(60), <1>1, NoConditions DEF PassGoesOn, At
<1>3. PlacementGrows
  <2>1. CASE UNCHANGED placement
    BY ZenonT(60), <2>1, SamePlacement, SameOrdinals
  <2>2. CASE \A g : Staying(g)' = Staying(g) \cup {id \in pass.adding : GroupOf(id) = g}
    <3>1. ASSUME NEW id \in pass.adding PROVE OrdinalOf(id) \in Below(sets[GroupOf(id)].replicas)
      BY ZenonT(60), <1>1, <3>1, IdParts DEF ResizeInv, AddInv, At, Below
    <3>2. ASSUME NEW g \in Groups
          PROVE  /\ StayingOrdinals(g) \subseteq StayingOrdinals(g)'
                 /\ StayingOrdinals(g)' \subseteq StayingOrdinals(g) \cup Below(sets[g].replicas)
      BY ZenonT(60), <2>2, <3>1 DEF StayingOrdinals
    <3> QED
      BY ZenonT(60), <3>2 DEF PlacementGrows
  <2> QED
    BY ZenonT(60), <1>1, <2>1, <2>2
<1> QED
  BY ZenonT(60), <1>1, <1>2, <1>3, PassCalm

(***************************************************************************)
(* The end of the loop over the sets is calm.                              *)
(***************************************************************************)
LEMMA FinishKeeps ==
  ASSUME TypeOK, ResizeInv, AllAtSize
  PROVE  ResizeInv'
<1>1. /\ pass.pc = "resize" /\ UNCHANGED <<cluster, sets, pods, cache, placementExists, placement>>
      /\ pass'.pc = "finish" /\ pass'.sets = pass.sets /\ pass'.cluster = pass.cluster
  BY DEF AllAtSize, At, Goto, kube, coordinator, TypeOK, Passes
<1>2. OnlyConditions /\ PassGoesOn /\ ~At("add")'
  BY ZenonT(60), <1>1, NoConditions DEF PassGoesOn, At, Fetched
<1>3. PlacementGrows
  BY ZenonT(60), <1>1, SamePlacement, SameOrdinals
<1> QED
  BY ZenonT(60), <1>1, <1>2, <1>3, PassCalm

(***************************************************************************)
(* So it is calm.                                                          *)
(***************************************************************************)
LEMMA ReconcileKeeps ==
  ASSUME TypeOK, ResizeInv, ReconcileBootstrappingStatus
  PROVE  ResizeInv'
<1>1. /\ pass.pc = "finish" /\ UNCHANGED <<sets, pods, placementExists, placement>>
      /\ OnlyConditions
      /\ \/ pass'.pc = "idle"
         \/ pass'.pc = "cleanup" /\ pass'.sets = pass.sets /\ pass'.cluster = pass.cluster
  BY ZenonT(60), ReconcileParts
<1>2. PassGoesOn /\ ~At("add")'
  BY ZenonT(60), <1>1 DEF PassGoesOn, At, Fetched
<1>3. PlacementGrows
  BY ZenonT(60), <1>1, SamePlacement, SameOrdinals
<1> QED
  BY ZenonT(60), <1>1, <1>2, <1>3, PassCalm

(***************************************************************************)
(* The removal of annotations is calm.                                     *)
(***************************************************************************)
LEMMA CleanupKeeps ==
  ASSUME TypeOK, ResizeInv, CleanupAnnotations
  PROVE  ResizeInv'
<1>1. pass.pc = "cleanup" /\ UNCHANGED <<cluster, pods, cache, placementExists, placement>>
  BY CleanupParts
<1>2. PICK g \in Groups :
        /\ sets' = [sets EXCEPT ![g].inProgress = FALSE]
        /\ \/ pass'.pc = "idle"
           \/ /\ pass'.pc = "cleanup" /\ pass'.cluster = pass.cluster
              /\ pass'.sets = [pass.sets EXCEPT ![g].inProgress = FALSE]
  BY ZenonT(60), CleanupParts
<1>3. sets \in Sets /\ pass.sets \in Sets
  BY DEF TypeOK, Passes
<1>4. /\ \A h \in Groups : sets'[h].replicas = sets[h].replicas
      /\ pass'.pc # "idle" => \A h \in Groups : pass'.sets[h].replicas = pass.sets[h].replicas
  <2>1. \A s \in Sets, h \in Groups : [s EXCEPT ![g].inProgress = FALSE][h].replicas = s[h].replicas
    BY SameReplicas
  <2> QED
    BY ZenonT(60), <1>2, <1>3, <2>1
<1>5. PlacementGrows
  BY ZenonT(60), <1>1, SamePlacement, SameOrdinals
<1>6. Fetched /\ ~At("idle") /\ ~At("add")' /\ Started
  BY ZenonT(60), <1>1, <1>2 DEF Fetched, At, Started
<1>7. SizesStay /\ PodsMove
  BY ZenonT(60), <1>1, <1>4 DEF SizesStay, PodsMove
<1>8. CopiesMove
  <2>1. Fetched' => pass'.pc # "idle"
    BY DEF Fetched
  <2> QED
    BY ZenonT(60), <1>1, <1>4, <1>6, <2>1 DEF CopiesMove
<1>9. ViewsMove
  BY ZenonT(60), <1>1, <1>2, <1>6 DEF ViewsMove, At
<1> QED
  BY ZenonT(60), <1>1, <1>5, <1>6, <1>7, <1>8, <1>9, KeepAll DEF Calm

-----------------------------------------------------------------------------
(***************************************************************************)
(* Nothing is removable from a group whose listed pods are all desired.    *)
(***************************************************************************)
LEMMA NothingRemovable ==
  ASSUME TypeOK, NEW g \in Groups, NEW S, Removable(g, S), NEW n \in Counts, n <= Desired(g),
         Listed(cache.pods, g) \subseteq Below(n)
  PROVE  S = {}
<1>1. ASSUME NEW id \in S PROVE FALSE
  <2>1. OrdinalOf(id) \in Ordinals /\ OrdinalOf(id) < n /\ OrdinalOf(id) >= Desired(g)
    BY <1>1 DEF Removable, Below
  <2>2. Desired(g) \in Nat /\ n \in Nat /\ OrdinalOf(id) \in Nat
    BY ZenonT(60), <2>1, SizeTypes, CountsAreNumbers DEF Desired
  <2> QED
    BY <2>1, <2>2
<1> QED
  BY <1>1

(***************************************************************************)
(* A group that has all desired pods has them after a removal.             *)
(***************************************************************************)
LEMMA FullAfterRemoval ==
  ASSUME TypeOK, NEW g \in Groups, NEW S, Removable(g, S), Staying(g)' = Staying(g) \ S,
         Full(g, Desired(g))
  PROVE  Below(Desired(g)) \subseteq StayingOrdinals(g)'
<1> SUFFICES ASSUME NEW o \in Below(Desired(g)) PROVE o \in StayingOrdinals(g)'
  OBVIOUS
<1>1. o \in Ordinals /\ o < Desired(g)
  BY DEF Below
<1>2. o \in Nat /\ Desired(g) \in Nat
  BY ZenonT(60), <1>1, SizeTypes, CountsAreNumbers DEF Desired
<1>3. ~(o >= Desired(g))
  BY ZenonT(60), <1>1, <1>2, Comparisons
<1>4. PICK id \in Staying(g) : o = OrdinalOf(id)
  BY DEF Full, StayingOrdinals
<1>5. id \notin S
  BY ZenonT(60), <1>3, <1>4 DEF Removable
<1> QED
  BY ZenonT(60), <1>4, <1>5 DEF StayingOrdinals

(***************************************************************************)
(* From a group whose copies show it growing, or by a pass that is behind, *)
(* there is nothing to remove; otherwise the group has all its pods.       *)
(***************************************************************************)
LEMMA RemovedFromFull ==
  ASSUME TypeOK, ResizeInv, NEW g \in Groups, pass.pc = "resize", NEW S, Removable(g, S), S # {}
  PROVE  /\ pass.cluster.desired = cluster.desired /\ cache.cluster.desired = cluster.desired
         /\ Full(g, cluster.desired[g])
<1>1. ~AtRest(pass.cluster.desired)
  <2> SUFFICES ASSUME AtRest(pass.cluster.desired) PROVE FALSE
    OBVIOUS
  <2>1. Desired(g) \in Counts /\ Desired(g) <= Desired(g)
    <3>1. Desired(g) \in Counts
      BY ZenonT(60), SizeTypes DEF Desired
    <3> QED
      BY ZenonT(60), <3>1, Comparisons
  <2>2. Listed(cache.pods, g) \subseteq Below(Desired(g))
    BY ZenonT(60) DEF AtRest, Clean, Desired
  <2> QED
    BY ZenonT(60), <2>1, <2>2, NothingRemovable
<1>2. pass.cluster.desired = cluster.desired /\ cache.cluster.desired = cluster.desired
  BY ZenonT(60), <1>1 DEF ResizeInv, SeenInv, At
<1>3. ~Growing(g)
  <2> SUFFICES ASSUME Growing(g) PROVE FALSE
    BY ZenonT(60)
  <2>1. sets[g].replicas \in Counts /\ sets[g].replicas <= Desired(g)
    BY ZenonT(60), <1>2, SizeTypes DEF Desired, Growing
  <2>2. Listed(cache.pods, g) \subseteq Below(sets[g].replicas)
    BY DEF Growing, Clean
  <2> QED
    BY ZenonT(60), <2>1, <2>2, NothingRemovable
<1> QED
  BY ZenonT(60), <1>2, <1>3 DEF ResizeInv, ShapeInv

(***************************************************************************)
(* A removal: there is nothing to remove, or the group has all its pods    *)
(* and keeps them.                                                         *)
(***************************************************************************)
LEMMA ShrinkKeeps ==
  ASSUME TypeOK, SeenIsCurrent, ResizeInv, NEW g \in Groups, ShrinkPlacementForSet(g)
  PROVE  ResizeInv'
<1>1. /\ pass.pc = "resize" /\ pass'.pc = "idle"
      /\ UNCHANGED <<cluster, sets, pods, cache, placementExists>>
  BY ZenonT(60), ShrinkParts
<1>2. PICK S : Removable(g, S) /\ \A h : Staying(h)' = Staying(h) \ S
  BY ZenonT(60), ShrinkParts
<1>3. OnlyConditions /\ PassGoesOn /\ ~At("add")' /\ Started
  BY ZenonT(60), <1>1, NoConditions DEF PassGoesOn, At, Started
<1>4. placementExists
  BY ZenonT(60), <1>3 DEF ResizeInv, NewInv
<1>5. CASE S = {}
  <2>1. \A h \in Groups : StayingOrdinals(h)' = StayingOrdinals(h)
    BY ZenonT(60), <1>2, <1>5 DEF StayingOrdinals
  <2> QED
    BY ZenonT(60), <1>1, <1>3, <2>1, SameOrdinals, PassCalm
<1>6. CASE /\ pass.cluster.desired = cluster.desired /\ cache.cluster.desired = cluster.desired
           /\ Full(g, cluster.desired[g]) /\ S # {}
  <2>1. Desired(g) = cluster.desired[g] /\ Desired(g) > 0 /\ Desired(g) \in Counts
    BY ZenonT(60), <1>2, <1>6, SizeTypes DEF Removable, Desired
  <2>2. Below(cluster.desired[g]) \subseteq StayingOrdinals(g)'
    BY ZenonT(60), <1>2, <1>6, <2>1, FullAfterRemoval
  <2>3. ASSUME NEW h, h # g PROVE Staying(h)' = Staying(h) /\ StayingOrdinals(h)' = StayingOrdinals(h)
    <3>1. \A id \in Staying(h) : id \notin S
      BY ZenonT(60), <1>2, <2>3, WhoStays DEF Removable
    <3>2. Staying(h)' = Staying(h)
      BY ZenonT(60), <1>2, <3>1
    <3> QED
      BY ZenonT(60), <3>2 DEF StayingOrdinals
  <2>4. \A h \in Groups : StayingOrdinals(h)' \subseteq StayingOrdinals(h)
    BY ZenonT(60), <1>2 DEF StayingOrdinals
  <2>5. SizesStay /\ CopiesMove /\ PodsMove
    BY ZenonT(60), <1>1, <1>3, PassMoves
  <2>6. SizeInv'
    BY ZenonT(60), <2>5, KeepSize DEF ResizeInv
  <2>7. ShapeInv'
    <3>1. \A h \in Groups : Full(h, cluster.desired[h]) =>
            Below(cluster.desired[h]) \subseteq StayingOrdinals(h)'
      BY ZenonT(60), <2>2, <2>3 DEF Full
    <3> QED
      BY ZenonT(60), <2>5, <3>1, KeepShape DEF ResizeInv
  <2>8. SeenInv'
    BY ZenonT(60), <1>1, <1>6 DEF SeenInv, At
  <2>9. NewInv' /\ AddInv'
    BY ZenonT(60), <1>1, <1>3, <1>4, KeepNew DEF ResizeInv, AddInv
  <2>10. PlacedPodsKept'
    BY ZenonT(60), <1>1, <2>4, KeptOrdinals, KeptNext DEF ResizeInv
  <2>11. GroupsKeepAnInstance'
    <3>1. 0 \in StayingOrdinals(g)'
      BY ZenonT(60), <2>1, <2>2, BelowZero
    <3>2. ASSUME NEW h \in Groups, Staying(h) # {} PROVE StayingOrdinals(h)' # {}
      <4>1. StayingOrdinals(h) # {}
        BY ZenonT(60), <3>2 DEF StayingOrdinals
      <4> QED
        BY ZenonT(60), <2>3, <3>1, <4>1
    <3> QED
      BY ZenonT(60), <1>4, <3>2, KeepInstance DEF ResizeInv
  <2> QED
    BY ZenonT(60), <2>6, <2>7, <2>8, <2>9, <2>10, <2>11 DEF ResizeInv
<1> QED
  BY ZenonT(60), <1>1, <1>2, <1>5, <1>6, RemovedFromFull

-----------------------------------------------------------------------------
(***************************************************************************)
(* The patch: a pass that is behind has none to make; a group that grows   *)
(* has room for all its pods, and one that shrinks is full and has no more *)
(* instances than desired, so the pod that goes is in no placement.        *)
(***************************************************************************)
LEMMA PatchKeeps ==
  ASSUME TypeOK, SeenIsCurrent, ResizeInv, NEW g \in Groups, PatchStatefulSet(g)
  PROVE  ResizeInv'
<1>1. /\ pass.pc = "resize" /\ ToPatch(g) /\ pass'.pc = "idle"
      /\ UNCHANGED <<cluster, pods, cache, placementExists, placement>>
      /\ \A h \in Groups \ {g} : sets'[h] = sets[h]
      /\ sets'[g].replicas \in {sets[g].replicas, Toward(Current(g), Desired(g))}
  BY ZenonT(60), PatchParts
<1>2. OnlyConditions /\ PassGoesOn /\ ~At("add")' /\ Started /\ Fetched /\ ~Fetched'
  BY ZenonT(60), <1>1, NoConditions DEF PassGoesOn, At, Started, Fetched
<1>3. placementExists
  BY ZenonT(60), <1>2 DEF ResizeInv, NewInv
<1>4. \A h : Staying(h)' = Staying(h) /\ StayingOrdinals(h)' = StayingOrdinals(h)
  BY ZenonT(60), <1>1, SamePlacement
<1>5. CASE sets'[g].replicas = sets[g].replicas
  <2>1. \A h \in Groups : sets'[h].replicas = sets[h].replicas
    BY ZenonT(60), <1>1, <1>5
  <2> QED
    BY ZenonT(60), <1>1, <1>2, <1>4, <2>1, SameOrdinals, PassCalm
<1>6. ~AtRest(pass.cluster.desired)
  BY ZenonT(60), <1>1, <1>2 DEF AtRest, ToPatch, Current, Desired
<1>7. pass.cluster.desired = cluster.desired /\ cache.cluster.desired = cluster.desired
  BY ZenonT(60), <1>1, <1>6 DEF ResizeInv, SeenInv, At
<1>8. PICK n \in Nat, rp \in Nat, rc \in Nat, r \in Nat :
        /\ n = cluster.desired[g] /\ rp = pass.sets[g].replicas
        /\ rc = cache.sets[g].replicas /\ r = sets[g].replicas
  BY ZenonT(60), SizeTypes, CountsAreNumbers
<1>9. /\ n # rp /\ InPlacement(g) <= n
      /\ r \in {rp, Toward(rp, n)} /\ rc \in {rp, r}
  BY ZenonT(60), <1>1, <1>2, <1>7, <1>8 DEF ToPatch, Desired, Current, ResizeInv, SizeInv
<1>10. CASE sets'[g].replicas = Toward(Current(g), Desired(g))
  <2>1. PICK x : x = sets'[g].replicas
    OBVIOUS
  <2>2. x = Toward(rp, n)
    BY ZenonT(60), <1>7, <1>8, <1>10, <2>1 DEF Desired, Current
  <2>3. x \in {rc, Toward(rc, n)}
    BY ZenonT(60), <1>9, <2>2
  <2>4. n \in Counts /\ rp \in Counts /\ r \in Counts
    BY ZenonT(60), <1>8, SizeTypes
  <2>5. /\ x \in Counts
        /\ \/ rp < n /\ x = rp + 1 /\ x <= n /\ r <= x
           \/ rp > n /\ x = rp - 1 /\ n <= x
        /\ rp <= n => x <= n /\ r <= x
    <3>1. rp # n /\ r \in {rp, x}
      BY ZenonT(60), <1>9, <2>2
    <3>2. /\ \/ rp < n /\ x = rp + 1 /\ x <= n /\ rp <= x
             \/ rp > n /\ x = rp - 1 /\ n <= x
          /\ x \in Counts /\ x <= x
          /\ rp <= n => x <= n /\ rp <= x
      BY ZenonT(60), <2>2, <2>4, <3>1, OneToward
    <3>3. CASE r = rp
      BY ZenonT(60), <3>2, <3>3
    <3>4. CASE r = x
      BY ZenonT(60), <3>2, <3>4
    <3> QED
      BY ZenonT(60), <3>1, <3>3, <3>4
  <2>6. SizeInv'
    <3>1. ASSUME NEW h \in Groups
          PROVE  sets'[h].replicas \in {cache'.sets[h].replicas,
                                        Toward(cache'.sets[h].replicas, cluster'.desired[h])}
      <4>1. CASE h = g
        BY ZenonT(60), <1>1, <1>8, <2>1, <2>3, <4>1
      <4>2. CASE h # g
        BY ZenonT(60), <1>1, <4>2 DEF ResizeInv, SizeInv
      <4> QED
        BY ZenonT(60), <4>1, <4>2
    <3> QED
      BY ZenonT(60), <1>2, <3>1 DEF SizeInv, Toward
  <2>7. ShapeInv'
    <3> SUFFICES ASSUME NEW h \in Groups PROVE (Full(h, cluster.desired[h]) \/ Growing(h))'
      BY DEF ShapeInv
    <3>1. CASE Full(h, cluster.desired[h])
      BY ZenonT(60), <1>1, <1>4, <3>1 DEF Full, Below
    <3>2. CASE Growing(h) /\ h # g
      BY ZenonT(60), <1>1, <1>2, <3>2 DEF Growing, Clean, Listed, Below
    <3>3. CASE Growing(h) /\ h = g
      <4>1. rp <= n /\ rc <= n
        BY ZenonT(60), <1>2, <1>8, <3>3 DEF Growing
      <4>2. x <= n /\ r <= x
        BY ZenonT(60), <2>5, <4>1
      <4>3. Below(r) \subseteq Below(x)
        BY ZenonT(60), <2>4, <2>5, <4>2, BelowMonotone
      <4>4. Clean(pods, g, x) /\ Clean(cache.pods, g, x)
        BY ZenonT(60), <1>8, <3>3, <4>3 DEF Growing, Clean
      <4> QED
        BY ZenonT(60), <1>1, <1>2, <1>8, <2>1, <3>3, <4>1, <4>2, <4>4 DEF Growing, Clean, Listed, Below
    <3> QED
      BY ZenonT(60), <3>1, <3>2, <3>3 DEF ResizeInv, ShapeInv
  <2>8. PlacedPodsKept'
    <3>1. StayingOrdinals(g) \subseteq Below(x)
      <4>1. CASE r <= x
        <5>1. StayingOrdinals(g) \subseteq Below(r)
          BY ZenonT(60), <1>8, KeptOrdinals DEF ResizeInv
        <5> QED
          BY ZenonT(60), <2>4, <2>5, <4>1, <5>1, BelowMonotone
      <4>2. CASE rp > n /\ n <= x
        <5>1. ~(rp <= n)
          BY <4>2
        <5>2. ~Growing(g)
          BY ZenonT(60), <1>2, <1>8, <5>1 DEF Growing
        <5>3. Full(g, n)
          BY ZenonT(60), <1>8, <5>2 DEF ResizeInv, ShapeInv
        <5>4. StayingOrdinals(g) \subseteq Below(n)
          BY ZenonT(60), <1>1, <1>9, <2>4, <2>5, <5>3, FullCount
        <5> QED
          BY ZenonT(60), <2>4, <2>5, <4>2, <5>4, BelowMonotone
      <4> QED
        BY ZenonT(60), <2>5, <4>1, <4>2
    <3>2. ASSUME NEW h \in Groups PROVE StayingOrdinals(h)' \subseteq Below(sets'[h].replicas)
      <4>1. CASE h = g
        BY ZenonT(60), <1>4, <2>1, <3>1, <4>1
      <4>2. CASE h # g
        <5>1. StayingOrdinals(h) \subseteq Below(sets[h].replicas)
          BY ZenonT(60), KeptOrdinals DEF ResizeInv
        <5> QED
          BY ZenonT(60), <1>1, <1>4, <4>2, <5>1
      <4> QED
        BY ZenonT(60), <4>1, <4>2
    <3> QED
      BY ZenonT(60), <3>2, KeptNext
  <2>9. SeenInv'
    BY ZenonT(60), <1>1, <1>7 DEF SeenInv, At
  <2>10. NewInv' /\ AddInv'
    BY ZenonT(60), <1>1, <1>2, <1>3, KeepNew DEF ResizeInv, AddInv
  <2>11. GroupsKeepAnInstance'
    BY <1>1, <1>4 DEF ResizeInv, GroupsKeepAnInstance
  <2> QED
    BY ZenonT(60), <2>6, <2>7, <2>8, <2>9, <2>10, <2>11 DEF ResizeInv
<1> QED
  BY ZenonT(60), <1>1, <1>5, <1>10

=============================================================================
