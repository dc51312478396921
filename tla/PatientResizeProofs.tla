------------------------- MODULE PatientResizeProofs -------------------------
(***************************************************************************)
(* What PlacementResize promises to a patient user, for any groups, sizes  *)
(* and numbers of failures and aborted passes: resizes take down no pod    *)
(* that is in the placement and leave every group an instance.  What a     *)
(* pass does follows from counts it has taken from caches; the invariant   *)
(* says how far those may be behind.                                       *)
(***************************************************************************)
EXTENDS PlacementResizeProofs

(***************************************************************************)
(* The steps of everybody else.  All but edits are calm: they take copies  *)
(* of what is there, or move pods and nodes to what the sets say.          *)
(***************************************************************************)
CopiesTaken ==
  /\ cache'.cluster \in {cache.cluster, cluster}
  /\ cache'.fresh => cache.fresh \/ cache'.cluster = cluster
  /\ cache'.sets \in {cache.sets, sets} /\ cache'.pods \in {cache.pods, pods}

(***************************************************************************)
(* Such steps keep the invariant.                                          *)
(***************************************************************************)
LEMMA OtherCalm ==
  ASSUME TypeOK, ResizeInv, UNCHANGED <<cluster, placementExists>>, CopiesTaken,
         UNCHANGED pass \/ pass'.pc = "idle",
         \A g \in Groups : sets'[g].replicas = sets[g].replicas,
         \A g \in Groups : Listed(pods', g) \subseteq Listed(pods, g) \cup Below(sets[g].replicas),
         \A g \in Groups : StayingOrdinals(g)' = StayingOrdinals(g),
         placementExists \/ placement' = placement
  PROVE  ResizeInv'
<1>1. /\ \A g \in Groups : Fetched' => Fetched /\ pass'.sets[g].replicas = pass.sets[g].replicas
      /\ ~At("idle")' => ~At("idle") /\ pass'.cluster.desired = pass.cluster.desired
  BY OthersMove
<1>2. SizesStay
  BY DEF SizesStay
<1>3. CopiesMove
  BY ZenonT(60), <1>1 DEF CopiesMove, CopiesTaken
<1>4. PodsMove
  BY ZenonT(60) DEF PodsMove, CopiesTaken
<1>5. ViewsMove
  BY ZenonT(60), <1>1 DEF ViewsMove, CopiesTaken
<1>6. PlacementGrows
  BY SameOrdinals
<1>7. Started' => Started
  BY ZenonT(60) DEF Started, CopiesTaken
<1>8. At("add")' => At("add") /\ pass'.adding = pass.adding
  BY DEF At
<1>9. Calm
  BY ZenonT(60), <1>2, <1>3, <1>4, <1>5, <1>6 DEF Calm
<1> QED
  BY ZenonT(60), <1>7, <1>8, <1>9, KeepAll

(***************************************************************************)
(* A watch delivers, or a pass is given up.                                *)
(***************************************************************************)
LEMMA SyncKeeps ==
  ASSUME TypeOK, ResizeInv, SyncCluster \/ SyncSets \/ SyncPods \/ PassAborts
  PROVE  ResizeInv'
<1>1. UNCHANGED <<cluster, sets, pods, placementExists, placement>>
  BY DEF SyncCluster, SyncSets, SyncPods, PassAborts, kube, coordinator
<1>2. UNCHANGED pass \/ pass'.pc = "idle"
  BY DEF SyncCluster, SyncSets, SyncPods, PassAborts, Return, NoPass
<1>3. CopiesTaken
  <2>1. CASE SyncCluster \/ SyncSets \/ SyncPods
    BY ZenonT(60), <2>1 DEF SyncCluster, SyncSets, SyncPods, CopiesTaken, TypeOK, Caches
  <2>2. CASE PassAborts
    BY <2>2 DEF PassAborts, CopiesTaken
  <2> QED
    BY <2>1, <2>2
<1>4. \A g \in Groups : StayingOrdinals(g)' = StayingOrdinals(g)
  BY <1>1, SamePlacement
<1> QED
  BY ZenonT(60), <1>1, <1>2, <1>3, <1>4, OtherCalm

(***************************************************************************)
(* A StatefulSet gets pods below its size only.                            *)
(***************************************************************************)
LEMMA PodKeeps ==
  ASSUME TypeOK, ResizeInv, NEW g \in Groups, NEW o \in Ordinals,
         CreatePod(g, o) \/ DeletePod(g, o) \/ FailPod(g, o)
  PROVE  ResizeInv'
<1>1. UNCHANGED <<cluster, sets, placementExists, placement, cache, pass>>
  BY DEF CreatePod, DeletePod, FailPod, coordinator
<1>2. PICK v : pods' = [pods EXCEPT ![g][o] = v] /\ (o < sets[g].replicas \/ v = NoPod)
  BY DEF CreatePod, DeletePod, FailPod
<1>3. ASSUME NEW h \in Groups, NEW q \in Listed(pods', h)
      PROVE  q \in Listed(pods, h) \cup Below(sets[h].replicas)
  <2>1. q \in Ordinals /\ pods'[h][q] # NoPod
    BY <1>3 DEF Listed
  <2>2. CASE h = g /\ q = o
    <3>1. pods'[h][q] = v
      BY ZenonT(60), <1>2, <2>2 DEF TypeOK, PodLists
    <3> QED
      BY ZenonT(60), <1>2, <2>1, <2>2, <3>1 DEF Below
  <2>3. CASE h # g \/ q # o
    <3>1. pods'[h][q] = pods[h][q]
      BY ZenonT(60), <1>2, <2>1, <2>3 DEF TypeOK, PodLists
    <3> QED
      BY ZenonT(60), <2>1, <3>1 DEF Listed
  <2> QED
    BY <2>2, <2>3
<1>4. \A h \in Groups : Listed(pods', h) \subseteq Listed(pods, h) \cup Below(sets[h].replicas)
  BY <1>3
<1>5. \A h \in Groups : StayingOrdinals(h)' = StayingOrdinals(h)
  BY <1>1, SamePlacement
<1>6. CopiesTaken
  BY <1>1 DEF CopiesTaken
<1> QED
  BY ZenonT(60), <1>1, <1>4, <1>5, <1>6, OtherCalm

(***************************************************************************)
(* The status and the annotations of a set are no sizes.                   *)
(***************************************************************************)
LEMMA SetKeeps ==
  ASSUME TypeOK, ResizeInv, NEW g \in Groups, UpdateSetStatus(g) \/ ApplyStatefulSetUpdate(g)
  PROVE  ResizeInv'
<1>1. UNCHANGED <<cluster, pods, placementExists, placement, cache, pass>>
  BY DEF UpdateSetStatus, ApplyStatefulSetUpdate, coordinator
<1>2. \A h \in Groups : sets'[h].replicas = sets[h].replicas
  <2>1. CASE UpdateSetStatus(g)
    BY ZenonT(60), <2>1 DEF UpdateSetStatus, TypeOK, Sets
  <2>2. CASE ApplyStatefulSetUpdate(g)
    BY ZenonT(60), <2>2 DEF ApplyStatefulSetUpdate, TypeOK, Sets
  <2> QED
    BY ZenonT(60), <2>1, <2>2
<1>3. \A h \in Groups : StayingOrdinals(h)' = StayingOrdinals(h)
  BY <1>1, SamePlacement
<1>4. CopiesTaken
  BY <1>1 DEF CopiesTaken
<1> QED
  BY ZenonT(60), <1>1, <1>2, <1>3, <1>4, OtherCalm

(***************************************************************************)
(* The database nodes add and remove no instance that stays.               *)
(***************************************************************************)
LEMMA DatabaseKeeps ==
  ASSUME TypeOK, ResizeInv, NEW i \in Ids, BecomeAvailable(i) \/ Leave(i)
  PROVE  ResizeInv'
<1>1. UNCHANGED <<cluster, sets, pods, placementExists, cache, pass>> /\ placement[i] # "Absent"
  BY DEF BecomeAvailable, Leave, kube
<1>2. placementExists
  BY <1>1 DEF ResizeInv, NewInv, NoPlacement
<1>3. \A h \in Groups : StayingOrdinals(h)' = StayingOrdinals(h)
  BY DatabaseStaying DEF StayingOrdinals
<1>4. CopiesTaken
  BY <1>1 DEF CopiesTaken
<1> QED
  BY ZenonT(60), <1>1, <1>2, <1>3, <1>4, OtherCalm

(***************************************************************************)
(* The user edits when everything is as asked for: the pods and the        *)
(* instances are those of the desired sizes, and every copy says so.       *)
(***************************************************************************)
LEMMA ConvergedRest ==
  ASSUME TypeOK, Converged, At("idle")
  PROVE  /\ \A g \in Groups : StayingOrdinals(g) = Below(cluster.desired[g])
         /\ AtRest(cluster.desired)
<1>1. ASSUME NEW g \in Groups
      PROVE  Listed(pods, g) = Below(cluster.desired[g]) /\ InGroup(placement, g) = Identities(pods, g)
  BY <1>1 DEF Converged, Below
<1>2. ASSUME NEW g \in Groups PROVE Staying(g) = Identities(pods, g)
  <2>1. \A id \in InGroup(placement, g) : placement[id] = "Available"
    BY DEF Converged, AllAvailable, InGroup
  <2>2. Staying(g) = InGroup(placement, g)
    BY <2>1 DEF Staying
  <2> QED
    BY ZenonT(60), <1>1, <1>2, <2>2
<1>3. ASSUME NEW g \in Groups PROVE StayingOrdinals(g) = Listed(pods, g)
  <2>1. pods \in PodLists
    BY DEF TypeOK
  <2>2. \A o \in Listed(pods, g) : OrdinalOf(Identity(pods, g, o)) = o
    BY <1>3, <2>1, IdentityType
  <2>3. \A o \in Listed(pods, g) : o \in StayingOrdinals(g)
    BY ZenonT(60), <1>2, <1>3, <2>2 DEF StayingOrdinals, Identities
  <2>4. ASSUME NEW id \in Staying(g) PROVE OrdinalOf(id) \in Listed(pods, g)
    BY ZenonT(60), <1>2, <1>3, <2>4, ListedIdentity
  <2>5. \A o \in StayingOrdinals(g) : o \in Listed(pods, g)
    BY ZenonT(60), <2>4 DEF StayingOrdinals
  <2> QED
    BY <2>3, <2>5
<1>4. \A g \in Groups : StayingOrdinals(g) = Below(cluster.desired[g])
  BY <1>1, <1>3
<1>5. ~Fetched
  BY DEF Fetched, At
<1>6. cache.sets = sets /\ cache.pods = pods /\ \A g \in Groups : sets[g].replicas = cluster.desired[g]
  BY DEF Converged
<1>7. AtRest(cluster.desired)
  BY ZenonT(60), <1>1, <1>4, <1>5, <1>6 DEF AtRest, Full, Clean
<1> QED
  BY <1>4, <1>7

(***************************************************************************)
(* After an edit the old sizes are at rest, and a group is full for a      *)
(* smaller size and growing for a larger one.                              *)
(***************************************************************************)
LEMMA EditKeeps ==
  ASSUME TypeOK, ResizeInv, PatientUser,
         NEW g \in Groups, NEW n \in Counts, NEW prevent, ChangeSpec(g, n, prevent)
  PROVE  ResizeInv'
<1>1. /\ At("idle") /\ Converged
      /\ UNCHANGED <<sets, pods, placementExists, placement>>
      /\ cache' = [cache EXCEPT !.fresh = FALSE] /\ pass' = [pass EXCEPT !.fresh = FALSE]
      /\ cluster' = [cluster EXCEPT !.desired[g] = n, !.preventScaleDown = prevent]
  BY DEF ChangeSpec, coordinator
<1>2. /\ ~cache'.fresh /\ cache'.cluster = cache.cluster /\ cache'.sets = cache.sets
      /\ cache'.pods = cache.pods
  BY <1>1 DEF TypeOK, Caches
<1>3. pass'.pc = "idle" /\ ~Fetched' /\ At("idle")' /\ ~At("add")'
  <2>1. pass'.pc = pass.pc
    BY ZenonT(60), <1>1 DEF TypeOK, Passes
  <2> QED
    BY ZenonT(60), <1>1, <2>1 DEF Fetched, At
<1>4. \A h \in Groups : cluster'.desired[h] \in Counts
  BY ZenonT(60), SizeTypes, <1>1 DEF TypeOK, Clusters
<1>5. /\ \A h \in Groups : StayingOrdinals(h) = Below(cluster.desired[h])
      /\ AtRest(cluster.desired)
  BY <1>1, ConvergedRest
<1>6. \A h : Staying(h)' = Staying(h) /\ StayingOrdinals(h)' = StayingOrdinals(h)
  BY <1>1, SamePlacement
<1>7. placementExists
  <2>1. CASE ~placementExists
    <3>1. StayingOrdinals(g) = {} /\ cluster.desired[g] > 0
      BY ZenonT(60), <2>1, NothingStays DEF ResizeInv, NewInv
    <3>2. 0 \in Below(cluster.desired[g])
      BY ZenonT(60), <3>1, SizeTypes, BelowZero
    <3> QED
      BY ZenonT(60), <1>5, <3>1, <3>2
  <2> QED
    BY <2>1
<1>8. SeenInv'
  <2>1. cache.cluster.desired = cluster.desired
    BY <1>1 DEF ResizeInv, SeenInv, Converged
  <2>2. PICK d : d = cluster.desired
    OBVIOUS
  <2>3. AtRest(d)
    BY <1>5, <2>2
  <2>4. AtRest(d)'
    BY ZenonT(60), <1>1, <1>2, <1>3, <1>6, <2>3 DEF AtRest, Full, Clean, Listed, Below
  <2>5. AtRest(cache.cluster.desired)'
    <3>1. cache'.cluster.desired = d
      BY ZenonT(60), <1>2, <2>1, <2>2
    <3> QED
      BY ZenonT(60), <2>4, <3>1 DEF AtRest
  <2> QED
    BY ZenonT(60), <1>2, <1>3, <2>5 DEF SeenInv
<1>9. SizeInv'
  <2>1. \A h \in Groups : sets'[h].replicas = cache'.sets[h].replicas
    BY <1>1, <1>2 DEF Converged
  <2> QED
    BY ZenonT(60), <1>3, <2>1 DEF SizeInv
<1>10. ShapeInv'
  <2> SUFFICES ASSUME NEW h \in Groups PROVE (Full(h, cluster.desired[h]) \/ Growing(h))'
    BY DEF ShapeInv
  <2>1. PICK m \in Counts, k \in Counts : m = cluster'.desired[h] /\ k = cluster.desired[h]
    BY <1>4, SizeTypes
  <2>2. /\ sets[h].replicas = k /\ cache.sets[h].replicas = k
        /\ StayingOrdinals(h) = Below(k) /\ Clean(pods, h, k) /\ Clean(cache.pods, h, k)
    BY ZenonT(60), <1>5, <2>1 DEF AtRest
  <2>3. CASE m <= k
    <3>1. Below(m) \subseteq Below(k)
      BY ZenonT(60), <2>3, BelowMonotone
    <3> QED
      BY ZenonT(60), <1>6, <2>1, <2>2, <3>1 DEF Full, Below
  <2>4. CASE k <= m
    BY ZenonT(60), <1>1, <1>2, <1>3, <2>1, <2>2, <2>4 DEF Growing, Clean, Listed, Below
  <2>5. m <= k \/ k <= m
    BY CountsAreNumbers
  <2> QED
    BY ZenonT(60), <2>3, <2>4, <2>5
<1>11. NewInv' /\ AddInv'
  BY <1>1, <1>3, <1>7 DEF NewInv, AddInv
<1>12. PlacedPodsKept'
  BY ZenonT(60), <1>1, <1>6 DEF ResizeInv, PlacedPodsKept
<1>13. GroupsKeepAnInstance'
  BY ZenonT(60), <1>1, <1>6 DEF ResizeInv, GroupsKeepAnInstance
<1> QED
  BY ZenonT(60), <1>8, <1>9, <1>10, <1>11, <1>12, <1>13 DEF ResizeInv

-----------------------------------------------------------------------------
(***************************************************************************)
(* The sets are created with the sizes asked for, and there is nothing     *)
(* else yet.                                                               *)
(***************************************************************************)
LEMMA InitResize == Init => ResizeInv
<1> SUFFICES ASSUME Init PROVE ResizeInv
  OBVIOUS
<1>1. InitialInstances \in Nat /\ InitialInstances > 0 /\ InitialInstances <= InitialInstances
  BY ConstantsAssumption
<1>2. /\ placement = NoPlacement /\ ~placementExists
      /\ cache.cluster = cluster /\ cache.sets = sets /\ cache.pods = pods
      /\ pass.pc = "idle"
  BY DEF Init, NoPass
<1>3. /\ \A g \in Groups : cluster.desired[g] = InitialInstances
      /\ ~cluster.placementInitialized
  BY DEF Init, NoCluster
<1>4. \A g \in Groups : sets[g].replicas = InitialInstances
  <2>1. PICK onDelete \in Strategies :
          sets = [g \in Groups |-> [NoSet EXCEPT !.replicas = InitialInstances, !.onDelete = onDelete]]
    BY ZenonT(60) DEF Init
  <2> QED
    BY ZenonT(60), <2>1 DEF NoSet
<1>5. \A g \in Groups : Listed(pods, g) = {}
  BY DEF Init, Listed
<1>6. ~Fetched /\ At("idle") /\ ~At("add") /\ ~Started
  BY ZenonT(60), <1>2, <1>3 DEF Fetched, At, Started
<1>7. \A g \in Groups : Staying(g) = {} /\ StayingOrdinals(g) = {}
  BY <1>2, NothingStays
<1>8. SeenInv
  BY ZenonT(60), <1>2, <1>6 DEF SeenInv
<1>9. SizeInv
  BY <1>2, <1>6 DEF SizeInv
<1>10. ShapeInv
  BY ZenonT(60), <1>1, <1>2, <1>3, <1>4, <1>5, <1>6 DEF ShapeInv, Growing, Clean
<1>11. NewInv /\ AddInv
  BY ZenonT(60), <1>1, <1>2, <1>3, <1>6 DEF NewInv, AddInv
<1>12. PlacedPodsKept /\ GroupsKeepAnInstance
  BY ZenonT(60), <1>2, <1>7 DEF PlacedPodsKept, GroupsKeepAnInstance
<1> QED
  BY ZenonT(60), <1>8, <1>9, <1>10, <1>11, <1>12 DEF ResizeInv

(***************************************************************************)
(* Every step keeps the invariant.                                         *)
(***************************************************************************)
LEMMA StepKeeps ==
  ASSUME PatientUser, TypeOK, SeenIsCurrent, ResizeInv, [Next]_vars
  PROVE  ResizeInv'
<1>1. CASE Pass
  <2>1. CASE \E g \in Groups :
               ExpandPlacementForSet(g) \/ ShrinkPlacementForSet(g) \/ PatchStatefulSet(g)
    BY ZenonT(60), <2>1, ExpandKeeps, ShrinkKeeps, PatchKeeps
  <2>2. CASE StartPass \/ InitPlacement \/ SetStatusPlacementCreated \/ FetchPlacement
    BY ZenonT(60), <2>2, StartKeeps, CreateKeeps, PlacementCreatedKeeps, FetchKeeps
  <2>3. CASE ReplacePodStatus \/ ReplacePodInPlacement \/ AddPodsToPlacement
    BY ZenonT(60), <2>3, ReplaceStatusKeeps, ReplaceKeeps, AddKeeps
  <2>4. CASE AllAtSize \/ ReconcileBootstrappingStatus \/ CleanupAnnotations
    BY ZenonT(60), <2>4, FinishKeeps, ReconcileKeeps, CleanupKeeps
  <2> QED
    BY ZenonT(60), <1>1, <2>1, <2>2, <2>3, <2>4 DEF Pass
<1>2. CASE Environment
  <2>1. CASE SyncCluster \/ SyncSets \/ SyncPods \/ PassAborts
    BY ZenonT(60), <2>1, SyncKeeps
  <2>2. CASE \/ StatefulSetController
             \/ \E g \in Groups, o \in Ordinals : FailPod(g, o)
             \/ \E g \in Groups : ApplyStatefulSetUpdate(g)
    BY ZenonT(60), <2>2, PodKeeps, SetKeeps DEF StatefulSetController
  <2>3. CASE Database
    BY ZenonT(60), <2>3, DatabaseKeeps DEF Database
  <2>4. CASE \E g \in Groups, n \in Counts, prevent \in BOOLEAN : ChangeSpec(g, n, prevent)
    BY ZenonT(60), <2>4, EditKeeps
  <2> QED
    BY ZenonT(60), <1>2, <2>1, <2>2, <2>3, <2>4 DEF Environment
<1>3. CASE UNCHANGED vars
  <2>1. UNCHANGED <<cluster, sets, pods, placementExists, placement, cache, pass>>
    BY <1>3 DEF vars
  <2>2. CopiesTaken /\ \A g \in Groups : StayingOrdinals(g)' = StayingOrdinals(g)
    BY <2>1, SamePlacement DEF CopiesTaken
  <2> QED
    BY ZenonT(60), <2>1, <2>2, OtherCalm
<1> QED
  BY ZenonT(60), <1>1, <1>2, <1>3 DEF Next

(***************************************************************************)
(* With a patient user: what the caches and a pass hold is never so far    *)
(* behind that a resize goes the wrong way.                                *)
(***************************************************************************)
THEOREM PatientResizes ==
  ASSUME PatientUser
  PROVE  Spec => []ResizeInv
<1>1. Init => ResizeInv
  BY InitResize
<1>2. TypeOK /\ SeenIsCurrent /\ ResizeInv /\ [Next]_vars => ResizeInv'
  BY StepKeeps
<1> QED
  BY <1>1, <1>2, TypeCorrect, ViewCorrect, PTL DEF Spec

(***************************************************************************)
(* With a patient user, no pod that is in the placement is ever one that   *)
(* its StatefulSet does not keep, whatever fails and however late caches   *)
(* are (handleClusterUpdate, expandPlacementForSet, patchStatefulSet).     *)
(***************************************************************************)
THEOREM PlacedPodsAreKept ==
  ASSUME PatientUser
  PROVE  Spec => []PlacedPodsKept
<1>1. ResizeInv => PlacedPodsKept
  BY ZenonT(60) DEF ResizeInv
<1> QED
  BY <1>1, PatientResizes, PTL

(***************************************************************************)
(* With a patient user, every isolation group keeps an instance in the     *)
(* placement (shrinkPlacementForSet, findPodsAndInstancesToRemove).        *)
(***************************************************************************)
THEOREM GroupsAreKept ==
  ASSUME PatientUser
  PROVE  Spec => []GroupsKeepAnInstance
<1>1. ResizeInv => GroupsKeepAnInstance
  BY DEF ResizeInv
<1> QED
  BY <1>1, PatientResizes, PTL

-----------------------------------------------------------------------------
(***************************************************************************)
(* The implementation of ResizeService.                                    *)
(***************************************************************************)

(***************************************************************************)
(* Steps other than patches and calls to the coordinator resize nothing.   *)
(***************************************************************************)
LEMMA OtherResize ==
  ASSUME TypeOK, [Next]_vars,
         ~\E h \in Groups : ShrinkPlacementForSet(h) \/ PatchStatefulSet(h),
         ~AddPodsToPlacement, ~ReplacePodInPlacement, NEW g \in Groups
  PROVE  /\ sets'[g].replicas = sets[g].replicas
         /\ placementExists \/ ~InitPlacement => StayingOrdinals(g)' = StayingOrdinals(g)
<1>1. CASE UNCHANGED sets /\ UNCHANGED placement
  BY ZenonT(60), <1>1, SamePlacement
<1>2. CASE \/ StartPass \/ SetStatusPlacementCreated \/ FetchPlacement \/ ReplacePodStatus
           \/ \E h \in Groups : ExpandPlacementForSet(h)
           \/ AllAtSize \/ ReconcileBootstrappingStatus
  <2>1. UNCHANGED sets /\ UNCHANGED placement
    BY ZenonT(60), <1>2
    DEF StartPass, SetStatusPlacementCreated, FetchPlacement, ReplacePodStatus,
        ExpandPlacementForSet, AllAtSize, ReconcileBootstrappingStatus, kube, coordinator
  <2> QED
    BY ZenonT(60), <1>1, <2>1
<1>3. CASE InitPlacement
  <2>1. UNCHANGED sets /\ (placementExists => UNCHANGED placement)
    BY <1>3 DEF InitPlacement, kube, coordinator
  <2> QED
    BY ZenonT(60), <1>3, <2>1, SamePlacement
<1>4. CASE CleanupAnnotations
  <2>1. PICK h \in Groups : sets' = [sets EXCEPT ![h].inProgress = FALSE]
    BY ZenonT(60), <1>4, CleanupParts
  <2>2. UNCHANGED placement
    BY ZenonT(60), <1>4, CleanupParts
  <2>3. \A s \in Sets : [s EXCEPT ![h].inProgress = FALSE][g].replicas = s[g].replicas
    BY SMTT(60), SameReplicas
  <2> QED
    BY ZenonT(60), <2>1, <2>2, <2>3, SamePlacement DEF TypeOK
<1>5. CASE \/ SyncCluster \/ SyncSets \/ SyncPods \/ PassAborts
           \/ \E h \in Groups, o \in Ordinals : CreatePod(h, o) \/ DeletePod(h, o) \/ FailPod(h, o)
           \/ \E h \in Groups, n \in Counts, prevent \in BOOLEAN : ChangeSpec(h, n, prevent)
           \/ UNCHANGED vars
  <2>1. UNCHANGED sets /\ UNCHANGED placement
    BY ZenonT(60), <1>5
    DEF SyncCluster, SyncSets, SyncPods, PassAborts, CreatePod, DeletePod, FailPod, ChangeSpec,
        kube, coordinator, vars
  <2> QED
    BY <1>1, <2>1
<1>6. ASSUME NEW h \in Groups, UpdateSetStatus(h) \/ ApplyStatefulSetUpdate(h)
      PROVE  /\ sets'[g].replicas = sets[g].replicas
             /\ StayingOrdinals(g)' = StayingOrdinals(g)
  <2>1. UNCHANGED placement
    BY ZenonT(60), <1>6 DEF UpdateSetStatus, ApplyStatefulSetUpdate, coordinator
  <2>2. CASE UpdateSetStatus(h)
    BY ZenonT(60), <2>1, <2>2, SamePlacement DEF UpdateSetStatus, TypeOK, Sets
  <2>3. CASE ApplyStatefulSetUpdate(h)
    BY ZenonT(60), <2>1, <2>3, SamePlacement DEF ApplyStatefulSetUpdate, TypeOK, Sets
  <2> QED
    BY ZenonT(60), <1>6, <2>2, <2>3
<1>7. ASSUME NEW i \in Ids, BecomeAvailable(i) \/ Leave(i)
      PROVE  /\ sets'[g].replicas = sets[g].replicas
             /\ StayingOrdinals(g)' = StayingOrdinals(g)
  <2>1. UNCHANGED sets /\ Staying(g)' = Staying(g)
    BY ZenonT(60), <1>7, DatabaseStaying DEF BecomeAvailable, Leave, kube
  <2> QED
    BY ZenonT(60), <2>1 DEF StayingOrdinals
<1>8. Pass => \/ StartPass \/ SetStatusPlacementCreated \/ FetchPlacement \/ ReplacePodStatus
              \/ \E h \in Groups : ExpandPlacementForSet(h)
              \/ AllAtSize \/ ReconcileBootstrappingStatus \/ InitPlacement \/ CleanupAnnotations
  BY ZenonT(60) DEF Pass
<1>9. Environment =>
        \/ SyncCluster \/ SyncSets \/ SyncPods \/ PassAborts
        \/ \E h \in Groups, o \in Ordinals : CreatePod(h, o) \/ DeletePod(h, o) \/ FailPod(h, o)
        \/ \E h \in Groups, n \in Counts, prevent \in BOOLEAN : ChangeSpec(h, n, prevent)
        \/ \E h \in Groups : UpdateSetStatus(h) \/ ApplyStatefulSetUpdate(h)
        \/ \E i \in Ids : BecomeAvailable(i) \/ Leave(i)
  BY ZenonT(60) DEF Environment, StatefulSetController, Database
<1> QED
  BY ZenonT(60), <1>2, <1>3, <1>4, <1>5, <1>6, <1>7, <1>8, <1>9 DEF Next

(***************************************************************************)
(* Only the user changes what is asked for.                                *)
(***************************************************************************)
LEMMA OnlyEdits ==
  ASSUME TypeOK, [Next]_vars,
         ~\E g \in Groups, n \in Counts, prevent \in BOOLEAN : ChangeSpec(g, n, prevent)
  PROVE  cluster'.desired = cluster.desired
<1>1. CASE UNCHANGED cluster
  BY <1>1
<1>2. CASE SetStatusPlacementCreated
  <2>1. PICK copy : UpdateStatus(copy) \/ NoWrite
    BY ZenonT(60), <1>2 DEF SetStatusPlacementCreated
  <2> QED
    BY <2>1, StatusWrites DEF OnlyConditions
<1>3. CASE ReplacePodStatus
  <2>1. SetStatusPodsBootstrapping("replaceCall", {})
    BY ZenonT(60), <1>3 DEF ReplacePodStatus
  <2> QED
    BY ZenonT(60), <2>1, BootstrappingParts DEF OnlyConditions
<1>4. ASSUME NEW g \in Groups, ExpandPlacementForSet(g)
      PROVE  cluster'.desired = cluster.desired
  BY ZenonT(60), <1>4, ExpandParts DEF OnlyConditions
<1>5. CASE ReconcileBootstrappingStatus
  BY ZenonT(60), <1>5, ReconcileParts DEF OnlyConditions
<1>6. Pass =>
        \/ SetStatusPlacementCreated \/ ReplacePodStatus \/ ReconcileBootstrappingStatus
        \/ \E g \in Groups : ExpandPlacementForSet(g)
        \/ UNCHANGED cluster
  BY ZenonT(60)
  DEF Pass, StartPass, InitPlacement, FetchPlacement, ReplacePodInPlacement, AddPodsToPlacement,
      ShrinkPlacementForSet, PatchStatefulSet, AllAtSize, CleanupAnnotations, kube
<1>7. Environment => UNCHANGED cluster
  BY ZenonT(60)
  DEF Environment, SyncCluster, SyncSets, SyncPods, PassAborts, StatefulSetController, CreatePod,
      DeletePod, UpdateSetStatus, FailPod, Database, BecomeAvailable, Leave,
      ApplyStatefulSetUpdate, kube
<1> QED
  BY ZenonT(60), <1>1, <1>2, <1>3, <1>4, <1>5, <1>6, <1>7 DEF Next, vars

(***************************************************************************)
(* The pods that are placed are those whose instances stay.                *)
(***************************************************************************)
LEMMA PlacedAreStaying == TypeOK => \A g \in Groups : PlacedPods(g) = StayingOrdinals(g)
<1> SUFFICES ASSUME TypeOK, NEW g \in Groups PROVE PlacedPods(g) = StayingOrdinals(g)
  OBVIOUS
<1>1. ASSUME NEW o \in PlacedPods(g) PROVE o \in StayingOrdinals(g)
  <2>1. PICK u \in Uids : o \in Ordinals /\ placement[<<g, o, u>>] \in {"Initializing", "Available"}
    BY <1>1 DEF PlacedPods
  <2>2. <<g, o, u>> \in Ids /\ GroupOf(<<g, o, u>>) = g /\ OrdinalOf(<<g, o, u>>) = o
    BY <2>1 DEF Ids, GroupOf, OrdinalOf
  <2>3. <<g, o, u>> \in Staying(g)
    BY ZenonT(60), <2>1, <2>2, WhoStays
  <2> QED
    BY ZenonT(60), <2>2, <2>3 DEF StayingOrdinals
<1>2. ASSUME NEW id \in Staying(g) PROVE OrdinalOf(id) \in PlacedPods(g)
  <2>1. /\ id \in Ids /\ GroupOf(id) = g
        /\ placement[id] # "Absent" /\ placement[id] # "Leaving"
    BY ZenonT(60), <1>2, WhoStays
  <2>2. placement[id] \in {"Absent", "Initializing", "Available", "Leaving"}
    BY <2>1 DEF TypeOK, Placements
  <2>3. OrdinalOf(id) \in Ordinals /\ UidOf(id) \in Uids /\ id = <<g, OrdinalOf(id), UidOf(id)>>
    BY <2>1 DEF Ids, GroupOf, OrdinalOf, UidOf
  <2> QED
    BY ZenonT(60), <2>1, <2>2, <2>3 DEF PlacedPods
<1> QED
  BY ZenonT(60), <1>1, <1>2 DEF StayingOrdinals

(***************************************************************************)
(* And so after a step.                                                    *)
(***************************************************************************)
LEMMA PlacedAreStayingNext ==
  TypeOK' => \A g \in Groups : PlacedPods(g)' = StayingOrdinals(g)'
<1>1. (TypeOK => \A g \in Groups : PlacedPods(g) = StayingOrdinals(g))'
  BY PlacedAreStaying, PTL
<1> QED
  BY ZenonT(60), <1>1


(***************************************************************************)
(* What a step does, in the terms of ResizeService.                        *)
(***************************************************************************)
Replicas == [g \in Groups |-> sets[g].replicas]
Placed == [g \in Groups |-> PlacedPods(g)]

SameSizes == \A g \in Groups : sets'[g].replicas = sets[g].replicas
SamePlaced == \A g \in Groups : StayingOrdinals(g)' = StayingOrdinals(g)

(***************************************************************************)
(* The parts of its state that stay.                                       *)
(***************************************************************************)
LEMMA SameState ==
  ASSUME TypeOK, TypeOK'
  PROVE  /\ SameSizes => Replicas' = Replicas
         /\ SamePlaced => Placed' = Placed
<1>1. SameSizes => Replicas' = Replicas
  BY DEF SameSizes, Replicas
<1>2. ASSUME SamePlaced PROVE Placed' = Placed
  <2>1. \A g \in Groups : PlacedPods(g)' = PlacedPods(g)
    BY ZenonT(60), <1>2, PlacedAreStaying, PlacedAreStayingNext DEF SamePlaced
  <2> QED
    BY <2>1 DEF Placed
<1> QED
  BY <1>1, <1>2

(***************************************************************************)
(* A step that resizes nothing.                                            *)
(***************************************************************************)
LEMMA NothingResized ==
  ASSUME TypeOK, TypeOK', cluster'.desired = cluster.desired, SameSizes, SamePlaced
  PROVE  UNCHANGED Sizing!vars
  BY SameState DEF Sizing!vars, Replicas, Placed

(***************************************************************************)
(* The size of one StatefulSet moves by one.                               *)
(***************************************************************************)
LEMMA OneResized ==
  ASSUME TypeOK, TypeOK', cluster'.desired = cluster.desired, SamePlaced,
         NEW g \in Groups, \A h \in Groups \ {g} : sets'[h].replicas = sets[h].replicas,
         \/ /\ sets[g].replicas < cluster.desired[g]
            /\ sets'[g].replicas = sets[g].replicas + 1
         \/ /\ sets[g].replicas > cluster.desired[g]
            /\ sets'[g].replicas = sets[g].replicas - 1
            /\ StayingOrdinals(g) \subseteq Below(sets[g].replicas - 1)
  PROVE  Sizing!Next
<1>1. Placed' = Placed
  BY SameState
<1>2. ASSUME sets[g].replicas < cluster.desired[g], sets'[g].replicas = sets[g].replicas + 1
      PROVE  Sizing!Next
  <2>1. Replicas' = [Replicas EXCEPT ![g] = @ + 1]
    BY ZenonT(60), <1>2 DEF Replicas
  <2>2. Replicas[g] < cluster.desired[g]
    BY <1>2 DEF Replicas
  <2>3. Sizing!Grow(g)
    BY ZenonT(60), <1>1, <2>1, <2>2 DEF Sizing!Grow, Replicas, Placed
  <2> QED
    BY ZenonT(60), <2>3 DEF Sizing!Next
<1>3. ASSUME sets[g].replicas > cluster.desired[g], sets'[g].replicas = sets[g].replicas - 1,
             StayingOrdinals(g) \subseteq Below(sets[g].replicas - 1)
      PROVE  Sizing!Next
  <2>1. Replicas' = [Replicas EXCEPT ![g] = @ - 1]
    BY ZenonT(60), <1>3 DEF Replicas
  <2>2. Replicas[g] > cluster.desired[g]
    BY <1>3 DEF Replicas
  <2>3. Placed[g] \subseteq Sizing!FirstPods(Replicas[g] - 1)
    <3>1. Replicas[g] = sets[g].replicas /\ Placed[g] = StayingOrdinals(g)
      BY PlacedAreStaying DEF Replicas, Placed
    <3> QED
      BY ZenonT(60), <1>3, <3>1 DEF Sizing!FirstPods, Below, Ordinals
  <2>4. Sizing!Shrink(g)
    BY ZenonT(60), <1>1, <2>1, <2>2, <2>3 DEF Sizing!Shrink, Replicas, Placed
  <2> QED
    BY ZenonT(60), <2>4 DEF Sizing!Next
<1> QED
  BY ZenonT(60), <1>2, <1>3

(***************************************************************************)
(* The user asks for another size.                                         *)
(***************************************************************************)
LEMMA OneAsked ==
  ASSUME TypeOK, TypeOK', SameSizes, SamePlaced,
         \A g \in Groups : /\ sets[g].replicas = cluster.desired[g]
                           /\ StayingOrdinals(g) = Below(cluster.desired[g]),
         NEW g \in Groups, NEW n \in Counts, n # cluster.desired[g],
         cluster'.desired = [cluster.desired EXCEPT ![g] = n]
  PROVE  Sizing!Next
<1>1. Replicas' = Replicas /\ Placed' = Placed
  BY SameState
<1>2. ASSUME NEW h \in Groups PROVE Sizing!Settled(h)
  <2>1. Replicas[h] = cluster.desired[h] /\ Placed[h] = StayingOrdinals(h)
    BY PlacedAreStaying DEF Replicas, Placed
  <2> QED
    BY ZenonT(60), <2>1 DEF Sizing!Settled, Sizing!FirstPods, Below, Ordinals, Replicas, Placed
<1>3. n \in Sizing!Sizes \ {cluster.desired[g]}
  BY DEF Sizing!Sizes, Counts
<1>4. Sizing!Ask(g)
  BY ZenonT(60), <1>1, <1>2, <1>3 DEF Sizing!Ask, Replicas, Placed
<1> QED
  BY ZenonT(60), <1>4 DEF Sizing!Next


(***************************************************************************)
(* The first pods are placed.                                              *)
(***************************************************************************)
LEMMA FirstPlaced ==
  ASSUME TypeOK, TypeOK', cluster'.desired = cluster.desired, SameSizes,
         \A g \in Groups : /\ StayingOrdinals(g) = {} /\ StayingOrdinals(g)' # {}
                           /\ StayingOrdinals(g)' \subseteq Below(sets[g].replicas)
  PROVE  Sizing!Next
<1>1. Replicas' = Replicas
  BY SameState
<1>2. \A g \in Groups : /\ Placed[g] = StayingOrdinals(g) /\ Placed'[g] = StayingOrdinals(g)'
                        /\ Replicas[g] = sets[g].replicas
  BY ZenonT(60), PlacedAreStaying, PlacedAreStayingNext DEF Placed, Replicas
<1>3. Placed' \in [Groups -> SUBSET Sizing!FirstPods(MaxInstances)]
  <2>1. \A g \in Groups : PlacedPods(g)' \in SUBSET Sizing!FirstPods(MaxInstances)
    <3>1. \A o \in Ordinals : o < MaxInstances
      BY ConstantsAssumption DEF Ordinals
    <3> QED
      BY ZenonT(60), <3>1 DEF PlacedPods, Sizing!FirstPods, Ordinals
  <2> QED
    BY <2>1 DEF Placed
<1>4. \A g \in Groups : Placed[g] = {} /\ Placed'[g] # {}
  BY ZenonT(60), <1>2
<1>5. \A g \in Groups : Placed'[g] \subseteq Sizing!FirstPods(Replicas[g])
  BY ZenonT(60), <1>2 DEF Sizing!FirstPods, Below, Ordinals
<1>6. Sizing!Place
  BY ZenonT(60), <1>1, <1>3, <1>4, <1>5 DEF Sizing!Place, Replicas, Placed
<1> QED
  BY ZenonT(60), <1>6 DEF Sizing!Next

(***************************************************************************)
(* Pods of a group are added, or removed.                                  *)
(***************************************************************************)
LEMMA OnePlaced ==
  ASSUME TypeOK, TypeOK', cluster'.desired = cluster.desired, SameSizes,
         NEW g \in Groups, \A h \in Groups \ {g} : StayingOrdinals(h)' = StayingOrdinals(h),
         \/ /\ sets[g].replicas = cluster.desired[g] /\ StayingOrdinals(g) # {}
            /\ StayingOrdinals(g) \subseteq StayingOrdinals(g)'
            /\ StayingOrdinals(g)' \subseteq StayingOrdinals(g) \cup Below(sets[g].replicas)
         \/ /\ 0 < cluster.desired[g] /\ Full(g, cluster.desired[g])
            /\ StayingOrdinals(g)' \subseteq StayingOrdinals(g)
            /\ Below(cluster.desired[g]) \subseteq StayingOrdinals(g)'
  PROVE  Sizing!Next \/ UNCHANGED Sizing!vars
<1>1. CASE StayingOrdinals(g)' = StayingOrdinals(g)
  BY ZenonT(60), <1>1, NothingResized DEF SamePlaced
<1> SUFFICES ASSUME StayingOrdinals(g)' # StayingOrdinals(g) PROVE Sizing!Next
  BY ZenonT(60), <1>1
<1>2. Replicas' = Replicas /\ Replicas[g] = sets[g].replicas
  BY ZenonT(60), SameState DEF Replicas
<1>3. Placed[g] = StayingOrdinals(g) /\ PlacedPods(g)' = StayingOrdinals(g)'
  BY ZenonT(60), PlacedAreStaying, PlacedAreStayingNext DEF Placed
<1>4. \A h \in Groups \ {g} : PlacedPods(h)' = PlacedPods(h)
  BY ZenonT(60), PlacedAreStaying, PlacedAreStayingNext
<1>5. Placed' = [Placed EXCEPT ![g] = PlacedPods(g)']
  BY ZenonT(60), <1>4 DEF Placed
<1>6. \A n : Sizing!FirstPods(n) = Below(n)
  BY DEF Sizing!FirstPods, Below, Ordinals
<1>7. ASSUME sets[g].replicas = cluster.desired[g], StayingOrdinals(g) # {},
             StayingOrdinals(g) \subseteq StayingOrdinals(g)',
             StayingOrdinals(g)' \subseteq StayingOrdinals(g) \cup Below(sets[g].replicas)
      PROVE  Sizing!Next
  <2>1. PICK S : S = StayingOrdinals(g)' \ StayingOrdinals(g)
    BY ZenonT(60)
  <2>2. S # {} /\ StayingOrdinals(g)' = StayingOrdinals(g) \cup S /\ S \subseteq Below(sets[g].replicas) \ StayingOrdinals(g)
    BY <1>7, <2>1
  <2>3. S \in SUBSET (Sizing!FirstPods(Replicas[g]) \ Placed[g])
    BY ZenonT(60), <1>2, <1>3, <1>6, <2>2
  <2>4. PlacedPods(g)' = Placed[g] \cup S
    BY ZenonT(60), <1>3, <2>2
  <2>5. Placed' = [Placed EXCEPT ![g] = @ \cup S]
    BY ZenonT(60), <1>5, <2>4
  <2>6. Replicas[g] = cluster.desired[g] /\ Placed[g] # {}
    BY ZenonT(60), <1>2, <1>3, <1>7
  <2>7. Sizing!AddPods(g)
    BY ZenonT(60), <1>2, <2>2, <2>3, <2>5, <2>6 DEF Sizing!AddPods, Replicas, Placed
  <2> QED
    BY ZenonT(60), <2>7 DEF Sizing!Next
<1>8. ASSUME 0 < cluster.desired[g], Full(g, cluster.desired[g]),
             StayingOrdinals(g)' \subseteq StayingOrdinals(g),
             Below(cluster.desired[g]) \subseteq StayingOrdinals(g)'
      PROVE  Sizing!Next
  <2>1. PICK S : S = StayingOrdinals(g) \ StayingOrdinals(g)'
    BY ZenonT(60)
  <2>2. S # {} /\ StayingOrdinals(g)' = StayingOrdinals(g) \ S /\ S \subseteq StayingOrdinals(g) \ Below(cluster.desired[g])
    BY <1>8, <2>1
  <2>3. S \in SUBSET (Placed[g] \ Sizing!FirstPods(cluster.desired[g]))
    BY ZenonT(60), <1>3, <1>6, <2>2
  <2>4. PlacedPods(g)' = Placed[g] \ S
    BY ZenonT(60), <1>3, <2>2
  <2>5. Placed' = [Placed EXCEPT ![g] = @ \ S]
    BY <1>5, <2>4
  <2>6. Sizing!FirstPods(cluster.desired[g]) \subseteq Placed[g]
    BY ZenonT(60), <1>3, <1>6, <1>8 DEF Full
  <2>7. Sizing!RemovePods(g)
    BY ZenonT(60), <1>2, <1>8, <2>2, <2>3, <2>5, <2>6 DEF Sizing!RemovePods, Replicas, Placed
  <2> QED
    BY ZenonT(60), <2>7 DEF Sizing!Next
<1> QED
  BY ZenonT(60), <1>7, <1>8


(***************************************************************************)
(* The pods that a pass is about to add are of a group whose set has the   *)
(* size asked for, as the pass has seen it.                                *)
(***************************************************************************)
TargetInv ==
  At("add") => \E g \in Groups : /\ \A id \in pass.adding : GroupOf(id) = g
                                 /\ pass.cluster.desired[g] = pass.sets[g].replicas

(***************************************************************************)
(* Only the step before the call decides what is added.                    *)
(***************************************************************************)
LEMMA WhoAdds ==
  ASSUME TypeOK, [Next]_vars, At("add")'
  PROVE  \/ \E g \in Groups : ExpandPlacementForSet(g)
         \/ /\ At("add") /\ pass'.adding = pass.adding /\ pass'.sets = pass.sets
            /\ pass'.cluster = pass.cluster
<1>1. ASSUME \/ StartPass \/ InitPlacement \/ SetStatusPlacementCreated \/ AllAtSize
             \/ ReplacePodInPlacement \/ AddPodsToPlacement \/ PassAborts
             \/ \E g \in Groups : ShrinkPlacementForSet(g) \/ PatchStatefulSet(g)
      PROVE  FALSE
  <2>1. \/ pass'.pc \in {"fetch", "init", "created", "finish", "resize"}
        \/ pass' = NoPass
    <3>1. CASE StartPass
      BY <3>1 DEF StartPass, NoPass
    <3>2. CASE InitPlacement
      BY ZenonT(60), <3>2 DEF InitPlacement, Goto, Return, TypeOK, Passes
    <3>3. CASE SetStatusPlacementCreated
      BY ZenonT(60), <3>3 DEF SetStatusPlacementCreated, Return, TypeOK, Passes
    <3>4. CASE AllAtSize
      BY ZenonT(60), <3>4 DEF AllAtSize, Goto, TypeOK, Passes
    <3>5. CASE ReplacePodInPlacement
      BY <3>5 DEF ReplacePodInPlacement, Goto, Return, TypeOK, Passes
    <3>6. CASE \/ AddPodsToPlacement \/ PassAborts
               \/ \E g \in Groups : ShrinkPlacementForSet(g) \/ PatchStatefulSet(g)
      BY ZenonT(60), <3>6
      DEF AddPodsToPlacement, PassAborts, ShrinkPlacementForSet, PatchStatefulSet, Return
    <3> QED
      BY ZenonT(60), <1>1, <3>1, <3>2, <3>3, <3>4, <3>5, <3>6
  <2> QED
    BY <2>1 DEF At, NoPass
<1>2. ASSUME FetchPlacement \/ ReplacePodStatus \/ ReconcileBootstrappingStatus \/ CleanupAnnotations
      PROVE  FALSE
  <2>1. ReplacePodStatus => SetStatusPodsBootstrapping("replaceCall", {})
    BY DEF ReplacePodStatus
  <2>2. pass'.pc \in {"idle", "resize", "replace", "replaceCall", "cleanup"}
    BY ZenonT(60), <1>2, <2>1, FetchParts, BootstrappingParts, ReconcileParts, CleanupParts
  <2> QED
    BY <2>2 DEF At
<1>3. Pass => \E g \in Groups : ExpandPlacementForSet(g)
  BY ZenonT(60), <1>1, <1>2 DEF Pass
<1>4. ASSUME Environment \/ UNCHANGED vars
      PROVE  UNCHANGED pass \/ pass' = [pass EXCEPT !.fresh = FALSE]
  BY ZenonT(60), <1>1, <1>4
  DEF Environment, SyncCluster, SyncSets, SyncPods, StatefulSetController, CreatePod, DeletePod,
      UpdateSetStatus, FailPod, Database, BecomeAvailable, Leave, ChangeSpec,
      ApplyStatefulSetUpdate, vars
<1>5. pass \in Passes
  BY DEF TypeOK
<1>6. Environment \/ UNCHANGED vars =>
        /\ At("add") /\ pass'.adding = pass.adding /\ pass'.sets = pass.sets
        /\ pass'.cluster = pass.cluster
  BY <1>4, <1>5 DEF At, Passes
<1> QED
  BY ZenonT(60), <1>3, <1>6 DEF Next

(***************************************************************************)
(* It stays so until the call.                                             *)
(***************************************************************************)
LEMMA StepTarget ==
  ASSUME TypeOK, TargetInv, [Next]_vars
  PROVE  TargetInv'
<1> SUFFICES ASSUME At("add")'
             PROVE  \E g \in Groups : /\ \A id \in pass'.adding : GroupOf(id) = g
                                      /\ pass'.cluster.desired[g] = pass'.sets[g].replicas
  BY ZenonT(60) DEF TargetInv
<1>1. ASSUME NEW g \in Groups, ExpandPlacementForSet(g)
      PROVE  /\ \A id \in pass'.adding : GroupOf(id) = g
             /\ pass'.cluster.desired[g] = pass'.sets[g].replicas
  <2>1. /\ ToExpand(g) /\ pass'.adding = PodsToAdd(g) /\ pass'.sets = pass.sets
        /\ pass'.cluster.desired = pass.cluster.desired
    BY ZenonT(60), <1>1, ExpandParts DEF At
  <2>2. \A id \in PodsToAdd(g) : GroupOf(id) = g
    BY ListedIdentity DEF PodsToAdd
  <2> QED
    BY ZenonT(60), <2>1, <2>2 DEF ToExpand, Desired, Current
<1>2. CASE /\ At("add") /\ pass'.adding = pass.adding /\ pass'.sets = pass.sets
           /\ pass'.cluster = pass.cluster
  BY ZenonT(60), <1>2 DEF TargetInv
<1> QED
  BY ZenonT(60), <1>1, <1>2, WhoAdds


(***************************************************************************)
(* KeptOrdinals, after a step.                                             *)
(***************************************************************************)
LEMMA KeptOrdinalsNext ==
  PlacedPodsKept' => \A g \in Groups : StayingOrdinals(g)' \subseteq Below(sets'[g].replicas)
<1>1. (PlacedPodsKept <=> \A g \in Groups : StayingOrdinals(g) \subseteq Below(sets[g].replicas))'
  BY KeptOrdinals, PTL
<1> QED
  BY ZenonT(60), <1>1 DEF Below

(***************************************************************************)
(* A patch moves a set by one, from the size it really has and towards the *)
(* one asked for, or repeats a patch that was made.                        *)
(***************************************************************************)
LEMMA PatchImplements ==
  ASSUME TypeOK, TypeOK', ResizeInv, ResizeInv', NEW g \in Groups, PatchStatefulSet(g)
  PROVE  Sizing!Next \/ UNCHANGED Sizing!vars
<1>1. /\ pass.pc = "resize" /\ ToPatch(g)
      /\ UNCHANGED <<cluster, placement>>
      /\ \A h \in Groups \ {g} : sets'[h] = sets[h]
      /\ sets'[g].replicas \in {sets[g].replicas, Toward(Current(g), Desired(g))}
  BY ZenonT(60), PatchParts
<1>2. SamePlaced
  BY ZenonT(60), <1>1, SamePlacement DEF SamePlaced
<1>3. CASE sets'[g].replicas = sets[g].replicas
  <2>1. SameSizes
    BY ZenonT(60), <1>1, <1>3 DEF SameSizes
  <2> QED
    BY ZenonT(60), <1>1, <1>2, <2>1, NothingResized
<1>4. CASE sets'[g].replicas # sets[g].replicas
  <2>1. Fetched /\ ~At("idle")
    BY ZenonT(60), <1>1 DEF Fetched, At
  <2>2. ~AtRest(pass.cluster.desired)
    BY ZenonT(60), <1>1, <2>1 DEF AtRest, ToPatch, Current, Desired
  <2>3. pass.cluster.desired = cluster.desired
    BY <2>1, <2>2 DEF ResizeInv, SeenInv
  <2>4. PICK n \in Nat, rp \in Nat, r \in Nat :
          n = cluster.desired[g] /\ rp = pass.sets[g].replicas /\ r = sets[g].replicas
    BY ZenonT(60), SizeTypes, CountsAreNumbers
  <2>5. PICK x : x = sets'[g].replicas
    OBVIOUS
  <2>6. n # rp /\ r \in {rp, Toward(rp, n)} /\ x = Toward(rp, n) /\ x # r
    BY ZenonT(60), <1>1, <1>4, <2>1, <2>3, <2>4, <2>5 DEF ToPatch, Desired, Current, ResizeInv, SizeInv
  <2>7. (r < n /\ x = r + 1) \/ (r > n /\ x = r - 1)
    BY <2>6 DEF Toward
  <2>8. StayingOrdinals(g) \subseteq Below(x)
    BY ZenonT(60), <1>2, <2>5, KeptOrdinalsNext DEF ResizeInv, SamePlaced
  <2>9. \A h \in Groups \ {g} : sets'[h].replicas = sets[h].replicas
    BY ZenonT(60), <1>1
  <2>10. Sizing!Next
    <3>1. \/ sets[g].replicas < cluster.desired[g] /\ sets'[g].replicas = sets[g].replicas + 1
          \/ /\ sets[g].replicas > cluster.desired[g] /\ sets'[g].replicas = sets[g].replicas - 1
             /\ StayingOrdinals(g) \subseteq Below(sets[g].replicas - 1)
      BY ZenonT(60), <2>4, <2>5, <2>7, <2>8
    <3> QED
      BY ZenonT(60), <1>1, <1>2, <2>9, <3>1, OneResized
  <2> QED
    BY ZenonT(60), <2>10
<1> QED
  BY ZenonT(60), <1>3, <1>4

(***************************************************************************)
(* A removal takes pods beyond the size asked for from a full group.       *)
(***************************************************************************)
LEMMA ShrinkImplements ==
  ASSUME TypeOK, TypeOK', ResizeInv, NEW g \in Groups, ShrinkPlacementForSet(g)
  PROVE  Sizing!Next \/ UNCHANGED Sizing!vars
<1>1. pass.pc = "resize" /\ UNCHANGED <<cluster, sets>>
  BY ShrinkParts
<1>2. SameSizes
  BY <1>1 DEF SameSizes
<1>3. PICK S : Removable(g, S) /\ \A h : Staying(h)' = Staying(h) \ S
  BY ShrinkParts
<1>4. CASE S = {}
  <2>1. SamePlaced
    BY ZenonT(60), <1>3, <1>4 DEF SamePlaced, StayingOrdinals
  <2> QED
    BY ZenonT(60), <1>1, <1>2, <2>1, NothingResized
<1>5. CASE S # {}
  <2>1. pass.cluster.desired = cluster.desired /\ Full(g, cluster.desired[g])
    BY ZenonT(60), <1>1, <1>3, <1>5, RemovedFromFull
  <2>2. Desired(g) = cluster.desired[g] /\ Desired(g) > 0 /\ Desired(g) \in Nat
    BY ZenonT(60), <1>3, <1>5, <2>1, SizeTypes, CountsAreNumbers DEF Removable, Desired
  <2>3. Below(cluster.desired[g]) \subseteq StayingOrdinals(g)'
    BY ZenonT(60), <1>3, <2>1, <2>2, FullAfterRemoval
  <2>4. StayingOrdinals(g)' \subseteq StayingOrdinals(g)
    BY <1>3 DEF StayingOrdinals
  <2>5. ASSUME NEW h \in Groups \ {g} PROVE StayingOrdinals(h)' = StayingOrdinals(h)
    <3>1. \A id \in Staying(h) : id \notin S
      BY ZenonT(60), <1>3, <2>5, WhoStays DEF Removable
    <3>2. Staying(h)' = Staying(h)
      BY ZenonT(60), <1>3, <3>1
    <3> QED
      BY <3>2 DEF StayingOrdinals
  <2>6. 0 < cluster.desired[g]
    BY <2>2
  <2> QED
    BY ZenonT(60), <1>1, <1>2, <2>1, <2>3, <2>4, <2>5, <2>6, OnePlaced
<1> QED
  BY ZenonT(60), <1>4, <1>5

(***************************************************************************)
(* An addition is of pods that the set keeps, when it has the size asked   *)
(* for; a pass that is behind adds no pod that is not there.               *)
(***************************************************************************)
LEMMA AddImplements ==
  ASSUME TypeOK, TypeOK', ResizeInv, TargetInv, AddPodsToPlacement
  PROVE  Sizing!Next \/ UNCHANGED Sizing!vars
<1>1. pass.pc = "add" /\ UNCHANGED <<cluster, sets>> /\ pass.adding \subseteq Ids
  BY AddParts
<1>2. SameSizes
  BY <1>1 DEF SameSizes
<1>3. CASE UNCHANGED placement
  BY ZenonT(60), <1>1, <1>2, <1>3, SamePlacement, NothingResized DEF SamePlaced
<1>4. CASE \A h : Staying(h)' = Staying(h) \cup {id \in pass.adding : GroupOf(id) = h}
  <2>1. At("add") /\ Fetched /\ ~At("idle") /\ Started
    BY <1>1 DEF At, Fetched, Started
  <2>2. PICK g \in Groups : /\ \A id \in pass.adding : GroupOf(id) = g
                            /\ pass.cluster.desired[g] = pass.sets[g].replicas
    BY <2>1 DEF TargetInv
  <2>3. ASSUME NEW h \in Groups \ {g} PROVE StayingOrdinals(h)' = StayingOrdinals(h)
    <3>1. Staying(h)' = Staying(h)
      BY ZenonT(60), <1>4, <2>2, <2>3
    <3> QED
      BY <3>1 DEF StayingOrdinals
  <2>4. \A id \in pass.adding : OrdinalOf(id) \in Below(sets[g].replicas)
    BY ZenonT(60), <1>1, <2>1, <2>2, IdParts DEF ResizeInv, AddInv, Below
  <2>5. StayingOrdinals(g) \subseteq StayingOrdinals(g)'
    BY <1>4 DEF StayingOrdinals
  <2>6. StayingOrdinals(g)' \subseteq StayingOrdinals(g) \cup Below(sets[g].replicas)
    BY ZenonT(60), <1>4, <2>4 DEF StayingOrdinals
  <2>7. CASE pass.cluster.desired = cluster.desired
    <3>1. PICK n \in Nat : n = cluster.desired[g]
      BY ZenonT(60), SizeTypes, CountsAreNumbers
    <3>2. sets[g].replicas \in {n, Toward(n, n)}
      BY ZenonT(60), <2>1, <2>2, <2>7, <3>1 DEF ResizeInv, SizeInv
    <3>3. sets[g].replicas = cluster.desired[g]
      BY <3>1, <3>2 DEF Toward
    <3>4. StayingOrdinals(g) # {}
      <4>1. Staying(g) # {}
        BY <2>1 DEF ResizeInv, NewInv, GroupsKeepAnInstance
      <4> QED
        BY <4>1 DEF StayingOrdinals
    <3> QED
      BY ZenonT(60), <1>1, <1>2, <2>3, <2>5, <2>6, <3>3, <3>4, OnePlaced
  <2>8. CASE AtRest(pass.cluster.desired)
    <3>1. Below(sets[g].replicas) \subseteq StayingOrdinals(g)
      BY ZenonT(60), <2>8 DEF AtRest, Full
    <3>2. StayingOrdinals(g)' = StayingOrdinals(g)
      BY ZenonT(60), <2>5, <2>6, <3>1
    <3>3. SamePlaced
      BY ZenonT(60), <2>3, <3>2 DEF SamePlaced
    <3> QED
      BY ZenonT(60), <1>1, <1>2, <3>3, NothingResized
  <2> QED
    BY ZenonT(60), <2>1, <2>7, <2>8 DEF ResizeInv, SeenInv
<1> QED
  BY ZenonT(60), <1>3, <1>4, AddParts


(***************************************************************************)
(* The first placement is of pods that the sets keep, in every group.      *)
(***************************************************************************)
LEMMA CreateImplements ==
  ASSUME TypeOK, TypeOK', ResizeInv, ResizeInv', InitPlacement
  PROVE  Sizing!Next \/ UNCHANGED Sizing!vars
<1>1. /\ UNCHANGED <<cluster, sets>>
      /\ UNCHANGED placement \/ (~placementExists /\ placementExists')
  BY DEF InitPlacement, kube, coordinator
<1>2. SameSizes
  BY ZenonT(60), <1>1 DEF SameSizes
<1>3. CASE UNCHANGED placement
  BY ZenonT(60), <1>1, <1>2, <1>3, SamePlacement, NothingResized DEF SamePlaced
<1>4. CASE ~placementExists /\ placementExists'
  <2>1. \A g \in Groups : StayingOrdinals(g) = {}
    BY ZenonT(60), <1>4, NothingStays DEF ResizeInv, NewInv
  <2>2. \A g \in Groups : StayingOrdinals(g)' # {}
    <3>1. \A g \in Groups : Staying(g)' # {}
      BY ZenonT(60), <1>4 DEF ResizeInv, GroupsKeepAnInstance
    <3> QED
      BY <3>1 DEF StayingOrdinals
  <2>3. \A g \in Groups : StayingOrdinals(g)' \subseteq Below(sets[g].replicas)
    BY ZenonT(60), <1>1, KeptOrdinalsNext DEF ResizeInv
  <2> QED
    BY ZenonT(60), <1>1, <1>2, <2>1, <2>2, <2>3, FirstPlaced
<1> QED
  BY ZenonT(60), <1>1, <1>3, <1>4

(***************************************************************************)
(* A patient user edits when all groups have settled.                      *)
(***************************************************************************)
LEMMA EditImplements ==
  ASSUME PatientUser, TypeOK, TypeOK',
         NEW g \in Groups, NEW n \in Counts, NEW prevent, ChangeSpec(g, n, prevent)
  PROVE  Sizing!Next \/ UNCHANGED Sizing!vars
<1>1. /\ At("idle") /\ Converged /\ UNCHANGED <<sets, placement>>
      /\ cluster' = [cluster EXCEPT !.desired[g] = n, !.preventScaleDown = prevent]
  BY DEF ChangeSpec, coordinator
<1>2. SameSizes /\ SamePlaced
  BY ZenonT(60), <1>1, SamePlacement DEF SameSizes, SamePlaced
<1>3. cluster'.desired = [cluster.desired EXCEPT ![g] = n] /\ cluster.desired \in [Groups -> Counts]
  BY ZenonT(60), <1>1 DEF TypeOK, Clusters
<1>4. CASE n = cluster.desired[g]
  <2>1. cluster'.desired = cluster.desired
    BY ZenonT(60), <1>3, <1>4
  <2> QED
    BY ZenonT(60), <1>2, <2>1, NothingResized
<1>5. CASE n # cluster.desired[g]
  <2>1. \A h \in Groups : /\ sets[h].replicas = cluster.desired[h]
                          /\ StayingOrdinals(h) = Below(cluster.desired[h])
    BY ZenonT(60), <1>1, ConvergedRest DEF AtRest
  <2> QED
    BY ZenonT(60), <1>2, <1>3, <1>5, <2>1, OneAsked
<1> QED
  BY ZenonT(60), <1>4, <1>5

(***************************************************************************)
(* In the beginning the sets have the sizes asked for; nothing is placed.  *)
(***************************************************************************)
LEMMA InitSizing == Init => Sizing!Init /\ TargetInv
<1> SUFFICES ASSUME Init PROVE Sizing!Init /\ TargetInv
  OBVIOUS
<1>1. cluster.desired = [g \in Groups |-> InitialInstances] /\ InitialInstances \in Sizing!Sizes
  BY SMTT(60), ConstantsAssumption DEF Init, NoCluster, Sizing!Sizes
<1>2. \A g \in Groups : sets[g].replicas = InitialInstances
  <2>1. PICK onDelete \in Strategies :
          sets = [g \in Groups |-> [NoSet EXCEPT !.replicas = InitialInstances, !.onDelete = onDelete]]
    BY ZenonT(60) DEF Init
  <2> QED
    BY ZenonT(60), <2>1 DEF NoSet
<1>3. Replicas = cluster.desired
  BY ZenonT(60), <1>1, <1>2 DEF Replicas
<1>4. \A g \in Groups : PlacedPods(g) = {}
  BY ZenonT(60), InitType, PlacedAreStaying, NothingStays DEF Init
<1>5. Placed = [g \in Groups |-> {}]
  BY <1>4 DEF Placed
<1>6. cluster.desired \in [Groups -> Sizing!Sizes]
  BY <1>1
<1>7. Sizing!Init
  BY ZenonT(60), <1>3, <1>5, <1>6 DEF Sizing!Init, Replicas, Placed
<1>8. TargetInv
  BY DEF Init, NoPass, TargetInv, At
<1> QED
  BY ZenonT(60), <1>7, <1>8

(***************************************************************************)
(* Every step is one of ResizeService, or changes nothing that it sees.    *)
(***************************************************************************)
LEMMA StepSizing ==
  ASSUME PatientUser, TypeOK, SeenIsCurrent, ResizeInv, TargetInv, [Next]_vars
  PROVE  Sizing!Next \/ UNCHANGED Sizing!vars
<1>1. TypeOK' /\ ResizeInv'
  BY NextType, StepKeeps
<1>2. CASE InitPlacement
  BY ZenonT(60), <1>1, <1>2, CreateImplements
<1>3. CASE AddPodsToPlacement
  BY ZenonT(60), <1>1, <1>3, AddImplements
<1>4. CASE \E g \in Groups : ShrinkPlacementForSet(g) \/ PatchStatefulSet(g)
  BY ZenonT(60), <1>1, <1>4, ShrinkImplements, PatchImplements
<1>5. CASE \E g \in Groups, n \in Counts, prevent \in BOOLEAN : ChangeSpec(g, n, prevent)
  BY ZenonT(60), <1>1, <1>5, EditImplements
<1>6. CASE ReplacePodInPlacement
  <2>1. cluster'.desired = cluster.desired
    BY <1>6 DEF ReplacePodInPlacement, kube
  <2>2. SameSizes /\ SamePlaced
    BY ZenonT(60), <1>6, ReplaceResize DEF SameSizes, SamePlaced
  <2> QED
    BY ZenonT(60), <1>1, <2>1, <2>2, NothingResized
<1>7. ASSUME ~InitPlacement, ~AddPodsToPlacement, ~ReplacePodInPlacement,
             ~\E g \in Groups : ShrinkPlacementForSet(g) \/ PatchStatefulSet(g),
             ~\E g \in Groups, n \in Counts, prevent \in BOOLEAN : ChangeSpec(g, n, prevent)
      PROVE  UNCHANGED Sizing!vars
  <2>1. cluster'.desired = cluster.desired
    BY ZenonT(60), <1>7, OnlyEdits
  <2>2. SameSizes /\ SamePlaced
    BY ZenonT(60), <1>7, OtherResize DEF SameSizes, SamePlaced
  <2> QED
    BY ZenonT(60), <1>1, <2>1, <2>2, NothingResized
<1> QED
  BY ZenonT(60), <1>2, <1>3, <1>4, <1>5, <1>6, <1>7

(***************************************************************************)
(* With a patient user, the operator resizes as ResizeService says: a      *)
(* StatefulSet grows before its pods are placed, one replica at a time,    *)
(* and shrinks after they have gone, always towards the size asked for now *)
(* and never because of a stale copy of it; and only pods beyond that size *)
(* are taken from the placement (handleClusterUpdate,                      *)
(* expandPlacementForSet, shrinkPlacementForSet).                          *)
(***************************************************************************)
THEOREM ResizesImplementService ==
  ASSUME PatientUser
  PROVE  Spec => ResizesSafely
<1>1. Init => Sizing!Init /\ TargetInv
  BY InitSizing
<1>2. TypeOK /\ TargetInv /\ [Next]_vars => TargetInv'
  BY StepTarget
<1>3. TypeOK /\ SeenIsCurrent /\ ResizeInv /\ TargetInv /\ [Next]_vars => [Sizing!Next]_(Sizing!vars)
  BY StepSizing
<1> QED
  BY <1>1, <1>2, <1>3, TypeCorrect, ViewCorrect, PatientResizes, PTL
  DEF Spec, ResizesSafely, Sizing!Spec


=============================================================================
