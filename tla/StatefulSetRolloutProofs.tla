---------------------- MODULE StatefulSetRolloutProofs ----------------------
(***************************************************************************)
(* What StatefulSetRollout promises, for any number of sets and replicas   *)
(* and any annotations: of single steps with either strategy and any user, *)
(* and of whole rollouts to a careful user.                                *)
(***************************************************************************)
EXTENDS StatefulSetRollout, FiniteSetTheorems, TLAPS

SetObjects == [exists : BOOLEAN, template : Revisions, update : BOOLEAN,
               parallel : Values, inProgress : Values, observed : BOOLEAN,
               currentRevision : Revisions, updateRevision : Revisions,
               ready : 0..Replicas, updated : 0..Replicas]

(***************************************************************************)
(* Resource versions do what they are for: a copy whose version the API    *)
(* would accept is the set itself.                                         *)
(***************************************************************************)
FreshCopies ==
  /\ \A i \in cache.fresh : cache.sets[i] = sets[i]
  /\ At("loop") => \A i \in pass.fresh : pass.sets[i] = sets[i]

(***************************************************************************)
(* It is inductive together with the types.                                *)
(***************************************************************************)
Inv == TypeOK /\ FreshCopies

-----------------------------------------------------------------------------
(***************************************************************************)
(* What the operator, the StatefulSet controller and users write to a set. *)
(***************************************************************************)
Cleared(s) == [s EXCEPT !.update = FALSE, !.parallel = NoValue]
Applied(s, t, v) == [Cleared(s) EXCEPT !.template = t, !.inProgress = v, !.observed = FALSE]

(***************************************************************************)
(* Constants are among the values of their kind.                           *)
(***************************************************************************)
LEMMA ConstantTypes ==
  /\ NoRevision \in Revisions /\ Templates \subseteq Revisions /\ 1 \in Templates
  /\ NoValue \in Values /\ 1 \in Values /\ ParallelValues \subseteq Values
  /\ 0 \in 0..Replicas /\ Replicas \in 0..Replicas
  /\ Sets = [Indices -> SetObjects]
BY RolloutAssumption DEF Revisions, Templates, NoRevision, Values, NoValue, Sets, SetObjects

(***************************************************************************)
(* What stands for no set, no pod and no pass has its type.                *)
(***************************************************************************)
LEMMA NothingTypes ==
  /\ NoSet \in SetObjects /\ NoSets \in Sets
  /\ NoPod \in [rev : Revisions, ready : BOOLEAN]
  /\ NoPass \in Passes /\ NoPass.pc = "idle"
<1>1. NoSet \in SetObjects
  BY ConstantTypes DEF NoSet, SetObjects
<1>2. NoSets \in Sets
  BY <1>1, ConstantTypes DEF NoSets
<1>3. NoPod \in [rev : Revisions, ready : BOOLEAN]
  BY ConstantTypes DEF NoPod
<1>4. 1 \in 1..(NumSets + 1)
  BY RolloutAssumption
<1> QED
  BY <1>1, <1>2, <1>3, <1>4, ConstantTypes DEF NoPass, Passes

(***************************************************************************)
(* The writes to a set keep its type, and none of them but the operator's  *)
(* changes its template.                                                   *)
(***************************************************************************)
LEMMA Writes ==
  ASSUME NEW s \in SetObjects
  PROVE  /\ Cleared(s) \in SetObjects /\ Cleared(s).template = s.template
         /\ \A t \in Revisions, v \in Values : Applied(s, t, v) \in SetObjects
         /\ [s EXCEPT !.update = TRUE] \in SetObjects /\ [s EXCEPT !.update = TRUE].template = s.template
         /\ \A v \in Values : /\ [s EXCEPT !.parallel = v] \in SetObjects
                              /\ [s EXCEPT !.parallel = v].template = s.template
         /\ \A v \in Values : /\ [s EXCEPT !.inProgress = v] \in SetObjects
                              /\ [s EXCEPT !.inProgress = v].template = s.template
         /\ \A r \in Revisions : /\ [s EXCEPT !.currentRevision = r] \in SetObjects
                                 /\ [s EXCEPT !.currentRevision = r].template = s.template
<1>1. Cleared(s) \in SetObjects /\ Cleared(s).template = s.template
  BY ZenonT(60), ConstantTypes DEF SetObjects, Cleared
<1>2. ASSUME NEW t \in Revisions, NEW v \in Values PROVE Applied(s, t, v) \in SetObjects
  BY ZenonT(60), <1>1 DEF SetObjects, Applied
<1>3. [s EXCEPT !.update = TRUE] \in SetObjects /\ [s EXCEPT !.update = TRUE].template = s.template
  BY ZenonT(60) DEF SetObjects
<1>4. ASSUME NEW v \in Values
      PROVE  /\ [s EXCEPT !.parallel = v] \in SetObjects /\ [s EXCEPT !.parallel = v].template = s.template
             /\ [s EXCEPT !.inProgress = v] \in SetObjects /\ [s EXCEPT !.inProgress = v].template = s.template
  BY DEF SetObjects
<1>5. ASSUME NEW r \in Revisions
      PROVE  /\ [s EXCEPT !.currentRevision = r] \in SetObjects
             /\ [s EXCEPT !.currentRevision = r].template = s.template
  BY DEF SetObjects
<1> QED
  BY ZenonT(60), <1>1, <1>2, <1>3, <1>4, <1>5

(***************************************************************************)
(* updatedStatefulSet: what it makes of a set is a set, also when there    *)
(* are two annotations to choose from.                                     *)
(***************************************************************************)
LEMMA UpdatedType ==
  ASSUME NEW s \in SetObjects, NEW t \in Revisions, NEW u \in UpdatedStatefulSets(s, t)
  PROVE  u \in SetObjects
<1>1. CASE s.template = t
  BY ZenonT(60), <1>1, Writes DEF UpdatedStatefulSets, Cleared
<1>2. CASE s.template # t
  <2>1. InProgressValues(s) \subseteq Values
    BY ConstantTypes DEF InProgressValues, SetObjects
  <2>2. PICK v \in InProgressValues(s) : u = Applied(s, t, v)
    BY ZenonT(60), <1>2 DEF UpdatedStatefulSets, Applied, Cleared
  <2> QED
    BY ZenonT(60), <2>1, <2>2, Writes
<1> QED
  BY <1>1, <1>2

(***************************************************************************)
(* The StatefulSet controller's count of pods fits in the status.          *)
(***************************************************************************)
LEMMA CountType ==
  ASSUME NEW S \in SUBSET Ordinals
  PROVE  Cardinality(S) \in 0..Replicas
<1>1. IsFiniteSet(Ordinals) /\ Cardinality(Ordinals) = Replicas
  <2>1. 0 \in Int /\ Replicas - 1 \in Int /\ ~(0 > Replicas - 1) /\ Replicas - 1 - 0 + 1 = Replicas
    BY RolloutAssumption
  <2> QED
    BY <2>1, FS_Interval DEF Ordinals
<1>2. IsFiniteSet(S) /\ Cardinality(S) <= Cardinality(Ordinals)
  BY <1>1, FS_Subset
<1>3. Cardinality(S) \in Nat
  BY <1>2, FS_CardinalityType
<1> QED
  BY <1>1, <1>2, <1>3, RolloutAssumption

-----------------------------------------------------------------------------
(***************************************************************************)
(* Steps that write a set, and steps that do not.                          *)
(***************************************************************************)

(***************************************************************************)
(* What the pass holds in its loop is no more than it held before.         *)
(***************************************************************************)
Holds(written) ==
  At("loop")' => /\ At("loop") /\ pass'.sets = pass.sets
                 /\ pass'.fresh \subseteq pass.fresh \ written

(***************************************************************************)
(* A write makes the copies of that set stale, and only that.              *)
(***************************************************************************)
LEMMA WriteFresh ==
  ASSUME Inv, NEW k \in Indices, NEW u \in SetObjects,
         sets' = [sets EXCEPT ![k] = u], Stale(k), Holds({k})
  PROVE  sets' \in Sets /\ cache' \in Caches /\ FreshCopies'
<1>1. sets' \in Sets
  BY ConstantTypes DEF Inv, TypeOK
<1>2. cache' \in Caches /\ cache'.sets = cache.sets /\ cache'.fresh = cache.fresh \ {k}
  BY DEF Inv, TypeOK, Stale, Caches
<1>3. \A i \in Indices \ {k} : sets'[i] = sets[i]
  BY ConstantTypes DEF Inv, TypeOK
<1>4. cache.fresh \subseteq Indices /\ pass.fresh \subseteq Indices
  BY DEF Inv, TypeOK, Caches, Passes
<1>5. FreshCopies'
  BY <1>2, <1>3, <1>4 DEF FreshCopies, Holds, Inv
<1> QED
  BY <1>1, <1>2, <1>5

(***************************************************************************)
(* Without a write, copies stay what they are.                             *)
(***************************************************************************)
LEMMA KeepFresh ==
  ASSUME Inv, UNCHANGED sets, Holds({}),
         cache'.sets = cache.sets, cache'.fresh = cache.fresh
  PROVE  FreshCopies'
BY DEF FreshCopies, Holds, Inv

(***************************************************************************)
(* A pass that is over.                                                    *)
(***************************************************************************)
LEMMA ReturnPass ==
  ASSUME Return
  PROVE  pass' \in Passes /\ \A written : Holds(written)
BY NothingTypes DEF Return, Holds, At

(***************************************************************************)
(* A pass that moves on to the next set.                                   *)
(***************************************************************************)
LEMMA NextSet ==
  ASSUME Inv, InLoop, NEW written \in SUBSET Indices,
         pass' = [pass EXCEPT !.at = @ + 1, !.fresh = @ \ written]
  PROVE  pass' \in Passes /\ Holds(written)
<1>1. pass.at + 1 \in 1..(NumSets + 1) /\ pass \in Passes
  BY RolloutAssumption DEF Inv, TypeOK, InLoop, Passes
<1>2. pass' \in Passes
  BY ZenonT(60), <1>1 DEF Passes
<1>3. Holds(written)
  BY <1>1 DEF Passes, Holds, At, InLoop
<1> QED
  BY <1>2, <1>3

(***************************************************************************)
(* The set that the loop is at.                                            *)
(***************************************************************************)
LEMMA LoopTypes ==
  ASSUME Inv, InLoop
  PROVE  /\ pass.at \in Indices /\ Here \in SetObjects /\ pass.template \in Revisions
         /\ CanWrite(pass.at) => Here = sets[pass.at]
BY ConstantTypes, RolloutAssumption DEF Inv, TypeOK, InLoop, Passes, Here, Indices, CanWrite, FreshCopies

-----------------------------------------------------------------------------
(***************************************************************************)
(* The invariant.                                                          *)
(***************************************************************************)

(***************************************************************************)
(* It holds before the first set, and in a running cluster.                *)
(***************************************************************************)
LEMMA InitInv == Init => Inv
<1> SUFFICES ASSUME Init PROVE Inv
  OBVIOUS
<1>1. RunningSet \in SetObjects
  BY ZenonT(60), ConstantTypes, NothingTypes DEF RunningSet, SetObjects, NoSet
<1>2. sets \in Sets
  BY <1>1, NothingTypes, ConstantTypes, RolloutAssumption DEF Init
<1>3. pods \in PodLists
  <2>1. [rev |-> 1, ready |-> TRUE] \in [rev : Revisions, ready : BOOLEAN]
    BY ZenonT(60), ConstantTypes
  <2> QED
    BY <2>1, NothingTypes, RolloutAssumption DEF Init, PodLists
<1>4. TypeOK
  BY ZenonT(60), <1>2, <1>3, ConstantTypes, NothingTypes, RolloutAssumption DEF Init, TypeOK, Caches
<1>5. FreshCopies
  BY NothingTypes DEF Init, FreshCopies, At
<1> QED
  BY <1>4, <1>5 DEF Inv

(***************************************************************************)
(* A step that leaves budget and template alone needs the rest only.       *)
(***************************************************************************)
LEMMA Compose ==
  ASSUME Inv, UNCHANGED <<template, budget>>, informed' \in BOOLEAN, sets' \in Sets, pods' \in PodLists,
         cache' \in Caches, pass' \in Passes, FreshCopies'
  PROVE  Inv'
BY DEF Inv, TypeOK

(***************************************************************************)
(* The creation of a missing set.                                          *)
(***************************************************************************)
LEMMA CreateInv == ASSUME Inv, NEW i \in Indices, CreateStatefulSet(i) PROVE Inv'
<1>1. UNCHANGED <<template, informed, pods, budget>>
  BY DEF CreateStatefulSet
<1>2. pass' \in Passes /\ Holds({GeneratedIndex(i)}) /\ Holds({})
  BY ReturnPass DEF CreateStatefulSet
<1>3. CASE UNCHANGED <<sets, cache>>
  BY ZenonT(60), <1>1, <1>2, <1>3, KeepFresh, Compose DEF Inv, TypeOK
<1>4. CASE /\ sets' = [sets EXCEPT ![GeneratedIndex(i)] = [NoSet EXCEPT !.exists = TRUE, !.template = pass.template]]
           /\ Stale(GeneratedIndex(i))
  <2>1. GeneratedIndex(i) \in Indices
    BY RolloutAssumption DEF GeneratedIndex, Indices
  <2>2. [NoSet EXCEPT !.exists = TRUE, !.template = pass.template] \in SetObjects
    BY ZenonT(60), NothingTypes DEF Inv, TypeOK, Passes, SetObjects
  <2>3. sets' \in Sets /\ cache' \in Caches /\ FreshCopies'
    BY ZenonT(60), <1>2, <1>4, <2>1, <2>2, WriteFresh
  <2> QED
    BY ZenonT(60), <1>1, <1>2, <2>3, Compose DEF Inv, TypeOK
<1> QED
  BY <1>3, <1>4 DEF CreateStatefulSet

(***************************************************************************)
(* A pass begins with a copy of the cluster, and none of the sets.         *)
(***************************************************************************)
LEMMA StartInv == ASSUME Inv, StartPass PROVE Inv'
<1>1. UNCHANGED <<template, informed, sets, pods, cache, budget>>
  BY DEF StartPass
<1>2. pass' \in Passes /\ pass'.pc = "begun"
  BY ZenonT(60), NothingTypes, ConstantTypes DEF StartPass, Passes, Caches, Inv, TypeOK
<1>3. Holds({})
  BY <1>2 DEF Holds, At
<1> QED
  BY ZenonT(60), <1>1, <1>2, <1>3, KeepFresh, Compose DEF Inv, TypeOK

(***************************************************************************)
(* The start of the loop: its copies are those of the cache.               *)
(***************************************************************************)
LEMMA CheckInv == ASSUME Inv, CheckStatefulSets PROVE Inv'
<1>1. UNCHANGED <<template, informed, sets, pods, cache, budget>>
  BY DEF CheckStatefulSets
<1>2. CASE Return
  BY ZenonT(60), <1>1, <1>2, ReturnPass, KeepFresh, Compose DEF Inv, TypeOK
<1>3. CASE pass' = [pass EXCEPT !.pc = "loop", !.at = 1, !.sets = cache.sets, !.fresh = cache.fresh]
  <2>1. pass' \in Passes /\ pass'.sets = cache.sets /\ pass'.fresh = cache.fresh
    BY ZenonT(60), <1>3, NothingTypes DEF NoPass, Passes, Caches, Inv, TypeOK
  <2>2. FreshCopies'
    BY <1>1, <2>1 DEF Inv, FreshCopies
  <2> QED
    BY <1>1, <2>1, <2>2, Compose DEF Inv, TypeOK
<1> QED
  BY <1>2, <1>3 DEF CheckStatefulSets

(***************************************************************************)
(* An update that was applied, refused or failed ends the pass.            *)
(***************************************************************************)
LEMMA ApplyInv == ASSUME Inv, ApplyStatefulSetUpdate PROVE Inv'
<1>1. UNCHANGED <<template, informed, pods, budget>> /\ InLoop
  BY DEF ApplyStatefulSetUpdate
<1>2. pass' \in Passes /\ Holds({pass.at}) /\ Holds({})
  BY ReturnPass DEF ApplyStatefulSetUpdate
<1>3. CASE UNCHANGED <<sets, cache>>
  BY ZenonT(60), <1>1, <1>2, <1>3, KeepFresh, Compose DEF Inv, TypeOK
<1>4. CASE /\ \E s \in UpdatedStatefulSets(Here, pass.template) : sets' = [sets EXCEPT ![pass.at] = s]
           /\ Stale(pass.at)
  <2>1. PICK s \in UpdatedStatefulSets(Here, pass.template) : sets' = [sets EXCEPT ![pass.at] = s]
    BY ZenonT(60), <1>4
  <2>2. s \in SetObjects
    BY <1>1, LoopTypes, UpdatedType
  <2>3. sets' \in Sets /\ cache' \in Caches /\ FreshCopies'
    BY ZenonT(60), <1>1, <1>2, <1>4, <2>1, <2>2, LoopTypes, WriteFresh
  <2> QED
    BY <1>1, <1>2, <2>3, Compose DEF Inv, TypeOK
<1> QED
  BY <1>3, <1>4 DEF ApplyStatefulSetUpdate

(***************************************************************************)
(* Steps of the loop that do not write.                                    *)
(***************************************************************************)
LEMMA LoopInv ==
  ASSUME Inv, SkipStatefulSet \/ RolloutRefused \/ RestartPods \/ RestOfPass
  PROVE  Inv'
<1>1. UNCHANGED <<template, informed, sets, pods, cache, budget>>
  BY DEF SkipStatefulSet, RolloutRefused, RestartPods, RestOfPass
<1>2. pass \in Passes /\ cache \in Caches
  BY DEF Inv, TypeOK
<1>3. pass' \in Passes /\ Holds({})
  <2>1. CASE SkipStatefulSet
    <3>1. pass' = [pass EXCEPT !.at = @ + 1, !.fresh = @ \ {}]
      BY ZenonT(60), <1>2, <2>1 DEF SkipStatefulSet, Passes
    <3> QED
      BY ZenonT(60), <2>1, <3>1, NextSet DEF SkipStatefulSet
  <2>2. CASE Return
    BY <2>2, ReturnPass
  <2>3. CASE RestartPods
    <3>1. PodsToUpdate \in SUBSET Ordinals
      BY DEF PodsToUpdate, Outdated
    <3>2. pass' = [pass EXCEPT !.pc = "deleting", !.deleting = PodsToUpdate]
      BY <2>3 DEF RestartPods
    <3> HIDE DEF PodsToUpdate
    <3>3. pass' \in Passes /\ pass'.pc = "deleting"
      BY ZenonT(60), <1>2, <3>1, <3>2 DEF Passes
    <3> QED
      BY ZenonT(60), <3>3 DEF Holds, At
  <2>4. CASE pass' = [pass EXCEPT !.pc = "cleanup", !.sets = cache.sets, !.fresh = {}]
    BY ZenonT(60), <1>2, <2>4 DEF Passes, Caches, Holds, At
  <2> QED
    BY <2>1, <2>2, <2>3, <2>4 DEF RolloutRefused, RestOfPass
<1> QED
  BY <1>1, <1>3, KeepFresh, Compose DEF Inv, TypeOK

(***************************************************************************)
(* The deletion of a pod.                                                  *)
(***************************************************************************)
LEMMA DeleteInv == ASSUME Inv, DeletePodToUpdate PROVE Inv'
<1>1. UNCHANGED <<template, informed, sets, cache, budget>> /\ At("deleting")
  BY DEF DeletePodToUpdate
<1>2. PICK o \in pass.deleting :
        /\ pods' = [pods EXCEPT ![pass.at][o] = NoPod]
        /\ Return \/ pass' = [pass EXCEPT !.deleting = @ \ {o}]
  BY ZenonT(60) DEF DeletePodToUpdate
<1>3. pods' \in PodLists
  BY ZenonT(60), <1>2, NothingTypes DEF Inv, TypeOK, PodLists, Passes
<1>4. pass' \in Passes /\ Holds({})
  <2>1. CASE Return
    BY <2>1, ReturnPass
  <2>2. CASE pass' = [pass EXCEPT !.deleting = @ \ {o}]
    <3>1. pass' \in Passes /\ pass'.pc = "deleting"
      BY <1>1, <2>2 DEF Inv, TypeOK, Passes, At
    <3> QED
      BY <3>1 DEF Holds, At
  <2> QED
    BY <1>2, <2>1, <2>2
<1> QED
  BY ZenonT(60), <1>1, <1>3, <1>4, KeepFresh, Compose DEF Inv, TypeOK

(***************************************************************************)
(* The completion of the status, after which the loop goes on without a    *)
(* fresh copy of the set.                                                  *)
(***************************************************************************)
LEMMA CompleteInv == ASSUME Inv, CompleteRollout PROVE Inv'
<1>1. UNCHANGED <<template, informed, pods, budget>> /\ InLoop
  BY DEF CompleteRollout, Rolling
<1>2. CASE UNCHANGED <<sets, cache>> /\ Return
  BY ZenonT(60), <1>1, <1>2, ReturnPass, KeepFresh, Compose DEF Inv, TypeOK
<1>3. CASE /\ sets' = [sets EXCEPT ![pass.at].currentRevision = Here.updateRevision]
           /\ Stale(pass.at)
           /\ pass' = [pass EXCEPT !.at = @ + 1, !.fresh = @ \ {pass.at}]
  <2>1. pass.at \in Indices /\ Here.updateRevision \in Revisions /\ sets[pass.at] \in SetObjects
    BY ZenonT(60), <1>1, LoopTypes, ConstantTypes DEF SetObjects, Inv, TypeOK
  <2>2. pass' \in Passes /\ Holds({pass.at})
    BY ZenonT(60), <1>1, <1>3, <2>1, NextSet
  <2>3. [sets[pass.at] EXCEPT !.currentRevision = Here.updateRevision] \in SetObjects
    BY ZenonT(60), <2>1, Writes
  <2>4. sets' \in Sets /\ cache' \in Caches /\ FreshCopies'
    BY ZenonT(60), <1>3, <2>1, <2>2, <2>3, WriteFresh
  <2> QED
    BY ZenonT(60), <1>1, <2>2, <2>4, Compose DEF Inv, TypeOK
<1> QED
  BY <1>2, <1>3 DEF CompleteRollout

(***************************************************************************)
(* The in-progress annotation is removed by a patch.                       *)
(***************************************************************************)
LEMMA CleanupInv == ASSUME Inv, CleanupAnnotations PROVE Inv'
<1>1. UNCHANGED <<template, pods, budget>> /\ At("cleanup") /\ informed' \in BOOLEAN
  BY DEF CleanupAnnotations, Inv, TypeOK
<1>2. CASE Return /\ UNCHANGED <<sets, cache>>
  BY ZenonT(60), <1>1, <1>2, ReturnPass, KeepFresh, Compose DEF Inv, TypeOK
<1>3. ASSUME NEW i \in InProgress,
             sets' = [sets EXCEPT ![i].inProgress = NoValue], Stale(i),
             pass' = [pass EXCEPT !.sets[i].inProgress = NoValue]
      PROVE  Inv'
  <2>1. i \in Indices /\ sets[i] \in SetObjects /\ pass.sets[i] \in SetObjects
    BY ConstantTypes DEF InProgress, Inv, TypeOK, Passes
  <2>2. /\ [sets[i] EXCEPT !.inProgress = NoValue] \in SetObjects
        /\ [pass.sets[i] EXCEPT !.inProgress = NoValue] \in SetObjects
    BY ZenonT(60), <2>1, Writes, ConstantTypes
  <2>3. [pass.sets EXCEPT ![i] = [pass.sets[i] EXCEPT !.inProgress = NoValue]] \in Sets
    BY <2>1, <2>2, ConstantTypes DEF Inv, TypeOK, Passes
  <2>4. pass' = [pass EXCEPT !.sets = [pass.sets EXCEPT ![i] = [pass.sets[i] EXCEPT !.inProgress = NoValue]]]
    BY <1>3
  <2>5. pass' \in Passes /\ pass'.pc = "cleanup"
    <3> DEFINE new == [pass.sets EXCEPT ![i] = [pass.sets[i] EXCEPT !.inProgress = NoValue]]
    <3> HIDE DEF new
    <3>1. new \in Sets /\ pass' = [pass EXCEPT !.sets = new]
      BY <2>3, <2>4 DEF new
    <3> QED
      BY <1>1, <3>1 DEF Inv, TypeOK, Passes, At
  <2>6. Holds({i})
    BY <2>5 DEF Holds, At
  <2>7. sets' \in Sets /\ cache' \in Caches /\ FreshCopies'
    BY ZenonT(60), <1>3, <2>1, <2>2, <2>6, WriteFresh
  <2> QED
    BY ZenonT(60), <1>1, <2>5, <2>7, Compose DEF Inv, TypeOK
<1> QED
  BY <1>2, <1>3 DEF CleanupAnnotations

(***************************************************************************)
(* A pass that fails, and a restart that lists everything anew.            *)
(***************************************************************************)
LEMMA AbortInv == ASSUME Inv, PassAborts PROVE Inv'
<1>1. UNCHANGED <<template, informed, sets, pods>> /\ Return
  BY DEF PassAborts
<1>2. pass' \in Passes /\ Holds({})
  BY <1>1, ReturnPass
<1>3. budget' \in [edits : Nat, calls : Nat]
  BY DEF PassAborts, Inv, TypeOK
<1>4. CASE UNCHANGED cache
  BY ZenonT(60), <1>1, <1>2, <1>3, <1>4, KeepFresh DEF Inv, TypeOK
<1>5. CASE cache' = [template |-> template, current |-> TRUE, sets |-> sets, fresh |-> Indices, pods |-> pods]
  <2>1. TypeOK'
    BY ZenonT(60), <1>1, <1>2, <1>3, <1>5 DEF Inv, TypeOK, Caches
  <2>2. FreshCopies'
    BY ZenonT(60), <1>1, <1>5, NothingTypes DEF FreshCopies, Return, At
  <2> QED
    BY <2>1, <2>2 DEF Inv
<1> QED
  BY <1>4, <1>5 DEF PassAborts

(***************************************************************************)
(* The informers renew the copies of the cache, not those of the pass.     *)
(***************************************************************************)
LEMMA SyncInv == ASSUME Inv, SyncCluster \/ SyncSets \/ SyncPods PROVE Inv'
<1>1. UNCHANGED <<template, informed, sets, pods, pass, budget>>
  BY DEF SyncCluster, SyncSets, SyncPods
<1>2. Holds({})
  BY <1>1 DEF Holds, At
<1>3. cache' \in Caches
  BY ZenonT(60) DEF SyncCluster, SyncSets, SyncPods, Inv, TypeOK, Caches
<1>4. FreshCopies'
  <2>1. CASE SyncSets
    BY <1>1, <2>1 DEF SyncSets, Inv, TypeOK, Caches, FreshCopies, At
  <2>2. CASE SyncCluster \/ SyncPods
    <3>1. cache'.sets = cache.sets /\ cache'.fresh = cache.fresh
      BY <2>2 DEF SyncCluster, SyncPods, Inv, TypeOK, Caches
    <3> QED
      BY <1>1, <1>2, <3>1, KeepFresh
  <2> QED
    BY <2>1, <2>2
<1> QED
  BY <1>1, <1>3, <1>4, Compose DEF Inv, TypeOK

(***************************************************************************)
(* A write from outside makes both copies stale.                           *)
(***************************************************************************)
LEMMA OutsideWrite ==
  ASSUME Inv, NEW i \in Indices, NEW u \in SetObjects,
         sets' = [sets EXCEPT ![i] = u], SetWritten(i)
  PROVE  sets' \in Sets /\ cache' \in Caches /\ pass' \in Passes /\ FreshCopies'
<1>1. pass' \in Passes /\ Holds({i})
  BY DEF SetWritten, Inv, TypeOK, Passes, Holds, At
<1> QED
  BY ZenonT(60), <1>1, WriteFresh DEF SetWritten

(***************************************************************************)
(* The StatefulSet controller's status keeps the template.                 *)
(***************************************************************************)
LEMMA StatusWrite ==
  ASSUME Inv, NEW i \in Indices, UpdateSetStatus(i)
  PROVE  \E u \in SetObjects : sets' = [sets EXCEPT ![i] = u] /\ u.template = sets[i].template
<1> DEFINE ready == Cardinality({o \in Ordinals : pods[i][o].ready})
           updated == Cardinality({o \in Ordinals : pods[i][o].rev = sets[i].template})
           done == ~OnDelete /\ ready = Replicas /\ updated = Replicas
           current == IF sets[i].currentRevision = NoRevision \/ done
                      THEN sets[i].template ELSE sets[i].currentRevision
<1>1. ready \in 0..Replicas /\ updated \in 0..Replicas
  BY CountType
<1>2. sets[i] \in SetObjects
  BY ConstantTypes DEF Inv, TypeOK
<1>3. sets[i].template \in Revisions /\ current \in Revisions
  BY <1>2 DEF SetObjects
<1>4. sets' = [sets EXCEPT ![i] = [sets[i] EXCEPT !.observed = TRUE, !.ready = ready, !.updated = updated,
                                     !.updateRevision = sets[i].template, !.currentRevision = current]]
  BY ZenonT(60) DEF UpdateSetStatus
<1> HIDE DEF ready, updated, done, current
<1> DEFINE new == [sets[i] EXCEPT !.observed = TRUE, !.ready = ready, !.updated = updated,
                                  !.updateRevision = sets[i].template, !.currentRevision = current]
<1>5. new \in SetObjects /\ new.template = sets[i].template
  BY ZenonT(60), <1>1, <1>2, <1>3 DEF SetObjects
<1> QED
  BY <1>4, <1>5, ZenonT(60)

(***************************************************************************)
(* A user's annotation keeps the template.                                 *)
(***************************************************************************)
LEMMA AnnotateWrite ==
  ASSUME Inv, NEW i \in Indices, NEW v \in {NoValue} \cup ParallelValues, Annotate(i, v)
  PROVE  \E u \in SetObjects : sets' = [sets EXCEPT ![i] = u] /\ u.template = sets[i].template
<1>1. sets[i] \in SetObjects /\ v \in Values
  BY ConstantTypes DEF Inv, TypeOK
<1>2. CASE v = NoValue
  <2>1. sets' = [sets EXCEPT ![i] = [sets[i] EXCEPT !.update = TRUE]]
    BY <1>2, ZenonT(60) DEF Annotate
  <2> QED
    BY ZenonT(60), <1>1, <2>1, Writes
<1>3. CASE v # NoValue
  <2>1. sets' = [sets EXCEPT ![i] = [sets[i] EXCEPT !.parallel = v]]
    BY <1>3, ZenonT(60) DEF Annotate
  <2> QED
    BY ZenonT(60), <1>1, <2>1, Writes
<1> QED
  BY <1>2, <1>3

(***************************************************************************)
(* The StatefulSet controller writes the status and handles the pods.      *)
(***************************************************************************)
LEMMA ControllerInv == ASSUME Inv, StatefulSetController PROVE Inv'
<1>1. ASSUME NEW i \in Indices, UpdateSetStatus(i) PROVE Inv'
  <2>1. PICK u \in SetObjects : sets' = [sets EXCEPT ![i] = u]
    BY <1>1, StatusWrite
  <2>2. UNCHANGED <<template, informed, pods, budget>> /\ SetWritten(i)
    BY <1>1 DEF UpdateSetStatus
  <2> QED
    BY ZenonT(60), <2>1, <2>2, OutsideWrite, Compose DEF Inv, TypeOK
<1>2. ASSUME NEW i \in Indices, NEW o \in Ordinals, CreatePod(i, o) \/ BecomeReady(i, o) \/ RollPod(i, o)
      PROVE  Inv'
  <2>1. UNCHANGED <<template, informed, sets, cache, pass, budget>>
    BY <1>2 DEF CreatePod, BecomeReady, RollPod
  <2>2. sets[i].updateRevision \in Revisions /\ pods[i][o] \in [rev : Revisions, ready : BOOLEAN]
    BY ConstantTypes DEF Inv, TypeOK, PodLists, SetObjects
  <2>3. \E new \in [rev : Revisions, ready : BOOLEAN] : pods' = [pods EXCEPT ![i][o] = new]
    <3>1. CASE CreatePod(i, o)
      <4>1. [pods[i][o] EXCEPT !.rev = sets[i].updateRevision] \in [rev : Revisions, ready : BOOLEAN]
        BY <2>2
      <4> QED
        BY ZenonT(60), <3>1, <4>1 DEF CreatePod
    <3>2. CASE BecomeReady(i, o)
      <4>1. [pods[i][o] EXCEPT !.ready = TRUE] \in [rev : Revisions, ready : BOOLEAN]
        BY ZenonT(60), <2>2
      <4> QED
        BY ZenonT(60), <3>2, <4>1 DEF BecomeReady
    <3>3. CASE RollPod(i, o)
      BY ZenonT(60), <3>3, NothingTypes DEF RollPod
    <3> QED
      BY <1>2, <3>1, <3>2, <3>3
  <2>4. pods' \in PodLists
    BY <2>3 DEF Inv, TypeOK, PodLists
  <2>5. Holds({})
    BY <2>1 DEF Holds, At
  <2> QED
    BY ZenonT(60), <2>1, <2>4, <2>5, KeepFresh, Compose DEF Inv, TypeOK
<1> QED
  BY <1>1, <1>2 DEF StatefulSetController

(***************************************************************************)
(* Users edit the cluster and annotate sets.                               *)
(***************************************************************************)
LEMMA UsersInv == ASSUME Inv, Users PROVE Inv'
<1>1. budget' \in [edits : Nat, calls : Nat]
  BY DEF Users, ChangeTemplate, Annotate, Edit, Inv, TypeOK
<1>2. ASSUME NEW t \in Templates, ChangeTemplate(t) PROVE Inv'
  <2>1. UNCHANGED <<sets, pods>> /\ template' \in Templates /\ informed' \in BOOLEAN
    BY <1>2 DEF ChangeTemplate
  <2>2. cache' \in Caches /\ cache'.sets = cache.sets /\ cache'.fresh = cache.fresh
    BY ZenonT(60), <1>2 DEF ChangeTemplate, Inv, TypeOK, Caches
  <2>3. /\ pass' \in Passes
        /\ pass'.pc = pass.pc /\ pass'.sets = pass.sets /\ pass'.fresh = pass.fresh
    BY ZenonT(60), <1>2 DEF ChangeTemplate, Inv, TypeOK, Passes
  <2>4. Holds({})
    BY <2>3 DEF Holds, At
  <2> QED
    BY ZenonT(60), <1>1, <2>1, <2>2, <2>3, <2>4, KeepFresh DEF Inv, TypeOK
<1>3. ASSUME NEW i \in Indices, NEW v \in {NoValue} \cup ParallelValues, Annotate(i, v) PROVE Inv'
  <2>1. PICK u \in SetObjects : sets' = [sets EXCEPT ![i] = u]
    BY <1>3, AnnotateWrite
  <2>2. UNCHANGED <<template, informed, pods>> /\ SetWritten(i)
    BY <1>3 DEF Annotate
  <2>3. sets' \in Sets /\ cache' \in Caches /\ pass' \in Passes /\ FreshCopies'
    BY ZenonT(60), <2>1, <2>2, OutsideWrite
  <2> QED
    BY ZenonT(60), <1>1, <2>2, <2>3 DEF Inv, TypeOK
<1> QED
  BY <1>2, <1>3 DEF Users

(***************************************************************************)
(* Every step keeps the invariant.                                         *)
(***************************************************************************)
LEMMA StepInv == Inv /\ [Next]_vars => Inv'
<1> SUFFICES ASSUME Inv, [Next]_vars PROVE Inv'
  OBVIOUS
<1>1. CASE Pass
  BY ZenonT(60), <1>1, StartInv, CreateInv, CheckInv, ApplyInv, LoopInv, DeleteInv, CompleteInv, CleanupInv DEF Pass
<1>2. CASE Environment
  BY ZenonT(60), <1>2, SyncInv, ControllerInv, UsersInv, AbortInv DEF Environment
<1>3. CASE UNCHANGED vars
  <2>1. Holds({}) /\ UNCHANGED <<template, informed, sets, pods, cache, pass, budget>>
    BY <1>3 DEF vars, Holds, At
  <2> QED
    BY ZenonT(60), <2>1, KeepFresh DEF Inv, TypeOK
<1> QED
  BY <1>1, <1>2, <1>3 DEF Next

(***************************************************************************)
(* The invariant holds in every reachable state.                           *)
(***************************************************************************)
THEOREM Invariant == Spec => []Inv
BY InitInv, StepInv, PTL DEF Spec

(***************************************************************************)
(* All variables keep their types: sizes and counts stay within the number *)
(* of replicas, and annotations are ones that can be parsed again.         *)
(***************************************************************************)
THEOREM TypeCorrect == Spec => []TypeOK
<1>1. Inv => TypeOK
  BY DEF Inv
<1> QED
  BY <1>1, Invariant, PTL

-----------------------------------------------------------------------------
(***************************************************************************)
(* Templates change under an annotation only.                              *)
(***************************************************************************)

(***************************************************************************)
(* A write that keeps the template.                                        *)
(***************************************************************************)
LEMMA SameTemplate ==
  ASSUME Inv, NEW k \in Indices, NEW u \in SetObjects, sets' = [sets EXCEPT ![k] = u],
         u.template = sets[k].template \/ Annotated(sets[k]) \/ ~sets[k].exists
  PROVE  \A i \in Indices : TemplateApplied(i) => Annotated(sets[i])
BY DEF TemplateApplied, Inv, TypeOK, Sets

(***************************************************************************)
(* The steps of a pass, and the others.                                    *)
(***************************************************************************)
LEMMA StepAnnotated ==
  ASSUME Inv, [Next]_vars
  PROVE  \A i \in Indices : TemplateApplied(i) => Annotated(sets[i])
<1>1. CASE UNCHANGED sets
  BY <1>1 DEF TemplateApplied
<1>2. ASSUME NEW i \in Indices, CreateStatefulSet(i), ~UNCHANGED sets
      PROVE  \A j \in Indices : TemplateApplied(j) => Annotated(sets[j])
  <2>1. [NoSet EXCEPT !.exists = TRUE, !.template = pass.template] \in SetObjects
    BY ZenonT(60), NothingTypes DEF Inv, TypeOK, Passes, SetObjects
  <2>2. GeneratedIndex(i) \in Indices
    BY RolloutAssumption DEF GeneratedIndex, Indices
  <2> QED
    BY <1>2, <2>1, <2>2, SameTemplate DEF CreateStatefulSet
<1>3. ASSUME ApplyStatefulSetUpdate, ~UNCHANGED sets
      PROVE  \A j \in Indices : TemplateApplied(j) => Annotated(sets[j])
  <2>1. InLoop /\ Annotated(Here) /\ CanWrite(pass.at)
    BY <1>3 DEF ApplyStatefulSetUpdate
  <2>2. PICK s \in UpdatedStatefulSets(Here, pass.template) : sets' = [sets EXCEPT ![pass.at] = s]
    BY ZenonT(60), <1>3 DEF ApplyStatefulSetUpdate
  <2>3. s \in SetObjects /\ pass.at \in Indices /\ Annotated(sets[pass.at])
    BY <2>1, LoopTypes, UpdatedType
  <2> QED
    BY ZenonT(60), <2>2, <2>3, SameTemplate
<1>4. ASSUME CompleteRollout, ~UNCHANGED sets
      PROVE  \A j \in Indices : TemplateApplied(j) => Annotated(sets[j])
  <2>1. InLoop /\ sets' = [sets EXCEPT ![pass.at].currentRevision = Here.updateRevision]
    BY <1>4 DEF CompleteRollout, Rolling
  <2>2. pass.at \in Indices /\ Here.updateRevision \in Revisions /\ sets[pass.at] \in SetObjects
    BY <2>1, LoopTypes, ConstantTypes DEF SetObjects, Inv, TypeOK
  <2> QED
    BY ZenonT(60), <2>1, <2>2, Writes, SameTemplate
<1>5. ASSUME CleanupAnnotations, ~UNCHANGED sets
      PROVE  \A j \in Indices : TemplateApplied(j) => Annotated(sets[j])
  <2>1. PICK i \in InProgress : sets' = [sets EXCEPT ![i].inProgress = NoValue]
    BY <1>5 DEF CleanupAnnotations
  <2>2. i \in Indices /\ sets[i] \in SetObjects
    BY ConstantTypes DEF InProgress, Inv, TypeOK
  <2> QED
    BY ZenonT(60), <2>1, <2>2, Writes, ConstantTypes, SameTemplate
<1>6. ASSUME NEW i \in Indices, UpdateSetStatus(i)
      PROVE  \A j \in Indices : TemplateApplied(j) => Annotated(sets[j])
  BY ZenonT(60), <1>6, StatusWrite, SameTemplate
<1>7. ASSUME NEW i \in Indices, NEW v \in {NoValue} \cup ParallelValues, Annotate(i, v)
      PROVE  \A j \in Indices : TemplateApplied(j) => Annotated(sets[j])
  BY ZenonT(60), <1>7, AnnotateWrite, SameTemplate
<1>8. \/ UNCHANGED sets
      \/ \E i \in Indices : CreateStatefulSet(i)
      \/ ApplyStatefulSetUpdate \/ CompleteRollout \/ CleanupAnnotations
      \/ \E i \in Indices : UpdateSetStatus(i)
      \/ \E i \in Indices, v \in {NoValue} \cup ParallelValues : Annotate(i, v)
  BY DEF Next, vars, Pass, Environment, StatefulSetController, Users, StartPass, CheckStatefulSets, SkipStatefulSet,
         RolloutRefused, RestartPods, DeletePodToUpdate, RestOfPass, PassAborts, SyncCluster,
         SyncSets, SyncPods, CreatePod, BecomeReady, RollPod, ChangeTemplate
<1> QED
  BY ZenonT(60), <1>1, <1>2, <1>3, <1>4, <1>5, <1>6, <1>7, <1>8

(***************************************************************************)
(* A set is given a new template only while it is annotated, however stale *)
(* the operator's copies are: one annotation pays for one update.          *)
(***************************************************************************)
THEOREM UpdatesAreAnnotated == Spec => OnlyWhenAnnotated
<1>1. Inv /\ [Next]_vars => [\A i \in Indices : TemplateApplied(i) => Annotated(sets[i])]_vars
  BY StepAnnotated
<1> QED
  BY <1>1, Invariant, PTL DEF Spec, OnlyWhenAnnotated


-----------------------------------------------------------------------------
(***************************************************************************)
(* With a careful user an annotation that is gone has been processed, and, *)
(* when the StatefulSet controller restarts the pods, one set is updated   *)
(* at a time.  Both need to know how old the copies of the cache and of    *)
(* the pass may be.                                                        *)
(***************************************************************************)
Before(i) == 1..(i - 1)

(***************************************************************************)
(* Sets are not deleted; one that is missing has no annotations.           *)
(***************************************************************************)
ExistInv ==
  \A i \in Indices : /\ ~sets[i].exists => ~Annotated(sets[i])
                     /\ cache.sets[i].exists => sets[i].exists

(***************************************************************************)
(* Which copies of the cluster are the cluster.  While a careful user      *)
(* knows that the operator has their last edit, and so while an annotation *)
(* is pending, the copies of the cache and of a pass are.                  *)
(***************************************************************************)
SeenInv ==
  /\ cache.current => cache.template = template
  /\ ~At("idle") /\ pass.current => cache.current /\ pass.template = template
  /\ informed => cache.current /\ (~At("idle") => pass.current)
  /\ \A i \in Indices : Annotated(sets[i]) => informed

KnownInv == ExistInv /\ SeenInv

(***************************************************************************)
(* Without OnDelete, no pass deletes pods, and a status that says ready    *)
(* and updated is true: the controller takes a set apart only after it has *)
(* observed the new template.                                              *)
(***************************************************************************)
StatusInv ==
  /\ ~At("deleting")
  /\ ~At("idle") => pass.template # NoRevision
  /\ \A i \in Indices :
       /\ sets[i].exists => sets[i].template # NoRevision
       /\ sets[i].updateRevision = NoRevision => sets[i].ready = 0
       /\ sets[i].observed /\ sets[i].ready = Replicas /\ sets[i].updated = Replicas => Settled(i)

(***************************************************************************)
(* A copy of before the last update: it shows the annotation that the      *)
(* update has removed, and no annotation of an earlier set.  The operator  *)
(* goes no further than to that set with it, and cannot write it.          *)
(***************************************************************************)
Lapsed(s, fresh, j) ==
  Annotated(s[j]) /\ j \notin fresh /\ \A i \in Before(j) : ~Annotated(s[i])

(***************************************************************************)
(* A set that looks ready in the cache is settled, or its copy has lapsed. *)
(* Where the copy of an annotated set is fresh, no annotation of an        *)
(* earlier set is missing in the cache.                                    *)
(***************************************************************************)
CacheInv ==
  \A j \in Indices :
    /\ cache.sets[j].exists /\ Ready(cache.sets[j]) =>
         Settled(j) \/ Lapsed(cache.sets, cache.fresh, j)
    /\ j \in cache.fresh /\ Annotated(cache.sets[j]) =>
         \A i \in Before(j) : Annotated(sets[i]) => Annotated(cache.sets[i])

(***************************************************************************)
(* The same for a pass, of all sets, since it has found all ready; what is *)
(* fresh in the pass is fresh in the cache.                                *)
(***************************************************************************)
PassInv ==
  At("loop") =>
    /\ pass.fresh \subseteq cache.fresh
    /\ \A i \in Before(pass.at) : ~Annotated(pass.sets[i])
    /\ \A j \in Indices : Settled(j) \/ Lapsed(pass.sets, pass.fresh, j)
    /\ \A j \in pass.fresh : Annotated(pass.sets[j]) =>
         \A i \in Before(j) : Annotated(sets[i]) \/ Annotated(cache.sets[i]) => Annotated(pass.sets[i])

OrderInv == StatusInv /\ CacheInv /\ PassInv

-----------------------------------------------------------------------------
(***************************************************************************)
(* What steps do to annotations.                                           *)
(***************************************************************************)

(***************************************************************************)
(* Sets, caches and passes have the parts that the steps write.            *)
(***************************************************************************)
LEMMA Parts ==
  ASSUME Inv
  PROVE  /\ \A i \in Indices : sets[i] \in SetObjects /\ cache.sets[i] \in SetObjects
         /\ \A i \in Indices : pass.sets[i] \in SetObjects
         /\ cache.fresh \subseteq Indices /\ pass.fresh \subseteq Indices
         /\ cache.template \in Templates /\ pass.template \in Revisions
BY ConstantTypes DEF Inv, TypeOK, Caches, Passes

(***************************************************************************)
(* A write to one set.                                                     *)
(***************************************************************************)
LEMMA WriteOne ==
  ASSUME Inv, NEW k \in Indices, NEW u, sets' = [sets EXCEPT ![k] = u]
  PROVE  sets'[k] = u /\ \A i \in Indices \ {k} : sets'[i] = sets[i]
BY ConstantTypes DEF Inv, TypeOK

(***************************************************************************)
(* A write makes the copy in the cache stale, and changes no copy.         *)
(***************************************************************************)
LEMMA StaleCache ==
  ASSUME Inv, NEW k, Stale(k)
  PROVE  /\ cache'.sets = cache.sets /\ cache'.fresh = cache.fresh \ {k}
         /\ cache'.template = cache.template /\ cache'.current = cache.current
BY DEF Inv, TypeOK, Caches, Stale

(***************************************************************************)
(* The write of an outsider makes the copy in the pass stale as well.      *)
(***************************************************************************)
LEMMA StalePass ==
  ASSUME Inv, NEW k, SetWritten(k)
  PROVE  /\ pass'.sets = pass.sets /\ pass'.fresh = pass.fresh \ {k} /\ pass'.pc = pass.pc
         /\ pass'.template = pass.template /\ pass'.current = pass.current /\ pass'.at = pass.at
BY DEF Inv, TypeOK, Passes, SetWritten

(***************************************************************************)
(* A pass that goes on holds what it held.                                 *)
(***************************************************************************)
Continues ==
  /\ ~At("idle")' => ~At("idle") /\ pass'.template = pass.template
  /\ At("loop")' => At("loop") /\ pass'.sets = pass.sets /\ pass'.fresh \subseteq pass.fresh

(***************************************************************************)
(* Steps after which the user and the operator know of the cluster what    *)
(* they did, or the user has learned what the pass did.                    *)
(***************************************************************************)
Tidy ==
  /\ UNCHANGED template /\ cache'.template = cache.template /\ cache'.current = cache.current
  /\ ~At("idle")' => /\ ~At("idle") /\ pass'.template = pass.template
                     /\ pass'.current = pass.current
  /\ User = "careful" /\ informed => informed'
  /\ informed' => informed \/ (~At("idle") /\ pass.current)
  /\ \A i \in Indices : Annotated(sets'[i]) => Annotated(sets[i])

(***************************************************************************)
(* Steps that also leave annotations and the cache's view alone.           *)
(***************************************************************************)
Quiet ==
  /\ Tidy /\ Continues
  /\ cache'.sets = cache.sets
  /\ \A i \in Indices : /\ Annotated(sets'[i]) <=> Annotated(sets[i])
                        /\ sets'[i].exists <=> sets[i].exists

(***************************************************************************)
(* A write that keeps existence and annotations, by the operator or by     *)
(* somebody else, is a quiet step.                                         *)
(***************************************************************************)
LEMMA QuietWrite ==
  ASSUME Inv, NEW k \in Indices, NEW u, sets' = [sets EXCEPT ![k] = u],
         u.update = sets[k].update, u.parallel = sets[k].parallel, u.exists = sets[k].exists,
         Stale(k), UNCHANGED <<template, informed>>, Continues,
         ~At("idle")' => pass'.current = pass.current
  PROVE  Quiet
BY ZenonT(60), WriteOne, StaleCache DEF Quiet, Tidy, Continues, Annotated

(***************************************************************************)
(* The steps of a pass that process no annotation.                         *)
(***************************************************************************)
LEMMA QuietPass ==
  ASSUME Inv, SkipStatefulSet \/ RolloutRefused \/ RestartPods \/ DeletePodToUpdate \/ RestOfPass
  PROVE  Quiet /\ UNCHANGED <<sets, cache>>
<1>1. UNCHANGED <<template, informed, sets, cache>>
  BY DEF SkipStatefulSet, RolloutRefused, RestartPods, DeletePodToUpdate, RestOfPass
<1>2. pass \in Passes
  BY DEF Inv, TypeOK
<1>3. Continues /\ (~At("idle")' => pass'.current = pass.current)
  <2>1. CASE SkipStatefulSet
    BY ZenonT(60), <1>2, <2>1 DEF SkipStatefulSet, InLoop, Passes, Continues, At
  <2>2. CASE Return
    BY <2>2, NothingTypes DEF Return, Continues, At
  <2>3. CASE RestartPods
    <3> DEFINE d == PodsToUpdate
    <3> HIDE DEF d
    <3>1. pass' = [pass EXCEPT !.pc = "deleting", !.deleting = d] /\ At("loop")
      BY <2>3 DEF RestartPods, Rolling, InLoop, d
    <3>2. pass'.pc = "deleting" /\ pass'.template = pass.template /\ pass'.current = pass.current
      BY <1>2, <3>1 DEF Passes
    <3> QED
      BY <3>1, <3>2 DEF Continues, At
  <2>4. CASE At("deleting") /\ \E o \in pass.deleting : pass' = [pass EXCEPT !.deleting = @ \ {o}]
    <3>1. pass'.pc = "deleting" /\ pass'.template = pass.template /\ pass'.current = pass.current
      BY ZenonT(60), <1>2, <2>4 DEF Passes, At
    <3> QED
      BY <2>4, <3>1 DEF Continues, At
  <2>5. CASE At("loop") /\ pass' = [pass EXCEPT !.pc = "cleanup", !.sets = cache.sets, !.fresh = {}]
    <3>1. pass'.pc = "cleanup" /\ pass'.template = pass.template /\ pass'.current = pass.current
      BY ZenonT(60), <1>2, <2>5 DEF Passes
    <3> QED
      BY <2>5, <3>1 DEF Continues, At
  <2> QED
    BY ZenonT(60), <2>1, <2>2, <2>3, <2>4, <2>5 DEF RolloutRefused, RestOfPass, DeletePodToUpdate
<1> QED
  BY ZenonT(60), <1>1, <1>3 DEF Quiet, Tidy, Continues

(***************************************************************************)
(* The completion of a status and the removal of the in-progress           *)
(* annotation, after which the pass tells which edit it has seen.          *)
(***************************************************************************)
LEMMA QuietFinish ==
  ASSUME Inv, CompleteRollout \/ CleanupAnnotations
  PROVE  Quiet
<1>1. UNCHANGED template /\ pass \in Passes /\ pass.current \in BOOLEAN /\ informed \in BOOLEAN
  BY DEF CompleteRollout, CleanupAnnotations, Inv, TypeOK, Passes
<1>2. CASE UNCHANGED <<informed, sets, cache>> /\ Return
  BY ZenonT(60), <1>1, <1>2, NothingTypes DEF Return, Quiet, Tidy, Continues, At
<1>3. CASE /\ InLoop /\ UNCHANGED informed
           /\ sets' = [sets EXCEPT ![pass.at].currentRevision = Here.updateRevision]
           /\ Stale(pass.at)
           /\ pass' = [pass EXCEPT !.at = @ + 1, !.fresh = @ \ {pass.at}]
  <2>1. pass.at \in Indices /\ sets[pass.at] \in SetObjects
    BY <1>3, LoopTypes, Parts
  <2>2. Continues /\ pass'.current = pass.current
    BY ZenonT(60), <1>1, <1>3 DEF InLoop, Passes, Continues, At
  <2> DEFINE u == [sets[pass.at] EXCEPT !.currentRevision = Here.updateRevision]
  <2>3. /\ u.update = sets[pass.at].update /\ u.parallel = sets[pass.at].parallel
        /\ u.exists = sets[pass.at].exists
    BY ZenonT(60), <2>1 DEF SetObjects
  <2>4. sets' = [sets EXCEPT ![pass.at] = u]
    BY ZenonT(60), <1>3
  <2> HIDE DEF u
  <2> QED
    BY ZenonT(60), <1>1, <1>3, <2>1, <2>2, <2>3, <2>4, QuietWrite
<1>4. ASSUME NEW i \in InProgress, At("cleanup"), UNCHANGED informed,
             sets' = [sets EXCEPT ![i].inProgress = NoValue], Stale(i),
             pass' = [pass EXCEPT !.sets[i].inProgress = NoValue]
      PROVE  Quiet
  <2>1. i \in Indices /\ sets[i] \in SetObjects
    BY Parts DEF InProgress
  <2>2. Continues /\ pass'.current = pass.current
    <3>1. pass'.pc = "cleanup" /\ pass'.template = pass.template /\ pass'.current = pass.current
      BY ZenonT(60), <1>1, <1>4 DEF Passes, At
    <3> QED
      BY <1>4, <3>1 DEF Continues, At
  <2> DEFINE u == [sets[i] EXCEPT !.inProgress = NoValue]
  <2>3. u.update = sets[i].update /\ u.parallel = sets[i].parallel /\ u.exists = sets[i].exists
    BY ZenonT(60), <2>1 DEF SetObjects
  <2>4. sets' = [sets EXCEPT ![i] = u]
    BY ZenonT(60), <1>4
  <2> HIDE DEF u
  <2> QED
    BY ZenonT(60), <1>1, <1>4, <2>1, <2>2, <2>3, <2>4, QuietWrite
<1>5. CASE /\ At("cleanup") /\ Return /\ UNCHANGED <<sets, cache>>
           /\ informed' = (User = "careful" /\ (informed \/ pass.current))
  <2>1. (informed' => informed \/ pass.current) /\ ~At("idle") /\ At("idle")'
    BY ZenonT(60), <1>1, <1>5, NothingTypes DEF Return, At
  <2> QED
    BY ZenonT(60), <1>1, <1>5, <2>1 DEF Quiet, Tidy, Continues, At
<1> QED
  BY ZenonT(60), <1>2, <1>3, <1>4, <1>5 DEF CompleteRollout, CleanupAnnotations, Rolling

(***************************************************************************)
(* The status that the StatefulSet controller writes.                      *)
(***************************************************************************)
LEMMA StatusParts ==
  ASSUME Inv, NEW i \in Indices, UpdateSetStatus(i)
  PROVE  \E u : /\ sets' = [sets EXCEPT ![i] = u]
                /\ u.update = sets[i].update /\ u.parallel = sets[i].parallel
                /\ u.exists = sets[i].exists /\ u.template = sets[i].template
                /\ u.updateRevision = sets[i].template
                /\ u.ready = Cardinality({o \in Ordinals : pods[i][o].ready})
                /\ u.updated = Cardinality({o \in Ordinals : pods[i][o].rev = sets[i].template})
<1> DEFINE ready == Cardinality({o \in Ordinals : pods[i][o].ready})
           updated == Cardinality({o \in Ordinals : pods[i][o].rev = sets[i].template})
           done == ~OnDelete /\ ready = Replicas /\ updated = Replicas
           current == IF sets[i].currentRevision = NoRevision \/ done
                      THEN sets[i].template ELSE sets[i].currentRevision
           new == [sets[i] EXCEPT !.observed = TRUE, !.ready = ready, !.updated = updated,
                                  !.updateRevision = sets[i].template, !.currentRevision = current]
<1>1. sets[i] \in SetObjects
  BY Parts
<1>2. sets' = [sets EXCEPT ![i] = new]
  BY ZenonT(60) DEF UpdateSetStatus
<1> HIDE DEF ready, updated, done, current
<1>3. /\ new.update = sets[i].update /\ new.parallel = sets[i].parallel
      /\ new.exists = sets[i].exists /\ new.template = sets[i].template
      /\ new.updateRevision = sets[i].template /\ new.ready = ready /\ new.updated = updated
  BY ZenonT(60), <1>1 DEF SetObjects
<1> HIDE DEF new
<1> QED
  BY ZenonT(60), <1>2, <1>3 DEF ready, updated

(***************************************************************************)
(* The StatefulSet controller and the watch on pods.                       *)
(***************************************************************************)
LEMMA QuietController == ASSUME Inv, StatefulSetController \/ SyncPods PROVE Quiet
<1>1. ASSUME NEW i \in Indices, UpdateSetStatus(i) PROVE Quiet
  <2>1. UNCHANGED <<template, informed>> /\ SetWritten(i) /\ Stale(i)
    BY <1>1 DEF UpdateSetStatus, SetWritten
  <2>2. Continues /\ pass'.current = pass.current
    BY ZenonT(60), <2>1, StalePass DEF Continues, At
  <2> QED
    BY ZenonT(60), <1>1, <2>1, <2>2, StatusParts, QuietWrite
<1>2. CASE UNCHANGED <<template, informed, sets, cache, pass>>
  BY ZenonT(60), <1>2 DEF Quiet, Tidy, Continues, At
<1>3. CASE SyncPods
  <2>1. /\ UNCHANGED <<template, informed, sets, pass>> /\ cache'.sets = cache.sets
        /\ cache'.template = cache.template /\ cache'.current = cache.current
    BY ZenonT(60), <1>3 DEF SyncPods, Inv, TypeOK, Caches
  <2> QED
    BY ZenonT(60), <2>1 DEF Quiet, Tidy, Continues, At
<1> QED
  BY <1>1, <1>2, <1>3 DEF StatefulSetController, CreatePod, BecomeReady, RollPod

(***************************************************************************)
(* What applyStatefulSetUpdate writes: the set without its annotations and *)
(* with the pass's template.  A set that it changes is not observed yet.   *)
(***************************************************************************)
LEMMA UpdatedParts ==
  ASSUME NEW s \in SetObjects, NEW t, NEW u \in UpdatedStatefulSets(s, t)
  PROVE  /\ ~Annotated(u) /\ u.exists = s.exists /\ u.template = t
         /\ u.updateRevision = s.updateRevision /\ u.ready = s.ready
         /\ u.updated = s.updated
         /\ u.observed => s.template = t /\ s.observed
<1>1. /\ ~Annotated(Cleared(s)) /\ Cleared(s).exists = s.exists /\ Cleared(s).template = s.template
      /\ Cleared(s).updateRevision = s.updateRevision /\ Cleared(s).ready = s.ready
      /\ Cleared(s).updated = s.updated /\ Cleared(s).observed = s.observed
  BY ZenonT(60) DEF SetObjects, Cleared, Annotated
<1>2. CASE s.template = t
  <2>1. u = Cleared(s)
    BY ZenonT(60), <1>2 DEF UpdatedStatefulSets, Cleared
  <2> QED
    BY ZenonT(60), <1>1, <1>2, <2>1
<1>3. CASE s.template # t
  <2>1. PICK v \in InProgressValues(s) : u = Applied(s, t, v)
    BY ZenonT(60), <1>3 DEF UpdatedStatefulSets, Applied, Cleared
  <2>2. /\ ~Annotated(Applied(s, t, v)) /\ Applied(s, t, v).exists = s.exists
        /\ Applied(s, t, v).template = t /\ Applied(s, t, v).updateRevision = s.updateRevision
        /\ Applied(s, t, v).ready = s.ready /\ Applied(s, t, v).updated = s.updated
        /\ ~Applied(s, t, v).observed
    BY ZenonT(60) DEF SetObjects, Applied, Cleared, Annotated
  <2> QED
    BY ZenonT(60), <2>1, <2>2
<1> QED
  BY <1>2, <1>3

(***************************************************************************)
(* The write of applyStatefulSetUpdate, when there is one: from a copy     *)
(* that is the set, to that set.                                           *)
(***************************************************************************)
LEMMA ApplyParts ==
  ASSUME Inv, ApplyStatefulSetUpdate
  PROVE  /\ pass' = NoPass /\ UNCHANGED <<template, informed, pods>> /\ InLoop /\ At("loop")
         /\ pass.at \in Indices /\ Annotated(pass.sets[pass.at])
         /\ \/ UNCHANGED <<sets, cache>>
            \/ /\ pass.at \in pass.fresh /\ Stale(pass.at)
               /\ pass.sets[pass.at] = sets[pass.at]
               /\ \E u \in UpdatedStatefulSets(sets[pass.at], pass.template) :
                    sets' = [sets EXCEPT ![pass.at] = u]
<1>1. /\ InLoop /\ Annotated(Here) /\ Return /\ UNCHANGED <<template, informed, pods>>
      /\ \/ UNCHANGED <<sets, cache>>
         \/ /\ CanWrite(pass.at) /\ Stale(pass.at)
            /\ \E u \in UpdatedStatefulSets(Here, pass.template) : sets' = [sets EXCEPT ![pass.at] = u]
  BY ZenonT(60) DEF ApplyStatefulSetUpdate
<1>2. pass.at \in Indices /\ At("loop") /\ (CanWrite(pass.at) => Here = sets[pass.at])
  BY <1>1, LoopTypes DEF InLoop
<1> QED
  BY ZenonT(60), <1>1, <1>2 DEF Return, Here, CanWrite

(***************************************************************************)
(* A set that is created has nothing yet but its template.                 *)
(***************************************************************************)
LEMMA CreateParts ==
  ASSUME Inv, NEW i \in Indices, CreateStatefulSet(i)
  PROVE  /\ pass' = NoPass /\ UNCHANGED <<template, informed, pods>> /\ At("begun")
         /\ \/ UNCHANGED <<sets, cache>>
            \/ \E k \in Indices : \E u :
                 /\ ~sets[k].exists /\ sets' = [sets EXCEPT ![k] = u] /\ Stale(k)
                 /\ u.exists /\ ~Annotated(u) /\ u.template = pass.template
                 /\ ~u.observed /\ u.ready = 0
<1> DEFINE u == [NoSet EXCEPT !.exists = TRUE, !.template = pass.template]
<1>1. u.exists /\ ~Annotated(u) /\ u.template = pass.template /\ ~u.observed /\ u.ready = 0
  BY ZenonT(60) DEF NoSet, Annotated
<1>2. GeneratedIndex(i) \in Indices
  BY RolloutAssumption DEF GeneratedIndex, Indices
<1>3. /\ pass' = NoPass /\ UNCHANGED <<template, informed, pods>> /\ At("begun")
      /\ \/ UNCHANGED <<sets, cache>>
         \/ /\ ~sets[GeneratedIndex(i)].exists /\ Stale(GeneratedIndex(i))
            /\ sets' = [sets EXCEPT ![GeneratedIndex(i)] = u]
  BY ZenonT(60) DEF CreateStatefulSet, Return
<1> HIDE DEF u
<1> QED
  BY ZenonT(60), <1>1, <1>2, <1>3

(***************************************************************************)
(* What a user writes: annotations, on a set that exists.                  *)
(***************************************************************************)
LEMMA AnnotateParts ==
  ASSUME Inv, NEW i \in Indices, NEW v \in {NoValue} \cup ParallelValues, Annotate(i, v)
  PROVE  /\ UNCHANGED <<template, informed, pods>> /\ SetWritten(i) /\ Stale(i) /\ sets[i].exists
         /\ \E u : /\ sets' = [sets EXCEPT ![i] = u]
                   /\ u.exists = sets[i].exists /\ u.template = sets[i].template
                   /\ u.updateRevision = sets[i].updateRevision /\ u.ready = sets[i].ready
                   /\ u.updated = sets[i].updated /\ u.observed = sets[i].observed
<1>1. sets[i] \in SetObjects
  BY Parts
<1>2. UNCHANGED <<template, informed, pods>> /\ SetWritten(i) /\ Stale(i) /\ sets[i].exists
  BY DEF Annotate, SetWritten
<1>3. \E u \in {[sets[i] EXCEPT !.update = TRUE], [sets[i] EXCEPT !.parallel = v]} :
        sets' = [sets EXCEPT ![i] = u]
  <2>1. sets' = [sets EXCEPT ![i] = IF v = NoValue THEN [sets[i] EXCEPT !.update = TRUE]
                                    ELSE [sets[i] EXCEPT !.parallel = v]]
    BY ZenonT(60) DEF Annotate
  <2> QED
    BY ZenonT(60), <2>1
<1>4. \A u \in {[sets[i] EXCEPT !.update = TRUE], [sets[i] EXCEPT !.parallel = v]} :
        /\ u.exists = sets[i].exists /\ u.template = sets[i].template
        /\ u.updateRevision = sets[i].updateRevision /\ u.ready = sets[i].ready
        /\ u.updated = sets[i].updated /\ u.observed = sets[i].observed
  BY ZenonT(60), <1>1 DEF SetObjects
<1> QED
  BY ZenonT(60), <1>2, <1>3, <1>4

-----------------------------------------------------------------------------
(***************************************************************************)
(* An annotation goes away only by being processed.                        *)
(***************************************************************************)

(***************************************************************************)
(* The kinds of steps: most write no set and renew copies of all sets at   *)
(* once, if any, or are quiet.                                             *)
(***************************************************************************)
LEMMA Kinds ==
  ASSUME Inv, [Next]_vars
  PROVE  \/ UNCHANGED sets /\ (cache'.sets = cache.sets \/ cache'.sets = sets)
         \/ Quiet \/ ApplyStatefulSetUpdate
         \/ \E i \in Indices : CreateStatefulSet(i)
         \/ \E i \in Indices, v \in {NoValue} \cup ParallelValues : Annotate(i, v)
<1>1. CASE Pass
  <2>1. StartPass \/ CheckStatefulSets => UNCHANGED <<sets, cache>>
    BY DEF StartPass, CheckStatefulSets
  <2> QED
    BY ZenonT(60), <1>1, <2>1, QuietPass, QuietFinish DEF Pass
<1>2. CASE Environment
  <2>1. SyncCluster => UNCHANGED sets /\ cache'.sets = cache.sets
    BY ZenonT(60) DEF SyncCluster, Inv, TypeOK, Caches
  <2>2. SyncSets => UNCHANGED sets /\ cache'.sets = sets
    BY ZenonT(60) DEF SyncSets, Inv, TypeOK, Caches
  <2>3. PassAborts => UNCHANGED sets /\ (cache'.sets = cache.sets \/ cache'.sets = sets)
    BY DEF PassAborts
  <2>4. \A t \in Templates : ChangeTemplate(t) => UNCHANGED sets /\ cache'.sets = cache.sets
    BY ZenonT(60) DEF ChangeTemplate, Inv, TypeOK, Caches
  <2> QED
    BY ZenonT(60), <1>2, <2>1, <2>2, <2>3, <2>4, QuietController DEF Environment, Users
<1>3. CASE UNCHANGED vars
  BY <1>3 DEF vars
<1> QED
  BY <1>1, <1>2, <1>3 DEF Next

(***************************************************************************)
(* At first nothing is annotated.                                          *)
(***************************************************************************)
LEMMA InitUnannotated == ASSUME Init PROVE \A i \in Indices : ~Annotated(sets[i])
<1>1. ~Annotated(NoSet) /\ ~Annotated(RunningSet)
  BY ZenonT(60) DEF Annotated, NoSet, RunningSet
<1> QED
  BY ZenonT(60), <1>1 DEF Init

(***************************************************************************)
(* The cache shows no set before it is created.                            *)
(***************************************************************************)
LEMMA InitExist == Init => ExistInv
<1> SUFFICES ASSUME Init PROVE ExistInv
  OBVIOUS
<1>1. \A i \in Indices : ~Annotated(sets[i])
  BY InitUnannotated
<1>2. cache.sets = sets
  BY DEF Init
<1> QED
  BY ZenonT(60), <1>1, <1>2 DEF ExistInv

(***************************************************************************)
(* Every step keeps it so, whatever users do.                              *)
(***************************************************************************)
LEMMA StepExist == ASSUME Inv, ExistInv, [Next]_vars PROVE ExistInv'
<1> SUFFICES /\ cache'.sets = cache.sets \/ cache'.sets = sets
             /\ \A i \in Indices : /\ sets[i].exists => sets'[i].exists
                                   /\ ~sets'[i].exists => ~Annotated(sets'[i])
  BY ZenonT(60) DEF ExistInv, Annotated
<1>1. CASE UNCHANGED sets /\ (cache'.sets = cache.sets \/ cache'.sets = sets)
  BY ZenonT(60), <1>1 DEF ExistInv
<1>2. CASE Quiet
  BY ZenonT(60), <1>2 DEF ExistInv, Quiet
<1>3. CASE ApplyStatefulSetUpdate
  <2>1. pass.at \in Indices /\ sets[pass.at] \in SetObjects
    BY <1>3, ApplyParts, Parts
  <2>2. ASSUME NEW u \in UpdatedStatefulSets(sets[pass.at], pass.template), Stale(pass.at),
               sets' = [sets EXCEPT ![pass.at] = u]
        PROVE  /\ cache'.sets = cache.sets
               /\ \A i \in Indices : /\ sets[i].exists => sets'[i].exists
                                     /\ ~sets'[i].exists => ~Annotated(sets'[i])
    <3>1. ~Annotated(u) /\ u.exists = sets[pass.at].exists
      BY <2>1, <2>2, UpdatedParts
    <3>2. /\ sets'[pass.at] = u /\ \A i \in Indices \ {pass.at} : sets'[i] = sets[i]
          /\ cache'.sets = cache.sets
      BY ZenonT(60), <2>1, <2>2, WriteOne, StaleCache
    <3> QED
      BY ZenonT(60), <3>1, <3>2 DEF ExistInv
  <2> QED
    BY ZenonT(60), <1>1, <1>3, <2>2, ApplyParts
<1>4. ASSUME NEW k \in Indices, CreateStatefulSet(k)
      PROVE  /\ cache'.sets = cache.sets
             /\ \A i \in Indices : /\ sets[i].exists => sets'[i].exists
                                   /\ ~sets'[i].exists => ~Annotated(sets'[i])
  <2>1. CASE UNCHANGED <<sets, cache>>
    BY ZenonT(60), <2>1 DEF ExistInv
  <2>2. ASSUME NEW j \in Indices, NEW u, sets' = [sets EXCEPT ![j] = u], Stale(j),
               u.exists, ~Annotated(u)
        PROVE  /\ cache'.sets = cache.sets
               /\ \A i \in Indices : /\ sets[i].exists => sets'[i].exists
                                     /\ ~sets'[i].exists => ~Annotated(sets'[i])
    <3>1. /\ sets'[j] = u /\ \A i \in Indices \ {j} : sets'[i] = sets[i]
          /\ cache'.sets = cache.sets
      BY ZenonT(60), <2>2, WriteOne, StaleCache
    <3> QED
      BY ZenonT(60), <2>2, <3>1 DEF ExistInv
  <2> QED
    BY ZenonT(60), <1>4, <2>1, <2>2, CreateParts
<1>5. ASSUME NEW k \in Indices, NEW v \in {NoValue} \cup ParallelValues, Annotate(k, v)
      PROVE  /\ cache'.sets = cache.sets
             /\ \A i \in Indices : /\ sets[i].exists => sets'[i].exists
                                   /\ ~sets'[i].exists => ~Annotated(sets'[i])
  <2>1. PICK u : /\ sets' = [sets EXCEPT ![k] = u] /\ u.exists = sets[k].exists
                 /\ sets[k].exists /\ Stale(k)
    BY ZenonT(60), <1>5, AnnotateParts
  <2>2. /\ sets'[k] = u /\ \A i \in Indices \ {k} : sets'[i] = sets[i]
        /\ cache'.sets = cache.sets
    BY ZenonT(60), <2>1, WriteOne, StaleCache
  <2> QED
    BY ZenonT(60), <2>1, <2>2 DEF ExistInv
<1> QED
  BY ZenonT(60), <1>1, <1>2, <1>3, <1>4, <1>5, Kinds

(***************************************************************************)
(* A user's annotation takes none away.                                    *)
(***************************************************************************)
LEMMA AnnotateAdds ==
  ASSUME Inv, NEW i \in Indices, NEW v \in {NoValue} \cup ParallelValues, Annotate(i, v)
  PROVE  \E u : sets' = [sets EXCEPT ![i] = u] /\ Annotated(u)
<1>1. sets[i] \in SetObjects
  BY Parts
<1>2. CASE v = NoValue
  <2>1. sets' = [sets EXCEPT ![i] = [sets[i] EXCEPT !.update = TRUE]]
    BY <1>2, ZenonT(60) DEF Annotate
  <2>2. Annotated([sets[i] EXCEPT !.update = TRUE])
    BY ZenonT(60), <1>1 DEF SetObjects, Annotated
  <2> QED
    BY ZenonT(60), <2>1, <2>2
<1>3. CASE v # NoValue
  <2>1. sets' = [sets EXCEPT ![i] = [sets[i] EXCEPT !.parallel = v]]
    BY <1>3, ZenonT(60) DEF Annotate
  <2>2. Annotated([sets[i] EXCEPT !.parallel = v])
    BY ZenonT(60), <1>1, <1>3 DEF SetObjects, Annotated
  <2> QED
    BY ZenonT(60), <2>1, <2>2
<1> QED
  BY <1>2, <1>3

(***************************************************************************)
(* Who takes an annotation away: a pass at that set, with a copy that is   *)
(* the set, which gives it the pass's template.                            *)
(***************************************************************************)
LEMMA WhoProcesses ==
  ASSUME Inv, ExistInv, [Next]_vars, NEW i \in Indices, Annotated(sets[i]), ~Annotated(sets'[i])
  PROVE  /\ InLoop /\ pass.at = i /\ pass.sets[i] = sets[i]
         /\ sets'[i].template = pass.template
<1>1. sets'[i] # sets[i] /\ sets[i].exists
  BY ZenonT(60) DEF ExistInv
<1>2. ~Quiet
  BY ZenonT(60) DEF Quiet
<1>3. ~\E k \in Indices : CreateStatefulSet(k)
  BY ZenonT(60), <1>1, CreateParts, WriteOne
<1>4. ~\E k \in Indices, v \in {NoValue} \cup ParallelValues : Annotate(k, v)
  <2> SUFFICES ASSUME NEW k \in Indices, NEW v \in {NoValue} \cup ParallelValues, Annotate(k, v)
               PROVE  FALSE
    OBVIOUS
  <2>1. PICK u : sets' = [sets EXCEPT ![k] = u] /\ Annotated(u)
    BY AnnotateAdds
  <2>2. sets'[k] = u /\ \A j \in Indices \ {k} : sets'[j] = sets[j]
    BY ZenonT(60), <2>1, WriteOne
  <2> QED
    BY ZenonT(60), <1>1, <2>1, <2>2
<1>5. ApplyStatefulSetUpdate /\ ~UNCHANGED sets
  BY ZenonT(60), <1>1, <1>2, <1>3, <1>4, Kinds
<1>6. /\ InLoop /\ pass.at \in Indices /\ pass.sets[pass.at] = sets[pass.at]
      /\ \E u \in UpdatedStatefulSets(sets[pass.at], pass.template) : sets' = [sets EXCEPT ![pass.at] = u]
  BY ZenonT(60), <1>5, ApplyParts
<1>7. PICK u \in UpdatedStatefulSets(sets[pass.at], pass.template) : sets' = [sets EXCEPT ![pass.at] = u]
  BY <1>6
<1>8. u.template = pass.template
  <2> sets[pass.at] \in SetObjects
    BY <1>6, Parts
  <2> QED
    BY UpdatedParts
<1>9. pass.at = i /\ sets'[i] = u
  BY ZenonT(60), <1>1, <1>6, <1>7, WriteOne
<1> QED
  BY ZenonT(60), <1>6, <1>8, <1>9

(***************************************************************************)
(* "Ensure we keep old object meta so that resource version info can be    *)
(* used by K8s API for conflict resolution" (updatedStatefulSet): no write *)
(* of the operator loses an annotation that its pass has not read, for any *)
(* users and either strategy.                                              *)
(***************************************************************************)
THEOREM AnnotationsAreNotLost == Spec => NoAnnotationLost
<1>1. Init => Inv /\ ExistInv
  BY InitInv, InitExist
<1>2. Inv /\ ExistInv /\ [Next]_vars => Inv' /\ ExistInv'
  BY StepInv, StepExist
<1>3. Inv /\ ExistInv /\ [Next]_vars =>
        [\A i \in Indices : Annotated(sets[i]) /\ ~Annotated(sets'[i]) =>
           /\ InLoop /\ pass.at = i
           /\ Here.update = sets[i].update /\ Here.parallel = sets[i].parallel]_vars
  BY ZenonT(60), WhoProcesses DEF Here
<1> QED
  BY <1>1, <1>2, <1>3, PTL DEF Spec, NoAnnotationLost

-----------------------------------------------------------------------------
(***************************************************************************)
(* To a careful user an annotation that is gone has been processed.        *)
(***************************************************************************)

(***************************************************************************)
(* At first the cache has the cluster, and the user does not know.         *)
(***************************************************************************)
LEMMA InitSeen == Init => SeenInv
<1> SUFFICES ASSUME Init PROVE SeenInv
  OBVIOUS
<1>1. \A i \in Indices : ~Annotated(sets[i])
  BY InitUnannotated
<1>2. cache.template = template /\ ~informed /\ pass.pc = "idle"
  BY NothingTypes DEF Init
<1> QED
  BY ZenonT(60), <1>1, <1>2 DEF SeenInv, At

(***************************************************************************)
(* A tidy step keeps what is known.                                        *)
(***************************************************************************)
LEMMA TidySeen == ASSUME User = "careful", SeenInv, Tidy PROVE SeenInv'
<1>1. cache'.current => cache'.template = template'
  BY ZenonT(60) DEF SeenInv, Tidy
<1>2. ~At("idle")' /\ pass'.current => cache'.current /\ pass'.template = template'
  BY ZenonT(60) DEF SeenInv, Tidy
<1>3. informed' => cache'.current /\ (~At("idle")' => pass'.current)
  BY ZenonT(60) DEF SeenInv, Tidy
<1>4. \A i \in Indices : Annotated(sets'[i]) => informed'
  BY ZenonT(60) DEF SeenInv, Tidy
<1> QED
  BY ZenonT(60), <1>1, <1>2, <1>3, <1>4 DEF SeenInv, Annotated, At

(***************************************************************************)
(* A pass begins with the copy of the cache.                               *)
(***************************************************************************)
LEMMA StartSeen == ASSUME SeenInv, StartPass PROVE SeenInv'
<1>1. UNCHANGED <<template, informed, sets, cache>>
  BY DEF StartPass
<1>2. pass'.template = cache.template /\ pass'.current = cache.current
  BY ZenonT(60) DEF StartPass, NoPass
<1> QED
  BY ZenonT(60), <1>1, <1>2 DEF SeenInv, Annotated

(***************************************************************************)
(* The steps that begin with a listing, and an update: it removes          *)
(* annotations, and ends the pass.                                         *)
(***************************************************************************)
LEMMA TidyPass ==
  ASSUME Inv, \/ CheckStatefulSets \/ ApplyStatefulSetUpdate
              \/ \E i \in Indices : CreateStatefulSet(i)
  PROVE  Tidy
<1>1. CASE CheckStatefulSets
  <2>1. UNCHANGED <<template, informed, sets, cache>> /\ At("begun")
    BY <1>1 DEF CheckStatefulSets
  <2>2. CASE Return
    BY ZenonT(60), <2>1, <2>2, NothingTypes DEF Tidy, Return, At
  <2>3. CASE pass' = [pass EXCEPT !.pc = "loop", !.at = 1, !.sets = cache.sets, !.fresh = cache.fresh]
    <3>1. pass'.template = pass.template /\ pass'.current = pass.current
      BY ZenonT(60), <2>3 DEF Inv, TypeOK, Passes
    <3> QED
      BY ZenonT(60), <2>1, <3>1 DEF Tidy, At
  <2> QED
    BY <1>1, <2>2, <2>3 DEF CheckStatefulSets
<1>2. CASE ApplyStatefulSetUpdate
  <2>1. pass' = NoPass /\ UNCHANGED <<template, informed>> /\ pass.at \in Indices
    BY <1>2, ApplyParts
  <2>2. CASE UNCHANGED <<sets, cache>>
    BY ZenonT(60), <2>1, <2>2, NothingTypes DEF Tidy, At
  <2>3. ASSUME NEW u \in UpdatedStatefulSets(sets[pass.at], pass.template), Stale(pass.at),
               sets' = [sets EXCEPT ![pass.at] = u]
        PROVE  Tidy
    <3> sets[pass.at] \in SetObjects
      BY <2>1, Parts
    <3>1. ~Annotated(u)
      BY UpdatedParts
    <3>2. /\ \A i \in Indices : Annotated(sets'[i]) => Annotated(sets[i])
          /\ cache'.template = cache.template /\ cache'.current = cache.current
      BY ZenonT(60), <2>1, <2>3, <3>1, WriteOne, StaleCache
    <3> QED
      BY ZenonT(60), <2>1, <3>2, NothingTypes DEF Tidy, At
  <2> QED
    BY ZenonT(60), <1>2, <2>2, <2>3, ApplyParts
<1>3. ASSUME NEW i \in Indices, CreateStatefulSet(i) PROVE Tidy
  <2>1. pass' = NoPass /\ UNCHANGED <<template, informed>>
    BY <1>3, CreateParts
  <2>2. CASE UNCHANGED <<sets, cache>>
    BY ZenonT(60), <2>1, <2>2, NothingTypes DEF Tidy, At
  <2>3. ASSUME NEW k \in Indices, NEW u, sets' = [sets EXCEPT ![k] = u], Stale(k), ~Annotated(u)
        PROVE  Tidy
    <3>1. /\ \A j \in Indices : Annotated(sets'[j]) => Annotated(sets[j])
          /\ cache'.template = cache.template /\ cache'.current = cache.current
      BY ZenonT(60), <2>3, WriteOne, StaleCache
    <3> QED
      BY ZenonT(60), <2>1, <3>1, NothingTypes DEF Tidy, At
  <2> QED
    BY ZenonT(60), <1>3, <2>2, <2>3, CreateParts
<1> QED
  BY <1>1, <1>2, <1>3

(***************************************************************************)
(* What the watches bring, and a restart.                                  *)
(***************************************************************************)
LEMMA SyncParts ==
  ASSUME Inv, SyncCluster \/ SyncSets \/ PassAborts
  PROVE  /\ \/ cache'.template = cache.template /\ cache'.current = cache.current
            \/ cache'.template = template /\ cache'.current = TRUE
         /\ \/ cache'.sets = cache.sets /\ cache'.fresh = cache.fresh
            \/ cache'.sets = sets /\ cache'.fresh = Indices
         /\ UNCHANGED <<template, informed, sets, pods>>
         /\ UNCHANGED pass \/ pass' = NoPass
<1>1. CASE SyncCluster
  BY ZenonT(60), <1>1 DEF SyncCluster, Inv, TypeOK, Caches
<1>2. CASE SyncSets
  BY ZenonT(60), <1>2 DEF SyncSets, Inv, TypeOK, Caches
<1>3. CASE PassAborts
  BY <1>3 DEF PassAborts, Return
<1> QED
  BY <1>1, <1>2, <1>3

(***************************************************************************)
(* The watches and a restart bring the cache nearer to what is there.      *)
(***************************************************************************)
LEMMA SyncSeen == ASSUME Inv, SeenInv, SyncCluster \/ SyncSets \/ PassAborts PROVE SeenInv'
<1>1. UNCHANGED <<template, informed, sets>>
  BY SyncParts
<1>2. /\ cache'.current => cache'.template = template
      /\ cache.current => cache'.current
  BY ZenonT(60), SyncParts DEF SeenInv
<1>3. ~At("idle")' => ~At("idle") /\ pass' = pass
  BY ZenonT(60), SyncParts, NothingTypes DEF At
<1>4. ~At("idle")' /\ pass'.current => cache'.current /\ pass'.template = template
  BY ZenonT(60), <1>2, <1>3 DEF SeenInv
<1>5. informed => cache'.current /\ (~At("idle")' => pass'.current)
  BY ZenonT(60), <1>2, <1>3 DEF SeenInv
<1>6. \A i \in Indices : Annotated(sets[i]) => informed
  BY DEF SeenInv
<1> QED
  BY ZenonT(60), <1>1, <1>2, <1>4, <1>5, <1>6 DEF SeenInv, Annotated, At

(***************************************************************************)
(* A careful user edits the cluster when nothing is annotated, and         *)
(* annotates when the operator has reported the edit.                      *)
(***************************************************************************)
LEMMA UsersSeen ==
  ASSUME User = "careful", Inv, SeenInv, Users
  PROVE  SeenInv'
<1>1. ASSUME NEW t \in Templates, ChangeTemplate(t) PROVE SeenInv'
  <2>1. UNCHANGED sets /\ (\A i \in Indices : ~Annotated(sets[i])) /\ ~informed'
    BY <1>1 DEF ChangeTemplate
  <2>2. ~cache'.current /\ ~pass'.current
    BY ZenonT(60), <1>1 DEF ChangeTemplate, Inv, TypeOK, Caches, Passes
  <2> QED
    BY ZenonT(60), <2>1, <2>2 DEF SeenInv, Annotated
<1>2. ASSUME NEW i \in Indices, NEW v \in {NoValue} \cup ParallelValues, Annotate(i, v)
      PROVE  SeenInv'
  <2>1. UNCHANGED <<template, informed>> /\ SetWritten(i) /\ Stale(i) /\ informed
    BY <1>2, AnnotateParts DEF Annotate
  <2>2. /\ cache'.template = cache.template /\ cache'.current = cache.current
        /\ pass'.pc = pass.pc /\ pass'.template = pass.template /\ pass'.current = pass.current
    BY ZenonT(60), <2>1, StaleCache, StalePass
  <2> QED
    BY ZenonT(60), <2>1, <2>2 DEF SeenInv, At
<1> QED
  BY <1>1, <1>2 DEF Users

(***************************************************************************)
(* Every step keeps what is known.                                         *)
(***************************************************************************)
LEMMA StepKnown ==
  ASSUME User = "careful", Inv, KnownInv, [Next]_vars
  PROVE  KnownInv'
<1>1. ExistInv' /\ SeenInv
  BY StepExist DEF KnownInv
<1>2. CASE Pass
  <2>1. Tidy => SeenInv'
    BY <1>1, TidySeen
  <2>2. Quiet => Tidy
    BY DEF Quiet
  <2> QED
    BY ZenonT(60), <1>1, <1>2, <2>1, <2>2, QuietPass, QuietFinish, TidyPass, StartSeen DEF Pass, KnownInv
<1>3. CASE Environment
  <2>1. Quiet => SeenInv'
    BY <1>1, TidySeen DEF Quiet
  <2> QED
    BY ZenonT(60), <1>1, <1>3, <2>1, SyncSeen, QuietController, UsersSeen DEF Environment, KnownInv
<1>4. CASE UNCHANGED vars
  <2>1. Tidy
    BY ZenonT(60), <1>4 DEF vars, Tidy, At
  <2> QED
    BY <1>1, <2>1, TidySeen DEF KnownInv
<1> QED
  BY <1>2, <1>3, <1>4 DEF Next

(***************************************************************************)
(* A pass at an annotated set has the template that is asked for.          *)
(***************************************************************************)
LEMMA PendingKnown ==
  ASSUME KnownInv, ~At("idle"), NEW i \in Indices, Annotated(sets[i])
  PROVE  pass.template = template
BY ZenonT(60) DEF KnownInv, SeenInv

(***************************************************************************)
(* A step that takes an annotation away has given the set the template.    *)
(***************************************************************************)
LEMMA StepProcessed ==
  ASSUME Inv, KnownInv, [Next]_vars, NEW i \in Indices, Annotated(sets[i]), ~Annotated(sets'[i])
  PROVE  sets'[i].template = template
<1>1. InLoop /\ sets'[i].template = pass.template
  BY WhoProcesses DEF KnownInv
<1>2. ~At("idle")
  BY <1>1 DEF InLoop, At
<1> QED
  BY <1>1, <1>2, PendingKnown

(***************************************************************************)
(* What is known holds in every reachable state, if the user is careful.   *)
(***************************************************************************)
THEOREM KnownToCareful ==
  ASSUME User = "careful"
  PROVE  Spec => [](Inv /\ KnownInv)
<1>1. Init => Inv /\ KnownInv
  BY InitInv, InitExist, InitSeen DEF KnownInv
<1>2. Inv /\ KnownInv /\ [Next]_vars => (Inv /\ KnownInv)'
  BY StepInv, StepKnown
<1> QED
  BY <1>1, <1>2, PTL DEF Spec

(***************************************************************************)
(* "Users can always set an update annotation and then wait for it to be   *)
(* removed to know if the operator has processed a StatefulSet"            *)
(* (updatedStatefulSet), under either strategy, if after an edit of the    *)
(* cluster they annotate only when a pass has logged its generation.       *)
(***************************************************************************)
THEOREM RemovedIsProcessed ==
  ASSUME User = "careful"
  PROVE  Spec => RemovedMeansProcessed
<1>1. Inv /\ KnownInv /\ [Next]_vars =>
        [\A i \in Indices : Annotated(sets[i]) /\ ~Annotated(sets'[i]) => sets'[i].template = template]_vars
  BY StepProcessed
<1> QED
  BY <1>1, KnownToCareful, PTL DEF Spec, RemovedMeansProcessed

-----------------------------------------------------------------------------
(***************************************************************************)
(* One set at a time.                                                      *)
(***************************************************************************)
(***************************************************************************)
(* Sets before another are sets, and others.                               *)
(***************************************************************************)
LEMMA Earlier ==
  ASSUME NEW j \in Indices, NEW i \in Before(j)
  PROVE  i \in Indices /\ i # j
BY RolloutAssumption DEF Indices, Before

(***************************************************************************)
(* A count of all replicas counts every pod.                               *)
(***************************************************************************)
LEMMA CountAll ==
  ASSUME NEW S \in SUBSET Ordinals, Cardinality(S) = Replicas
  PROVE  S = Ordinals
<1>1. IsFiniteSet(Ordinals) /\ Cardinality(Ordinals) = Replicas
  <2>1. 0 \in Int /\ Replicas - 1 \in Int /\ ~(0 > Replicas - 1) /\ Replicas - 1 - 0 + 1 = Replicas
    BY RolloutAssumption
  <2> QED
    BY <2>1, FS_Interval DEF Ordinals
<1> QED
  BY ZenonT(60), <1>1, FS_Subset

(***************************************************************************)
(* When the counts of ready and of updated pods are full, the set is       *)
(* settled.                                                                *)
(***************************************************************************)
LEMMA FullCounts ==
  ASSUME Inv, NEW i \in Indices,
         Cardinality({o \in Ordinals : pods[i][o].ready}) = Replicas,
         Cardinality({o \in Ordinals : pods[i][o].rev = sets[i].template}) = Replicas
  PROVE  Settled(i)
<1>1. {o \in Ordinals : pods[i][o].ready} = Ordinals
  BY ZenonT(60), CountAll
<1>2. {o \in Ordinals : pods[i][o].rev = sets[i].template} = Ordinals
  BY ZenonT(60), CountAll
<1>3. \A o \in Ordinals : pods[i][o] \in [rev : Revisions, ready : BOOLEAN]
  BY DEF Inv, TypeOK, PodLists
<1>4. ASSUME NEW o \in Ordinals PROVE pods[i][o] = [rev |-> sets[i].template, ready |-> TRUE]
  <2>1. pods[i][o].ready = TRUE /\ pods[i][o].rev = sets[i].template
    BY ZenonT(60), <1>1, <1>2, <1>3
  <2> QED
    BY ZenonT(60), <1>3, <2>1
<1> QED
  BY ZenonT(60), <1>4 DEF Settled

(***************************************************************************)
(* What the sets say of themselves is true.                                *)
(***************************************************************************)
Truthful(s, settled) ==
  /\ s.exists => s.template # NoRevision
  /\ s.updateRevision = NoRevision => s.ready = 0
  /\ s.observed /\ s.ready = Replicas /\ s.updated = Replicas => settled

(***************************************************************************)
(* Steps that do not touch the status of a set, or leave it truthful.      *)
(***************************************************************************)
SameStatus(s, u) ==
  /\ u.exists = s.exists /\ u.template = s.template /\ u.updateRevision = s.updateRevision
  /\ u.ready = s.ready /\ u.updated = s.updated /\ u.observed = s.observed

(***************************************************************************)
(* Where every status is kept or truthful, the sets stay truthful.         *)
(***************************************************************************)
LEMMA KeepStatus ==
  ASSUME StatusInv, Continues, ~At("deleting")',
         \A i \in Indices : \/ SameStatus(sets[i], sets'[i]) /\ (Settled(i) => Settled(i)')
                            \/ Truthful(sets'[i], Settled(i)')
  PROVE  StatusInv'
<1>1. \A i \in Indices : Truthful(sets[i], Settled(i))
  BY ZenonT(60) DEF StatusInv, Truthful
<1>2. ASSUME NEW i \in Indices PROVE Truthful(sets'[i], Settled(i)')
  <2>1. CASE SameStatus(sets[i], sets'[i]) /\ (Settled(i) => Settled(i)')
    <3> DEFINE before == Settled(i)
               after == Settled(i)'
    <3> HIDE DEF before, after
    <3>1. Truthful(sets[i], before) /\ (before => after)
      BY ZenonT(60), <1>1, <2>1 DEF before, after
    <3>2. Truthful(sets'[i], after)
      BY ZenonT(60), <2>1, <3>1 DEF Truthful, SameStatus
    <3> QED
      BY <3>2 DEF after
  <2> QED
    BY <2>1
<1>3. ~At("idle")' => pass'.template # NoRevision
  BY ZenonT(60) DEF StatusInv, Continues
<1> QED
  BY ZenonT(60), <1>2, <1>3 DEF StatusInv, Truthful, At

(***************************************************************************)
(* No annotation is new before a set whose annotated copy is fresh.        *)
(***************************************************************************)
NoneNewBefore ==
  \A j \in Indices : j \in cache'.fresh /\ Annotated(sets[j]) =>
    \A i \in Before(j) : Annotated(sets'[i]) => Annotated(sets[i])

(***************************************************************************)
(* The cache, when nothing is synced: copies become stale, and sets that   *)
(* looked ready stay settled or their copies lapse.                        *)
(***************************************************************************)
LEMMA KeepCache ==
  ASSUME Inv, CacheInv, cache'.sets = cache.sets, cache'.fresh \subseteq cache.fresh, NoneNewBefore,
         \A j \in Indices : cache.sets[j].exists /\ Settled(j) =>
                              Settled(j)' \/ Lapsed(cache.sets, cache'.fresh, j)
  PROVE  CacheInv'
<1> SUFFICES ASSUME NEW j \in Indices
             PROVE  /\ cache'.sets[j].exists /\ Ready(cache'.sets[j]) =>
                         Settled(j)' \/ Lapsed(cache'.sets, cache'.fresh, j)
                    /\ j \in cache'.fresh /\ Annotated(cache'.sets[j]) =>
                         \A i \in Before(j) : Annotated(sets'[i]) => Annotated(cache'.sets[i])
  BY ZenonT(60) DEF CacheInv, Lapsed, Annotated, Ready
<1>1. ASSUME cache'.sets[j].exists, Ready(cache'.sets[j])
      PROVE  Settled(j)' \/ Lapsed(cache'.sets, cache'.fresh, j)
  <2>1. CASE Settled(j)
    BY ZenonT(60), <1>1, <2>1
  <2>2. CASE Lapsed(cache.sets, cache.fresh, j)
    BY ZenonT(60), <2>2 DEF Lapsed
  <2> QED
    BY ZenonT(60), <1>1, <2>1, <2>2 DEF CacheInv
<1>2. ASSUME j \in cache'.fresh, Annotated(cache'.sets[j]), NEW i \in Before(j), Annotated(sets'[i])
      PROVE  Annotated(cache'.sets[i])
  <2>1. Annotated(sets[j])
    BY ZenonT(60), <1>2 DEF Inv, FreshCopies
  <2>2. Annotated(sets[i])
    BY ZenonT(60), <1>2, <2>1 DEF NoneNewBefore
  <2> QED
    BY ZenonT(60), <1>2, <2>2 DEF CacheInv
<1> QED
  BY ZenonT(60), <1>1, <1>2

(***************************************************************************)
(* The same of a pass, which may be over or go on.                         *)
(***************************************************************************)
LEMMA KeepPass ==
  ASSUME Inv, PassInv, cache'.sets = cache.sets, NoneNewBefore, Continues,
         At("loop")' => /\ pass'.fresh \subseteq cache'.fresh
                        /\ \A i \in Before(pass'.at) : ~Annotated(pass.sets[i])
                        /\ \A j \in Indices : Settled(j) => Settled(j)'
  PROVE  PassInv'
<1> SUFFICES ASSUME At("loop")'
             PROVE  /\ pass'.fresh \subseteq cache'.fresh
                    /\ \A i \in Before(pass'.at) : ~Annotated(pass'.sets[i])
                    /\ \A j \in Indices : Settled(j)' \/ Lapsed(pass'.sets, pass'.fresh, j)
                    /\ \A j \in pass'.fresh : Annotated(pass'.sets[j]) =>
                         \A i \in Before(j) : Annotated(sets'[i]) \/ Annotated(cache'.sets[i])
                                                => Annotated(pass'.sets[i])
  BY ZenonT(60) DEF PassInv, Lapsed, Annotated, At
<1>1. At("loop") /\ pass'.sets = pass.sets /\ pass'.fresh \subseteq pass.fresh
  BY DEF Continues
<1>2. \A j \in Indices : Settled(j)' \/ Lapsed(pass'.sets, pass'.fresh, j)
  BY ZenonT(60), <1>1 DEF PassInv, Lapsed
<1>3. ASSUME NEW j \in pass'.fresh, Annotated(pass'.sets[j]), NEW i \in Before(j),
             Annotated(sets'[i]) \/ Annotated(cache'.sets[i])
      PROVE  Annotated(pass'.sets[i])
  <2>1. j \in pass.fresh /\ j \in Indices /\ j \in cache'.fresh
    BY ZenonT(60), <1>1, <1>3, Parts
  <2>2. Annotated(sets[j])
    BY ZenonT(60), <1>1, <1>3, <2>1 DEF Inv, FreshCopies
  <2>3. Annotated(sets[i]) \/ Annotated(cache.sets[i])
    BY ZenonT(60), <1>3, <2>1, <2>2 DEF NoneNewBefore
  <2> QED
    BY ZenonT(60), <1>1, <1>3, <2>1, <2>3 DEF PassInv
<1> QED
  BY ZenonT(60), <1>1, <1>2, <1>3

(***************************************************************************)
(* A set that is ready, and not just its copy, is settled.                 *)
(***************************************************************************)
LEMMA ReadyIsSettled ==
  ASSUME ~OnDelete, StatusInv, NEW j \in Indices, Ready(sets[j])
  PROVE  Settled(j)
<1>1. sets[j].observed /\ sets[j].ready = Replicas
  BY DEF Ready
<1>2. sets[j].updateRevision # NoRevision
  <2>1. Replicas # 0
    BY RolloutAssumption
  <2> QED
    BY ZenonT(60), <1>1, <2>1 DEF StatusInv
<1>3. sets[j].updated = Replicas
  BY ZenonT(60), <1>2 DEF Ready
<1> QED
  BY ZenonT(60), <1>1, <1>3 DEF StatusInv

(***************************************************************************)
(* At first all sets are settled, or there are none.                       *)
(***************************************************************************)
LEMMA InitOrder == ASSUME ~OnDelete PROVE Init => OrderInv
<1> SUFFICES ASSUME Init PROVE OrderInv
  OBVIOUS
<1>1. At("idle") /\ ~At("loop") /\ ~At("deleting")
  BY NothingTypes DEF Init, At
<1>2. StatusInv
  <2>1. CASE Created
    <3>1. \A i \in Indices : sets[i] = RunningSet
      BY ZenonT(60), <2>1 DEF Init
    <3>2. RunningSet.template = 1 /\ RunningSet.updateRevision = 1
      BY ZenonT(60) DEF RunningSet, NoSet
    <3>3. \A i \in Indices : Settled(i)
      BY ZenonT(60), <2>1, <3>1, <3>2 DEF Init, Settled
    <3>4. 1 # NoRevision
      BY DEF NoRevision
    <3> QED
      BY ZenonT(60), <1>1, <3>1, <3>2, <3>3, <3>4 DEF StatusInv
  <2>2. CASE ~Created
    <3>1. \A i \in Indices : sets[i] = NoSet
      BY ZenonT(60), <2>2 DEF Init
    <3>2. NoSet.ready = 0 /\ ~NoSet.exists /\ ~NoSet.observed
      BY ZenonT(60) DEF NoSet
    <3> QED
      BY ZenonT(60), <1>1, <3>1, <3>2 DEF StatusInv
  <2> QED
    BY <2>1, <2>2
<1>3. cache.sets = sets
  BY ZenonT(60) DEF Init
<1>4. CacheInv
  BY ZenonT(60), <1>2, <1>3, ReadyIsSettled DEF CacheInv
<1>5. PassInv
  BY <1>1 DEF PassInv
<1> QED
  BY <1>2, <1>4, <1>5 DEF OrderInv

(***************************************************************************)
(* A step that writes no set and no copy, and keeps settled what is.       *)
(***************************************************************************)
LEMMA KeepOrder ==
  ASSUME Inv, OrderInv, Continues, ~At("deleting")', UNCHANGED sets,
         cache'.sets = cache.sets, cache'.fresh = cache.fresh,
         At("loop")' => \A i \in Before(pass'.at) : ~Annotated(pass.sets[i]),
         \A j \in Indices : Settled(j) => Settled(j)'
  PROVE  OrderInv'
<1>1. StatusInv'
  BY ZenonT(60), KeepStatus DEF OrderInv, SameStatus
<1>2. NoneNewBefore
  BY DEF NoneNewBefore
<1>3. CacheInv'
  BY ZenonT(60), <1>2, KeepCache DEF OrderInv
<1>4. At("loop")' => pass'.fresh \subseteq cache'.fresh
  BY ZenonT(60) DEF OrderInv, PassInv, Continues
<1>5. PassInv'
  BY ZenonT(60), <1>2, <1>4, KeepPass DEF OrderInv
<1> QED
  BY <1>1, <1>3, <1>5 DEF OrderInv

(***************************************************************************)
(* Pods that come up or are taken down by the StatefulSet controller.      *)
(***************************************************************************)
LEMMA PodsOrder ==
  ASSUME Inv, OrderInv, NEW i \in Indices, NEW o \in Ordinals,
         CreatePod(i, o) \/ BecomeReady(i, o) \/ RollPod(i, o)
  PROVE  OrderInv'
<1>1. UNCHANGED <<sets, cache, pass>>
  BY DEF CreatePod, BecomeReady, RollPod
<1>2. PICK new : pods' = [pods EXCEPT ![i] = [pods[i] EXCEPT ![o] = new]]
  BY ZenonT(60) DEF CreatePod, BecomeReady, RollPod
<1>3. pods \in [Indices -> [Ordinals -> [rev : Revisions, ready : BOOLEAN]]]
  BY DEF Inv, TypeOK, PodLists
<1>4. /\ \A j \in Indices \ {i} : pods'[j] = pods[j]
      /\ \A p \in Ordinals \ {o} : pods'[i][p] = pods[i][p]
  BY ZenonT(60), <1>2, <1>3
<1>5. pods[i][o] # [rev |-> sets[i].template, ready |-> TRUE]
  <2>1. ~NoPod.ready
    BY DEF NoPod
  <2>2. pods[i][o].ready # TRUE \/ pods[i][o].rev # sets[i].template
    BY ZenonT(60), <1>3, <2>1 DEF CreatePod, BecomeReady, RollPod
  <2> DEFINE settled == [rev |-> sets[i].template, ready |-> TRUE]
  <2>3. settled.ready = TRUE /\ settled.rev = sets[i].template
    OBVIOUS
  <2> HIDE DEF settled
  <2>4. pods[i][o] # settled
    BY ZenonT(60), <2>2, <2>3
  <2> QED
    BY <2>4 DEF settled
<1>6. \A j \in Indices : Settled(j) => Settled(j)'
  <2>1. ~Settled(i)
    BY ZenonT(60), <1>5 DEF Settled
  <2> QED
    BY ZenonT(60), <1>1, <1>4, <2>1 DEF Settled
<1>7. Continues /\ ~At("deleting")'
  BY <1>1 DEF Continues, At, OrderInv, StatusInv
<1>8. At("loop")' => \A k \in Before(pass'.at) : ~Annotated(pass.sets[k])
  BY ZenonT(60), <1>1 DEF OrderInv, PassInv, At
<1> QED
  BY ZenonT(60), <1>1, <1>6, <1>7, <1>8, KeepOrder

(***************************************************************************)
(* The sets before the next one.                                           *)
(***************************************************************************)
LEMMA BeforeNext ==
  \A k \in 1..(NumSets + 1) : Before(k + 1) \subseteq Before(k) \cup {k}
BY RolloutAssumption DEF Before

(***************************************************************************)
(* The steps of a pass that write nothing.                                 *)
(***************************************************************************)
LEMMA ReadsOrder ==
  ASSUME ~OnDelete, Inv, OrderInv, SkipStatefulSet \/ RestOfPass
  PROVE  OrderInv'
<1>1. UNCHANGED <<sets, cache, pods>> /\ Continues
  BY QuietPass DEF Quiet, SkipStatefulSet, RestOfPass
<1>2. pass \in Passes
  BY DEF Inv, TypeOK
<1>3. ~At("deleting")'
  BY ZenonT(60), <1>2, NothingTypes DEF SkipStatefulSet, RestOfPass, Return, InLoop, At, Passes
<1>4. At("loop")' => \A i \in Before(pass'.at) : ~Annotated(pass.sets[i])
  <2>1. CASE SkipStatefulSet
    <3>1. pass'.at = pass.at + 1 /\ ~Annotated(pass.sets[pass.at]) /\ At("loop") /\ pass.at \in 1..(NumSets + 1)
      BY ZenonT(60), <1>2, <2>1 DEF SkipStatefulSet, Here, InLoop, Passes
    <3>2. Before(pass.at + 1) \subseteq Before(pass.at) \cup {pass.at}
      BY ZenonT(60), <3>1, BeforeNext
    <3> QED
      BY ZenonT(60), <3>1, <3>2 DEF OrderInv, PassInv
  <2>2. CASE RestOfPass
    <3>1. ~At("loop")'
      BY ZenonT(60), <1>2, <2>2, NothingTypes DEF RestOfPass, Return, At, Passes
    <3> QED
      BY <3>1
  <2> QED
    BY <2>1, <2>2
<1>5. \A j \in Indices : Settled(j) => Settled(j)'
  BY ZenonT(60), <1>1 DEF Settled
<1> QED
  BY ZenonT(60), <1>1, <1>3, <1>4, <1>5, KeepOrder

(***************************************************************************)
(* The creation of a set: no copy shows it yet.                            *)
(***************************************************************************)
LEMMA CreateOrder ==
  ASSUME Inv, KnownInv, OrderInv, NEW i \in Indices, CreateStatefulSet(i)
  PROVE  OrderInv'
<1>1. UNCHANGED pods /\ pass' = NoPass /\ At("begun")
  BY CreateParts
<1>2. Continues /\ ~At("deleting")' /\ ~At("loop")'
  BY <1>1, NothingTypes DEF Continues, At
<1>3. CASE UNCHANGED <<sets, cache>>
  <2>1. \A j \in Indices : Settled(j) => Settled(j)'
    BY ZenonT(60), <1>1, <1>3 DEF Settled
  <2> QED
    BY ZenonT(60), <1>2, <1>3, <2>1, KeepOrder
<1>4. ASSUME NEW k \in Indices, NEW u, ~sets[k].exists, sets' = [sets EXCEPT ![k] = u], Stale(k),
             u.exists, ~Annotated(u), u.template = pass.template, ~u.observed, u.ready = 0
      PROVE  OrderInv'
  <2>1. /\ sets'[k] = u /\ \A j \in Indices \ {k} : sets'[j] = sets[j]
        /\ cache'.sets = cache.sets /\ cache'.fresh \subseteq cache.fresh
    BY ZenonT(60), <1>4, WriteOne, StaleCache
  <2>2. \A j \in Indices \ {k} : Settled(j) => Settled(j)'
    BY ZenonT(60), <1>1, <2>1 DEF Settled
  <2>3. u.template # NoRevision
    BY ZenonT(60), <1>1, <1>4 DEF OrderInv, StatusInv, At
  <2>4. Truthful(sets'[k], Settled(k)')
    BY ZenonT(60), <1>4, <2>1, <2>3 DEF Truthful
  <2>5. StatusInv'
    BY ZenonT(60), <1>2, <2>1, <2>2, <2>4, KeepStatus DEF OrderInv, SameStatus
  <2>6. NoneNewBefore
    BY ZenonT(60), <1>4, <2>1, Earlier DEF NoneNewBefore
  <2>7. ~cache.sets[k].exists
    BY ZenonT(60), <1>4 DEF KnownInv, ExistInv
  <2>8. CacheInv'
    BY ZenonT(60), <2>1, <2>2, <2>6, <2>7, KeepCache DEF OrderInv
  <2>9. PassInv'
    BY <1>2 DEF PassInv
  <2> QED
    BY <2>5, <2>8, <2>9 DEF OrderInv
<1> QED
  BY ZenonT(60), <1>3, <1>4, CreateParts

(***************************************************************************)
(* A pass begins with a template.                                          *)
(***************************************************************************)
LEMMA StartOrder == ASSUME Inv, OrderInv, StartPass PROVE OrderInv'
<1>1. UNCHANGED <<sets, pods, cache>>
  BY DEF StartPass
<1>2. pass'.template = cache.template /\ pass'.pc = "begun"
  BY ZenonT(60) DEF StartPass, NoPass
<1>3. StatusInv'
  <2>1. cache.template # NoRevision
    BY Parts DEF Templates, NoRevision
  <2> QED
    BY ZenonT(60), <1>1, <1>2, <2>1 DEF OrderInv, StatusInv, Settled, At
<1>4. CacheInv'
  BY ZenonT(60), <1>1 DEF OrderInv, CacheInv, Settled
<1>5. PassInv'
  BY <1>2 DEF PassInv, At
<1> QED
  BY <1>3, <1>4, <1>5 DEF OrderInv

(***************************************************************************)
(* The loop starts when all copies look ready.                             *)
(***************************************************************************)
LEMMA CheckOrder == ASSUME Inv, OrderInv, CheckStatefulSets PROVE OrderInv'
<1>1. UNCHANGED <<sets, pods, cache>> /\ At("begun")
  BY DEF CheckStatefulSets
<1>2. CASE Return
  <2>1. Continues /\ ~At("deleting")' /\ ~At("loop")'
    BY <1>2, NothingTypes DEF Return, Continues, At
  <2>2. \A j \in Indices : Settled(j) => Settled(j)'
    BY ZenonT(60), <1>1 DEF Settled
  <2> QED
    BY ZenonT(60), <1>1, <2>1, <2>2, KeepOrder
<1>3. CASE /\ pass' = [pass EXCEPT !.pc = "loop", !.at = 1, !.sets = cache.sets, !.fresh = cache.fresh]
           /\ \A j \in Indices : cache.sets[j].exists /\ Ready(cache.sets[j])
  <2>1. /\ pass'.sets = cache.sets /\ pass'.fresh = cache.fresh /\ pass'.template = pass.template
        /\ pass'.at = 1 /\ pass'.pc = "loop"
    BY ZenonT(60), <1>3 DEF Inv, TypeOK, Passes
  <2>2. StatusInv'
    BY ZenonT(60), <1>1, <2>1 DEF OrderInv, StatusInv, Settled, At
  <2>3. CacheInv'
    BY ZenonT(60), <1>1 DEF OrderInv, CacheInv, Settled
  <2>4. /\ \A j \in Indices : Settled(j) \/ Lapsed(cache.sets, cache.fresh, j)
        /\ \A j \in cache.fresh : Annotated(cache.sets[j]) =>
             \A i \in Before(j) : Annotated(sets[i]) \/ Annotated(cache.sets[i]) => Annotated(cache.sets[i])
    BY ZenonT(60), <1>3, Parts DEF OrderInv, CacheInv
  <2>5. Before(1) = {}
    BY DEF Before
  <2>6. PassInv'
    BY ZenonT(60), <1>1, <2>1, <2>4, <2>5 DEF PassInv, Lapsed, Annotated, Settled
  <2> QED
    BY <2>2, <2>3, <2>6 DEF OrderInv
<1> QED
  BY <1>2, <1>3 DEF CheckStatefulSets

(***************************************************************************)
(* An update: the copy of that set in the cache lapses.                    *)
(***************************************************************************)
LEMMA ApplyOrder == ASSUME Inv, OrderInv, ApplyStatefulSetUpdate PROVE OrderInv'
<1>1. /\ UNCHANGED pods /\ At("loop") /\ pass.at \in Indices /\ Annotated(pass.sets[pass.at])
      /\ ~At("loop")' /\ ~At("deleting")' /\ Continues
  BY ApplyParts, NothingTypes DEF At, Continues
<1>2. CASE UNCHANGED <<sets, cache>>
  <2>1. \A j \in Indices : Settled(j) => Settled(j)'
    BY ZenonT(60), <1>1, <1>2 DEF Settled
  <2> QED
    BY ZenonT(60), <1>1, <1>2, <2>1, KeepOrder
<1>3. ASSUME pass.at \in pass.fresh, pass.sets[pass.at] = sets[pass.at], Stale(pass.at),
             NEW u \in UpdatedStatefulSets(sets[pass.at], pass.template),
             sets' = [sets EXCEPT ![pass.at] = u]
      PROVE  OrderInv'
  <2> sets[pass.at] \in SetObjects
    BY <1>1, Parts
  <2>0. PICK k \in Indices : k = pass.at
    BY <1>1
  <2>1. /\ ~Annotated(u) /\ u.exists = sets[k].exists /\ u.template = pass.template
        /\ u.updateRevision = sets[k].updateRevision /\ u.ready = sets[k].ready
        /\ u.updated = sets[k].updated
        /\ u.observed => sets[k].template = pass.template /\ sets[k].observed
    BY <1>3, <2>0, UpdatedParts
  <2>2. k \in Indices /\ Stale(k) /\ k \in pass.fresh /\ sets' = [sets EXCEPT ![k] = u]
    BY <1>1, <1>3, <2>0
  <2>3. Annotated(sets[k]) /\ pass.template # NoRevision
    BY ZenonT(60), <1>1, <1>3, <2>0 DEF OrderInv, StatusInv, At
  <2>4. k \in cache.fresh /\ cache.sets[k] = sets[k]
    BY ZenonT(60), <1>1, <1>3, <2>0 DEF OrderInv, PassInv, Inv, FreshCopies
  <2>5. \A i \in Before(k) : ~Annotated(cache.sets[i])
    BY ZenonT(60), <1>1, <1>3, <2>0 DEF OrderInv, PassInv
  <2>6. /\ sets'[k] = u /\ \A j \in Indices \ {k} : sets'[j] = sets[j]
        /\ cache'.sets = cache.sets /\ cache'.fresh = cache.fresh \ {k}
    BY ZenonT(60), <2>2, WriteOne, StaleCache
  <2>7. \A j \in Indices \ {k} : Settled(j) => Settled(j)'
    BY ZenonT(60), <1>1, <2>6 DEF Settled
  <2>8. StatusInv'
    <3>1. u.observed /\ Settled(k) => Settled(k)'
      BY ZenonT(60), <1>1, <2>1, <2>6 DEF Settled
    <3>2. Truthful(u, Settled(k)')
      BY ZenonT(60), <2>1, <2>2, <2>3, <3>1 DEF Truthful, OrderInv, StatusInv
    <3> QED
      BY ZenonT(60), <1>1, <2>6, <2>7, <3>2, KeepStatus DEF OrderInv, SameStatus
  <2>9. NoneNewBefore
    BY ZenonT(60), <2>1, <2>6, Earlier DEF NoneNewBefore
  <2>10. Lapsed(cache.sets, cache'.fresh, k)
    BY ZenonT(60), <2>3, <2>4, <2>5, <2>6 DEF Lapsed
  <2>11. CacheInv'
    <3>1. cache'.fresh \subseteq cache.fresh
      BY <2>6
    <3> QED
      BY ZenonT(60), <2>6, <2>7, <2>9, <2>10, <3>1, KeepCache DEF OrderInv
  <2>12. PassInv'
    BY <1>1 DEF PassInv
  <2> QED
    BY ZenonT(60), <2>8, <2>11, <2>12 DEF OrderInv
<1> QED
  BY ZenonT(60), <1>2, <1>3, ApplyParts

(***************************************************************************)
(* A write that keeps annotations and status: of the in-progress           *)
(* annotation, or by somebody who makes the copies stale.                  *)
(***************************************************************************)
LEMMA WriteOrder ==
  ASSUME Inv, OrderInv, NEW k \in Indices, NEW u, sets' = [sets EXCEPT ![k] = u], UNCHANGED pods,
         u.template = sets[k].template, Stale(k), NoneNewBefore,
         Continues, ~At("deleting")', At("loop")' => pass'.at = pass.at /\ k \notin pass'.fresh,
         SameStatus(sets[k], u) \/ Truthful(u, Settled(k)')
  PROVE  OrderInv'
<1>1. /\ sets'[k] = u /\ \A j \in Indices \ {k} : sets'[j] = sets[j]
      /\ cache'.sets = cache.sets /\ cache'.fresh = cache.fresh \ {k}
  BY ZenonT(60), WriteOne, StaleCache
<1>2. \A j \in Indices : Settled(j) => Settled(j)'
  BY ZenonT(60), <1>1 DEF Settled
<1>3. StatusInv'
  BY ZenonT(60), <1>1, <1>2, KeepStatus DEF OrderInv, SameStatus
<1>4. CacheInv'
  <2>1. cache'.fresh \subseteq cache.fresh
    BY <1>1
  <2> QED
    BY ZenonT(60), <1>1, <1>2, <2>1, KeepCache DEF OrderInv
<1>5. PassInv'
  <2>1. ASSUME At("loop")'
        PROVE  pass'.fresh \subseteq cache'.fresh /\ \A i \in Before(pass'.at) : ~Annotated(pass.sets[i])
    BY ZenonT(60), <1>1, <2>1 DEF OrderInv, PassInv, Continues
  <2> QED
    BY ZenonT(60), <1>1, <1>2, <2>1, KeepPass DEF OrderInv
<1> QED
  BY <1>3, <1>4, <1>5 DEF OrderInv

(***************************************************************************)
(* The removal of the in-progress annotation.                              *)
(***************************************************************************)
LEMMA CleanupOrder == ASSUME Inv, OrderInv, CleanupAnnotations PROVE OrderInv'
<1>1. UNCHANGED pods /\ At("cleanup") /\ pass \in Passes /\ Quiet
  BY QuietFinish DEF CleanupAnnotations, Inv, TypeOK
<1>2. CASE UNCHANGED <<sets, cache>> /\ Return
  <2>1. \A j \in Indices : Settled(j) => Settled(j)'
    BY ZenonT(60), <1>1, <1>2 DEF Settled
  <2>2. ~At("loop")' /\ ~At("deleting")'
    BY <1>2, NothingTypes DEF Return, At
  <2> QED
    BY ZenonT(60), <1>1, <1>2, <2>1, <2>2, KeepOrder DEF Quiet
<1>3. ASSUME NEW i \in InProgress, sets' = [sets EXCEPT ![i].inProgress = NoValue], Stale(i),
             pass' = [pass EXCEPT !.sets[i].inProgress = NoValue]
      PROVE  OrderInv'
  <2>1. i \in Indices /\ sets[i] \in SetObjects
    BY Parts DEF InProgress
  <2>2. ~At("loop")' /\ ~At("deleting")'
    <3>1. pass'.pc = "cleanup"
      BY ZenonT(60), <1>1, <1>3 DEF Passes, At
    <3> QED
      BY <3>1 DEF At
  <2> DEFINE u == [sets[i] EXCEPT !.inProgress = NoValue]
  <2>3. SameStatus(sets[i], u) /\ u.template = sets[i].template
    BY ZenonT(60), <2>1 DEF SetObjects, SameStatus
  <2>4. sets' = [sets EXCEPT ![i] = u]
    BY ZenonT(60), <1>3
  <2>5. NoneNewBefore
    BY ZenonT(60), <1>1, Earlier DEF NoneNewBefore, Quiet
  <2> HIDE DEF u
  <2> QED
    BY ZenonT(60), <1>1, <1>3, <2>1, <2>2, <2>3, <2>4, <2>5, WriteOrder DEF Quiet
<1> QED
  BY <1>2, <1>3 DEF CleanupAnnotations

(***************************************************************************)
(* The status that the StatefulSet controller writes is true.              *)
(***************************************************************************)
LEMMA StatusOrder ==
  ASSUME Inv, OrderInv, NEW i \in Indices, UpdateSetStatus(i)
  PROVE  OrderInv'
<1>1. UNCHANGED pods /\ SetWritten(i) /\ Stale(i) /\ sets[i].exists /\ Quiet
  BY ZenonT(60), QuietController DEF UpdateSetStatus, SetWritten, StatefulSetController
<1>2. PICK u : /\ sets' = [sets EXCEPT ![i] = u]
               /\ u.exists = sets[i].exists /\ u.template = sets[i].template
               /\ u.updateRevision = sets[i].template
               /\ u.ready = Cardinality({o \in Ordinals : pods[i][o].ready})
               /\ u.updated = Cardinality({o \in Ordinals : pods[i][o].rev = sets[i].template})
  BY ZenonT(60), StatusParts
<1>3. sets[i].template # NoRevision
  BY ZenonT(60), <1>1 DEF OrderInv, StatusInv
<1>4. Settled(i) => Settled(i)'
  BY ZenonT(60), <1>1, <1>2, WriteOne DEF Settled
<1>5. Truthful(u, Settled(i)')
  BY ZenonT(60), <1>2, <1>3, <1>4, FullCounts DEF Truthful
<1>6. NoneNewBefore
  BY ZenonT(60), <1>1, Earlier DEF NoneNewBefore, Quiet
<1>7. ~At("deleting")' /\ (At("loop")' => pass'.at = pass.at /\ i \notin pass'.fresh)
  BY ZenonT(60), <1>1, StalePass DEF OrderInv, StatusInv, At
<1> QED
  BY ZenonT(60), <1>1, <1>2, <1>5, <1>6, <1>7, WriteOrder DEF Quiet

(***************************************************************************)
(* A watch, or a restart, that brings the copies of the sets up to date.   *)
(***************************************************************************)
LEMMA SyncOrder ==
  ASSUME ~OnDelete, Inv, OrderInv, SyncCluster \/ SyncSets \/ PassAborts
  PROVE  OrderInv'
<1>1. UNCHANGED <<sets, pods>>
  BY SyncParts
<1>2. UNCHANGED pass \/ pass'.pc = "idle"
  BY ZenonT(60), SyncParts, NothingTypes
<1>3. Continues /\ ~At("deleting")' /\ (At("loop")' => At("loop") /\ pass' = pass)
  BY <1>2 DEF Continues, At, OrderInv, StatusInv
<1>4. \A j \in Indices : Settled(j) => Settled(j)'
  BY ZenonT(60), <1>1 DEF Settled
<1>5. CASE cache'.sets = cache.sets /\ cache'.fresh = cache.fresh
  <2>1. At("loop")' => \A i \in Before(pass'.at) : ~Annotated(pass.sets[i])
    BY ZenonT(60), <1>3 DEF OrderInv, PassInv
  <2> QED
    BY ZenonT(60), <1>1, <1>3, <1>4, <1>5, <2>1, KeepOrder
<1>6. CASE cache'.sets = sets /\ cache'.fresh = Indices
  <2>1. StatusInv'
    BY ZenonT(60), <1>1, <1>3, <1>4, KeepStatus DEF OrderInv, SameStatus
  <2>2. \A j \in Indices : Ready(sets[j]) => Settled(j)'
    BY ZenonT(60), <1>4, ReadyIsSettled DEF OrderInv
  <2>3. CacheInv'
    BY ZenonT(60), <1>1, <1>6, <2>2 DEF CacheInv
  <2>4. ASSUME At("loop")'
        PROVE  /\ pass'.fresh \subseteq cache'.fresh
               /\ \A i \in Before(pass'.at) : ~Annotated(pass'.sets[i])
               /\ \A j \in Indices : Settled(j)' \/ Lapsed(pass'.sets, pass'.fresh, j)
               /\ \A j \in pass'.fresh : Annotated(pass'.sets[j]) =>
                    \A i \in Before(j) : Annotated(sets'[i]) \/ Annotated(cache'.sets[i])
                                           => Annotated(pass'.sets[i])
    BY ZenonT(60), <1>1, <1>3, <1>4, <1>6, <2>4, Parts DEF OrderInv, PassInv
  <2>5. PassInv'
    BY ZenonT(60), <2>4 DEF PassInv, Lapsed, Annotated, At
  <2> QED
    BY <2>1, <2>3, <2>5 DEF OrderInv
<1> QED
  BY ZenonT(60), <1>5, <1>6, SyncParts

(***************************************************************************)
(* A careful user annotates no set before one that is annotated.           *)
(***************************************************************************)
LEMMA UsersOrder ==
  ASSUME User = "careful", Inv, OrderInv, Users
  PROVE  OrderInv'
<1>1. ASSUME NEW t \in Templates, ChangeTemplate(t) PROVE OrderInv'
  <2>1. /\ UNCHANGED <<sets, pods>> /\ cache'.sets = cache.sets /\ cache'.fresh = cache.fresh
        /\ pass'.pc = pass.pc /\ pass'.template = pass.template /\ pass'.at = pass.at
        /\ pass'.sets = pass.sets /\ pass'.fresh = pass.fresh
    BY ZenonT(60), <1>1 DEF ChangeTemplate, Inv, TypeOK, Caches, Passes
  <2>2. \A j \in Indices : Settled(j) => Settled(j)'
    BY ZenonT(60), <2>1 DEF Settled
  <2>3. Continues /\ ~At("deleting")' /\ (At("loop")' => \A i \in Before(pass'.at) : ~Annotated(pass.sets[i]))
    BY ZenonT(60), <2>1 DEF Continues, At, OrderInv, StatusInv, PassInv
  <2> QED
    BY ZenonT(60), <2>1, <2>2, <2>3, KeepOrder
<1>2. ASSUME NEW i \in Indices, NEW v \in {NoValue} \cup ParallelValues, Annotate(i, v)
      PROVE  OrderInv'
  <2>1. UNCHANGED pods /\ SetWritten(i) /\ Stale(i)
    BY <1>2, AnnotateParts
  <2>2. PICK u : sets' = [sets EXCEPT ![i] = u] /\ SameStatus(sets[i], u)
    BY ZenonT(60), <1>2, AnnotateParts DEF SameStatus
  <2>3. u.template = sets[i].template
    BY <2>2 DEF SameStatus
  <2>4. \A j \in Indices : j > i => ~Annotated(sets[j])
    BY <1>2 DEF Annotate
  <2>5. NoneNewBefore
    <3> SUFFICES ASSUME NEW j \in Indices, Annotated(sets[j]), NEW k \in Before(j), Annotated(sets'[k])
                 PROVE  Annotated(sets[k])
      BY ZenonT(60) DEF NoneNewBefore
    <3>1. k \in Indices
      BY Earlier
    <3>2. CASE k = i
      <4>1. j > i
        BY <3>2, RolloutAssumption DEF Before, Indices
      <4> QED
        BY ZenonT(60), <2>4, <4>1
    <3>3. CASE k # i
      BY ZenonT(60), <2>2, <3>1, <3>3, WriteOne
    <3> QED
      BY <3>2, <3>3
  <2>6. /\ Continues /\ ~At("deleting")'
        /\ At("loop")' => pass'.at = pass.at /\ i \notin pass'.fresh
    BY ZenonT(60), <2>1, StalePass DEF Continues, OrderInv, StatusInv, At
  <2> QED
    BY ZenonT(60), <2>1, <2>2, <2>3, <2>5, <2>6, WriteOrder
<1> QED
  BY <1>1, <1>2 DEF Users

(***************************************************************************)
(* Every step keeps the order.                                             *)
(***************************************************************************)
LEMMA StepOrder ==
  ASSUME User = "careful", ~OnDelete, Inv, KnownInv, OrderInv, [Next]_vars
  PROVE  OrderInv'
<1>1. CASE Pass
  <2>1. ~RolloutRefused /\ ~RestartPods /\ ~CompleteRollout
    BY ZenonT(60) DEF RolloutRefused, RestartPods, CompleteRollout, Rolling
  <2>2. ~DeletePodToUpdate
    BY ZenonT(60) DEF DeletePodToUpdate, OrderInv, StatusInv
  <2> QED
    BY ZenonT(60), <1>1, <2>1, <2>2, StartOrder, CreateOrder, CheckOrder, ApplyOrder, ReadsOrder, CleanupOrder DEF Pass
<1>2. CASE Environment
  <2>1. ~SyncPods
    BY DEF SyncPods
  <2> QED
    BY ZenonT(60), <1>2, <2>1, SyncOrder, StatusOrder, PodsOrder, UsersOrder
       DEF Environment, StatefulSetController
<1>3. CASE UNCHANGED vars
  <2>1. UNCHANGED <<sets, pods, cache, pass>>
    BY <1>3 DEF vars
  <2>2. \A j \in Indices : Settled(j) => Settled(j)'
    BY ZenonT(60), <2>1 DEF Settled
  <2>3. Continues /\ ~At("deleting")' /\ (At("loop")' => \A i \in Before(pass'.at) : ~Annotated(pass.sets[i]))
    BY ZenonT(60), <2>1 DEF Continues, At, OrderInv, StatusInv, PassInv
  <2> QED
    BY ZenonT(60), <2>1, <2>2, <2>3, KeepOrder
<1> QED
  BY <1>1, <1>2, <1>3 DEF Next

(***************************************************************************)
(* A template is written only by applyStatefulSetUpdate, to the set that   *)
(* the pass is at, from an annotated copy.                                 *)
(***************************************************************************)
LEMMA WhoApplies ==
  ASSUME Inv, [Next]_vars, NEW i \in Indices, TemplateApplied(i)
  PROVE  At("loop") /\ i = pass.at /\ Annotated(pass.sets[i])
<1>1. sets'[i] # sets[i] /\ sets[i].exists /\ sets'[i].template # sets[i].template
  BY DEF TemplateApplied
<1>2. ASSUME NEW k \in Indices, NEW u, sets' = [sets EXCEPT ![k] = u],
             u.template = sets[k].template \/ ~sets[k].exists
      PROVE  FALSE
  BY ZenonT(60), <1>1, <1>2, WriteOne
<1>3. ~\E k \in Indices : CreateStatefulSet(k)
  BY ZenonT(60), <1>1, <1>2, CreateParts
<1>4. ~CompleteRollout
  <2> SUFFICES ASSUME CompleteRollout PROVE FALSE
    OBVIOUS
  <2>1. InLoop /\ sets' = [sets EXCEPT ![pass.at].currentRevision = Here.updateRevision]
    BY <1>1 DEF CompleteRollout, Rolling
  <2>2. pass.at \in Indices /\ sets[pass.at] \in SetObjects
    BY <2>1, LoopTypes, Parts
  <2> DEFINE u == [sets[pass.at] EXCEPT !.currentRevision = Here.updateRevision]
  <2>3. u.template = sets[pass.at].template /\ sets' = [sets EXCEPT ![pass.at] = u]
    BY ZenonT(60), <2>1, <2>2 DEF SetObjects
  <2> HIDE DEF u
  <2> QED
    BY ZenonT(60), <1>2, <2>2, <2>3
<1>5. ~CleanupAnnotations
  <2> SUFFICES ASSUME CleanupAnnotations PROVE FALSE
    OBVIOUS
  <2>1. PICK k \in InProgress : sets' = [sets EXCEPT ![k].inProgress = NoValue]
    BY <1>1 DEF CleanupAnnotations
  <2>2. k \in Indices /\ sets[k] \in SetObjects
    BY Parts DEF InProgress
  <2> DEFINE u == [sets[k] EXCEPT !.inProgress = NoValue]
  <2>3. u.template = sets[k].template /\ sets' = [sets EXCEPT ![k] = u]
    BY ZenonT(60), <2>1, <2>2 DEF SetObjects
  <2> HIDE DEF u
  <2> QED
    BY ZenonT(60), <1>2, <2>2, <2>3
<1>6. ~\E k \in Indices : UpdateSetStatus(k)
  BY ZenonT(60), <1>2, StatusParts
<1>7. ~\E k \in Indices, v \in {NoValue} \cup ParallelValues : Annotate(k, v)
  BY ZenonT(60), <1>2, AnnotateParts
<1>8. ApplyStatefulSetUpdate
  <2>1. ~UNCHANGED sets
    BY ZenonT(60), <1>1
  <2>2. \/ UNCHANGED sets
        \/ \E k \in Indices : CreateStatefulSet(k)
        \/ ApplyStatefulSetUpdate \/ CompleteRollout \/ CleanupAnnotations
        \/ \E k \in Indices : UpdateSetStatus(k)
        \/ \E k \in Indices, v \in {NoValue} \cup ParallelValues : Annotate(k, v)
    BY DEF Next, vars, Pass, Environment, StatefulSetController, Users, StartPass, CheckStatefulSets, SkipStatefulSet,
           RolloutRefused, RestartPods, DeletePodToUpdate, RestOfPass, PassAborts, SyncCluster,
           SyncSets, SyncPods, CreatePod, BecomeReady, RollPod, ChangeTemplate
  <2> QED
    BY ZenonT(60), <1>3, <1>4, <1>5, <1>6, <1>7, <2>1, <2>2
<1>9. /\ At("loop") /\ pass.at \in Indices /\ Annotated(pass.sets[pass.at])
      /\ \E u : sets' = [sets EXCEPT ![pass.at] = u]
  BY ZenonT(60), <1>1, <1>8, ApplyParts
<1>10. i = pass.at
  BY ZenonT(60), <1>1, <1>9, WriteOne
<1> QED
  BY ZenonT(60), <1>9, <1>10

(***************************************************************************)
(* Of two sets one is before the other.                                    *)
(***************************************************************************)
LEMMA OneIsBefore ==
  \A i \in Indices : \A j \in Indices \ {i} : j \in Before(i) \/ i \in Before(j)
BY SMTT(60), RolloutAssumption DEF Indices, Before

(***************************************************************************)
(* The sets other than the one that a pass may update are settled: the     *)
(* copy of one that is not would have lapsed, but a pass does not come     *)
(* past the annotation of a copy that has, nor is there one before it.     *)
(***************************************************************************)
LEMMA OthersSettled ==
  ASSUME OrderInv, At("loop"), NEW i \in Indices, i = pass.at, Annotated(pass.sets[i]),
         NEW j \in Indices \ {i}
  PROVE  Settled(j)
<1>1. SUFFICES ASSUME Lapsed(pass.sets, pass.fresh, j) PROVE FALSE
  BY ZenonT(60) DEF OrderInv, PassInv
<1>2. j \in Before(i) \/ i \in Before(j)
  BY ZenonT(60), OneIsBefore
<1> QED
  BY ZenonT(60), <1>1, <1>2 DEF OrderInv, PassInv, Lapsed

(***************************************************************************)
(* A step that gives a set a new template finds the others settled.        *)
(***************************************************************************)
LEMMA StepAlone ==
  ASSUME Inv, OrderInv, [Next]_vars, NEW i \in Indices, TemplateApplied(i), NEW j \in Indices \ {i}
  PROVE  Settled(j)
BY ZenonT(60), WhoApplies, OthersSettled

(***************************************************************************)
(* A set is given a new template only when every other set runs its own    *)
(* and is ready, with a careful user and rolling updates: the readiness    *)
(* check of handleClusterUpdate is enough, however stale its copies are.   *)
(***************************************************************************)
THEOREM SetsUpdateOneAtATime ==
  ASSUME User = "careful", ~OnDelete
  PROVE  Spec => OneSetAtATime
<1>1. Init => OrderInv
  BY InitOrder
<1>2. Inv /\ KnownInv /\ OrderInv /\ [Next]_vars => OrderInv'
  BY StepOrder
<1>3. Inv /\ OrderInv /\ [Next]_vars =>
        [\A i \in Indices : TemplateApplied(i) => \A j \in Indices \ {i} : Settled(j)]_vars
  BY StepAlone
<1> QED
  BY <1>1, <1>2, <1>3, KnownToCareful, PTL DEF Spec, OneSetAtATime

-----------------------------------------------------------------------------
(***************************************************************************)
(* An update is one step.                                                  *)
(***************************************************************************)

(***************************************************************************)
(* A set that is missing has no template and no pods.                      *)
(***************************************************************************)
BlankInv ==
  \A i \in Indices :
    ~sets[i].exists => /\ sets[i].template = NoRevision /\ sets[i].updateRevision = NoRevision
                       /\ \A o \in Ordinals : pods[i][o] = NoPod

(***************************************************************************)
(* What RolloutService sees of the sets.                                   *)
(***************************************************************************)
AppliedTo == [i \in Indices |-> sets[i].template]
Pending == {i \in Indices : Annotated(sets[i])}
SettledSets == {i \in Indices : Settled(i)}

(***************************************************************************)
(* The steps that write sets or pods under the RollingUpdate strategy.     *)
(***************************************************************************)
LEMMA WhoWrites ==
  ASSUME ~OnDelete, OrderInv, [Next]_vars
  PROVE  \/ UNCHANGED <<template, sets, pods>>
         \/ ApplyStatefulSetUpdate \/ CleanupAnnotations
         \/ \E i \in Indices : CreateStatefulSet(i) \/ UpdateSetStatus(i)
         \/ \E i \in Indices, o \in Ordinals : CreatePod(i, o) \/ BecomeReady(i, o) \/ RollPod(i, o)
         \/ \E t \in Templates : ChangeTemplate(t)
         \/ \E i \in Indices, v \in {NoValue} \cup ParallelValues : Annotate(i, v)
<1>1. ~RolloutRefused /\ ~RestartPods /\ ~CompleteRollout /\ ~SyncPods
  BY ZenonT(60) DEF RolloutRefused, RestartPods, CompleteRollout, Rolling, SyncPods
<1>2. ~DeletePodToUpdate
  BY ZenonT(60) DEF DeletePodToUpdate, OrderInv, StatusInv
<1>3. StartPass \/ CheckStatefulSets \/ SkipStatefulSet \/ RestOfPass
        \/ SyncCluster \/ SyncSets \/ PassAborts \/ UNCHANGED vars
        => UNCHANGED <<template, sets, pods>>
  BY DEF StartPass, CheckStatefulSets, SkipStatefulSet, RestOfPass, SyncCluster, SyncSets, PassAborts, vars
<1> QED
  BY ZenonT(60), <1>1, <1>2, <1>3 DEF Next, Pass, Environment, StatefulSetController, Users

(***************************************************************************)
(* The removal of the in-progress annotation writes nothing else.          *)
(***************************************************************************)
LEMMA CleanupParts ==
  ASSUME Inv, CleanupAnnotations
  PROVE  /\ UNCHANGED <<template, pods>>
         /\ \/ UNCHANGED sets
            \/ \E k \in Indices : \E u :
                 /\ sets' = [sets EXCEPT ![k] = u]
                 /\ u.update = sets[k].update /\ u.parallel = sets[k].parallel
                 /\ u.exists = sets[k].exists /\ u.template = sets[k].template
                 /\ u.updateRevision = sets[k].updateRevision
<1>1. UNCHANGED <<template, pods>>
  BY DEF CleanupAnnotations
<1>2. ASSUME NEW k \in InProgress, sets' = [sets EXCEPT ![k].inProgress = NoValue]
      PROVE  \E u : /\ sets' = [sets EXCEPT ![k] = u]
                    /\ u.update = sets[k].update /\ u.parallel = sets[k].parallel
                    /\ u.exists = sets[k].exists /\ u.template = sets[k].template
                    /\ u.updateRevision = sets[k].updateRevision
  <2>1. sets[k] \in SetObjects
    BY Parts DEF InProgress
  <2> DEFINE u == [sets[k] EXCEPT !.inProgress = NoValue]
  <2>2. /\ u.update = sets[k].update /\ u.parallel = sets[k].parallel
        /\ u.exists = sets[k].exists /\ u.template = sets[k].template
        /\ u.updateRevision = sets[k].updateRevision
    BY ZenonT(60), <2>1 DEF SetObjects
  <2>3. sets' = [sets EXCEPT ![k] = u]
    BY ZenonT(60), <1>2
  <2> HIDE DEF u
  <2> QED
    BY ZenonT(60), <2>2, <2>3
<1> QED
  BY ZenonT(60), <1>1, <1>2 DEF CleanupAnnotations, InProgress

(***************************************************************************)
(* A write that leaves the set existing, or its template and revision      *)
(* alone, keeps missing sets blank.                                        *)
(***************************************************************************)
LEMMA WriteBlank ==
  ASSUME Inv, BlankInv, NEW k \in Indices, NEW u, sets' = [sets EXCEPT ![k] = u], UNCHANGED pods,
         ~u.exists => /\ ~sets[k].exists /\ u.template = sets[k].template
                      /\ u.updateRevision = sets[k].updateRevision
  PROVE  BlankInv'
<1>1. sets'[k] = u /\ \A i \in Indices \ {k} : sets'[i] = sets[i]
  BY ZenonT(60), WriteOne
<1>2. ASSUME NEW i \in Indices, ~sets'[i].exists
      PROVE  /\ ~sets[i].exists /\ sets'[i].template = sets[i].template
             /\ sets'[i].updateRevision = sets[i].updateRevision
  <2>1. CASE i = k
    BY ZenonT(60), <1>1, <1>2, <2>1
  <2>2. CASE i # k
    BY ZenonT(60), <1>1, <1>2, <2>2
  <2> QED
    BY ZenonT(60), <2>1, <2>2
<1> QED
  BY ZenonT(60), <1>2 DEF BlankInv

(***************************************************************************)
(* A set whose pods change exists; the others' pods stay as they are, and  *)
(* it was not settled.                                                     *)
(***************************************************************************)
LEMMA PodsParts ==
  ASSUME Inv, BlankInv, NEW i \in Indices, NEW o \in Ordinals,
         CreatePod(i, o) \/ BecomeReady(i, o) \/ RollPod(i, o)
  PROVE  /\ UNCHANGED <<template, sets>> /\ sets[i].exists /\ ~Settled(i)
         /\ \A j \in Indices \ {i} : pods'[j] = pods[j]
<1>1. UNCHANGED <<template, sets>>
  BY DEF CreatePod, BecomeReady, RollPod
<1>2. PICK new : pods' = [pods EXCEPT ![i] = [pods[i] EXCEPT ![o] = new]]
  BY ZenonT(60) DEF CreatePod, BecomeReady, RollPod
<1>3. pods \in [Indices -> [Ordinals -> [rev : Revisions, ready : BOOLEAN]]]
  BY DEF Inv, TypeOK, PodLists
<1>4. \A j \in Indices \ {i} : pods'[j] = pods[j]
  BY ZenonT(60), <1>2, <1>3
<1>5. ~NoPod.ready /\ NoPod.rev = NoRevision
  BY DEF NoPod
<1>6. sets[i].exists
  BY ZenonT(60), <1>5 DEF BlankInv, CreatePod, BecomeReady, RollPod
<1>7. pods[i][o].ready # TRUE \/ pods[i][o].rev # sets[i].template
  BY ZenonT(60), <1>3, <1>5 DEF CreatePod, BecomeReady, RollPod
<1>8. ~Settled(i)
  <2> DEFINE settled == [rev |-> sets[i].template, ready |-> TRUE]
  <2>1. settled.ready = TRUE /\ settled.rev = sets[i].template
    OBVIOUS
  <2>2. Settled(i) => pods[i][o] = settled
    BY ZenonT(60) DEF Settled
  <2> HIDE DEF settled
  <2> QED
    BY ZenonT(60), <1>7, <2>1, <2>2
<1> QED
  BY ZenonT(60), <1>1, <1>4, <1>6, <1>8

(***************************************************************************)
(* At first all sets exist, or all are missing and blank.                  *)
(***************************************************************************)
LEMMA InitBlank == Init => BlankInv
<1> SUFFICES ASSUME Init PROVE BlankInv
  OBVIOUS
<1>1. NoSet.template = NoRevision /\ NoSet.updateRevision = NoRevision /\ RunningSet.exists
  BY ZenonT(60) DEF NoSet, RunningSet
<1>2. CASE Created
  BY ZenonT(60), <1>1, <1>2 DEF Init, BlankInv
<1>3. CASE ~Created
  <2>1. \A i \in Indices : sets[i] = NoSet /\ \A o \in Ordinals : pods[i][o] = NoPod
    BY ZenonT(60), <1>3 DEF Init
  <2> QED
    BY ZenonT(60), <1>1, <2>1 DEF BlankInv
<1> QED
  BY <1>2, <1>3

(***************************************************************************)
(* Missing sets stay blank: nothing but their creation writes them.        *)
(***************************************************************************)
LEMMA StepBlank ==
  ASSUME ~OnDelete, Inv, KnownInv, OrderInv, BlankInv, [Next]_vars
  PROVE  BlankInv'
<1>1. CASE UNCHANGED <<sets, pods>>
  BY ZenonT(60), <1>1 DEF BlankInv
<1>2. CASE ApplyStatefulSetUpdate
  <2>1. pass.at \in Indices /\ Annotated(pass.sets[pass.at]) /\ UNCHANGED pods
    BY <1>2, ApplyParts
  <2>2. ASSUME pass.sets[pass.at] = sets[pass.at],
               NEW u \in UpdatedStatefulSets(sets[pass.at], pass.template),
               sets' = [sets EXCEPT ![pass.at] = u]
        PROVE  BlankInv'
    <3>1. sets[pass.at] \in SetObjects /\ sets[pass.at].exists
      BY ZenonT(60), <2>1, <2>2, Parts DEF KnownInv, ExistInv
    <3>2. u.exists
      BY <2>2, <3>1, UpdatedParts
    <3> QED
      BY ZenonT(60), <2>1, <2>2, <3>2, WriteBlank
  <2> QED
    BY ZenonT(60), <1>1, <1>2, <2>1, <2>2, ApplyParts
<1>3. CASE CleanupAnnotations
  <2>1. UNCHANGED pods
    BY <1>3, CleanupParts
  <2> QED
    BY ZenonT(60), <1>1, <1>3, <2>1, CleanupParts, WriteBlank
<1>4. ASSUME NEW i \in Indices, CreateStatefulSet(i) PROVE BlankInv'
  <2>1. UNCHANGED pods
    BY <1>4, CreateParts
  <2> QED
    BY ZenonT(60), <1>1, <1>4, <2>1, CreateParts, WriteBlank
<1>5. ASSUME NEW i \in Indices, UpdateSetStatus(i) PROVE BlankInv'
  <2>1. UNCHANGED pods /\ sets[i].exists
    BY <1>5 DEF UpdateSetStatus
  <2> QED
    BY ZenonT(60), <1>5, <2>1, StatusParts, WriteBlank
<1>6. ASSUME NEW i \in Indices, NEW o \in Ordinals, CreatePod(i, o) \/ BecomeReady(i, o) \/ RollPod(i, o)
      PROVE  BlankInv'
  BY ZenonT(60), <1>6, PodsParts DEF BlankInv
<1>7. ASSUME NEW t \in Templates, ChangeTemplate(t) PROVE BlankInv'
  BY <1>1, <1>7 DEF ChangeTemplate
<1>8. ASSUME NEW i \in Indices, NEW v \in {NoValue} \cup ParallelValues, Annotate(i, v) PROVE BlankInv'
  BY ZenonT(60), <1>8, AnnotateParts, WriteBlank
<1> QED
  BY ZenonT(60), <1>1, <1>2, <1>3, <1>4, <1>5, <1>6, <1>7, <1>8, WhoWrites

(***************************************************************************)
(* What RolloutService sees of a write to one set.                         *)
(***************************************************************************)
LEMMA WriteSeen ==
  ASSUME Inv, NEW k \in Indices, NEW u, sets' = [sets EXCEPT ![k] = u]
  PROVE  /\ AppliedTo' = [AppliedTo EXCEPT ![k] = u.template]
         /\ Pending' = IF Annotated(u) THEN Pending \cup {k} ELSE Pending \ {k}
<1>1. sets'[k] = u /\ \A i \in Indices \ {k} : sets'[i] = sets[i]
  BY ZenonT(60), WriteOne
<1>2. AppliedTo' = [AppliedTo EXCEPT ![k] = u.template]
  <2> DEFINE before(i) == sets[i].template
             after(i) == sets'[i].template
  <2>1. after(k) = u.template /\ \A i \in Indices \ {k} : after(i) = before(i)
    BY <1>1
  <2> HIDE DEF before, after
  <2>2. [i \in Indices |-> after(i)] = [[i \in Indices |-> before(i)] EXCEPT ![k] = u.template]
    BY ZenonT(60), <2>1
  <2> QED
    BY <2>2 DEF before, after, AppliedTo
<1>3. Pending' = {i \in Indices : Annotated(sets'[i])}
  BY DEF Pending, Annotated
<1>4. Pending' = IF Annotated(u) THEN Pending \cup {k} ELSE Pending \ {k}
  BY ZenonT(60), <1>1, <1>3 DEF Pending
<1> QED
  BY <1>2, <1>4

(***************************************************************************)
(* A write that leaves template and annotations alone is not seen.         *)
(***************************************************************************)
LEMMA WriteUnseen ==
  ASSUME Inv, NEW k \in Indices, NEW u, sets' = [sets EXCEPT ![k] = u], UNCHANGED pods,
         u.template = sets[k].template, Annotated(u) <=> Annotated(sets[k])
  PROVE  UNCHANGED <<AppliedTo, Pending, SettledSets>>
<1>1. sets'[k] = u /\ \A i \in Indices \ {k} : sets'[i] = sets[i]
  BY ZenonT(60), WriteOne
<1>2. AppliedTo' = AppliedTo
  BY <1>1 DEF AppliedTo
<1>3. Pending' = Pending
  BY ZenonT(60), WriteSeen DEF Pending
<1>4. \A i \in Indices : Settled(i)' <=> Settled(i)
  BY ZenonT(60), <1>1 DEF Settled
<1>5. SettledSets' = SettledSets
  BY ZenonT(60), <1>4 DEF SettledSets
<1> QED
  BY <1>2, <1>3, <1>5

(***************************************************************************)
(* The write of applyStatefulSetUpdate processes the first set that is     *)
(* annotated, when all sets are settled, and gives it the template that    *)
(* the cluster asks for.                                                   *)
(***************************************************************************)
LEMMA ApplyProcesses ==
  ASSUME Inv, KnownInv, OrderInv, At("loop"), NEW k \in Indices, k = pass.at, k \in pass.fresh,
         Annotated(pass.sets[k]), pass.sets[k] = sets[k],
         NEW u \in UpdatedStatefulSets(sets[k], pass.template), sets' = [sets EXCEPT ![k] = u],
         UNCHANGED <<template, pods>>
  PROVE  /\ k \in Pending /\ \A j \in Pending : k <= j
         /\ SettledSets = Indices
         /\ Pending' = Pending \ {k}
         /\ AppliedTo' = [AppliedTo EXCEPT ![k] = template]
         /\ SettledSets' = IF AppliedTo[k] = template THEN SettledSets ELSE SettledSets \ {k}
<1>1. pass.template = template /\ sets[k] \in SetObjects
  <2>1. ~At("idle")
    BY DEF At
  <2> QED
    BY ZenonT(60), <2>1, Parts, PendingKnown
<1>2. ~Annotated(u) /\ u.template = template
  BY <1>1, UpdatedParts
<1>3. \A j \in Indices : Settled(j)
  <2>1. Settled(k)
    BY ZenonT(60) DEF OrderInv, PassInv, Lapsed
  <2> QED
    BY ZenonT(60), <2>1, OthersSettled
<1>4. \A j \in Before(k) : ~Annotated(sets[j])
  BY ZenonT(60) DEF OrderInv, PassInv
<1>5. \A j \in Pending : k <= j
  <2>1. \A j \in Indices : j \in Before(k) \/ k <= j
    BY RolloutAssumption DEF Before, Indices
  <2> QED
    BY ZenonT(60), <1>4, <2>1 DEF Pending
<1>6. /\ sets'[k] = u /\ \A j \in Indices \ {k} : sets'[j] = sets[j]
      /\ AppliedTo' = [AppliedTo EXCEPT ![k] = template] /\ Pending' = Pending \ {k}
  BY ZenonT(60), <1>2, WriteOne, WriteSeen
<1>7. AppliedTo[k] = sets[k].template
  BY DEF AppliedTo
<1>8. \A j \in Indices \ {k} : Settled(j)'
  BY ZenonT(60), <1>3, <1>6 DEF Settled
<1>9. SettledSets' = IF AppliedTo[k] = template THEN SettledSets ELSE SettledSets \ {k}
  <2>1. CASE sets[k].template = template
    <3>1. Settled(k)' <=> Settled(k)
      BY ZenonT(60), <1>2, <1>6, <2>1 DEF Settled
    <3> QED
      BY ZenonT(60), <1>3, <1>7, <1>8, <2>1, <3>1 DEF SettledSets
  <2>2. CASE sets[k].template # template
    <3>1. 0 \in Ordinals /\ pods[k][0] = [rev |-> sets[k].template, ready |-> TRUE]
      BY <1>3, RolloutAssumption DEF Settled, Ordinals
    <3>2. [rev |-> sets[k].template, ready |-> TRUE] # [rev |-> template, ready |-> TRUE]
      BY <2>2
    <3>3. ~Settled(k)'
      BY ZenonT(60), <1>2, <1>6, <3>1, <3>2 DEF Settled
    <3> QED
      BY ZenonT(60), <1>3, <1>7, <1>8, <2>2, <3>3 DEF SettledSets
  <2> QED
    BY <2>1, <2>2
<1> QED
  BY ZenonT(60), <1>3, <1>5, <1>6, <1>9 DEF Pending, SettledSets

(***************************************************************************)
(* RolloutService starts where this does.                                  *)
(***************************************************************************)
LEMMA InitUpdates == Init => Updating!Init
<1> SUFFICES ASSUME Init PROVE Updating!Init
  OBVIOUS
<1>1. template \in Templates /\ Updating!Templates = Templates /\ Updating!Indices = Indices
  BY ConstantTypes DEF Init, Templates, Updating!Templates, Indices, Updating!Indices
<1>2. Pending = {}
  <2>1. ~Annotated(NoSet) /\ ~Annotated(RunningSet)
    BY ZenonT(60) DEF Annotated, NoSet, RunningSet
  <2>2. \A i \in Indices : ~Annotated(sets[i])
    BY ZenonT(60), <2>1 DEF Init
  <2> QED
    BY ZenonT(60), <2>2 DEF Pending
<1>3. \/ AppliedTo = [i \in Indices |-> template] /\ SettledSets = Indices
      \/ AppliedTo = [i \in Indices |-> NoRevision] /\ SettledSets = {}
  <2>1. CASE Created
    <3>1. \A i \in Indices : sets[i].template = template
      <4>1. RunningSet.template = 1
        BY ZenonT(60) DEF RunningSet, NoSet
      <4> QED
        BY ZenonT(60), <2>1, <4>1 DEF Init
    <3>2. \A i \in Indices : Settled(i)
      BY ZenonT(60), <2>1, <3>1 DEF Init, Settled
    <3> QED
      BY <3>1, <3>2 DEF AppliedTo, SettledSets
  <2>2. CASE ~Created
    <3>1. \A i \in Indices : sets[i] = NoSet /\ \A o \in Ordinals : pods[i][o] = NoPod
      BY ZenonT(60), <2>2 DEF Init
    <3>2. NoSet.template = NoRevision /\ NoPod.ready = FALSE
      BY DEF NoSet, NoPod
    <3>3. 0 \in Ordinals
      BY RolloutAssumption DEF Ordinals
    <3>4. \A i \in Indices : NoPod # [rev |-> sets[i].template, ready |-> TRUE]
      BY <3>2
    <3>5. \A i \in Indices : ~Settled(i)
      BY ZenonT(60), <3>1, <3>3, <3>4 DEF Settled
    <3> QED
      BY ZenonT(60), <3>1, <3>2, <3>5 DEF AppliedTo, SettledSets
  <2> QED
    BY <2>1, <2>2
<1> QED
  BY ZenonT(60), <1>1, <1>2, <1>3 DEF Updating!Init, Updating!Missing, AppliedTo, SettledSets, Pending, NoRevision

(***************************************************************************)
(* A step of RolloutService, in the terms of this module.                  *)
(***************************************************************************)
LEMMA ServiceSteps ==
  /\ UNCHANGED <<template, AppliedTo, Pending, SettledSets>> => UNCHANGED Updating!vars
  /\ \A t \in Templates :
       /\ Pending = {} /\ template' = t /\ UNCHANGED <<AppliedTo, Pending, SettledSets>>
       => Updating!Next
  /\ \A i \in Indices :
       /\ AppliedTo[i] # NoRevision /\ Pending' = Pending \cup {i}
       /\ UNCHANGED <<template, AppliedTo, SettledSets>>
       => Updating!Next
  /\ \A i \in Indices :
       /\ i \in Pending /\ (\A j \in Pending : i <= j) /\ SettledSets = Indices
       /\ Pending' = Pending \ {i} /\ AppliedTo' = [AppliedTo EXCEPT ![i] = template]
       /\ SettledSets' = (IF AppliedTo[i] = template THEN SettledSets ELSE SettledSets \ {i})
       /\ UNCHANGED template
       => Updating!Next
  /\ \A i \in Indices :
       /\ AppliedTo[i] # NoRevision /\ SettledSets' = SettledSets \cup {i}
       /\ UNCHANGED <<template, AppliedTo, Pending>>
       => Updating!Next
  /\ \A i \in Indices, t \in Templates :
       /\ AppliedTo[i] = NoRevision /\ AppliedTo' = [AppliedTo EXCEPT ![i] = t]
       /\ UNCHANGED <<template, Pending, SettledSets>>
       => Updating!Next
<1>1. Updating!Templates = Templates /\ Updating!Indices = Indices /\ Updating!Missing = NoRevision
  BY DEF Templates, Updating!Templates, Indices, Updating!Indices, Updating!Missing, NoRevision
<1>2. UNCHANGED <<template, AppliedTo, Pending, SettledSets>> => UNCHANGED Updating!vars
  BY ZenonT(60) DEF Updating!vars, AppliedTo, Pending, SettledSets
<1>3. ASSUME NEW t \in Templates, Pending = {}, template' = t, UNCHANGED <<AppliedTo, Pending, SettledSets>>
      PROVE  Updating!Next
  <2>1. Updating!Ask(t)
    BY ZenonT(60), <1>3 DEF Updating!Ask, AppliedTo, Pending, SettledSets
  <2> QED
    BY ZenonT(60), <1>1, <2>1 DEF Updating!Next
<1>4. ASSUME NEW i \in Indices, AppliedTo[i] # NoRevision, Pending' = Pending \cup {i},
             UNCHANGED <<template, AppliedTo, SettledSets>>
      PROVE  Updating!Next
  <2>1. Updating!Annotate(i)
    BY ZenonT(60), <1>1, <1>4 DEF Updating!Annotate, AppliedTo, Pending, SettledSets
  <2> QED
    BY ZenonT(60), <1>1, <2>1 DEF Updating!Next
<1>5. ASSUME NEW i \in Indices, i \in Pending, \A j \in Pending : i <= j, SettledSets = Indices,
             Pending' = Pending \ {i}, AppliedTo' = [AppliedTo EXCEPT ![i] = template],
             SettledSets' = IF AppliedTo[i] = template THEN SettledSets ELSE SettledSets \ {i},
             UNCHANGED template
      PROVE  Updating!Next
  <2>1. Updating!Process(i)
    BY ZenonT(60), <1>1, <1>5 DEF Updating!Process, AppliedTo, Pending, SettledSets
  <2> QED
    BY ZenonT(60), <1>1, <2>1 DEF Updating!Next
<1>6. ASSUME NEW i \in Indices, AppliedTo[i] # NoRevision, SettledSets' = SettledSets \cup {i},
             UNCHANGED <<template, AppliedTo, Pending>>
      PROVE  Updating!Next
  <2>1. Updating!Settle(i)
    BY ZenonT(60), <1>1, <1>6 DEF Updating!Settle, AppliedTo, Pending, SettledSets
  <2> QED
    BY ZenonT(60), <1>1, <2>1 DEF Updating!Next
<1>7. ASSUME NEW i \in Indices, NEW t \in Templates, AppliedTo[i] = NoRevision,
             AppliedTo' = [AppliedTo EXCEPT ![i] = t], UNCHANGED <<template, Pending, SettledSets>>
      PROVE  Updating!Next
  <2>1. Updating!Create(i, t)
    BY ZenonT(60), <1>1, <1>7 DEF Updating!Create, AppliedTo, Pending, SettledSets
  <2> QED
    BY ZenonT(60), <1>1, <2>1 DEF Updating!Next
<1> QED
  BY ZenonT(60), <1>2, <1>3, <1>4, <1>5, <1>6, <1>7

(***************************************************************************)
(* Every step is a step of RolloutService, or one that it does not see.    *)
(***************************************************************************)
LEMMA StepUpdates ==
  ASSUME User = "careful", ~OnDelete, Inv, KnownInv, OrderInv, BlankInv, [Next]_vars
  PROVE  [Updating!Next]_(Updating!vars)
<1> DEFINE Goal == Updating!Next \/ UNCHANGED Updating!vars
<1> HIDE DEF Goal
<1>1. ASSUME UNCHANGED <<template, sets, pods>> PROVE Goal
  <2>1. UNCHANGED <<AppliedTo, Pending>>
    BY <1>1 DEF AppliedTo, Pending, Annotated
  <2>2. UNCHANGED SettledSets
    BY <1>1 DEF SettledSets, Settled
  <2> QED
    BY ZenonT(60), <1>1, <2>1, <2>2, ServiceSteps DEF Goal
<1>2. ASSUME ApplyStatefulSetUpdate PROVE Goal
  <2>1. At("loop") /\ pass.at \in Indices /\ Annotated(pass.sets[pass.at]) /\ UNCHANGED <<template, pods>>
    BY <1>2, ApplyParts
  <2>2. ASSUME pass.at \in pass.fresh, pass.sets[pass.at] = sets[pass.at],
               NEW u \in UpdatedStatefulSets(sets[pass.at], pass.template),
               sets' = [sets EXCEPT ![pass.at] = u]
        PROVE  Goal
    BY ZenonT(60), <2>1, <2>2, ApplyProcesses, ServiceSteps DEF Goal
  <2> QED
    BY ZenonT(60), <1>1, <1>2, <2>1, <2>2, ApplyParts
<1>3. ASSUME UNCHANGED <<template, pods>>, NEW k \in Indices, NEW u, sets' = [sets EXCEPT ![k] = u],
             u.template = sets[k].template, u.update = sets[k].update, u.parallel = sets[k].parallel
      PROVE  Goal
  <2>1. Annotated(u) <=> Annotated(sets[k])
    BY <1>3 DEF Annotated
  <2> QED
    BY ZenonT(60), <1>3, <2>1, WriteUnseen, ServiceSteps DEF Goal
<1>4. ASSUME CleanupAnnotations PROVE Goal
  BY ZenonT(60), <1>1, <1>3, <1>4, CleanupParts
<1>5. ASSUME NEW i \in Indices, CreateStatefulSet(i) PROVE Goal
  <2>1. UNCHANGED <<template, pods>> /\ pass.template \in Templates
    <3>1. UNCHANGED <<template, pods>> /\ At("begun")
      BY <1>5, CreateParts
    <3>2. pass.template # NoRevision
      BY ZenonT(60), <3>1 DEF OrderInv, StatusInv, At
    <3> QED
      BY ZenonT(60), <3>1, <3>2, Parts DEF Revisions
  <2>2. ASSUME NEW k \in Indices, NEW u, ~sets[k].exists, sets' = [sets EXCEPT ![k] = u],
               ~Annotated(u), u.template = pass.template
        PROVE  Goal
    <3>0. sets'[k] = u /\ \A j \in Indices \ {k} : sets'[j] = sets[j]
      BY ZenonT(60), <2>2, WriteOne
    <3>1. AppliedTo' = [AppliedTo EXCEPT ![k] = pass.template] /\ Pending' = Pending \ {k}
      <4>1. /\ AppliedTo' = [AppliedTo EXCEPT ![k] = u.template]
            /\ Pending' = IF Annotated(u) THEN Pending \cup {k} ELSE Pending \ {k}
        BY ZenonT(60), <2>2, WriteSeen
      <4> QED
        BY ZenonT(60), <2>2, <4>1
    <3>2. AppliedTo[k] = NoRevision /\ k \notin Pending
      BY ZenonT(60), <2>2 DEF BlankInv, KnownInv, ExistInv, AppliedTo, Pending
    <3>3. 0 \in Ordinals /\ NoPod.ready # TRUE
      BY RolloutAssumption DEF Ordinals, NoPod
    <3>4. \A t : pods[k][0] # [rev |-> t, ready |-> TRUE]
      <4>1. pods[k][0] = NoPod
        BY ZenonT(60), <2>2, <3>3 DEF BlankInv
      <4>2. \A t : [rev |-> t, ready |-> TRUE].ready = TRUE
        OBVIOUS
      <4> QED
        BY ZenonT(60), <3>3, <4>1, <4>2
    <3>5. ~Settled(k) /\ ~Settled(k)'
      BY ZenonT(60), <2>1, <3>3, <3>4 DEF Settled
    <3>6. \A j \in Indices : Settled(j)' <=> Settled(j)
      BY ZenonT(60), <2>1, <3>0, <3>5 DEF Settled
    <3>7. UNCHANGED SettledSets /\ Pending' = Pending
      BY ZenonT(60), <3>1, <3>2, <3>6 DEF SettledSets
    <3> QED
      BY ZenonT(60), <2>1, <3>1, <3>2, <3>7, ServiceSteps DEF Goal
  <2> QED
    BY ZenonT(60), <1>1, <1>5, <2>1, <2>2, CreateParts
<1>6. ASSUME NEW i \in Indices, UpdateSetStatus(i) PROVE Goal
  <2>1. UNCHANGED <<template, pods>>
    BY <1>6 DEF UpdateSetStatus
  <2> QED
    BY ZenonT(60), <1>3, <1>6, <2>1, StatusParts
<1>7. ASSUME NEW i \in Indices, NEW o \in Ordinals, CreatePod(i, o) \/ BecomeReady(i, o) \/ RollPod(i, o)
      PROVE  Goal
  <2>1. /\ UNCHANGED <<template, sets>> /\ sets[i].exists /\ ~Settled(i)
        /\ \A j \in Indices \ {i} : pods'[j] = pods[j]
    BY ZenonT(60), <1>7, PodsParts
  <2>2. UNCHANGED <<AppliedTo, Pending>>
    BY <2>1 DEF AppliedTo, Pending, Annotated
  <2>3. AppliedTo[i] # NoRevision
    BY ZenonT(60), <2>1 DEF AppliedTo, OrderInv, StatusInv
  <2>4. \A j \in Indices \ {i} : Settled(j)' <=> Settled(j)
    BY ZenonT(60), <2>1 DEF Settled
  <2>5. SettledSets' = SettledSets \/ SettledSets' = SettledSets \cup {i}
    BY ZenonT(60), <2>1, <2>4 DEF SettledSets
  <2> QED
    BY ZenonT(60), <2>1, <2>2, <2>3, <2>5, ServiceSteps DEF Goal
<1>8. ASSUME NEW t \in Templates, ChangeTemplate(t) PROVE Goal
  <2>1. UNCHANGED <<sets, pods>> /\ template' = t /\ \A i \in Indices : ~Annotated(sets[i])
    BY <1>8 DEF ChangeTemplate
  <2>2. UNCHANGED <<AppliedTo, Pending>> /\ Pending = {}
    BY <2>1 DEF AppliedTo, Pending, Annotated
  <2>3. UNCHANGED SettledSets
    BY <2>1 DEF SettledSets, Settled
  <2> QED
    BY ZenonT(60), <2>1, <2>2, <2>3, ServiceSteps DEF Goal
<1>9. ASSUME NEW i \in Indices, NEW v \in {NoValue} \cup ParallelValues, Annotate(i, v) PROVE Goal
  <2>1. PICK u : /\ sets' = [sets EXCEPT ![i] = u] /\ u.template = sets[i].template
                 /\ UNCHANGED <<template, pods>> /\ sets[i].exists
    BY ZenonT(60), <1>9, AnnotateParts
  <2>2. AppliedTo[i] = sets[i].template /\ AppliedTo[i] # NoRevision
    BY ZenonT(60), <2>1 DEF AppliedTo, OrderInv, StatusInv
  <2>3. sets'[i] = u /\ \A j \in Indices \ {i} : sets'[j] = sets[j]
    BY ZenonT(60), <2>1, WriteOne
  <2>4. UNCHANGED AppliedTo
    BY <2>1, <2>3 DEF AppliedTo
  <2>5. UNCHANGED SettledSets
    <3>1. \A j \in Indices : Settled(j)' <=> Settled(j)
      BY ZenonT(60), <2>1, <2>3 DEF Settled
    <3> QED
      BY ZenonT(60), <3>1 DEF SettledSets
  <2>6. Annotated(u)
    BY ZenonT(60), <1>9, <2>3, AnnotateAdds, WriteOne
  <2>7. Pending' = Pending \cup {i}
    BY ZenonT(60), <2>1, <2>6, WriteSeen
  <2> QED
    BY ZenonT(60), <2>1, <2>2, <2>4, <2>5, <2>7, ServiceSteps DEF Goal
<1>10. Goal
  BY ZenonT(60), <1>1, <1>2, <1>4, <1>5, <1>6, <1>7, <1>8, <1>9, WhoWrites
<1> QED
  BY <1>10 DEF Goal

(***************************************************************************)
(* To a careful user, with rolling updates, the operator implements        *)
(* RolloutService: though handleClusterUpdate reads a cached template and  *)
(* cached sets, possibly long before it writes, each update takes effect   *)
(* at once, on the first annotated set, with the template that is asked    *)
(* for, and when all sets have settled.                                    *)
(***************************************************************************)
THEOREM UpdatesImplementService ==
  ASSUME User = "careful", ~OnDelete
  PROVE  Spec => UpdatesAtOnce
<1>1. Init => OrderInv /\ BlankInv /\ Updating!Init
  BY InitOrder, InitBlank, InitUpdates
<1>2. Inv /\ KnownInv /\ OrderInv /\ BlankInv /\ [Next]_vars => OrderInv' /\ BlankInv'
  BY StepOrder, StepBlank
<1>3. Inv /\ KnownInv /\ OrderInv /\ BlankInv /\ [Next]_vars => [Updating!Next]_(Updating!vars)
  BY StepUpdates
<1> QED
  BY <1>1, <1>2, <1>3, KnownToCareful, PTL DEF Spec, UpdatesAtOnce, Updating!Spec

=============================================================================
