--------------------------- MODULE PlacementResize ---------------------------
(***************************************************************************)
(* How handleClusterUpdate (pkg/controller/controller.go) keeps three      *)
(* things in step: the number of instances the M3DBCluster asks for in     *)
(* each isolation group, the replicas of the group's StatefulSet, and the  *)
(* M3DB placement that the coordinator keeps in etcd.                      *)
(*                                                                         *)
(* A pass of the control loop is a sequence of actions: it reads three     *)
(* informer caches and the coordinator at different moments, and writes    *)
(* through the Kubernetes API and the coordinator, while users, the        *)
(* StatefulSet controller and the database nodes keep going.  A pass that  *)
(* returns before it has read anything of use is a stuttering step.        *)
(*                                                                         *)
(* Pods, the StatefulSet controller and the coordinator are external: they *)
(* are modelled from what the operator expects of them.                    *)
(*                                                                         *)
(* A definition named X_Wrong... is X with a bug that the code could have  *)
(* had; no other definition uses it.                                       *)
(***************************************************************************)
EXTENDS Naturals, FiniteSets

CONSTANTS
  Groups,           \* the isolation groups, one StatefulSet each
  MaxInstances,     \* bound: pods per StatefulSet
  MaxUid,           \* bound: times a pod of one name is created
  InitialInstances, \* the instances per group the cluster is created with
  Strategies,       \* whether the update strategy may be OnDelete, or not
  UseUID,           \* podIdentityConfig is unset: the UID is in the identity
  PatientUser,      \* the user edits the cluster only when nothing is going on
  MaxSpecChanges,   \* bound: edits of the cluster by the user
  MaxRollouts,      \* bound: updates of StatefulSets that users ask for
  MaxPodFailures,   \* bound: pods evicted, lost with their node or restarted
  MaxCallErrors     \* bound: calls that fail or whose answer is lost, crashes

ASSUME ConstantsAssumption ==
  /\ IsFiniteSet(Groups)
  /\ MaxInstances \in Nat \ {0}
  /\ MaxUid \in Nat \ {0}
  /\ InitialInstances \in 1..MaxInstances
  /\ Strategies \subseteq BOOLEAN
  /\ UseUID \in BOOLEAN /\ PatientUser \in BOOLEAN
  /\ MaxSpecChanges \in Nat /\ MaxRollouts \in Nat /\ MaxPodFailures \in Nat /\ MaxCallErrors \in Nat

Ordinals == 0..(MaxInstances - 1)
Counts == 0..MaxInstances
Uids == 1..MaxUid
NoPod == 0

(***************************************************************************)
(* An instance ID is the identity of a pod: its name (the group and the    *)
(* ordinal) and, by default, its UID.                                      *)
(***************************************************************************)
Ids == Groups \X Ordinals \X Uids
GroupOf(id) == id[1]
OrdinalOf(id) == id[2]
UidOf(id) == id[3]

Placements == [Ids -> {"Absent", "Initializing", "Available", "Leaving"}]
NoPlacement == [id \in Ids |-> "Absent"]

Clusters == [desired : [Groups -> Counts], preventScaleDown : BOOLEAN,
             placementInitialized : BOOLEAN,
             podsBootstrapping : {"Unset", "True", "False"}]
NoCluster == [desired |-> [g \in Groups |-> 0], preventScaleDown |-> FALSE,
              placementInitialized |-> FALSE, podsBootstrapping |-> "Unset"]

(***************************************************************************)
(* observed stands for generation = observedGeneration, onDelete for the   *)
(* update strategy OnDelete rather than RollingUpdate, and inProgress for  *)
(* the parallel-update-in-progress annotation.                             *)
(***************************************************************************)
Sets == [Groups -> [replicas : Counts, readyReplicas : Counts, observed : BOOLEAN,
                    onDelete : BOOLEAN, inProgress : BOOLEAN]]
NoSet == [replicas |-> 0, readyReplicas |-> 0, observed |-> FALSE,
          onDelete |-> FALSE, inProgress |-> FALSE]
NoSets == [g \in Groups |-> NoSet]
PodLists == [Groups -> [Ordinals -> Uids \cup {NoPod}]]

(***************************************************************************)
(* The informer caches, and the local variables of a pass.  fresh: the     *)
(* resource version of that copy of the cluster is the one the API has.    *)
(***************************************************************************)
Caches == [cluster : Clusters, fresh : BOOLEAN, sets : Sets, pods : PodLists]
Passes == [pc : {"idle", "init", "created", "fetch", "replace", "replaceCall",
                 "resize", "add", "finish", "cleanup"},
           cluster : Clusters, fresh : BOOLEAN,
           seen : Placements, sets : Sets,      \* the placement and sets it read
           replacing : SUBSET (Ids \X Ids),     \* {<<leaving, new>>} or none
           adding : SUBSET Ids]                 \* the instances to add
NoPass == [pc |-> "idle", cluster |-> NoCluster, fresh |-> FALSE,
           seen |-> NoPlacement, sets |-> NoSets, replacing |-> {}, adding |-> {}]

VARIABLES
  cluster,          \* the M3DBCluster: spec and conditions
  sets,             \* the StatefulSet of each group: spec and status
  pods,             \* the UID of each live pod, NoPod when there is none
  lastUid,          \* the last UID given to a pod of each name
  placementExists,  \* the coordinator answers Get with a placement
  placement,        \* the state of every instance in it
  cache, pass,
  budget            \* what users, nodes and the network may still do

vars == <<cluster, sets, pods, lastUid, placementExists, placement, cache, pass, budget>>
kube == <<cluster, sets, pods, lastUid>>
coordinator == <<placementExists, placement>>

TypeOK ==
  /\ cluster \in Clusters
  /\ sets \in Sets
  /\ pods \in PodLists
  /\ lastUid \in PodLists
  /\ placementExists \in BOOLEAN
  /\ placement \in Placements
  /\ cache \in Caches
  /\ pass \in Passes
  /\ budget \in [spec : Nat, rollout : Nat, fail : Nat, call : Nat]

-----------------------------------------------------------------------------
(***************************************************************************)
(* Reading a placement and a list of pods.                                 *)
(***************************************************************************)
In(pl) == {id \in Ids : pl[id] # "Absent"}
InGroup(pl, g) == {id \in In(pl) : GroupOf(id) = g}
AllAvailable_WrongUnchecked(pl) == TRUE
AllAvailable_WrongLeavingIgnored(pl) == \A id \in In(pl) : pl[id] # "Initializing"
AllAvailable(pl) == \A id \in In(pl) : pl[id] = "Available"

Listed(list, g) == {o \in Ordinals : list[g][o] # NoPod}
Identity(list, g, o) == <<g, o, IF UseUID THEN list[g][o] ELSE 1>>
Identities(list, g) == {Identity(list, g, o) : o \in Listed(list, g)}

(***************************************************************************)
(* The position of a pod in the list sorted by ordinal (sortPods).         *)
(***************************************************************************)
IndexIn_WrongOrder(list, g, o) == Cardinality({p \in Listed(list, g) : p > o})
IndexIn(list, g, o) == Cardinality({p \in Listed(list, g) : p < o})

-----------------------------------------------------------------------------
(***************************************************************************)
(* The steps of a pass.  A return, with or without an error, waits for the *)
(* next event or resync.  The steps are those of calls that are answered;  *)
(* PassAborts is a call that failed, or that was done and not answered.    *)
(***************************************************************************)
At(step) == pass.pc = step
Goto(step) == pass' = [pass EXCEPT !.pc = step]
Return == pass' = NoPass

(***************************************************************************)
(* UpdateStatus carries the resource version of the pass's copy, so it     *)
(* succeeds only if nobody wrote the cluster since that version.           *)
(***************************************************************************)
UpdateStatus(copy) ==
  /\ pass.fresh
  /\ cluster' = [cluster EXCEPT !.placementInitialized = copy.placementInitialized,
                                !.podsBootstrapping = copy.podsBootstrapping]
  /\ cache' = [cache EXCEPT !.fresh = FALSE]

NoWrite == UNCHANGED <<cluster, cache>>

(***************************************************************************)
(* A pass goes past the StatefulSets only when the cache says that every   *)
(* set's status is up to date and every replica of it is ready.            *)
(* The code copies the cluster somewhat before it reads the sets; nothing  *)
(* but a pass reads the cached cluster, so a pass that copied it earlier   *)
(* is one that starts while the watch of the cluster is late.              *)
(***************************************************************************)
SetsReady == \A g \in Groups : /\ cache.sets[g].observed
                               /\ cache.sets[g].readyReplicas = cache.sets[g].replicas

StartPass ==
  /\ At("idle")
  /\ SetsReady
  /\ pass' = [NoPass EXCEPT
                !.cluster = cache.cluster, !.fresh = cache.fresh,
                !.pc = IF cache.cluster.placementInitialized THEN "fetch" ELSE "init"]
  /\ UNCHANGED <<kube, coordinator, cache, budget>>

(***************************************************************************)
(* validatePlacementWithStatus: the placement is created from every pod of *)
(* the cluster that the cache lists, if there is none.  The coordinator    *)
(* refuses a placement that misses a whole group.                          *)
(***************************************************************************)
InitRequest == UNION {Identities(cache.pods, g) : g \in Groups}
Complete(ids) == \A g \in Groups : \E id \in ids : GroupOf(id) = g

InitPlacement ==
  /\ At("init")
  /\ \/ placementExists /\ UNCHANGED coordinator /\ Goto("created")
     \/ /\ ~placementExists /\ Complete(InitRequest)
        /\ placementExists' = TRUE
        /\ placement' = [id \in Ids |-> IF id \in InitRequest THEN "Initializing" ELSE "Absent"]
        /\ Goto("created")
     \/ ~placementExists /\ ~Complete(InitRequest) /\ UNCHANGED coordinator /\ Return
  /\ UNCHANGED <<kube, cache, budget>>

(***************************************************************************)
(* setStatusPlacementCreated; the pass goes on with the answer.            *)
(***************************************************************************)
SetStatusPlacementCreated ==
  /\ At("created")
  /\ LET copy == [pass.cluster EXCEPT !.placementInitialized = TRUE]
     IN  \/ UpdateStatus(copy) /\ pass' = [pass EXCEPT !.cluster = copy, !.pc = "fetch"]
         \/ ~pass.fresh /\ NoWrite /\ Return
  /\ UNCHANGED <<sets, pods, lastUid, coordinator, budget>>

(***************************************************************************)
(* checkPodsForReplacement: a listed pod whose name is the host name of an *)
(* instance with another identity.  Pods are tried in ordinal order.       *)
(***************************************************************************)
Mismatches(pl, list) ==
  {<<id, Identity(list, GroupOf(id), OrdinalOf(id))>> :
     id \in {i \in In(pl) : /\ OrdinalOf(i) \in Listed(list, GroupOf(i))
                            /\ Identity(list, GroupOf(i), OrdinalOf(i)) # i}}

PodsForReplacement(pl, list) ==
  {m \in Mismatches(pl, list) :
     \A n \in Mismatches(pl, list) : OrdinalOf(m[1]) <= OrdinalOf(n[1])}

(***************************************************************************)
(* The pass lists the pods, gets the placement, gives up while an instance *)
(* is unavailable, and lists the StatefulSets again.                       *)
(***************************************************************************)
FetchPlacement ==
  /\ At("fetch")
  /\ LET pairs == PodsForReplacement(placement, cache.pods)
         fetched == [pass EXCEPT !.seen = placement, !.sets = cache.sets]
     IN  \/ /\ ~AllAvailable(placement)
            /\ Return
         \/ /\ AllAvailable(placement)
            /\ pairs = {}
            /\ pass' = [fetched EXCEPT !.pc = "resize"]
         \/ /\ AllAvailable(placement)
            /\ \E p \in pairs : pass' = [fetched EXCEPT !.pc = "replace", !.replacing = {p}]
  /\ UNCHANGED <<kube, coordinator, cache, budget>>

(***************************************************************************)
(* setStatusPodsBootstrapping(True) comes before a call that makes pods    *)
(* bootstrap.  There is no write when the pass's copy already says True.   *)
(* The callers drop the answer: the copy keeps its old resource version.   *)
(***************************************************************************)
SetStatusPodsBootstrapping(step, ids) ==
  LET copy == [pass.cluster EXCEPT !.podsBootstrapping = "True"]
      go == [pass EXCEPT !.pc = step, !.adding = ids, !.cluster = copy]
  IN  IF pass.cluster.podsBootstrapping = "True"
      THEN NoWrite /\ pass' = go
      ELSE \/ UpdateStatus(copy) /\ pass' = [go EXCEPT !.fresh = FALSE]
           \/ ~pass.fresh /\ NoWrite /\ Return

ReplacePodStatus ==
  /\ At("replace")
  /\ SetStatusPodsBootstrapping("replaceCall", {})
  /\ UNCHANGED <<sets, pods, lastUid, coordinator, budget>>

(***************************************************************************)
(* replacePodInPlacement.  After a success the pass goes on with the       *)
(* placement it fetched before the replace.  The coordinator refuses a     *)
(* candidate that is already in the placement.                             *)
(***************************************************************************)
ReplacePodInPlacement ==
  /\ At("replaceCall")
  /\ \E p \in pass.replacing :
       \/ /\ placement[p[2]] = "Absent"
          /\ placement' = [placement EXCEPT ![p[1]] = "Leaving", ![p[2]] = "Initializing"]
          /\ Goto("resize")
       \/ placement[p[2]] # "Absent" /\ UNCHANGED placement /\ Return
  /\ UNCHANGED <<kube, placementExists, cache, budget>>

-----------------------------------------------------------------------------
(***************************************************************************)
(* The loop over the sets, in the random order of the lister: the first    *)
(* one that is not at its size ends the pass.  A set with the OnDelete     *)
(* strategy is skipped when no rollout of it is in progress.               *)
(***************************************************************************)
Skipped_WrongNever(g) == FALSE
Skipped(g) == pass.sets[g].onDelete /\ ~pass.sets[g].inProgress

Desired(g) == pass.cluster.desired[g]
Current(g) == pass.sets[g].replicas
InPlacement(g) == Cardinality(InGroup(pass.seen, g))

AtSize_WrongPlacementIgnored(g) == Desired(g) = Current(g)
AtSize(g) == Desired(g) = Current(g) /\ InPlacement(g) = Current(g)
ToExpand_WrongWhileResizing(g) == InPlacement(g) < Current(g)
ToExpand(g) == Desired(g) = Current(g) /\ InPlacement(g) < Current(g)
ToShrink(g) == InPlacement(g) > Desired(g)
ToPatch_WrongUnchecked(g) == Desired(g) # Current(g)
ToPatch(g) == Desired(g) # Current(g) /\ InPlacement(g) <= Desired(g)

(***************************************************************************)
(* expandPlacementForSet lists the pods of the set again and adds every    *)
(* one whose identity is not in the placement it was given.                *)
(* AddPodsToPlacement is the call it ends with, refused as a whole when    *)
(* one of the instances is in the placement.                               *)
(***************************************************************************)
PodsToAdd(g) == Identities(cache.pods, g) \ In(pass.seen)

ExpandPlacementForSet(g) ==
  /\ At("resize") /\ ~Skipped(g)
  /\ ToExpand(g)
  /\ IF pass.sets[g].readyReplicas < Desired(g) \/ PodsToAdd(g) = {}
     THEN NoWrite /\ Return
     ELSE SetStatusPodsBootstrapping("add", PodsToAdd(g))
  /\ UNCHANGED <<sets, pods, lastUid, coordinator, budget>>

AddPodsToPlacement ==
  /\ At("add")
  /\ placement' = IF pass.adding \cap In(placement) = {}
                  THEN [id \in Ids |-> IF id \in pass.adding THEN "Initializing" ELSE placement[id]]
                  ELSE placement
  /\ Return
  /\ UNCHANGED <<kube, placementExists, cache, budget>>

(***************************************************************************)
(* shrinkPlacementForSet.  findPodsAndInstancesToRemove takes, from the    *)
(* list sorted by ordinal, the pods from position desired on that are in   *)
(* the placement it was given; the call is refused when one has gone.      *)
(***************************************************************************)
InstancesToRemove_WrongOffByOne(g) ==
  {id \in Identities(cache.pods, g) \cap In(pass.seen) :
     IndexIn(cache.pods, g, OrdinalOf(id)) > Desired(g)}
InstancesToRemove(g) ==
  {id \in Identities(cache.pods, g) \cap In(pass.seen) :
     IndexIn(cache.pods, g, OrdinalOf(id)) >= Desired(g)}

ShrinkAllowed_WrongToZero(g) == ~pass.cluster.preventScaleDown
ShrinkAllowed(g) == ~pass.cluster.preventScaleDown /\ Desired(g) > 0

ShrinkPlacementForSet(g) ==
  /\ At("resize") /\ ~Skipped(g)
  /\ ToShrink(g)
  /\ placement' = IF ShrinkAllowed(g) /\ InstancesToRemove(g) \subseteq In(placement)
                  THEN [id \in Ids |-> IF id \in InstancesToRemove(g) THEN "Leaving" ELSE placement[id]]
                  ELSE placement
  /\ Return
  /\ UNCHANGED <<kube, placementExists, cache, budget>>

(***************************************************************************)
(* The size of the set moves by one towards what is desired.  The merge    *)
(* patch (patchStatefulSet) holds the new number and no resource version.  *)
(***************************************************************************)
NewCount_WrongUp(g) == Current(g) + 1
NewCount(g) == IF Current(g) < Desired(g) THEN Current(g) + 1 ELSE Current(g) - 1

PatchStatefulSet(g) ==
  /\ At("resize") /\ ~Skipped(g)
  /\ ToPatch(g)
  /\ sets' = IF Current(g) < Desired(g) \/ ~pass.cluster.preventScaleDown
             THEN [sets EXCEPT ![g].replicas = NewCount(g),
                               ![g].observed = @ /\ sets[g].replicas = NewCount(g)]
             ELSE sets
  /\ Return
  /\ UNCHANGED <<cluster, pods, lastUid, coordinator, cache, budget>>

AllAtSize ==
  /\ At("resize")
  /\ \A g \in Groups : AtSize(g) \/ Skipped(g)
  /\ Goto("finish")
  /\ UNCHANGED <<kube, coordinator, cache, budget>>

(***************************************************************************)
(* The placement is fetched again; when every instance is available the    *)
(* condition goes to False (reconcileBootstrappingStatus).  Then the       *)
(* in-progress annotations are removed.                                    *)
(***************************************************************************)
InProgress == {g \in Groups : pass.sets[g].inProgress}
ToCleanup == IF InProgress = {} THEN Return ELSE Goto("cleanup")

ReconcileBootstrappingStatus_WrongReplacedOnly ==
  /\ At("finish")
  /\ IF AllAvailable(placement) /\ pass.replacing # {} /\ pass.fresh
     THEN UpdateStatus([pass.cluster EXCEPT !.podsBootstrapping = "False"])
     ELSE NoWrite
  /\ ToCleanup
  /\ UNCHANGED <<sets, pods, lastUid, coordinator, budget>>
ReconcileBootstrappingStatus ==
  /\ At("finish")
  /\ LET clear == AllAvailable(placement) /\ pass.cluster.podsBootstrapping # "False"
     IN  \/ /\ clear
            /\ UpdateStatus([pass.cluster EXCEPT !.podsBootstrapping = "False"])
            /\ ToCleanup
         \/ clear /\ ~pass.fresh /\ NoWrite /\ Return
         \/ ~clear /\ NoWrite /\ ToCleanup
  /\ UNCHANGED <<sets, pods, lastUid, coordinator, budget>>

(***************************************************************************)
(* cleanupAnnotations, for the sets the pass listed before the loop: one   *)
(* patch each, without a resource version.                                 *)
(***************************************************************************)
CleanupAnnotations ==
  /\ At("cleanup")
  /\ \E g \in InProgress :
       /\ sets' = [sets EXCEPT ![g].inProgress = FALSE]
       /\ IF InProgress = {g} THEN Return
          ELSE pass' = [pass EXCEPT !.sets[g].inProgress = FALSE]
  /\ UNCHANGED <<cluster, pods, lastUid, coordinator, cache, budget>>

(***************************************************************************)
(* A call of the pass fails, or is done and its answer is lost (the step   *)
(* before was taken); or the process dies and starts again, and fills its  *)
(* caches before the workers run.                                          *)
(***************************************************************************)
PassAborts ==
  /\ ~At("idle")
  /\ budget.call > 0
  /\ budget' = [budget EXCEPT !.call = @ - 1]
  /\ Return
  /\ \/ UNCHANGED cache
     \/ cache' = [cluster |-> cluster, fresh |-> TRUE, sets |-> sets, pods |-> pods]
  /\ UNCHANGED <<kube, coordinator>>

Pass ==
  \/ StartPass \/ InitPlacement \/ SetStatusPlacementCreated
  \/ FetchPlacement \/ ReplacePodStatus \/ ReplacePodInPlacement
  \/ \E g \in Groups :
       ExpandPlacementForSet(g) \/ ShrinkPlacementForSet(g) \/ PatchStatefulSet(g)
  \/ AddPodsToPlacement \/ AllAtSize \/ ReconcileBootstrappingStatus
  \/ CleanupAnnotations

-----------------------------------------------------------------------------
(***************************************************************************)
(* The informers: each cache follows its own watch.                        *)
(***************************************************************************)
SyncCluster ==
  /\ ~cache.fresh
  /\ cache' = [cache EXCEPT !.cluster = cluster, !.fresh = TRUE]
  /\ UNCHANGED <<kube, coordinator, pass, budget>>

SyncSets ==
  /\ cache.sets # sets
  /\ cache' = [cache EXCEPT !.sets = sets]
  /\ UNCHANGED <<kube, coordinator, pass, budget>>

SyncPods ==
  /\ cache.pods # pods
  /\ cache' = [cache EXCEPT !.pods = pods]
  /\ UNCHANGED <<kube, coordinator, pass, budget>>

(***************************************************************************)
(* The StatefulSet controller.  Pod management is parallel by default, so  *)
(* pods come and go in any order.  A pod that exists counts as ready once  *)
(* the status is written.                                                  *)
(***************************************************************************)
CreatePod(g, o) ==
  /\ o < sets[g].replicas
  /\ pods[g][o] = NoPod
  /\ lastUid[g][o] < MaxUid
  /\ pods' = [pods EXCEPT ![g][o] = lastUid[g][o] + 1]
  /\ lastUid' = [lastUid EXCEPT ![g][o] = @ + 1]
  /\ UNCHANGED <<cluster, sets, coordinator, cache, pass, budget>>

DeletePod(g, o) ==
  /\ o >= sets[g].replicas
  /\ pods[g][o] # NoPod
  /\ pods' = [pods EXCEPT ![g][o] = NoPod]
  /\ UNCHANGED <<cluster, sets, lastUid, coordinator, cache, pass, budget>>

UpdateSetStatus(g) ==
  /\ sets' = [sets EXCEPT ![g].readyReplicas = Cardinality(Listed(pods, g)),
                          ![g].observed = TRUE]
  /\ sets' # sets
  /\ UNCHANGED <<cluster, pods, lastUid, coordinator, cache, pass, budget>>

StatefulSetController ==
  \E g \in Groups :
    \/ \E o \in Ordinals : CreatePod(g, o) \/ DeletePod(g, o)
    \/ UpdateSetStatus(g)

FailPod(g, o) ==
  /\ budget.fail > 0
  /\ pods[g][o] # NoPod
  /\ pods' = [pods EXCEPT ![g][o] = NoPod]
  /\ budget' = [budget EXCEPT !.fail = @ - 1]
  /\ UNCHANGED <<cluster, sets, lastUid, coordinator, cache, pass>>

(***************************************************************************)
(* The database nodes.  An instance that is initializing becomes available *)
(* when the node with its identity has bootstrapped; one that is leaving   *)
(* goes once nobody is initializing any more.                              *)
(***************************************************************************)
BecomeAvailable(id) ==
  /\ placement[id] = "Initializing"
  /\ id \in Identities(pods, GroupOf(id))
  /\ placement' = [placement EXCEPT ![id] = "Available"]
  /\ UNCHANGED <<kube, placementExists, cache, pass, budget>>

Leave(id) ==
  /\ placement[id] = "Leaving"
  /\ \A i \in Ids : placement[i] # "Initializing"
  /\ placement' = [placement EXCEPT ![id] = "Absent"]
  /\ UNCHANGED <<kube, placementExists, cache, pass, budget>>

Database == \E id \in Ids : BecomeAvailable(id) \/ Leave(id)

(***************************************************************************)
(* Every group is at the size the user asked for and every cache knows.    *)
(***************************************************************************)
Converged ==
  /\ cache.fresh /\ cache.sets = sets /\ cache.pods = pods
  /\ AllAvailable(placement)
  /\ \A g \in Groups :
       /\ sets[g].replicas = cluster.desired[g] /\ sets[g].observed
       /\ sets[g].readyReplicas = sets[g].replicas /\ ~sets[g].inProgress
       /\ Listed(pods, g) = {o \in Ordinals : o < cluster.desired[g]}
       /\ InGroup(placement, g) = Identities(pods, g)

ChangeSpec(g, n, prevent) ==
  /\ budget.spec > 0
  /\ PatientUser => At("idle") /\ Converged
  /\ cluster' = [cluster EXCEPT !.desired[g] = n, !.preventScaleDown = prevent]
  /\ cluster' # cluster
  /\ cache' = [cache EXCEPT !.fresh = FALSE]
  /\ pass' = [pass EXCEPT !.fresh = FALSE]
  /\ budget' = [budget EXCEPT !.spec = @ - 1]
  /\ UNCHANGED <<sets, pods, lastUid, coordinator>>

(***************************************************************************)
(* A pass whose first half gives an OnDelete set that the user has         *)
(* annotated a new template: it replaces the object it has cached, and the *)
(* annotation becomes the in-progress annotation.  A patient user edits    *)
(* the template together with the size, so a pass that sees the one sees   *)
(* the other.  How the rollout goes on is in StatefulSetRollout; a pod it  *)
(* restarts is one that fails here.                                        *)
(***************************************************************************)
ApplyStatefulSetUpdate(g) ==
  /\ budget.rollout > 0
  /\ At("idle") /\ SetsReady
  /\ PatientUser => cache.fresh
  /\ cache.sets[g] = sets[g] /\ sets[g].onDelete
  /\ sets' = [sets EXCEPT ![g].inProgress = TRUE, ![g].observed = FALSE]
  /\ budget' = [budget EXCEPT !.rollout = @ - 1]
  /\ UNCHANGED <<cluster, pods, lastUid, coordinator, cache, pass>>

Environment ==
  \/ SyncCluster \/ SyncSets \/ SyncPods
  \/ StatefulSetController \/ Database \/ PassAborts
  \/ \E g \in Groups, o \in Ordinals : FailPod(g, o)
  \/ \E g \in Groups, n \in Counts, prevent \in BOOLEAN : ChangeSpec(g, n, prevent)
  \/ \E g \in Groups : ApplyStatefulSetUpdate(g)

(***************************************************************************)
(* The StatefulSets have just been created; no pod runs yet.               *)
(***************************************************************************)
Init ==
  /\ cluster = [NoCluster EXCEPT !.desired = [g \in Groups |-> InitialInstances]]
  /\ \E onDelete \in Strategies :
       sets = [g \in Groups |-> [NoSet EXCEPT !.replicas = InitialInstances,
                                              !.onDelete = onDelete]]
  /\ pods = [g \in Groups |-> [o \in Ordinals |-> NoPod]]
  /\ lastUid = [g \in Groups |-> [o \in Ordinals |-> NoPod]]
  /\ placementExists = FALSE
  /\ placement = NoPlacement
  /\ cache = [cluster |-> cluster, fresh |-> TRUE, sets |-> sets, pods |-> pods]
  /\ pass = NoPass
  /\ budget = [spec |-> MaxSpecChanges, rollout |-> MaxRollouts,
               fail |-> MaxPodFailures, call |-> MaxCallErrors]

Next == Pass \/ Environment

Spec == Init /\ [][Next]_vars

(***************************************************************************)
(* Every resync starts a pass and every step of a pass returns; watches    *)
(* deliver; the StatefulSet controller and the nodes do their work.  Users *)
(* and failures owe nothing.                                               *)
(***************************************************************************)
Fairness ==
  /\ WF_vars(Pass)
  /\ WF_vars(SyncCluster) /\ WF_vars(SyncSets) /\ WF_vars(SyncPods)
  /\ WF_vars(StatefulSetController)
  /\ WF_vars(Database)

FairSpec == Spec /\ Fairness

-----------------------------------------------------------------------------
(***************************************************************************)
(* Properties.                                                             *)
(***************************************************************************)
Staying(g) == {id \in InGroup(placement, g) : placement[id] # "Leaving"}
StayingOrdinals(g) == {OrdinalOf(id) : id \in Staying(g)}
PlacedOrdinals(g) == {OrdinalOf(id) : id \in InGroup(placement, g)}

(***************************************************************************)
(* The pod of an instance has been lost and created again, so that nobody  *)
(* has the instance's identity any more.                                   *)
(***************************************************************************)
Orphan(id) == /\ placement[id] # "Absent"
              /\ UseUID /\ lastUid[GroupOf(id)][OrdinalOf(id)] > UidOf(id)

Joins(id) == placement[id] = "Absent" /\ placement'[id] = "Initializing"
StartsToLeave(id) == placement[id] = "Available" /\ placement'[id] = "Leaving"

(***************************************************************************)
(* While a pass works with the placement it fetched, every instance of it  *)
(* was available and nothing has changed in the real one but the pair that *)
(* the pass itself replaced, and that pair is one pod.  It is the strength *)
(* that the next two properties need.                                      *)
(***************************************************************************)
SeenIsCurrent ==
  /\ pass.pc \in {"idle", "init", "created", "fetch"} => pass.replacing = {}
  /\ pass.pc \in {"replace", "replaceCall"} => placement = pass.seen
  /\ pass.pc \in {"replace", "replaceCall", "resize", "add"} =>
       /\ AllAvailable(pass.seen)
       /\ \A p \in pass.replacing : /\ p[1] \in In(pass.seen)
                                    /\ GroupOf(p[1]) = GroupOf(p[2])
                                    /\ OrdinalOf(p[1]) = OrdinalOf(p[2])
       /\ \A id \in Ids : \/ placement[id] = pass.seen[id]
                          \/ \E p \in pass.replacing : id \in {p[1], p[2]}

(***************************************************************************)
(* The operator adds, removes or replaces instances only when the          *)
(* placement is at rest: whatever is unavailable at that moment is the     *)
(* pair that this very pass replaced.  The check was made on a placement   *)
(* fetched several steps earlier (controller.go, "waiting for instances to *)
(* be available").                                                         *)
(***************************************************************************)
OneChangeAtATime ==
  [][placementExists /\ (\E id \in Ids : Joins(id) \/ StartsToLeave(id)) =>
       \A id \in In(placement) :
          \/ placement[id] = "Available"
          \/ \E p \in pass.replacing : id \in {p[1], p[2]}]_vars

(***************************************************************************)
(* A pass that makes a StatefulSet smaller than it listed it leaves at     *)
(* least as many replicas as the set has pods in the placement, though the *)
(* placement it compared with is one from before its own replace and the   *)
(* user may have changed their mind since.                                 *)
(***************************************************************************)
NeverBelowPlacement ==
  [][\A g \in Groups :
       sets'[g].replicas # sets[g].replicas /\ sets'[g].replicas < Current(g) =>
         Cardinality(PlacedOrdinals(g)) <= sets'[g].replicas]_vars

(***************************************************************************)
(* "The operator safely scales up or scales down the cluster" (README.md): *)
(* a pod that holds shards, or is about to, is one that the StatefulSet    *)
(* keeps.                                                                  *)
(***************************************************************************)
PlacedPodsKept ==
  \A g \in Groups : \A id \in Staying(g) : OrdinalOf(id) < sets[g].replicas

(***************************************************************************)
(* "If statefulset is managed using on delete strategy, then operator      *)
(* should not expand nor shrink the cluster without the annotation"        *)
(* (controller.go): not the size of the set, nor which of its pods are in  *)
(* the placement.  The annotation is read from a cache that may show one   *)
(* that is gone.                                                           *)
(***************************************************************************)
ResizesAreAnnotated ==
  [][\A g \in Groups :
       sets[g].onDelete /\ ~sets[g].inProgress =>
         /\ sets'[g].replicas = sets[g].replicas
         /\ placementExists => StayingOrdinals(g)' = StayingOrdinals(g)]_vars

(***************************************************************************)
(* The in-progress annotation goes only when "there is nothing more to do  *)
(* for operator" (cleanupAnnotations): the set and its instances in the    *)
(* placement have the size the cluster asks for.  Otherwise nobody would   *)
(* resize the set any more.  The operator has counted the instances of a   *)
(* placement from before its own replace.                                  *)
(***************************************************************************)
AnnotatedUntilResized ==
  [][\A g \in Groups :
       sets[g].inProgress /\ ~sets'[g].inProgress =>
         /\ sets[g].replicas = cluster.desired[g]
         /\ Cardinality(Staying(g)) = cluster.desired[g]]_vars

(***************************************************************************)
(* Shrinking never takes the last instance of an isolation group           *)
(* (findPodsAndInstancesToRemove refuses a desired count of zero), so the  *)
(* placement always has an instance in each.                               *)
(***************************************************************************)
GroupsKeepAnInstance ==
  placementExists => \A g \in Groups : Staying(g) # {}

(***************************************************************************)
(* "The operator safely scales up or scales down the cluster" (README.md), *)
(* in full, for a patient user: with its caches, failures and replacements *)
(* the operator does to sizes what one could do that sees everything as it *)
(* is and does it at once.  Sets grow before the placement and shrink      *)
(* after it, by one, towards what is asked for now; and the placement      *)
(* loses none of the pods that are asked for.                              *)
(***************************************************************************)
PlacedPods(g) ==
  {o \in Ordinals : \E u \in Uids : placement[<<g, o, u>>] \in {"Initializing", "Available"}}

Sizing == INSTANCE ResizeService
            WITH desired <- cluster.desired,
                 replicas <- [g \in Groups |-> sets[g].replicas],
                 placed <- [g \in Groups |-> PlacedPods(g)]

ResizesSafely == Sizing!Spec

(***************************************************************************)
(* Once users and failures stop, every group reaches the size it was asked *)
(* for and stays there, whatever the caches showed on the way, unless what *)
(* was asked for last is a size of zero or a scale-down that is forbidden, *)
(* or a resize under OnDelete that no rollout is in progress for.          *)
(***************************************************************************)
Refused ==
  \E g \in Groups :
    \/ cluster.desired[g] = 0
    \/ /\ cluster.preventScaleDown
       /\ \/ cluster.desired[g] < sets[g].replicas
          \/ cluster.desired[g] < Cardinality(InGroup(placement, g))

NotAnnotated ==
  \E g \in Groups :
    /\ sets[g].onDelete /\ ~sets[g].inProgress
    /\ \/ sets[g].replicas # cluster.desired[g]
       \/ Cardinality(InGroup(placement, g)) # cluster.desired[g]

Converges == <>[](Converged \/ Refused \/ NotAnnotated)

(***************************************************************************)
(* The PodsBootstrapping condition is cleared in the end, with the same    *)
(* exception: it is written before the call that makes a pod bootstrap,    *)
(* which may fail, from a copy that may be stale, and the pass that clears *)
(* it is another one (setStatus, reconcileBootstrappingStatus).            *)
(***************************************************************************)
BootstrappingEnds == <>[](cluster.podsBootstrapping = "False" \/ Refused)

(***************************************************************************)
(* "Replacing failed instances" (README.md): an instance that nobody has   *)
(* the identity of any more does not stay in the placement.                *)
(***************************************************************************)
FailedInstancesReplaced == \A id \in Ids : Orphan(id) ~> ~Orphan(id)

=============================================================================
