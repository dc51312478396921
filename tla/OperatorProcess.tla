--------------------------- MODULE OperatorProcess ---------------------------
(***************************************************************************)
(* The operator as a process: main (cmd/m3db-operator/main.go) starts      *)
(* informers and NewM3DBController's Run starts workers once the caches    *)
(* are filled; event handlers put clusters on the work queue, workers take *)
(* them off.  The first part of a pass is in here too: the config map and  *)
(* the services (add_cluster.go), and the creation of StatefulSets.  What  *)
(* comes after is in StatefulSetRollout and PlacementResize, what deletion *)
(* does to etcd in EtcdData.                                               *)
(*                                                                         *)
(* The API server, its garbage collector and users are around it.  A       *)
(* definition named X_Wrong... is X with a bug that the code could have    *)
(* had.                                                                    *)
(***************************************************************************)
EXTENDS Naturals, WorkQueue

CONSTANTS
  Workers,     \* the goroutines of Run
  Clusters,    \* the names of clusters: namespace/name
  Kinds,       \* the kinds of specs that occur
  Groups,      \* the number of isolation groups
  MaxVersion,  \* bound: creations and edits of clusters
  MaxTroubles  \* bound: failures, exits, deletions of objects

(***************************************************************************)
(* A spec names a config map of its own, lacks what the default config map *)
(* needs, fails validateIsolationGroups, is frozen, or is plain.           *)
(***************************************************************************)
AllKinds == {"plain", "own", "bad", "invalid", "frozen"}

ASSUME ProcessAssumption ==
  /\ Kinds \subseteq AllKinds
  /\ Groups \in Nat /\ MaxVersion \in Nat /\ MaxTroubles \in Nat

(***************************************************************************)
(* Creations and edits count versions.  The version of its creation is a   *)
(* cluster's UID; the version of the last edit tells its config.  UID 0    *)
(* and owner 0 are for what is not there.                                  *)
(***************************************************************************)
Versions == 0..MaxVersion
ClusterObjects == [uid : Versions, config : Versions, kind : AllKinds, deleting : BOOLEAN]
NoCluster == [uid |-> 0, config |-> 0, kind |-> "plain", deleting |-> FALSE]

Names == {"config map", "coordinator", "m3dbnode"}
OwnedObjects == [owner : Versions, config : Versions]
NoObject == [owner |-> 0, config |-> 0]

Indices == 1..Groups
NoSets == [i \in Indices |-> 0]

Informers == {"clusters", "statefulsets", "pods"}
EmptyCache == [clusters |-> [c \in Clusters |-> NoCluster], sets |-> [c \in Clusters |-> NoSets],
               synced |-> {}]

Idle == [pc |-> "idle"]
Busy == [pc : {"finalize", "get", "create", "patch", "sets"}, key : Clusters,
         cluster : ClusterObjects, name : Names]

VARIABLES
  clusters,  \* the M3DBClusters of the API server
  objects,   \* their config maps and services
  sets,      \* the owners of their StatefulSets
  version,   \* the version last given
  operator,  \* the operator's phase: "down", "waiting" for caches, "running"
  cache,     \* the informers
  queue,     \* clusterWorkQueue
  worker,    \* the local variables of each worker
  removed,   \* history: the objects of a cluster removed during its pass
  budget     \* what may still go wrong

vars == <<clusters, objects, sets, version, operator, cache, queue, worker, removed, budget>>

TypeOK ==
  /\ clusters \in [Clusters -> ClusterObjects]
  /\ objects \in [Clusters -> [Names -> OwnedObjects]]
  /\ sets \in [Clusters -> [Indices -> Versions]]
  /\ version \in Versions
  /\ operator \in {"down", "waiting", "running"}
  /\ cache \in [clusters : [Clusters -> ClusterObjects], sets : [Clusters -> [Indices -> Versions]],
                synced : SUBSET Informers]
  /\ queue \in Queues(Clusters)
  /\ worker \in [Workers -> Busy \cup {Idle}]
  /\ removed \in [Clusters -> SUBSET Names]
  /\ budget \in Nat

-----------------------------------------------------------------------------
(***************************************************************************)
(* main and Run: the process starts; the informers, which have their       *)
(* handlers by then, list; Run waits for them and starts the workers.  The *)
(* node informer is not waited for.                                        *)
(***************************************************************************)
Exists(cluster) == cluster.uid # 0

Start ==
  /\ operator = "down"
  /\ operator' = "waiting"
  /\ UNCHANGED <<clusters, objects, sets, version, cache, queue, worker, removed, budget>>

(***************************************************************************)
(* The first list of an informer, each of its objects an AddFunc.          *)
(***************************************************************************)
ListClusters ==
  /\ operator # "down" /\ "clusters" \notin cache.synced
  /\ cache' = [cache EXCEPT !.clusters = clusters, !.synced = @ \cup {"clusters"}]
  /\ queue' = AddRateLimited(queue, {c \in Clusters : Exists(clusters[c])})
  /\ UNCHANGED <<clusters, objects, sets, version, operator, worker, removed, budget>>

ListStatefulSets ==
  /\ operator # "down" /\ "statefulsets" \notin cache.synced
  /\ cache' = [cache EXCEPT !.sets = sets, !.synced = @ \cup {"statefulsets"}]
  /\ queue' = AddRateLimited(queue, {c \in Clusters : Exists(cache.clusters[c]) /\ sets[c] # NoSets})
  /\ UNCHANGED <<clusters, objects, sets, version, operator, worker, removed, budget>>

ListPods ==
  /\ operator # "down" /\ "pods" \notin cache.synced
  /\ cache' = [cache EXCEPT !.synced = @ \cup {"pods"}]
  /\ UNCHANGED <<clusters, objects, sets, version, operator, queue, worker, removed, budget>>

HasSynced_WrongNotStatefulSets == {"clusters", "pods"} \subseteq cache.synced
HasSynced == Informers \subseteq cache.synced

Run ==
  /\ operator = "waiting"
  /\ HasSynced
  /\ operator' = "running"
  /\ UNCHANGED <<clusters, objects, sets, version, cache, queue, worker, removed, budget>>

Trouble == budget > 0 /\ budget' = budget - 1

(***************************************************************************)
(* A crash, or a signal: Run returns and main with it, whatever the        *)
(* workers are doing.                                                      *)
(***************************************************************************)
Exit ==
  /\ operator # "down"
  /\ Trouble
  /\ operator' = "down"
  /\ cache' = EmptyCache /\ queue' = EmptyQueue
  /\ worker' = [w \in Workers |-> Idle]
  /\ removed' = [c \in Clusters |-> {}]
  /\ UNCHANGED <<clusters, objects, sets, version>>

-----------------------------------------------------------------------------
(***************************************************************************)
(* Event handlers.  A cluster that is added or updated is enqueued, also   *)
(* by a resync; a StatefulSet that changes enqueues the cluster of its     *)
(* owner's name.                                                           *)
(***************************************************************************)
EnqueueCluster(c) ==
  queue' = IF Exists(cache'.clusters[c]) THEN AddRateLimited(queue, {c}) ELSE queue

ClusterEvent(c) ==
  /\ "clusters" \in cache.synced /\ cache.clusters[c] # clusters[c]
  /\ cache' = [cache EXCEPT !.clusters[c] = clusters[c]]
  /\ EnqueueCluster(c)
  /\ UNCHANGED <<clusters, objects, sets, version, operator, worker, removed, budget>>

StatefulSetEvent(c, i) ==
  /\ "statefulsets" \in cache.synced /\ cache.sets[c][i] # sets[c][i]
  /\ cache' = [cache EXCEPT !.sets[c][i] = sets[c][i]]
  /\ EnqueueCluster(c)
  /\ UNCHANGED <<clusters, objects, sets, version, operator, worker, removed, budget>>

Resync_WrongFiltered(c) == FALSE
Resync(c) ==
  /\ Exists(cache.clusters[c])
  /\ queue' = AddRateLimited(queue, {c})
  /\ UNCHANGED <<clusters, objects, sets, version, operator, cache, worker, removed, budget>>

-----------------------------------------------------------------------------
(***************************************************************************)
(* A pass.  Its end, with or without an error, makes the key Done; nothing *)
(* enqueues it again but the next event or resync.                         *)
(***************************************************************************)
At(w, step) == worker[w].pc = step
Key(w) == worker[w].key
Copy(w) == worker[w].cluster
Object(w) == objects[Key(w)][worker[w].name]

EndPass(w) ==
  /\ worker' = [worker EXCEPT ![w] = Idle]
  /\ queue' = Done(queue, Key(w))
  /\ removed' = [removed EXCEPT ![Key(w)] = {}]

Goto(w, step) == worker' = [worker EXCEPT ![w].pc = step] /\ UNCHANGED <<queue, removed>>

(***************************************************************************)
(* handleClusterEvent, and handleClusterUpdate up to validateIsolation-    *)
(* Groups: a cluster that is gone, frozen or invalid is not touched.       *)
(***************************************************************************)
Turned(cluster) ==
  \/ ~Exists(cluster) \/ cluster.kind = "frozen"
  \/ ~cluster.deleting /\ cluster.kind = "invalid"

HandleClusterEvent(w, c) ==
  /\ operator = "running" /\ At(w, "idle")
  /\ c \in Ready(queue)
  /\ LET cluster == cache.clusters[c]
     IN  IF Turned(cluster)
         THEN queue' = Done(Get(queue, c), c) /\ UNCHANGED worker
         ELSE /\ queue' = Get(queue, c)
              /\ worker' = [worker EXCEPT ![w] =
                   [pc |-> IF cluster.deleting THEN "finalize" ELSE "get",
                    key |-> c, cluster |-> cluster, name |-> "config map"]]
  /\ UNCHANGED <<clusters, objects, sets, version, operator, cache, removed, budget>>

(***************************************************************************)
(* A cluster that is being deleted goes once its finalizer is removed.     *)
(***************************************************************************)
RemoveEtcdFinalizer(w) ==
  /\ At(w, "finalize")
  /\ clusters' = IF clusters[Key(w)] = Copy(w) THEN [clusters EXCEPT ![Key(w)] = NoCluster] ELSE clusters
  /\ EndPass(w)
  /\ UNCHANGED <<objects, sets, version, operator, cache, budget>>

(***************************************************************************)
(* ensureConfigMap and, for each of the services, EnsureService: a Get,    *)
(* and then a Create or, for the data of a config map, a Patch.  An object *)
(* that exists under the name will do, whoever owns it.                    *)
(***************************************************************************)
NextObject_WrongHeadlessLater(w) ==
  IF worker[w].name = "config map"
  THEN worker' = [worker EXCEPT ![w].pc = "get", ![w].name = "coordinator"]
  ELSE worker' = [worker EXCEPT ![w].pc = "sets"]
NextObject_WrongPastTheLast(w) ==
  worker' = [worker EXCEPT ![w].pc = "get",
               ![w].name = IF @ = "config map" THEN "coordinator"
                           ELSE IF @ = "coordinator" THEN "m3dbnode" ELSE "none"]
NextObject(w) ==
  IF worker[w].name = "m3dbnode"
  THEN worker' = [worker EXCEPT ![w].pc = "sets"]
  ELSE worker' = [worker EXCEPT ![w].pc = "get",
                    ![w].name = IF @ = "config map" THEN "coordinator" ELSE "m3dbnode"]

Wanted(w) == [owner |-> Copy(w).uid, config |-> IF worker[w].name = "config map" THEN Copy(w).config ELSE 0]

GetObject(w) ==
  /\ At(w, "get")
  /\ IF worker[w].name = "config map" /\ Copy(w).kind = "own"
     THEN NextObject(w) /\ UNCHANGED <<queue, removed>>
     ELSE IF worker[w].name = "config map" /\ Copy(w).kind = "bad"
     THEN EndPass(w)
     ELSE IF Object(w) = NoObject
     THEN Goto(w, "create")
     ELSE IF Object(w).config # Wanted(w).config
     THEN Goto(w, "patch")
     ELSE NextObject(w) /\ UNCHANGED <<queue, removed>>
  /\ UNCHANGED <<clusters, objects, sets, version, operator, cache, budget>>

CreateObject(w) ==
  /\ At(w, "create")
  /\ IF Object(w) = NoObject
     THEN /\ objects' = [objects EXCEPT ![Key(w)][worker[w].name] = Wanted(w)]
          /\ NextObject(w) /\ UNCHANGED <<queue, removed>>
     ELSE EndPass(w) /\ UNCHANGED objects
  /\ UNCHANGED <<clusters, sets, version, operator, cache, budget>>

PatchObject(w) ==
  /\ At(w, "patch")
  /\ IF Object(w) # NoObject
     THEN /\ objects' = [objects EXCEPT ![Key(w)][worker[w].name].config = Wanted(w).config]
          /\ NextObject(w) /\ UNCHANGED <<queue, removed>>
     ELSE EndPass(w) /\ UNCHANGED objects
  /\ UNCHANGED <<clusters, sets, version, operator, cache, budget>>

(***************************************************************************)
(* The first StatefulSet that the cache does not show as the cluster's own *)
(* is created, if the name is free; either ends the pass.                  *)
(***************************************************************************)
Missing(w) == {i \in Indices : cache.sets[Key(w)][i] # Copy(w).uid}

CreateStatefulSet(w) ==
  /\ At(w, "sets")
  /\ sets' = [sets EXCEPT ![Key(w)] = [i \in Indices |->
       IF i \in Missing(w) /\ (\A j \in Missing(w) : i <= j) /\ @[i] = 0 THEN Copy(w).uid ELSE @[i]]]
  /\ EndPass(w)
  /\ UNCHANGED <<clusters, objects, version, operator, cache, budget>>

(***************************************************************************)
(* A call fails, or its answer is lost.                                    *)
(***************************************************************************)
PassFails(w) ==
  /\ ~At(w, "idle")
  /\ Trouble
  /\ EndPass(w)
  /\ UNCHANGED <<clusters, objects, sets, version, operator, cache>>

Pass(w) ==
  RemoveEtcdFinalizer(w) \/ GetObject(w) \/ CreateObject(w) \/ PatchObject(w) \/ CreateStatefulSet(w)

-----------------------------------------------------------------------------
(***************************************************************************)
(* Users.  A cluster whose finalizer is not there yet goes at once.        *)
(***************************************************************************)
NewVersion == version < MaxVersion /\ version' = version + 1

CreateCluster(c, kind) ==
  /\ ~Exists(clusters[c])
  /\ NewVersion
  /\ clusters' = [clusters EXCEPT ![c] =
       [uid |-> version', config |-> version', kind |-> kind, deleting |-> FALSE]]
  /\ UNCHANGED <<objects, sets, operator, cache, queue, worker, removed, budget>>

EditCluster(c, kind) ==
  /\ Exists(clusters[c])
  /\ NewVersion
  /\ clusters' = [clusters EXCEPT ![c].kind = kind, ![c].config = version']
  /\ UNCHANGED <<objects, sets, operator, cache, queue, worker, removed, budget>>

DeleteCluster(c) ==
  /\ Exists(clusters[c]) /\ ~clusters[c].deleting
  /\ \/ clusters' = [clusters EXCEPT ![c].deleting = TRUE]
     \/ clusters' = [clusters EXCEPT ![c] = NoCluster]
  /\ UNCHANGED <<objects, sets, version, operator, cache, queue, worker, removed, budget>>

(***************************************************************************)
(* Objects are deleted by users, and by the garbage collector when their   *)
(* owner is gone.                                                          *)
(***************************************************************************)
RemoveObject(c, name) ==
  /\ objects[c][name] # NoObject
  /\ objects' = [objects EXCEPT ![c][name] = NoObject]
  /\ removed' = [removed EXCEPT ![c] = IF c \in queue.processing THEN @ \cup {name} ELSE @]
  /\ UNCHANGED <<clusters, sets, version, operator, cache, queue, worker>>

RemoveStatefulSet(c, i) ==
  /\ sets[c][i] # 0
  /\ sets' = [sets EXCEPT ![c][i] = 0]
  /\ UNCHANGED <<clusters, objects, version, operator, cache, queue, worker, removed>>

DeleteObject(c) ==
  /\ Trouble
  /\ \/ \E name \in Names : RemoveObject(c, name)
     \/ \E i \in Indices : RemoveStatefulSet(c, i)

CollectGarbage(c) ==
  /\ \/ \E name \in Names : objects[c][name].owner # clusters[c].uid /\ RemoveObject(c, name)
     \/ \E i \in Indices : sets[c][i] # clusters[c].uid /\ RemoveStatefulSet(c, i)
  /\ UNCHANGED budget

-----------------------------------------------------------------------------
Init ==
  /\ clusters = [c \in Clusters |-> NoCluster]
  /\ objects = [c \in Clusters |-> [name \in Names |-> NoObject]]
  /\ sets = [c \in Clusters |-> NoSets]
  /\ version = 0
  /\ operator = "down"
  /\ cache = EmptyCache /\ queue = EmptyQueue
  /\ worker = [w \in Workers |-> Idle]
  /\ removed = [c \in Clusters |-> {}]
  /\ budget = MaxTroubles

Users(c) ==
  \/ \E kind \in Kinds : CreateCluster(c, kind) \/ EditCluster(c, kind)
  \/ DeleteCluster(c) \/ DeleteObject(c)

Startup == Start \/ ListClusters \/ ListStatefulSets \/ ListPods \/ Run

Events(c) ==
  \/ ClusterEvent(c) \/ Resync(c)
  \/ \E i \in Indices : StatefulSetEvent(c, i)

Next ==
  \/ Startup \/ Exit
  \/ \E c \in Clusters : Events(c) \/ Users(c) \/ CollectGarbage(c)
  \/ \E w \in Workers : Pass(w) \/ PassFails(w) \/ \E c \in Clusters : HandleClusterEvent(w, c)

Spec == Init /\ [][Next]_vars

(***************************************************************************)
(* Kubernetes restarts the operator, informers deliver and resync, the     *)
(* queue (first in, first out, after a delay) hands out every key, workers *)
(* go on, and the garbage collector collects.                              *)
(***************************************************************************)
Fairness ==
  /\ WF_vars(Startup)
  /\ \A c \in Clusters :
       /\ WF_vars(ClusterEvent(c)) /\ WF_vars(Resync(c))
       /\ \A i \in Indices : WF_vars(StatefulSetEvent(c, i))
       /\ SF_vars(\E w \in Workers : HandleClusterEvent(w, c))
       /\ WF_vars(CollectGarbage(c))
  /\ \A w \in Workers : WF_vars(Pass(w))

FairSpec == Spec /\ Fairness

-----------------------------------------------------------------------------
(***************************************************************************)
(* Properties.                                                             *)
(***************************************************************************)

(***************************************************************************)
(* However many events arrive while a cluster is handled, no two workers   *)
(* handle it at once.  What the other modules say of a cluster's one pass  *)
(* rests on this.                                                          *)
(***************************************************************************)
OneWorkerPerKey ==
  \A v, w \in Workers : v # w /\ ~At(v, "idle") /\ ~At(w, "idle") => Key(v) # Key(w)

(***************************************************************************)
(* No pass relies on a cache that has not had its first list, not after a  *)
(* restart either.                                                         *)
(***************************************************************************)
NeverBlind == \A w \in Workers : ~At(w, "idle") => cache.synced = Informers

(***************************************************************************)
(* "headless service MUST exist before statefulset" (handleClusterUpdate): *)
(* when the pass comes to StatefulSets, the objects before them are there, *)
(* or somebody removed them during the pass.                               *)
(***************************************************************************)
ObjectsBeforeSets ==
  \A w \in Workers : At(w, "sets") =>
    \A name \in Names \ removed[Key(w)] :
      \/ objects[Key(w)][name] # NoObject
      \/ name = "config map" /\ Copy(w).kind = "own"

(***************************************************************************)
(* A config map never goes back to the config of an earlier spec, though   *)
(* passes work from copies that may be stale and ensureConfigMap patches   *)
(* without a resource version.                                             *)
(***************************************************************************)
ConfigNeverRollsBack ==
  [][\A c \in Clusters : objects'[c]["config map"] # NoObject =>
       objects'[c]["config map"].config >= objects[c]["config map"].config]_vars

(***************************************************************************)
(* In the end, every cluster that can be handled has what it needs, of its *)
(* own and up to date, and one that is deleted is gone with all it owned.  *)
(***************************************************************************)
Settled(c) ==
  LET cluster == clusters[c]
  IN  /\ cluster.kind # "frozen" => ~cluster.deleting
      /\ ~Exists(cluster) =>
           sets[c] = NoSets /\ \A name \in Names : objects[c][name] = NoObject
      /\ Exists(cluster) /\ cluster.kind \in {"plain", "own"} =>
           /\ \A i \in Indices : sets[c][i] = cluster.uid
           /\ \A name \in {"coordinator", "m3dbnode"} : objects[c][name].owner = cluster.uid
      /\ Exists(cluster) /\ cluster.kind = "plain" =>
           objects[c]["config map"] = [owner |-> cluster.uid, config |-> cluster.config]

ClustersSettle == <>[](\A c \in Clusters : Settled(c))

=============================================================================
