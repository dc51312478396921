------------------------ MODULE OperatorProcessProofs ------------------------
(***************************************************************************)
(* What OperatorProcess promises, for any number of workers, clusters,     *)
(* groups, edits and troubles.                                             *)
(***************************************************************************)
EXTENDS OperatorProcess, TLAPS

(***************************************************************************)
(* Workers run once the caches are filled, each with a key of its own that *)
(* the queue knows to be processed.                                        *)
(***************************************************************************)
WorkerInv ==
  /\ operator = "running" => cache.synced = Informers
  /\ \A w \in Workers : ~At(w, "idle") =>
       operator = "running" /\ Key(w) \in queue.processing /\ Exists(Copy(w))
  /\ OneWorkerPerKey

(***************************************************************************)
(* What is there has an owner.                                             *)
(***************************************************************************)
OwnerInv == \A c \in Clusters, name \in Names : objects[c][name].owner = 0 => objects[c][name] = NoObject

(***************************************************************************)
(* What a pass has ensured so far.                                         *)
(***************************************************************************)
Before(name) ==
  IF name = "config map" THEN {} ELSE IF name = "coordinator" THEN {"config map"}
  ELSE {"config map", "coordinator"}

Ensured(w) == IF At(w, "sets") THEN Names ELSE Before(worker[w].name)

EnsuredInv ==
  \A w \in Workers : ~At(w, "idle") =>
    \A name \in Ensured(w) \ removed[Key(w)] :
      objects[Key(w)][name] # NoObject \/ (name = "config map" /\ Copy(w).kind = "own")

(***************************************************************************)
(* Configs only move forward: from the cluster to the cache, from there to *)
(* the copy of a pass, and to the config map.                              *)
(***************************************************************************)
Config(c) == objects[c]["config map"].config

ConfigInv ==
  \A c \in Clusters :
    /\ Config(c) <= version /\ clusters[c].config <= version /\ cache.clusters[c].config <= version
    /\ Exists(clusters[c]) =>
         Config(c) <= clusters[c].config /\ cache.clusters[c].config <= clusters[c].config
    /\ Exists(cache.clusters[c]) => Config(c) <= cache.clusters[c].config
    /\ \A w \in Workers : ~At(w, "idle") /\ Key(w) = c =>
         /\ Config(c) <= Copy(w).config /\ Copy(w).config <= version
         /\ Exists(clusters[c]) => Copy(w).config <= clusters[c].config
         /\ Exists(cache.clusters[c]) => Copy(w).config <= cache.clusters[c].config

Inv == TypeOK /\ WorkerInv /\ OwnerInv /\ EnsuredInv /\ ConfigInv

-----------------------------------------------------------------------------
(***************************************************************************)
(* The fields of a busy worker, and what is there when there is nothing.   *)
(***************************************************************************)
LEMMA BusyTypes ==
  ASSUME TypeOK, NEW w \in Workers, ~At(w, "idle")
  PROVE  /\ worker[w] \in Busy /\ Key(w) \in Clusters /\ Copy(w) \in ClusterObjects
         /\ worker[w].name \in Names /\ Copy(w).uid \in Versions /\ Copy(w).config \in Versions
<1>1. worker[w] \in Busy \cup {Idle}
  BY DEF TypeOK
<1>2. worker[w] \in Busy
  BY <1>1 DEF At, Idle
<1> QED
  BY <1>2 DEF Busy, Key, Copy, ClusterObjects

(***************************************************************************)
(* What a new process has, and what is not there, has its type.            *)
(***************************************************************************)
LEMMA EmptyTypes ==
  /\ NoCluster \in ClusterObjects /\ NoObject \in OwnedObjects /\ NoSets \in [Indices -> Versions]
  /\ EmptyQueue \in Queues(Clusters)
  /\ EmptyCache \in [clusters : [Clusters -> ClusterObjects], sets : [Clusters -> [Indices -> Versions]],
                      synced : SUBSET Informers]
BY ProcessAssumption
   DEF NoCluster, ClusterObjects, AllKinds, NoObject, OwnedObjects, NoSets, EmptyQueue, Queues, EmptyCache,
       Informers, Versions

(***************************************************************************)
(* What the operations of a pass do to its worker, the queue and history.  *)
(***************************************************************************)
LEMMA EndPassTypes ==
  ASSUME TypeOK, NEW w \in Workers, ~At(w, "idle"), EndPass(w)
  PROVE  /\ worker' \in [Workers -> Busy \cup {Idle}] /\ queue' \in Queues(Clusters)
         /\ removed' \in [Clusters -> SUBSET Names]
<1>1. Key(w) \in Clusters
  BY BusyTypes
<1> QED
  BY ZenonT(60), <1>1 DEF TypeOK, EndPass, Done, Queues

(***************************************************************************)
(* So does the worker that goes on to the next object.                     *)
(***************************************************************************)
LEMMA NextObjectTypes ==
  ASSUME TypeOK, NEW w \in Workers, ~At(w, "idle"), NextObject(w)
  PROVE  worker' \in [Workers -> Busy \cup {Idle}]
<1>1. worker[w] \in Busy
  BY BusyTypes
<1>2. /\ [worker[w] EXCEPT !.pc = "sets"] \in Busy
      /\ \A name \in Names : [worker[w] EXCEPT !.pc = "get", !.name = name] \in Busy
  BY ZenonT(60), <1>1 DEF Busy
<1>3. worker'[w] \in Busy /\ worker' = [worker EXCEPT ![w] = worker'[w]]
  BY ZenonT(60), <1>1, <1>2 DEF NextObject, TypeOK, Names
<1> QED
  BY <1>3 DEF TypeOK

(***************************************************************************)
(* So does the worker that goes on to write the object it read.            *)
(***************************************************************************)
LEMMA GotoTypes ==
  ASSUME TypeOK, NEW w \in Workers, ~At(w, "idle"), NEW step \in {"create", "patch"}, Goto(w, step)
  PROVE  worker' \in [Workers -> Busy \cup {Idle}]
<1>1. worker[w] \in Busy
  BY BusyTypes
<1>2. [worker[w] EXCEPT !.pc = step] \in Busy
  BY <1>1 DEF Busy
<1> QED
  BY <1>2 DEF Goto, TypeOK

(***************************************************************************)
(* Every step keeps the types.                                             *)
(***************************************************************************)
LEMMA TypeStep ==
  ASSUME TypeOK, [Next]_vars
  PROVE  TypeOK'
<1> USE ProcessAssumption
<1>1. CASE Startup
  <2>1. CASE Start
    BY <2>1 DEF Start, TypeOK
  <2>2. CASE ListClusters
    BY ZenonT(60), <2>2 DEF ListClusters, TypeOK, AddRateLimited, Queues, Informers
  <2>3. CASE ListStatefulSets
    BY ZenonT(60), <2>3 DEF ListStatefulSets, TypeOK, AddRateLimited, Queues, Informers
  <2>4. CASE ListPods
    BY ZenonT(60), <2>4 DEF ListPods, TypeOK, Informers
  <2>5. CASE Run
    BY <2>5 DEF Run, TypeOK
  <2> QED
    BY <1>1, <2>1, <2>2, <2>3, <2>4, <2>5 DEF Startup
<1>2. CASE Exit
  <2>1. budget' \in Nat
    BY <1>2 DEF Exit, Trouble, TypeOK
  <2> QED
    BY <1>2, <2>1, EmptyTypes DEF Exit, TypeOK
<1>3. ASSUME NEW c \in Clusters, Events(c)
      PROVE  TypeOK'
  <2>1. CASE ClusterEvent(c)
    BY ZenonT(60), <2>1 DEF ClusterEvent, EnqueueCluster, TypeOK, AddRateLimited, Queues
  <2>2. CASE Resync(c)
    BY ZenonT(60), <2>2 DEF Resync, TypeOK, AddRateLimited, Queues
  <2>3. ASSUME NEW i \in Indices, StatefulSetEvent(c, i)
        PROVE  TypeOK'
    BY ZenonT(60), <2>3 DEF StatefulSetEvent, EnqueueCluster, TypeOK, AddRateLimited, Queues
  <2> QED
    BY <1>3, <2>1, <2>2, <2>3 DEF Events
<1>4. ASSUME NEW c \in Clusters, Users(c) \/ CollectGarbage(c)
      PROVE  TypeOK'
  <2>1. ASSUME NEW kind \in Kinds, CreateCluster(c, kind)
        PROVE  TypeOK'
    <3>1. version' \in Versions
      BY <2>1 DEF CreateCluster, NewVersion, TypeOK, Versions
    <3>2. [uid |-> version', config |-> version', kind |-> kind, deleting |-> FALSE] \in ClusterObjects
      BY <3>1 DEF ClusterObjects
    <3> QED
      BY <2>1, <3>1, <3>2 DEF CreateCluster, TypeOK
  <2>2. ASSUME NEW kind \in Kinds, EditCluster(c, kind)
        PROVE  TypeOK'
    <3>1. version' \in Versions
      BY <2>2 DEF EditCluster, NewVersion, TypeOK, Versions
    <3>2. [clusters[c] EXCEPT !.kind = kind, !.config = version'] \in ClusterObjects
      <4>1. clusters[c] \in ClusterObjects
        BY DEF TypeOK
      <4>2. kind \in AllKinds
        OBVIOUS
      <4> HIDE ProcessAssumption
      <4> QED
        BY ZenonT(60), <3>1, <4>1, <4>2 DEF ClusterObjects
    <3> QED
      BY <2>2, <3>1, <3>2 DEF EditCluster, TypeOK
  <2>3. CASE DeleteCluster(c)
    <3>1. [clusters[c] EXCEPT !.deleting = TRUE] \in ClusterObjects
      <4>1. clusters[c] \in ClusterObjects
        BY DEF TypeOK
      <4> HIDE ProcessAssumption
      <4> QED
        BY ZenonT(60), <4>1 DEF ClusterObjects
    <3> QED
      <4> DEFINE deleted == [clusters[c] EXCEPT !.deleting = TRUE]
      <4>1. \/ clusters' = [clusters EXCEPT ![c] = deleted]
            \/ clusters' = [clusters EXCEPT ![c] = NoCluster]
        BY <2>3 DEF DeleteCluster
      <4> HIDE DEF deleted
      <4>2. deleted \in ClusterObjects
        BY <3>1 DEF deleted
      <4>3. clusters' \in [Clusters -> ClusterObjects]
        BY ZenonT(60), <4>1, <4>2, EmptyTypes DEF TypeOK
      <4> QED
        BY <2>3, <4>3 DEF DeleteCluster, TypeOK
  <2>4. CASE DeleteObject(c) \/ CollectGarbage(c)
    <3>1. budget' \in Nat
      BY <2>4 DEF DeleteObject, CollectGarbage, Trouble, TypeOK
    <3>2. ASSUME NEW name \in Names, RemoveObject(c, name)
          PROVE  TypeOK'
      BY <3>1, <3>2, EmptyTypes DEF RemoveObject, TypeOK
    <3>3. ASSUME NEW i \in Indices, RemoveStatefulSet(c, i)
          PROVE  TypeOK'
      BY <3>1, <3>3 DEF RemoveStatefulSet, TypeOK, Versions
    <3> QED
      BY <2>4, <3>2, <3>3 DEF DeleteObject, CollectGarbage
  <2> QED
    BY <1>4, <2>1, <2>2, <2>3, <2>4 DEF Users
<1>5. ASSUME NEW w \in Workers, Pass(w)
      PROVE  TypeOK'
  <2>1. ~At(w, "idle")
    BY ZenonT(60), <1>5 DEF Pass, RemoveEtcdFinalizer, GetObject, CreateObject, PatchObject, CreateStatefulSet, At
  <2>2. Wanted(w) \in OwnedObjects
    <3>1. 0 \in Versions /\ Copy(w).uid \in Versions /\ Copy(w).config \in Versions
      BY SMTT(60), <2>1, BusyTypes DEF Versions
    <3> QED
      BY ZenonT(60), <3>1 DEF Wanted, OwnedObjects
  <2>3. CASE RemoveEtcdFinalizer(w)
    BY <2>1, <2>3, BusyTypes, EndPassTypes, EmptyTypes DEF RemoveEtcdFinalizer, TypeOK
  <2>4. CASE GetObject(w)
    BY ZenonT(60), <2>1, <2>4, EndPassTypes, NextObjectTypes, GotoTypes DEF GetObject, Goto, TypeOK
  <2>5. CASE CreateObject(w)
    <3>1. objects' \in [Clusters -> [Names -> OwnedObjects]]
      <4>1. Key(w) \in Clusters /\ worker[w].name \in Names
        BY <2>1, BusyTypes
      <4>2. [objects[Key(w)] EXCEPT ![worker[w].name] = Wanted(w)] \in [Names -> OwnedObjects]
        BY <2>2, <4>1 DEF TypeOK
      <4> QED
        BY ZenonT(60), <2>5, <4>1, <4>2 DEF CreateObject, TypeOK
    <3> QED
      BY <2>1, <2>5, <3>1, EndPassTypes, NextObjectTypes DEF CreateObject, TypeOK
  <2>6. CASE PatchObject(w)
    <3>1. [Object(w) EXCEPT !.config = Wanted(w).config] \in OwnedObjects
      <4>1. Key(w) \in Clusters /\ worker[w].name \in Names
        BY <2>1, BusyTypes
      <4>2. Object(w) \in OwnedObjects /\ Wanted(w).config \in Versions
        BY <2>2, <4>1 DEF TypeOK, Object, OwnedObjects
      <4> QED
        BY <4>2 DEF OwnedObjects
    <3>2. objects' \in [Clusters -> [Names -> OwnedObjects]]
      <4>1. Key(w) \in Clusters /\ worker[w].name \in Names
        BY <2>1, BusyTypes
      <4>2. [objects[Key(w)] EXCEPT ![worker[w].name] = [Object(w) EXCEPT !.config = Wanted(w).config]]
              \in [Names -> OwnedObjects]
        BY ZenonT(60), <3>1, <4>1 DEF TypeOK
      <4> QED
        BY ZenonT(60), <2>6, <4>1, <4>2 DEF PatchObject, TypeOK, Object
    <3> QED
      BY <2>1, <2>6, <3>2, EndPassTypes, NextObjectTypes DEF PatchObject, TypeOK
  <2>7. CASE CreateStatefulSet(w)
    <3>1. sets' \in [Clusters -> [Indices -> Versions]]
      BY <2>1, <2>7, BusyTypes DEF CreateStatefulSet, TypeOK
    <3> QED
      BY ZenonT(60), <2>1, <2>7, <3>1, EndPassTypes DEF CreateStatefulSet, TypeOK
  <2> QED
    BY <1>5, <2>3, <2>4, <2>5, <2>6, <2>7 DEF Pass
<1>6. ASSUME NEW w \in Workers, PassFails(w)
      PROVE  TypeOK'
  <2>1. budget' \in Nat
    BY <1>6 DEF PassFails, Trouble, TypeOK
  <2> QED
    BY <1>6, <2>1, EndPassTypes DEF PassFails, TypeOK
<1>7. ASSUME NEW w \in Workers, NEW c \in Clusters, HandleClusterEvent(w, c)
      PROVE  TypeOK'
  <2>1. [pc |-> IF cache.clusters[c].deleting THEN "finalize" ELSE "get",
         key |-> c, cluster |-> cache.clusters[c], name |-> "config map"] \in Busy
    BY ZenonT(60) DEF TypeOK, Busy, Names
  <2> QED
    <3>1. queue' \in Queues(Clusters)
      <4>1. Get(queue, c) \in Queues(Clusters)
        BY ZenonT(60) DEF TypeOK, Get, Queues
      <4>2. Done(Get(queue, c), c) \in Queues(Clusters)
        BY <4>1 DEF Done, Queues
      <4> QED
        BY ZenonT(60), <1>7, <4>1, <4>2 DEF HandleClusterEvent
    <3>2. worker' \in [Workers -> Busy \cup {Idle}]
      BY ZenonT(60), <1>7, <2>1 DEF HandleClusterEvent, TypeOK
    <3> QED
      BY ZenonT(60), <1>7, <3>1, <3>2 DEF HandleClusterEvent, TypeOK
<1>8. CASE UNCHANGED vars
  BY <1>8 DEF vars, TypeOK
<1> QED
  BY <1>1, <1>2, <1>3, <1>4, <1>5, <1>6, <1>7, <1>8 DEF Next

-----------------------------------------------------------------------------
(***************************************************************************)
(* What a step does to the workers: all but at most one keep what they     *)
(* have, or all are gone.                                                  *)
(***************************************************************************)
LEMMA OthersKeep ==
  ASSUME TypeOK, NEW w \in Workers, Pass(w) \/ PassFails(w) \/ \E c \in Clusters : HandleClusterEvent(w, c)
  PROVE  \A v \in Workers \ {w} : worker'[v] = worker[v]
BY ZenonT(60) DEF TypeOK, Pass, PassFails, HandleClusterEvent, RemoveEtcdFinalizer, GetObject, CreateObject,
       PatchObject, CreateStatefulSet, EndPass, Goto, NextObject

(***************************************************************************)
(* A worker in a pass ends it or goes on with the same cluster.            *)
(***************************************************************************)
LEMMA PassKeeps ==
  ASSUME TypeOK, NEW w \in Workers, Pass(w) \/ PassFails(w)
  PROVE  /\ ~At(w, "idle") /\ UNCHANGED <<version, operator, cache>>
         /\ \/ /\ worker'[w] = Idle /\ queue' = Done(queue, Key(w))
               /\ removed' = [removed EXCEPT ![Key(w)] = {}]
            \/ /\ ~At(w, "idle")' /\ worker'[w].key = Key(w) /\ worker'[w].cluster = Copy(w)
               /\ UNCHANGED <<queue, removed, clusters, sets>>
<1>1. ~At(w, "idle")
  BY ZenonT(60) DEF Pass, PassFails, RemoveEtcdFinalizer, GetObject, CreateObject, PatchObject, CreateStatefulSet, At
<1>2. worker[w] \in Busy
  BY <1>1, BusyTypes
<1>3. ASSUME EndPass(w)
      PROVE  /\ worker'[w] = Idle /\ queue' = Done(queue, Key(w))
             /\ removed' = [removed EXCEPT ![Key(w)] = {}]
  BY <1>3 DEF EndPass, TypeOK
<1>4. ASSUME NextObject(w) \/ Goto(w, "create") \/ Goto(w, "patch")
      PROVE  ~At(w, "idle")' /\ worker'[w].key = Key(w) /\ worker'[w].cluster = Copy(w)
  <2>1. worker'[w].pc # "idle" /\ worker'[w].key = worker[w].key /\ worker'[w].cluster = worker[w].cluster
    <3>1. CASE NextObject(w)
      <4>1. CASE worker[w].name = "m3dbnode"
        <5>1. worker'[w] = [worker[w] EXCEPT !.pc = "sets"]
          BY <3>1, <4>1 DEF NextObject, TypeOK
        <5> QED
          BY <1>2, <5>1 DEF Busy
      <4>2. CASE worker[w].name # "m3dbnode"
        <5>1. PICK name \in Names : worker'[w] = [worker[w] EXCEPT !.pc = "get", !.name = name]
          BY ZenonT(60), <3>1, <4>2 DEF NextObject, TypeOK, Names
        <5> QED
          BY <1>2, <5>1 DEF Busy
      <4> QED
        BY <4>1, <4>2
    <3>2. CASE Goto(w, "create") \/ Goto(w, "patch")
      <4>1. PICK step \in {"create", "patch"} : worker'[w] = [worker[w] EXCEPT !.pc = step]
        BY <3>2 DEF Goto, TypeOK
      <4> QED
        BY <1>2, <4>1 DEF Busy
    <3> QED
      BY <1>4, <3>1, <3>2
  <2> QED
    BY <2>1 DEF At, Key, Copy
<1>5. \/ EndPass(w)
      \/ /\ NextObject(w) \/ Goto(w, "create") \/ Goto(w, "patch")
         /\ UNCHANGED <<queue, removed, clusters, sets>>
  <2>1. CASE RemoveEtcdFinalizer(w) \/ CreateStatefulSet(w) \/ PassFails(w)
    BY <2>1 DEF RemoveEtcdFinalizer, CreateStatefulSet, PassFails
  <2>2. CASE GetObject(w)
    BY ZenonT(60), <2>2 DEF GetObject, Goto
  <2>3. CASE CreateObject(w) \/ PatchObject(w)
    BY <2>3 DEF CreateObject, PatchObject
  <2> QED
    BY ZenonT(60), <2>1, <2>2, <2>3 DEF Pass
<1>6. UNCHANGED <<version, operator, cache>>
  BY ZenonT(60) DEF Pass, PassFails, RemoveEtcdFinalizer, GetObject, CreateObject, PatchObject, CreateStatefulSet
<1> QED
  BY <1>1, <1>3, <1>4, <1>5, <1>6

(***************************************************************************)
(* Whoever is in a pass after a worker's step was in it before.            *)
(***************************************************************************)
LEMMA CopiesKept ==
  ASSUME TypeOK, NEW w \in Workers, Pass(w) \/ PassFails(w), NEW v \in Workers, ~At(v, "idle")'
  PROVE  ~At(v, "idle") /\ Key(v)' = Key(v) /\ Copy(v)' = Copy(v)
<1>1. CASE v = w
  <2>1. worker'[w] # Idle
    BY <1>1 DEF At, Idle
  <2> QED
    BY ZenonT(60), <1>1, <2>1, PassKeeps DEF Key, Copy
<1>2. CASE v # w
  <2>1. worker'[v] = worker[v]
    BY ZenonT(60), <1>2, OthersKeep
  <2> QED
    BY ZenonT(60), <2>1 DEF At, Key, Copy
<1> QED
  BY <1>1, <1>2

(***************************************************************************)
(* A pass begins with the cached cluster.                                  *)
(***************************************************************************)
LEMMA PassBegins ==
  ASSUME TypeOK, NEW w \in Workers, NEW c \in Clusters, HandleClusterEvent(w, c)
  PROVE  /\ operator = "running" /\ c \notin queue.processing
         /\ UNCHANGED <<clusters, objects, version, operator, cache, removed>>
         /\ \/ worker' = worker /\ queue'.processing = queue.processing
            \/ /\ ~At(w, "idle")' /\ worker'[w].key = c /\ worker'[w].cluster = cache.clusters[c]
               /\ worker'[w].name = "config map" /\ ~At(w, "sets")' /\ Exists(cache.clusters[c])
               /\ queue'.processing = queue.processing \cup {c}
<1>1. queue.processing \in SUBSET Clusters /\ c \notin queue.processing
  BY ZenonT(60) DEF HandleClusterEvent, Ready, TypeOK, Queues
<1>2. CASE Turned(cache.clusters[c])
  <2>1. queue' = Done(Get(queue, c), c) /\ UNCHANGED worker
    BY <1>2 DEF HandleClusterEvent
  <2>2. Get(queue, c).processing = queue.processing \cup {c} /\ Get(queue, c) \in Queues(Clusters)
    BY ZenonT(60) DEF Get, TypeOK, Queues
  <2>3. queue'.processing = (queue.processing \cup {c}) \ {c}
    BY <2>1, <2>2 DEF Done, Queues
  <2> QED
    BY ZenonT(60), <1>1, <2>1, <2>3 DEF HandleClusterEvent
<1>3. CASE ~Turned(cache.clusters[c])
  <2>1. worker'[w] = [pc |-> IF cache.clusters[c].deleting THEN "finalize" ELSE "get",
                      key |-> c, cluster |-> cache.clusters[c], name |-> "config map"]
    BY ZenonT(60), <1>3 DEF HandleClusterEvent, TypeOK
  <2>2. queue'.processing = queue.processing \cup {c}
    BY ZenonT(60), <1>3 DEF HandleClusterEvent, Get, TypeOK, Queues
  <2>3. Exists(cache.clusters[c])
    BY <1>3 DEF Turned
  <2> QED
    <3>1. worker'[w].pc \in {"finalize", "get"} /\ worker'[w].key = c
          /\ worker'[w].cluster = cache.clusters[c] /\ worker'[w].name = "config map"
      <4> DEFINE step == IF cache.clusters[c].deleting THEN "finalize" ELSE "get"
      <4>1. step \in {"finalize", "get"}
        OBVIOUS
      <4> DEFINE copy == cache.clusters[c]
      <4> DEFINE started == worker'[w]
      <4>2. started = [pc |-> step, key |-> c, cluster |-> copy, name |-> "config map"]
        BY ZenonT(60), <2>1
      <4> HIDE DEF step, copy, started
      <4>3. started.pc = step /\ started.key = c /\ started.cluster = copy /\ started.name = "config map"
        BY ZenonT(60), <4>2
      <4> USE DEF started, copy
      <4> QED
        BY ZenonT(60), <4>1, <4>3
    <3> QED
      BY ZenonT(60), <1>1, <2>2, <2>3, <3>1 DEF HandleClusterEvent, At
<1> QED
  BY ZenonT(60), <1>2, <1>3

(***************************************************************************)
(* Workers come by their keys through the queue, which gives a key to one  *)
(* at a time, and start only when the caches are listed.                   *)
(***************************************************************************)
LEMMA WorkerStep ==
  ASSUME TypeOK, WorkerInv, [Next]_vars
  PROVE  WorkerInv'
<1>1. CASE Startup
  BY ZenonT(60), <1>1 DEF Startup, Start, ListClusters, ListStatefulSets, ListPods, Run, HasSynced, WorkerInv,
              OneWorkerPerKey, At, Key, Copy, Exists, TypeOK, AddRateLimited, Informers, Queues
<1>2. CASE Exit
  BY <1>2 DEF Exit, WorkerInv, OneWorkerPerKey, At, Idle
<1>3. ASSUME NEW c \in Clusters, Events(c) \/ Users(c) \/ CollectGarbage(c)
      PROVE  WorkerInv'
  <2>1. UNCHANGED <<operator, worker>> /\ cache'.synced = cache.synced
    BY ZenonT(60), <1>3 DEF Events, ClusterEvent, Resync, StatefulSetEvent, Users, CreateCluster, EditCluster,
                DeleteCluster, DeleteObject, CollectGarbage, RemoveObject, RemoveStatefulSet, TypeOK
  <2>2. queue'.processing = queue.processing
    BY ZenonT(60), <1>3 DEF Events, ClusterEvent, Resync, StatefulSetEvent, Users, CreateCluster, EditCluster,
                DeleteCluster, DeleteObject, CollectGarbage, RemoveObject, RemoveStatefulSet, TypeOK,
                EnqueueCluster, AddRateLimited, Queues
  <2> QED
    BY <2>1, <2>2 DEF WorkerInv, OneWorkerPerKey, At, Key, Copy, Exists
<1>4. ASSUME NEW w \in Workers, Pass(w) \/ PassFails(w)
      PROVE  WorkerInv'
  <2>1. CASE worker'[w] = Idle /\ queue' = Done(queue, Key(w))
    <3>1. queue'.processing = queue.processing \ {Key(w)}
      BY ZenonT(60), <2>1 DEF Done, TypeOK, Queues
    <3> QED
      BY SMTT(60), <1>4, <2>1, <3>1, OthersKeep, PassKeeps DEF WorkerInv, OneWorkerPerKey, At, Key, Copy, Exists, Idle
  <2>2. CASE ~At(w, "idle")' /\ worker'[w].key = Key(w) /\ worker'[w].cluster = Copy(w) /\ UNCHANGED queue
    BY SMTT(60), <1>4, <2>2, OthersKeep, PassKeeps DEF WorkerInv, OneWorkerPerKey, At, Key, Copy, Exists
  <2> QED
    BY <1>4, <2>1, <2>2, PassKeeps
<1>5. ASSUME NEW w \in Workers, NEW c \in Clusters, HandleClusterEvent(w, c)
      PROVE  WorkerInv'
  <2>1. \A v \in Workers \ {w} : worker'[v] = worker[v]
    BY <1>5, OthersKeep
  <2>2. CASE worker' = worker /\ queue'.processing = queue.processing
    BY ZenonT(60), <1>5, <2>2, PassBegins DEF WorkerInv, OneWorkerPerKey, At, Key, Copy, Exists
  <2>3. CASE /\ ~At(w, "idle")' /\ worker'[w].key = c /\ worker'[w].cluster = cache.clusters[c]
             /\ Exists(cache.clusters[c]) /\ queue'.processing = queue.processing \cup {c}
    <3>1. c \notin queue.processing /\ operator = "running" /\ UNCHANGED <<operator, cache>>
      BY ZenonT(60), <1>5, PassBegins
    <3> QED
      BY <2>1, <2>3, <3>1 DEF WorkerInv, OneWorkerPerKey, At, Key, Copy, Exists
  <2> QED
    BY ZenonT(60), <1>5, <2>2, <2>3, PassBegins
<1>6. CASE UNCHANGED vars
  BY ZenonT(60), <1>6 DEF vars, WorkerInv, OneWorkerPerKey, At, Key, Copy, Exists
<1> QED
  BY <1>1, <1>2, <1>3, <1>4, <1>5, <1>6 DEF Next

-----------------------------------------------------------------------------
(***************************************************************************)
(* A pass changes no more than the object it has come to, and leaves it    *)
(* there, as its copy of the cluster wants it.                             *)
(***************************************************************************)
LEMMA WrittenObject ==
  ASSUME TypeOK, WorkerInv, OwnerInv, NEW w \in Workers, Pass(w) \/ PassFails(w),
         NEW c \in Clusters, NEW name \in Names, objects'[c][name] # objects[c][name]
  PROVE  /\ c = Key(w) /\ name = worker[w].name
         /\ objects'[c][name].config = Wanted(w).config /\ objects'[c][name].owner # 0
<1>1. ~At(w, "idle")
  BY ZenonT(60), PassKeeps
<1>2. Key(w) \in Clusters /\ worker[w].name \in Names /\ Copy(w).uid # 0
  BY ZenonT(60), <1>1, BusyTypes DEF WorkerInv, Exists
<1>3. Object(w) \in OwnedObjects
  BY SMTT(60), <1>2 DEF Object, TypeOK
<1>4. CASE CreateObject(w)
  <2>1. objects' = [objects EXCEPT ![Key(w)][worker[w].name] = Wanted(w)]
    BY <1>4 DEF CreateObject
  <2>2. c = Key(w) /\ name = worker[w].name /\ objects'[c][name] = Wanted(w)
    BY ZenonT(60), <1>2, <2>1 DEF TypeOK
  <2>3. Wanted(w).owner = Copy(w).uid
    BY DEF Wanted
  <2> QED
    BY <1>2, <2>2, <2>3
<1>5. CASE PatchObject(w)
  <2> DEFINE patched == [Object(w) EXCEPT !.config = Wanted(w).config]
  <2>1. Object(w) # NoObject /\ objects' = [objects EXCEPT ![Key(w)][worker[w].name] = patched]
    BY <1>5 DEF PatchObject, Object
  <2>2. c = Key(w) /\ name = worker[w].name /\ objects'[c][name] = patched
    BY <1>2, <2>1 DEF TypeOK
  <2>3. patched.config = Wanted(w).config /\ patched.owner = Object(w).owner
    BY <1>3 DEF OwnedObjects
  <2>4. Object(w).owner # 0
    BY ZenonT(60), <1>2, <2>1 DEF OwnerInv, Object
  <2> QED
    BY <2>2, <2>3, <2>4
<1>6. CASE RemoveEtcdFinalizer(w) \/ GetObject(w) \/ CreateStatefulSet(w) \/ PassFails(w)
  BY ZenonT(60), <1>6 DEF RemoveEtcdFinalizer, GetObject, CreateStatefulSet, PassFails
<1> QED
  BY <1>4, <1>5, <1>6 DEF Pass

(***************************************************************************)
(* Objects get their owner when they are created, and a patch keeps it.    *)
(***************************************************************************)
LEMMA OwnerStep ==
  ASSUME TypeOK, WorkerInv, OwnerInv, [Next]_vars
  PROVE  OwnerInv'
<1>1. CASE Startup \/ Exit \/ UNCHANGED vars
  BY ZenonT(60), <1>1 DEF Startup, Start, ListClusters, ListStatefulSets, ListPods, Run, Exit, vars, OwnerInv
<1>2. ASSUME NEW c \in Clusters, Events(c) \/ Users(c) \/ CollectGarbage(c)
      PROVE  OwnerInv'
  <2>1. CASE UNCHANGED objects
    BY ZenonT(60), <2>1 DEF OwnerInv
  <2>2. ASSUME NEW name \in Names, RemoveObject(c, name)
        PROVE  OwnerInv'
    BY ZenonT(60), <2>2 DEF RemoveObject, OwnerInv, TypeOK
  <2> QED
    BY ZenonT(60), <1>2, <2>1, <2>2
       DEF Events, ClusterEvent, Resync, StatefulSetEvent, Users, CreateCluster, EditCluster,
                            DeleteCluster, DeleteObject, CollectGarbage, RemoveStatefulSet
<1>3. ASSUME NEW w \in Workers, Pass(w) \/ PassFails(w)
      PROVE  OwnerInv'
  BY <1>3, WrittenObject DEF OwnerInv
<1>4. ASSUME NEW w \in Workers, NEW c \in Clusters, HandleClusterEvent(w, c)
      PROVE  OwnerInv'
  BY ZenonT(60), <1>4 DEF HandleClusterEvent, OwnerInv
<1> QED
  BY <1>1, <1>2, <1>3, <1>4 DEF Next

(***************************************************************************)
(* A pass goes on only after what it has come to is there.                 *)
(***************************************************************************)
LEMMA Progress ==
  ASSUME TypeOK, WorkerInv, OwnerInv, NEW w \in Workers, Pass(w), ~At(w, "idle")',
         NEW name \in Ensured(w)'
  PROVE  \/ name \in Ensured(w) \/ objects'[Key(w)][name] # NoObject
         \/ name = "config map" /\ Copy(w).kind = "own"
<1>1. ~At(w, "idle") /\ worker[w] \in Busy /\ Key(w) \in Clusters /\ worker[w].name \in Names
  BY PassKeeps, BusyTypes
<1>2. ASSUME EndPass(w)
      PROVE  FALSE
  BY <1>2 DEF EndPass, At, Idle, TypeOK
<1>3. ASSUME NEW step \in {"create", "patch"}, Goto(w, step), At(w, "get")
      PROVE  name \in Ensured(w)
  <2>1. worker'[w] = [worker[w] EXCEPT !.pc = step]
    BY <1>3 DEF Goto, TypeOK
  <2>2. worker'[w].name = worker[w].name /\ worker'[w].pc = step
    BY <1>1, <2>1 DEF Busy
  <2> QED
    BY <1>3, <2>2 DEF Ensured, At
<1>4. ASSUME NextObject(w), ~At(w, "sets")
      PROVE  name \in Ensured(w) \cup {worker[w].name}
  <2>1. CASE worker[w].name = "m3dbnode"
    BY ZenonT(60), <1>4, <2>1 DEF Ensured, Before, Names
  <2>2. CASE worker[w].name # "m3dbnode"
    <3>1. PICK next \in Names : /\ worker'[w] = [worker[w] EXCEPT !.pc = "get", !.name = next]
                                /\ next = IF worker[w].name = "config map" THEN "coordinator" ELSE "m3dbnode"
      BY ZenonT(60), <1>4, <2>2 DEF NextObject, TypeOK, Names
    <3>2. worker'[w].name = next /\ worker'[w].pc = "get"
      BY ZenonT(60), <1>1, <3>1 DEF Busy
    <3>3. name \in Before(next)
      BY ZenonT(60), <3>2 DEF Ensured, At
    <3> QED
      BY ZenonT(60), <1>1, <1>4, <2>2, <3>1, <3>3 DEF Ensured, Before, Names
  <2> QED
    BY ZenonT(60), <2>1, <2>2
<1>5. CASE GetObject(w)
  <2>1. At(w, "get") /\ ~At(w, "sets") /\ UNCHANGED objects
    BY ZenonT(60), <1>5 DEF GetObject, At
  <2>2. CASE Goto(w, "create") \/ Goto(w, "patch")
    BY ZenonT(60), <1>3, <2>1, <2>2
  <2>3. CASE /\ NextObject(w)
             /\ Object(w) # NoObject \/ (worker[w].name = "config map" /\ Copy(w).kind = "own")
    BY ZenonT(60), <1>4, <2>1, <2>3 DEF Object
  <2> QED
    BY ZenonT(60), <1>2, <1>5, <2>2, <2>3 DEF GetObject
<1>6. CASE CreateObject(w)
  <2>1. Object(w) = NoObject /\ NextObject(w) /\ ~At(w, "sets")
    BY <1>2, <1>6 DEF CreateObject, At
  <2>2. objects'[Key(w)][worker[w].name] = Wanted(w)
    BY SMTT(60), <1>1, <1>2, <1>6 DEF CreateObject, TypeOK
  <2>3. Wanted(w).owner # 0
    BY <1>1 DEF Wanted, WorkerInv, Exists
  <2>4. NoObject.owner = 0
    BY DEF NoObject
  <2>5. objects'[Key(w)][worker[w].name] # NoObject
    BY <2>2, <2>3, <2>4
  <2> QED
    BY ZenonT(60), <1>4, <2>1, <2>5
<1>7. CASE PatchObject(w)
  <2>1. Object(w) # NoObject /\ NextObject(w) /\ ~At(w, "sets")
    BY ZenonT(60), <1>2, <1>7 DEF PatchObject, At
  <2>2. objects'[Key(w)][worker[w].name] # NoObject
    BY SMTT(60), <1>1, <2>1, WrittenObject DEF Object, NoObject
  <2> QED
    BY ZenonT(60), <1>4, <2>1, <2>2
<1>8. CASE RemoveEtcdFinalizer(w) \/ CreateStatefulSet(w)
  BY ZenonT(60), <1>2, <1>8 DEF RemoveEtcdFinalizer, CreateStatefulSet
<1> QED
  BY ZenonT(60), <1>5, <1>6, <1>7, <1>8 DEF Pass

(***************************************************************************)
(* A pass comes past an object only when it found or made it; whoever      *)
(* removes one after that is remembered.                                   *)
(***************************************************************************)
LEMMA EnsuredStep ==
  ASSUME TypeOK, WorkerInv, OwnerInv, EnsuredInv, [Next]_vars
  PROVE  EnsuredInv'
<1> DEFINE There(v, name) == objects[Key(v)][name] # NoObject \/ (name = "config map" /\ Copy(v).kind = "own")
<1>1. CASE UNCHANGED <<worker, objects, removed>>
  BY ZenonT(60), <1>1 DEF EnsuredInv, Ensured, At, Key, Copy
<1>2. CASE Exit
  BY ZenonT(60), <1>2 DEF Exit, EnsuredInv, At, Idle
<1>3. ASSUME NEW c \in Clusters, NEW gone \in Names, RemoveObject(c, gone)
      PROVE  EnsuredInv'
  <2> SUFFICES ASSUME NEW v \in Workers, ~At(v, "idle")', NEW name \in (Ensured(v) \ removed[Key(v)])'
               PROVE  There(v, name)'
    BY ZenonT(60) DEF EnsuredInv
  <2>1. worker' = worker /\ queue' = queue /\ ~At(v, "idle") /\ Key(v) \in Clusters /\ Key(v) \in queue.processing
    BY ZenonT(60), <1>3, BusyTypes DEF RemoveObject, At, WorkerInv
  <2>2. name \in Ensured(v) /\ name \notin removed'[Key(v)]
    BY ZenonT(60), <2>1 DEF Ensured, At, Key
  <2>3. removed[Key(v)] \subseteq removed'[Key(v)]
    BY ZenonT(60), <1>3, <2>1 DEF RemoveObject, TypeOK
  <2>4. There(v, name)
    BY ZenonT(60), <2>1, <2>2, <2>3 DEF EnsuredInv
  <2>5. CASE Key(v) = c /\ name = gone
    BY ZenonT(60), <1>3, <2>1, <2>2, <2>5 DEF RemoveObject, TypeOK
  <2>6. CASE Key(v) # c \/ name # gone
    <3>1. name \in Names
      BY ZenonT(60), <2>2 DEF Ensured, Before, Names
    <3>2. objects'[Key(v)][name] = objects[Key(v)][name]
      BY ZenonT(60), <1>3, <2>1, <2>6, <3>1 DEF RemoveObject, TypeOK
    <3> QED
      BY ZenonT(60), <2>1, <2>4, <3>2 DEF Key, Copy
  <2> QED
    BY ZenonT(60), <2>5, <2>6
<1>4. ASSUME NEW w \in Workers, Pass(w) \/ PassFails(w)
      PROVE  EnsuredInv'
  <2> SUFFICES ASSUME NEW v \in Workers, ~At(v, "idle")', NEW name \in (Ensured(v) \ removed[Key(v)])'
               PROVE  There(v, name)'
    BY ZenonT(60) DEF EnsuredInv
  <2>1. ~At(w, "idle") /\ Key(w) \in Clusters
    BY <1>4, PassKeeps, BusyTypes, ZenonT(60)
  <2>2. ~At(v, "idle") /\ Key(v)' = Key(v) /\ Copy(v)' = Copy(v)
    BY ZenonT(60), <1>4, CopiesKept
  <2>3. Key(v) \in Clusters
    BY <2>2, BusyTypes
  <2>4. name \in Names
    BY ZenonT(60) DEF Ensured, Before, Names
  <2>5. removed'[Key(v)] = removed[Key(v)]
    <3>1. CASE v = w
      BY <1>4, <3>1, PassKeeps, SMTT(60) DEF At, Idle
    <3>2. CASE v # w
      <4>1. Key(v) # Key(w)
        BY ZenonT(60), <2>1, <2>2, <3>2 DEF WorkerInv, OneWorkerPerKey
      <4> QED
        BY ZenonT(60), <1>4, <2>3, <4>1, PassKeeps DEF TypeOK
    <3> QED
      BY ZenonT(60), <3>1, <3>2
  <2>6. ASSUME There(v, name)
        PROVE  There(v, name)'
    <3>1. objects[Key(v)][name] # NoObject => objects'[Key(v)][name] # NoObject
      BY SMTT(60), <1>4, <2>3, <2>4, WrittenObject DEF NoObject
    <3> QED
      BY ZenonT(60), <2>2, <2>6, <3>1
  <2>7. ASSUME name \in Ensured(v)
        PROVE  There(v, name)
    BY ZenonT(60), <2>2, <2>5, <2>7 DEF EnsuredInv
  <2>8. CASE v # w
    <3>1. name \in Ensured(v)
      BY ZenonT(60), <1>4, <2>8, OthersKeep DEF Ensured, At
    <3> QED
      BY ZenonT(60), <2>6, <2>7, <3>1
  <2>9. CASE v = w
    <3>1. Pass(w)
      BY <1>4, <2>9, SMTT(30) DEF PassFails, EndPass, At, Idle, TypeOK
    <3> QED
      BY ZenonT(60), <2>2, <2>6, <2>7, <2>9, <3>1, Progress
  <2> QED
    BY ZenonT(60), <2>8, <2>9
<1>5. ASSUME NEW w \in Workers, NEW c \in Clusters, HandleClusterEvent(w, c)
      PROVE  EnsuredInv'
  <2> SUFFICES ASSUME NEW v \in Workers, ~At(v, "idle")', NEW name \in (Ensured(v) \ removed[Key(v)])'
               PROVE  There(v, name)'
    BY ZenonT(60) DEF EnsuredInv
  <2>1. CASE worker'[v] = worker[v]
    <3>1. removed' = removed /\ objects' = objects
      BY ZenonT(60), <1>5, PassBegins
    <3>2. ~At(v, "idle") /\ name \in Ensured(v) \ removed[Key(v)] /\ Key(v)' = Key(v) /\ Copy(v)' = Copy(v)
      BY <2>1, <3>1 DEF Ensured, At, Key, Copy
    <3>3. There(v, name)
      BY ZenonT(60), <3>2 DEF EnsuredInv
    <3> QED
      BY ZenonT(60), <3>1, <3>2, <3>3
  <2>2. CASE v = w /\ worker'[w].name = "config map" /\ ~At(w, "sets")'
    BY ZenonT(60), <2>2 DEF Ensured, Before
  <2> QED
    BY <1>5, <2>1, <2>2, OthersKeep, PassBegins, ZenonT(60)
<1>6. CASE Startup \/ UNCHANGED vars
  BY <1>1, <1>6 DEF Startup, Start, ListClusters, ListStatefulSets, ListPods, Run, vars
<1>7. ASSUME NEW c \in Clusters, Events(c) \/ Users(c) \/ CollectGarbage(c)
      PROVE  EnsuredInv'
  BY <1>1, <1>3, <1>7, ZenonT(60) DEF Events, ClusterEvent, Resync, StatefulSetEvent, Users, CreateCluster, EditCluster,
                          DeleteCluster, DeleteObject, CollectGarbage, RemoveStatefulSet
<1> QED
  BY ZenonT(60), <1>2, <1>4, <1>5, <1>6, <1>7 DEF Next

-----------------------------------------------------------------------------
(***************************************************************************)
(* The versions that ConfigInv compares are numbers.                       *)
(***************************************************************************)
LEMMA ConfigTypes ==
  ASSUME TypeOK, NEW c \in Clusters
  PROVE  /\ clusters[c] \in ClusterObjects /\ cache.clusters[c] \in ClusterObjects
         /\ Config(c) \in Nat /\ clusters[c].config \in Nat /\ cache.clusters[c].config \in Nat
         /\ version \in Nat
<1>1. Versions \subseteq Nat
  BY ProcessAssumption DEF Versions
<1>2. clusters[c] \in ClusterObjects /\ cache.clusters[c] \in ClusterObjects
  BY DEF TypeOK
<1>3. objects[c]["config map"] \in OwnedObjects
  <2>1. objects[c] \in [Names -> OwnedObjects] /\ "config map" \in Names
    BY ZenonT(60) DEF TypeOK, Names
  <2> QED
    BY ZenonT(60), <2>1
<1> QED
  BY ZenonT(60), <1>1, <1>2, <1>3 DEF TypeOK, Config, ClusterObjects, OwnedObjects

(***************************************************************************)
(* The order of versions.                                                  *)
(***************************************************************************)
LEMMA VersionOrder ==
  /\ \A n \in Nat : 0 <= n
  /\ \A k \in Nat, m \in Nat, n \in Nat : k <= m /\ m <= n => k <= n
OBVIOUS

(***************************************************************************)
(* What is not there does not exist and has no config.                     *)
(***************************************************************************)
LEMMA NothingThere == ~Exists(NoCluster) /\ NoCluster.config = 0 /\ NoObject.config = 0
BY SMTT(30) DEF Exists, NoCluster, NoObject

(***************************************************************************)
(* The part of ConfigInv that is about one worker.                         *)
(***************************************************************************)
CopyInv(w) ==
  LET c == Key(w)
  IN  /\ Config(c) <= Copy(w).config /\ Copy(w).config <= version
      /\ Exists(clusters[c]) => Copy(w).config <= clusters[c].config
      /\ Exists(cache.clusters[c]) => Copy(w).config <= cache.clusters[c].config

(***************************************************************************)
(* What a cluster's edits, deletion, events and removals do to configs.    *)
(***************************************************************************)
LEMMA ConfigFromUsers ==
  ASSUME TypeOK, WorkerInv, ConfigInv, NEW c \in Clusters, Events(c) \/ Users(c) \/ CollectGarbage(c),
         NEW d \in Clusters
  PROVE  /\ version' \in Nat /\ version <= version'
         /\ \/ Config(d)' = Config(d) \/ Config(d)' = 0
         /\ \/ clusters'[d] = clusters[d]
            \/ ~Exists(clusters'[d]) /\ clusters'[d].config = 0
            \/ clusters'[d].config = version'
            \/ clusters'[d].config = clusters[d].config /\ Exists(clusters[d])
         /\ \/ cache'.clusters[d] = cache.clusters[d]
            \/ cache'.clusters[d] = clusters[d] /\ clusters'[d] = clusters[d]
<1>1. version \in Nat /\ clusters[c] \in ClusterObjects
  BY ZenonT(60), ConfigTypes
<1>2. CASE Events(c)
  <2>1. UNCHANGED <<version, objects, clusters>>
    BY ZenonT(60), <1>2 DEF Events, ClusterEvent, Resync, StatefulSetEvent
  <2>2. cache'.clusters[d] = cache.clusters[d] \/ cache'.clusters[d] = clusters[d]
    BY SMTT(60), <1>2 DEF Events, ClusterEvent, Resync, StatefulSetEvent, TypeOK
  <2>3. Config(d)' = Config(d) /\ clusters'[d] = clusters[d] /\ version' = version
    BY ZenonT(60), <2>1 DEF Config
  <2>4. version' \in Nat /\ version <= version'
    BY <1>1, <2>3
  <2> QED
    BY ZenonT(60), <2>2, <2>3, <2>4
<1>3. ASSUME NEW kind \in Kinds, CreateCluster(c, kind) \/ EditCluster(c, kind)
      PROVE  /\ version' = version + 1 /\ clusters'[c].config = version'
             /\ \A b \in Clusters \ {c} : clusters'[b] = clusters[b]
             /\ UNCHANGED <<cache, objects>>
  <2>1. CASE CreateCluster(c, kind)
    BY <2>1 DEF CreateCluster, NewVersion, TypeOK
  <2>2. CASE EditCluster(c, kind)
    <3>1. clusters' = [clusters EXCEPT ![c] = [clusters[c] EXCEPT !.kind = kind, !.config = version']]
      BY <2>2, ZenonT(60) DEF EditCluster, TypeOK
    <3>2. clusters'[c] = [clusters[c] EXCEPT !.kind = kind, !.config = version']
      BY <3>1 DEF TypeOK
    <3>3. clusters'[c].config = version'
      BY <1>1, <3>2 DEF ClusterObjects
    <3> QED
      BY <2>2, <3>1, <3>3 DEF EditCluster, NewVersion, TypeOK
  <2> QED
    BY ZenonT(60), <1>3, <2>1, <2>2
<1>4. CASE DeleteCluster(c)
  <2>1. CASE clusters' = [clusters EXCEPT ![c] = NoCluster]
    BY SMTT(60), <1>1, <1>4, <2>1, NothingThere DEF DeleteCluster, TypeOK, Config
  <2>2. CASE clusters' = [clusters EXCEPT ![c].deleting = TRUE]
    <3>1. /\ clusters'[c] = [clusters[c] EXCEPT !.deleting = TRUE]
          /\ \A b \in Clusters \ {c} : clusters'[b] = clusters[b]
      BY <2>2 DEF TypeOK
    <3>2. clusters'[c].config = clusters[c].config
      BY <1>1, <3>1 DEF ClusterObjects
    <3>3. UNCHANGED <<version, objects, cache>> /\ Exists(clusters[c])
      BY <1>4 DEF DeleteCluster
    <3>4. clusters'[d] = clusters[d] \/ (clusters'[d].config = clusters[d].config /\ Exists(clusters[d]))
      BY <3>1, <3>2, <3>3, ZenonT(60)
    <3>5. Config(d)' = Config(d) /\ cache'.clusters[d] = cache.clusters[d] /\ version' = version
      BY ZenonT(60), <3>3 DEF Config
    <3>6. version' \in Nat /\ version <= version'
      BY SMTT(60), <1>1, <3>5
    <3> QED
      BY ZenonT(60), <3>4, <3>5, <3>6
  <2> QED
    BY <1>4, <2>1, <2>2 DEF DeleteCluster
<1>5. CASE DeleteObject(c) \/ CollectGarbage(c)
  <2>1. UNCHANGED <<clusters, cache, version>>
    BY ZenonT(60), <1>5 DEF DeleteObject, CollectGarbage, RemoveObject, RemoveStatefulSet
  <2>2. ASSUME NEW name \in Names, RemoveObject(c, name)
        PROVE  Config(d)' = Config(d) \/ Config(d)' = 0
    BY ZenonT(60), <2>2, NothingThere DEF RemoveObject, Config, TypeOK, Names
  <2>3. Config(d)' = Config(d) \/ Config(d)' = 0
    BY <1>5, <2>2, ZenonT(60) DEF DeleteObject, CollectGarbage, RemoveStatefulSet, Config
  <2> QED
    BY SMTT(60), <1>1, <2>1, <2>3
<1> QED
  <2>1. ASSUME NEW kind \in Kinds, CreateCluster(c, kind) \/ EditCluster(c, kind)
        PROVE  /\ version' \in Nat /\ version <= version' /\ Config(d)' = Config(d)
               /\ clusters'[d] = clusters[d] \/ clusters'[d].config = version'
               /\ cache'.clusters[d] = cache.clusters[d]
    <3>1. /\ version' = version + 1 /\ clusters'[c].config = version' /\ cache' = cache /\ objects' = objects
          /\ \A b \in Clusters \ {c} : clusters'[b] = clusters[b]
      BY ZenonT(60), <1>3, <2>1
    <3>2. clusters'[d] = clusters[d] \/ clusters'[d].config = version'
      BY ZenonT(60), <3>1
    <3> QED
      BY SMTT(60), <1>1, <3>1, <3>2 DEF Config
  <2> QED
    <3>1. CASE \E kind \in Kinds : CreateCluster(c, kind) \/ EditCluster(c, kind)
      <4>1. PICK kind \in Kinds : CreateCluster(c, kind) \/ EditCluster(c, kind)
        BY <3>1
      <4> QED
        BY <2>1, <4>1
    <3>2. Events(c) \/ CollectGarbage(c) \/ DeleteCluster(c) \/ DeleteObject(c)
            \/ (\E kind \in Kinds : CreateCluster(c, kind) \/ EditCluster(c, kind))
      BY ZenonT(60) DEF Users
    <3> QED
      BY <1>2, <1>4, <1>5, <3>1, <3>2, ZenonT(60)

(***************************************************************************)
(* Versions move one way: from the cluster to the cache, to a pass, to the *)
(* config map.                                                             *)
(***************************************************************************)
LEMMA ConfigStep ==
  ASSUME Inv, [Next]_vars, TypeOK', WorkerInv'
  PROVE  ConfigInv'
<1> USE DEF Inv
<1> DEFINE ClusterInv(d) ==
      /\ Config(d) <= version /\ clusters[d].config <= version /\ cache.clusters[d].config <= version
      /\ Exists(clusters[d]) =>
           Config(d) <= clusters[d].config /\ cache.clusters[d].config <= clusters[d].config
      /\ Exists(cache.clusters[d]) => Config(d) <= cache.clusters[d].config
<1>1. \A d \in Clusters : ClusterInv(d)
  BY ZenonT(60) DEF ConfigInv
<1>2. \A v \in Workers : ~At(v, "idle") => CopyInv(v)
  BY BusyTypes DEF ConfigInv, CopyInv
<1>3. \A d \in Clusters : /\ Config(d) \in Nat /\ clusters[d].config \in Nat /\ cache.clusters[d].config \in Nat
                          /\ version \in Nat
  BY ConfigTypes
<1>4. \A v \in Workers : ~At(v, "idle") => Key(v) \in Clusters /\ Copy(v).config \in Nat
  BY BusyTypes, ProcessAssumption, SMTT(60) DEF Versions
<1>5. SUFFICES /\ \A d \in Clusters : ClusterInv(d)'
               /\ \A v \in Workers : ~At(v, "idle")' => CopyInv(v)'
  BY ZenonT(60) DEF ConfigInv, CopyInv
<1> HIDE DEF Inv
<1>6. CASE UNCHANGED <<clusters, objects, version, worker>> /\ cache'.clusters = cache.clusters
  BY ZenonT(60), <1>1, <1>2, <1>6 DEF CopyInv, Config, Key, Copy, At, Exists
<1>7. CASE ListClusters
  <2>1. \A v \in Workers : At(v, "idle")'
    BY <1>7 DEF ListClusters, WorkerInv, Informers, Inv, At
  <2>2. UNCHANGED <<clusters, objects, version>> /\ cache'.clusters = clusters
    BY ZenonT(60), <1>7 DEF ListClusters, TypeOK, Inv
  <2>3. ASSUME NEW d \in Clusters
        PROVE  ClusterInv(d)'
    <3>1. Config(d)' = Config(d) /\ clusters'[d] = clusters[d] /\ cache'.clusters[d] = clusters[d] /\ version' = version
      BY <2>2 DEF Config
    <3> QED
      BY SMTT(60), <1>1, <1>3, <3>1
  <2> QED
    BY <2>1, <2>3
<1>8. CASE Exit
  <2>1. \A v \in Workers : At(v, "idle")'
    BY <1>8 DEF Exit, At, Idle
  <2>2. UNCHANGED <<clusters, objects, version>> /\ \A d \in Clusters : cache'.clusters[d] = NoCluster
    BY ZenonT(60), <1>8 DEF Exit, EmptyCache
  <2>3. ASSUME NEW d \in Clusters
        PROVE  ClusterInv(d)'
    <3>1. Config(d)' = Config(d) /\ clusters'[d] = clusters[d] /\ cache'.clusters[d] = NoCluster /\ version' = version
      BY ZenonT(60), <2>2 DEF Config
    <3> QED
      BY SMTT(60), <1>1, <1>3, <3>1, NothingThere
  <2> QED
    BY <2>1, <2>3
<1>9. ASSUME NEW c \in Clusters, Events(c) \/ Users(c) \/ CollectGarbage(c)
      PROVE  /\ \A d \in Clusters : ClusterInv(d)'
             /\ \A v \in Workers : ~At(v, "idle")' => CopyInv(v)'
  <2>1. worker' = worker
    BY ZenonT(60), <1>9 DEF Events, ClusterEvent, Resync, StatefulSetEvent, Users, CreateCluster, EditCluster,
                DeleteCluster, DeleteObject, CollectGarbage, RemoveObject, RemoveStatefulSet
  <2>2. ASSUME NEW d \in Clusters
        PROVE  ClusterInv(d)'
    <3>1. /\ version' \in Nat /\ version <= version'
          /\ \/ Config(d)' = Config(d) \/ Config(d)' = 0
          /\ \/ clusters'[d] = clusters[d]
             \/ ~Exists(clusters'[d]) /\ clusters'[d].config = 0
             \/ clusters'[d].config = version'
             \/ clusters'[d].config = clusters[d].config /\ Exists(clusters[d])
          /\ \/ cache'.clusters[d] = cache.clusters[d]
             \/ cache'.clusters[d] = clusters[d] /\ clusters'[d] = clusters[d]
      BY ZenonT(60), <1>9, ConfigFromUsers DEF Inv
    <3>2. /\ ClusterInv(d) /\ Config(d) \in Nat /\ clusters[d].config \in Nat
          /\ cache.clusters[d].config \in Nat /\ version \in Nat
      BY ZenonT(60), <1>1, <1>3
    <3> QED
      BY SMTT(60), <3>1, <3>2
  <2>3. ASSUME NEW v \in Workers, ~At(v, "idle")'
        PROVE  CopyInv(v)'
    <3>1. ~At(v, "idle") /\ Key(v)' = Key(v) /\ Copy(v)' = Copy(v) /\ CopyInv(v) /\ Key(v) \in Clusters
      BY ZenonT(60), <1>2, <1>4, <2>1, <2>3 DEF At, Key, Copy
    <3> DEFINE d == Key(v)
    <3>2. /\ version' \in Nat /\ version <= version'
          /\ \/ Config(d)' = Config(d) \/ Config(d)' = 0
          /\ \/ clusters'[d] = clusters[d]
             \/ ~Exists(clusters'[d]) /\ clusters'[d].config = 0
             \/ clusters'[d].config = version'
             \/ clusters'[d].config = clusters[d].config /\ Exists(clusters[d])
          /\ \/ cache'.clusters[d] = cache.clusters[d]
             \/ cache'.clusters[d] = clusters[d] /\ clusters'[d] = clusters[d]
      BY ZenonT(60), <1>9, <3>1, ConfigFromUsers DEF Inv
    <3>3. Config(d) \in Nat /\ Copy(v).config \in Nat /\ version \in Nat
      BY ZenonT(60), <1>3, <1>4, <3>1
    <3>4. Copy(v).config <= version /\ Config(d) <= Copy(v).config
      BY ZenonT(60), <3>1 DEF CopyInv
    <3>5. Copy(v).config <= version' /\ 0 <= Copy(v).config
      BY ZenonT(60), <3>2, <3>3, <3>4, VersionOrder
    <3>6. Config(d)' <= Copy(v).config
      BY ZenonT(60), <3>2, <3>4, <3>5
    <3>7. /\ Exists(clusters'[d]) => Copy(v).config <= clusters'[d].config
          /\ Exists(cache'.clusters[d]) => Copy(v).config <= cache'.clusters[d].config
      BY ZenonT(60), <3>1, <3>2, <3>5 DEF CopyInv
    <3> QED
      BY ZenonT(60), <3>1, <3>5, <3>6, <3>7 DEF CopyInv
  <2> QED
    BY ZenonT(60), <2>2, <2>3
<1>10. ASSUME NEW w \in Workers, Pass(w) \/ PassFails(w)
       PROVE  /\ \A d \in Clusters : ClusterInv(d)'
              /\ \A v \in Workers : ~At(v, "idle")' => CopyInv(v)'
  <2>1. ~At(w, "idle") /\ UNCHANGED <<version, cache>> /\ Key(w) \in Clusters /\ CopyInv(w)
    BY ZenonT(60), <1>2, <1>4, <1>10, PassKeeps DEF Inv
  <2>2. ASSUME NEW d \in Clusters
        PROVE  clusters'[d] = clusters[d] \/ (~Exists(clusters'[d]) /\ clusters'[d].config = 0)
    BY ZenonT(60), <1>10, <2>1, NothingThere
       DEF Pass, PassFails, RemoveEtcdFinalizer, GetObject, CreateObject, PatchObject, CreateStatefulSet, TypeOK, Inv
  <2>3. ASSUME NEW d \in Clusters
        PROVE  Config(d)' = Config(d) \/ (d = Key(w) /\ Config(d)' = Copy(w).config)
    <3>1. "config map" \in Names
      BY ZenonT(60) DEF Names
    <3> QED
      BY <1>10, <3>1, WrittenObject, ZenonT(60) DEF Config, Wanted, Inv
  <2>4. ASSUME NEW d \in Clusters
        PROVE  ClusterInv(d)'
    <3>1. /\ ClusterInv(d) /\ Config(d) \in Nat /\ clusters[d].config \in Nat
          /\ cache.clusters[d].config \in Nat /\ version \in Nat /\ Copy(w).config \in Nat
      BY ZenonT(60), <1>1, <1>3, <1>4, <2>1
    <3>2. /\ clusters'[d] = clusters[d] \/ (~Exists(clusters'[d]) /\ clusters'[d].config = 0)
          /\ Config(d)' = Config(d) \/ (d = Key(w) /\ Config(d)' = Copy(w).config)
      BY ZenonT(60), <2>2, <2>3
    <3>3. /\ Config(d)' <= version
          /\ Exists(clusters[d]) => Config(d)' <= clusters[d].config
          /\ Exists(cache.clusters[d]) => Config(d)' <= cache.clusters[d].config
      BY ZenonT(60), <2>1, <3>1, <3>2 DEF CopyInv
    <3>4. 0 <= version
      BY ZenonT(60), <3>1, VersionOrder
    <3> QED
      BY ZenonT(60), <2>1, <3>1, <3>2, <3>3, <3>4
  <2>5. ASSUME NEW v \in Workers, ~At(v, "idle")'
        PROVE  CopyInv(v)'
    <3>1. ~At(v, "idle") /\ Key(v)' = Key(v) /\ Copy(v)' = Copy(v)
      BY ZenonT(60), <1>10, <2>5, CopiesKept DEF Inv
    <3>2. CopyInv(v) /\ Key(v) \in Clusters /\ Copy(v).config \in Nat
      BY ZenonT(60), <1>2, <1>4, <3>1
    <3>3. Key(v) = Key(w) => v = w
      BY ZenonT(60), <2>1, <3>1 DEF Inv, WorkerInv, OneWorkerPerKey
    <3> DEFINE d == Key(v)
    <3>4. /\ clusters'[d] = clusters[d] \/ (~Exists(clusters'[d]) /\ clusters'[d].config = 0)
          /\ Config(d)' = Config(d) \/ (d = Key(w) /\ Config(d)' = Copy(w).config)
      BY ZenonT(60), <2>2, <2>3, <3>1, <3>2
    <3>5. Config(d)' <= Copy(v).config
      <4>1. CASE Config(d)' = Config(d)
        BY ZenonT(60), <3>2, <4>1 DEF CopyInv
      <4>2. CASE d = Key(w) /\ Config(d)' = Copy(w).config
        <5>1. Config(d)' = Copy(v).config
          BY ZenonT(60), <3>3, <4>2
        <5> QED
          BY <3>2, <5>1
      <4> QED
        BY ZenonT(60), <3>4, <4>1, <4>2
    <3> QED
      BY ZenonT(60), <2>1, <3>1, <3>2, <3>4, <3>5 DEF CopyInv
  <2> QED
    BY ZenonT(60), <2>4, <2>5
<1>11. ASSUME NEW w \in Workers, NEW c \in Clusters, HandleClusterEvent(w, c)
       PROVE  /\ \A d \in Clusters : ClusterInv(d)'
              /\ \A v \in Workers : ~At(v, "idle")' => CopyInv(v)'
  <2>1. UNCHANGED <<clusters, objects, version, cache>>
    BY ZenonT(60), <1>11, PassBegins DEF Inv
  <2>2. ASSUME NEW v \in Workers, ~At(v, "idle")'
        PROVE  CopyInv(v)'
    <3>1. CASE worker'[v] = worker[v]
      <4>1. ~At(v, "idle") /\ Key(v)' = Key(v) /\ Copy(v)' = Copy(v) /\ CopyInv(v)
        BY <1>2, <2>2, <3>1, ZenonT(60) DEF At, Key, Copy
      <4> QED
        BY ZenonT(60), <2>1, <4>1 DEF CopyInv, Config
    <3>2. CASE worker'[v].key = c /\ worker'[v].cluster = cache.clusters[c] /\ Exists(cache.clusters[c])
      <4>1. Key(v)' = c /\ Copy(v)' = cache.clusters[c]
        BY ZenonT(60), <3>2 DEF Key, Copy
      <4>2. ClusterInv(c)
        BY <1>1, ZenonT(60)
      <4>3. Config(c)' = Config(c)
        BY ZenonT(60), <2>1 DEF Config
      <4> QED
        BY SMTT(60), <1>3, <2>1, <3>2, <4>1, <4>2, <4>3 DEF CopyInv
    <3> QED
      <4>1. v # w => worker'[v] = worker[v]
        BY ZenonT(60), <1>11, OthersKeep DEF Inv
      <4>2. \/ worker' = worker
            \/ worker'[w].key = c /\ worker'[w].cluster = cache.clusters[c] /\ Exists(cache.clusters[c])
        BY ZenonT(60), <1>11, PassBegins DEF Inv
      <4> QED
        BY ZenonT(60), <3>1, <3>2, <4>1, <4>2
  <2> QED
    BY ZenonT(60), <1>1, <2>1, <2>2 DEF Config, Exists
<1>12. CASE Startup \/ UNCHANGED vars
  BY ZenonT(60), <1>6, <1>7, <1>12 DEF Startup, Start, ListStatefulSets, ListPods, Run, vars, Inv, TypeOK
<1> QED
  BY <1>8, <1>9, <1>10, <1>11, <1>12, ZenonT(60) DEF Next

(***************************************************************************)
(* At the start there is nothing that could be wrong.                      *)
(***************************************************************************)
LEMMA Initially ==
  ASSUME Init
  PROVE  Inv
<1>1. TypeOK
  BY EmptyTypes, ProcessAssumption DEF Init, TypeOK, Versions
<1>2. WorkerInv /\ EnsuredInv
  BY ZenonT(60) DEF Init, WorkerInv, OneWorkerPerKey, EnsuredInv, At, Idle
<1>3. OwnerInv
  BY DEF Init, OwnerInv, NoObject
<1>4. ASSUME NEW c \in Clusters
      PROVE  /\ Config(c) = 0 /\ clusters[c] = NoCluster /\ cache.clusters[c] = NoCluster /\ version = 0
             /\ \A w \in Workers : At(w, "idle")
  BY ZenonT(60), NothingThere DEF Init, Config, EmptyCache, Names, At, Idle
<1>5. ConfigInv
  BY SMTT(60), <1>4, NothingThere DEF ConfigInv
<1> QED
  BY ZenonT(60), <1>1, <1>2, <1>3, <1>5 DEF Inv

(***************************************************************************)
(* The invariant behind the theorems of this module is inductive.          *)
(***************************************************************************)
LEMMA Inductive ==
  ASSUME Inv, [Next]_vars
  PROVE  Inv'
<1>1. TypeOK' /\ WorkerInv' /\ OwnerInv' /\ EnsuredInv'
  BY TypeStep, WorkerStep, OwnerStep, EnsuredStep DEF Inv
<1> QED
  BY <1>1, ConfigStep DEF Inv

(***************************************************************************)
(* The inductive invariant holds in every state.                           *)
(***************************************************************************)
THEOREM Invariant == Spec => []Inv
BY Initially, Inductive, PTL DEF Spec

(***************************************************************************)
(* Every variable of the process keeps its type.                           *)
(***************************************************************************)
THEOREM TypeCorrect == Spec => []TypeOK
<1>1. Inv => TypeOK
  BY DEF Inv
<1> QED
  BY <1>1, Invariant, PTL

(***************************************************************************)
(* No two workers of Run handle the same cluster at once.                  *)
(***************************************************************************)
THEOREM KeysAreExclusive == Spec => []OneWorkerPerKey
<1>1. Inv => OneWorkerPerKey
  BY ZenonT(60) DEF Inv, WorkerInv
<1> QED
  BY <1>1, Invariant, PTL

(***************************************************************************)
(* Passes of handleClusterUpdate see caches that have had their list.      *)
(***************************************************************************)
THEOREM PassesSee == Spec => []NeverBlind
<1>1. Inv => NeverBlind
  BY ZenonT(60) DEF Inv, WorkerInv, NeverBlind
<1> QED
  BY <1>1, Invariant, PTL

(***************************************************************************)
(* handleClusterUpdate comes to the StatefulSets of a cluster only when    *)
(* its config map and services are there, or were removed meanwhile.       *)
(***************************************************************************)
THEOREM ServicesComeFirst == Spec => []ObjectsBeforeSets
<1>1. Inv => ObjectsBeforeSets
  BY ZenonT(60) DEF Inv, EnsuredInv, Ensured, ObjectsBeforeSets, At
<1> QED
  BY <1>1, Invariant, PTL

(***************************************************************************)
(* No step of a pass, whatever its copy of the cluster, puts an older      *)
(* config into the config map.                                             *)
(***************************************************************************)
THEOREM ConfigsMoveForward == Spec => ConfigNeverRollsBack
<1> DEFINE Forward == \A c \in Clusters : objects'[c]["config map"] # NoObject =>
                        objects'[c]["config map"].config >= objects[c]["config map"].config
<1>1. ASSUME Inv, [Next]_vars
      PROVE  [Forward]_vars
  <2>0. SUFFICES ASSUME NEW c \in Clusters, objects'[c]["config map"] # NoObject
                 PROVE  Config(c)' >= Config(c)
    BY ZenonT(60) DEF Config
  <2>1. Config(c) \in Nat
    BY <1>1, ConfigTypes DEF Inv
  <2>2. CASE objects' = objects
    <3>1. Config(c)' = Config(c)
      BY <2>2 DEF Config
    <3> QED
      BY <2>1, <3>1
  <2>3. ASSUME NEW d \in Clusters, NEW name \in Names, RemoveObject(d, name)
        PROVE  Config(c)' >= Config(c)
    <3>1. objects'[c]["config map"] = objects[c]["config map"]
      BY ZenonT(60), <1>1, <2>0, <2>3 DEF RemoveObject, Inv, TypeOK, Names
    <3>2. Config(c)' = Config(c)
      BY ZenonT(60), <3>1 DEF Config
    <3> QED
      BY SMTT(60), <2>1, <3>2
  <2>4. ASSUME NEW w \in Workers, Pass(w) \/ PassFails(w)
        PROVE  Config(c)' >= Config(c)
    <3>1. CASE objects'[c]["config map"] = objects[c]["config map"]
      <4>1. Config(c)' = Config(c)
        BY ZenonT(60), <3>1 DEF Config
      <4> QED
        BY <2>1, <4>1
    <3>2. CASE objects'[c]["config map"] # objects[c]["config map"]
      <4>1. "config map" \in Names
        BY ZenonT(60) DEF Names
      <4>2. ~At(w, "idle") /\ c = Key(w) /\ worker[w].name = "config map" /\ Config(c)' = Wanted(w).config
        BY <1>1, <2>4, <3>2, <4>1, WrittenObject, PassKeeps, ZenonT(60) DEF Inv, Config
      <4>3. Wanted(w).config = Copy(w).config
        BY ZenonT(60), <4>2 DEF Wanted
      <4>4. Copy(w).config \in Nat /\ Config(c) <= Copy(w).config
        <5>1. Copy(w).config \in Versions
          BY ZenonT(60), <1>1, <4>2, BusyTypes DEF Inv
        <5>2. Config(c) <= Copy(w).config
          BY ZenonT(60), <1>1, <4>2 DEF Inv, ConfigInv
        <5> QED
          BY SMTT(60), <5>1, <5>2, ProcessAssumption DEF Versions
      <4> QED
        BY ZenonT(60), <2>1, <4>2, <4>3, <4>4
    <3> QED
      BY ZenonT(60), <3>1, <3>2
  <2>5. CASE \/ Startup \/ Exit \/ UNCHANGED vars
             \/ \E w \in Workers, d \in Clusters : HandleClusterEvent(w, d)
    BY ZenonT(60), <2>2, <2>5
       DEF Startup, Start, ListClusters, ListStatefulSets, ListPods, Run, Exit, vars, HandleClusterEvent
  <2>6. ASSUME NEW d \in Clusters, Events(d) \/ Users(d) \/ CollectGarbage(d)
        PROVE  Config(c)' >= Config(c)
    BY ZenonT(60), <2>2, <2>3, <2>6
       DEF Events, ClusterEvent, Resync, StatefulSetEvent, Users, CreateCluster, EditCluster,
                            DeleteCluster, DeleteObject, CollectGarbage, RemoveStatefulSet
  <2> QED
    BY ZenonT(60), <1>1, <2>4, <2>5, <2>6 DEF Next
<1> QED
  BY <1>1, Invariant, PTL DEF Spec, ConfigNeverRollsBack

=============================================================================
