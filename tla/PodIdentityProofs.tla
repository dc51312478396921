-------------------------- MODULE PodIdentityProofs --------------------------
(***************************************************************************)
(* What PodIdentity promises at every moment, for any pods, nodes, sources *)
(* and number of failures.                                                 *)
(***************************************************************************)
EXTENDS PodIdentity, TLAPS

(***************************************************************************)
(* What the worker has in hand is an identity, of a pod.                   *)
(***************************************************************************)
WorkerInv == worker # Idle => worker.name \in Names /\ worker.id.uid <= MaxUid

(***************************************************************************)
(* The cache is behind the API server, never ahead of it: its pod is one   *)
(* that was, and a pod that has a node there has it for good.  Without it, *)
(* a pod could come to equal its old copy, with no event to tell.          *)
(***************************************************************************)
BehindInv ==
  \A name \in Names :
    /\ pods[name].uid <= lastUid[name] /\ cache.pods[name].uid <= lastUid[name]
    /\ pods[name].uid = cache.pods[name].uid /\ cache.pods[name].node # NoNode =>
         pods[name].node = cache.pods[name].node

Inv == TypeOK /\ WorkerInv /\ BehindInv /\ NoEventLost

-----------------------------------------------------------------------------
(***************************************************************************)
(* Types of the values that the actions write.                             *)
(***************************************************************************)

(***************************************************************************)
(* There is room for a pod that is not there, and for no identity.         *)
(***************************************************************************)
LEMMA NoPodType == /\ NoIdentity \in Identities /\ Idle \in [name : Names \cup {NoName}, id : Identities]
                   /\ NoPod \in Pods /\ NoPod.uid = 0
BY IdentityAssumption DEF NoIdentity, Identities, NoPod, NewPod, Pods, Idle

(***************************************************************************)
(* A pod is there, or it is NoPod.                                         *)
(***************************************************************************)
LEMMA PodShape ==
  ASSUME NEW pod \in Pods
  PROVE  /\ pod.uid \in 0..MaxUid /\ pod.node \in Nodes \cup {NoNode} /\ pod.annotation \in Identities
         /\ pod.uid # 0 => pod \in [uid : 1..MaxUid, node : Nodes \cup {NoNode}, annotation : Identities]
         /\ pod.uid = 0 => pod = NoPod
BY NoPodType, IdentityAssumption DEF Pods, NoPod, NewPod, Identities, NoIdentity

(***************************************************************************)
(* Identity gives an identity, which is not NoIdentity.                    *)
(***************************************************************************)
LEMMA IdentityType ==
  ASSUME NEW pod \in Pods, NEW src
  PROVE  Identity(pod, src) \in Identities /\ Identity(pod, src).uid <= MaxUid
BY PodShape, IdentityAssumption DEF Identity, Identities

(***************************************************************************)
(* The patch: only the annotation changes, and it is not NoIdentity.       *)
(***************************************************************************)
LEMMA PatchEffect ==
  ASSUME Inv, worker # Idle, pods[worker.name].uid # 0,
         pods' = [pods EXCEPT ![worker.name].annotation = worker.id]
  PROVE  /\ worker.name \in Names
         /\ pods' \in [Names -> Pods]
         /\ \A name \in Names : pods'[name].uid = pods[name].uid /\ pods'[name].node = pods[name].node
         /\ \A name \in Names \ {worker.name} : pods'[name] = pods[name]
         /\ Annotated(pods'[worker.name])
<1>1. worker.name \in Names /\ worker.id \in Identities /\ worker.id.uid <= MaxUid
  BY DEF Inv, TypeOK, WorkerInv
<1>2. worker.id # NoIdentity
  BY <1>1, IdentityAssumption DEF NoIdentity
<1>3. pods[worker.name] \in [uid : 1..MaxUid, node : Nodes \cup {NoNode}, annotation : Identities]
  BY <1>1, PodShape DEF Inv, TypeOK
<1>4. [pods[worker.name] EXCEPT !.annotation = worker.id] \in Pods
  BY <1>1, <1>3 DEF Pods
<1>5. pods \in [Names -> Pods]
  BY DEF Inv, TypeOK
<1>6. /\ pods'[worker.name] = [pods[worker.name] EXCEPT !.annotation = worker.id]
      /\ \A name \in Names \ {worker.name} : pods'[name] = pods[name]
  BY <1>1, <1>5
<1>7. pods' \in [Names -> Pods]
  BY ZenonT(60), <1>4, <1>5
<1>8. /\ pods'[worker.name].uid = pods[worker.name].uid /\ pods'[worker.name].node = pods[worker.name].node
      /\ pods'[worker.name].annotation = worker.id
  BY <1>3, <1>6
<1> QED
  BY <1>1, <1>2, <1>6, <1>7, <1>8 DEF Annotated

-----------------------------------------------------------------------------
(***************************************************************************)
(* The invariant.                                                          *)
(***************************************************************************)

(***************************************************************************)
(* It holds before there are pods.                                         *)
(***************************************************************************)
LEMMA InitInv == Init => Inv
<1> SUFFICES ASSUME Init PROVE Inv
  OBVIOUS
<1>1. TypeOK
  BY NoPodType, IdentityAssumption DEF Init, TypeOK
<1>2. WorkerInv
  BY DEF Init, WorkerInv
<1>3. BehindInv /\ NoEventLost
  BY NoPodType DEF Init, BehindInv, NoEventLost, NoPod, NewPod
<1> QED
  BY <1>1, <1>2, <1>3 DEF Inv

(***************************************************************************)
(* The end of a handling leaves well-typed state.                          *)
(***************************************************************************)
LEMMA DoneType ==
  ASSUME TypeOK, NEW name \in Names, NEW error \in BOOLEAN, Done(name, error)
  PROVE  /\ worker' \in [name : Names \cup {NoName}, id : Identities]
         /\ failed' \in SUBSET Names /\ worker' = Idle
BY NoPodType DEF Done, TypeOK

(***************************************************************************)
(* A handling takes a key off the queue, and keeps hold of it if there is  *)
(* anything left to do.                                                    *)
(***************************************************************************)
LEMMA HandleInv == Inv /\ HandlePodEvent => Inv'
<1> SUFFICES ASSUME Inv, HandlePodEvent PROVE Inv'
  OBVIOUS
<1>1. PICK n \in queue :
        /\ queue' = queue \ {n}
        /\ \/ cache.pods[n].uid = 0 /\ Done(n, FALSE)
           \/ cache.pods[n].uid # 0 /\ Done(n, TRUE)
           \/ cache.pods[n].annotation # NoIdentity /\ Done(n, FALSE)
           \/ /\ worker' = [name |-> n, id |-> Identity(cache.pods[n], cache.sources)]
              /\ UNCHANGED failed
  BY ZenonT(60) DEF HandlePodEvent
<1>2. n \in Names /\ cache.pods[n] \in Pods
  BY DEF Inv, TypeOK
<1>3. UNCHANGED <<pods, lastUid, sources, cache, budget>> /\ worker = Idle
  BY DEF HandlePodEvent
<1>4. Identity(cache.pods[n], cache.sources) \in Identities /\ Identity(cache.pods[n], cache.sources).uid <= MaxUid
  BY <1>2, IdentityType
<1>5. TypeOK'
  <2>1. worker' \in [name : Names \cup {NoName}, id : Identities] /\ failed' \in SUBSET Names
    <3>1. TypeOK
      BY DEF Inv
    <3>2. ASSUME NEW error \in BOOLEAN, Done(n, error) PROVE <2>1
      BY <1>2, <3>1, <3>2, DoneType
    <3>3. ASSUME worker' = [name |-> n, id |-> Identity(cache.pods[n], cache.sources)], UNCHANGED failed
          PROVE  <2>1
      BY <1>2, <1>4, <3>3 DEF Inv, TypeOK
    <3> QED
      BY ZenonT(60), <1>1, <3>2, <3>3
  <2> QED
    BY <1>1, <1>3, <2>1 DEF Inv, TypeOK
<1>6. WorkerInv'
  BY <1>1, <1>2, <1>4 DEF WorkerInv, Done, Idle
<1>7. BehindInv'
  BY <1>3 DEF Inv, BehindInv
<1>8. NoEventLost'
  <2> SUFFICES ASSUME NEW name \in Names, cache.pods[name].uid # 0, ~Annotated(cache.pods[name]),
                      pods[name] = cache.pods[name]
               PROVE  name \in queue' \cup failed' \cup {worker'.name}
    BY <1>3 DEF NoEventLost, Annotated
  <2>1. name \in queue \cup failed
    BY <1>3, IdentityAssumption DEF Inv, NoEventLost, Idle
  <2>2. CASE name = n
    BY <1>1, <2>2 DEF Done, Annotated
  <2>3. CASE name # n
    BY <1>1, <2>1, <2>3 DEF Done
  <2> QED
    BY <2>2, <2>3
<1> QED
  BY <1>5, <1>6, <1>7, <1>8 DEF Inv

(***************************************************************************)
(* The patch, done, refused or failed: the key is in failed afterwards, or *)
(* the pod differs from the copy that had no annotation.                   *)
(***************************************************************************)
LEMMA PatchInv == Inv /\ (PatchPod \/ PatchFails) => Inv'
<1> SUFFICES ASSUME Inv, PatchPod \/ PatchFails PROVE Inv'
  OBVIOUS
<1>1. worker # Idle /\ worker.name \in Names
  BY ZenonT(60) DEF PatchPod, PatchFails, Inv, WorkerInv
<1>2. UNCHANGED <<lastUid, sources, cache, queue>> /\ budget' \in Nat
  <2>1. UNCHANGED <<lastUid, sources, cache, queue>> /\ (UNCHANGED budget \/ Trouble)
    BY ZenonT(60) DEF PatchPod, PatchFails
  <2> QED
    BY <2>1 DEF Trouble, Inv, TypeOK
<1> DEFINE Patched == /\ pods[worker.name].uid # 0
                      /\ pods' = [pods EXCEPT ![worker.name].annotation = worker.id]
<1>3. PICK error \in BOOLEAN :
        Done(worker.name, error) /\ ((UNCHANGED pods /\ error) \/ Patched)
  <2>1. \/ Done(worker.name, FALSE) /\ Patched
        \/ Done(worker.name, TRUE) /\ (UNCHANGED pods \/ Patched)
    BY ZenonT(60) DEF PatchPod, PatchFails
  <2> HIDE DEF Patched
  <2> QED
    BY <2>1, ZenonT(60)
<1>4. CASE UNCHANGED pods /\ error
  <2>1. TypeOK'
    BY ZenonT(60), <1>1, <1>2, <1>3, <1>4, DoneType DEF Inv, TypeOK
  <2>2. WorkerInv'
    BY <1>3 DEF Done, WorkerInv
  <2>3. BehindInv'
    BY <1>2, <1>4 DEF Inv, BehindInv
  <2>4. NoEventLost'
    BY <1>2, <1>3, <1>4 DEF Inv, NoEventLost, Done, Annotated
  <2> QED
    BY <2>1, <2>2, <2>3, <2>4 DEF Inv
<1>5. CASE Patched
  <2>1. TypeOK'
    BY <1>1, <1>2, <1>3, <1>5, DoneType, PatchEffect DEF Inv, TypeOK
  <2>2. WorkerInv'
    BY <1>3 DEF Done, WorkerInv
  <2>3. BehindInv'
    BY <1>1, <1>2, <1>5, PatchEffect DEF Inv, BehindInv
  <2>4. NoEventLost'
    <3> SUFFICES ASSUME NEW name \in Names, cache.pods[name].uid # 0, ~Annotated(cache.pods[name])
                 PROVE  name \in queue' \cup failed' \/ pods'[name] # cache.pods[name]
      BY <1>2 DEF NoEventLost, Annotated
    <3>1. CASE name = worker.name
      BY ZenonT(60), <1>1, <1>5, <3>1, PatchEffect DEF Annotated
    <3>2. CASE name # worker.name
      BY <1>1, <1>2, <1>3, <1>5, <3>2, PatchEffect DEF Inv, NoEventLost, Done
    <3> QED
      BY <3>1, <3>2
  <2> QED
    BY <2>1, <2>2, <2>3, <2>4 DEF Inv
<1> QED
  BY <1>3, <1>4, <1>5

(***************************************************************************)
(* Informers and restarts queue every pod whose copy they renew.           *)
(***************************************************************************)
LEMMA InformerInv ==
  Inv /\ (Restart \/ SyncCluster \/ \E name \in Names : SyncPod(name) \/ Resync(name)) => Inv'
<1> SUFFICES ASSUME Inv PROVE Restart \/ SyncCluster \/ (\E name \in Names : SyncPod(name) \/ Resync(name)) => Inv'
  OBVIOUS
<1>1. ASSUME Restart PROVE Inv'
  <2>1. TypeOK' /\ WorkerInv'
    BY <1>1, NoPodType DEF Inv, TypeOK, Restart, Trouble, WorkerInv
  <2>2. BehindInv' /\ NoEventLost'
    BY <1>1 DEF Inv, Restart, BehindInv, NoEventLost
  <2> QED
    BY <2>1, <2>2 DEF Inv
<1>2. ASSUME SyncCluster PROVE Inv'
  <2>1. TypeOK' /\ cache'.pods = cache.pods
    BY <1>2 DEF Inv, TypeOK, SyncCluster
  <2>2. WorkerInv'
    BY <1>2 DEF Inv, SyncCluster, WorkerInv, Idle
  <2>3. BehindInv'
    BY <1>2, <2>1 DEF Inv, SyncCluster, BehindInv
  <2>4. NoEventLost'
    BY <1>2, <2>1 DEF Inv, SyncCluster, NoEventLost, Annotated
  <2> QED
    BY <2>1, <2>2, <2>3, <2>4 DEF Inv
<1>3. ASSUME NEW name \in Names, SyncPod(name) PROVE Inv'
  <2>1. TypeOK'
    BY <1>3 DEF Inv, TypeOK, SyncPod
  <2>2. /\ cache'.pods[name] = pods[name]
        /\ \A n \in Names \ {name} : cache'.pods[n] = cache.pods[n]
    BY <1>3 DEF Inv, TypeOK, SyncPod
  <2>3. WorkerInv'
    BY <1>3 DEF Inv, SyncPod, WorkerInv, Idle
  <2>4. BehindInv'
    BY <1>3, <2>2 DEF Inv, SyncPod, BehindInv
  <2>5. NoEventLost'
    BY <1>3, <2>2 DEF Inv, SyncPod, NoEventLost, Annotated, Enqueued
  <2> QED
    BY <2>1, <2>3, <2>4, <2>5 DEF Inv
<1>4. ASSUME NEW name \in Names, Resync(name) PROVE Inv'
  <2>1. TypeOK' /\ WorkerInv' /\ BehindInv'
    BY <1>4 DEF Inv, TypeOK, Resync, WorkerInv, Idle, BehindInv
  <2>2. NoEventLost'
    BY <1>4 DEF Inv, Resync, NoEventLost, Annotated
  <2> QED
    BY <2>1, <2>2 DEF Inv
<1> QED
  BY <1>1, <1>2, <1>3, <1>4

(***************************************************************************)
(* Kubernetes and users: a pod that differs from its copy goes on to       *)
(* differ, because UIDs are not reused and nodes do not change.            *)
(***************************************************************************)
LEMMA KubernetesInv ==
  Inv /\ (\E name \in Names : Kubernetes(name) \/ DeletePod(name)) => Inv'
<1> SUFFICES ASSUME Inv, NEW n \in Names, Kubernetes(n) \/ DeletePod(n) PROVE Inv'
  OBVIOUS
<1> DEFINE Before == cache.pods[n]
<1>1. UNCHANGED <<sources, cache, queue, worker, failed, budget>>
  BY DEF Kubernetes, CreatePod, SchedulePod, DeletePod
<1>2. pods[n] \in Pods /\ Before \in Pods /\ lastUid[n] \in 0..MaxUid
  BY DEF Inv, TypeOK
<1>3. /\ pods[n].uid <= lastUid[n] /\ Before.uid <= lastUid[n]
      /\ pods[n].uid = Before.uid /\ Before.node # NoNode => pods[n].node = Before.node
  BY DEF Inv, BehindInv
<1>4. Before.uid \in 0..MaxUid
  BY <1>2, PodShape
<1> HIDE DEF Before
<1> DEFINE Follows(new) ==
             /\ new \in Pods
             /\ pods' = [pods EXCEPT ![n] = new]
             /\ lastUid' \in [Names -> 0..MaxUid]
             /\ \A name \in Names : lastUid[name] <= lastUid'[name]
             /\ new.uid <= lastUid'[n]
             /\ new.uid = Before.uid /\ Before.node # NoNode => new.node = Before.node
             /\ Before.uid # 0 /\ new = Before => pods[n] = Before
<1>5. \E new : Follows(new)
  <2>1. ASSUME CreatePod(n) PROVE Follows(NewPod(lastUid[n] + 1))
    <3>1. NewPod(lastUid[n] + 1) \in Pods /\ NewPod(lastUid[n] + 1).uid = lastUid[n] + 1
      <4>1. lastUid[n] + 1 \in 1..MaxUid
        BY <1>2, <2>1, IdentityAssumption DEF CreatePod
      <4> QED
        BY <4>1, NoPodType DEF NewPod, Pods
    <3>2. lastUid' \in [Names -> 0..MaxUid] /\ lastUid'[n] = lastUid[n] + 1
          /\ \A name \in Names : lastUid[name] <= lastUid'[name]
      BY <1>2, <2>1, IdentityAssumption DEF CreatePod, Inv, TypeOK
    <3>3. pods' = [pods EXCEPT ![n] = NewPod(lastUid[n] + 1)]
      BY <2>1 DEF CreatePod
    <3>4. NewPod(lastUid[n] + 1).uid # Before.uid
      BY <1>2, <1>3, <1>4, <3>1
    <3>5. NewPod(lastUid[n] + 1) # Before
      BY <3>4
    <3>6. NewPod(lastUid[n] + 1).uid <= lastUid'[n]
      BY <1>2, <3>1, <3>2
    <3> QED
      BY <3>1, <3>2, <3>3, <3>4, <3>5, <3>6, ZenonT(60)
  <2>2. ASSUME DeletePod(n) PROVE Follows(NoPod)
    <3>1. lastUid' = lastUid /\ lastUid \in [Names -> 0..MaxUid]
      BY <2>2 DEF DeletePod, Inv, TypeOK
    <3>2. NoPod.node = NoNode
      BY DEF NoPod, NewPod
    <3>3. Before.uid = 0 => Before = NoPod
      BY <1>2, PodShape
    <3> QED
      BY <1>2, <2>2, <3>1, <3>2, <3>3, NoPodType DEF DeletePod
  <2>3. ASSUME NEW node \in Nodes, SchedulePod(n, node) PROVE Follows([pods[n] EXCEPT !.node = node])
    <3>1. lastUid' = lastUid /\ lastUid \in [Names -> 0..MaxUid]
      BY <2>3 DEF SchedulePod, Inv, TypeOK
    <3>2. pods[n] \in [uid : 1..MaxUid, node : Nodes \cup {NoNode}, annotation : Identities]
      BY <1>2, <2>3, PodShape DEF SchedulePod
    <3>3. [pods[n] EXCEPT !.node = node] \in Pods
      BY <3>2 DEF Pods
    <3>4. /\ [pods[n] EXCEPT !.node = node].uid = pods[n].uid
          /\ [pods[n] EXCEPT !.node = node].node = node
      BY <3>2
    <3>5. node = NoNode => [pods[n] EXCEPT !.node = node] = pods[n]
      BY <2>3, <3>2 DEF SchedulePod
    <3>6. pods[n].node = NoNode /\ pods' = [pods EXCEPT ![n] = [pods[n] EXCEPT !.node = node]]
      BY <2>3 DEF SchedulePod
    <3> QED
      <4> DEFINE new == [pods[n] EXCEPT !.node = node]
      <4>1. new.uid = Before.uid /\ Before.node # NoNode => new.node = Before.node
        BY <1>3, <3>4, <3>5, <3>6
      <4>2. new = Before => pods[n] = Before
        BY ZenonT(60), <1>3, <3>4, <3>5, <3>6
      <4>3. new.uid <= lastUid'[n] /\ \A name \in Names : lastUid[name] <= lastUid'[name]
        BY <1>3, <3>1, <3>4
      <4> QED
        BY <3>1, <3>3, <3>6, <4>1, <4>2, <4>3, ZenonT(60)
  <2> HIDE DEF Follows
  <2> QED
    BY ZenonT(60), <2>1, <2>2, <2>3 DEF Kubernetes
<1>6. PICK new : Follows(new)
  BY ZenonT(60), <1>5 DEF Follows
<1>7. /\ pods' \in [Names -> Pods] /\ pods'[n] = new
      /\ \A name \in Names \ {n} : pods'[name] = pods[name]
  BY <1>6 DEF Inv, TypeOK
<1>8. TypeOK'
  BY <1>1, <1>6, <1>7 DEF Inv, TypeOK
<1>9. WorkerInv'
  BY <1>1 DEF Inv, WorkerInv, Idle
<1>10. BehindInv'
  <2> SUFFICES ASSUME NEW name \in Names
               PROVE  /\ pods'[name].uid <= lastUid'[name] /\ cache.pods[name].uid <= lastUid'[name]
                      /\ pods'[name].uid = cache.pods[name].uid /\ cache.pods[name].node # NoNode =>
                           pods'[name].node = cache.pods[name].node
    BY <1>1 DEF BehindInv
  <2>1. /\ lastUid[name] \in Nat /\ lastUid'[name] \in Nat /\ lastUid[name] <= lastUid'[name]
        /\ pods[name].uid \in Nat /\ cache.pods[name].uid \in Nat
    BY <1>6, PodShape DEF Inv, TypeOK
  <2>2. CASE name = n
    BY <1>3, <1>6, <1>7, <2>1, <2>2 DEF Before
  <2>3. CASE name # n
    BY <1>7, <2>1, <2>3 DEF Inv, BehindInv
  <2> QED
    BY <2>2, <2>3
<1>11. NoEventLost'
  <2> SUFFICES ASSUME NEW name \in Names, cache.pods[name].uid # 0, ~Annotated(cache.pods[name]),
                      pods'[name] = cache.pods[name]
               PROVE  name \in queue \cup failed \cup {worker.name}
    BY <1>1 DEF NoEventLost, Annotated
  <2>1. pods[name] = cache.pods[name]
    BY <1>6, <1>7 DEF Before
  <2> QED
    BY <2>1 DEF Inv, NoEventLost
<1> QED
  BY <1>8, <1>9, <1>10, <1>11 DEF Inv

(***************************************************************************)
(* An edit of the spec touches no pod.                                     *)
(***************************************************************************)
LEMMA EditInv == Inv /\ (\E src \in SUBSET AllSources : EditConfig(src)) => Inv'
<1> SUFFICES ASSUME Inv, NEW src \in SUBSET AllSources, EditConfig(src) PROVE Inv'
  OBVIOUS
<1>1. TypeOK'
  BY DEF Inv, TypeOK, EditConfig, Trouble
<1>2. WorkerInv' /\ BehindInv'
  BY DEF Inv, EditConfig, WorkerInv, Idle, BehindInv
<1>3. NoEventLost'
  BY DEF Inv, EditConfig, NoEventLost, Annotated
<1> QED
  BY <1>1, <1>2, <1>3 DEF Inv

(***************************************************************************)
(* Every step of the pod loop and of its surroundings keeps the invariant. *)
(***************************************************************************)
LEMMA StepInv == Inv /\ [Next]_vars => Inv'
<1>1. Inv /\ UNCHANGED vars => Inv'
  <2> SUFFICES ASSUME Inv, UNCHANGED vars PROVE Inv'
    BY ZenonT(60)
  <2>1. TypeOK' /\ WorkerInv' /\ BehindInv'
    BY DEF Inv, vars, TypeOK, WorkerInv, Idle, BehindInv
  <2>2. NoEventLost'
    BY DEF Inv, vars, NoEventLost, Annotated
  <2> QED
    BY <2>1, <2>2 DEF Inv
<1> QED
  BY <1>1, HandleInv, PatchInv, InformerInv, KubernetesInv, EditInv DEF Next, Operator

(***************************************************************************)
(* The invariant holds in every reachable state.                           *)
(***************************************************************************)
THEOREM Invariant == Spec => []Inv
BY InitInv, StepInv, PTL DEF Spec

(***************************************************************************)
(* All variables of the pod loop keep their types: a pod is annotated with *)
(* an identity, and only if it is there.                                   *)
(***************************************************************************)
THEOREM TypeCorrect == Spec => []TypeOK
<1>1. Inv => TypeOK
  BY DEF Inv
<1> QED
  BY <1>1, Invariant, PTL

(***************************************************************************)
(* No event is lost between informer, queue and worker, for any number of  *)
(* pods, restarts and failed patches.                                      *)
(***************************************************************************)
THEOREM EventsAreKept == Spec => []NoEventLost
<1>1. Inv => NoEventLost
  BY DEF Inv
<1> QED
  BY <1>1, Invariant, PTL

=============================================================================
