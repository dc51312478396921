---------------------------- MODULE PodIdentity ----------------------------
(***************************************************************************)
(* The operator's pod loop (pkg/controller/controller.go): events of the   *)
(* pod informer put keys on the work queue, one worker takes them off, and *)
(* handlePodUpdate annotates a pod with its identity, from which the M3DB  *)
(* node in the pod learns its ID.                                          *)
(*                                                                         *)
(* A definition named X_Wrong... is X with a bug that the code could have  *)
(* had.                                                                    *)
(***************************************************************************)
EXTENDS Naturals

CONSTANTS
  Names,           \* the names of pods
  Nodes,           \* the nodes they run on
  InitialSources,  \* where identity comes from at first
  MaxUid,          \* bound: pods of one name, one after the other
  MaxTroubles      \* bound: edits of podIdentityConfig, failed calls, crashes

(***************************************************************************)
(* The sources of identity.  Both that ask for the node are "node".  No    *)
(* podIdentityConfig at all is {"uid"}.                                    *)
(***************************************************************************)
AllSources == {"uid", "node"}

NoName == "no name"

ASSUME IdentityAssumption ==
  /\ NoName \notin Names
  /\ InitialSources \subseteq AllSources
  /\ MaxUid \in Nat \ {0} /\ MaxTroubles \in Nat

(***************************************************************************)
(* A pod with UID 0 is no pod.  An identity is what it says besides the    *)
(* pod's name; one that is not there yet has UID MaxUid + 1.               *)
(***************************************************************************)
NoNode == "no node"
Identities == [uid : 0..(MaxUid + 1), node : Nodes \cup {NoNode}]
NoIdentity == [uid |-> MaxUid + 1, node |-> NoNode]
NewPod(uid) == [uid |-> uid, node |-> NoNode, annotation |-> NoIdentity]
NoPod == NewPod(0)
Pods == [uid : 1..MaxUid, node : Nodes \cup {NoNode}, annotation : Identities] \cup {NoPod}

VARIABLES
  pods,     \* the pods of the API server
  lastUid,  \* the UID last given to a pod of each name
  sources,  \* the sources in the cluster's spec
  cache,    \* the informers' pods and sources
  queue,    \* podWorkQueue: keys waiting to be handled
  worker,   \* the key in hand, and the identity to be written
  failed,   \* history: keys whose last handling returned an error
  budget    \* what may still go wrong

vars == <<pods, lastUid, sources, cache, queue, worker, failed, budget>>

TypeOK ==
  /\ pods \in [Names -> Pods]
  /\ lastUid \in [Names -> 0..MaxUid]
  /\ sources \in SUBSET AllSources
  /\ cache \in [pods : [Names -> Pods], sources : SUBSET AllSources]
  /\ queue \in SUBSET Names
  /\ worker \in [name : Names \cup {NoName}, id : Identities]
  /\ failed \in SUBSET Names
  /\ budget \in Nat

Idle == [name |-> NoName, id |-> NoIdentity]

-----------------------------------------------------------------------------
(***************************************************************************)
(* Identity: an error for a pod that has no node when the node is asked.   *)
(***************************************************************************)
HasIdentity(pod, src) == "node" \in src => pod.node # NoNode

Identity(pod, src) ==
  [uid |-> IF "uid" \in src THEN pod.uid ELSE 0,
   node |-> IF "node" \in src THEN pod.node ELSE NoNode]

(***************************************************************************)
(* A key that is handled is not queued, and is again with the next event.  *)
(* Errors do not put it back.                                              *)
(***************************************************************************)
Done(name, error) ==
  /\ worker' = Idle
  /\ failed' = IF error THEN failed \cup {name} ELSE failed \ {name}

(***************************************************************************)
(* processPodQueueItem and handlePodUpdate up to the patch.  A pod that    *)
(* has an annotation keeps it, right or wrong.                             *)
(***************************************************************************)
HandlePodEvent ==
  /\ worker = Idle
  /\ \E name \in queue :
       LET pod == cache.pods[name]
       IN  /\ queue' = queue \ {name}
           /\ \/ /\ pod.uid = 0
                 /\ Done(name, FALSE)
              \/ /\ pod.uid # 0 /\ ~HasIdentity(pod, cache.sources)
                 /\ Done(name, TRUE)
              \/ /\ pod.uid # 0 /\ HasIdentity(pod, cache.sources)
                 /\ pod.annotation # NoIdentity
                 /\ Done(name, FALSE)
              \/ /\ pod.uid # 0 /\ HasIdentity(pod, cache.sources)
                 /\ pod.annotation = NoIdentity
                 /\ worker' = [name |-> name, id |-> Identity(pod, cache.sources)]
                 /\ UNCHANGED failed
  /\ UNCHANGED <<pods, lastUid, sources, cache, budget>>

(***************************************************************************)
(* The patch goes by the name of the pod and carries neither its UID nor a *)
(* resource version.                                                       *)
(***************************************************************************)
PatchPod_WrongUnchecked ==
  /\ worker # Idle
  /\ pods' = [pods EXCEPT ![worker.name].annotation = worker.id]
  /\ Done(worker.name, FALSE)
  /\ UNCHANGED <<lastUid, sources, cache, queue, budget>>

PatchPod ==
  /\ worker # Idle
  /\ LET name == worker.name
     IN  IF pods[name].uid # 0
         THEN pods' = [pods EXCEPT ![name].annotation = worker.id] /\ Done(name, FALSE)
         ELSE Done(name, TRUE) /\ UNCHANGED pods
  /\ UNCHANGED <<lastUid, sources, cache, queue, budget>>

Trouble == budget > 0 /\ budget' = budget - 1

(***************************************************************************)
(* The call fails, or its answer is lost.                                  *)
(***************************************************************************)
PatchFails ==
  /\ worker # Idle
  /\ Trouble
  /\ Done(worker.name, TRUE)
  /\ \/ UNCHANGED pods
     \/ pods[worker.name].uid # 0 /\ pods' = [pods EXCEPT ![worker.name].annotation = worker.id]
  /\ UNCHANGED <<lastUid, sources, cache, queue>>

(***************************************************************************)
(* A new operator lists all pods: each is an event.                        *)
(***************************************************************************)
Restart ==
  /\ Trouble
  /\ worker' = Idle /\ failed' = {}
  /\ cache' = [pods |-> pods, sources |-> sources]
  /\ queue' = {name \in Names : pods[name].uid # 0}
  /\ UNCHANGED <<pods, lastUid, sources>>

-----------------------------------------------------------------------------
(***************************************************************************)
(* The pod informer: additions, updates and resyncs are enqueued; a        *)
(* deletion is a no-op.                                                    *)
(***************************************************************************)
Enqueued_WrongAddOnly(old, new) == new.uid # old.uid /\ new.uid # 0
Enqueued_WrongUpdateOnly(old, new) == new.uid = old.uid /\ new.uid # 0
Enqueued(old, new) == new.uid # 0

SyncPod(name) ==
  /\ cache.pods[name] # pods[name]
  /\ cache' = [cache EXCEPT !.pods[name] = pods[name]]
  /\ queue' = IF Enqueued(cache.pods[name], pods[name]) THEN queue \cup {name} ELSE queue
  /\ UNCHANGED <<pods, lastUid, sources, worker, failed, budget>>

Resync(name) ==
  /\ Enqueued(cache.pods[name], cache.pods[name])
  /\ queue' = queue \cup {name}
  /\ UNCHANGED <<pods, lastUid, sources, cache, worker, failed, budget>>

SyncCluster ==
  /\ cache.sources # sources
  /\ cache' = [cache EXCEPT !.sources = sources]
  /\ UNCHANGED <<pods, lastUid, sources, queue, worker, failed, budget>>

(***************************************************************************)
(* The StatefulSet controller creates pods anew under the same name; the   *)
(* scheduler places them; users edit the cluster.                          *)
(***************************************************************************)
CreatePod(name) ==
  /\ pods[name].uid = 0
  /\ lastUid[name] < MaxUid
  /\ lastUid' = [lastUid EXCEPT ![name] = @ + 1]
  /\ pods' = [pods EXCEPT ![name] = NewPod(lastUid[name] + 1)]
  /\ UNCHANGED <<sources, cache, queue, worker, failed, budget>>

DeletePod(name) ==
  /\ pods[name].uid # 0
  /\ lastUid[name] < MaxUid
  /\ pods' = [pods EXCEPT ![name] = NoPod]
  /\ UNCHANGED <<lastUid, sources, cache, queue, worker, failed, budget>>

SchedulePod(name, node) ==
  /\ pods[name].uid # 0 /\ pods[name].node = NoNode
  /\ pods' = [pods EXCEPT ![name].node = node]
  /\ UNCHANGED <<lastUid, sources, cache, queue, worker, failed, budget>>

EditConfig(src) ==
  /\ src # sources
  /\ Trouble
  /\ sources' = src
  /\ UNCHANGED <<pods, lastUid, cache, queue, worker, failed>>

Init ==
  /\ pods = [name \in Names |-> NoPod]
  /\ lastUid = [name \in Names |-> 0]
  /\ sources = InitialSources
  /\ cache = [pods |-> pods, sources |-> sources]
  /\ queue = {} /\ worker = Idle /\ failed = {}
  /\ budget = MaxTroubles

Operator == HandlePodEvent \/ PatchPod
Kubernetes(name) == CreatePod(name) \/ \E node \in Nodes : SchedulePod(name, node)

Next ==
  \/ Operator \/ PatchFails \/ Restart \/ SyncCluster
  \/ \E name \in Names : SyncPod(name) \/ Resync(name) \/ Kubernetes(name) \/ DeletePod(name)
  \/ \E src \in SUBSET AllSources : EditConfig(src)

Spec == Init /\ [][Next]_vars

(***************************************************************************)
(* The worker goes on, watches deliver, resyncs recur, and Kubernetes      *)
(* creates and schedules pods.                                             *)
(***************************************************************************)
Fairness ==
  /\ \A name \in Names : WF_vars(HandlePodEvent /\ name \in queue /\ name \notin queue')
  /\ WF_vars(PatchPod) /\ WF_vars(SyncCluster)
  /\ \A name \in Names : WF_vars(SyncPod(name)) /\ WF_vars(Resync(name)) /\ WF_vars(Kubernetes(name))

FairSpec == Spec /\ Fairness

-----------------------------------------------------------------------------
(***************************************************************************)
(* Properties.                                                             *)
(***************************************************************************)
Annotated(pod) == pod.annotation # NoIdentity

(***************************************************************************)
(* No event is lost between the informer, the queue and the worker: a pod  *)
(* that the operator knows of and could annotate is queued, in hand, or    *)
(* its last handling failed and it waits for the resync; or it has been    *)
(* annotated or replaced, and the news of that is under way.               *)
(***************************************************************************)
NoEventLost ==
  \A name \in Names :
    cache.pods[name].uid # 0 /\ ~Annotated(cache.pods[name]) =>
      \/ name \in queue \cup failed \cup {worker.name}
      \/ pods[name] # cache.pods[name]

(***************************************************************************)
(* In the end all pods have their annotation.                              *)
(***************************************************************************)
PodsIdentified == <>[](\A name \in Names : pods[name].uid # 0 /\ Annotated(pods[name]))

=============================================================================
