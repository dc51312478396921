------------------------------ MODULE EtcdData ------------------------------
(***************************************************************************)
(* What a cluster has in etcd - its placement and its namespaces - and the *)
(* parts of handleClusterUpdate that create and delete it: the finalizer   *)
(* (ensureEtcdFinalizer, removeEtcdFinalizer), validatePlacementWithStatus *)
(* and reconcileNamespaces while the cluster lives, deleteAllNamespaces    *)
(* and deletePlacement when it is deleted.                                 *)
(*                                                                         *)
(* A definition named X_Wrong... is X with a bug that the code could have  *)
(* had.                                                                    *)
(***************************************************************************)
EXTENDS Naturals

CONSTANTS
  Namespaces,    \* the names of namespaces
  ReadyEndpoint, \* the coordinator has the endpoint that readies namespaces
  MaxEdits,      \* bound: what users do
  MaxCallErrors  \* bound: passes that end early

ASSUME EtcdAssumption ==
  /\ ReadyEndpoint \in BOOLEAN
  /\ MaxEdits \in Nat /\ MaxCallErrors \in Nat

(***************************************************************************)
(* The M3DBCluster: whether it exists, has a deletion timestamp and the    *)
(* finalizer; keepEtcdDataOnDelete, frozen, externalCoordinator and the    *)
(* namespaces of its spec; the PlacementInitialized condition.             *)
(***************************************************************************)
Clusters == [exists : BOOLEAN, deleting : BOOLEAN, finalizer : BOOLEAN, keep : BOOLEAN,
             frozen : BOOLEAN, external : BOOLEAN, namespaces : SUBSET Namespaces,
             placed : BOOLEAN]

NewCluster(keep, external, S) ==
  [exists |-> TRUE, deleting |-> FALSE, finalizer |-> FALSE, keep |-> keep,
   frozen |-> FALSE, external |-> external, namespaces |-> S, placed |-> FALSE]

Registries == [Namespaces -> {"absent", "initializing", "ready"}]
Present(registry) == {ns \in Namespaces : registry[ns] # "absent"}

(***************************************************************************)
(* fresh: the copy has the resource version that the API has.              *)
(***************************************************************************)
Steps == {"idle", "protect", "place", "placed", "list", "prune", "create", "ready",
          "purge", "purging", "unplace", "release"}
Passes == [pc : Steps, cluster : Clusters, fresh : BOOLEAN, registry : Registries,
           todo : SUBSET Namespaces]
NoPass == [pc |-> "idle", cluster |-> NewCluster(FALSE, FALSE, {}), fresh |-> FALSE,
           registry |-> [ns \in Namespaces |-> "absent"], todo |-> {}]

VARIABLES
  cluster,    \* the M3DBCluster in the API
  placement,  \* etcd: is there a placement
  registry,   \* etcd: the namespaces
  cache,      \* the operator's copy of the cluster
  pass,       \* the local variables of a pass
  asked,      \* history: what users have asked for at some time
  budget      \* what users and the network may still do

vars == <<cluster, placement, registry, cache, pass, asked, budget>>
etcd == <<placement, registry>>

TypeOK ==
  /\ cluster \in Clusters
  /\ placement \in BOOLEAN
  /\ registry \in Registries
  /\ cache \in [cluster : Clusters, fresh : BOOLEAN]
  /\ pass \in Passes
  /\ asked \in [keep : BOOLEAN, delete : BOOLEAN, removed : SUBSET Namespaces]
  /\ budget \in [edits : Nat, calls : Nat]

-----------------------------------------------------------------------------
At(step) == pass.pc = step
Goto(step) == pass' = [pass EXCEPT !.pc = step]
GotoWith(step, todo) == pass' = [pass EXCEPT !.pc = step, !.todo = todo]
Return == pass' = NoPass

(***************************************************************************)
(* The pass writes its copy of the cluster: c.  The API takes it when the  *)
(* copy is of the latest version, and returns the new version; an object   *)
(* that is being deleted and has no finalizer left goes away.              *)
(***************************************************************************)
Write(c, step) ==
  \/ /\ pass.fresh
     /\ cluster' = [c EXCEPT !.exists = ~c.deleting \/ c.finalizer]
     /\ IF step = "idle" THEN Return ELSE pass' = [pass EXCEPT !.pc = step, !.cluster = c]
     /\ cache' = [cache EXCEPT !.fresh = FALSE]
  \/ ~pass.fresh /\ Return /\ UNCHANGED <<cluster, cache>>

(***************************************************************************)
(* The branches at the start of handleClusterUpdate.  A cluster that is    *)
(* gone, frozen, or deleted and without our finalizer is left alone.       *)
(***************************************************************************)
FirstStep_WrongKeepIgnored(c) ==
  IF c.deleting THEN "purge" ELSE IF c.keep THEN "place" ELSE "protect"
FirstStep_WrongKeepStuck(c) ==
  IF c.deleting THEN IF c.keep THEN "idle" ELSE "purge"
  ELSE IF c.keep THEN "place" ELSE "protect"

FirstStep(c) ==
  IF c.deleting THEN IF c.keep THEN "release" ELSE "purge"
  ELSE IF c.keep THEN "place" ELSE "protect"

StartPass ==
  LET c == cache.cluster
  IN  /\ At("idle")
      /\ c.exists /\ ~c.frozen
      /\ c.deleting => c.finalizer
      /\ pass' = [pass EXCEPT !.pc = FirstStep(c), !.cluster = c, !.fresh = cache.fresh]
      /\ UNCHANGED <<cluster, etcd, cache, asked, budget>>

EnsureEtcdFinalizer ==
  /\ At("protect")
  /\ IF pass.cluster.finalizer THEN Goto("place") /\ UNCHANGED <<cluster, cache>>
     ELSE Write([pass.cluster EXCEPT !.finalizer = TRUE], "place")
  /\ UNCHANGED <<etcd, asked, budget>>

(***************************************************************************)
(* Config map, services and StatefulSets come first (StatefulSetRollout);  *)
(* a pass that has to wait for them ends here, as PassAborts.              *)
(***************************************************************************)
ValidatePlacementWithStatus ==
  /\ At("place")
  /\ IF pass.cluster.placed THEN Goto("list") /\ UNCHANGED placement
     ELSE Goto("placed") /\ placement' = TRUE
  /\ UNCHANGED <<cluster, registry, cache, asked, budget>>

SetStatusPlacementCreated ==
  /\ At("placed")
  /\ Write([pass.cluster EXCEPT !.placed = TRUE], "list")
  /\ UNCHANGED <<etcd, asked, budget>>

-----------------------------------------------------------------------------
(***************************************************************************)
(* reconcileNamespaces works from one answer of the coordinator.           *)
(***************************************************************************)
InSpec == pass.cluster.namespaces
NamespacesToDelete_WrongAll(r) == Present(r)
NamespacesToDelete(r) == Present(r) \ InSpec
NamespacesToCreate(r) == InSpec \ Present(r)
NamespacesToReady_WrongCreated(r) == InSpec \ Present(r)
NamespacesToReady(r) ==
  (InSpec \ Present(r)) \cup {ns \in Namespaces : r[ns] = "initializing"}

ListNamespaces ==
  /\ At("list")
  /\ pass' = [pass EXCEPT !.pc = "prune", !.registry = registry,
                          !.todo = NamespacesToDelete(registry)]
  /\ UNCHANGED <<cluster, etcd, cache, asked, budget>>

(***************************************************************************)
(* One that has already been deleted is no error.                          *)
(***************************************************************************)
PruneNamespaces ==
  /\ At("prune")
  /\ \/ \E ns \in pass.todo :
          /\ registry' = [registry EXCEPT ![ns] = "absent"]
          /\ GotoWith("prune", pass.todo \ {ns})
     \/ /\ pass.todo = {}
        /\ GotoWith("create", NamespacesToCreate(pass.registry))
        /\ UNCHANGED registry
  /\ UNCHANGED <<cluster, placement, cache, asked, budget>>

CreatedStatus_WrongUnset == "unknown"
CreatedStatus == "initializing"

CreateNamespaces ==
  /\ At("create")
  /\ \/ \E ns \in pass.todo :
          /\ registry' = [registry EXCEPT ![ns] = CreatedStatus]
          /\ GotoWith("create", pass.todo \ {ns})
     \/ /\ pass.todo = {}
        /\ IF pass.cluster.external THEN Return
           ELSE GotoWith("ready", NamespacesToReady(pass.registry))
        /\ UNCHANGED registry
  /\ UNCHANGED <<cluster, placement, cache, asked, budget>>

(***************************************************************************)
(* Not found, as for a namespace that this pass has just pruned, is taken  *)
(* for a coordinator without the endpoint: the rest is left as it is.      *)
(***************************************************************************)
ReadyNamespaces ==
  /\ At("ready")
  /\ \/ \E ns \in pass.todo :
          IF ReadyEndpoint /\ registry[ns] # "absent"
          THEN /\ registry' = [registry EXCEPT ![ns] = "ready"]
               /\ GotoWith("ready", pass.todo \ {ns})
          ELSE Return /\ UNCHANGED registry
     \/ pass.todo = {} /\ Return /\ UNCHANGED registry
  /\ UNCHANGED <<cluster, placement, cache, asked, budget>>

-----------------------------------------------------------------------------
DeleteAllNamespaces ==
  /\ \/ At("purge") /\ GotoWith("purging", Present(registry)) /\ UNCHANGED registry
     \/ /\ At("purging")
        /\ \/ \E ns \in pass.todo :
                /\ registry' = [registry EXCEPT ![ns] = "absent"]
                /\ GotoWith("purging", pass.todo \ {ns})
           \/ pass.todo = {} /\ Goto("unplace") /\ UNCHANGED registry
  /\ UNCHANGED <<cluster, placement, cache, asked, budget>>

DeletePlacement_WrongAfterwards ==
  /\ At("unplace")
  /\ Goto("release")
  /\ UNCHANGED <<cluster, etcd, cache, asked, budget>>

DeletePlacement ==
  /\ At("unplace")
  /\ placement' = FALSE
  /\ Goto("release")
  /\ UNCHANGED <<cluster, registry, cache, asked, budget>>

RemoveEtcdFinalizer ==
  /\ At("release")
  /\ Write([pass.cluster EXCEPT !.finalizer = FALSE], "idle")
  /\ UNCHANGED <<etcd, asked, budget>>

(***************************************************************************)
(* A call fails, its answer is lost, the pass has to wait for something,   *)
(* or the operator crashes and starts again with new caches.               *)
(***************************************************************************)
PassAborts ==
  /\ ~At("idle")
  /\ budget.calls > 0
  /\ budget' = [budget EXCEPT !.calls = @ - 1]
  /\ Return
  /\ \/ UNCHANGED cache
     \/ cache' = [cluster |-> cluster, fresh |-> TRUE]
  /\ UNCHANGED <<cluster, etcd, asked>>

Pass ==
  \/ StartPass \/ EnsureEtcdFinalizer
  \/ ValidatePlacementWithStatus \/ SetStatusPlacementCreated
  \/ ListNamespaces \/ PruneNamespaces \/ CreateNamespaces \/ ReadyNamespaces
  \/ DeleteAllNamespaces \/ DeletePlacement \/ RemoveEtcdFinalizer

-----------------------------------------------------------------------------
SyncCluster ==
  /\ ~cache.fresh
  /\ cache' = [cluster |-> cluster, fresh |-> TRUE]
  /\ UNCHANGED <<cluster, etcd, pass, asked, budget>>

(***************************************************************************)
(* Users edit the cluster, delete it, and create it again.                 *)
(***************************************************************************)
Ask(c) ==
  /\ c # cluster
  /\ cluster' = c
  /\ budget.edits > 0 /\ budget' = [budget EXCEPT !.edits = @ - 1]
  /\ asked' = [keep |-> asked.keep \/ c.keep,
               delete |-> (asked.delete /\ cluster.exists) \/ (c.deleting /\ ~c.keep),
               removed |-> asked.removed \cup (Namespaces \ c.namespaces)]
  /\ cache' = [cache EXCEPT !.fresh = FALSE]
  /\ pass' = [pass EXCEPT !.fresh = FALSE]
  /\ UNCHANGED etcd

EditCluster ==
  /\ cluster.exists
  /\ \/ Ask([cluster EXCEPT !.keep = ~@])
     \/ Ask([cluster EXCEPT !.frozen = ~@])
     \/ \E S \in SUBSET Namespaces : Ask([cluster EXCEPT !.namespaces = S])

DeleteCluster ==
  /\ cluster.exists
  /\ Ask([cluster EXCEPT !.deleting = TRUE, !.exists = cluster.finalizer])

CreateCluster ==
  /\ ~cluster.exists
  /\ \E keep, external \in BOOLEAN, S \in SUBSET Namespaces :
       Ask(NewCluster(keep, external, S))

Environment == SyncCluster \/ EditCluster \/ DeleteCluster \/ CreateCluster \/ PassAborts

Init ==
  /\ \E keep, external \in BOOLEAN, S \in SUBSET Namespaces :
       /\ cluster = NewCluster(keep, external, S)
       /\ asked = [keep |-> keep, delete |-> FALSE, removed |-> Namespaces \ S]
  /\ placement = FALSE
  /\ registry = [ns \in Namespaces |-> "absent"]
  /\ cache = [cluster |-> cluster, fresh |-> TRUE]
  /\ pass = NoPass
  /\ budget = [edits |-> MaxEdits, calls |-> MaxCallErrors]

Next == Pass \/ Environment

Spec == Init /\ [][Next]_vars

(***************************************************************************)
(* Passes go on (events and the informers' resync) and watches deliver.    *)
(***************************************************************************)
Fairness == WF_vars(Pass) /\ WF_vars(SyncCluster)

FairSpec == Spec /\ Fairness

-----------------------------------------------------------------------------
(***************************************************************************)
(* Properties.                                                             *)
(***************************************************************************)
HasData == placement \/ Present(registry) # {}

(***************************************************************************)
(* Unless keepEtcdDataOnDelete was ever set, a cluster with data in etcd   *)
(* has the finalizer: ensureEtcdFinalizer comes before anything is made,   *)
(* removeEtcdFinalizer after everything is gone, in every interleaving     *)
(* with edits, deletions and failures.  So the data never outlives it.     *)
(***************************************************************************)
DataProtected == HasData /\ ~asked.keep => cluster.exists /\ cluster.finalizer

(***************************************************************************)
(* The operator removes the placement only of a cluster that was, at some  *)
(* time since it was created, being deleted with keepEtcdDataOnDelete off: *)
(* no stale copy of an earlier cluster makes it delete a later one's.      *)
(***************************************************************************)
PlacementRemovedOnRequest == [][placement /\ ~placement' => asked.delete]_vars

(***************************************************************************)
(* A namespace is deleted only if it was, at some time, not in the spec,   *)
(* or if the cluster was to go: pruneNamespaces and deleteAllNamespaces    *)
(* lose no data that users never gave up.                                  *)
(***************************************************************************)
NamespacesRemovedOnRequest ==
  [][Present(registry) \ Present(registry') # {} =>
       asked.delete \/ Present(registry) \ Present(registry') \subseteq asked.removed]_vars

(***************************************************************************)
(* In the end a cluster that lives has the namespaces of its spec, ready   *)
(* where the operator can ready them (reconcileNamespaces).                *)
(***************************************************************************)
Reconciled ==
  /\ Present(registry) = cluster.namespaces
  /\ ~cluster.external /\ ReadyEndpoint =>
       \A ns \in cluster.namespaces : registry[ns] = "ready"

NamespacesReconciled ==
  <>[](cluster.exists /\ ~cluster.deleting /\ ~cluster.frozen => Reconciled)

(***************************************************************************)
(* A cluster that is deleted goes away, however many calls of the cleanup  *)
(* fail in between, unless it is frozen.                                   *)
(***************************************************************************)
DeletionEnds == cluster.deleting ~> ~cluster.exists \/ ~cluster.deleting \/ cluster.frozen

=============================================================================
