# Verification of the M3DB operator

TLA+ models of the M3DB operator (`pkg/controller` and the packages it uses):
its process, queue and clients, and what the control loop does to StatefulSets, to the
M3DB placement, to the namespaces in etcd and to pods, while users edit, pods fail,
informer caches lag, calls are lost and the process crashes. TLC checks them on small instances, and TLAPS proves the
safety properties that matter most for all instances.

## The system

The operator watches `M3DBCluster` objects, StatefulSets and pods through informers. An
event puts a key on one of two work queues; `cmd/m3db-operator/main.go` starts one worker
for each. All informers resync every five minutes, which puts every key back.

| Part | State | Operations | What makes it hard |
|---|---|---|---|
| Cluster loop, first half (`handleClusterUpdate`, controller.go 336-622) | StatefulSets: template, three annotations, status | create a missing set, wait until all are ready, update an annotated one, restart pods under OnDelete | caches of three kinds lag independently; whole-object updates against status writes; users edit in between |
| Cluster loop, second half (controller.go 623-768, update_cluster.go) | placement, replicas, conditions | create the placement, replace, add and remove instances, resize a set by one | the placement is read once and used after other calls; pods are listed twice; instances take their time |
| Etcd data (controller.go 336-410, update_cluster.go) | finalizer, placement, namespaces | add the finalizer, create, prune, ready, purge, remove the finalizer | crash between any two; a stale copy of a cluster that was deleted and created again |
| Pod loop (`handlePodUpdate`, pod_identity.go, podidentity/provider.go) | pod annotations, work queue | compute the identity, patch the pod | errors are not requeued; patches go by name; pods are replaced under their name |
| Coordinator clients (m3admin_client.go, m3admin/client.go) | maps of clients under a lock; HTTP requests | look up or make a client, send, retry, read the status code | workers share the maps; specs are edited after a client was cached; a repeated request meets its own effect |
| Process (controller.go 215-333, 1010-1190, add_cluster.go, services.go) | informers, work queue, config map, two services | start, list, run, event handlers, keys, ensure the objects before the StatefulSets | restarts with empty caches; events while a cluster is handled; a successor under the same name |
| Generators, events, metrics, docs | - | see `PROJECT.json` | - |

The two loops meet in the pod's identity: the pod loop writes it on the pod, the
node in the pod takes it as its instance ID, and the cluster loop puts it in the placement.
The two halves of the cluster loop meet in the StatefulSets: the second half runs only
when the first has found every set ready. Everything a pass does rests on the process, which gives
a cluster one pass at a time and full caches, and on the clients, through which all data in etcd changes.

What each part owes:

- *StatefulSets*: one per isolation group in the end; updated only when annotated,
  one at a time; an annotation that is gone was processed; rollouts end.
- *Placement*: one change at a time; no set loses a pod that holds shards; every group keeps
  an instance; every resize converges; failed instances are replaced.
- *Etcd data*: never outlives a cluster that was to clean it up; never removed unless
  a user gave it up; namespaces converge; deletion ends.
- *Pods*: none is forgotten; every one is annotated in the end.
- *Clients*: a call reaches the coordinator, environment and zone of its cluster, takes effect at most once, and
  is not reported as done unless it was.
- *Process*: one worker per cluster; no pass before the first lists; services before StatefulSets; configs never go back.

## Modules

| Module | Models |
|---|---|
| `PlacementResize` | the second half of a pass, with the StatefulSet controller, the coordinator and the nodes as environment |
| `ResizeService` | what the second half promises to a patient user about sizes (abstract); `PlacementResize` implements it |
| `StatefulSetRollout` | the first half of a pass, at a fixed size |
| `RolloutService` | what the first half promises to a careful user about updates (abstract); `StatefulSetRollout` implements it |
| `EtcdData` | finalizer, placement (is there one) and namespaces, through life, deletion and re-creation |
| `PodIdentity` | the pod informer, its queue and worker, and the identity |
| `CoordinatorService` | what a call of the coordinator promises (abstract) |
| `AdminClients` | the maps of clients and their lock |
| `AdminCalls` | extends `AdminClients` with HTTP requests, retries and status codes; implements `CoordinatorService` |
| `WorkQueue` | client-go's queue, as operators on a record |
| `OperatorProcess` | start, informers, queue, workers, config map, services and garbage collection, over `WorkQueue` |
| `...Proofs` | theorems, one module for each of the six specifications |
| `PatientResizeProofs`, `AnnotatedResizeProofs` | the theorems about `PlacementResize` that need a patient user, each on top of the one before |
| `MC...` | instances for TLC |

Conventions common to all of them:

- **A pass is several actions.** A pass reads caches and the coordinator at different moments
  and writes with one call at a time. Each action is what happens between two calls that others can come between,
  and is named for the function it models. Local variables of the Go code that live across calls are in
  `pass`, whose `pc` says where the pass is. `Return` ends the pass, with or without an error; both lead to
  another pass, after an event, a requeue or a resync.
- **Caches.** `cache` is what the listers return. Each kind of object is synced by its own action, so
  that the three may be of different moments. `getChildStatefulSets` and the lister of clusters
  copy before anything is changed, so the cache itself is never edited.
- **Resource versions.** All that matters is whether a copy has the version the API has: `fresh`. An
  `Update` or `UpdateStatus` of a copy that is not fresh is a conflict. Merge patches carry no version
  and always apply.
- **Failures.** `PassAborts` is a call that fails, a call that is done and whose answer is lost (the step
  before was taken), a wait that times out, or a crash and restart, which fills the caches. That a call, with the retries
  of the HTTP client in it, is one step that may fail after its effect is what `AdminCalls` shows.
- **`budget`** bounds what users, nodes and the network do. Nothing the operator does is bounded by it.
- `X_Wrong...` is `X` with a bug that the code could have had. It stands before `X` and nothing uses it; it is there
  to show that the properties notice.

`PROJECT.json` maps each definition to its lines.

### PlacementResize

`cluster`, `sets`, `pods` and `placement` are the M3DBCluster (sizes, preventScaleDown, two conditions), StatefulSets (size,
status, update strategy, in-progress annotation), live pods with their UIDs, and instance states. An instance ID is `<<group, ordinal, uid>>`, or without
the UID when `UseUID` is off.

| Step of the pass | Action |
|---|---|
| sets ready, take a copy of the cluster | `StartPass` |
| `validatePlacementWithStatus` | `InitPlacement`, `SetStatusPlacementCreated` |
| list pods, get the placement, wait for instances, `checkPodsForReplacement` | `FetchPlacement` |
| replace | `ReplacePodStatus`, `ReplacePodInPlacement` |
| loop over the sets | `ExpandPlacementForSet` + `AddPodsToPlacement`, `ShrinkPlacementForSet`, `PatchStatefulSet`, `AllAtSize` |
| end | `ReconcileBootstrappingStatus`, `CleanupAnnotations` |

The loop skips a set whose strategy is OnDelete unless it has the in-progress annotation (`Skipped`). Where that comes from is the
first half of the pass: `ApplyStatefulSetUpdate` stands for it, an update that leaves the set annotated.

External: `CreatePod`, `DeletePod`, `UpdateSetStatus` (Kubernetes), `BecomeAvailable`, `Leave` (nodes), `FailPod`,
`ChangeSpec` (users). A `PatientUser` edits only when the last edit has been carried out, and starts a rollout only when the operator has
seen the edit. They also edit between two passes only, which is an assumption on timing rather than on care: whether a pass is under way, and whether the caches have caught up, is not in any object. A user comes close to it by waiting for the
log line that ends a pass with nothing to do (controller.go:773). The proofs use it; without it, `resize` and `resize_liveness` pass all the same.

`ResizeService` keeps three things of all this: the sizes asked for, the replicas of the sets, and which pods are in the placement to stay (`PlacedPods`).
It has no caches, passes, failures or replacements. Sets grow by one, towards what is asked for now, before their pods are placed. Pods beyond the size asked for, and no others, are taken from the placement when all others are there,
and the sets shrink by one afterwards. `Sizing` is the instance, `ResizesSafely` the refinement.

### StatefulSetRollout

A pod template is a revision number. `SpecIndex` says where the spec lists the group that comes i-th by name, because
the code uses one order to find a missing set and the other to generate it. `User` is how much care is taken: a *hasty* one
edits at any time; an *orderly* one does not edit the cluster while an annotation is pending; a *careful* one also waits, after an edit, until a pass has
logged "nothing to do" with the new generation (controller.go:773) before annotating, and annotates sets in order. There is no other sign to wait for: `status.observedGeneration` is in the type, but no code sets it. `informed` says that the user has read that line since the last edit.

A pass copies the cluster when it begins (`StartPass`) and lists the sets after the calls for finalizer, config map and services, so the two are of different moments, whatever the caches do: `current`, in cache and pass, says whether
a copy of the cluster has the latest generation. Then it creates a missing set (`CreateStatefulSet`) or goes on if all are ready (`CheckStatefulSets`). The loop over the sets is `ApplyStatefulSetUpdate`,
`SkipStatefulSet`, and under OnDelete `RolloutRefused`, `RestartPods`, `DeletePodToUpdate`, `CompleteRollout`. `RestOfPass` stands for all of
`PlacementResize`, which may end the pass; then `CleanupAnnotations`.

`RolloutService` has the template asked for, the template of each set, the sets that are annotated and those that have settled. Its `Process` is what the operator does over many steps, as one: the first annotated set, when all
sets have settled, gets the template that is asked for at that moment and loses the annotation. `Updating` is the instance, `UpdatesAtOnce` the refinement.

### EtcdData

`asked` is a history variable: whether keepEtcdDataOnDelete was ever set, whether the cluster that exists now was ever being deleted
without it, which namespaces were ever out of the spec. Each pass has one of three branches (`FirstStep`): live, purge, or release without a purge.

### PodIdentity

`queue` is the work queue as a set, since it deduplicates, and `worker` the key in hand; a key in hand may be queued again, as the
work queue allows. `failed` is a history variable: keys whose last handling returned an error. An identity is what it says
besides the name.

### CoordinatorService, AdminClients and AdminCalls

The abstract call has a target (a cluster's data of one kind in etcd) and an operation. It takes effect at most once and in one step, while the caller
waits; "ok" means done or there, "not found" means not there, "failed" means nothing. `PlacementResize` and `EtcdData` use calls of this kind.

In `AdminClients` a worker takes the read lock, reads a map, releases, makes a client if there is none, takes the write lock, and writes. Reading and
writing are steps between lock and unlock, so that a race would be a state with a writer beside somebody else (`NoMapRace`). A client that cannot be made is an error
client, which is not kept. In `AdminCalls` the client's request has the headers for environment and zone; `Serve` is the coordinator; an answer may be lost; `Retry`
sends again when there was no answer or a failure of the server, up to the limit; `Answered` and `GiveUp` turn what is there into a result. Requests for creation, deletion and
reading stand for those of placements, namespaces and topics.

### OperatorProcess

`Start`, one list for each informer, `Run`; then events add keys and workers take them. A pass is: get the cluster from the cache, return early (frozen, deleted, with
isolation groups that do not validate), then config map, coordinator service, node service and the StatefulSets, each a read and a write that others may come between. `Kinds` are what a
spec can mean for this: plain, with a config map of the user's own, frozen, with data that does not generate, with isolation groups that do not validate. The config is the
number of the spec's version. `uid` tells a cluster from its successor of the same name; objects have it as owner, and `CollectGarbage` removes what has another. `Exit` is a
crash at any point. `removed` is a history variable: what somebody removed during a pass.

## Runs

The longest take two to three minutes.

| Run | Checks | Instance |
|---|---|---|
| `resize` | `TypeOK`, `PlacedPodsKept`, `GroupsKeepAnInstance`, `SeenIsCurrent`, `OneChangeAtATime`, `NeverBelowPlacement`, `ResizesSafely` | 2 groups (symmetric) of up to 2 pods, RollingUpdate, patient user, 2 edits, 1 pod failure, 1 aborted pass |
| `resize_liveness` | `Converges`, `BootstrappingEnds`, `ResizesAreAnnotated`, `AnnotatedUntilResized` | 1 group of up to 3 pods, both strategies, 1 edit, 1 rollout, 1 failure, 1 aborted pass, names as identities |
| `rollout_rolling` | `TypeOK`, `OneSetAtATime`, `RemovedMeansProcessed`, `UpdatesAtOnce`, `AnnotationsRemoved`, `AllSetsCreated` | 2 sets, from nothing, careful user, 3 edits, 1 aborted pass |
| `rollout_on_delete` | `OnlyWhenAnnotated`, `NoAnnotationLost`, `RolloutsEnd` | 1 set of 2 pods, orderly user, 3 edits, an annotation value that is refused and one that is not |
| `etcd_data` | `TypeOK`, `DataProtected`, `PlacementRemovedOnRequest`, `NamespacesRemovedOnRequest`, `NamespacesReconciled`, `DeletionEnds` | 2 namespaces, 2 edits, 2 aborted passes |
| `pod_identity` | `TypeOK`, `NoEventLost`, `PodsIdentified` | 2 names, 2 pods each in turn, 1 failure, crash or edit |
| `admin_calls` | `TypeOK`, `NoMapRace`, `RightClient`, `OwnDataOnly`, `Implements` | 2 workers (symmetric), 2 clusters that may share a coordinator, 1 kind, 1 zone, 1 edit, 1 retry |
| `operator` | `TypeOK`, `OneWorkerPerKey`, `NeverBlind`, `ObjectsBeforeSets`, `ConfigNeverRollsBack`, `ClustersSettle` | 2 workers, 1 cluster (plain, with a config map of its own, or with data that does not generate), created, edited or created again, 1 group, 1 crash, failed call or removed object |

`Implements`, `ResizesSafely` and `UpdatesAtOnce` are refinements. For the first, `Service == INSTANCE CoordinatorService WITH ...` maps the data in etcd and the open call of every worker to themselves and leaves out clients, lock, requests and retries; every behaviour of `AdminCalls` is then one of `CoordinatorService`. The other two are described with their modules. `Converges` excepts a cluster that refuses to scale down, as asked, and
an OnDelete set that nobody annotated, which the code never resizes.

Four runs show where the program does not do what the repository says of it:

| Run | Property | What happens |
|---|---|---|
| `resize_scale_safety` | `PlacedPodsKept` | One pod is to become three, and when the set has three, two. A pass makes the set smaller. The next one begins while the cache shows the set as it was, ready, and lists it again when it has the smaller size: size and spec agree, the placement has one instance, so it is expanded, and `expandPlacementForSet` adds every pod that it lists (update_cluster.go:534), the third one included, which Kubernetes is about to delete. |
| `resize_failed_instance` | `FailedInstancesReplaced` | A pod is lost while its instance initializes and comes back with another UID. Every pass waits for the instance and returns before it would look for a replacement. |
| `rollout_order` | `AllSetsCreated` | The spec lists groups in another order than by name. A missing set is looked for under one index and generated under the other, exists already, and the missing one is never created. |
| `rollout_rollback` | `RolloutsEnd` | An OnDelete rollout is taken back half way. Current and update revision are equal again, so no pods are left to restart, though some run the abandoned template. |

**Bounds.** Three pods in a group are the fewest for a resize by more than one that is taken back by one; two
groups or two sets are what "one at a time" needs. One failure and one aborted pass can come at any point of any
pass, and every read of a cache may be of any earlier moment, whatever the bounds on edits. Two UIDs per name are a pod and its successor. Two edits
are what it takes to delete a cluster and create it again, or to edit it and delete it. Two workers and two clusters are what it takes to conflict; one edit makes two
clusters share a coordinator that they did not share, and one retry meets the effect of the first request. Two versions are a cluster and its successor, or a spec and its edit. The kinds of specs in `operator` are those that
a pass tells apart after it has begun; frozen clusters and isolation groups that do not validate end a pass at the same place as a cluster that is gone, and are in the proofs. Deadlock is
checked except in `etcd_data` and `operator`, where a cluster that has been deleted leaves nothing to do, and in `resize_failed_instance`, `resize_scale_safety` and
`rollout_rollback`, which look for one violation. The three edits of `rollout_on_delete` are one template with two annotations, or two templates of which one is applied; what a second
rollout can do to the first is in `rollout_rollback` and the known limits.

**Fairness.** Weak fairness of `Pass`: a pass is started by every event and by the resync, calls have timeouts, and a pass
that returns is followed by another. Weak fairness of each informer: watches deliver, and relist when they break.
Weak fairness of the StatefulSet controller, the nodes, the scheduler and the garbage collector, outside of the repository, without which nothing would
come up or go away. In `PodIdentity` each queued key gets its turn, as the queue is first in, first out. `OperatorProcess` has less to assume, since it models what the others
take for granted: weak fairness of start, lists, events, resync and the steps of a worker, and strong fairness of a worker taking a cluster's key, because a key in hand is
now and then not to be had. Users, failures, crashes and lost calls owe nothing. `admin_calls` checks safety only.

## Proofs

For every value of the constants (groups, sizes, sets, namespaces, names, workers, clusters, zones, bounds), from the assumptions named in the modules: constants
are numbers and truth values of the right kind, some sets are finite, and model values differ.

| Theorem | States |
|---|---|
| `PlacementResizeProofs!TypeCorrect` | `Spec => []TypeOK` |
| `PlacementResizeProofs!ViewCorrect` | `Spec => []SeenIsCurrent` |
| `PlacementResizeProofs!ChangesOneAtATime` | `Spec => OneChangeAtATime` |
| `PlacementResizeProofs!ScaleDownKeepsPlaced` | `Spec => NeverBelowPlacement` |
| `PatientResizeProofs!PlacedPodsAreKept` | `PatientUser`: `Spec => []PlacedPodsKept` |
| `PatientResizeProofs!GroupsAreKept` | `PatientUser`: `Spec => []GroupsKeepAnInstance` |
| `PatientResizeProofs!ResizesImplementService` | `PatientUser`: `Spec => ResizesSafely` |
| `AnnotatedResizeProofs!ResizesComeAnnotated` | `PatientUser`: `Spec => ResizesAreAnnotated` |
| `AnnotatedResizeProofs!AnnotationsLast` | `PatientUser`: `Spec => AnnotatedUntilResized` |
| `StatefulSetRolloutProofs!TypeCorrect` | `Spec => []TypeOK` |
| `StatefulSetRolloutProofs!UpdatesAreAnnotated` | `Spec => OnlyWhenAnnotated` |
| `StatefulSetRolloutProofs!AnnotationsAreNotLost` | `Spec => NoAnnotationLost` |
| `StatefulSetRolloutProofs!RemovedIsProcessed` | `User = "careful"`: `Spec => RemovedMeansProcessed` |
| `StatefulSetRolloutProofs!SetsUpdateOneAtATime` | `User = "careful"`, `~OnDelete`: `Spec => OneSetAtATime` |
| `StatefulSetRolloutProofs!UpdatesImplementService` | `User = "careful"`, `~OnDelete`: `Spec => UpdatesAtOnce` |
| `EtcdDataProofs!TypeCorrect` | `Spec => []TypeOK` |
| `EtcdDataProofs!DataIsProtected` | `Spec => []DataProtected` |
| `EtcdDataProofs!PlacementSafe` | `Spec => PlacementRemovedOnRequest` |
| `EtcdDataProofs!NamespacesSafe` | `Spec => NamespacesRemovedOnRequest` |
| `PodIdentityProofs!TypeCorrect` | `Spec => []TypeOK` |
| `PodIdentityProofs!EventsAreKept` | `Spec => []NoEventLost` |
| `AdminCallsProofs!TypeCorrect` | `Spec => []TypeOK` |
| `AdminCallsProofs!MapsNeverRace` | `Spec => []NoMapRace` |
| `AdminCallsProofs!ClientsAreRight` | `Spec => []RightClient` |
| `AdminCallsProofs!ClustersDoNotConflict` | `Spec => OwnDataOnly` |
| `AdminCallsProofs!CallsImplementService` | `Spec => Implements` |
| `OperatorProcessProofs!TypeCorrect` | `Spec => []TypeOK` |
| `OperatorProcessProofs!KeysAreExclusive` | `Spec => []OneWorkerPerKey` |
| `OperatorProcessProofs!PassesSee` | `Spec => []NeverBlind` |
| `OperatorProcessProofs!ServicesComeFirst` | `Spec => []ObjectsBeforeSets` |
| `OperatorProcessProofs!ConfigsMoveForward` | `Spec => ConfigNeverRollsBack` |

*Placement.* `OneChangeAtATime` and `NeverBelowPlacement` are about a step that acts on a placement fetched earlier, so they need to
know how the two are related. That is `SeenIsCurrent`, which is inductive with `TypeOK`: the fetch goes on only when all instances
are available; then the nodes have nothing to do, and the operator, the only other one to write the placement, has one worker. The
exception is the pair that this pass replaced. `NeverBelowPlacement` adds a count: the replaced pair is one pod, so the
pods in the real placement are no more than the instances of the old one (`FS_Surjection` and `FS_Subset`).

*Resizes with a patient user.* `PlacedPodsKept` relates the size of a set, which one step changes, and the placement, which another
changes, each from counts taken earlier. `ResizeInv` says how old those may be. `SeenInv`: a copy of the cluster is current, or it asks for what is
there already, so that nothing has been done about an edit that was not seen. `SizeInv`: a copy of a set is at most one replica behind, on the way to the
size asked for. `ShapeInv`: a group has every instance that is asked for, or it is growing and every copy shows it so; this is what makes the
loop's comparison of numbers sound. `NewInv`: before there is a placement there are no instances and no edits. `AddInv`: what is about to
be added is a pod the set keeps. For a user who is not patient `ShapeInv` is false, and with it `PlacedPodsKept`: a resize that is taken back leaves a group with a set that shrinks before all the instances that are asked for are there (`resize_scale_safety`).

*Resizes as a service.* `ResizesSafely` has one lemma for each action of `ResizeService` (what the code's step must have done for it to be that action) and one for each action of `PlacementResize` that
changes a size. `ResizeInv` says that the guards hold of what is there and not only of the copies: a patch that moves a set at all starts from the set's real size, a removal that takes anything is from a group with all the pods
asked for, and an addition by a pass that is behind adds nothing new. `TargetInv` is needed besides: what is about to be added belongs to one group, whose set has the size asked for, as the pass saw it. Every other step stutters: replacements because both
instances are of one pod, repeated patches and calls because they find their work done.

*Annotated resizes.* `NoteInv` stands on `ResizeInv`, and on `PairInv`, that of a replaced pair one stays and one leaves. `NotedInv`: whoever still sees an annotation has
seen the edit it belongs to. `DoneInv`: an annotation that is gone from the set and still in a copy is of a set that has its size, so that a pass that goes by it has nothing to
resize. `FinishInv`: when the loop is over, the sets whose annotation is to be removed have their size, instances included. `AddNotedInv`: an
addition that was decided is for a set that is annotated still.

*Etcd data.* `DataProtected` is not inductive, since a pass may be about to write from a stale copy. `Inv` adds five things. `HistoryInv`:
`asked` remembers what every copy asks for. `PassInv`: a pass is on the branch of its copy, and a fresh copy is the cluster. `PurgeInv`: a purge
leaves nothing behind. `ProtectInv`: from the write of the finalizer on the cluster has it, and a copy that shows a living cluster with a
finalizer can be relied on. `DoomInv`: whoever could still purge, cache or pass, either was asked to and the cluster waits, or has nothing to purge and
nobody is creating anything. The last is what excludes that a stale copy of a deleted cluster purges its successor: the cache is synced before a pass
can create, and there is one pass at a time.

*Rollout.* `FreshCopies`, that a copy with the latest resource version is the set itself, is inductive with `TypeOK`: whoever writes a set makes all copies of it stale, and a copy is fresh only when it is taken. `OnlyWhenAnnotated` follows: the operator writes
the template only from a copy with the annotation, and the API accepts it only if the copy is the set. `NoAnnotationLost` follows in the same way for the write that removes an annotation; it needs besides that a set which was annotated exists and is not created again (`ExistInv`), and that
the two other writes of the operator, of the status and of the in-progress annotation, leave update annotations alone.

*Rollout with a careful user.* `KnownInv` is `ExistInv` and `SeenInv`: a current copy of the cluster has the template asked for; the copy of a pass is current only if that of the cache is; when the user is informed, the cache is current and so is the pass, if there is one; and
annotations are pending only when the user is informed. The line that informs them is the last thing a pass does, so that there is no older pass that could still process what they annotate next. From this follows
`RemovedMeansProcessed`. `OneSetAtATime` needs `OrderInv` as well, since the readiness check looks at copies. `StatusInv`: a status that says ready and updated is true. `CacheInv` and `PassInv`: a set that looks ready is
settled, or its copy has lapsed, which is to say that it still shows the annotation of the update that unsettled the set. The pass would come to that set before any
later one, and the API refuses the stale copy; and with the annotations made in order, no earlier one is hidden.

*Updates as a service.* `UpdatesAtOnce` puts these together. The API accepts the operator's write only from a fresh copy, so the write is of the set as it is (`FreshCopies`); the template in it is the one asked for (`KnownInv`); the pass has come past every earlier set,
so this is the first annotated one, and all sets have settled (`OrderInv`). `BlankInv`, that a missing set has no template and no pods, is what creation needs. All that a pass reads, skips or cleans up besides is a stutter.

*Pods.* `NoEventLost` alone is not inductive: a pod could come to equal its old copy in the cache, with no event to tell. `BehindInv` says that the cache is behind and never ahead, and that a UID or
a node, once there, does not go back; `WorkerInv` that the identity in hand is of a pod.

*Calls.* `Inv` has six parts. `LockInv`: the lock is held by those who read or write. `MapInv`: the client under a key is the one the key asks for; the keys are injective in what a client depends on. `WorkerInv`: so is the client
of a worker that is about to publish it, or that has it. `ExclusiveInv`: one worker per cluster, which is the queue's (`OneWorkerPerKey`). `CallInv`: what the status code says about an open call's effect. The
refinement has one lemma per action: `Request` is `Invoke`, `Serve` is `TakeEffect` or nothing, `Answered`, `GiveUp` and the error client's answer are `Answer`, and everything else is a stutter. `CallInv` is what makes the answers truthful: between effect and answer no one else
touches the target, by `ExclusiveInv` and `MapInv`.

*Process.* `WorkerInv`: busy workers run in a process whose caches are listed, each with a key that the queue says is being processed. `EnsuredInv`: at each step of a pass, the objects before it are there or were
removed by somebody. `ConfigInv`: the versions in the config map, in a pass's copy, in the cache and in the cluster are in this order, so a late patch of a stale copy is never older than what is there; it needs
`OneWorkerPerKey`, without which two passes could patch in the wrong order.

The patient and the careful user are assumptions on what users do, not on the code: without them the properties are false, as the violation runs and the known limits
show. They are stated in the theorems and are values of constants in the runs.

Only model-checked: liveness (`Converges`, `BootstrappingEnds`, `AllSetsCreated`, `AnnotationsRemoved`, `RolloutsEnd`, `NamespacesReconciled`, `DeletionEnds`, `PodsIdentified`, `ClustersSettle`), which is out of
TLAPS's reach. Every invariant, every action property and every refinement that a passing run checks has a theorem.

## Known limits of the program seen in the models

These are not runs, but each is a behaviour of a model:

- With UIDs as identities there is a second way to get stuck. When the pod cache is synced between the two listings of a pass, a pod that
  was created again is added as a new instance instead of replacing the old one; after that the replace is refused because the candidate is in
  the placement, and the old instance stays. `resize_liveness` therefore has names as identities.
- The instances whose number is right when an in-progress annotation is removed (`AnnotatedUntilResized`) need not be of the pods with the lowest ordinals: with UIDs as identities and several pod
  failures, two of them can be of one ordinal, and another ordinal has none. The loop counts instances only.
- `PodsBootstrapping` (update_cluster.go:341) is compared in the pass's copy. If that is stale, the write is skipped, and instances are added or replaced while the condition says False. `BootstrappingEnds` says only that it does not stay True.
- A user who is not patient can get a set resized under OnDelete that is not annotated any more (controller.go:686), because the annotation is read from the cache, and can lose the annotation of a resize that has not begun: the pass that
  removes it has not seen the edit. The resize then waits for another annotation. A rollout that changes nothing but the size never gets the in-progress annotation, so under OnDelete the
  size does not change.
- For a user who is not careful, an annotation can be removed without the template applied (controller.go:1347), and two sets may roll at
  once (controller.go:526), because the cluster's and the sets' caches are of different moments, or because the pass copied the cluster (controller.go:346) before the edit and listed the sets (controller.go:431) after the annotation. The comment at
  updatedStatefulSet promises more to somebody who waits for the annotation to go away. `status.observedGeneration` (cluster.go:81), which would tell them when to annotate, is never set; the log is all there is.
- Under OnDelete a second rollout can be cut short: pods that the first one deleted and that are missing from the pod cache are not listed among those to restart (controller.go:990), so the rollout is taken to be over (controller.go:928) while they come back with the earlier template.
  It takes a second edit and annotation before the pod cache has seen the pods of the first.
- A resize is not bounded by the size of the set: what `expandPlacementForSet` adds are all pods that the cache lists (update_cluster.go:534). With a patient user these are pods that the set keeps.
- A namespace that a user takes out of the spec and puts back can be pruned by a pass whose copy is from in between (update_cluster.go:159). A later pass creates it again.
- Under OnDelete a batch can be restarted before the last one is back (controller.go:594, 911): the status in the cache may be from before.
- If keepEtcdDataOnDelete is turned off and the cluster deleted before a pass adds the finalizer (controller.go:401), its data stays in etcd. `DataProtected`
  says "was ever set" for that reason.
- The pod patch (controller.go:1243) goes by name, so that a pod may get the UID of its predecessor. With a stale pod cache and an edited `podIdentityConfig`, an annotation can be overwritten by another.
- The instance ID in the placement is computed from the pod and the spec (placement.go:54), not read from the annotation (a TODO at controller.go:1223). After an edit of `podIdentityConfig` the two differ for pods that were annotated before.
- A `podIdentityConfig` with no sources is the name alone (provider.go:81), not the UID.
- When an isolation group is removed from the spec, its StatefulSet is still listed, and every pass ends with an error at it (controller.go:677). Nothing after it is done until somebody deletes the set.
- Changed labels of a StatefulSet are never applied: `updatedStatefulSet` (controller.go:1339) notices that they differ, and then keeps the old metadata, labels included (controller.go:1355).
- A frozen cluster is returned from before its deletion is looked at (controller.go:336), so it hangs in deletion until it is thawed.
- Errors do not put a key back on the queue (controller.go:297, 1136). The next event or resync does. The rate limiter counts every event and is reset only by success.
- Config map and services of any owner are accepted (services.go:77, add_cluster.go:135). A cluster that is created again soon uses the objects of its predecessor until they are collected, and makes its own afterwards. When `EnsureService`
  loses a race to create, it looks at the error of the earlier read, not of the creation, and fails.
- The node informer, which pod identity uses, is not among those waited for (controller.go:244).
- There is no leader election (main.go:256). Two processes at once, an old one and its successor, would have two passes over a cluster. Whole-object updates are protected by resource versions; patches and coordinator calls are not.
- A request that was given up on is taken to be lost for good (client.go:153). If it were served later, nothing in it would let the coordinator refuse it.
- A create whose answer is lost is repeated, answered with a conflict, and reported as failed, though done. Callers find out with the next pass.
- `main` starts one worker per loop; the models allow several, which the queue keeps apart. The process ends without waiting for them, so an exit is a crash.

## Not modelled

- *Data nothing branches on*: the contents of templates, config maps and services, JSON and YAML encoding, log lines, metrics, events.
- *Code without control of its own*: the generated client, listers and deep copies; the health client, which the operator does not call; controller options, where a missing one is a fatal error at start.
- *Not part of the operator*: the documentation generator and the integration harness.
- *Left out of a model*: a change of the update strategy of a running set and the removal of an isolation group in `PlacementResize`; the order and delays of the work queue; a second process; requests served after the client gave up. Some returns with an error before anything is changed: a set with no pods listed (update_cluster.go:763) in `PlacementResize`, a pod whose cluster or node is not in the cache (controller.go:1193, provider.go:138) in
  `PodIdentity`, isolation groups that do not validate in `EtcdData` (they are in `OperatorProcess`).
- *Not composed*: `StatefulSetRollout`, `PlacementResize` and `EtcdData` are one pass in the code and three modules here. Each takes the others' part as steps of its environment (`RestOfPass`, `ApplyStatefulSetUpdate`, a placement that
  is there or not), since the product of their caches is out of TLC's reach.

`PROJECT.json` lists each part with its status.
