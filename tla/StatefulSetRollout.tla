------------------------- MODULE StatefulSetRollout -------------------------
(***************************************************************************)
(* The first half of a pass of handleClusterUpdate                         *)
(* (pkg/controller/controller.go): create the StatefulSets that are        *)
(* missing, wait until all are up to date and ready, then update, one at a *)
(* time, those the user has annotated.  Under the OnDelete strategy the    *)
(* operator also restarts the pods, some at a time, and cleans up when the *)
(* rollout is over.  The number of replicas is fixed here; what the pass   *)
(* does with the placement afterwards is in PlacementResize.               *)
(*                                                                         *)
(* StatefulSets are known by the index in their name.  The pod template    *)
(* of the cluster, and of a set, is a revision number.  A definition named *)
(* X_Wrong... is X with a bug that the code could have had.                *)
(***************************************************************************)
EXTENDS Integers, FiniteSets

CONSTANTS
  NumSets,        \* the number of isolation groups
  SpecIndex,      \* where the spec lists the group that is i-th by name
  Replicas,       \* pods per StatefulSet
  OnDelete,       \* the update strategy: OnDelete or RollingUpdate
  MaxTemplate,    \* bound: the templates a user may ask for
  ParallelValues, \* the values users give to the parallel-update annotation
  Created,        \* start with a running cluster, or before there is any set
  User,           \* "hasty", "orderly" or "careful", see below
  MaxEdits,       \* bound: edits of the cluster or of annotations
  MaxCallErrors   \* bound: calls that fail, crashes

ASSUME RolloutAssumption ==
  /\ NumSets \in Nat \ {0} /\ Replicas \in Nat \ {0} /\ MaxTemplate \in Nat \ {0}
  /\ SpecIndex \in [1..NumSets -> 1..NumSets]
  /\ OnDelete \in BOOLEAN /\ Created \in BOOLEAN
  /\ ParallelValues \subseteq Nat
  /\ User \in {"hasty", "orderly", "careful"}
  /\ MaxEdits \in Nat /\ MaxCallErrors \in Nat

Indices == 1..NumSets
Ordinals == 0..(Replicas - 1)
Templates == 1..MaxTemplate
NoRevision == 0
Revisions == Templates \cup {NoRevision}
NoValue == -1
Values == {NoValue, 1} \cup ParallelValues

(***************************************************************************)
(* A StatefulSet: its template; the update, parallel-update and            *)
(* parallel-update-in-progress annotations; observed, which stands for     *)
(* generation = observedGeneration; and its status.                        *)
(***************************************************************************)
Sets == [Indices -> [exists : BOOLEAN, template : Revisions, update : BOOLEAN,
                     parallel : Values, inProgress : Values, observed : BOOLEAN,
                     currentRevision : Revisions, updateRevision : Revisions,
                     ready : 0..Replicas, updated : 0..Replicas]]
NoSet == [exists |-> FALSE, template |-> NoRevision, update |-> FALSE,
          parallel |-> NoValue, inProgress |-> NoValue, observed |-> FALSE,
          currentRevision |-> NoRevision, updateRevision |-> NoRevision,
          ready |-> 0, updated |-> 0]
NoSets == [i \in Indices |-> NoSet]

PodLists == [Indices -> [Ordinals -> [rev : Revisions, ready : BOOLEAN]]]
NoPod == [rev |-> NoRevision, ready |-> FALSE]

(***************************************************************************)
(* current: the copy of the cluster has the generation the API has.        *)
(* fresh: the sets whose copy has the resource version the API has.        *)
(***************************************************************************)
Caches == [template : Templates, current : BOOLEAN, sets : Sets,
           fresh : SUBSET Indices, pods : PodLists]
Passes == [pc : {"idle", "begun", "loop", "deleting", "cleanup"},
           template : Revisions, current : BOOLEAN, sets : Sets,
           fresh : SUBSET Indices, at : 1..(NumSets + 1), deleting : SUBSET Ordinals]
NoPass == [pc |-> "idle", template |-> NoRevision, current |-> FALSE, sets |-> NoSets,
           fresh |-> {}, at |-> 1, deleting |-> {}]

VARIABLES
  template,  \* what the cluster's spec asks for
  informed,  \* whether the user knows the operator has the last edit
  sets,      \* the StatefulSets
  pods,      \* their pods
  cache,     \* the operator's informer caches
  pass,      \* the local variables of a pass
  budget     \* what users and the network may still do

vars == <<template, informed, sets, pods, cache, pass, budget>>

TypeOK ==
  /\ template \in Templates
  /\ informed \in BOOLEAN
  /\ sets \in Sets
  /\ pods \in PodLists
  /\ cache \in Caches
  /\ pass \in Passes
  /\ budget \in [edits : Nat, calls : Nat]

-----------------------------------------------------------------------------
At(step) == pass.pc = step
Return == pass' = NoPass

(***************************************************************************)
(* A set was written: no copy has its resource version any more.           *)
(***************************************************************************)
Stale(i) == cache' = [cache EXCEPT !.fresh = @ \ {i}]

(***************************************************************************)
(* A pass copies the cluster from its cache when it begins.                *)
(***************************************************************************)
StartPass ==
  /\ At("idle")
  /\ pass' = [NoPass EXCEPT !.pc = "begun", !.template = cache.template,
                            !.current = cache.current]
  /\ UNCHANGED <<template, informed, sets, pods, cache, budget>>

(***************************************************************************)
(* After the calls for the finalizer, the config map and the services (see *)
(* EtcdData and OperatorProcess) it lists the sets.  One that is missing,  *)
(* found by the index of its group in order of name, is created under the  *)
(* index of its group in the spec (GenerateStatefulSet).  The pass ends,   *)
(* whether it was created or exists already.                               *)
(***************************************************************************)
GeneratedIndex_WrongFirst(i) == SpecIndex[1]
GeneratedIndex(i) == SpecIndex[i]

CreateStatefulSet(i) ==
  /\ At("begun")
  /\ ~cache.sets[i].exists
  /\ \A j \in 1..(i - 1) : cache.sets[j].exists
  /\ LET k == GeneratedIndex(i)
     IN  \/ /\ ~sets[k].exists
            /\ sets' = [sets EXCEPT ![k] = [NoSet EXCEPT !.exists = TRUE,
                                                         !.template = pass.template]]
            /\ Stale(k)
         \/ sets[k].exists /\ UNCHANGED <<sets, cache>>
  /\ Return
  /\ UNCHANGED <<template, informed, pods, budget>>

(***************************************************************************)
(* No set is missing: the pass goes on if all are up to date and ready.    *)
(***************************************************************************)
Ready_WrongUpdatedIgnored(s) == s.observed /\ s.ready = Replicas

Ready(s) ==
  /\ s.observed
  /\ s.ready = Replicas
  /\ ~OnDelete /\ s.updateRevision # NoRevision => s.updated = Replicas

CheckStatefulSets ==
  /\ At("begun")
  /\ \A i \in Indices : cache.sets[i].exists
  /\ IF \A i \in Indices : Ready(cache.sets[i])
     THEN pass' = [pass EXCEPT !.pc = "loop", !.at = 1, !.sets = cache.sets,
                               !.fresh = cache.fresh]
     ELSE Return
  /\ UNCHANGED <<template, informed, sets, pods, cache, budget>>

-----------------------------------------------------------------------------
(***************************************************************************)
(* updatedStatefulSet and copyAnnotations.  Without a change to make, the  *)
(* annotations are removed all the same.  With one, they become the        *)
(* in-progress annotation; Go's map order decides when there are two.      *)
(***************************************************************************)
Annotated(s) == s.update \/ s.parallel # NoValue
Invalid(s) == ~s.update /\ s.parallel < 1

InProgressValues_WrongUnparsed(s) == {IF s.parallel = NoValue THEN 0 ELSE s.parallel}
InProgressValues_WrongUpdateIgnored(s) == {IF s.parallel = NoValue THEN s.inProgress ELSE s.parallel}

InProgressValues(s) ==
  LET new == {v \in {1} : s.update /\ OnDelete} \cup ({s.parallel} \ {NoValue})
  IN  IF new = {} THEN {s.inProgress} ELSE new

UpdatedStatefulSets_WrongNotApplied(s, t) ==
  {[s EXCEPT !.update = FALSE, !.parallel = NoValue]}
UpdatedStatefulSets_WrongUnchangedKept(s, t) ==
  IF s.template = t THEN {s}
  ELSE {[s EXCEPT !.update = FALSE, !.parallel = NoValue, !.template = t, !.inProgress = v,
                  !.observed = FALSE] : v \in InProgressValues(s)}

UpdatedStatefulSets(s, t) ==
  LET cleared == [s EXCEPT !.update = FALSE, !.parallel = NoValue]
  IN  IF s.template = t
      THEN {cleared}
      ELSE {[cleared EXCEPT !.template = t, !.inProgress = v, !.observed = FALSE] :
              v \in InProgressValues(s)}

Here == pass.sets[pass.at]
InLoop == At("loop") /\ pass.at <= NumSets

(***************************************************************************)
(* applyStatefulSetUpdate replaces the whole object; the API refuses it    *)
(* when the copy is not of the latest version.  The pass ends either way.  *)
(***************************************************************************)
CanWrite_WrongUnchecked(i) == TRUE
CanWrite(i) == i \in pass.fresh

ApplyStatefulSetUpdate ==
  /\ InLoop
  /\ Annotated(Here)
  /\ \/ /\ ~Invalid(Here)
        /\ CanWrite(pass.at)
        /\ \E s \in UpdatedStatefulSets(Here, pass.template) : sets' = [sets EXCEPT ![pass.at] = s]
        /\ Stale(pass.at)
     \/ /\ Invalid(Here) \/ ~CanWrite(pass.at)
        /\ UNCHANGED <<sets, cache>>
  /\ Return
  /\ UNCHANGED <<template, informed, pods, budget>>

SkipStatefulSet ==
  /\ InLoop
  /\ ~Annotated(Here)
  /\ ~OnDelete \/ Here.inProgress = NoValue
  /\ pass' = [pass EXCEPT !.at = @ + 1]
  /\ UNCHANGED <<template, informed, sets, pods, cache, budget>>

(***************************************************************************)
(* updateStatefulSetPods: the first pods, by ordinal, that the pod cache   *)
(* lists on another revision than the update revision.                     *)
(***************************************************************************)
Rolling == InLoop /\ ~Annotated(Here) /\ OnDelete /\ Here.inProgress # NoValue

Outdated == IF Here.currentRevision = Here.updateRevision THEN {}
            ELSE {o \in Ordinals : cache.pods[pass.at][o].rev \notin {NoRevision, Here.updateRevision}}
PodsToUpdate == {o \in Outdated : Cardinality({p \in Outdated : p < o}) < Here.inProgress}

RolloutRefused ==
  /\ Rolling
  /\ \/ Here.inProgress = 0
     \/ NoRevision \in {Here.currentRevision, Here.updateRevision}
  /\ Return
  /\ UNCHANGED <<template, informed, sets, pods, cache, budget>>

RestartPods ==
  /\ Rolling
  /\ Here.inProgress > 0 /\ PodsToUpdate # {}
  /\ pass' = [pass EXCEPT !.pc = "deleting", !.deleting = PodsToUpdate]
  /\ UNCHANGED <<template, informed, sets, pods, cache, budget>>

(***************************************************************************)
(* Pods are deleted by name, one call each; one that is gone is passed     *)
(* over.  The pass ends after the last.                                    *)
(***************************************************************************)
DeletePodToUpdate ==
  /\ At("deleting")
  /\ \E o \in pass.deleting :
       /\ \A p \in pass.deleting : o <= p
       /\ pods' = [pods EXCEPT ![pass.at][o] = NoPod]
       /\ IF pass.deleting = {o} THEN Return
          ELSE pass' = [pass EXCEPT !.deleting = @ \ {o}]
  /\ UNCHANGED <<template, informed, sets, cache, budget>>

(***************************************************************************)
(* With no pod left to restart, the status is completed.                   *)
(***************************************************************************)
CompleteRollout ==
  /\ Rolling
  /\ Here.inProgress > 0 /\ PodsToUpdate = {}
  /\ NoRevision \notin {Here.currentRevision, Here.updateRevision}
  /\ \/ /\ CanWrite(pass.at)
        /\ sets' = [sets EXCEPT ![pass.at].currentRevision = Here.updateRevision]
        /\ Stale(pass.at)
        /\ pass' = [pass EXCEPT !.at = @ + 1, !.fresh = @ \ {pass.at}]
     \/ ~CanWrite(pass.at) /\ UNCHANGED <<sets, cache>> /\ Return
  /\ UNCHANGED <<template, informed, pods, budget>>

(***************************************************************************)
(* The placement's part of the pass, which may end it; then the sets are   *)
(* those listed again in that part, and the in-progress annotation of each *)
(* is removed with a patch, which has no resource version.  At the end the *)
(* pass logs "nothing to do" with the generation of its copy, which tells  *)
(* a user who reads the log which edit the operator has seen.              *)
(***************************************************************************)
RestOfPass ==
  /\ At("loop") /\ pass.at = NumSets + 1
  /\ \/ Return
     \/ pass' = [pass EXCEPT !.pc = "cleanup", !.sets = cache.sets, !.fresh = {}]
  /\ UNCHANGED <<template, informed, sets, pods, cache, budget>>

InProgress == {i \in Indices : pass.sets[i].inProgress # NoValue}

CleanupAnnotations ==
  /\ At("cleanup")
  /\ \/ \E i \in InProgress :
          /\ sets' = [sets EXCEPT ![i].inProgress = NoValue]
          /\ Stale(i)
          /\ pass' = [pass EXCEPT !.sets[i].inProgress = NoValue]
          /\ UNCHANGED informed
     \/ /\ InProgress = {}
        /\ informed' = (User = "careful" /\ (informed \/ pass.current))
        /\ Return
        /\ UNCHANGED <<sets, cache>>
  /\ UNCHANGED <<template, pods, budget>>

PassAborts ==
  /\ ~At("idle")
  /\ budget.calls > 0
  /\ budget' = [budget EXCEPT !.calls = @ - 1]
  /\ Return
  /\ \/ UNCHANGED cache
     \/ cache' = [template |-> template, current |-> TRUE, sets |-> sets,
                  fresh |-> Indices, pods |-> pods]
  /\ UNCHANGED <<template, informed, sets, pods>>

Pass ==
  \/ StartPass \/ (\E i \in Indices : CreateStatefulSet(i)) \/ CheckStatefulSets
  \/ ApplyStatefulSetUpdate \/ SkipStatefulSet
  \/ RolloutRefused \/ RestartPods \/ DeletePodToUpdate \/ CompleteRollout
  \/ RestOfPass \/ CleanupAnnotations

-----------------------------------------------------------------------------
(***************************************************************************)
(* The informers, one watch for each kind of object.  The pass reads the   *)
(* pods only under OnDelete.                                               *)
(***************************************************************************)
SyncCluster ==
  /\ ~cache.current
  /\ cache' = [cache EXCEPT !.template = template, !.current = TRUE]
  /\ UNCHANGED <<template, informed, sets, pods, pass, budget>>

SyncSets ==
  /\ cache.fresh # Indices
  /\ cache' = [cache EXCEPT !.sets = sets, !.fresh = Indices]
  /\ UNCHANGED <<template, informed, sets, pods, pass, budget>>

SyncPods ==
  /\ OnDelete
  /\ cache.pods # pods
  /\ cache' = [cache EXCEPT !.pods = pods]
  /\ UNCHANGED <<template, informed, sets, pods, pass, budget>>

(***************************************************************************)
(* The StatefulSet controller.  Under RollingUpdate it restarts one pod at *)
(* a time itself, from the highest ordinal down, and completes the status. *)
(***************************************************************************)
SetWritten(i) == Stale(i) /\ pass' = [pass EXCEPT !.fresh = @ \ {i}]

UpdateSetStatus(i) ==
  LET ready == Cardinality({o \in Ordinals : pods[i][o].ready})
      updated == Cardinality({o \in Ordinals : pods[i][o].rev = sets[i].template})
      done == ~OnDelete /\ ready = Replicas /\ updated = Replicas
      current == IF sets[i].currentRevision = NoRevision \/ done
                 THEN sets[i].template ELSE sets[i].currentRevision
  IN  /\ sets[i].exists
      /\ sets' = [sets EXCEPT ![i] =
                    [@ EXCEPT !.observed = TRUE, !.ready = ready, !.updated = updated,
                              !.updateRevision = sets[i].template,
                              !.currentRevision = current]]
      /\ sets' # sets
      /\ SetWritten(i)
      /\ UNCHANGED <<template, informed, pods, budget>>

CreatePod(i, o) ==
  /\ sets[i].updateRevision # NoRevision
  /\ pods[i][o] = NoPod
  /\ pods' = [pods EXCEPT ![i][o].rev = sets[i].updateRevision]
  /\ UNCHANGED <<template, informed, sets, cache, pass, budget>>

BecomeReady(i, o) ==
  /\ pods[i][o].rev # NoRevision /\ ~pods[i][o].ready
  /\ pods' = [pods EXCEPT ![i][o].ready = TRUE]
  /\ UNCHANGED <<template, informed, sets, cache, pass, budget>>

RollPod(i, o) ==
  /\ ~OnDelete
  /\ sets[i].observed
  /\ \A p \in Ordinals : /\ pods[i][p].ready
                         /\ p > o => pods[i][p].rev = sets[i].template
  /\ pods[i][o].rev # sets[i].template
  /\ pods' = [pods EXCEPT ![i][o] = NoPod]
  /\ UNCHANGED <<template, informed, sets, cache, pass, budget>>

StatefulSetController ==
  \E i \in Indices :
    \/ UpdateSetStatus(i)
    \/ \E o \in Ordinals : CreatePod(i, o) \/ BecomeReady(i, o) \/ RollPod(i, o)

(***************************************************************************)
(* Users edit the cluster, which gives it a new generation, and annotate   *)
(* StatefulSets.  An orderly user does not edit the cluster while an       *)
(* annotation is pending.  A careful one also waits, after an edit, for    *)
(* the log line with the new generation before they annotate (no field of  *)
(* the status tells: nothing sets observedGeneration), and annotates sets  *)
(* in the order of their names.                                            *)
(***************************************************************************)
Edit == budget.edits > 0 /\ budget' = [budget EXCEPT !.edits = @ - 1]

ChangeTemplate(t) ==
  /\ Edit
  /\ User # "hasty" => \A i \in Indices : ~Annotated(sets[i])
  /\ t # template
  /\ template' = t
  /\ informed' = FALSE
  /\ cache' = [cache EXCEPT !.current = FALSE]
  /\ pass' = [pass EXCEPT !.current = FALSE]
  /\ UNCHANGED <<sets, pods>>

Annotate(i, v) ==
  /\ Edit
  /\ User = "careful" => /\ informed
                         /\ \A j \in Indices : j > i => ~Annotated(sets[j])
  /\ sets[i].exists
  /\ sets' = [sets EXCEPT ![i] = IF v = NoValue THEN [@ EXCEPT !.update = TRUE]
                                 ELSE [@ EXCEPT !.parallel = v]]
  /\ sets' # sets
  /\ SetWritten(i)
  /\ UNCHANGED <<template, informed, pods>>

Users == \/ \E t \in Templates : ChangeTemplate(t)
         \/ \E i \in Indices, v \in {NoValue} \cup ParallelValues : Annotate(i, v)

Environment == SyncCluster \/ SyncSets \/ SyncPods \/ StatefulSetController \/ Users \/ PassAborts

(***************************************************************************)
(* Nothing has been created yet, or the first creation is over.            *)
(***************************************************************************)
RunningSet == [NoSet EXCEPT !.exists = TRUE, !.template = 1, !.observed = TRUE,
                            !.currentRevision = 1, !.updateRevision = 1,
                            !.ready = Replicas, !.updated = Replicas]

Init ==
  /\ template = 1
  /\ informed = FALSE
  /\ sets = [i \in Indices |-> IF Created THEN RunningSet ELSE NoSet]
  /\ pods = [i \in Indices |-> [o \in Ordinals |->
               IF Created THEN [rev |-> 1, ready |-> TRUE] ELSE NoPod]]
  /\ cache = [template |-> 1, current |-> TRUE, sets |-> sets, fresh |-> Indices,
              pods |-> pods]
  /\ pass = NoPass
  /\ budget = [edits |-> MaxEdits, calls |-> MaxCallErrors]

Next == Pass \/ Environment

Spec == Init /\ [][Next]_vars

(***************************************************************************)
(* Passes go on, watches deliver, and the StatefulSet controller and the   *)
(* pods do their work.  Users owe nothing.                                 *)
(***************************************************************************)
Fairness ==
  /\ WF_vars(Pass)
  /\ WF_vars(SyncCluster) /\ WF_vars(SyncSets) /\ WF_vars(SyncPods)
  /\ WF_vars(StatefulSetController)

FairSpec == Spec /\ Fairness

-----------------------------------------------------------------------------
(***************************************************************************)
(* Properties.                                                             *)
(***************************************************************************)
Settled(i) == \A o \in Ordinals : pods[i][o] = [rev |-> sets[i].template, ready |-> TRUE]
TemplateApplied(i) == sets[i].exists /\ sets'[i].template # sets[i].template

(***************************************************************************)
(* "The operator will only perform an update if the current StatefulSet    *)
(* has been annotated" (updatedStatefulSet): the set itself, at the moment *)
(* of the write, and not just a cached copy of it.  One annotation pays    *)
(* for one update, however stale the cache is.                             *)
(***************************************************************************)
OnlyWhenAnnotated ==
  [][\A i \in Indices : TemplateApplied(i) => Annotated(sets[i])]_vars

(***************************************************************************)
(* "Ensure we keep old object meta so that resource version info can be    *)
(* used by K8s API for conflict resolution" (updatedStatefulSet): an       *)
(* annotation goes away only when a pass that has read it, as it is,       *)
(* processes its set.  One that a user adds or changes while a pass is     *)
(* under way is not overwritten with the pass's copy of the set.           *)
(***************************************************************************)
NoAnnotationLost ==
  [][\A i \in Indices : Annotated(sets[i]) /\ ~Annotated(sets'[i]) =>
       /\ InLoop /\ pass.at = i
       /\ Here.update = sets[i].update /\ Here.parallel = sets[i].parallel]_vars

(***************************************************************************)
(* A StatefulSet is given a new template only when every pod of every      *)
(* other set runs its set's template and is ready: the readiness check of  *)
(* the pass is there to "avoid the race condition of proceeding to another *)
(* update before a stateful set has had a chance to update the pods"       *)
(* (controller.go).                                                        *)
(***************************************************************************)
OneSetAtATime ==
  [][\A i \in Indices : TemplateApplied(i) => \A j \in Indices \ {i} : Settled(j)]_vars

(***************************************************************************)
(* "Users can always set an update annotation and then wait for it to be   *)
(* removed to know if the operator has processed a StatefulSet"            *)
(* (updatedStatefulSet): once it is gone, the set has the template that    *)
(* the cluster asks for.                                                   *)
(***************************************************************************)
RemovedMeansProcessed ==
  [][\A i \in Indices : Annotated(sets[i]) /\ ~Annotated(sets'[i]) =>
       sets'[i].template = template]_vars

(***************************************************************************)
(* The same, and that an annotation comes before an update and that sets   *)
(* are updated in order and one at a time, as one specification: to a      *)
(* careful user an update is a single step, in which the set as it is gets *)
(* the template as it is and loses the annotation, though the operator     *)
(* works on copies of both.                                                *)
(***************************************************************************)
Updating == INSTANCE RolloutService
              WITH wanted <- template,
                   applied <- [i \in Indices |-> sets[i].template],
                   pending <- {i \in Indices : Annotated(sets[i])},
                   settled <- {i \in Indices : Settled(i)}

UpdatesAtOnce == Updating!Spec

(***************************************************************************)
(* Some set has a value that updatedStatefulSet or updateStatefulSetPods   *)
(* refuses: every pass ends at it with an error, and later sets wait.      *)
(***************************************************************************)
Refused == \E i \in Indices : \/ Annotated(sets[i]) /\ Invalid(sets[i])
                              \/ OnDelete /\ sets[i].inProgress = 0

(***************************************************************************)
(* The same comment, the other half: the annotation is removed, unless one *)
(* is refused.                                                             *)
(***************************************************************************)
AnnotationsRemoved ==
  \A i \in Indices : Annotated(sets[i]) ~> ~Annotated(sets[i]) \/ Refused

(***************************************************************************)
(* "If there are no pods to update, we're fully rolled out"                *)
(* (updateStatefulSetPods): in the end all pods run their set's template,  *)
(* unless an annotation is refused.                                        *)
(***************************************************************************)
RolloutsEnd == <>[](Refused \/ \A i \in Indices : Settled(i))

(***************************************************************************)
(* A StatefulSet that already exists is "not indicative of a real problem" *)
(* (the creation loop): in the end there is one for every group.           *)
(***************************************************************************)
AllSetsCreated == <>(\A i \in Indices : sets[i].exists)

=============================================================================
