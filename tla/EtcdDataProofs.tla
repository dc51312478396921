--------------------------- MODULE EtcdDataProofs ---------------------------
(***************************************************************************)
(* What EtcdData promises, for any set of namespaces, any coordinator and  *)
(* any number of edits and failures.                                       *)
(***************************************************************************)
EXTENDS EtcdData, TLAPS

LiveSteps == {"protect", "place", "placed", "list", "prune", "create", "ready"}
MakingSteps == LiveSteps \ {"protect"}
PurgeSteps == {"purge", "purging", "unplace"}
DeletionSteps == PurgeSteps \cup {"release"}

Protected == cluster.exists /\ cluster.finalizer

(***************************************************************************)
(* History remembers what each copy of the cluster asks for.               *)
(***************************************************************************)
Remembered(c) == /\ c.keep => asked.keep
                 /\ Namespaces \ c.namespaces \subseteq asked.removed

HistoryInv ==
  /\ Remembered(cluster) /\ Remembered(cache.cluster)
  /\ ~At("idle") => Remembered(pass.cluster)
  /\ cluster.deleting /\ ~cluster.keep /\ cluster.exists => asked.delete

(***************************************************************************)
(* What a pass knows: its branch is that of its copy, and a copy of the    *)
(* latest version is the cluster.  A pass that deletes has not written     *)
(* anything, so then the cache is of that version too.                     *)
(***************************************************************************)
PassInv ==
  /\ cache.fresh => cache.cluster = cluster
  /\ ~At("idle") =>
       /\ pass.cluster.exists
       /\ pass.cluster.deleting <=> pass.pc \in DeletionSteps
       /\ pass.cluster.deleting => pass.cluster.finalizer
       /\ pass.pc \in PurgeSteps => ~pass.cluster.keep
       /\ pass.fresh => cluster = pass.cluster
       /\ pass.fresh /\ pass.cluster.deleting => cache.cluster = cluster
  /\ At("prune") => pass.todo \cap pass.cluster.namespaces = {}

(***************************************************************************)
(* A purge leaves nothing behind.                                          *)
(***************************************************************************)
PurgeInv ==
  /\ At("purging") => Present(registry) \subseteq pass.todo
  /\ At("unplace") => Present(registry) = {}
  /\ At("release") /\ ~pass.cluster.keep => ~HasData

(***************************************************************************)
(* The cluster is protected from the finalizer's write on, and a copy that *)
(* shows the finalizer on a living cluster can be relied on.               *)
(***************************************************************************)
Living(c) == c.exists /\ ~c.deleting /\ c.finalizer

ProtectInv ==
  ~asked.keep =>
    /\ HasData => Protected
    /\ Living(cache.cluster) => Protected
    /\ pass.pc \in MakingSteps => Protected
    /\ At("protect") /\ pass.cluster.finalizer => Protected

(***************************************************************************)
(* Where there is still someone to purge - the cache, or a pass - either   *)
(* the purge was asked for and the cluster waits for it, or it has nothing *)
(* to purge and nobody is making anything.                                 *)
(***************************************************************************)
Doomed(c) == c.exists /\ c.deleting /\ c.finalizer /\ ~c.keep

DoomInv ==
  Doomed(cache.cluster) \/ pass.pc \in PurgeSteps =>
    \/ Protected /\ asked.delete
    \/ ~HasData /\ pass.pc \notin LiveSteps

Inv == HistoryInv /\ PassInv /\ PurgeInv /\ ProtectInv /\ DoomInv

-----------------------------------------------------------------------------
(***************************************************************************)
(* Type correctness.                                                       *)
(***************************************************************************)

(***************************************************************************)
(* A new cluster, and the state between passes, have their types.          *)
(***************************************************************************)
LEMMA NewClusterType ==
  ASSUME NEW keep \in BOOLEAN, NEW external \in BOOLEAN, NEW S \in SUBSET Namespaces
  PROVE  NewCluster(keep, external, S) \in Clusters
BY DEF NewCluster, Clusters

(***************************************************************************)
(* What is left after a pass returns has its type.                         *)
(***************************************************************************)
LEMMA NoPassType == NoPass \in Passes
<1>1. NewCluster(FALSE, FALSE, {}) \in Clusters
  BY ZenonT(60), NewClusterType
<1>2. [ns \in Namespaces |-> "absent"] \in Registries
  BY ZenonT(60) DEF Registries
<1> QED
  BY ZenonT(60), <1>1, <1>2 DEF NoPass, Passes, Steps

(***************************************************************************)
(* A step that moves the pass on keeps its type.                           *)
(***************************************************************************)
LEMMA MoveType ==
  ASSUME TypeOK, NEW step \in Steps
  PROVE  /\ [pass EXCEPT !.pc = step] \in Passes
         /\ \A todo \in SUBSET Namespaces : [pass EXCEPT !.pc = step, !.todo = todo] \in Passes
BY ZenonT(60) DEF TypeOK, Passes

(***************************************************************************)
(* A write of a well-typed copy of the cluster, accepted or refused.       *)
(***************************************************************************)
LEMMA WriteType ==
  ASSUME TypeOK, NEW c \in Clusters, NEW step \in Steps, Write(c, step)
  PROVE  cluster' \in Clusters /\ pass' \in Passes /\ cache' \in [cluster : Clusters, fresh : BOOLEAN]
<1>1. CASE ~pass.fresh
  BY <1>1, NoPassType DEF Write, Return, TypeOK
<1>2. CASE pass.fresh
  <2>1. [c EXCEPT !.exists = ~c.deleting \/ c.finalizer] \in Clusters
    BY ZenonT(60) DEF Clusters
  <2>2. [pass EXCEPT !.pc = step, !.cluster = c] \in Passes
    BY ZenonT(60) DEF TypeOK, Passes
  <2>3. [cache EXCEPT !.fresh = FALSE] \in [cluster : Clusters, fresh : BOOLEAN]
    BY ZenonT(60) DEF TypeOK
  <2> QED
    BY ZenonT(60), <1>2, <2>1, <2>2, <2>3, NoPassType DEF Write, Return
<1> QED
  BY <1>1, <1>2

(***************************************************************************)
(* What users ask for has its type.                                        *)
(***************************************************************************)
LEMMA AskType ==
  ASSUME TypeOK, NEW c \in Clusters, Ask(c)
  PROVE  TypeOK'
<1>1. pass' \in Passes
  BY ZenonT(60) DEF Ask, TypeOK, Passes
<1>2. asked' \in [keep : BOOLEAN, delete : BOOLEAN, removed : SUBSET Namespaces]
  <2>1. cluster.exists \in BOOLEAN /\ c.keep \in BOOLEAN /\ c.deleting \in BOOLEAN
    BY DEF TypeOK, Clusters
  <2> QED
    BY <2>1 DEF Ask, TypeOK
<1>3. budget' \in [edits : Nat, calls : Nat]
  BY DEF Ask, TypeOK
<1> QED
  BY ZenonT(60), <1>1, <1>2, <1>3 DEF Ask, TypeOK, etcd

(***************************************************************************)
(* Every step of handleClusterUpdate keeps the types.                      *)
(***************************************************************************)
LEMMA PassType ==
  ASSUME TypeOK, Pass
  PROVE  TypeOK'
<1>c. /\ pass.cluster \in Clusters /\ pass.todo \in SUBSET Namespaces
      /\ InSpec \in SUBSET Namespaces
  <2>1. pass.cluster \in Clusters /\ pass.todo \in SUBSET Namespaces
    BY DEF TypeOK, Passes
  <2> QED
    BY <2>1 DEF InSpec, Clusters
<1>1. CASE StartPass
  <2>1. FirstStep(cache.cluster) \in Steps
    BY DEF FirstStep, Steps
  <2>2. pass' \in Passes
    BY ZenonT(60), <1>1, <2>1 DEF StartPass, TypeOK, Passes
  <2> QED
    BY <1>1, <2>2 DEF StartPass, TypeOK, etcd
<1>2. CASE EnsureEtcdFinalizer
  <2>1. [pass.cluster EXCEPT !.finalizer = TRUE] \in Clusters
    BY ZenonT(60), <1>c DEF Clusters
  <2>2. "place" \in Steps
    BY DEF Steps
  <2> QED
    BY ZenonT(60), <1>2, <2>1, <2>2, WriteType, MoveType DEF EnsureEtcdFinalizer, Goto, TypeOK, etcd
<1>3. CASE ValidatePlacementWithStatus
  <2>1. "list" \in Steps /\ "placed" \in Steps
    BY DEF Steps
  <2> QED
    BY ZenonT(60), <1>3, <2>1, MoveType DEF ValidatePlacementWithStatus, Goto, TypeOK
<1>4. CASE SetStatusPlacementCreated
  <2>1. [pass.cluster EXCEPT !.placed = TRUE] \in Clusters
    BY ZenonT(60), <1>c DEF Clusters
  <2>2. "list" \in Steps
    BY DEF Steps
  <2> QED
    BY <1>4, <2>1, <2>2, WriteType DEF SetStatusPlacementCreated, TypeOK, etcd
<1>5. CASE ListNamespaces
  <2>1. NamespacesToDelete(registry) \in SUBSET Namespaces
    BY DEF NamespacesToDelete, Present
  <2>2. "prune" \in Steps
    BY DEF Steps
  <2>3. pass' \in Passes
    BY ZenonT(60), <1>5, <2>1, <2>2 DEF ListNamespaces, TypeOK, Passes
  <2> QED
    BY <1>5, <2>3 DEF ListNamespaces, TypeOK, etcd
<1>m. ASSUME NEW todo \in SUBSET Namespaces
      PROVE  /\ GotoWith("prune", todo) => pass' \in Passes
             /\ GotoWith("create", todo) => pass' \in Passes
             /\ GotoWith("ready", todo) => pass' \in Passes
             /\ GotoWith("purging", todo) => pass' \in Passes
  <2>1. {"prune", "create", "ready", "purging"} \subseteq Steps
    BY DEF Steps
  <2> QED
    <3>1. \A step \in Steps : [pass EXCEPT !.pc = step, !.todo = todo] \in Passes
      BY ZenonT(60), MoveType
    <3> QED
      BY ZenonT(60), <2>1, <3>1 DEF GotoWith
<1>g. /\ Goto("unplace") => pass' \in Passes
      /\ Goto("release") => pass' \in Passes
  <2>1. "unplace" \in Steps /\ "release" \in Steps
    BY DEF Steps
  <2>2. \A step \in Steps : [pass EXCEPT !.pc = step] \in Passes
    BY ZenonT(60), MoveType
  <2> QED
    BY <2>1, <2>2 DEF Goto
<1>d. Present(registry) \in SUBSET Namespaces /\ \A ns : pass.todo \ {ns} \in SUBSET Namespaces
  BY <1>c DEF Present
<1>r. ASSUME NEW st \in {"absent", "initializing", "ready"},
             UNCHANGED registry \/ \E ns \in pass.todo : registry' = [registry EXCEPT ![ns] = st]
      PROVE  registry' \in Registries
  <2>1. registry \in Registries
    BY DEF TypeOK
  <2> QED
    BY <1>r, <2>1 DEF Registries
<1>n. Return => pass' \in Passes
  BY NoPassType DEF Return
<1>6. CASE PruneNamespaces
  <2>1. NamespacesToCreate(pass.registry) \in SUBSET Namespaces
    BY <1>c DEF NamespacesToCreate
  <2>2. pass' \in Passes
    BY ZenonT(60), <1>6, <1>d, <1>m, <2>1 DEF PruneNamespaces
  <2>3. registry' \in Registries
    <3>1. UNCHANGED registry \/ \E ns \in pass.todo : registry' = [registry EXCEPT ![ns] = "absent"]
      BY ZenonT(60), <1>6 DEF PruneNamespaces
    <3> QED
      BY <3>1, <1>r
  <2> QED
    BY <1>6, <2>2, <2>3 DEF PruneNamespaces, TypeOK
<1>7. CASE CreateNamespaces
  <2>1. NamespacesToReady(pass.registry) \in SUBSET Namespaces
    BY <1>c DEF NamespacesToReady
  <2>2. pass' \in Passes
    BY ZenonT(60), <1>7, <1>d, <1>m, <1>n, <2>1 DEF CreateNamespaces
  <2>3. registry' \in Registries
    <3>1. UNCHANGED registry \/ \E ns \in pass.todo : registry' = [registry EXCEPT ![ns] = "initializing"]
      BY ZenonT(60), <1>7 DEF CreateNamespaces, CreatedStatus
    <3> QED
      BY <3>1, <1>r
  <2> QED
    BY <1>7, <2>2, <2>3 DEF CreateNamespaces, TypeOK
<1>8. CASE ReadyNamespaces
  <2>1. pass' \in Passes
    BY ZenonT(60), <1>8, <1>d, <1>m, <1>n DEF ReadyNamespaces
  <2>2. registry' \in Registries
    <3>1. UNCHANGED registry \/ \E ns \in pass.todo : registry' = [registry EXCEPT ![ns] = "ready"]
      BY ZenonT(60), <1>8 DEF ReadyNamespaces
    <3> QED
      BY <3>1, <1>r
  <2> QED
    BY <1>8, <2>1, <2>2 DEF ReadyNamespaces, TypeOK
<1>9. CASE DeleteAllNamespaces
  <2>1. pass' \in Passes
    BY ZenonT(60), <1>9, <1>d, <1>g, <1>m DEF DeleteAllNamespaces
  <2>2. registry' \in Registries
    <3>1. UNCHANGED registry \/ \E ns \in pass.todo : registry' = [registry EXCEPT ![ns] = "absent"]
      BY ZenonT(60), <1>9 DEF DeleteAllNamespaces
    <3> QED
      BY <3>1, <1>r
  <2> QED
    BY <1>9, <2>1, <2>2 DEF DeleteAllNamespaces, TypeOK
<1>10. CASE DeletePlacement
  <2>1. pass' \in Passes
    BY <1>10, <1>g DEF DeletePlacement
  <2> QED
    BY ZenonT(60), <1>10, <2>1 DEF DeletePlacement, TypeOK
<1>11. CASE RemoveEtcdFinalizer
  <2>1. [pass.cluster EXCEPT !.finalizer = FALSE] \in Clusters
    BY ZenonT(60), <1>c DEF Clusters
  <2>2. "idle" \in Steps
    BY DEF Steps
  <2> QED
    BY <1>11, <2>1, <2>2, WriteType DEF RemoveEtcdFinalizer, TypeOK, etcd
<1> QED
  BY <1>1, <1>2, <1>3, <1>4, <1>5, <1>6, <1>7, <1>8, <1>9, <1>10, <1>11 DEF Pass

(***************************************************************************)
(* So does everything users, watches and failures do.                      *)
(***************************************************************************)
LEMMA EnvironmentType ==
  ASSUME TypeOK, Environment
  PROVE  TypeOK'
<1>1. CASE SyncCluster
  BY <1>1 DEF SyncCluster, TypeOK, etcd
<1>2. CASE EditCluster
  <2>1. /\ [cluster EXCEPT !.keep = ~@] \in Clusters
        /\ [cluster EXCEPT !.frozen = ~@] \in Clusters
        /\ \A S \in SUBSET Namespaces : [cluster EXCEPT !.namespaces = S] \in Clusters
    BY ZenonT(60) DEF TypeOK, Clusters
  <2> QED
    BY ZenonT(60), <1>2, <2>1, AskType DEF EditCluster
<1>3. CASE DeleteCluster
  <2>1. [cluster EXCEPT !.deleting = TRUE, !.exists = cluster.finalizer] \in Clusters
    BY ZenonT(60) DEF TypeOK, Clusters
  <2> QED
    BY <1>3, <2>1, AskType DEF DeleteCluster
<1>4. CASE CreateCluster
  BY <1>4, AskType, NewClusterType DEF CreateCluster
<1>5. CASE PassAborts
  <2>1. cache' \in [cluster : Clusters, fresh : BOOLEAN]
    <3>1. [cluster |-> cluster, fresh |-> TRUE] \in [cluster : Clusters, fresh : BOOLEAN]
      BY DEF TypeOK
    <3> QED
      BY ZenonT(60), <1>5, <3>1 DEF PassAborts, TypeOK
  <2>2. budget' \in [edits : Nat, calls : Nat]
    BY <1>5 DEF PassAborts, TypeOK
  <2> QED
    BY <1>5, <2>1, <2>2, NoPassType DEF PassAborts, Return, TypeOK, etcd
<1> QED
  BY <1>1, <1>2, <1>3, <1>4, <1>5 DEF Environment

(***************************************************************************)
(* Every variable keeps its type: a pass only ever works on namespaces,    *)
(* states and copies of the cluster that exist.                            *)
(***************************************************************************)
THEOREM TypeCorrect == Spec => []TypeOK
<1>1. Init => TypeOK
  <2> SUFFICES ASSUME Init PROVE TypeOK
    OBVIOUS
  <2>1. /\ cluster \in Clusters
        /\ asked \in [keep : BOOLEAN, delete : BOOLEAN, removed : SUBSET Namespaces]
    BY NewClusterType DEF Init
  <2>2. registry \in Registries /\ cache \in [cluster : Clusters, fresh : BOOLEAN]
    BY <2>1 DEF Init, Registries
  <2>3. budget \in [edits : Nat, calls : Nat]
    BY EtcdAssumption DEF Init
  <2> QED
    BY ZenonT(60), <2>1, <2>2, <2>3, NoPassType DEF Init, TypeOK
<1>2. TypeOK /\ [Next]_vars => TypeOK'
  <2>1. ASSUME TypeOK, UNCHANGED vars PROVE TypeOK'
    BY <2>1 DEF vars, TypeOK
  <2> QED
    BY <2>1, PassType, EnvironmentType DEF Next
<1> QED
  BY <1>1, <1>2, PTL DEF Spec

-----------------------------------------------------------------------------
(***************************************************************************)
(* The inductive invariant.                                                *)
(***************************************************************************)
LEMMA ReturnKeeps ==
  ASSUME TypeOK, Inv, Return, UNCHANGED <<cluster, placement, registry, cache, asked>>
  PROVE  Inv'
<1> USE DEF Return, NoPass, NewCluster, At
<1>1. HistoryInv'
  BY DEF Inv, TypeOK, Clusters, Passes, HistoryInv, PassInv, Remembered
<1>2. PassInv'
  BY DEF Inv, TypeOK, Clusters, Passes, PassInv, DeletionSteps, PurgeSteps, Present
<1>3. PurgeInv'
  BY DEF Inv, TypeOK, Clusters, Registries, Passes, PassInv, DeletionSteps, PurgeSteps, PurgeInv, HasData, Present
<1>4. ProtectInv'
  BY DEF Inv, TypeOK, Clusters, Registries, Passes, HistoryInv, Remembered, PassInv, PurgeInv,
         DeletionSteps, PurgeSteps, MakingSteps, LiveSteps, ProtectInv, HasData, Present, Living, Protected
<1>5. DoomInv'
  BY DEF Inv, TypeOK, Clusters, Registries, Passes, HistoryInv, PassInv, PurgeInv,
         DeletionSteps, PurgeSteps, LiveSteps, DoomInv, HasData, Present, Doomed, Protected
<1> QED
  BY <1>1, <1>2, <1>3, <1>4, <1>5 DEF Inv

(***************************************************************************)
(* Adding the finalizer, or the PlacementInitialized condition, to a       *)
(* cluster that is not being deleted keeps the invariant.                  *)
(***************************************************************************)
LEMMA LiveWriteKeeps ==
  ASSUME TypeOK, Inv, pass.fresh, pass.pc \in LiveSteps, NEW c \in Clusters, NEW step \in {"place", "list"},
         c.exists, ~c.deleting, c.keep = pass.cluster.keep,
         c.namespaces = pass.cluster.namespaces, 
         pass.cluster.finalizer => c.finalizer,
         ~asked.keep => c.finalizer,
         Write(c, step), UNCHANGED <<placement, registry, asked>>
  PROVE  Inv'
<1>1. /\ cluster' = c
      /\ pass'.pc = step /\ pass'.cluster = c /\ pass'.fresh = pass.fresh /\ pass'.todo = pass.todo
      /\ cache'.cluster = cache.cluster /\ cache'.fresh = FALSE
  <2>1. c.exists = TRUE /\ (~c.deleting \/ c.finalizer) = TRUE
    BY DEF Clusters
  <2>2. [c EXCEPT !.exists = TRUE] = c
    BY <2>1 DEF Clusters
  <2>3. cluster' = c
    BY ZenonT(60), <2>1, <2>2 DEF Write
  <2>4. pass' = [pass EXCEPT !.pc = step, !.cluster = c] /\ cache' = [cache EXCEPT !.fresh = FALSE]
    BY DEF Write
  <2> QED
    BY ZenonT(60), <2>3, <2>4 DEF TypeOK, Passes
<1> USE DEF At
<1>2. HistoryInv'
  <2>1. Remembered(cluster) /\ Remembered(cache.cluster) /\ Remembered(pass.cluster)
    BY DEF Inv, HistoryInv, LiveSteps
  <2> QED
    BY <1>1, <2>1 DEF HistoryInv, Remembered
<1>3. PassInv'
  BY <1>1 DEF Inv, TypeOK, Clusters, Passes, PassInv, DeletionSteps, PurgeSteps, Present
<1>4. PurgeInv'
  BY ZenonT(60), <1>1
     DEF Inv, TypeOK, Clusters, Registries, Passes, PassInv, DeletionSteps, PurgeSteps, PurgeInv, HasData, Present
<1>5. ProtectInv'
  BY ZenonT(60), <1>1 DEF Inv, TypeOK, Clusters, Registries, Passes, HistoryInv, Remembered, PassInv, PurgeInv,
         DeletionSteps, PurgeSteps, MakingSteps, LiveSteps, ProtectInv, HasData, Present, Living, Protected
<1>6. DoomInv'
  BY <1>1 DEF Inv, TypeOK, Clusters, Registries, Passes, HistoryInv, PassInv, PurgeInv,
         DeletionSteps, PurgeSteps, LiveSteps, DoomInv, HasData, Present, Doomed, Protected
<1> QED
  BY <1>2, <1>3, <1>4, <1>5, <1>6 DEF Inv

(***************************************************************************)
(* A pass that starts from a stale copy of the cluster keeps the           *)
(* invariant: what the copy says was asked for at some time.               *)
(***************************************************************************)
LEMMA StartPass_Inv ==
  ASSUME TypeOK, Inv, StartPass
  PROVE  Inv'
<1> USE DEF StartPass, At, etcd, FirstStep
<1>1. HistoryInv'
  BY DEF Inv, TypeOK, Clusters, Passes, HistoryInv, PassInv, Remembered
<1>2. PassInv'
  BY DEF Inv, TypeOK, Clusters, Passes, PassInv, DeletionSteps, PurgeSteps, Present
<1>3. PurgeInv'
  BY DEF Inv, TypeOK, Clusters, Registries, Passes, PassInv, DeletionSteps, PurgeSteps, PurgeInv, HasData, Present
<1>4. ProtectInv'
  BY DEF Inv, TypeOK, Clusters, Registries, Passes, HistoryInv, Remembered, PassInv, PurgeInv,
         DeletionSteps, PurgeSteps, MakingSteps, LiveSteps, ProtectInv, HasData, Present, Living, Protected
<1>5. DoomInv'
  BY DEF Inv, TypeOK, Clusters, Registries, Passes, HistoryInv, PassInv, PurgeInv,
         DeletionSteps, PurgeSteps, LiveSteps, DoomInv, HasData, Present, Doomed, Protected
<1> QED
  BY <1>1, <1>2, <1>3, <1>4, <1>5 DEF Inv

(***************************************************************************)
(* validatePlacementWithStatus keeps it: the finalizer is there already.   *)
(***************************************************************************)
LEMMA ValidatePlacementWithStatus_Inv ==
  ASSUME TypeOK, Inv, ValidatePlacementWithStatus
  PROVE  Inv'
<1> USE DEF ValidatePlacementWithStatus, At, etcd, Goto
<1>1. HistoryInv'
  BY DEF Inv, TypeOK, Clusters, Passes, HistoryInv, PassInv, Remembered
<1>2. PassInv'
  BY DEF Inv, TypeOK, Clusters, Passes, PassInv, DeletionSteps, PurgeSteps, Present
<1>3. PurgeInv'
  BY DEF Inv, TypeOK, Clusters, Registries, Passes, PassInv, DeletionSteps, PurgeSteps, PurgeInv, HasData, Present
<1>4. ProtectInv'
  BY DEF Inv, TypeOK, Clusters, Registries, Passes, HistoryInv, Remembered, PassInv, PurgeInv,
         DeletionSteps, PurgeSteps, MakingSteps, LiveSteps, ProtectInv, HasData, Present, Living, Protected
<1>5. DoomInv'
  BY DEF Inv, TypeOK, Clusters, Registries, Passes, HistoryInv, PassInv, PurgeInv,
         DeletionSteps, PurgeSteps, LiveSteps, DoomInv, HasData, Present, Doomed, Protected
<1> QED
  BY <1>1, <1>2, <1>3, <1>4, <1>5 DEF Inv

(***************************************************************************)
(* The list of namespaces to prune holds only names the copy does not      *)
(* have.                                                                   *)
(***************************************************************************)
LEMMA ListNamespaces_Inv ==
  ASSUME TypeOK, Inv, ListNamespaces
  PROVE  Inv'
<1> USE DEF ListNamespaces, At, etcd, NamespacesToDelete, InSpec
<1>1. HistoryInv'
  BY DEF Inv, TypeOK, Clusters, Passes, HistoryInv, PassInv, Remembered
<1>2. PassInv'
  BY DEF Inv, TypeOK, Clusters, Passes, PassInv, DeletionSteps, PurgeSteps, Present
<1>3. PurgeInv'
  BY DEF Inv, TypeOK, Clusters, Registries, Passes, PassInv, DeletionSteps, PurgeSteps, PurgeInv, HasData, Present
<1>4. ProtectInv'
  BY DEF Inv, TypeOK, Clusters, Registries, Passes, HistoryInv, Remembered, PassInv, PurgeInv,
         DeletionSteps, PurgeSteps, MakingSteps, LiveSteps, ProtectInv, HasData, Present, Living, Protected
<1>5. DoomInv'
  BY DEF Inv, TypeOK, Clusters, Registries, Passes, HistoryInv, PassInv, PurgeInv,
         DeletionSteps, PurgeSteps, LiveSteps, DoomInv, HasData, Present, Doomed, Protected
<1> QED
  BY <1>1, <1>2, <1>3, <1>4, <1>5 DEF Inv

(***************************************************************************)
(* deletePlacement keeps it.                                               *)
(***************************************************************************)
LEMMA DeletePlacement_Inv ==
  ASSUME TypeOK, Inv, DeletePlacement
  PROVE  Inv'
<1> USE DEF DeletePlacement, At, etcd, Goto
<1>1. HistoryInv'
  BY DEF Inv, TypeOK, Clusters, Passes, HistoryInv, PassInv, Remembered
<1>2. PassInv'
  BY DEF Inv, TypeOK, Clusters, Passes, PassInv, DeletionSteps, PurgeSteps, Present
<1>3. PurgeInv'
  BY DEF Inv, TypeOK, Clusters, Registries, Passes, PassInv, DeletionSteps, PurgeSteps, PurgeInv, HasData, Present
<1>4. ProtectInv'
  BY DEF Inv, TypeOK, Clusters, Registries, Passes, HistoryInv, Remembered, PassInv, PurgeInv,
         DeletionSteps, PurgeSteps, MakingSteps, LiveSteps, ProtectInv, HasData, Present, Living, Protected
<1>5. DoomInv'
  BY DEF Inv, TypeOK, Clusters, Registries, Passes, HistoryInv, PassInv, PurgeInv,
         DeletionSteps, PurgeSteps, LiveSteps, DoomInv, HasData, Present, Doomed, Protected
<1> QED
  BY <1>1, <1>2, <1>3, <1>4, <1>5 DEF Inv

(***************************************************************************)
(* removeEtcdFinalizer keeps it: by then there is no data, or it was to be *)
(* kept.                                                                   *)
(***************************************************************************)
LEMMA RemoveEtcdFinalizer_Inv ==
  ASSUME TypeOK, Inv, RemoveEtcdFinalizer
  PROVE  Inv'
<1>1. CASE ~pass.fresh
  BY <1>1, ReturnKeeps DEF RemoveEtcdFinalizer, Write, etcd
<1>2. CASE pass.fresh
  <2> USE DEF RemoveEtcdFinalizer, At, etcd, Write, Return, NoPass, NewCluster
  <2>1. HistoryInv'
    <3>1. /\ ~cluster'.exists /\ cluster'.keep = pass.cluster.keep
          /\ cluster'.namespaces = pass.cluster.namespaces
      BY ZenonT(60), <1>2 DEF Inv, TypeOK, Clusters, Passes, PassInv, DeletionSteps
    <3>2. cache'.cluster = cache.cluster /\ pass'.pc = "idle"
      BY <1>2 DEF TypeOK
    <3> QED
      BY <3>1, <3>2 DEF Inv, HistoryInv, Remembered
  <2>2. PassInv'
    BY <1>2 DEF Inv, TypeOK, Clusters, Passes, PassInv, DeletionSteps, PurgeSteps, Present
  <2>3. PurgeInv'
    BY <1>2
       DEF Inv, TypeOK, Clusters, Registries, Passes, PassInv, DeletionSteps, PurgeSteps, PurgeInv, HasData, Present
  <2>4. ProtectInv'
    BY <1>2 DEF Inv, TypeOK, Clusters, Registries, Passes, HistoryInv, Remembered, PassInv, PurgeInv,
           DeletionSteps, PurgeSteps, MakingSteps, LiveSteps, ProtectInv, HasData, Present, Living, Protected
  <2>5. DoomInv'
    BY <1>2 DEF Inv, TypeOK, Clusters, Registries, Passes, HistoryInv, PassInv, PurgeInv,
           DeletionSteps, PurgeSteps, LiveSteps, DoomInv, HasData, Present, Doomed, Protected
  <2> QED
    BY <2>1, <2>2, <2>3, <2>4, <2>5 DEF Inv
<1> QED
  BY <1>1, <1>2

(***************************************************************************)
(* A failed call or a crash keeps it, wherever it hits the pass.           *)
(***************************************************************************)
LEMMA PassAborts_Inv ==
  ASSUME TypeOK, Inv, PassAborts
  PROVE  Inv'
<1> USE DEF PassAborts, At, etcd, Return, NoPass, NewCluster
<1>1. HistoryInv'
  BY DEF Inv, TypeOK, Clusters, Passes, HistoryInv, PassInv, Remembered
<1>2. PassInv'
  BY DEF Inv, TypeOK, Clusters, Passes, PassInv, DeletionSteps, PurgeSteps, Present
<1>3. PurgeInv'
  BY DEF Inv, TypeOK, Clusters, Registries, Passes, PassInv, DeletionSteps, PurgeSteps, PurgeInv, HasData, Present
<1>4. ProtectInv'
  BY DEF Inv, TypeOK, Clusters, Registries, Passes, HistoryInv, Remembered, PassInv, PurgeInv,
         DeletionSteps, PurgeSteps, MakingSteps, LiveSteps, ProtectInv, HasData, Present, Living, Protected
<1>5. DoomInv'
  BY DEF Inv, TypeOK, Clusters, Registries, Passes, HistoryInv, PassInv, PurgeInv,
         DeletionSteps, PurgeSteps, LiveSteps, DoomInv, HasData, Present, Doomed, Protected
<1> QED
  BY <1>1, <1>2, <1>3, <1>4, <1>5 DEF Inv

(***************************************************************************)
(* The watch keeps it.                                                     *)
(***************************************************************************)
LEMMA SyncCluster_Inv ==
  ASSUME TypeOK, Inv, SyncCluster
  PROVE  Inv'
<1> USE DEF SyncCluster, At, etcd
<1>1. HistoryInv'
  BY DEF Inv, TypeOK, Clusters, Passes, HistoryInv, PassInv, Remembered
<1>2. PassInv'
  BY DEF Inv, TypeOK, Clusters, Passes, PassInv, DeletionSteps, PurgeSteps, Present
<1>3. PurgeInv'
  BY DEF Inv, TypeOK, Clusters, Registries, Passes, PassInv, DeletionSteps, PurgeSteps, PurgeInv, HasData, Present
<1>4. ProtectInv'
  BY DEF Inv, TypeOK, Clusters, Registries, Passes, HistoryInv, Remembered, PassInv, PurgeInv,
         DeletionSteps, PurgeSteps, MakingSteps, LiveSteps, ProtectInv, HasData, Present, Living, Protected
<1>5. DoomInv'
  BY DEF Inv, TypeOK, Clusters, Registries, Passes, HistoryInv, PassInv, PurgeInv,
         DeletionSteps, PurgeSteps, LiveSteps, DoomInv, HasData, Present, Doomed, Protected
<1> QED
  BY <1>1, <1>2, <1>3, <1>4, <1>5 DEF Inv

(***************************************************************************)
(* An edit by a user keeps it: a pass at work loses its fresh copy.        *)
(***************************************************************************)
LEMMA EditCluster_Inv ==
  ASSUME TypeOK, Inv, EditCluster
  PROVE  Inv'
<1> USE DEF EditCluster, At, etcd, Ask
<1>1. HistoryInv'
  BY DEF Inv, TypeOK, Clusters, Passes, HistoryInv, PassInv, Remembered
<1>2. PassInv'
  BY DEF Inv, TypeOK, Clusters, Passes, PassInv, DeletionSteps, PurgeSteps, Present
<1>3. PurgeInv'
  BY DEF Inv, TypeOK, Clusters, Registries, Passes, PassInv, DeletionSteps, PurgeSteps, PurgeInv, HasData, Present
<1>4. ProtectInv'
  BY DEF Inv, TypeOK, Clusters, Registries, Passes, HistoryInv, Remembered, PassInv, PurgeInv,
         DeletionSteps, PurgeSteps, MakingSteps, LiveSteps, ProtectInv, HasData, Present, Living, Protected
<1>5. DoomInv'
  BY DEF Inv, TypeOK, Clusters, Registries, Passes, HistoryInv, PassInv, PurgeInv,
         DeletionSteps, PurgeSteps, LiveSteps, DoomInv, HasData, Present, Doomed, Protected
<1> QED
  BY <1>1, <1>2, <1>3, <1>4, <1>5 DEF Inv

(***************************************************************************)
(* A deletion keeps it.                                                    *)
(***************************************************************************)
LEMMA DeleteCluster_Inv ==
  ASSUME TypeOK, Inv, DeleteCluster
  PROVE  Inv'
<1> USE DEF DeleteCluster, At, etcd, Ask
<1>1. HistoryInv'
  BY DEF Inv, TypeOK, Clusters, Passes, HistoryInv, PassInv, Remembered
<1>2. PassInv'
  BY DEF Inv, TypeOK, Clusters, Passes, PassInv, DeletionSteps, PurgeSteps, Present
<1>3. PurgeInv'
  BY DEF Inv, TypeOK, Clusters, Registries, Passes, PassInv, DeletionSteps, PurgeSteps, PurgeInv, HasData, Present
<1>4. ProtectInv'
  BY DEF Inv, TypeOK, Clusters, Registries, Passes, HistoryInv, Remembered, PassInv, PurgeInv,
         DeletionSteps, PurgeSteps, MakingSteps, LiveSteps, ProtectInv, HasData, Present, Living, Protected
<1>5. DoomInv'
  BY DEF Inv, TypeOK, Clusters, Registries, Passes, HistoryInv, PassInv, PurgeInv,
         DeletionSteps, PurgeSteps, LiveSteps, DoomInv, HasData, Present, Doomed, Protected
<1> QED
  BY <1>1, <1>2, <1>3, <1>4, <1>5 DEF Inv

(***************************************************************************)
(* So does a cluster created under the name of one that is gone.           *)
(***************************************************************************)
LEMMA CreateCluster_Inv ==
  ASSUME TypeOK, Inv, CreateCluster
  PROVE  Inv'
<1> USE DEF CreateCluster, At, etcd, Ask, NewCluster
<1>1. HistoryInv'
  BY DEF Inv, TypeOK, Clusters, Passes, HistoryInv, PassInv, Remembered
<1>2. PassInv'
  BY DEF Inv, TypeOK, Clusters, Passes, PassInv, DeletionSteps, PurgeSteps, Present
<1>3. PurgeInv'
  BY DEF Inv, TypeOK, Clusters, Registries, Passes, PassInv, DeletionSteps, PurgeSteps, PurgeInv, HasData, Present
<1>4. ProtectInv'
  BY DEF Inv, TypeOK, Clusters, Registries, Passes, HistoryInv, Remembered, PassInv, PurgeInv,
         DeletionSteps, PurgeSteps, MakingSteps, LiveSteps, ProtectInv, HasData, Present, Living, Protected
<1>5. DoomInv'
  BY DEF Inv, TypeOK, Clusters, Registries, Passes, HistoryInv, PassInv, PurgeInv,
         DeletionSteps, PurgeSteps, LiveSteps, DoomInv, HasData, Present, Doomed, Protected
<1> QED
  BY <1>1, <1>2, <1>3, <1>4, <1>5 DEF Inv

(***************************************************************************)
(* A step of reconcileNamespaces that only moves on keeps it.              *)
(***************************************************************************)
LEMMA NamespaceStepKeeps ==
  ASSUME TypeOK, Inv, pass.pc \in {"prune", "create", "ready"},
         NEW step \in {"prune", "create", "ready"}, NEW todo \in SUBSET Namespaces,
         GotoWith(step, todo),
         step = "prune" => pass.pc = "prune" /\ todo \subseteq pass.todo,
         UNCHANGED <<cluster, placement, cache, asked>>
  PROVE  Inv'
<1>a. /\ pass'.pc = step /\ pass'.cluster = pass.cluster /\ pass'.fresh = pass.fresh
      /\ pass'.todo = todo
  BY ZenonT(60) DEF GotoWith, TypeOK, Passes
<1> USE DEF At
<1>1. HistoryInv'
  BY ZenonT(60), <1>a DEF Inv, TypeOK, Clusters, Passes, HistoryInv, PassInv, Remembered
<1>2. PassInv'
  BY ZenonT(60), <1>a DEF Inv, TypeOK, Clusters, Passes, PassInv, DeletionSteps, PurgeSteps, Present
<1>3. PurgeInv'
  BY ZenonT(60), <1>a
     DEF Inv, TypeOK, Clusters, Registries, Passes, PassInv, DeletionSteps, PurgeSteps, PurgeInv, HasData, Present
<1>4. ProtectInv'
  BY ZenonT(60), <1>a DEF Inv, TypeOK, Clusters, Registries, Passes, HistoryInv, Remembered, PassInv, PurgeInv,
         DeletionSteps, PurgeSteps, MakingSteps, LiveSteps, ProtectInv, HasData, Present, Living, Protected
<1>5. DoomInv'
  BY <1>a DEF Inv, TypeOK, Clusters, Registries, Passes, HistoryInv, PassInv, PurgeInv,
         DeletionSteps, PurgeSteps, LiveSteps, DoomInv, HasData, Present, Doomed, Protected
<1> QED
  BY <1>1, <1>2, <1>3, <1>4, <1>5 DEF Inv

(***************************************************************************)
(* ensureEtcdFinalizer keeps it.                                           *)
(***************************************************************************)
LEMMA EnsureEtcdFinalizer_Inv ==
  ASSUME TypeOK, Inv, EnsureEtcdFinalizer
  PROVE  Inv'
<1>1. CASE pass.cluster.finalizer
  <2>a. /\ pass.pc = "protect" /\ pass'.pc = "place" /\ pass'.cluster = pass.cluster
        /\ pass'.fresh = pass.fresh /\ pass'.todo = pass.todo
        /\ UNCHANGED <<cluster, placement, registry, cache, asked>>
    BY ZenonT(60), <1>1 DEF EnsureEtcdFinalizer, Goto, At, etcd, TypeOK, Passes
  <2> USE DEF At
  <2>1. HistoryInv'
    BY ZenonT(60), <1>1, <2>a DEF Inv, TypeOK, Clusters, Passes, HistoryInv, PassInv, Remembered
  <2>2. PassInv'
    BY ZenonT(60), <1>1, <2>a DEF Inv, TypeOK, Clusters, Passes, PassInv, DeletionSteps, PurgeSteps, Present
  <2>3. PurgeInv'
    BY ZenonT(60), <1>1, <2>a
       DEF Inv, TypeOK, Clusters, Registries, Passes, PassInv, DeletionSteps, PurgeSteps, PurgeInv, HasData, Present
  <2>4. ProtectInv'
    BY ZenonT(60), <1>1, <2>a DEF Inv, TypeOK, Clusters, Registries, Passes, HistoryInv, Remembered, PassInv, PurgeInv,
           DeletionSteps, PurgeSteps, MakingSteps, LiveSteps, ProtectInv, HasData, Present, Living, Protected
  <2>5. DoomInv'
    BY <1>1, <2>a DEF Inv, TypeOK, Clusters, Registries, Passes, HistoryInv, PassInv, PurgeInv,
           DeletionSteps, PurgeSteps, LiveSteps, DoomInv, HasData, Present, Doomed, Protected
  <2> QED
    BY <2>1, <2>2, <2>3, <2>4, <2>5 DEF Inv
<1>2. CASE ~pass.cluster.finalizer /\ ~pass.fresh
  BY <1>2, ReturnKeeps DEF EnsureEtcdFinalizer, Write, etcd
<1>3. CASE ~pass.cluster.finalizer /\ pass.fresh
  <2> DEFINE c == [pass.cluster EXCEPT !.finalizer = TRUE]
  <2>1. pass.cluster \in Clusters
    BY DEF TypeOK, Passes
  <2>2. pass.cluster.exists /\ ~pass.cluster.deleting /\ pass.pc \in LiveSteps
    BY <1>3 DEF EnsureEtcdFinalizer, At, Inv, PassInv, DeletionSteps, PurgeSteps, LiveSteps
  <2>3. c \in Clusters /\ c.exists /\ ~c.deleting /\ c.keep = pass.cluster.keep
        /\ c.namespaces = pass.cluster.namespaces /\ c.finalizer
    BY ZenonT(60), <2>1, <2>2 DEF Clusters
  <2>4. Write(c, "place") /\ UNCHANGED <<placement, registry, asked>>
    BY <1>3 DEF EnsureEtcdFinalizer, etcd
  <2> HIDE DEF c
  <2> QED
    BY <1>3, <2>2, <2>3, <2>4, LiveWriteKeeps
<1> QED
  BY <1>1, <1>2, <1>3

(***************************************************************************)
(* setStatusPlacementCreated keeps it.                                     *)
(***************************************************************************)
LEMMA SetStatusPlacementCreated_Inv ==
  ASSUME TypeOK, Inv, SetStatusPlacementCreated
  PROVE  Inv'
<1>1. CASE ~pass.fresh
  BY <1>1, ReturnKeeps DEF SetStatusPlacementCreated, Write, etcd
<1>2. CASE pass.fresh
  <2> DEFINE c == [pass.cluster EXCEPT !.placed = TRUE]
  <2>1. pass.cluster \in Clusters
    BY DEF TypeOK, Passes
  <2>2. pass.cluster.exists /\ ~pass.cluster.deleting /\ pass.pc \in LiveSteps /\ cluster = pass.cluster
    BY <1>2 DEF SetStatusPlacementCreated, At, Inv, PassInv, DeletionSteps, PurgeSteps, LiveSteps
  <2>3. c \in Clusters /\ c.exists /\ ~c.deleting /\ c.keep = pass.cluster.keep
        /\ c.namespaces = pass.cluster.namespaces /\ c.finalizer = pass.cluster.finalizer
    BY ZenonT(60), <2>1, <2>2 DEF Clusters
  <2>4. Write(c, "list") /\ UNCHANGED <<placement, registry, asked>>
    BY DEF SetStatusPlacementCreated, etcd
  <2>5. ~asked.keep => pass.cluster.finalizer
    BY <2>2 DEF SetStatusPlacementCreated, At, Inv, ProtectInv, MakingSteps, LiveSteps, Protected
  <2> HIDE DEF c
  <2> QED
    BY <1>2, <2>2, <2>3, <2>4, <2>5, LiveWriteKeeps
<1> QED
  BY <1>1, <1>2

(***************************************************************************)
(* pruneNamespaces keeps it.                                               *)
(***************************************************************************)
LEMMA PruneNamespaces_Inv ==
  ASSUME TypeOK, Inv, PruneNamespaces
  PROVE  Inv'
<1>1. pass.pc = "prune" /\ UNCHANGED <<cluster, placement, cache, asked>>
      /\ pass.todo \in SUBSET Namespaces /\ NamespacesToCreate(pass.registry) \in SUBSET Namespaces
  BY DEF PruneNamespaces, At, TypeOK, Passes, Clusters, NamespacesToCreate, InSpec
<1>2. ASSUME NEW ns \in pass.todo, GotoWith("prune", pass.todo \ {ns}) PROVE Inv'
  <2>1. pass.todo \ {ns} \in SUBSET Namespaces /\ pass.todo \ {ns} \subseteq pass.todo
    BY <1>1
  <2> QED
    BY <1>1, <1>2, <2>1, NamespaceStepKeeps
<1>3. CASE GotoWith("create", NamespacesToCreate(pass.registry))
  BY <1>1, <1>3, NamespaceStepKeeps
<1> QED
  BY ZenonT(60), <1>2, <1>3 DEF PruneNamespaces

(***************************************************************************)
(* createNamespaces keeps it.                                              *)
(***************************************************************************)
LEMMA CreateNamespaces_Inv ==
  ASSUME TypeOK, Inv, CreateNamespaces
  PROVE  Inv'
<1>1. pass.pc = "create" /\ UNCHANGED <<cluster, placement, cache, asked>>
      /\ pass.todo \in SUBSET Namespaces /\ NamespacesToReady(pass.registry) \in SUBSET Namespaces
  BY ZenonT(60) DEF CreateNamespaces, At, TypeOK, Passes, Clusters, NamespacesToReady, InSpec
<1>2. ASSUME NEW ns \in pass.todo, GotoWith("create", pass.todo \ {ns}) PROVE Inv'
  <2>1. pass.todo \ {ns} \in SUBSET Namespaces
    BY <1>1
  <2> QED
    BY <1>1, <1>2, <2>1, NamespaceStepKeeps
<1>3. CASE GotoWith("ready", NamespacesToReady(pass.registry))
  BY <1>1, <1>3, NamespaceStepKeeps
<1>4. CASE Return /\ UNCHANGED registry
  BY <1>1, <1>4, ReturnKeeps
<1> QED
  BY ZenonT(60), <1>2, <1>3, <1>4 DEF CreateNamespaces

(***************************************************************************)
(* readyNamespaces keeps it.                                               *)
(***************************************************************************)
LEMMA ReadyNamespaces_Inv ==
  ASSUME TypeOK, Inv, ReadyNamespaces
  PROVE  Inv'
<1>1. pass.pc = "ready" /\ UNCHANGED <<cluster, placement, cache, asked>>
      /\ pass.todo \in SUBSET Namespaces
  BY DEF ReadyNamespaces, At, TypeOK, Passes
<1>2. ASSUME NEW ns \in pass.todo, GotoWith("ready", pass.todo \ {ns}) PROVE Inv'
  <2>1. pass.todo \ {ns} \in SUBSET Namespaces
    BY <1>1
  <2> QED
    BY <1>1, <1>2, <2>1, NamespaceStepKeeps
<1>3. CASE Return /\ UNCHANGED registry
  BY <1>1, <1>3, ReturnKeeps
<1> QED
  BY ZenonT(60), <1>2, <1>3 DEF ReadyNamespaces

(***************************************************************************)
(* deleteAllNamespaces keeps it: the placement goes only after the last    *)
(* namespace is gone.                                                      *)
(***************************************************************************)
LEMMA DeleteAllNamespaces_Inv ==
  ASSUME TypeOK, Inv, DeleteAllNamespaces
  PROVE  Inv'
<1> USE DEF At
<1>1. CASE At("purge") /\ GotoWith("purging", Present(registry)) /\ UNCHANGED registry
  <2>a. /\ pass'.pc = "purging" /\ pass'.cluster = pass.cluster
        /\ pass'.fresh = pass.fresh /\ pass'.todo = Present(registry)
        /\ UNCHANGED <<cluster, placement, cache, asked>>
    BY ZenonT(60), <1>1 DEF DeleteAllNamespaces, GotoWith, TypeOK, Passes
  <2>1. HistoryInv'
    BY ZenonT(60), <1>1, <2>a DEF Inv, TypeOK, Clusters, Passes, HistoryInv, PassInv, Remembered
  <2>2. PassInv'
    BY ZenonT(60), <1>1, <2>a DEF Inv, TypeOK, Clusters, Passes, PassInv, DeletionSteps, PurgeSteps, Present
  <2>3. PurgeInv'
    BY ZenonT(60), <1>1, <2>a
       DEF Inv, TypeOK, Clusters, Registries, Passes, PassInv, DeletionSteps, PurgeSteps, PurgeInv, HasData, Present
  <2>4. ProtectInv'
    BY ZenonT(60), <1>1, <2>a DEF Inv, TypeOK, Clusters, Registries, Passes, HistoryInv, Remembered, PassInv, PurgeInv,
           DeletionSteps, PurgeSteps, MakingSteps, LiveSteps, ProtectInv, HasData, Present, Living, Protected
  <2>5. DoomInv'
    BY ZenonT(60), <1>1, <2>a DEF Inv, TypeOK, Clusters, Registries, Passes, HistoryInv, PassInv, PurgeInv,
           DeletionSteps, PurgeSteps, LiveSteps, DoomInv, HasData, Present, Doomed, Protected
  <2> QED
    BY <2>1, <2>2, <2>3, <2>4, <2>5 DEF Inv
<1>2. ASSUME At("purging"), NEW ns \in pass.todo, registry' = [registry EXCEPT ![ns] = "absent"],
             GotoWith("purging", pass.todo \ {ns})
      PROVE  Inv'
  <2>a. /\ pass'.pc = "purging" /\ pass'.cluster = pass.cluster
        /\ pass'.fresh = pass.fresh /\ pass'.todo = pass.todo \ {ns}
        /\ UNCHANGED <<cluster, placement, cache, asked>>
        /\ Present(registry') = Present(registry) \ {ns}
    BY ZenonT(60), <1>2 DEF DeleteAllNamespaces, GotoWith, TypeOK, Passes, Registries, Present
  <2>1. HistoryInv'
    BY <1>2, <2>a DEF Inv, TypeOK, Clusters, Passes, HistoryInv, PassInv, Remembered
  <2>2. PassInv'
    BY ZenonT(60), <1>2, <2>a DEF Inv, TypeOK, Clusters, Passes, PassInv, DeletionSteps, PurgeSteps, Present
  <2>3. PurgeInv'
    BY ZenonT(60), <1>2, <2>a
       DEF Inv, TypeOK, Clusters, Registries, Passes, PassInv, DeletionSteps, PurgeSteps, PurgeInv, HasData, Present
  <2>4. ProtectInv'
    BY ZenonT(60), <1>2, <2>a DEF Inv, TypeOK, Clusters, Registries, Passes, HistoryInv, Remembered, PassInv, PurgeInv,
           DeletionSteps, PurgeSteps, MakingSteps, LiveSteps, ProtectInv, HasData, Present, Living, Protected
  <2>5. DoomInv'
    BY ZenonT(60), <1>2, <2>a DEF Inv, TypeOK, Clusters, Registries, Passes, HistoryInv, PassInv, PurgeInv,
           DeletionSteps, PurgeSteps, LiveSteps, DoomInv, HasData, Present, Doomed, Protected
  <2> QED
    BY ZenonT(60), <2>1, <2>2, <2>3, <2>4, <2>5 DEF Inv
<1>3. CASE At("purging") /\ pass.todo = {} /\ Goto("unplace") /\ UNCHANGED registry
  <2>a. /\ pass'.pc = "unplace" /\ pass'.cluster = pass.cluster
        /\ pass'.fresh = pass.fresh /\ pass'.todo = pass.todo
        /\ UNCHANGED <<cluster, placement, cache, asked>>
    BY ZenonT(60), <1>3 DEF DeleteAllNamespaces, Goto, TypeOK, Passes
  <2>1. HistoryInv'
    BY ZenonT(60), <1>3, <2>a DEF Inv, TypeOK, Clusters, Passes, HistoryInv, PassInv, Remembered
  <2>2. PassInv'
    BY ZenonT(60), <1>3, <2>a DEF Inv, TypeOK, Clusters, Passes, PassInv, DeletionSteps, PurgeSteps, Present
  <2>3. PurgeInv'
    BY SMTT(60), <1>3, <2>a
       DEF Inv, TypeOK, Clusters, Registries, Passes, PassInv, DeletionSteps, PurgeSteps, PurgeInv, HasData, Present
  <2>4. ProtectInv'
    BY ZenonT(60), <1>3, <2>a DEF Inv, TypeOK, Clusters, Registries, Passes, HistoryInv, Remembered, PassInv, PurgeInv,
           DeletionSteps, PurgeSteps, MakingSteps, LiveSteps, ProtectInv, HasData, Present, Living, Protected
  <2>5. DoomInv'
    BY ZenonT(60), <1>3, <2>a DEF Inv, TypeOK, Clusters, Registries, Passes, HistoryInv, PassInv, PurgeInv,
           DeletionSteps, PurgeSteps, LiveSteps, DoomInv, HasData, Present, Doomed, Protected
  <2> QED
    BY <2>1, <2>2, <2>3, <2>4, <2>5 DEF Inv
<1> QED
  BY ZenonT(60), <1>1, <1>2, <1>3 DEF DeleteAllNamespaces

(***************************************************************************)
(* Every step keeps the invariant.                                         *)
(***************************************************************************)
LEMMA InitInv == Init => Inv
<1> SUFFICES ASSUME Init PROVE Inv
  OBVIOUS
<1>1. PICK keep \in BOOLEAN, external \in BOOLEAN, S \in SUBSET Namespaces :
        /\ cluster = NewCluster(keep, external, S)
        /\ asked = [keep |-> keep, delete |-> FALSE, removed |-> Namespaces \ S]
  BY ZenonT(60) DEF Init
<1>2. /\ cluster.keep = keep /\ cluster.namespaces = S /\ ~cluster.deleting /\ ~cluster.finalizer
      /\ asked.keep = keep /\ asked.removed = Namespaces \ S
      /\ cache.cluster = cluster /\ pass.pc = "idle"
  BY <1>1 DEF Init, NewCluster, NoPass
<1>3. ~placement /\ Present(registry) = {}
  BY DEF Init, Present
<1> QED
  BY <1>2, <1>3 DEF Inv, HistoryInv, PassInv, PurgeInv, ProtectInv, DoomInv, Remembered, HasData,
     Living, Doomed, At, PurgeSteps, MakingSteps, LiveSteps

(***************************************************************************)
(* Every step keeps the invariant.                                         *)
(***************************************************************************)
LEMMA NextInv == TypeOK /\ Inv /\ [Next]_vars => Inv'
<1>1. ASSUME TypeOK, Inv, Pass PROVE Inv'
  BY <1>1, StartPass_Inv, EnsureEtcdFinalizer_Inv, ValidatePlacementWithStatus_Inv,
     SetStatusPlacementCreated_Inv, ListNamespaces_Inv, PruneNamespaces_Inv, CreateNamespaces_Inv,
     ReadyNamespaces_Inv, DeleteAllNamespaces_Inv, DeletePlacement_Inv, RemoveEtcdFinalizer_Inv
  DEF Pass
<1>2. ASSUME TypeOK, Inv, Environment PROVE Inv'
  BY ZenonT(60), <1>2, PassAborts_Inv, SyncCluster_Inv, EditCluster_Inv, DeleteCluster_Inv, CreateCluster_Inv
  DEF Environment
<1>3. ASSUME Inv, UNCHANGED vars PROVE Inv'
  <2>1. HistoryInv' /\ PassInv' /\ PurgeInv'
    BY ZenonT(60), <1>3 DEF vars, Inv, HistoryInv, PassInv, PurgeInv, Remembered, HasData, Present, At
  <2>2. ProtectInv' /\ DoomInv'
    BY ZenonT(60), <1>3 DEF vars, Inv, ProtectInv, DoomInv, HasData, Present, Protected, Living, Doomed, At
  <2> QED
    BY <2>1, <2>2 DEF Inv
<1> QED
  BY <1>1, <1>2, <1>3 DEF Next

(***************************************************************************)
(* The invariant holds in every reachable state.                           *)
(***************************************************************************)
LEMMA Invariance == Spec => [](TypeOK /\ Inv)
<1>1. Init => Inv
  BY InitInv
<1>2. TypeOK /\ Inv /\ [Next]_vars => Inv'
  BY NextInv
<1> QED
  BY <1>1, <1>2, TypeCorrect, PTL DEF Spec

(***************************************************************************)
(* The finalizer guards the data in etcd, whatever users edit, delete and  *)
(* create again, and wherever passes fail or the operator crashes.         *)
(***************************************************************************)
THEOREM DataIsProtected == Spec => []DataProtected
<1>1. TypeOK /\ Inv => DataProtected
  BY DEF Inv, ProtectInv, Protected, DataProtected
<1> QED
  BY <1>1, Invariance, PTL

(***************************************************************************)
(* deletePlacement removes the placement only when that was asked for.     *)
(***************************************************************************)
THEOREM PlacementSafe == Spec => PlacementRemovedOnRequest
<1>1. TypeOK /\ Inv /\ [Next]_vars => [placement /\ ~placement' => asked.delete]_vars
  <2> SUFFICES ASSUME TypeOK, Inv, Next, placement, ~placement' PROVE asked.delete
    BY ZenonT(60) DEF vars
  <2>1. At("unplace")
    BY ZenonT(60) DEF Next, Pass, Environment, StartPass, EnsureEtcdFinalizer, ValidatePlacementWithStatus,
       SetStatusPlacementCreated, ListNamespaces, PruneNamespaces, CreateNamespaces, ReadyNamespaces,
       DeleteAllNamespaces, DeletePlacement, RemoveEtcdFinalizer, SyncCluster, EditCluster,
       DeleteCluster, CreateCluster, PassAborts, Ask, etcd
  <2> QED
    BY <2>1 DEF Inv, DoomInv, PurgeSteps, At, HasData
<1> QED
  BY <1>1, Invariance, PTL DEF Spec, PlacementRemovedOnRequest

(***************************************************************************)
(* pruneNamespaces and deleteAllNamespaces delete only namespaces that     *)
(* users gave up at some time.                                             *)
(***************************************************************************)
THEOREM NamespacesSafe == Spec => NamespacesRemovedOnRequest
<1> DEFINE Gone == Present(registry) \ Present(registry')
<1>1. TypeOK /\ Inv /\ [Next]_vars => [Gone # {} => asked.delete \/ Gone \subseteq asked.removed]_vars
  <2> SUFFICES ASSUME TypeOK, Inv, Next, Gone # {}
               PROVE  asked.delete \/ Gone \subseteq asked.removed
    BY DEF vars
  <2>1. CASE registry' = registry
    BY <2>1
  <2>2. CASE CreateNamespaces \/ ReadyNamespaces
    <3>1. \A ns \in Present(registry) : ns \in Present(registry')
      BY ZenonT(60), <2>2 DEF CreateNamespaces, CreatedStatus, ReadyNamespaces, Present, TypeOK, Registries
    <3> QED
      BY <3>1
  <2>3. ASSUME NEW ns \in pass.todo, At("prune"), registry' = [registry EXCEPT ![ns] = "absent"]
        PROVE  Gone \subseteq asked.removed
    <3>1. Gone \subseteq {ns} /\ ns \in Namespaces
      BY ZenonT(60), <2>3 DEF Present, TypeOK, Registries, Passes
    <3>2. ns \notin pass.cluster.namespaces /\ Remembered(pass.cluster)
      BY <2>3 DEF Inv, PassInv, HistoryInv, At
    <3> QED
      BY <3>1, <3>2 DEF Remembered
  <2>4. CASE At("purging")
    <3>1. HasData
      BY ZenonT(60) DEF HasData
    <3> QED
      BY <2>4, <3>1 DEF Inv, DoomInv, PurgeSteps, At
  <2>5. \/ registry' = registry \/ CreateNamespaces \/ ReadyNamespaces \/ At("purging")
        \/ At("prune") /\ \E ns \in pass.todo : registry' = [registry EXCEPT ![ns] = "absent"]
    BY ZenonT(60) DEF Next, Pass, Environment, StartPass, EnsureEtcdFinalizer, ValidatePlacementWithStatus,
       SetStatusPlacementCreated, ListNamespaces, PruneNamespaces,
       DeleteAllNamespaces, DeletePlacement, RemoveEtcdFinalizer, SyncCluster, EditCluster,
       DeleteCluster, CreateCluster, PassAborts, Ask, etcd
  <2> QED
    BY <2>1, <2>2, <2>3, <2>4, <2>5
<1> QED
  BY <1>1, Invariance, PTL DEF Spec, NamespacesRemovedOnRequest

=============================================================================
