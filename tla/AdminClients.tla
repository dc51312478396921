---------------------------- MODULE AdminClients ----------------------------
(***************************************************************************)
(* multiAdminClient (pkg/controller/m3admin_client.go): the clients of the *)
(* coordinators, made when a cluster first needs one and kept in maps that *)
(* all workers share under a read-write lock.                              *)
(*                                                                         *)
(* The reading and the writing of a map are steps of their own, between    *)
(* taking and releasing the lock.  A definition named X_Wrong... is X with *)
(* a bug that the code could have had.                                     *)
(***************************************************************************)
EXTENDS Naturals

CONSTANTS
  Workers,   \* the goroutines that handle clusters
  Clusters,  \* the names of clusters: namespace/name
  Kinds,     \* the kinds of clients: namespaces, placements, topics
  Zones,     \* the values of the zone in a cluster's spec
  UseProxy,  \* the operator talks to coordinators through kubectl proxy
  MaxEdits   \* bound: edits of clusters

ASSUME ClientsAssumption == UseProxy \in BOOLEAN /\ MaxEdits \in Nat

(***************************************************************************)
(* What of a cluster's spec matters here: the endpoint of an external      *)
(* coordinator, which clusters may share, and the zone.                    *)
(***************************************************************************)
Specs == [endpoint : {"none", "shared", "malformed"}, zone : Zones]

(***************************************************************************)
(* clusterURL and clusterURLProxy: the cluster's own coordinator service,  *)
(* which the proxy always takes, or the external endpoint.                 *)
(***************************************************************************)
Urls == {<<"service", c>> : c \in Clusters} \cup {<<"shared", "">>, <<"malformed", "">>}
ClusterURL(c, spec) ==
  IF spec.endpoint = "none" \/ UseProxy THEN <<"service", c>> ELSE <<spec.endpoint, "">>
Parses(url) == url[1] # "malformed"

(***************************************************************************)
(* clusterKey, and DefaultM3ClusterEnvironmentName.                        *)
(***************************************************************************)
Keys == Clusters \X Zones \X Urls
ClusterKey_WrongSpecIgnored(c, spec) ==
  <<c, CHOOSE z \in Zones : TRUE, <<"service", c>>>>
ClusterKey(c, spec) == <<c, spec.zone, ClusterURL(c, spec)>>
Environment_WrongShared(c) == CHOOSE d \in Clusters : TRUE
Environment(c) == c

(***************************************************************************)
(* A client: where it sends requests, and the environment and zone it puts *)
(* in their headers.                                                       *)
(***************************************************************************)
RealClients == [url : Urls, env : Clusters, zone : Zones]
NoClient == [error |-> "none"]
ErrorClient == [error |-> "URL does not parse"]

Idle == [pc |-> "idle"]
Busy == [pc : {"lookup", "reading", "create", "publish", "writing", "ready"},
         cluster : Clusters, spec : Specs, kind : Kinds,
         client : RealClients \cup {NoClient, ErrorClient}]

VARIABLES
  specs,    \* the clusters' specs
  clients,  \* nsClients, plClients and tpClients
  lock,     \* mu: who holds it for reading, who for writing
  worker,   \* the local variables of each worker
  edits     \* edits that may still come

clientVars == <<specs, clients, lock, worker, edits>>

-----------------------------------------------------------------------------
At(w, step) == worker[w].pc = step
Goto(w, step) == worker' = [worker EXCEPT ![w].pc = step]
KeyOf(w) == ClusterKey(worker[w].cluster, worker[w].spec)
InMap(w) == clients[worker[w].kind][KeyOf(w)]

(***************************************************************************)
(* namespaceClientForCluster, placementClientForCluster and                *)
(* topicClientForCluster are the same but for the kind.  A worker has a    *)
(* cluster to itself (the work queue sees to it), and a copy of its spec.  *)
(***************************************************************************)
ClientForCluster(w, c, kind) ==
  /\ At(w, "idle")
  /\ \A v \in Workers : ~At(v, "idle") => worker[v].cluster # c
  /\ worker' = [worker EXCEPT ![w] = [pc |-> "lookup", cluster |-> c, spec |-> specs[c],
                                      kind |-> kind, client |-> NoClient]]
  /\ UNCHANGED <<specs, clients, lock, edits>>

RLock_WrongUnlocked(w) ==
  /\ At(w, "lookup")
  /\ Goto(w, "reading")
  /\ UNCHANGED <<specs, clients, lock, edits>>

RLock(w) ==
  /\ At(w, "lookup")
  /\ lock.writer = {}
  /\ lock' = [lock EXCEPT !.readers = @ \cup {w}]
  /\ Goto(w, "reading")
  /\ UNCHANGED <<specs, clients, edits>>

RUnlock(w) ==
  /\ At(w, "reading")
  /\ lock' = [lock EXCEPT !.readers = @ \ {w}]
  /\ IF InMap(w) # NoClient
     THEN worker' = [worker EXCEPT ![w].pc = "ready", ![w].client = InMap(w)]
     ELSE Goto(w, "create")
  /\ UNCHANGED <<specs, clients, edits>>

(***************************************************************************)
(* Outside the lock: the HTTP client of adminClientForCluster, and on top  *)
(* of it the client of the kind.  A URL that does not parse leads to a     *)
(* client that answers every call with the error, and is not kept.         *)
(***************************************************************************)
NewAdminClient(w) ==
  [url |-> ClusterURL(worker[w].cluster, worker[w].spec),
   env |-> Environment(worker[w].cluster), zone |-> worker[w].spec.zone]

NewClient_WrongErrorKept(w) ==
  /\ At(w, "create")
  /\ worker' = [worker EXCEPT
                  ![w].pc = "publish",
                  ![w].client = IF Parses(NewAdminClient(w).url) THEN NewAdminClient(w) ELSE ErrorClient]
  /\ UNCHANGED <<specs, clients, lock, edits>>

NewClient(w) ==
  /\ At(w, "create")
  /\ worker' = [worker EXCEPT
                  ![w].pc = IF Parses(NewAdminClient(w).url) THEN "publish" ELSE "ready",
                  ![w].client = IF Parses(NewAdminClient(w).url) THEN NewAdminClient(w) ELSE ErrorClient]
  /\ UNCHANGED <<specs, clients, lock, edits>>

Lock(w) ==
  /\ At(w, "publish")
  /\ lock.readers = {} /\ lock.writer = {}
  /\ lock' = [lock EXCEPT !.writer = {w}]
  /\ Goto(w, "writing")
  /\ UNCHANGED <<specs, clients, edits>>

(***************************************************************************)
(* "Check if someone else created a client before us."                     *)
(***************************************************************************)
Unlock(w) ==
  /\ At(w, "writing")
  /\ IF InMap(w) # NoClient
     THEN worker' = [worker EXCEPT ![w].pc = "ready", ![w].client = InMap(w)] /\ UNCHANGED clients
     ELSE Goto(w, "ready") /\ clients' = [clients EXCEPT ![worker[w].kind][KeyOf(w)] = worker[w].client]
  /\ lock' = [lock EXCEPT !.writer = {}]
  /\ UNCHANGED <<specs, edits>>

(***************************************************************************)
(* Users edit the spec, also while a worker holds a copy.                  *)
(***************************************************************************)
EditSpec(c, spec) ==
  /\ edits > 0 /\ edits' = edits - 1
  /\ spec # specs[c]
  /\ specs' = [specs EXCEPT ![c] = spec]
  /\ UNCHANGED <<clients, lock, worker>>

ClientsInit ==
  /\ specs \in [Clusters -> Specs]
  /\ clients = [k \in Kinds |-> [key \in Keys |-> NoClient]]
  /\ lock = [readers |-> {}, writer |-> {}]
  /\ worker = [w \in Workers |-> Idle]
  /\ edits = MaxEdits

Lookup(w) ==
  \/ \E c \in Clusters, kind \in Kinds : ClientForCluster(w, c, kind)
  \/ RLock(w) \/ RUnlock(w) \/ NewClient(w) \/ Lock(w) \/ Unlock(w)

Users == \E c \in Clusters, spec \in Specs : EditSpec(c, spec)

-----------------------------------------------------------------------------
(***************************************************************************)
(* Nobody reads or writes a map while somebody writes it: Go's maps do not *)
(* survive that.                                                           *)
(***************************************************************************)
NoMapRace ==
  \A v, w \in Workers : v # w /\ At(v, "writing") => ~At(w, "writing") /\ ~At(w, "reading")

=============================================================================
