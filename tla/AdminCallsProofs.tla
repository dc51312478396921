-------------------------- MODULE AdminCallsProofs --------------------------
(***************************************************************************)
(* What AdminCalls promises, for any number of workers, clusters, kinds,   *)
(* zones, edits and retries.                                               *)
(***************************************************************************)
EXTENDS AdminCalls, TLAPS

(***************************************************************************)
(* The lock is held by those who are reading or writing.                   *)
(***************************************************************************)
LockInv ==
  /\ \A w \in Workers : At(w, "reading") <=> w \in lock.readers
  /\ \A w \in Workers : At(w, "writing") <=> w \in lock.writer
  /\ \A v, w \in lock.writer : v = w
  /\ lock.writer # {} => lock.readers = {}

(***************************************************************************)
(* A client in a map is the one its key asks for, and so is the client of  *)
(* a worker about to add it.                                               *)
(***************************************************************************)
MapInv ==
  \A k \in Kinds, c \in Clusters, s \in Specs :
    LET client == clients[k][ClusterKey(c, s)]
    IN  client # NoClient =>
          client = [url |-> ClusterURL(c, s), env |-> c, zone |-> s.zone]

WorkerInv ==
  \A w \in Workers :
    /\ worker[w].pc \in {"publish", "writing"} => worker[w].client = NewAdminClient(w)
    /\ At(w, "ready") /\ worker[w].client # ErrorClient =>
         worker[w].client # NoClient /\ InMap(w) = worker[w].client

(***************************************************************************)
(* A cluster is handled by one worker.                                     *)
(***************************************************************************)
ExclusiveInv ==
  \A v, w \in Workers :
    v # w /\ ~At(v, "idle") /\ ~At(w, "idle") => worker[v].cluster # worker[w].cluster

(***************************************************************************)
(* What an open call has done, and what the status code says of it.        *)
(***************************************************************************)
CallOK(w) ==
  /\ ~Open(w) => http[w].code = NotServed
  /\ Open(w) =>
       /\ At(w, "ready") /\ call[w].target = TargetOf(w)
       /\ call[w].done => /\ call[w].op = "create" => TargetOf(w) \in data
                          /\ call[w].op = "delete" => TargetOf(w) \notin data
       /\ http[w].code = 200 => IF call[w].op = "get" THEN TargetOf(w) \in data ELSE call[w].done
       /\ http[w].code = 404 => call[w].op # "create" /\ TargetOf(w) \notin data

CallInv == \A w \in Workers : CallOK(w)

Inv == TypeOK /\ LockInv /\ MapInv /\ WorkerInv /\ ExclusiveInv /\ CallInv

-----------------------------------------------------------------------------
(***************************************************************************)
(* Keys, and what they tell apart.                                         *)
(***************************************************************************)
LEMMA KeyTypes ==
  ASSUME NEW c \in Clusters, NEW s \in Specs
  PROVE  ClusterURL(c, s) \in Urls /\ ClusterKey(c, s) \in Keys
<1>1. s.endpoint \in {"none", "shared", "malformed"} /\ s.zone \in Zones
  BY DEF Specs
<1>2. ClusterURL(c, s) \in Urls
  BY ZenonT(60), <1>1 DEF ClusterURL, Urls
<1> QED
  BY <1>1, <1>2 DEF ClusterKey, Keys

(***************************************************************************)
(* Missing, failing and working clients are not mixed up.                  *)
(***************************************************************************)
LEMMA ClientsDiffer ==
  /\ NoClient # ErrorClient
  /\ \A r \in RealClients : r # NoClient /\ r # ErrorClient
<1>1. NoClient.error # ErrorClient.error
  BY DEF NoClient, ErrorClient
<1>2. ASSUME NEW r \in RealClients PROVE r # NoClient /\ r # ErrorClient
  <2>1. "url" \in DOMAIN r
    BY DEF RealClients
  <2>2. "url" \notin DOMAIN NoClient /\ "url" \notin DOMAIN ErrorClient
    BY DEF NoClient, ErrorClient
  <2> QED
    BY <2>1, <2>2
<1> QED
  BY <1>1, <1>2

(***************************************************************************)
(* What the types say of a worker that is not idle, and of its call.       *)
(***************************************************************************)
LEMMA BusyTypes ==
  ASSUME TypeOK, NEW w \in Workers, ~At(w, "idle")
  PROVE  /\ worker[w] \in Busy
         /\ KeyOf(w) \in Keys /\ TargetOf(w) \in Targets
         /\ NewAdminClient(w) \in RealClients
         /\ InMap(w) \in RealClients \cup {NoClient}
<1>1. worker[w] \in Busy
  BY DEF TypeOK, At, Idle
<1>2. /\ worker[w].cluster \in Clusters /\ worker[w].spec \in Specs
      /\ worker[w].kind \in Kinds /\ worker[w].spec.zone \in Zones
  BY <1>1 DEF Busy, Specs
<1>3. KeyOf(w) \in Keys /\ NewAdminClient(w) \in RealClients
  BY <1>2, KeyTypes DEF KeyOf, NewAdminClient, RealClients, Environment
<1> QED
  BY <1>1, <1>2, <1>3 DEF TargetOf, Targets, InMap, TypeOK

(***************************************************************************)
(* The parts of a call that is open have their types.                      *)
(***************************************************************************)
LEMMA OpenTypes ==
  ASSUME TypeOK, NEW w \in Workers, Open(w)
  PROVE  /\ call[w] \in [status : {"open"}, target : Targets, op : Ops, done : BOOLEAN]
         /\ call[w].op \in Ops /\ call[w].done \in BOOLEAN
<1>1. call[w] \in Calls
  BY DEF TypeOK
<1>2. call[w] \in [status : {"open"}, target : Targets, op : Ops, done : BOOLEAN]
  BY <1>1 DEF Calls, Open
<1> QED
  BY <1>2

(***************************************************************************)
(* The headers of a request name the data of the worker's own cluster.     *)
(***************************************************************************)
LEMMA RightTarget ==
  ASSUME TypeOK, MapInv, WorkerInv, NEW w \in Workers, At(w, "ready"),
         worker[w].client # ErrorClient
  PROVE  /\ InMap(w) = worker[w].client
         /\ worker[w].client.url = ClusterURL(worker[w].cluster, worker[w].spec)
         /\ Header(w) = TargetOf(w) /\ TargetOf(w) \in Targets
<1>1. worker[w] \in Busy /\ TargetOf(w) \in Targets
  BY BusyTypes DEF At
<1>2. worker[w].cluster \in Clusters /\ worker[w].spec \in Specs /\ worker[w].kind \in Kinds
  BY <1>1 DEF Busy
<1>3. worker[w].client # NoClient /\ InMap(w) = worker[w].client
  BY DEF WorkerInv
<1>4. worker[w].client = [url |-> ClusterURL(worker[w].cluster, worker[w].spec),
                          env |-> worker[w].cluster, zone |-> worker[w].spec.zone]
  BY ZenonT(60), <1>2, <1>3 DEF MapInv, InMap, KeyOf
<1> QED
  BY <1>1, <1>3, <1>4 DEF Header, TargetOf

(***************************************************************************)
(* A lookup keeps what it is for, and does not touch other workers.        *)
(***************************************************************************)
LEMMA LookupKeeps ==
  ASSUME TypeOK, NEW w \in Workers,
         RLock(w) \/ RUnlock(w) \/ NewClient(w) \/ Lock(w) \/ Unlock(w)
  PROVE  /\ \A v \in Workers \ {w} : worker'[v] = worker[v]
         /\ worker'[w].cluster = worker[w].cluster /\ worker'[w].spec = worker[w].spec
         /\ worker'[w].kind = worker[w].kind
         /\ RLock(w) => worker'[w].pc = "reading" /\ worker'[w].client = worker[w].client
         /\ RUnlock(w) => IF InMap(w) # NoClient
                          THEN worker'[w].pc = "ready" /\ worker'[w].client = InMap(w)
                          ELSE worker'[w].pc = "create"
         /\ NewClient(w) => IF Parses(NewAdminClient(w).url)
                            THEN worker'[w].pc = "publish" /\ worker'[w].client = NewAdminClient(w)
                            ELSE worker'[w].pc = "ready" /\ worker'[w].client = ErrorClient
         /\ Lock(w) => worker'[w].pc = "writing" /\ worker'[w].client = worker[w].client
         /\ Unlock(w) => /\ worker'[w].pc = "ready"
                         /\ worker'[w].client = IF InMap(w) # NoClient THEN InMap(w) ELSE worker[w].client
<1>1. worker[w] \in Busy
  BY BusyTypes DEF RLock, RUnlock, NewClient, Lock, Unlock, At
<1>2. CASE RLock(w)
  BY <1>1, <1>2 DEF RLock, Goto, TypeOK, Busy, RUnlock, NewClient, Lock, Unlock, At
<1>3. CASE RUnlock(w)
  BY <1>1, <1>3 DEF RUnlock, Goto, TypeOK, Busy, RLock, NewClient, Lock, Unlock, At
<1>4. CASE NewClient(w)
  BY <1>1, <1>4 DEF NewClient, Goto, TypeOK, Busy, RLock, RUnlock, Lock, Unlock, At
<1>5. CASE Lock(w)
  BY ZenonT(60), <1>1, <1>5 DEF Lock, Goto, TypeOK, Busy, RLock, RUnlock, NewClient, Unlock, At
<1>6. CASE Unlock(w)
  BY <1>1, <1>6 DEF Unlock, Goto, TypeOK, Busy, RLock, RUnlock, NewClient, Lock, At
<1> QED
  BY <1>2, <1>3, <1>4, <1>5, <1>6

(***************************************************************************)
(* What serving a request does to the data.                                *)
(***************************************************************************)
LEMMA ServedData ==
  ASSUME TypeOK, NEW w \in Workers, Serve(w)
  PROVE  \/ call[w].op = "create" /\ data' = data \cup {Header(w)}
         \/ call[w].op = "delete" /\ data' = data \ {Header(w)}
         \/ call[w].op = "get" /\ data' = data
<1>1. call[w].op \in {"create", "delete", "get"}
  BY OpenTypes DEF Serve, Sending, Ops
<1> QED
  BY <1>1 DEF Serve

(***************************************************************************)
(* Type correctness.                                                       *)
(***************************************************************************)
LEMMA TypeStep == Inv /\ [Next]_vars => TypeOK'
<1> SUFFICES ASSUME Inv, [Next]_vars PROVE TypeOK'
  OBVIOUS
<1> USE DEF Inv
<1> DEFINE CallTypes == /\ data \in SUBSET Targets /\ call \in [Workers -> Calls]
                        /\ http \in [Workers -> [tries : 0..MaxRetries, code : Codes]]
<1>0. CallTypes /\ UNCHANGED <<data, call, http>> => CallTypes'
  OBVIOUS
<1>1. ASSUME NEW c \in Clusters, NEW s \in Specs, EditSpec(c, s), UNCHANGED <<data, call, http>>
      PROVE  TypeOK'
  BY <1>0, <1>1 DEF TypeOK, EditSpec
<1>2. ASSUME NEW w \in Workers, Lookup(w), UNCHANGED <<data, call, http>> PROVE TypeOK'
  <2>1. ASSUME NEW c \in Clusters, NEW k \in Kinds, ClientForCluster(w, c, k) PROVE TypeOK'
    <3>1. [pc |-> "lookup", cluster |-> c, spec |-> specs[c], kind |-> k, client |-> NoClient] \in Busy
      BY DEF TypeOK, Busy
    <3> QED
      BY <1>0, <1>2, <2>1, <3>1 DEF TypeOK, ClientForCluster
  <2>2. CASE RLock(w)
    <3>1. [worker[w] EXCEPT !.pc = "reading"] \in Busy
      BY <2>2, BusyTypes DEF RLock, At, Busy
    <3> QED
      BY ZenonT(60), <1>0, <1>2, <2>2, <3>1 DEF TypeOK, RLock, Goto
  <2>3. CASE RUnlock(w)
    <3>1. worker[w] \in Busy /\ InMap(w) \in RealClients \cup {NoClient}
      BY <2>3, BusyTypes DEF RUnlock, At
    <3>2. /\ [worker[w] EXCEPT !.pc = "create"] \in Busy
          /\ [worker[w] EXCEPT !.pc = "ready", !.client = InMap(w)] \in Busy
      BY ZenonT(60), <3>1 DEF Busy
    <3>3. worker' \in [Workers -> Busy \cup {Idle}]
      BY ZenonT(60), <2>3, <3>2 DEF RUnlock, Goto, TypeOK
    <3> QED
      BY ZenonT(60), <1>0, <1>2, <2>3, <3>3 DEF TypeOK, RUnlock
  <2>4. CASE NewClient(w)
    <3>1. worker[w] \in Busy /\ NewAdminClient(w) \in RealClients
      BY <2>4, BusyTypes DEF NewClient, At
    <3>2. /\ [worker[w] EXCEPT !.pc = "publish", !.client = NewAdminClient(w)] \in Busy
          /\ [worker[w] EXCEPT !.pc = "ready", !.client = ErrorClient] \in Busy
      BY ZenonT(60), <3>1 DEF Busy
    <3>3. worker' \in [Workers -> Busy \cup {Idle}]
      BY ZenonT(60), <2>4, <3>2 DEF NewClient, TypeOK
    <3> QED
      BY <1>0, <1>2, <2>4, <3>3 DEF TypeOK, NewClient
  <2>5. CASE Lock(w)
    <3>1. [worker[w] EXCEPT !.pc = "writing"] \in Busy
      BY <2>5, BusyTypes DEF Lock, At, Busy
    <3> QED
      BY ZenonT(60), <1>0, <1>2, <2>5, <3>1 DEF TypeOK, Lock, Goto
  <2>6. CASE Unlock(w)
    <3>1. /\ worker[w] \in Busy /\ InMap(w) \in RealClients \cup {NoClient}
          /\ worker[w].client \in RealClients /\ KeyOf(w) \in Keys /\ worker[w].kind \in Kinds
      BY <2>6, BusyTypes DEF Unlock, At, WorkerInv, Busy
    <3>2. /\ [worker[w] EXCEPT !.pc = "ready"] \in Busy
          /\ [worker[w] EXCEPT !.pc = "ready", !.client = InMap(w)] \in Busy
      BY ZenonT(60), <3>1 DEF Busy
    <3>3. worker' \in [Workers -> Busy \cup {Idle}]
      BY ZenonT(60), <2>6, <3>2 DEF Unlock, Goto, TypeOK
    <3>4. clients' \in [Kinds -> [Keys -> RealClients \cup {NoClient}]]
      <4>1. [clients[worker[w].kind] EXCEPT ![KeyOf(w)] = worker[w].client]
              \in [Keys -> RealClients \cup {NoClient}]
        BY <3>1 DEF TypeOK
      <4> QED
        BY ZenonT(60), <2>6, <3>1, <4>1 DEF Unlock, TypeOK
    <3> QED
      BY ZenonT(60), <1>0, <1>2, <2>6, <3>3, <3>4 DEF TypeOK, Unlock
  <2> QED
    BY <1>2, <2>1, <2>2, <2>3, <2>4, <2>5, <2>6 DEF Lookup
<1>3. ASSUME NEW w \in Workers, Call(w) PROVE TypeOK'
  <2>1. ASSUME NEW op \in Ops, Request(w, op) PROVE TypeOK'
    <3>1. TargetOf(w) \in Targets
      BY <2>1, BusyTypes DEF Request, At
    <3>2. [status |-> "open", op |-> op, done |-> FALSE, target |-> TargetOf(w)] \in Calls
      BY <3>1 DEF Calls
    <3> QED
      BY ZenonT(60), <2>1, <3>2 DEF TypeOK, Request, clientVars
  <2>2. ASSUME NEW result \in Results, Return(w, result) PROVE TypeOK'
    <3>1. [status |-> "answered", result |-> result] \in Calls
      BY DEF Calls
    <3>2. FirstTry \in [tries : 0..MaxRetries, code : Codes]
      BY RetriesAssumption DEF FirstTry, Codes, NotServed
    <3> QED
      BY <2>2, <3>1, <3>2 DEF TypeOK, Return
  <2>3. CASE ErrorClientCall(w) \/ GiveUp(w) \/ Answered(w)
    BY <2>2, <2>3 DEF ErrorClientCall, GiveUp, Answered, ResultOf, Results
  <2>4. CASE Serve(w)
    <3>1. PICK code \in {StatusCode(call[w].op, There(w)), 500} :
            http' = [http EXCEPT ![w].code = code]
      BY ZenonT(60), <2>4 DEF Serve
    <3>2. code \in Codes
      BY <3>1 DEF StatusCode, Codes
    <3>3. http' \in [Workers -> [tries : 0..MaxRetries, code : Codes]]
      <4>1. [http[w] EXCEPT !.code = code] \in [tries : 0..MaxRetries, code : Codes]
        BY <3>2 DEF TypeOK
      <4> QED
        BY <3>1, <4>1 DEF TypeOK
    <3>4. [call[w] EXCEPT !.done = TRUE] \in Calls
      <4>1. call[w] \in [status : {"open"}, target : Targets, op : Ops, done : BOOLEAN]
        BY <2>4, OpenTypes DEF Serve, Sending
      <4>2. [call[w] EXCEPT !.done = TRUE]
              \in [status : {"open"}, target : Targets, op : Ops, done : BOOLEAN]
        BY ZenonT(60), <4>1
      <4> QED
        BY <4>2 DEF Calls
    <3>5. call' \in [Workers -> Calls]
      <4>1. [call EXCEPT ![w].done = TRUE] \in [Workers -> Calls]
        BY <3>4 DEF TypeOK
      <4> QED
        BY <2>4, <4>1 DEF Serve, TypeOK
    <3>6. data' \in SUBSET Targets
      <4>1. At(w, "ready") /\ worker[w].client # ErrorClient
        BY <2>4 DEF Serve, Sending, CallInv, CallOK
      <4>2. Header(w) \in Targets
        BY <4>1, RightTarget
      <4> QED
        BY <2>4, <4>2, ServedData DEF TypeOK
    <3> QED
      BY ZenonT(60), <2>4, <3>3, <3>5, <3>6 DEF TypeOK, Serve, clientVars
  <2>5. CASE Retry(w)
    <3>1. [tries |-> http[w].tries + 1, code |-> NotServed] \in [tries : 0..MaxRetries, code : Codes]
      BY <2>5, RetriesAssumption DEF Retry, CanRetry, TypeOK, Codes, NotServed
    <3> QED
      BY <2>5, <3>1 DEF TypeOK, Retry, clientVars
  <2> QED
    BY <1>3, <2>1, <2>3, <2>4, <2>5 DEF Call
<1>4. CASE UNCHANGED vars
  BY <1>4 DEF TypeOK, vars, clientVars
<1> QED
  BY <1>1, <1>2, <1>3, <1>4 DEF Next, Users

(***************************************************************************)
(* The lock.                                                               *)
(***************************************************************************)
LEMMA LockStep == Inv /\ [Next]_vars => LockInv'
<1> SUFFICES ASSUME TypeOK, LockInv, CallInv, [Next]_vars PROVE LockInv'
  BY DEF Inv
<1>1. CASE UNCHANGED <<lock, worker>>
  BY <1>1 DEF LockInv, At
<1>2. ASSUME NEW w \in Workers, NEW step \in {"lookup", "create", "publish", "ready", "idle"},
             UNCHANGED lock, worker[w].pc \notin {"reading", "writing"}, worker'[w].pc = step,
             \A v \in Workers \ {w} : worker'[v] = worker[v]
      PROVE  LockInv'
  BY <1>2 DEF LockInv, At
<1>3. ASSUME NEW w \in Workers, Lookup(w) PROVE LockInv'
  <2>1. ASSUME NEW c \in Clusters, NEW k \in Kinds, ClientForCluster(w, c, k) PROVE LockInv'
    BY ZenonT(60), <1>2, <2>1 DEF ClientForCluster, TypeOK, At
  <2>2. CASE RLock(w)
    BY <2>2 DEF RLock, Goto, TypeOK, At, LockInv
  <2>3. CASE RUnlock(w)
    <3>1. worker'[w].pc \in {"ready", "create"} /\ \A v \in Workers \ {w} : worker'[v] = worker[v]
      BY <2>3, LookupKeeps
    <3>2. worker[w].pc = "reading" /\ lock'.writer = lock.writer /\ lock'.readers = lock.readers \ {w}
      BY <2>3 DEF RUnlock, At, TypeOK
    <3> QED
      BY <3>1, <3>2 DEF LockInv, At
  <2>4. CASE NewClient(w)
    BY SMTT(60), <1>2, <2>4 DEF NewClient, TypeOK, At
  <2>5. CASE Lock(w)
    BY <2>5 DEF Lock, Goto, TypeOK, At, LockInv
  <2>6. CASE Unlock(w)
    <3>1. worker'[w].pc = "ready" /\ \A v \in Workers \ {w} : worker'[v] = worker[v]
      BY <2>6, LookupKeeps
    <3>2. worker[w].pc = "writing" /\ lock'.writer = {} /\ lock'.readers = lock.readers
      BY <2>6 DEF Unlock, At, TypeOK
    <3> QED
      BY <3>1, <3>2 DEF LockInv, At
  <2> QED
    BY ZenonT(60), <1>3, <2>1, <2>2, <2>3, <2>4, <2>5, <2>6 DEF Lookup
<1>4. ASSUME NEW w \in Workers, Call(w) PROVE LockInv'
  <2>1. ASSUME NEW result \in Results, Return(w, result), Open(w) PROVE LockInv'
    <3>1. worker[w].pc = "ready"
      BY <2>1 DEF CallInv, CallOK, At
    <3>2. worker'[w].pc = "idle" /\ UNCHANGED lock
          /\ \A v \in Workers \ {w} : worker'[v] = worker[v]
      BY <2>1 DEF Return, TypeOK, Idle
    <3> QED
      BY ZenonT(60), <1>2, <3>1, <3>2
  <2>2. CASE ErrorClientCall(w) \/ GiveUp(w) \/ Answered(w)
    BY ZenonT(60), <2>1, <2>2 DEF ErrorClientCall, GiveUp, Answered, ResultOf, Results, Sending
  <2> QED
    BY <1>1, <1>4, <2>2 DEF Call, Request, Serve, Retry, clientVars
<1> QED
  BY <1>1, <1>3, <1>4 DEF Next, Users, EditSpec, vars, clientVars

(***************************************************************************)
(* The maps only grow, by the client that the key asks for.                *)
(***************************************************************************)
LEMMA MapGrows ==
  ASSUME Inv, NEW w \in Workers, Unlock(w)
  PROVE  /\ \A k \in Kinds, key \in Keys :
              clients[k][key] # NoClient => clients'[k][key] = clients[k][key]
         /\ \A k \in Kinds, key \in Keys :
              \/ clients'[k][key] = clients[k][key]
              \/ k = worker[w].kind /\ key = KeyOf(w) /\ clients'[k][key] = worker[w].client
         /\ clients'[worker[w].kind][KeyOf(w)] =
              IF InMap(w) # NoClient THEN InMap(w) ELSE worker[w].client
<1>1. worker[w] \in Busy /\ KeyOf(w) \in Keys
  BY ZenonT(60), BusyTypes DEF Inv, Unlock, At
<1>2. worker[w].kind \in Kinds
  BY <1>1 DEF Busy
<1>3. CASE InMap(w) # NoClient
  BY ZenonT(60), <1>3 DEF Unlock, InMap
<1>4. CASE InMap(w) = NoClient
  <2>1. clients' = [clients EXCEPT ![worker[w].kind][KeyOf(w)] = worker[w].client]
    BY <1>4 DEF Unlock
  <2>2. clients \in [Kinds -> [Keys -> RealClients \cup {NoClient}]]
    BY ZenonT(60) DEF Inv, TypeOK
  <2> HIDE DEF KeyOf
  <2>3. clients[worker[w].kind][KeyOf(w)] = NoClient
    BY <1>4 DEF InMap
  <2> QED
    BY <1>1, <1>2, <1>4, <2>1, <2>2, <2>3
<1> QED
  BY <1>3, <1>4

(***************************************************************************)
(* A client is kept under a key only by whoever made it for that key, so   *)
(* the map stays right.                                                    *)
(***************************************************************************)
LEMMA MapStep == Inv /\ [Next]_vars => MapInv'
<1> SUFFICES ASSUME Inv, [Next]_vars PROVE MapInv'
  BY ZenonT(60)
<1>1. CASE UNCHANGED clients
  BY ZenonT(60), <1>1 DEF MapInv, Inv
<1>2. ASSUME NEW w \in Workers, Unlock(w) PROVE MapInv'
  <2> SUFFICES ASSUME NEW k \in Kinds, NEW c \in Clusters, NEW s \in Specs,
                      clients'[k][ClusterKey(c, s)] # NoClient
               PROVE  clients'[k][ClusterKey(c, s)] =
                        [url |-> ClusterURL(c, s), env |-> c, zone |-> s.zone]
    BY DEF MapInv
  <2>1. ClusterKey(c, s) \in Keys
    BY ZenonT(60), KeyTypes
  <2>2. CASE clients'[k][ClusterKey(c, s)] = clients[k][ClusterKey(c, s)]
    BY ZenonT(60), <2>2 DEF MapInv, Inv
  <2>3. CASE ClusterKey(c, s) = KeyOf(w) /\ clients'[k][ClusterKey(c, s)] = worker[w].client
    <3>1. worker[w].client = NewAdminClient(w)
      BY ZenonT(60), <1>2 DEF Inv, WorkerInv, Unlock, At
    <3>2. /\ c = worker[w].cluster /\ s.zone = worker[w].spec.zone
          /\ ClusterURL(c, s) = ClusterURL(worker[w].cluster, worker[w].spec)
      BY <2>3 DEF KeyOf, ClusterKey
    <3> QED
      BY <2>3, <3>1, <3>2 DEF NewAdminClient, Environment
  <2> QED
    BY ZenonT(60), <1>2, <2>1, <2>2, <2>3, MapGrows
<1>3. ASSUME NEW w \in Workers, Lookup(w) PROVE MapInv'
  BY <1>1, <1>2, <1>3 DEF Lookup, ClientForCluster, RLock, RUnlock, NewClient, Lock
<1>4. ASSUME NEW w \in Workers, Call(w) PROVE MapInv'
  BY ZenonT(60), <1>1, <1>4 DEF Call, Request, ErrorClientCall, Serve, Retry, GiveUp, Answered, Return, clientVars
<1> QED
  BY <1>1, <1>3, <1>4 DEF Next, Users, EditSpec, vars, clientVars

(***************************************************************************)
(* What workers hold.                                                      *)
(***************************************************************************)
LEMMA WorkerStep == Inv /\ [Next]_vars => WorkerInv'
<1> SUFFICES ASSUME Inv, [Next]_vars, NEW u \in Workers
             PROVE  /\ worker'[u].pc \in {"publish", "writing"} =>
                         worker'[u].client = NewAdminClient(u)'
                    /\ worker'[u].pc = "ready" /\ worker'[u].client # ErrorClient =>
                         worker'[u].client # NoClient /\ InMap(u)' = worker'[u].client
  BY ZenonT(60) DEF WorkerInv, At
<1> DEFINE Kept(v) == worker'[v].cluster = worker[v].cluster /\ worker'[v].spec = worker[v].spec
                      /\ worker'[v].kind = worker[v].kind
<1>0. Kept(u) => /\ NewAdminClient(u)' = NewAdminClient(u) /\ KeyOf(u)' = KeyOf(u)
                 /\ UNCHANGED clients => InMap(u)' = InMap(u)
  BY ZenonT(60) DEF NewAdminClient, KeyOf, InMap
<1>1. CASE UNCHANGED <<clients, worker>>
  BY <1>0, <1>1 DEF Inv, WorkerInv, At
<1>2. CASE worker'[u] = worker[u] /\ UNCHANGED clients
  BY <1>0, <1>2 DEF Inv, WorkerInv, At
<1>3. CASE worker'[u].pc \in {"idle", "lookup", "reading", "create"}
  BY ZenonT(60), <1>3
<1>4. ASSUME NEW w \in Workers, Lookup(w), u = w
      PROVE  \/ worker'[u].pc \in {"idle", "lookup", "reading", "create"}
             \/ /\ worker'[u].pc \in {"publish", "writing"}
                /\ worker'[u].client = NewAdminClient(u)'
             \/ /\ worker'[u].pc = "ready"
                /\ \/ worker'[u].client = ErrorClient
                   \/ worker'[u].client # NoClient /\ InMap(u)' = worker'[u].client
  <2>1. ASSUME NEW c \in Clusters, NEW k \in Kinds, ClientForCluster(w, c, k)
        PROVE  worker'[u].pc = "lookup"
    BY ZenonT(60), <1>4, <2>1 DEF ClientForCluster, Inv, TypeOK
  <2>2. CASE RLock(w)
    BY ZenonT(60), <1>4, <2>2, LookupKeeps DEF Inv
  <2>3. CASE RUnlock(w)
    BY ZenonT(60), <1>0, <1>4, <2>3, LookupKeeps DEF Inv, RUnlock
  <2>4. CASE NewClient(w)
    BY ZenonT(60), <1>0, <1>4, <2>4, LookupKeeps DEF Inv
  <2>5. CASE Lock(w)
    <3>1. worker[w].client = NewAdminClient(w)
      BY ZenonT(60), <2>5 DEF Inv, WorkerInv, Lock, At
    <3> QED
      BY <1>0, <1>4, <2>5, <3>1, LookupKeeps DEF Inv
  <2>6. CASE Unlock(w)
    <3>1. worker[w].client = NewAdminClient(w) /\ NewAdminClient(w) # NoClient
      BY ZenonT(60), <2>6, BusyTypes, ClientsDiffer DEF Inv, WorkerInv, Unlock, At
    <3>2. Kept(w)
      BY ZenonT(60), <2>6, LookupKeeps DEF Inv
    <3>3. InMap(w)' = clients'[worker[w].kind][KeyOf(w)]
      BY <1>0, <1>4, <3>2 DEF InMap
    <3> QED
      BY ZenonT(60), <1>4, <2>6, <3>1, <3>3, LookupKeeps, MapGrows DEF Inv
  <2> QED
    BY ZenonT(60), <1>4, <2>1, <2>2, <2>3, <2>4, <2>5, <2>6 DEF Lookup
<1>5. ASSUME NEW w \in Workers, Lookup(w), u # w
      PROVE  /\ worker'[u] = worker[u]
             /\ worker[u].pc = "ready" /\ worker[u].client # ErrorClient => InMap(u)' = InMap(u)
  <2>1. worker'[u] = worker[u]
    <3>1. ASSUME NEW c \in Clusters, NEW k \in Kinds, ClientForCluster(w, c, k)
          PROVE  worker'[u] = worker[u]
      BY ZenonT(60), <1>5, <3>1 DEF ClientForCluster, Inv, TypeOK
    <3> QED
      BY ZenonT(60), <1>5, <3>1, LookupKeeps DEF Lookup, Inv
  <2>2. CASE UNCHANGED clients
    BY ZenonT(60), <1>0, <2>1, <2>2
  <2>3. CASE Unlock(w)
    <3> SUFFICES ASSUME worker[u].pc = "ready", worker[u].client # ErrorClient
                 PROVE  InMap(u)' = InMap(u)
      BY <2>1
    <3>1. InMap(u) # NoClient
      BY ZenonT(60) DEF Inv, WorkerInv, At
    <3>2. KeyOf(u) \in Keys /\ worker[u].kind \in Kinds
      BY ZenonT(60), BusyTypes DEF Inv, At, Busy
    <3>3. InMap(u)' = clients'[worker[u].kind][KeyOf(u)]
      BY ZenonT(60), <1>0, <2>1 DEF InMap
    <3> QED
      BY ZenonT(60), <2>3, <3>1, <3>2, <3>3, MapGrows DEF InMap
  <2> QED
    BY ZenonT(60), <1>5, <2>2, <2>3, <2>1 DEF Lookup, ClientForCluster, RLock, RUnlock, NewClient, Lock
<1>6. ASSUME NEW w \in Workers, Call(w)
      PROVE  UNCHANGED clients /\ (worker'[u] = worker[u] \/ worker'[u].pc = "idle")
  BY <1>6 DEF Call, Request, ErrorClientCall, Serve, Retry, GiveUp, Answered, Return, clientVars,
              Inv, TypeOK, Idle
<1>7. ASSUME NEW w \in Workers, Lookup(w), u # w
      PROVE  /\ worker'[u].pc \in {"publish", "writing"} => worker'[u].client = NewAdminClient(u)'
             /\ worker'[u].pc = "ready" /\ worker'[u].client # ErrorClient =>
                  worker'[u].client # NoClient /\ InMap(u)' = worker'[u].client
  BY ZenonT(60), <1>0, <1>5, <1>7 DEF Inv, WorkerInv, At
<1>8. CASE \E w \in Workers : Lookup(w)
  BY ZenonT(60), <1>3, <1>4, <1>7, <1>8
<1>10. CASE \E w \in Workers : Call(w)
  BY <1>2, <1>3, <1>6, <1>10
<1> QED
  BY <1>1, <1>8, <1>10 DEF Next, Users, EditSpec, vars, clientVars

(***************************************************************************)
(* A worker takes a cluster that no other worker has.                      *)
(***************************************************************************)
LEMMA ExclusiveStep == Inv /\ [Next]_vars => ExclusiveInv'
<1> SUFFICES ASSUME Inv, [Next]_vars PROVE ExclusiveInv'
  OBVIOUS
<1>1. CASE UNCHANGED worker
  BY <1>1 DEF Inv, ExclusiveInv, At
<1>2. ASSUME NEW w \in Workers, NEW c \in Clusters, NEW k \in Kinds, ClientForCluster(w, c, k)
      PROVE  ExclusiveInv'
  <2>1. worker'[w].cluster = c /\ \A v \in Workers \ {w} : worker'[v] = worker[v]
    BY ZenonT(60), <1>2 DEF ClientForCluster, Inv, TypeOK
  <2>2. \A v \in Workers : ~At(v, "idle") => worker[v].cluster # c
    BY <1>2 DEF ClientForCluster
  <2> QED
    BY ZenonT(60), <2>1, <2>2 DEF Inv, ExclusiveInv, At
<1>3. ASSUME NEW w \in Workers,
             RLock(w) \/ RUnlock(w) \/ NewClient(w) \/ Lock(w) \/ Unlock(w)
      PROVE  ExclusiveInv'
  <2>1. /\ \A v \in Workers \ {w} : worker'[v] = worker[v]
        /\ worker'[w].cluster = worker[w].cluster
    BY <1>3, LookupKeeps DEF Inv
  <2>2. ~At(w, "idle")
    BY <1>3 DEF RLock, RUnlock, NewClient, Lock, Unlock, At
  <2> QED
    BY SMTT(60), <2>1, <2>2 DEF Inv, ExclusiveInv, At
<1>4. ASSUME NEW w \in Workers, NEW result, Return(w, result) PROVE ExclusiveInv'
  <2>1. worker'[w].pc = "idle" /\ \A v \in Workers \ {w} : worker'[v] = worker[v]
    BY <1>4 DEF Return, Inv, TypeOK, Idle
  <2> QED
    BY ZenonT(60), <2>1 DEF Inv, ExclusiveInv, At
<1>5. ASSUME NEW w \in Workers, Call(w) PROVE ExclusiveInv'
  BY <1>1, <1>4, <1>5 DEF Call, Request, ErrorClientCall, Serve, Retry, GiveUp, Answered, clientVars
<1> QED
  BY <1>1, <1>2, <1>3, <1>5 DEF Next, Lookup, Users, EditSpec, vars, clientVars

(***************************************************************************)
(* Calls.                                                                  *)
(***************************************************************************)
LEMMA CallStep == Inv /\ [Next]_vars => CallInv'
<1> SUFFICES ASSUME Inv, [Next]_vars, NEW u \in Workers PROVE CallOK(u)'
  BY DEF CallInv
<1>0. worker'[u] = worker[u] => TargetOf(u)' = TargetOf(u)
  BY ZenonT(60) DEF TargetOf
<1>1. CASE UNCHANGED <<call, http, data>> /\ (Open(u) => worker'[u] = worker[u])
  BY SMTT(60), <1>0, <1>1 DEF Inv, CallInv, CallOK, At, Open
<1>2. ASSUME NEW w \in Workers, Lookup(w), UNCHANGED <<call, http, data>>
      PROVE  Open(u) => worker'[u] = worker[u]
  <2>1. ASSUME NEW c \in Clusters, NEW k \in Kinds, ClientForCluster(w, c, k)
        PROVE  Open(u) => worker'[u] = worker[u]
    BY ZenonT(60), <2>1 DEF ClientForCluster, Inv, TypeOK, CallInv, CallOK, At
  <2>2. CASE RLock(w) \/ RUnlock(w) \/ NewClient(w) \/ Lock(w) \/ Unlock(w)
    <3>1. worker[w].pc # "ready"
      BY ZenonT(60), <2>2 DEF At, RLock, RUnlock, NewClient, Lock, Unlock
    <3>2. \A v \in Workers \ {w} : worker'[v] = worker[v]
      BY ZenonT(60), <2>2, LookupKeeps DEF Inv
    <3>3. Open(w) => worker[w].pc = "ready"
      BY ZenonT(60) DEF Inv, CallInv, CallOK, At
    <3> QED
      BY ZenonT(60), <3>1, <3>2, <3>3
  <2> QED
    BY ZenonT(60), <1>2, <2>1, <2>2 DEF Lookup
<1>3. ASSUME NEW w \in Workers, w # u, Call(w)
      PROVE  /\ call'[u] = call[u] /\ http'[u] = http[u] /\ worker'[u] = worker[u]
             /\ Open(u) => (TargetOf(u) \in data' <=> TargetOf(u) \in data)
  <2>1. call'[u] = call[u] /\ http'[u] = http[u] /\ worker'[u] = worker[u]
    <3>1. CASE Serve(w)
      <4>1. call' = call \/ call' = [call EXCEPT ![w].done = TRUE]
        BY ZenonT(60), <3>1 DEF Serve
      <4>2. PICK code : http' = [http EXCEPT ![w].code = code]
        BY ZenonT(60), <3>1 DEF Serve
      <4> QED
        BY <1>3, <3>1, <4>1, <4>2 DEF Serve, clientVars, Inv, TypeOK
    <3>2. ASSUME NEW op \in Ops, Request(w, op)
          PROVE  call'[u] = call[u] /\ http'[u] = http[u] /\ worker'[u] = worker[u]
      BY ZenonT(60), <1>3, <3>2 DEF Request, clientVars, Inv, TypeOK
    <3>3. ASSUME NEW result, Return(w, result)
          PROVE  call'[u] = call[u] /\ http'[u] = http[u] /\ worker'[u] = worker[u]
      BY ZenonT(60), <1>3, <3>3 DEF Return, Inv, TypeOK
    <3>4. CASE Retry(w)
      BY ZenonT(60), <1>3, <3>4 DEF Retry, clientVars, Inv, TypeOK
    <3> QED
      BY ZenonT(60), <1>3, <3>1, <3>2, <3>3, <3>4 DEF Call, ErrorClientCall, GiveUp, Answered
  <2>2. CASE Serve(w)
    <3>1. At(w, "ready") /\ Header(w) = TargetOf(w)
      BY ZenonT(60), <2>2, RightTarget DEF Serve, Sending, Inv, CallInv, CallOK
    <3>2. Open(u) => TargetOf(u) # TargetOf(w)
      BY ZenonT(60), <1>3, <3>1 DEF Inv, CallInv, CallOK, ExclusiveInv, At, TargetOf
    <3> QED
      BY <2>1, <2>2, <3>1, <3>2, ServedData DEF Inv
  <2>3. CASE UNCHANGED data
    BY ZenonT(60), <2>1, <2>3
  <2> QED
    BY ZenonT(60), <1>3, <2>2, <2>3 DEF Call, Request, ErrorClientCall, Retry, GiveUp, Answered, Return
<1>4. ASSUME NEW w \in Workers, w # u, Call(w) PROVE CallOK(u)'
  BY SMTT(60), <1>0, <1>3, <1>4 DEF Inv, CallInv, CallOK, Open, At
<1>5. ASSUME NEW op \in Ops, Request(u, op)
      PROVE  /\ call'[u] = [status |-> "open", op |-> op, done |-> FALSE, target |-> TargetOf(u)]
             /\ worker'[u] = worker[u] /\ worker[u].pc = "ready" /\ http'[u].code = NotServed
  BY ZenonT(60), <1>5 DEF Request, Inv, CallInv, CallOK, TypeOK, clientVars, At
<1>6. ASSUME NEW result, Return(u, result)
      PROVE  call'[u].status = "answered" /\ http'[u].code = NotServed
  BY ZenonT(60), <1>6 DEF Return, Inv, TypeOK, FirstTry
<1>7. CASE Serve(u)
  <2>1. Open(u) /\ At(u, "ready") /\ Header(u) = TargetOf(u) /\ call[u].target = TargetOf(u)
    BY <1>7, RightTarget DEF Serve, Sending, Inv, CallInv, CallOK
  <2>2. call[u] \in [status : {"open"}, target : Targets, op : Ops, done : BOOLEAN]
    BY <2>1, OpenTypes DEF Inv
  <2>3. /\ data' = data => call'[u] = call[u]
        /\ data' # data => call'[u] = [call[u] EXCEPT !.done = TRUE]
    <3>1. call' = IF data' = data THEN call ELSE [call EXCEPT ![u].done = TRUE]
      BY <1>7 DEF Serve
    <3> QED
      BY <3>1 DEF Inv, TypeOK
  <2>4. /\ call'[u].status = "open" /\ call'[u].op = call[u].op /\ call'[u].target = call[u].target
        /\ IF data' = data THEN call'[u].done = call[u].done ELSE call'[u].done = TRUE
    BY <2>1, <2>2, <2>3 DEF Open
  <2>5. http'[u].code \in {StatusCode(call[u].op, There(u)), 500}
    BY <1>7 DEF Serve, Inv, TypeOK
  <2>6. worker' = worker /\ TargetOf(u)' = TargetOf(u)
    BY ZenonT(60), <1>7 DEF Serve, clientVars, TargetOf
  <2> QED
    BY SMTT(60), <1>7, <2>1, <2>4, <2>5, <2>6, ServedData DEF Inv, CallInv, CallOK, Open, At, StatusCode, There
<1>8. CASE Retry(u)
  BY SMTT(60), <1>0, <1>8 DEF Retry, clientVars, Inv, CallInv, CallOK, Open, At, TypeOK, NotServed, Sending
<1>9. CASE Call(u)
  <2>1. ASSUME NEW op \in Ops, Request(u, op) PROVE CallOK(u)'
    <3>1. /\ call'[u].status = "open" /\ call'[u].done = FALSE /\ call'[u].target = TargetOf(u)
          /\ worker'[u].pc = "ready" /\ http'[u].code = 0 /\ TargetOf(u)' = TargetOf(u)
      <4>1. /\ call'[u] = [status |-> "open", op |-> op, done |-> FALSE, target |-> TargetOf(u)]
            /\ worker'[u] = worker[u] /\ worker[u].pc = "ready" /\ http'[u].code = NotServed
        BY <1>5, <2>1
      <4> QED
        BY <1>0, <4>1 DEF NotServed
    <3> QED
      BY <3>1 DEF CallOK, Open, At
  <2>2. ASSUME NEW result, Return(u, result) PROVE CallOK(u)'
    BY <1>6, <2>2 DEF CallOK, Open
  <2> QED
    BY ZenonT(60), <1>7, <1>8, <1>9, <2>1, <2>2 DEF Call, ErrorClientCall, GiveUp, Answered
<1> QED
  BY <1>1, <1>2, <1>4, <1>9 DEF Next, Users, EditSpec, vars, clientVars

(***************************************************************************)
(* There are no clients, no calls and no locks at the start.               *)
(***************************************************************************)
LEMMA Initially == Init => Inv
<1> SUFFICES ASSUME Init PROVE Inv
  BY ZenonT(60)
<1>1. TypeOK
  BY SMTT(60), RetriesAssumption, ClientsAssumption
     DEF Init, ClientsInit, TypeOK, Calls, FirstTry, Codes, NotServed, Idle
<1>2. LockInv /\ WorkerInv /\ ExclusiveInv /\ CallInv
  BY ZenonT(60) DEF Init, ClientsInit, LockInv, WorkerInv, ExclusiveInv, CallInv, CallOK, At, Idle, Open, FirstTry
<1>3. MapInv
  BY KeyTypes DEF Init, ClientsInit, MapInv
<1> QED
  BY <1>1, <1>2, <1>3 DEF Inv

(***************************************************************************)
(* The invariant behind the theorems of this module.                       *)
(***************************************************************************)
THEOREM Invariant == Spec => []Inv
<1>1. Inv /\ [Next]_vars => Inv'
  BY TypeStep, LockStep, MapStep, WorkerStep, ExclusiveStep, CallStep DEF Inv
<1> QED
  BY <1>1, Initially, PTL DEF Spec

-----------------------------------------------------------------------------
(***************************************************************************)
(* Type correctness: in particular, no error client is ever kept in a map. *)
(***************************************************************************)
THEOREM TypeCorrect == Spec => []TypeOK
  BY Invariant, PTL DEF Inv

(***************************************************************************)
(* Reads and writes of the client maps of multiAdminClient do not race,    *)
(* whatever the number of workers.                                         *)
(***************************************************************************)
THEOREM MapsNeverRace == Spec => []NoMapRace
<1>1. Inv => NoMapRace
  BY DEF Inv, LockInv, NoMapRace
<1> QED
  BY <1>1, Invariant, PTL

(***************************************************************************)
(* The client handed out for a cluster is the cached one and is for that   *)
(* cluster: its coordinator, its environment, its zone.                    *)
(***************************************************************************)
THEOREM ClientsAreRight == Spec => []RightClient
<1>1. Inv => RightClient
  BY RightTarget DEF Inv, RightClient
<1> QED
  BY <1>1, Invariant, PTL

(***************************************************************************)
(* Nobody but the worker that handles a cluster changes its data.          *)
(***************************************************************************)
THEOREM ClustersDoNotConflict == Spec => OwnDataOnly
<1> DEFINE Own == \A t \in Targets : (t \in data') # (t \in data) =>
                    \E w \in Workers : Open(w) /\ worker[w].cluster = t[1]
<1>1. Inv /\ [Next]_vars => [Own]_vars
  <2> SUFFICES ASSUME Inv, [Next]_vars, NEW t \in Targets, (t \in data') # (t \in data)
               PROVE  \E w \in Workers : Open(w) /\ worker[w].cluster = t[1]
    BY ZenonT(60)
  <2>1. PICK w \in Workers : Serve(w)
    BY ZenonT(60)
       DEF Next, Users, EditSpec, Lookup, Call, Request, ErrorClientCall, Retry, GiveUp, Answered, Return, vars
  <2>2. Open(w) /\ Header(w) = TargetOf(w)
    BY <2>1, RightTarget DEF Serve, Sending, Inv, CallInv, CallOK
  <2>3. t = TargetOf(w)
    BY <2>1, <2>2, ServedData DEF Inv
  <2> QED
    BY ZenonT(60), <2>2, <2>3 DEF TargetOf
<1> QED
  BY <1>1, Invariant, PTL DEF Spec, OwnDataOnly

(***************************************************************************)
(* Client cache, retries and status codes implement CoordinatorService:    *)
(* the calls that the reconcile loop makes take effect at most once, on    *)
(* the right data, and are answered truthfully.                            *)
(***************************************************************************)
THEOREM CallsImplementService == Spec => Implements
<1>1. Init => Service!Init
  BY DEF Init, Service!Init, Service!NoCall
<1>2. Inv /\ [Next]_vars => [Service!Next]_(Service!vars)
  <2> SUFFICES ASSUME Inv, [Next]_vars, ~UNCHANGED <<data, call>> PROVE Service!Next
    BY DEF Service!vars
  <2>1. PICK w \in Workers : Call(w)
    BY DEF Next, vars
  <2>2. ASSUME NEW op \in Ops, Request(w, op) PROVE Service!Next
    <3>1. Service!Invoke(w, TargetOf(w), op)
      BY ZenonT(60), <2>2 DEF Request, Service!Invoke, Open
    <3>2. TargetOf(w) \in Targets
      BY <2>2, BusyTypes DEF Request, At, Inv
    <3> QED
      BY ZenonT(60), <3>1, <3>2 DEF Service!Next, Ops, Service!Ops
  <2>3. ASSUME NEW result \in Results, Return(w, result), Open(w),
               Service!Truthful(call[w].op, call[w].done, call[w].target \in data, result)
        PROVE  Service!Next
    <3>1. Service!Answer(w, result)
      BY ZenonT(60), <2>3 DEF Service!Answer, Return, Open
    <3> QED
      BY ZenonT(60), <3>1 DEF Service!Next, Results, Service!Results
  <2>4. CASE ErrorClientCall(w) \/ GiveUp(w)
    BY ZenonT(60), <2>3, <2>4 DEF ErrorClientCall, GiveUp, Sending, Service!Truthful, Results
  <2>5. CASE Answered(w)
    <3>1. PICK result \in {ResultOf(http[w].code), "failed"} : Return(w, result)
      BY ZenonT(60), <2>5 DEF Answered
    <3>2. Open(w) /\ CallOK(w)
      BY <2>5 DEF Answered, Sending, Inv, CallInv
    <3>3. http[w].code \in {200, 404, 409}
      BY <2>5 DEF Answered, Inv, TypeOK, Codes, NotServed
    <3>4. /\ result \in Results
          /\ result = "ok" => http[w].code = 200
          /\ result = "notFound" => http[w].code = 404
      BY SMTT(60), <3>1, <3>3 DEF ResultOf, Results
    <3>5. Service!Truthful(call[w].op, call[w].done, call[w].target \in data, result)
      BY <3>2, <3>4 DEF CallOK, Service!Truthful
    <3> QED
      BY ZenonT(60), <2>3, <3>1, <3>2, <3>4, <3>5
  <2>6. CASE Serve(w)
    <3>1. Open(w) /\ CallOK(w) /\ Header(w) = TargetOf(w)
      BY ZenonT(60), <2>6, RightTarget DEF Serve, Sending, Inv, CallInv, CallOK
    <3>2. call[w].target = Header(w)
      BY <3>1 DEF CallOK
    <3>3. data' # data /\ call' = [call EXCEPT ![w].done = TRUE]
      BY ZenonT(60), <2>6 DEF Serve
    <3>4. \/ call[w].op = "create" /\ Header(w) \notin data /\ data' = data \cup {Header(w)}
          \/ call[w].op = "delete" /\ Header(w) \in data /\ data' = data \ {Header(w)}
      BY <2>6, <3>3, ServedData DEF Inv
    <3>5. ~call[w].done
      BY <3>1, <3>4 DEF CallOK
    <3>6. Service!TakeEffect(w)
      BY <3>1, <3>2, <3>3, <3>4, <3>5 DEF Service!TakeEffect, Open
    <3> QED
      BY <3>6 DEF Service!Next
  <2> QED
    BY <2>1, <2>2, <2>4, <2>5, <2>6 DEF Call, Retry
<1> QED
  BY <1>1, <1>2, Invariant, PTL DEF Spec, Implements, Service!Spec

=============================================================================
