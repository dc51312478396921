----------------------------- MODULE AdminCalls -----------------------------
(***************************************************************************)
(* Calls of the coordinator: the worker gets its client from AdminClients, *)
(* and DoHTTPRequest (pkg/m3admin/client.go) sends the request, up to      *)
(* MaxRetries times more when the connection breaks or the coordinator     *)
(* fails, and turns the status code into a result.  The coordinator takes  *)
(* environment and zone from the headers and works on what etcd has under  *)
(* them, so that clusters can share a coordinator.  A request that the     *)
(* client has given up on is not served afterwards.                        *)
(***************************************************************************)
EXTENDS AdminClients

CONSTANT MaxRetries  \* RetryMax of go-retryablehttp

ASSUME RetriesAssumption == MaxRetries \in Nat

Targets == Clusters \X Zones \X Kinds
Ops == {"create", "delete", "get"}
Results == {"ok", "notFound", "failed"}
NotServed == 0
Codes == {NotServed, 200, 404, 409, 500}
FirstTry == [tries |-> 0, code |-> NotServed]

Calls == [status : {"none"}]
    \cup [status : {"open"}, target : Targets, op : Ops, done : BOOLEAN]
    \cup [status : {"answered"}, result : Results]

VARIABLES
  data,  \* etcd: the targets that are there, a placement, a namespace
  call,  \* for each worker: the call it has made last
  http   \* for each worker: tries made after the first, and the status code

vars == <<clientVars, data, call, http>>

TypeOK ==
  /\ specs \in [Clusters -> Specs]
  /\ clients \in [Kinds -> [Keys -> RealClients \cup {NoClient}]]
  /\ lock \in [readers : SUBSET Workers, writer : SUBSET Workers]
  /\ worker \in [Workers -> Busy \cup {Idle}]
  /\ edits \in Nat
  /\ data \in SUBSET Targets
  /\ call \in [Workers -> Calls]
  /\ http \in [Workers -> [tries : 0..MaxRetries, code : Codes]]

Open(w) == call[w].status = "open"
TargetOf(w) == <<worker[w].cluster, worker[w].spec.zone, worker[w].kind>>

(***************************************************************************)
(* A method of a namespace, placement or topic client makes one request.   *)
(* The methods of an error client return the error.                        *)
(***************************************************************************)
Request(w, op) ==
  /\ At(w, "ready") /\ ~Open(w)
  /\ call' = [call EXCEPT ![w] = [status |-> "open", op |-> op, done |-> FALSE,
                                  target |-> TargetOf(w)]]
  /\ UNCHANGED <<clientVars, data, http>>

Return(w, result) ==
  /\ call' = [call EXCEPT ![w] = [status |-> "answered", result |-> result]]
  /\ worker' = [worker EXCEPT ![w] = Idle]
  /\ http' = [http EXCEPT ![w] = FirstTry]
  /\ UNCHANGED <<specs, clients, lock, edits, data>>

ErrorClientCall(w) ==
  /\ Open(w)
  /\ worker[w].client = ErrorClient
  /\ Return(w, "failed")

Sending(w) == Open(w) /\ worker[w].client # ErrorClient

(***************************************************************************)
(* The coordinator serves the request for the environment and zone of the  *)
(* headers.  It may also fail (500) after the effect; to fail before it is *)
(* not to serve the request, since the client tries again either way.      *)
(***************************************************************************)
Header(w) == <<worker[w].client.env, worker[w].client.zone, worker[w].kind>>
There(w) == Header(w) \in data

StatusCode(op, there) ==
  IF op = "create" THEN IF there THEN 409 ELSE 200 ELSE IF there THEN 200 ELSE 404

Serve(w) ==
  /\ Sending(w) /\ http[w].code = NotServed
  /\ \E code \in {StatusCode(call[w].op, There(w)), 500} :
       http' = [http EXCEPT ![w].code = code]
  /\ data' = CASE call[w].op = "create" -> data \cup {Header(w)}
              [] call[w].op = "delete" -> data \ {Header(w)}
              [] call[w].op = "get" -> data
  /\ call' = IF data' = data THEN call ELSE [call EXCEPT ![w].done = TRUE]
  /\ UNCHANGED clientVars

(***************************************************************************)
(* The connection breaks, before the coordinator served the request or     *)
(* after, or the status code is 500: the client tries again.               *)
(***************************************************************************)
CanRetry(w) == http[w].tries < MaxRetries

Retry(w) ==
  /\ Sending(w) /\ CanRetry(w)
  /\ http' = [http EXCEPT ![w] = [tries |-> @.tries + 1, code |-> NotServed]]
  /\ UNCHANGED <<clientVars, data, call>>

GiveUp(w) ==
  /\ Sending(w) /\ ~CanRetry(w)
  /\ Return(w, "failed")

(***************************************************************************)
(* The status code becomes the error or success of DoHTTPRequest.  That a  *)
(* method is not allowed (405) is a failure like others here; it matters   *)
(* to one caller, whose coordinator lacks the endpoint (see EtcdData).     *)
(***************************************************************************)
ResultOf_WrongNotFoundIsOk(code) == IF code \in {200, 404} THEN "ok" ELSE "failed"
ResultOf(code) ==
  IF code >= 200 /\ code < 300 THEN "ok" ELSE IF code = 404 THEN "notFound" ELSE "failed"

(***************************************************************************)
(* The body of a get that does not parse, or lacks what was asked for,     *)
(* makes a success an error.                                               *)
(***************************************************************************)
Answered(w) ==
  /\ Sending(w) /\ http[w].code \notin {NotServed, 500}
  /\ \/ Return(w, ResultOf(http[w].code))
     \/ call[w].op = "get" /\ Return(w, "failed")

Init ==
  /\ ClientsInit
  /\ data \in SUBSET Targets
  /\ call = [w \in Workers |-> [status |-> "none"]]
  /\ http = [w \in Workers |-> FirstTry]

Call(w) ==
  \/ \E op \in Ops : Request(w, op)
  \/ ErrorClientCall(w) \/ Serve(w) \/ Retry(w) \/ GiveUp(w) \/ Answered(w)

Next ==
  \/ (Users \/ \E w \in Workers : Lookup(w)) /\ UNCHANGED <<data, call, http>>
  \/ \E w \in Workers : Call(w)

Spec == Init /\ [][Next]_vars

-----------------------------------------------------------------------------
(***************************************************************************)
(* Properties.                                                             *)
(***************************************************************************)

(***************************************************************************)
(* The client a worker was handed is the one in the map and talks to the   *)
(* coordinator, the environment and the zone of the spec the worker works  *)
(* from, whatever was edited or cached before.                             *)
(***************************************************************************)
RightClient ==
  \A w \in Workers :
    At(w, "ready") /\ worker[w].client # ErrorClient =>
      /\ InMap(w) = worker[w].client
      /\ worker[w].client.url = ClusterURL(worker[w].cluster, worker[w].spec)
      /\ Header(w) = TargetOf(w)

(***************************************************************************)
(* "This ensures that multiple m3db clusters won't conflict with each      *)
(* other" (k8sops.DefaultM3ClusterEnvironmentName): only a worker that     *)
(* handles a cluster changes its data, also behind a coordinator that      *)
(* clusters share.                                                         *)
(***************************************************************************)
OwnDataOnly ==
  [][\A t \in Targets : (t \in data') # (t \in data) =>
       \E w \in Workers : Open(w) /\ worker[w].cluster = t[1]]_vars

(***************************************************************************)
(* Client cache, retries and status codes implement what the reconcile     *)
(* loop takes a call to be.                                                *)
(***************************************************************************)
Service == INSTANCE CoordinatorService
             WITH Workers <- Workers, Targets <- Targets, data <- data, call <- call

Implements == Service!Spec

=============================================================================
