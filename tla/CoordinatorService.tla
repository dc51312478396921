------------------------- MODULE CoordinatorService -------------------------
(***************************************************************************)
(* What a call of a coordinator client promises to the reconcile loop, and *)
(* what PlacementResize and EtcdData take a call to be: it takes effect at *)
(* most once, in one step, on the data of the cluster it is made for,      *)
(* while the caller waits; then it is answered, or fails.  A failure says  *)
(* nothing about the effect.                                               *)
(***************************************************************************)
CONSTANTS
  Workers,  \* who calls
  Targets   \* what is called on: the data of a cluster, of one kind

Ops == {"create", "delete", "get"}
Results == {"ok", "notFound", "failed"}

VARIABLES
  data,  \* etcd: the targets that are there, a placement, a namespace
  call   \* for each worker: the call it has made last

vars == <<data, call>>

NoCall == [status |-> "none"]

Init == data \in SUBSET Targets /\ call = [w \in Workers |-> NoCall]

Invoke(w, target, op) ==
  /\ call[w].status # "open"
  /\ call' = [call EXCEPT ![w] = [status |-> "open", target |-> target, op |-> op, done |-> FALSE]]
  /\ UNCHANGED data

(***************************************************************************)
(* A create has an effect when there is nothing, a delete when there is.   *)
(***************************************************************************)
TakeEffect(w) ==
  /\ call[w].status = "open" /\ ~call[w].done
  /\ \/ /\ call[w].op = "create" /\ call[w].target \notin data
        /\ data' = data \cup {call[w].target}
     \/ /\ call[w].op = "delete" /\ call[w].target \in data
        /\ data' = data \ {call[w].target}
  /\ call' = [call EXCEPT ![w].done = TRUE]

(***************************************************************************)
(* "ok" is for what was done or, for a get, is there; "notFound" for what  *)
(* is not there.                                                           *)
(***************************************************************************)
Truthful(op, done, there, result) ==
  /\ result = "ok" => IF op = "get" THEN there ELSE done
  /\ result = "notFound" => op # "create" /\ ~there

Answer(w, result) ==
  /\ call[w].status = "open"
  /\ Truthful(call[w].op, call[w].done, call[w].target \in data, result)
  /\ call' = [call EXCEPT ![w] = [status |-> "answered", result |-> result]]
  /\ UNCHANGED data

Next ==
  \E w \in Workers :
    \/ \E target \in Targets, op \in Ops : Invoke(w, target, op)
    \/ TakeEffect(w)
    \/ \E result \in Results : Answer(w, result)

Spec == Init /\ [][Next]_vars

=============================================================================
