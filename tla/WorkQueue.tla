------------------------------ MODULE WorkQueue ------------------------------
(***************************************************************************)
(* client-go's rate-limited work queue, as the operator uses it.  A key    *)
(* that is added is dirty.  A dirty key that nobody processes can be got;  *)
(* one that becomes dirty while somebody processes it can be got again     *)
(* once that is done.  The delay of a key is no more than a Get that comes *)
(* later, and is left out with the order in which keys come out.           *)
(***************************************************************************)
Queues(Keys) == [dirty : SUBSET Keys, processing : SUBSET Keys]
EmptyQueue == [dirty |-> {}, processing |-> {}]

AddRateLimited(q, keys) == [q EXCEPT !.dirty = @ \cup keys]

Ready_WrongShared(q) == q.dirty
Ready(q) == q.dirty \ q.processing
Get(q, key) == [q EXCEPT !.dirty = @ \ {key}, !.processing = @ \cup {key}]
Done(q, key) == [q EXCEPT !.processing = @ \ {key}]

=============================================================================
