------------------------- MODULE IdempotencyRecord -------------------------
(* The one Redis record of an idempotency key                              *)
(* (app/Support/Idempotency/store.go, redis_backend.go), shared by the two *)
(* protocols that use such records.  Response bodies, ciphers and plan     *)
(* digests are abstracted to the request that wrote the record.            *)
EXTENDS Integers

CONSTANTS
    Requests,       \* requests that carry the same actor, route and key
    Nobody,
    MaxExpiries     \* bound: how often the TTL of the record may run out

ASSUME RecordConstants == Nobody \notin Requests /\ MaxExpiries \in Nat

VARIABLES
    rec,            \* the record
    epoch           \* history: how often the record has expired

NoRecord == [state |-> "none", by |-> Nobody]
Pending(r) == [state |-> "pending", by |-> r]
Completed(r) == [state |-> "completed", by |-> r]

Records == {NoRecord} \cup {Pending(r) : r \in Requests} \cup {Completed(r) : r \in Requests}

Expire ==
    /\ rec # NoRecord
    /\ epoch < MaxExpiries
    /\ rec' = NoRecord
    /\ epoch' = epoch + 1
=============================================================================
