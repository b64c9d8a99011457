------------------------------ MODULE KeyLock ------------------------------
(***************************************************************************)
(* What the partial unique index over open work items promises to the rest *)
(* of the pipeline, without any of the queue's machinery: a lock per       *)
(* idempotency key.  An item acquires its key only while nobody has it,    *)
(* the key passes from one item to another only through being free, and    *)
(* one database transaction never moves two keys.                          *)
(***************************************************************************)
CONSTANTS
    Item,   \* the identities of work items
    Key,    \* idempotency keys
    None    \* "no item"

VARIABLE holder     \* the item that holds each key, or None

Init == holder = [k \in Key |-> None]

Acquire(k, i) ==
    /\ holder[k] = None
    /\ holder' = [holder EXCEPT ![k] = i]

Release(k) ==
    /\ holder[k] # None
    /\ holder' = [holder EXCEPT ![k] = None]

Next == \E k \in Key : Release(k) \/ \E i \in Item : Acquire(k, i)

Spec == Init /\ [][Next]_holder
=============================================================================
