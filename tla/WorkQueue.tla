----------------------------- MODULE WorkQueue -----------------------------
(***************************************************************************)
(* The Postgres work queue (services/orchestration, queue.py) together     *)
(* with the part of the worker loop that claims, runs and finishes an item *)
(* (runner.py).  One action is one committed transaction, or one that was  *)
(* rolled back with the process that ran it.                               *)
(*                                                                         *)
(* Time appears only in the two comparisons the code makes: an item is due *)
(* (run_after <= now) or not, and a claim is expired (claimed_at < now -   *)
(* lease) or not.  The second sort key of the claim query, run_after, is   *)
(* not modelled: items of equal priority are taken in any order.           *)
(***************************************************************************)
EXTENDS Integers, FiniteSets

CONSTANTS
    Item,         \* identities available to rows of work_items
    Key,          \* idempotency keys, "stage:subject"
    Producer,     \* callers of enqueue: the dispatcher and the reconciler
    Worker,       \* worker processes
    None,         \* "no item", "no key"
    PriorityOf,   \* the priority each producer enqueues with (lower runs first)
    MaxAttempts,  \* StageDefinition.max_attempts
    MaxCrashes,   \* bound: how often a worker process is killed
    MaxSlips      \* bound: how often a lease runs out under a live worker

ASSUME QueueAssumption ==
    /\ None \notin Item \cup Key
    /\ PriorityOf \in [Producer -> Nat]
    /\ MaxAttempts \in Nat \ {0}
    /\ MaxCrashes \in Nat
    /\ MaxSlips \in Nat

VARIABLES
    rows,      \* the table work_items, by item identity
    calling,   \* the key a producer found free and is about to insert
    raised,    \* producers whose insert raised IntegrityError
    holds,     \* the item each worker is executing
    up,        \* the worker processes that are alive
    crashes,   \* history: kills so far
    slips      \* history: leases outlived by a live worker so far

vars == <<rows, calling, raised, holds, up, crashes, slips>>

Statuses == {"absent", "pending", "running", "succeeded", "failed", "dead", "superseded"}
Open     == {"pending", "running"}               \* the index's WHERE clause
Settled  == {"succeeded", "dead", "superseded"}

Row == [status: Statuses, key: Key \cup {None}, priority: Nat,
        attempts: Nat, due: BOOLEAN, expired: BOOLEAN]

AbsentRow == [status |-> "absent", key |-> None, priority |-> 0,
              attempts |-> 0, due |-> FALSE, expired |-> FALSE]

\* No open item of key k in table t, other than i (uq_work_items_open_key).
IndexAllows(t, k, i) ==
    \A j \in Item \ {i} : t[j].key = k => t[j].status \notin Open

KeyIsFree(k) == \A i \in Item : rows[i].key = k => rows[i].status \notin Open

Init ==
    /\ rows = [i \in Item |-> AbsentRow]
    /\ calling = [p \in Producer |-> None]
    /\ raised = {}
    /\ holds = [w \in Worker |-> None]
    /\ up = Worker
    /\ crashes = 0
    /\ slips = 0

-----------------------------------------------------------------------------
(* enqueue: a SELECT for an open item and, in a later statement, the       *)
(* INSERT.  A SELECT that finds one returns created=False and changes      *)
(* nothing.                                                                *)

EnqueueLooks(p, k) ==
    /\ p \notin raised
    /\ calling[p] = None
    /\ KeyIsFree(k)
    /\ calling' = [calling EXCEPT ![p] = k]
    /\ UNCHANGED <<rows, raised, holds, up, crashes, slips>>

NewRow(k, priority) ==
    [status |-> "pending", key |-> k, priority |-> priority,
     attempts |-> 0, due |-> TRUE, expired |-> FALSE]

EnqueueInserts(p, i) ==
    /\ calling[p] # None
    /\ rows[i].status = "absent"
    /\ IndexAllows(rows, calling[p], i)
    /\ rows' = [rows EXCEPT ![i] = NewRow(calling[p], PriorityOf[p])]
    /\ calling' = [calling EXCEPT ![p] = None]
    /\ UNCHANGED <<raised, holds, up, crashes, slips>>

\* The other producer committed first: the index refuses the row and nothing
\* between enqueue and the process's main loop catches IntegrityError.
EnqueueRaises(p) ==
    /\ calling[p] # None
    /\ ~KeyIsFree(calling[p])
    /\ raised' = raised \cup {p}
    /\ calling' = [calling EXCEPT ![p] = None]
    /\ UNCHANGED <<rows, holds, up, crashes, slips>>

RestartProducer(p) ==
    /\ p \in raised
    /\ raised' = raised \ {p}
    /\ UNCHANGED <<rows, calling, holds, up, crashes, slips>>

-----------------------------------------------------------------------------
(* claim: put expired claims back, then take the first due item.           *)

AfterReclaim(r) == [r EXCEPT !.status = "pending", !.expired = FALSE]

\* Mutant: claims are put back without looking at claimed_at.
ReclaimedUnexpired ==
    [i \in Item |->
        IF rows[i].status = "running"
        THEN AfterReclaim(rows[i])
        ELSE rows[i]]

\* Mutant: nothing is ever put back.
ReclaimedNever == rows

Reclaimed ==
    [i \in Item |->
        IF rows[i].status = "running" /\ rows[i].expired
        THEN AfterReclaim(rows[i])
        ELSE rows[i]]

\* Mutant: the claim query excludes finished items by naming only succeeded.
ClaimableDeadToo(t) ==
    {i \in Item : t[i].status \in {"pending", "failed", "dead"} /\ t[i].due}

Claimable(t) == {i \in Item : t[i].status \in {"pending", "failed"} /\ t[i].due}

First(t, i) ==
    /\ i \in Claimable(t)
    /\ \A j \in Claimable(t) : t[i].priority <= t[j].priority

AfterClaim(r) ==
    [r EXCEPT !.status = "running", !.attempts = @ + 1, !.expired = FALSE]

Claims(w, i) ==
    /\ w \in up /\ holds[w] = None
    /\ First(Reclaimed, i)
    /\ IndexAllows(Reclaimed, Reclaimed[i].key, i)
    /\ rows' = [Reclaimed EXCEPT ![i] = AfterClaim(@)]
    /\ holds' = [holds EXCEPT ![w] = i]
    /\ UNCHANGED <<calling, raised, up, crashes, slips>>

\* The first item is a failed one whose key an open item has taken meanwhile:
\* setting it running violates the index, the transaction is rolled back (the
\* reclaims with it) and the exception ends the worker's loop.
ClaimRaises(w, i) ==
    /\ w \in up /\ holds[w] = None
    /\ First(Reclaimed, i)
    /\ ~IndexAllows(Reclaimed, Reclaimed[i].key, i)
    /\ up' = up \ {w}
    /\ UNCHANGED <<rows, calling, raised, holds, crashes, slips>>

-----------------------------------------------------------------------------
(* Finishing.  Neither _complete nor fail looks at the row's status or at  *)
(* who claimed it.                                                         *)

AfterSuccess(r) == [r EXCEPT !.status = "succeeded"]

\* Mutant: off by one in the exhaustion test.
AfterFailureOnceMore(r) ==
    IF r.attempts > MaxAttempts
    THEN [r EXCEPT !.status = "dead", !.expired = FALSE]
    ELSE [r EXCEPT !.status = "failed", !.expired = FALSE, !.due = FALSE]

AfterFailure(r) ==
    IF r.attempts >= MaxAttempts
    THEN [r EXCEPT !.status = "dead", !.expired = FALSE]
    ELSE [r EXCEPT !.status = "failed", !.expired = FALSE, !.due = FALSE]

Completes(w) ==
    /\ w \in up /\ holds[w] # None
    /\ rows' = [rows EXCEPT ![holds[w]] = AfterSuccess(@)]
    /\ holds' = [holds EXCEPT ![w] = None]
    /\ UNCHANGED <<calling, raised, up, crashes, slips>>

Fails(w) ==
    /\ w \in up /\ holds[w] # None
    /\ rows' = [rows EXCEPT ![holds[w]] = AfterFailure(@)]
    /\ holds' = [holds EXCEPT ![w] = None]
    /\ UNCHANGED <<calling, raised, up, crashes, slips>>

AfterSupersede(r) == [r EXCEPT !.status = "superseded"]

\* Mutant: the UPDATE filters on the stage and forgets the key.
SupersedeStage(k) ==
    /\ \E i \in Item : rows[i].key = k /\ rows[i].status = "pending"
    /\ rows' = [i \in Item |->
           IF rows[i].status = "pending"
           THEN AfterSupersede(rows[i])
           ELSE rows[i]]
    /\ UNCHANGED <<calling, raised, holds, up, crashes, slips>>

\* supersede is one UPDATE over the pending rows of a key.
Supersede(k) ==
    /\ \E i \in Item : rows[i].key = k /\ rows[i].status = "pending"
    /\ rows' = [i \in Item |->
           IF rows[i].key = k /\ rows[i].status = "pending"
           THEN AfterSupersede(rows[i])
           ELSE rows[i]]
    /\ UNCHANGED <<calling, raised, holds, up, crashes, slips>>

-----------------------------------------------------------------------------
(* The environment: time and process failure.                              *)

AfterBackoff(r) == [r EXCEPT !.due = TRUE]
AfterLease(r)   == [r EXCEPT !.expired = TRUE]

BackoffElapses(i) ==
    /\ rows[i].status = "failed" /\ ~rows[i].due
    /\ rows' = [rows EXCEPT ![i] = AfterBackoff(@)]
    /\ UNCHANGED <<calling, raised, holds, up, crashes, slips>>

Held(i) == \E w \in Worker : holds[w] = i

\* Nobody renews a lease: it runs out under a slow handler as under a dead one.
LeaseExpires(i) ==
    /\ rows[i].status = "running" /\ ~rows[i].expired
    /\ Held(i) => slips < MaxSlips
    /\ rows' = [rows EXCEPT ![i] = AfterLease(@)]
    /\ slips' = IF Held(i) THEN slips + 1 ELSE slips
    /\ UNCHANGED <<calling, raised, holds, up, crashes>>

Crash(w) ==
    /\ w \in up
    /\ crashes < MaxCrashes
    /\ crashes' = crashes + 1
    /\ up' = up \ {w}
    /\ holds' = [holds EXCEPT ![w] = None]
    /\ UNCHANGED <<rows, calling, raised, slips>>

RestartWorker(w) ==
    /\ w \in Worker \ up
    /\ up' = up \cup {w}
    /\ UNCHANGED <<rows, calling, raised, holds, crashes, slips>>

Next ==
    \/ \E p \in Producer :
          \/ \E k \in Key : EnqueueLooks(p, k)
          \/ \E i \in Item : EnqueueInserts(p, i)
          \/ EnqueueRaises(p)
          \/ RestartProducer(p)
    \/ \E w \in Worker :
          \/ \E i \in Item : Claims(w, i) \/ ClaimRaises(w, i)
          \/ Completes(w)
          \/ Fails(w)
          \/ Crash(w)
          \/ RestartWorker(w)
    \/ \E k \in Key : Supersede(k)
    \/ \E i \in Item : BackoffElapses(i) \/ LeaseExpires(i)

Spec == Init /\ [][Next]_vars

\* A worker polls for as long as it is up and its handler returns or raises; a
\* process that ended is started again; time passes.  Nothing obliges a
\* producer to enqueue, a caller to supersede, or a process to crash.
Fairness ==
    /\ \A w \in Worker :
          /\ WF_vars(\E i \in Item : Claims(w, i) \/ ClaimRaises(w, i))
          /\ WF_vars(Completes(w) \/ Fails(w))
          /\ WF_vars(RestartWorker(w))
    /\ \A p \in Producer : WF_vars(RestartProducer(p))
    /\ \A i \in Item : WF_vars(BackoffElapses(i)) /\ WF_vars(LeaseExpires(i))

FairSpec == Spec /\ Fairness

-----------------------------------------------------------------------------
(* Properties.                                                             *)

Unsettled == {"pending", "running", "failed"}

\* The rows are well formed: a row has a key from the moment it exists, has
\* been counted an attempt before it runs and not before it exists, and a row that
\* is not due has failed at least once.
RowOK(r) ==
    /\ r.status = "absent" <=> r.key = None
    /\ r.status = "absent" => r.attempts = 0
    /\ r.status = "running" => r.attempts > 0
    /\ r.status # "failed" => r.due \/ r.status \in {"absent", "dead", "succeeded"}

\* Type invariant of the queue and its clients; a worker that is down holds
\* nothing, and what a worker holds is a row it has been handed by a claim.
TypeOK ==
    /\ rows \in [Item -> Row]
    /\ calling \in [Producer -> Key \cup {None}]
    /\ raised \in SUBSET Producer
    /\ holds \in [Worker -> Item \cup {None}]
    /\ up \in SUBSET Worker
    /\ crashes \in 0 .. MaxCrashes
    /\ slips \in 0 .. MaxSlips
    /\ \A i \in Item : RowOK(rows[i])
    /\ \A w \in Worker : holds[w] # None =>
          w \in up /\ rows[holds[w]].attempts > 0

\* At most one open item per key, through inserts that race, claims that take a
\* failed item back to running, and reclaims that take a running one to pending.
OneOpenPerKey ==
    \A i, j \in Item :
        /\ rows[i].status \in Open /\ rows[j].status \in Open
        /\ rows[i].key = rows[j].key
        => i = j

\* As long as no lease ran out under a live worker, SKIP LOCKED and the index
\* together make every key single-flight: two workers never execute the same key
\* at once, and what a worker executes is a running item nobody may reclaim.
SingleFlightWithinLease ==
    slips = 0 =>
        \A w \in Worker : holds[w] # None =>
            /\ rows[holds[w]].status = "running"
            /\ ~rows[holds[w]].expired
            /\ \A v \in Worker \ {w} :
                  holds[v] # None => rows[holds[v]].key # rows[holds[w]].key

\* A failed item still has an attempt left, whatever late failures of workers
\* that outlived their lease were written over it (a lemma of the next property).
RetryHasBudget ==
    \A i \in Item : rows[i].status = "failed" => rows[i].attempts < MaxAttempts

\* The reclaim never looks at the budget, so an item can run more often than
\* max_attempts; but each run beyond it costs a killed worker or an outlived lease.
ExtraRunsCostACrash ==
    \A i \in Item : rows[i].attempts <= MaxAttempts + crashes + slips

\* "a completed item stays for audit" (queue.py:142), as long as no handler outlives
\* its lease: a success is overwritten by no other worker, whoever crashed.
SuccessStandsWithinLease ==
    [][\A i \in Item : rows[i].status = "succeeded" /\ slips = 0
                        => rows'[i].status = "succeeded"]_vars

\* A settled item whose attempts are used up is never run again: a late failure
\* of a second worker can move it between succeeded and dead, never back to work.
ExhaustedStaysSettled ==
    [][\A i \in Item :
          rows[i].status \in Settled /\ rows[i].attempts >= MaxAttempts
          => rows'[i].status \in Settled]_vars

\* The item that has key k in table t, or None.
Holder(t, k) ==
    IF \E i \in Item : t[i].key = k /\ t[i].status \in Open
    THEN CHOOSE i \in Item : t[i].key = k /\ t[i].status \in Open
    ELSE None

\* The queue implements the lock per key that its index stands for.
Lock == INSTANCE KeyLock WITH holder <- [k \in Key |-> Holder(rows, k)]
ImplementsKeyLock == Lock!Spec

TwinExists ==
    \E i, j \in Item :
        /\ i # j /\ rows[i].key = rows[j].key
        /\ rows[i].status \in Unsettled /\ rows[j].status \in Unsettled

\* Work never vanishes: although workers are killed in the middle of an item and
\* outlive leases, every unsettled item is settled in the end, unless a failed
\* item was joined by a second item of its key.
EventuallySettled ==
    \A i \in Item :
        rows[i].status \in Unsettled ~> (rows[i].status \in Settled \/ TwinExists)

-----------------------------------------------------------------------------
(* What a docstring says of the queue and the code does not do.            *)

\* "Retries back off, and an item that exhausts them becomes dead rather than
\* disappearing" (queue.py:16): every item is settled in the end.
AlwaysSettled ==
    \A i \in Item : rows[i].status \in Unsettled ~> rows[i].status \in Settled

(* A key is worked on by at most one worker at a time: one open row per key
   (the partial unique index), and one live claim on a row while leases outlast
   the runs. *)
OneWorkerPerKey ==
    /\ OneOpenPerKey
    /\ SingleFlightWithinLease

(* What was settled stays settled: a success is never taken back while leases
   outlast the runs, and a row that is out of attempts is never run again. *)
SettlementStands ==
    /\ SuccessStandsWithinLease
    /\ ExhaustedStaysSettled
=============================================================================
