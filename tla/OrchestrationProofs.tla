------------------------- MODULE OrchestrationProofs -------------------------
(***************************************************************************)
(* Proofs about the queue, for every number of items, keys, producers and  *)
(* workers, every priority assignment and every bound, and then about the  *)
(* composition of the event path, the backstop and the queue: that it runs *)
(* the queue as WorkQueue specifies it, so that every theorem about the    *)
(* queue holds of it, its type invariant, and that no effect is left       *)
(* unannounced.                                                            *)
(***************************************************************************)
EXTENDS Orchestration, TLAPS

-----------------------------------------------------------------------------
(* What the column assignments of each transaction do to one row.          *)

LEMMA NewRowFact ==
    ASSUME NEW k \in Key, NEW n \in Nat
    PROVE  /\ NewRow(k, n) \in Row /\ RowOK(NewRow(k, n))
           /\ NewRow(k, n).status = "pending" /\ NewRow(k, n).key = k
           /\ NewRow(k, n).attempts = 0
BY QueueAssumption DEF NewRow, Row, RowOK, Statuses

LEMMA ReclaimFact ==
    ASSUME NEW r \in Row, RowOK(r), r.status = "running"
    PROVE  LET n == AfterReclaim(r)
           IN  /\ n \in Row /\ RowOK(n)
               /\ n.status = "pending" /\ n.key = r.key /\ n.attempts = r.attempts
               /\ n.due = r.due /\ n.priority = r.priority /\ ~n.expired
BY DEF AfterReclaim, Row, RowOK, Statuses

LEMMA ClaimFact ==
    ASSUME NEW r \in Row, RowOK(r), r.status \in {"pending", "failed"}, r.due
    PROVE  LET n == AfterClaim(r)
           IN  /\ n \in Row /\ RowOK(n)
               /\ n.status = "running" /\ n.key = r.key
               /\ n.attempts = r.attempts + 1 /\ ~n.expired
<1> DEFINE n == AfterClaim(r)
<1>1. n.status = "running" /\ n.attempts = r.attempts + 1 /\ n.expired = FALSE
    BY DEF AfterClaim, Row
<1>2. n.key = r.key /\ n.priority = r.priority /\ n.due = r.due
    BY DEF AfterClaim, Row
<1>3. r.attempts + 1 \in Nat /\ r.attempts + 1 > 0 /\ "running" \in Statuses
    BY DEF Row, Statuses
<1>4. n \in Row
    BY <1>3 DEF AfterClaim, Row
<1>5. RowOK(n)
    BY <1>1, <1>2, <1>3 DEF RowOK
<1> QED
    BY <1>1, <1>2, <1>4, <1>5

LEMMA SuccessFact ==
    ASSUME NEW r \in Row, RowOK(r), r.attempts > 0
    PROVE  LET n == AfterSuccess(r)
           IN  /\ n \in Row /\ RowOK(n)
               /\ n.status = "succeeded" /\ n.key = r.key /\ n.attempts = r.attempts
BY DEF AfterSuccess, Row, RowOK, Statuses

LEMMA FailureFact ==
    ASSUME NEW r \in Row, RowOK(r), r.attempts > 0
    PROVE  LET n == AfterFailure(r)
           IN  /\ n \in Row /\ RowOK(n)
               /\ n.status = IF r.attempts >= MaxAttempts THEN "dead" ELSE "failed"
               /\ n.key = r.key /\ n.attempts = r.attempts
<1>1. CASE r.attempts >= MaxAttempts
    <2> DEFINE n == AfterFailure(r)
    <2>1. n = [r EXCEPT !.status = "dead", !.expired = FALSE]
        BY <1>1 DEF AfterFailure
    <2>2. n.status = "dead" /\ n.attempts = r.attempts /\ n.key = r.key
        BY <2>1 DEF Row
    <2>3. n \in Row
        BY <2>1 DEF Row, Statuses
    <2>4. RowOK(n)
        BY <2>2 DEF RowOK
    <2> QED
        BY <1>1, <2>2, <2>3, <2>4
<1>2. CASE ~(r.attempts >= MaxAttempts)
    <2> DEFINE n == AfterFailure(r)
    <2>1. n = [r EXCEPT !.status = "failed", !.expired = FALSE, !.due = FALSE]
        BY <1>2 DEF AfterFailure
    <2>2. n.status = "failed" /\ n.attempts = r.attempts /\ n.key = r.key
        BY <2>1 DEF Row
    <2>3. n \in Row
        BY <2>1 DEF Row, Statuses
    <2>4. RowOK(n)
        BY <2>2 DEF RowOK
    <2> QED
        BY <1>2, <2>2, <2>3, <2>4
<1> QED
    BY <1>1, <1>2

LEMMA SupersedeFact ==
    ASSUME NEW r \in Row, RowOK(r), r.status = "pending"
    PROVE  LET n == AfterSupersede(r)
           IN  /\ n \in Row /\ RowOK(n)
               /\ n.status = "superseded" /\ n.key = r.key /\ n.attempts = r.attempts
BY DEF AfterSupersede, Row, RowOK, Statuses

LEMMA BackoffFact ==
    ASSUME NEW r \in Row, RowOK(r)
    PROVE  LET n == AfterBackoff(r)
           IN  /\ n \in Row /\ RowOK(n) /\ n.status = r.status /\ n.key = r.key
               /\ n.attempts = r.attempts /\ n.expired = r.expired
BY DEF AfterBackoff, Row, RowOK, Statuses

LEMMA LeaseFact ==
    ASSUME NEW r \in Row, RowOK(r)
    PROVE  LET n == AfterLease(r)
           IN  /\ n \in Row /\ RowOK(n)
               /\ n.status = r.status /\ n.key = r.key /\ n.attempts = r.attempts
BY DEF AfterLease, Row, RowOK, Statuses

-----------------------------------------------------------------------------
(* Tables.                                                                 *)

\* What claim sees after its first statement is a table of well-formed rows with
\* the same keys, attempts and open items as before, in which only expired
\* running rows have changed.
LEMMA ReclaimedFact ==
    ASSUME TypeOK
    PROVE  /\ Reclaimed \in [Item -> Row]
           /\ \A i \in Item :
                 /\ RowOK(Reclaimed[i])
                 /\ Reclaimed[i].key = rows[i].key
                 /\ Reclaimed[i].attempts = rows[i].attempts
                 /\ Reclaimed[i].status \in Open <=> rows[i].status \in Open
                 /\ Reclaimed[i].status = "failed" <=> rows[i].status = "failed"
                 /\ Reclaimed[i].status \in Settled <=> rows[i].status \in Settled
                 /\ ~(rows[i].status = "running" /\ rows[i].expired)
                       => Reclaimed[i] = rows[i]
<1>1. ASSUME NEW i \in Item
      PROVE  /\ Reclaimed[i] \in Row
             /\ RowOK(Reclaimed[i])
             /\ Reclaimed[i].key = rows[i].key
             /\ Reclaimed[i].attempts = rows[i].attempts
             /\ Reclaimed[i].status \in Open <=> rows[i].status \in Open
             /\ Reclaimed[i].status = "failed" <=> rows[i].status = "failed"
             /\ Reclaimed[i].status \in Settled <=> rows[i].status \in Settled
             /\ ~(rows[i].status = "running" /\ rows[i].expired)
                   => Reclaimed[i] = rows[i]
    <2>1. rows[i] \in Row /\ RowOK(rows[i])
        BY DEF TypeOK
    <2>2. CASE rows[i].status = "running" /\ rows[i].expired
        <3>1. Reclaimed[i] = AfterReclaim(rows[i])
            BY <2>2 DEF Reclaimed
        <3> QED
            BY <2>1, <2>2, <3>1, ReclaimFact DEF Open, Settled
    <2>3. CASE ~(rows[i].status = "running" /\ rows[i].expired)
        <3>1. Reclaimed[i] = rows[i]
            BY <2>3 DEF Reclaimed
        <3> QED
            BY <2>1, <3>1
    <2> QED
        BY <2>2, <2>3
<1> QED
    BY <1>1 DEF Reclaimed

\* The shape of the table after each transaction that writes it: the row it
\* rewrites, and every other row unchanged.

LEMMA InsertStep ==
    ASSUME TypeOK, NEW p \in Producer, NEW i \in Item, EnqueueInserts(p, i)
    PROVE  /\ rows' \in [Item -> Row]
           /\ RowOK(rows'[i]) /\ rows'[i].status = "pending" /\ rows'[i].key = calling[p]
           /\ rows[i].status = "absent" /\ \A w \in Worker : holds[w] # i
           /\ \A j \in Item \ {i} : rows'[j] = rows[j]
<1>1. calling[p] \in Key /\ PriorityOf[p] \in Nat
    BY QueueAssumption DEF TypeOK, EnqueueInserts
<1>2. rows' = [rows EXCEPT ![i] = NewRow(calling[p], PriorityOf[p])]
    BY DEF EnqueueInserts
<1>3. rows[i].status = "absent" /\ rows[i].attempts = 0
    BY DEF EnqueueInserts, TypeOK, RowOK
<1>4. \A w \in Worker : holds[w] # i
    BY <1>3, QueueAssumption DEF TypeOK
<1> QED
    BY <1>1, <1>2, <1>3, <1>4, NewRowFact DEF TypeOK

LEMMA ClaimStep ==
    ASSUME TypeOK, NEW w \in Worker, NEW i \in Item, Claims(w, i)
    PROVE  /\ rows' \in [Item -> Row]
           /\ Reclaimed[i].status \in {"pending", "failed"}
           /\ RowOK(rows'[i]) /\ rows'[i].status = "running" /\ rows'[i].key = rows[i].key
           /\ rows'[i].attempts = rows[i].attempts + 1 /\ ~rows'[i].expired
           /\ \A j \in Item \ {i} : rows'[j] = Reclaimed[j]
<1>1. Reclaimed[i] \in Row /\ RowOK(Reclaimed[i])
    BY ReclaimedFact
<1>2. Reclaimed[i].status \in {"pending", "failed"} /\ Reclaimed[i].due
    BY DEF Claims, First, Claimable
<1>3. rows' = [Reclaimed EXCEPT ![i] = AfterClaim(Reclaimed[i])]
    BY ReclaimedFact DEF Claims
<1> QED
    BY <1>1, <1>2, <1>3, ReclaimedFact, ClaimFact

LEMMA CompleteStep ==
    ASSUME TypeOK, NEW w \in Worker, Completes(w)
    PROVE  /\ holds[w] \in Item /\ rows' \in [Item -> Row]
           /\ RowOK(rows'[holds[w]]) /\ rows'[holds[w]].status = "succeeded"
           /\ rows'[holds[w]].key = rows[holds[w]].key
           /\ rows'[holds[w]].attempts = rows[holds[w]].attempts
           /\ \A j \in Item \ {holds[w]} : rows'[j] = rows[j]
<1>1. holds[w] \in Item /\ rows[holds[w]] \in Row
    BY DEF TypeOK, Completes
<1>2. RowOK(rows[holds[w]]) /\ rows[holds[w]].attempts > 0
    BY <1>1 DEF TypeOK, Completes
<1>3. rows' = [rows EXCEPT ![holds[w]] = AfterSuccess(rows[holds[w]])]
    BY <1>1 DEF Completes
<1> QED
    BY <1>1, <1>2, <1>3, SuccessFact DEF TypeOK

LEMMA FailStep ==
    ASSUME TypeOK, NEW w \in Worker, Fails(w)
    PROVE  /\ holds[w] \in Item /\ rows' \in [Item -> Row]
           /\ RowOK(rows'[holds[w]])
           /\ rows'[holds[w]].status =
                 IF rows[holds[w]].attempts >= MaxAttempts THEN "dead" ELSE "failed"
           /\ rows'[holds[w]].key = rows[holds[w]].key
           /\ rows'[holds[w]].attempts = rows[holds[w]].attempts
           /\ \A j \in Item \ {holds[w]} : rows'[j] = rows[j]
<1>1. holds[w] \in Item /\ rows[holds[w]] \in Row
    BY DEF TypeOK, Fails
<1>2. RowOK(rows[holds[w]]) /\ rows[holds[w]].attempts > 0
    BY <1>1 DEF TypeOK, Fails
<1>3. rows' = [rows EXCEPT ![holds[w]] = AfterFailure(rows[holds[w]])]
    BY <1>1 DEF Fails
<1> QED
    BY <1>1, <1>2, <1>3, FailureFact DEF TypeOK

LEMMA SupersedeStep ==
    ASSUME TypeOK, NEW k \in Key, Supersede(k)
    PROVE  /\ rows' \in [Item -> Row]
           /\ \A j \in Item :
                 \/ rows'[j] = rows[j] /\ ~(rows[j].key = k /\ rows[j].status = "pending")
                 \/ /\ rows[j].key = k /\ rows[j].status = "pending"
                    /\ RowOK(rows'[j]) /\ rows'[j].status = "superseded"
                    /\ rows'[j].key = k /\ rows'[j].attempts = rows[j].attempts
<1>1. ASSUME NEW j \in Item
      PROVE  /\ rows'[j] \in Row
             /\ \/ rows'[j] = rows[j] /\ ~(rows[j].key = k /\ rows[j].status = "pending")
                \/ /\ rows[j].key = k /\ rows[j].status = "pending"
                   /\ RowOK(rows'[j]) /\ rows'[j].status = "superseded"
                   /\ rows'[j].key = k /\ rows'[j].attempts = rows[j].attempts
    <2>1. rows[j] \in Row /\ RowOK(rows[j])
        BY DEF TypeOK
    <2>2. CASE rows[j].key = k /\ rows[j].status = "pending"
        <3>1. rows'[j] = AfterSupersede(rows[j])
            BY <2>2 DEF Supersede
        <3> QED
            BY <2>1, <2>2, <3>1, SupersedeFact
    <2>3. CASE ~(rows[j].key = k /\ rows[j].status = "pending")
        <3>1. rows'[j] = rows[j]
            BY <2>3 DEF Supersede
        <3> QED
            BY <2>1, <2>3, <3>1
    <2> QED
        BY <2>2, <2>3
<1>2. rows' = [j \in Item |-> rows'[j]]
    BY DEF Supersede
<1> QED
    BY <1>1, <1>2

LEMMA BackoffStep ==
    ASSUME TypeOK, NEW i \in Item, BackoffElapses(i)
    PROVE  /\ rows' \in [Item -> Row]
           /\ RowOK(rows'[i]) /\ rows'[i].status = rows[i].status
           /\ rows[i].status = "failed"
           /\ rows'[i].key = rows[i].key /\ rows'[i].attempts = rows[i].attempts
           /\ \A j \in Item \ {i} : rows'[j] = rows[j]
<1>1. rows[i] \in Row /\ RowOK(rows[i])
    BY DEF TypeOK
<1>2. rows' = [rows EXCEPT ![i] = AfterBackoff(rows[i])] /\ rows[i].status = "failed"
    BY DEF BackoffElapses
<1> QED
    BY <1>1, <1>2, BackoffFact DEF TypeOK

LEMMA LeaseStep ==
    ASSUME TypeOK, NEW i \in Item, LeaseExpires(i)
    PROVE  /\ rows' \in [Item -> Row]
           /\ RowOK(rows'[i]) /\ rows'[i].status = rows[i].status
           /\ rows[i].status = "running"
           /\ rows'[i].key = rows[i].key /\ rows'[i].attempts = rows[i].attempts
           /\ \A j \in Item \ {i} : rows'[j] = rows[j]
<1>1. rows[i] \in Row /\ RowOK(rows[i])
    BY DEF TypeOK
<1>2. rows' = [rows EXCEPT ![i] = AfterLease(rows[i])] /\ rows[i].status = "running"
    BY DEF LeaseExpires
<1> QED
    BY <1>1, <1>2, LeaseFact DEF TypeOK

-----------------------------------------------------------------------------
(* Type correctness.                                                       *)

LEMMA InitTypeOK == Init => TypeOK
BY QueueAssumption DEF Init, TypeOK, AbsentRow, Row, Statuses, RowOK

\* A step that writes a well-formed table and takes no attempts back keeps the
\* whole type invariant if it treats the queue's clients properly.
LEMMA TypeFromTable ==
    ASSUME TypeOK,
           rows' \in [Item -> Row], \A j \in Item : RowOK(rows'[j]),
           \A j \in Item : rows[j].attempts > 0 => rows'[j].attempts > 0,
           calling' \in [Producer -> Key \cup {None}],
           UNCHANGED <<raised, up, crashes>>, slips' \in 0 .. MaxSlips,
           holds' \in [Worker -> Item \cup {None}],
           \A w \in Worker : holds'[w] # None =>
               \/ holds'[w] = holds[w]
               \/ w \in up /\ rows'[holds'[w]].attempts > 0
    PROVE  TypeOK'
<1>1. ASSUME NEW w \in Worker, holds'[w] # None
      PROVE  w \in up' /\ rows'[holds'[w]].attempts > 0
    <2>1. CASE holds'[w] = holds[w]
        <3>1. holds[w] \in Item /\ w \in up /\ rows[holds[w]].attempts > 0
            BY <1>1, <2>1 DEF TypeOK
        <3> QED
            BY <2>1, <3>1
    <2>2. CASE w \in up /\ rows'[holds'[w]].attempts > 0
        BY <2>2
    <2> QED
        BY <1>1, <2>1, <2>2
<1>2. raised' \in SUBSET Producer /\ up' \in SUBSET Worker /\ crashes' \in 0 .. MaxCrashes
    BY DEF TypeOK
<1> QED
    BY <1>1, <1>2 DEF TypeOK

LEMMA NextTypeOK == TypeOK /\ [Next]_vars => TypeOK'
<1> SUFFICES ASSUME TypeOK, [Next]_vars PROVE TypeOK'
    OBVIOUS
<1> USE QueueAssumption
<1>1. ASSUME NEW p \in Producer, NEW k \in Key, EnqueueLooks(p, k) PROVE TypeOK'
    BY <1>1 DEF EnqueueLooks, TypeOK
<1>2. ASSUME NEW p \in Producer, NEW i \in Item, EnqueueInserts(p, i) PROVE TypeOK'
    <2>1. \A j \in Item : RowOK(rows'[j])
        BY <1>2, InsertStep DEF TypeOK
    <2>2. \A j \in Item : rows[j].attempts > 0 => rows'[j].attempts > 0
        <3>1. rows[i].attempts = 0
            BY <1>2, InsertStep DEF TypeOK, RowOK
        <3> QED
            BY <1>2, <3>1, InsertStep
    <2>3. calling' \in [Producer -> Key \cup {None}]
        BY <1>2 DEF EnqueueInserts, TypeOK
    <2>4. UNCHANGED <<raised, holds, up, crashes, slips>>
        BY <1>2 DEF EnqueueInserts
    <2> QED
        BY <1>2, <2>1, <2>2, <2>3, <2>4, InsertStep, TypeFromTable DEF TypeOK
<1>3. ASSUME NEW p \in Producer, EnqueueRaises(p) PROVE TypeOK'
    BY <1>3 DEF EnqueueRaises, TypeOK
<1>4. ASSUME NEW p \in Producer, RestartProducer(p) PROVE TypeOK'
    BY <1>4 DEF RestartProducer, TypeOK
<1>5. ASSUME NEW w \in Worker, NEW i \in Item, Claims(w, i) PROVE TypeOK'
    <2>1. \A j \in Item : RowOK(rows'[j])
        BY <1>5, ClaimStep, ReclaimedFact
    <2>2. \A j \in Item : rows[j].attempts > 0 => rows'[j].attempts > 0
        <3>1. rows[i].attempts \in Nat
            BY DEF TypeOK, Row
        <3> QED
            BY <1>5, <3>1, ClaimStep, ReclaimedFact
    <2>3. rows'[i].attempts > 0
        BY <1>5, <2>1, ClaimStep DEF RowOK
    <2>4. rows' \in [Item -> Row]
        BY <1>5, ClaimStep
    <2>5. /\ w \in up /\ holds' = [holds EXCEPT ![w] = i]
          /\ UNCHANGED <<calling, raised, up, crashes, slips>>
        BY <1>5 DEF Claims
    <2>6. /\ holds \in [Worker -> Item \cup {None}]
          /\ calling' \in [Producer -> Key \cup {None}] /\ slips' \in 0 .. MaxSlips
        BY <2>5 DEF TypeOK
    <2>7. /\ holds' \in [Worker -> Item \cup {None}]
          /\ holds'[w] = i /\ \A v \in Worker \ {w} : holds'[v] = holds[v]
        BY <2>5, <2>6
    <2>8. \A v \in Worker : holds'[v] # None =>
              \/ holds'[v] = holds[v]
              \/ v \in up /\ rows'[holds'[v]].attempts > 0
        BY <2>3, <2>5, <2>7
    <2> QED
        BY <2>1, <2>2, <2>4, <2>5, <2>6, <2>7, <2>8, TypeFromTable
<1>6. ASSUME NEW w \in Worker, NEW i \in Item, ClaimRaises(w, i) PROVE TypeOK'
    BY <1>6 DEF ClaimRaises, TypeOK
<1>7. ASSUME NEW w \in Worker, Completes(w) PROVE TypeOK'
    <2>1. \A j \in Item : RowOK(rows'[j]) /\ rows'[j].attempts = rows[j].attempts
        BY <1>7, CompleteStep DEF TypeOK
    <2>2. holds' = [holds EXCEPT ![w] = None] /\ UNCHANGED <<calling, raised, up, crashes, slips>>
        BY <1>7 DEF Completes
    <2>3. /\ holds' \in [Worker -> Item \cup {None}]
          /\ \A v \in Worker : holds'[v] # None => holds'[v] = holds[v]
        BY <2>2 DEF TypeOK
    <2> QED
        BY <1>7, <2>1, <2>2, <2>3, CompleteStep, TypeFromTable DEF TypeOK
<1>8. ASSUME NEW w \in Worker, Fails(w) PROVE TypeOK'
    <2>1. \A j \in Item : RowOK(rows'[j]) /\ rows'[j].attempts = rows[j].attempts
        BY <1>8, FailStep DEF TypeOK
    <2>2. holds' = [holds EXCEPT ![w] = None] /\ UNCHANGED <<calling, raised, up, crashes, slips>>
        BY <1>8 DEF Fails
    <2>3. /\ holds' \in [Worker -> Item \cup {None}]
          /\ \A v \in Worker : holds'[v] # None => holds'[v] = holds[v]
        BY <2>2 DEF TypeOK
    <2> QED
        BY <1>8, <2>1, <2>2, <2>3, FailStep, TypeFromTable DEF TypeOK
<1>9. ASSUME NEW w \in Worker, Crash(w) PROVE TypeOK'
    BY <1>9 DEF Crash, TypeOK
<1>10. ASSUME NEW w \in Worker, RestartWorker(w) PROVE TypeOK'
    BY <1>10 DEF RestartWorker, TypeOK
<1>11. ASSUME NEW k \in Key, Supersede(k) PROVE TypeOK'
    <2>1. \A j \in Item : RowOK(rows'[j]) /\ rows'[j].attempts = rows[j].attempts
        BY <1>11, SupersedeStep DEF TypeOK
    <2> QED
        BY <1>11, <2>1, SupersedeStep, TypeFromTable DEF Supersede, TypeOK
<1>12. ASSUME NEW i \in Item, BackoffElapses(i) PROVE TypeOK'
    <2>1. \A j \in Item : RowOK(rows'[j]) /\ rows'[j].attempts = rows[j].attempts
        BY <1>12, BackoffStep DEF TypeOK
    <2> QED
        BY <1>12, <2>1, BackoffStep, TypeFromTable DEF BackoffElapses, TypeOK
<1>13. ASSUME NEW i \in Item, LeaseExpires(i) PROVE TypeOK'
    <2>1. \A j \in Item : RowOK(rows'[j]) /\ rows'[j].attempts = rows[j].attempts
        BY <1>13, LeaseStep DEF TypeOK
    <2>2. slips' \in 0 .. MaxSlips
        BY <1>13 DEF LeaseExpires, TypeOK
    <2> QED
        BY <1>13, <2>1, <2>2, LeaseStep, TypeFromTable DEF LeaseExpires, TypeOK
<1>14. CASE UNCHANGED vars
    BY <1>14 DEF vars, TypeOK
<1> QED
    BY <1>1, <1>2, <1>3, <1>4, <1>5, <1>6, <1>7, <1>8, <1>9, <1>10, <1>11,
       <1>12, <1>13, <1>14 DEF Next

\* Every reachable state of the queue is well typed: in particular a worker never
\* holds a row nobody enqueued, and a row never runs uncounted.
THEOREM TypeCorrect == Spec => []TypeOK
BY InitTypeOK, NextTypeOK, PTL DEF Spec

-----------------------------------------------------------------------------
(* One open item per key.                                                  *)

LEMMA InitOneOpen == Init => OneOpenPerKey
BY DEF Init, OneOpenPerKey, AbsentRow, Open

\* A step that opens no key anew: every row it leaves open was open before,
\* with the same key.
LEMMA NoNewOpen ==
    ASSUME OneOpenPerKey,
           \A j \in Item : rows'[j].status \in Open =>
               rows[j].status \in Open /\ rows'[j].key = rows[j].key
    PROVE  OneOpenPerKey'
BY DEF OneOpenPerKey

LEMMA NextOneOpen == TypeOK /\ OneOpenPerKey /\ [Next]_vars => OneOpenPerKey'
<1> SUFFICES ASSUME TypeOK, OneOpenPerKey, [Next]_vars PROVE OneOpenPerKey'
    OBVIOUS
<1>1. CASE UNCHANGED rows
    BY <1>1 DEF OneOpenPerKey
<1>2. ASSUME NEW p \in Producer, NEW i \in Item, EnqueueInserts(p, i)
      PROVE  OneOpenPerKey'
    <2>1. \A j \in Item \ {i} : rows[j].key = rows'[i].key => rows[j].status \notin Open
        <3>1. rows'[i].key = calling[p]
            BY <1>2, InsertStep
        <3>2. \A j \in Item \ {i} : rows[j].key = calling[p] => rows[j].status \notin Open
            BY <1>2 DEF EnqueueInserts, IndexAllows
        <3> QED
            BY <3>1, <3>2
    <2> QED
        BY <1>2, <2>1, InsertStep DEF OneOpenPerKey
<1>3. ASSUME NEW w \in Worker, NEW i \in Item, Claims(w, i) PROVE OneOpenPerKey'
    <2>1. \A j \in Item \ {i} : rows'[j].key = rows'[i].key => rows'[j].status \notin Open
        <3>1. \A j \in Item \ {i} : Reclaimed[j].key = Reclaimed[i].key =>
                  Reclaimed[j].status \notin Open
            BY <1>3 DEF Claims, IndexAllows
        <3>2. rows'[i].key = Reclaimed[i].key /\ \A j \in Item \ {i} : rows'[j] = Reclaimed[j]
            <4>1. rows'[i].key = rows[i].key /\ \A j \in Item \ {i} : rows'[j] = Reclaimed[j]
                BY <1>3, ClaimStep
            <4>2. Reclaimed[i].key = rows[i].key
                BY ReclaimedFact
            <4> QED
                BY <4>1, <4>2
        <3> QED
            BY <3>1, <3>2
    <2>2. \A j \in Item \ {i} : rows'[j].status \in Open =>
              rows[j].status \in Open /\ rows'[j].key = rows[j].key
        BY <1>3, ClaimStep, ReclaimedFact
    <2> QED
        BY <2>1, <2>2 DEF OneOpenPerKey
<1>4. ASSUME NEW w \in Worker, Completes(w) PROVE OneOpenPerKey'
    BY <1>4, CompleteStep, NoNewOpen DEF Open
<1>5. ASSUME NEW w \in Worker, Fails(w) PROVE OneOpenPerKey'
    BY <1>5, FailStep, NoNewOpen DEF Open
<1>6. ASSUME NEW k \in Key, Supersede(k) PROVE OneOpenPerKey'
    BY <1>6, SupersedeStep, NoNewOpen DEF Open
<1>7. ASSUME NEW i \in Item, BackoffElapses(i) PROVE OneOpenPerKey'
    BY <1>7, BackoffStep, NoNewOpen DEF Open
<1>8. ASSUME NEW i \in Item, LeaseExpires(i) PROVE OneOpenPerKey'
    BY <1>8, LeaseStep, NoNewOpen DEF Open
<1> QED
    BY <1>1, <1>2, <1>3, <1>4, <1>5, <1>6, <1>7, <1>8
    DEF Next, vars, EnqueueLooks, EnqueueRaises, RestartProducer, ClaimRaises,
        Crash, RestartWorker

\* For every table size and every interleaving of inserts, claims and reclaims, a
\* key has at most one pending or running item.
THEOREM OneOpenPerKeyHolds == Spec => []OneOpenPerKey
<1>1. TypeOK /\ OneOpenPerKey /\ [Next]_vars => (TypeOK /\ OneOpenPerKey)'
    BY NextTypeOK, NextOneOpen
<1> QED
    BY <1>1, InitTypeOK, InitOneOpen, PTL DEF Spec

-----------------------------------------------------------------------------
(* Single flight within the lease.                                         *)

\* A step that rewrites no held row, and hands out nothing, keeps single flight.
LEMMA FlightKept ==
    ASSUME TypeOK, SingleFlightWithinLease, slips' = 0 => slips = 0,
           \A w \in Worker : holds'[w] # None =>
               /\ holds'[w] = holds[w]
               /\ slips = 0 => /\ rows'[holds[w]].status = rows[holds[w]].status
                               /\ rows'[holds[w]].expired = rows[holds[w]].expired
                               /\ rows'[holds[w]].key = rows[holds[w]].key
    PROVE  SingleFlightWithinLease'
BY DEF SingleFlightWithinLease

LEMMA NextSingleFlight ==
    TypeOK /\ OneOpenPerKey /\ SingleFlightWithinLease /\ [Next]_vars
        => SingleFlightWithinLease'
<1> SUFFICES ASSUME TypeOK, OneOpenPerKey, SingleFlightWithinLease, [Next]_vars
             PROVE  SingleFlightWithinLease'
    OBVIOUS
<1>1. CASE UNCHANGED <<rows, holds, slips>>
    BY <1>1 DEF SingleFlightWithinLease
<1>2. ASSUME NEW p \in Producer, NEW i \in Item, EnqueueInserts(p, i)
      PROVE  SingleFlightWithinLease'
    <2>1. \A w \in Worker : holds[w] # None => rows'[holds[w]] = rows[holds[w]]
        BY <1>2, InsertStep DEF TypeOK
    <2> QED
        BY <1>2, <2>1, FlightKept DEF EnqueueInserts
<1>3. ASSUME NEW w \in Worker, NEW i \in Item, Claims(w, i)
      PROVE  SingleFlightWithinLease'
    <2>1. SUFFICES ASSUME slips = 0
                   PROVE  \A v \in Worker : holds'[v] # None =>
                            /\ rows'[holds'[v]].status = "running"
                            /\ ~rows'[holds'[v]].expired
                            /\ \A u \in Worker \ {v} : holds'[u] # None =>
                                  rows'[holds'[u]].key # rows'[holds'[v]].key
        BY <1>3 DEF Claims, SingleFlightWithinLease
    <2>2. holds'[w] = i /\ \A v \in Worker \ {w} : holds'[v] = holds[v]
        BY <1>3 DEF Claims, TypeOK
    <2>3. rows'[i].status = "running" /\ ~rows'[i].expired
        BY <1>3, ClaimStep
    \* What the others hold is running and unexpired, so the reclaim passed over
    \* it and the claim took something else.
    <2>4. ASSUME NEW v \in Worker \ {w}, holds[v] # None
          PROVE  /\ holds[v] \in Item \ {i}
                 /\ rows'[holds[v]] = rows[holds[v]]
                 /\ rows[holds[v]].status = "running" /\ ~rows[holds[v]].expired
        <3>1. holds[v] \in Item /\ rows[holds[v]].status = "running" /\ ~rows[holds[v]].expired
            BY <2>1, <2>4 DEF SingleFlightWithinLease, TypeOK
        <3>2. Reclaimed[holds[v]] = rows[holds[v]]
            BY <3>1, ReclaimedFact
        <3>3. holds[v] # i
            BY <1>3, <3>1, <3>2, ClaimStep
        <3> QED
            BY <1>3, <3>1, <3>2, <3>3, ClaimStep
    \* The index allowed the claim, so their keys differ from the new one.
    <2>5. ASSUME NEW v \in Worker \ {w}, holds[v] # None
          PROVE  rows'[holds[v]].key # rows'[i].key
        <3>1. OneOpenPerKey'
            BY NextOneOpen
        <3> QED
            BY <2>3, <2>4, <2>5, <3>1 DEF OneOpenPerKey, Open
    <2>6. ASSUME NEW v \in Worker \ {w}, NEW u \in Worker \ {w}, u # v,
                 holds[v] # None, holds[u] # None
          PROVE  rows'[holds[u]].key # rows'[holds[v]].key
        BY <2>1, <2>4, <2>6 DEF SingleFlightWithinLease
    <2> QED
        BY <2>2, <2>3, <2>4, <2>5, <2>6
<1>4. ASSUME NEW w \in Worker,
             Completes(w) \/ Fails(w)
      PROVE  SingleFlightWithinLease'
    <2>1. /\ holds[w] \in Item /\ holds[w] # None
          /\ \A j \in Item \ {holds[w]} : rows'[j] = rows[j]
        BY <1>4, CompleteStep, FailStep DEF Completes, Fails
    <2>2. \A v \in Worker : holds'[v] # None => v # w /\ holds'[v] = holds[v]
        BY <1>4 DEF Completes, Fails, TypeOK
    <2>3. \A v \in Worker \ {w} : slips = 0 /\ holds[v] # None =>
              holds[v] \in Item \ {holds[w]}
        BY <2>1 DEF SingleFlightWithinLease, TypeOK
    <2> QED
        BY <1>4, <2>1, <2>2, <2>3, FlightKept DEF Completes, Fails
<1>5. ASSUME NEW k \in Key, Supersede(k) PROVE SingleFlightWithinLease'
    <2>1. \A w \in Worker : slips = 0 /\ holds[w] # None => rows'[holds[w]] = rows[holds[w]]
        BY <1>5, SupersedeStep DEF TypeOK, SingleFlightWithinLease
    <2> QED
        BY <1>5, <2>1, FlightKept DEF Supersede
<1>6. ASSUME NEW i \in Item, BackoffElapses(i) PROVE SingleFlightWithinLease'
    <2>1. \A w \in Worker : slips = 0 /\ holds[w] # None => rows'[holds[w]] = rows[holds[w]]
        BY <1>6, BackoffStep DEF TypeOK, SingleFlightWithinLease
    <2> QED
        BY <1>6, <2>1, FlightKept DEF BackoffElapses
<1>7. ASSUME NEW i \in Item, LeaseExpires(i) PROVE SingleFlightWithinLease'
    <2>1. CASE Held(i)
        <3>1. slips' # 0
            BY <1>7, <2>1 DEF LeaseExpires, TypeOK
        <3> QED
            BY <3>1 DEF SingleFlightWithinLease
    <2>2. CASE ~Held(i)
        <3>1. \A w \in Worker : holds[w] # None => rows'[holds[w]] = rows[holds[w]]
            BY <1>7, <2>2, LeaseStep DEF Held, TypeOK
        <3> QED
            BY <1>7, <2>2, <3>1, FlightKept DEF LeaseExpires
    <2> QED
        BY <2>1, <2>2
<1>8. ASSUME NEW w \in Worker, Crash(w) PROVE SingleFlightWithinLease'
    BY <1>8, FlightKept DEF Crash, TypeOK
<1> QED
    BY <1>1, <1>2, <1>3, <1>4, <1>5, <1>6, <1>7, <1>8
    DEF Next, vars, EnqueueLooks, EnqueueRaises, RestartProducer, ClaimRaises,
        RestartWorker

\* However many workers poll the queue, and whatever crashes: while no handler has
\* outlived its lease, no key is executed twice at once and no transaction of
\* another worker touches the row of an executing one.
THEOREM SingleFlightHolds == Spec => []SingleFlightWithinLease
<1>1. Init => SingleFlightWithinLease
    BY DEF Init, SingleFlightWithinLease
<1>2. TypeOK /\ OneOpenPerKey /\ SingleFlightWithinLease /\ [Next]_vars
        => (TypeOK /\ OneOpenPerKey /\ SingleFlightWithinLease)'
    BY NextTypeOK, NextOneOpen, NextSingleFlight
<1> QED
    BY <1>1, <1>2, InitTypeOK, InitOneOpen, PTL DEF Spec

-----------------------------------------------------------------------------
(* The attempt budget.                                                     *)

LEMMA NextBudget == TypeOK /\ RetryHasBudget /\ [Next]_vars => RetryHasBudget'
<1> SUFFICES ASSUME TypeOK, RetryHasBudget, [Next]_vars,
                    NEW i \in Item, rows'[i].status = "failed"
             PROVE  rows'[i].attempts < MaxAttempts
    BY DEF RetryHasBudget
<1>0. rows[i].attempts \in Nat /\ (rows[i].status = "failed" => rows[i].attempts < MaxAttempts)
    BY DEF TypeOK, Row, RetryHasBudget
<1>1. CASE UNCHANGED rows
    BY <1>0, <1>1
<1>2. ASSUME NEW p \in Producer, NEW j \in Item, EnqueueInserts(p, j)
      PROVE  rows'[i].attempts < MaxAttempts
    BY <1>0, <1>2, InsertStep
<1>3. ASSUME NEW w \in Worker, NEW j \in Item, Claims(w, j)
      PROVE  rows'[i].attempts < MaxAttempts
    BY <1>0, <1>3, ClaimStep, ReclaimedFact
<1>4. ASSUME NEW w \in Worker, Completes(w) PROVE rows'[i].attempts < MaxAttempts
    BY <1>0, <1>4, CompleteStep
<1>5. ASSUME NEW w \in Worker, Fails(w) PROVE rows'[i].attempts < MaxAttempts
    BY <1>0, <1>5, FailStep, QueueAssumption
<1>6. ASSUME NEW k \in Key, Supersede(k) PROVE rows'[i].attempts < MaxAttempts
    BY <1>0, <1>6, SupersedeStep
<1>7. ASSUME NEW j \in Item, BackoffElapses(j) PROVE rows'[i].attempts < MaxAttempts
    BY <1>0, <1>7, BackoffStep
<1>8. ASSUME NEW j \in Item, LeaseExpires(j) PROVE rows'[i].attempts < MaxAttempts
    BY <1>0, <1>8, LeaseStep
<1> QED
    BY <1>1, <1>2, <1>3, <1>4, <1>5, <1>6, <1>7, <1>8
    DEF Next, vars, EnqueueLooks, EnqueueRaises, RestartProducer, ClaimRaises,
        Crash, RestartWorker

\* No item ever waits for a retry it has no attempt left for, although fail may be
\* called late, twice, and over any status.
THEOREM RetryBudgetHolds == Spec => []RetryHasBudget
<1>1. Init => RetryHasBudget
    BY DEF Init, RetryHasBudget, AbsentRow
<1>2. TypeOK /\ RetryHasBudget /\ [Next]_vars => (TypeOK /\ RetryHasBudget)'
    BY NextTypeOK, NextBudget
<1> QED
    BY <1>1, <1>2, InitTypeOK, PTL DEF Spec

LEMMA StepStaysSettled ==
    ASSUME TypeOK, Next, NEW i \in Item,
           rows[i].status \in Settled, rows[i].attempts >= MaxAttempts
    PROVE  rows'[i].status \in Settled
<1>1. CASE UNCHANGED rows
    BY <1>1
<1>2. ASSUME NEW p \in Producer, NEW j \in Item, EnqueueInserts(p, j)
      PROVE  rows'[i].status \in Settled
    BY <1>2, InsertStep DEF Settled
<1>3. ASSUME NEW w \in Worker, NEW j \in Item, Claims(w, j)
      PROVE  rows'[i].status \in Settled
    BY <1>3, ClaimStep, ReclaimedFact DEF Settled
<1>4. ASSUME NEW w \in Worker, Completes(w) PROVE rows'[i].status \in Settled
    BY <1>4, CompleteStep DEF Settled
<1>5. ASSUME NEW w \in Worker, Fails(w) PROVE rows'[i].status \in Settled
    BY <1>5, FailStep DEF Settled
<1>6. ASSUME NEW k \in Key, Supersede(k) PROVE rows'[i].status \in Settled
    BY <1>6, SupersedeStep DEF Settled
<1>7. ASSUME NEW j \in Item, BackoffElapses(j) PROVE rows'[i].status \in Settled
    BY <1>7, BackoffStep DEF Settled
<1>8. ASSUME NEW j \in Item, LeaseExpires(j) PROVE rows'[i].status \in Settled
    BY <1>8, LeaseStep DEF Settled
<1> QED
    BY <1>1, <1>2, <1>3, <1>4, <1>5, <1>6, <1>7, <1>8
    DEF Next, EnqueueLooks, EnqueueRaises, RestartProducer, ClaimRaises,
        Crash, RestartWorker

\* A settled item with no attempts left is never put back to work.
THEOREM ExhaustedStaysSettledHolds == Spec => ExhaustedStaysSettled
<1>1. TypeOK /\ [Next]_vars =>
        [\A i \in Item : rows[i].status \in Settled /\ rows[i].attempts >= MaxAttempts
                         => rows'[i].status \in Settled]_vars
    BY StepStaysSettled
<1> QED
    BY <1>1, InitTypeOK, NextTypeOK, PTL DEF Spec, ExhaustedStaysSettled

-----------------------------------------------------------------------------
(* Runs beyond the budget.                                                 *)

\* An item that was reclaimed, or whose run nobody is left to finish, has a kill or
\* an outlived lease to its account that its attempts do not count yet.
Charged ==
    /\ ExtraRunsCostACrash
    /\ \A i \in Item :
          \/ rows[i].status = "pending"
          \/ rows[i].status = "running" /\ (rows[i].expired \/ ~Held(i))
          => rows[i].attempts < MaxAttempts + crashes + slips

Account == MaxAttempts + crashes + slips

LEMMA NextCharged ==
    TypeOK /\ RetryHasBudget /\ Charged /\ [Next]_vars => Charged'
<1> SUFFICES ASSUME TypeOK, RetryHasBudget, Charged, [Next]_vars, NEW i \in Item
             PROVE  /\ rows'[i].attempts <= Account'
                    /\ \/ rows'[i].status = "pending"
                       \/ rows'[i].status = "running" /\ (rows'[i].expired \/ ~Held(i)')
                       => rows'[i].attempts < Account'
    BY DEF Charged, ExtraRunsCostACrash, Account
<1> DEFINE Good == /\ rows'[i].attempts <= Account'
                   /\ \/ rows'[i].status = "pending"
                      \/ rows'[i].status = "running" /\ (rows'[i].expired \/ ~Held(i)')
                      => rows'[i].attempts < Account'
<1>0. /\ rows[i].attempts \in Nat /\ crashes \in Nat /\ slips \in Nat
      /\ MaxAttempts \in Nat \ {0} /\ Account \in Nat /\ Account >= MaxAttempts
      /\ rows[i].attempts <= Account
      /\ rows[i].status = "failed" => rows[i].attempts < MaxAttempts
    BY QueueAssumption DEF TypeOK, Row, Charged, ExtraRunsCostACrash, RetryHasBudget, Account
<1>c. \/ rows[i].status = "pending"
      \/ rows[i].status = "running" /\ (rows[i].expired \/ ~Held(i))
      => rows[i].attempts < Account
    BY DEF Charged, Account
<1>1. CASE UNCHANGED <<rows, holds, crashes, slips>>
    BY <1>0, <1>c, <1>1 DEF Held, Account
<1>2. ASSUME NEW p \in Producer, NEW j \in Item, EnqueueInserts(p, j) PROVE Good
    <2>1. Account' = Account /\ holds' = holds
        BY <1>2 DEF EnqueueInserts, Account
    <2>2. CASE i = j
        <3>1. rows'[i] = NewRow(calling[p], PriorityOf[p])
            BY <1>2, <2>2 DEF EnqueueInserts, TypeOK
        <3>2. rows'[i].attempts = 0
            BY <3>1 DEF NewRow
        <3> QED
            BY <1>0, <2>1, <3>2
    <2>3. CASE i # j
        BY <1>0, <1>c, <1>2, <2>1, <2>3, InsertStep DEF Held
    <2> QED
        BY <2>2, <2>3
<1>3. ASSUME NEW w \in Worker, NEW j \in Item, Claims(w, j) PROVE Good
    <2>1. Account' = Account /\ holds' = [holds EXCEPT ![w] = j] /\ holds[w] = None
        BY <1>3 DEF Claims, Account
    <2>2. Held(j)'
        BY <2>1 DEF Held, TypeOK
    <2>3. CASE i = j
        <3>1. rows[i].attempts < Account
            <4>1. Reclaimed[i].status \in {"pending", "failed"}
                BY <1>3, <2>3, ClaimStep
            <4>2. rows[i].status = "failed" \/ rows[i].status = "pending"
                  \/ (rows[i].status = "running" /\ rows[i].expired)
                BY <4>1, ReclaimedFact
            <4> QED
                BY <1>0, <1>c, <4>2
        <3>2. rows'[i].attempts = rows[i].attempts + 1 /\ rows'[i].status = "running"
              /\ ~rows'[i].expired
            BY <1>3, <2>3, ClaimStep, ReclaimedFact
        <3> QED
            BY <1>0, <2>1, <2>2, <2>3, <3>1, <3>2
    <2>4. CASE i # j
        <3>1. rows'[i] = Reclaimed[i] /\ rows'[i].attempts = rows[i].attempts
            BY <1>3, <2>4, ClaimStep, ReclaimedFact
        <3>2. CASE rows[i].status = "running" /\ rows[i].expired
            BY <1>0, <1>c, <2>1, <3>1, <3>2
        <3>3. CASE ~(rows[i].status = "running" /\ rows[i].expired)
            <4>1. rows'[i] = rows[i]
                BY <3>1, <3>3, ReclaimedFact
            <4>2. Held(i) => Held(i)'
                BY <2>1, QueueAssumption DEF Held, TypeOK
            <4> QED
                BY <1>0, <1>c, <2>1, <4>1, <4>2
        <3> QED
            BY <3>2, <3>3
    <2> QED
        BY <2>3, <2>4
<1>4. ASSUME NEW w \in Worker, Completes(w) \/ Fails(w) PROVE Good
    <2>1. Account' = Account /\ holds' = [holds EXCEPT ![w] = None]
        BY <1>4 DEF Completes, Fails, Account
    <2>2. CASE i = holds[w]
        <3>1. rows'[i].status \notin {"pending", "running"}
              /\ rows'[i].attempts = rows[i].attempts
            BY <1>4, <2>2, CompleteStep, FailStep
        <3> QED
            BY <1>0, <2>1, <3>1
    <2>3. CASE i # holds[w]
        <3>1. rows'[i] = rows[i]
            BY <1>4, <2>3, CompleteStep, FailStep
        <3>2. Held(i) => Held(i)'
            BY <2>1, <2>3 DEF Held, TypeOK
        <3> QED
            BY <1>0, <1>c, <2>1, <3>1, <3>2
    <2> QED
        BY <2>2, <2>3
<1>5. ASSUME NEW k \in Key, Supersede(k) PROVE Good
    <2>1. Account' = Account /\ holds' = holds
        BY <1>5 DEF Supersede, Account
    <2> QED
        BY <1>0, <1>c, <1>5, <2>1, SupersedeStep DEF Held
<1>6. ASSUME NEW j \in Item, BackoffElapses(j) PROVE Good
    <2>1. Account' = Account /\ holds' = holds
        BY <1>6 DEF BackoffElapses, Account
    <2> QED
        BY <1>0, <1>c, <1>6, <2>1, BackoffStep DEF Held
<1>7. ASSUME NEW j \in Item, LeaseExpires(j) PROVE Good
    <2>1. holds' = holds /\ rows'[i].attempts = rows[i].attempts
          /\ rows'[i].status = rows[i].status
        BY <1>7, LeaseStep DEF LeaseExpires
    <2>2. CASE Held(j)
        <3>1. Account' = Account + 1
            BY <1>0, <1>7, <2>2 DEF LeaseExpires, Account
        <3> QED
            BY <1>0, <2>1, <3>1
    <2>3. CASE ~Held(j)
        <3>1. Account' = Account
            BY <1>7, <2>3 DEF LeaseExpires, Account
        <3>2. i # j => rows'[i] = rows[i]
            BY <1>7, LeaseStep
        <3>3. i = j => rows[i].status = "running" /\ ~Held(i)
            BY <1>7, <2>3 DEF LeaseExpires
        <3> QED
            BY <1>0, <1>c, <2>1, <3>1, <3>2, <3>3 DEF Held
    <2> QED
        BY <2>2, <2>3
<1>8. ASSUME NEW w \in Worker, Crash(w) PROVE Good
    <2>1. Account' = Account + 1 /\ rows' = rows
        BY <1>0, <1>8 DEF Crash, Account
    <2> QED
        BY <1>0, <2>1
<1> QED
    BY <1>1, <1>2, <1>3, <1>4, <1>5, <1>6, <1>7, <1>8
    DEF Next, vars, EnqueueLooks, EnqueueRaises, RestartProducer, ClaimRaises, RestartWorker

\* For any number of workers, kills and outlived leases: an item is run at most
\* max_attempts times, and once more for each kill or outlived lease.
THEOREM ExtraRunsCostACrashHolds == Spec => []ExtraRunsCostACrash
<1>1. Init => RetryHasBudget
    BY DEF Init, RetryHasBudget, AbsentRow
<1>2. Init => Charged
    BY QueueAssumption DEF Init, Charged, ExtraRunsCostACrash, AbsentRow
<1>3. TypeOK /\ RetryHasBudget /\ Charged /\ [Next]_vars
        => (TypeOK /\ RetryHasBudget /\ Charged)'
    BY NextTypeOK, NextBudget, NextCharged
<1>4. Charged => ExtraRunsCostACrash
    BY DEF Charged
<1> QED
    BY <1>1, <1>2, <1>3, <1>4, InitTypeOK, PTL DEF Spec

-----------------------------------------------------------------------------
(* A success stands.                                                       *)

LEMMA StepKeepsSuccess ==
    ASSUME TypeOK, SingleFlightWithinLease, Next, NEW i \in Item,
           rows[i].status = "succeeded", slips = 0
    PROVE  rows'[i].status = "succeeded"
<1>1. CASE UNCHANGED rows
    BY <1>1
<1>2. ASSUME NEW p \in Producer, NEW j \in Item, EnqueueInserts(p, j)
      PROVE  rows'[i].status = "succeeded"
    BY <1>2, InsertStep
<1>3. ASSUME NEW w \in Worker, NEW j \in Item, Claims(w, j)
      PROVE  rows'[i].status = "succeeded"
    <2>1. Reclaimed[i] = rows[i]
        BY ReclaimedFact
    <2> QED
        BY <1>3, <2>1, ClaimStep
<1>4. ASSUME NEW w \in Worker, Completes(w) \/ Fails(w)
      PROVE  rows'[i].status = "succeeded"
    <2>1. holds[w] # i
        BY <1>4 DEF SingleFlightWithinLease, Completes, Fails
    <2> QED
        BY <1>4, <2>1, CompleteStep, FailStep
<1>5. ASSUME NEW k \in Key, Supersede(k) PROVE rows'[i].status = "succeeded"
    BY <1>5, SupersedeStep
<1>6. ASSUME NEW j \in Item, BackoffElapses(j) \/ LeaseExpires(j)
      PROVE  rows'[i].status = "succeeded"
    BY <1>6, BackoffStep, LeaseStep
<1> QED
    BY <1>1, <1>2, <1>3, <1>4, <1>5, <1>6
    DEF Next, EnqueueLooks, EnqueueRaises, RestartProducer, ClaimRaises,
        Crash, RestartWorker

\* While leases are kept no other worker touches a finished item, whatever is killed.
THEOREM SuccessStandsHolds == Spec => SuccessStandsWithinLease
<1>1. TypeOK /\ SingleFlightWithinLease /\ [Next]_vars =>
        [\A i \in Item : rows[i].status = "succeeded" /\ slips = 0
                         => rows'[i].status = "succeeded"]_vars
    BY StepKeepsSuccess
<1>2. Spec => []TypeOK
    BY TypeCorrect
<1>3. Spec => []SingleFlightWithinLease
    BY SingleFlightHolds
<1> QED
    BY <1>1, <1>2, <1>3, PTL DEF Spec, SuccessStandsWithinLease

-----------------------------------------------------------------------------
(* The queue implements the lock per key.                                  *)

LEMMA HolderFact ==
    ASSUME NEW t, NEW k \in Key, NEW i \in Item,
           t[i].key = k, t[i].status \in Open,
           \A j \in Item : t[j].key = k /\ t[j].status \in Open => j = i
    PROVE  Holder(t, k) = i
BY DEF Holder

LEMMA NoHolderFact ==
    ASSUME NEW t, NEW k \in Key,
           \A i \in Item : t[i].key = k => t[i].status \notin Open
    PROVE  Holder(t, k) = None
BY DEF Holder

LEMMA HolderType ==
    ASSUME NEW t, NEW k \in Key
    PROVE  Holder(t, k) \in Item \cup {None}
BY DEF Holder

\* Two tables with the same open items of a key agree on its holder.
LEMMA SameHolder ==
    ASSUME NEW t, NEW u, NEW k \in Key,
           \A i, j \in Item :
              t[i].key = k /\ t[i].status \in Open /\ t[j].key = k /\ t[j].status \in Open
              => i = j,
           \A i \in Item : t[i].key = k /\ t[i].status \in Open
                           <=> u[i].key = k /\ u[i].status \in Open
    PROVE  Holder(u, k) = Holder(t, k)
<1>1. CASE \E i \in Item : t[i].key = k /\ t[i].status \in Open
    <2>1. PICK i \in Item : t[i].key = k /\ t[i].status \in Open
        BY <1>1
    <2> QED
        BY <2>1, HolderFact
<1>2. CASE ~\E i \in Item : t[i].key = k /\ t[i].status \in Open
    BY <1>2, NoHolderFact
<1> QED
    BY <1>1, <1>2

\* A step after which the open items of every key are the same leaves the lock alone.
LEMMA LockStutters ==
    ASSUME OneOpenPerKey,
           \A i \in Item : /\ rows'[i].status \in Open <=> rows[i].status \in Open
                           /\ rows[i].status \in Open => rows'[i].key = rows[i].key
    PROVE  UNCHANGED [k \in Key |-> Holder(rows, k)]
<1>1. ASSUME NEW k \in Key PROVE Holder(rows', k) = Holder(rows, k)
    <2>1. \A i, j \in Item :
              rows[i].key = k /\ rows[i].status \in Open /\ rows[j].key = k /\ rows[j].status \in Open
              => i = j
        BY DEF OneOpenPerKey
    <2> HIDE DEF Holder
    <2> QED
        BY <2>1, SameHolder
<1> QED
    BY <1>1

\* A step that opens item x, and no other, acquires its key, which was free.
LEMMA LockAcquires ==
    ASSUME OneOpenPerKey, OneOpenPerKey', NEW x \in Item,
           rows[x].status \notin Open, rows'[x].status \in Open, rows'[x].key \in Key,
           \A i \in Item \ {x} :
               /\ rows'[i].status \in Open <=> rows[i].status \in Open
               /\ rows[i].status \in Open => rows'[i].key = rows[i].key
    PROVE  Lock!Acquire(rows'[x].key, x)
<1> DEFINE y == rows'[x].key
<1>1. Holder(rows, y) = None
    <2>1. \A i \in Item : rows[i].key = y => rows[i].status \notin Open
        BY DEF OneOpenPerKey
    <2> QED
        BY <2>1, NoHolderFact
<1>2. Holder(rows', y) = x
    <2>1. \A j \in Item : rows'[j].key = y /\ rows'[j].status \in Open => j = x
        BY DEF OneOpenPerKey
    <2> QED
        BY <2>1, HolderFact
<1>3. ASSUME NEW k \in Key, k # y PROVE Holder(rows', k) = Holder(rows, k)
    <2>1. \A i, j \in Item :
              rows[i].key = k /\ rows[i].status \in Open /\ rows[j].key = k /\ rows[j].status \in Open
              => i = j
        BY DEF OneOpenPerKey
    <2>2. \A i \in Item : rows[i].key = k /\ rows[i].status \in Open
                          <=> rows'[i].key = k /\ rows'[i].status \in Open
        BY <1>3
    <2> QED
        BY <2>1, <2>2, SameHolder
<1> QED
    BY <1>1, <1>2, <1>3 DEF Lock!Acquire

\* A step that closes item x, and no other, releases its key.
LEMMA LockReleases ==
    ASSUME OneOpenPerKey, NEW x \in Item,
           rows[x].status \in Open, rows'[x].status \notin Open, rows[x].key \in Key,
           \A i \in Item \ {x} :
               /\ rows'[i].status \in Open <=> rows[i].status \in Open
               /\ rows[i].status \in Open => rows'[i].key = rows[i].key
    PROVE  Lock!Release(rows[x].key)
<1> DEFINE y == rows[x].key
<1>1. Holder(rows, y) = x
    <2>1. \A j \in Item : rows[j].key = y /\ rows[j].status \in Open => j = x
        BY DEF OneOpenPerKey
    <2> QED
        BY <2>1, HolderFact
<1>2. Holder(rows', y) = None
    <2>1. \A i \in Item : rows'[i].key = y => rows'[i].status \notin Open
        BY DEF OneOpenPerKey
    <2> QED
        BY <2>1, NoHolderFact
<1>3. ASSUME NEW k \in Key, k # y PROVE Holder(rows', k) = Holder(rows, k)
    <2>1. \A i, j \in Item :
              rows[i].key = k /\ rows[i].status \in Open /\ rows[j].key = k /\ rows[j].status \in Open
              => i = j
        BY DEF OneOpenPerKey
    <2>2. \A i \in Item : rows[i].key = k /\ rows[i].status \in Open
                          <=> rows'[i].key = k /\ rows'[i].status \in Open
        BY <1>3
    <2> QED
        BY <2>1, <2>2, SameHolder
<1> QED
    BY <1>1, <1>2, <1>3, QueueAssumption DEF Lock!Release

LEMMA StepImplementsLock ==
    TypeOK /\ OneOpenPerKey /\ [Next]_vars
        => [Lock!Next]_([k \in Key |-> Holder(rows, k)])
<1> SUFFICES ASSUME TypeOK, OneOpenPerKey, [Next]_vars
             PROVE  [Lock!Next]_([k \in Key |-> Holder(rows, k)])
    OBVIOUS
<1> DEFINE Done == [Lock!Next]_([k \in Key |-> Holder(rows, k)])
<1>0. OneOpenPerKey' /\ TypeOK'
    BY NextOneOpen, NextTypeOK
<1>k. \A i \in Item : /\ rows[i].status \in Open => rows[i].key \in Key
                      /\ rows'[i].status \in Open => rows'[i].key \in Key
    BY <1>0 DEF TypeOK, Row, RowOK, Open
<1>a. ASSUME NEW x \in Item, Lock!Acquire(rows'[x].key, x), rows'[x].key \in Key PROVE Done
    BY <1>a DEF Lock!Next
<1>r. ASSUME NEW k \in Key, Lock!Release(k) PROVE Done
    BY <1>r DEF Lock!Next
<1> HIDE DEF Done
<1>1. CASE UNCHANGED rows
    BY <1>1, LockStutters DEF Done
<1>2. ASSUME NEW p \in Producer, NEW i \in Item, EnqueueInserts(p, i) PROVE Done
    BY <1>0, <1>k, <1>a, <1>2, InsertStep, LockAcquires DEF Open
<1>3. ASSUME NEW w \in Worker, NEW i \in Item, Claims(w, i) PROVE Done
    <2>1. /\ rows'[i].status \in Open /\ rows'[i].key = rows[i].key
          /\ \A j \in Item \ {i} :
                /\ rows'[j].status \in Open <=> rows[j].status \in Open
                /\ rows[j].status \in Open => rows'[j].key = rows[j].key
        BY <1>3, ClaimStep, ReclaimedFact DEF Open
    <2>2. CASE rows[i].status \in Open
        BY <2>1, <2>2, LockStutters DEF Done
    <2>3. CASE rows[i].status \notin Open
        BY <1>0, <1>k, <1>a, <2>1, <2>3, LockAcquires
    <2> QED
        BY <2>2, <2>3
<1>4. ASSUME NEW w \in Worker, Completes(w) \/ Fails(w) PROVE Done
    <2>1. /\ holds[w] \in Item /\ rows'[holds[w]].status \notin Open
          /\ \A j \in Item \ {holds[w]} : rows'[j] = rows[j]
        BY <1>4, CompleteStep, FailStep DEF Open
    <2>2. CASE rows[holds[w]].status \in Open
        BY <1>k, <1>r, <2>1, <2>2, LockReleases
    <2>3. CASE rows[holds[w]].status \notin Open
        BY <2>1, <2>3, LockStutters DEF Done
    <2> QED
        BY <2>2, <2>3
<1>5. ASSUME NEW k \in Key, Supersede(k) PROVE Done
    <2>1. PICK x \in Item : rows[x].key = k /\ rows[x].status = "pending"
        BY <1>5 DEF Supersede
    <2>2. rows'[x].status \notin Open
        BY <1>5, <2>1, SupersedeStep DEF Open
    <2>3. \A j \in Item \ {x} : rows'[j] = rows[j]
        BY <1>5, <2>1, SupersedeStep DEF OneOpenPerKey, Open
    <2> QED
        BY <1>k, <1>r, <2>1, <2>2, <2>3, LockReleases DEF Open
<1>6. ASSUME NEW i \in Item, BackoffElapses(i) \/ LeaseExpires(i) PROVE Done
    <2>1. \A j \in Item : rows'[j].status = rows[j].status /\ rows'[j].key = rows[j].key
        BY <1>6, BackoffStep, LeaseStep
    <2> QED
        BY <2>1, LockStutters DEF Done
<1> QED
    BY <1>1, <1>2, <1>3, <1>4, <1>5, <1>6
    DEF Next, vars, Done, EnqueueLooks, EnqueueRaises, RestartProducer, ClaimRaises,
        Crash, RestartWorker

\* The queue, with its races, crashes and expired leases, implements the lock per
\* key: a key passes between items only through being free.
THEOREM QueueImplementsKeyLock == Spec => ImplementsKeyLock
<1>1. Init => Lock!Init
    BY NoHolderFact DEF Init, Lock!Init, AbsentRow, Open, Holder
<1>2. TypeOK /\ OneOpenPerKey /\ [Next]_vars => (TypeOK /\ OneOpenPerKey)'
    BY NextTypeOK, NextOneOpen
<1> QED
    BY <1>1, <1>2, StepImplementsLock, InitTypeOK, InitOneOpen, PTL
    DEF Spec, ImplementsKeyLock, Lock!Spec

\* One worker per key, for any number of keys, items, producers and workers.
THEOREM OneWorkerPerKeyHolds == Spec => []OneWorkerPerKey
<1>1. OneOpenPerKey /\ SingleFlightWithinLease => OneWorkerPerKey
    BY DEF OneWorkerPerKey
<1> QED
    BY <1>1, OneOpenPerKeyHolds, SingleFlightHolds, PTL

\* What was settled stays settled.
THEOREM SettlementStandsHolds == Spec => SettlementStands
BY SuccessStandsHolds, ExhaustedStaysSettledHolds DEF SettlementStands

-----------------------------------------------------------------------------
(* The composition.                                                        *)

LEMMA Producers == Dispatcher \in Producer /\ Reconciler \in Producer /\ Dispatcher # Reconciler
BY OrchestrationAssumption

LEMMA SuccessorKeys ==
    ASSUME NEW k \in Key
    PROVE  Successor[k] \in SUBSET Key /\ Successor[k] \cap Root = {}
BY OrchestrationAssumption DEF Covered

-----------------------------------------------------------------------------
(* Every step of the composition is a step of the queue, or leaves it alone. *)

LEMMA StepIsQueueStep == [ONext]_ovars => [Next]_vars
<1> SUFFICES ASSUME [ONext]_ovars PROVE [Next]_vars
    OBVIOUS
<1>1. CASE UNCHANGED ovars
    BY <1>1 DEF ovars, vars
<1>2. ASSUME NEW k \in Root, Arrives(k) \/ Publishes(k) PROVE [Next]_vars
    BY <1>2 DEF Arrives, Publishes
<1>3. CASE DispatchReads \/ DispatchMarks \/ Sweeps
    BY <1>3 DEF DispatchReads, DispatchMarks, Sweeps
<1>4. ASSUME NEW p \in Producer, NEW k \in Key, LooksFree(p, k) \/ FindsOpen(p, k)
      PROVE  [Next]_vars
    BY <1>4 DEF LooksFree, FindsOpen, Next
<1>5. ASSUME NEW p \in Producer, NEW i \in Item, Inserts(p, i) PROVE [Next]_vars
    BY <1>5 DEF Inserts, Next
<1>6. ASSUME NEW p \in Producer, InsertRaises(p) \/ ProducerDies(p) \/ ProducerRestarts(p)
      PROVE  [Next]_vars
    BY <1>6 DEF InsertRaises, ProducerDies, ProducerRestarts, Next
<1>7. ASSUME NEW w \in Worker, NEW i \in Item, Takes(w, i) \/ TakeRaises(w, i)
      PROVE  [Next]_vars
    BY <1>7 DEF Takes, TakeRaises, Next
<1>8. ASSUME NEW w \in Worker, Reads(w) \/ Writes(w) \/ NothingToDo(w) \/ Skips(w)
      PROVE  [Next]_vars
    BY <1>8 DEF Reads, Writes, NothingToDo, Skips
<1>9. ASSUME NEW w \in Worker, Finishes(w) \/ GivesUp(w) PROVE [Next]_vars
    BY <1>9 DEF Finishes, GivesUp, Next
<1>10. ASSUME NEW w \in Worker, Dies(w) \/ WorkerRestarts(w) PROVE [Next]_vars
    BY <1>10 DEF Dies, WorkerRestarts, Next
<1>11. ASSUME NEW i \in Item, TimePasses(i) PROVE [Next]_vars
    BY <1>11 DEF TimePasses, Next
<1> QED
    BY <1>1, <1>2, <1>3, <1>4, <1>5, <1>6, <1>7, <1>8, <1>9, <1>10, <1>11 DEF ONext

\* The outbox, the dispatcher, the handlers and the reconciler use the queue only
\* through its transactions: every behaviour of the composition is one of WorkQueue.
THEOREM RunsTheQueue == OSpec => ImplementsWorkQueue
<1>1. OInit => Init
    BY DEF OInit
<1> QED
    BY <1>1, StepIsQueueStep, PTL DEF OSpec, Spec, ImplementsWorkQueue

\* With dispatcher, reconciler and handlers at work, two workers still never execute
\* one key at a time as long as no lease runs out under a live worker.
THEOREM SingleFlightInPipeline == OSpec => []OneWorkerPerKey
BY RunsTheQueue, OneWorkerPerKeyHolds, PTL DEF ImplementsWorkQueue

-----------------------------------------------------------------------------
(* Types.                                                                  *)

LEMMA InitOTypeOK == OInit => OTypeOK
BY OrchestrationAssumption
   DEF OInit, OTypeOK, PassTypeOK, StageTypeOK, HandlerTypeOK, Init, Phases

\* What a worker holds has a key.
LEMMA HeldKey ==
    ASSUME TypeOK, NEW w \in Worker, holds[w] # None
    PROVE  holds[w] \in Item /\ KeyOf(w) \in Key
BY DEF TypeOK, KeyOf, RowOK, Row

LEMMA PassKept ==
    ASSUME PassTypeOK, UNCHANGED <<passVars, calling, raised>>
    PROVE  PassTypeOK'
BY DEF PassTypeOK, passVars

\* Losing a pass puts the dispatcher's events back.
LEMMA PassLostTypeOK ==
    ASSUME TypeOK, PassTypeOK, NEW p \in Producer, PassLost(p),
           kills' \in 0 .. MaxKills,
           calling' \in [Producer -> Key \cup {None}], calling'[p] = None,
           \A q \in Producer \ {p} : calling'[q] = calling[q],
           raised' \subseteq raised \cup {p}
    PROVE  PassTypeOK'
<1>1. pending' \in SUBSET Key /\ batch' \in SUBSET Key
    BY DEF PassLost, PassTypeOK
<1>2. /\ todo' \in [Producer -> SUBSET Key] /\ todo'[p] = {}
      /\ \A q \in Producer \ {p} : todo'[q] = todo[q]
    BY DEF PassLost, PassTypeOK
<1>3. todo'[Dispatcher] \subseteq batch'
    BY <1>2, Producers DEF PassLost, PassTypeOK
<1>4. \A q \in Producer : calling'[q] = None \/ calling'[q] \in todo'[q]
    BY <1>2 DEF PassTypeOK
<1>5. \A q \in raised' : todo'[q] = {}
    BY <1>2 DEF PassTypeOK, TypeOK
<1> QED
    BY <1>1, <1>2, <1>3, <1>4, <1>5 DEF PassTypeOK

LEMMA NextPassTypeOK == TypeOK /\ PassTypeOK /\ [ONext]_ovars => PassTypeOK'
<1> SUFFICES ASSUME TypeOK, PassTypeOK, [ONext]_ovars PROVE PassTypeOK'
    OBVIOUS
<1>1. CASE UNCHANGED ovars
    BY <1>1, PassKept DEF ovars, vars
<1>2. ASSUME NEW k \in Root, Arrives(k) \/ Publishes(k) PROVE PassTypeOK'
    BY <1>2, OrchestrationAssumption
       DEF Arrives, Publishes, PassTypeOK, passVars, vars
<1>3. CASE DispatchReads
    <2>1. pending \in SUBSET Key /\ todo' = [todo EXCEPT ![Dispatcher] = pending]
        BY <1>3 DEF DispatchReads, PassTypeOK
    <2>2. UNCHANGED <<calling, raised, kills>> /\ batch' = pending /\ pending' = {}
        BY <1>3 DEF DispatchReads, vars
    <2>3. calling[Dispatcher] = None /\ Dispatcher \notin raised
        BY <1>3 DEF DispatchReads, Free
    <2> QED
        BY <2>1, <2>2, <2>3, Producers DEF PassTypeOK, TypeOK
<1>4. CASE DispatchMarks
    BY <1>4 DEF DispatchMarks, Free, PassTypeOK, vars
<1>5. CASE Sweeps
    <2>1. /\ calling[Reconciler] = None /\ Reconciler \notin raised
          /\ UNCHANGED <<calling, raised, kills, pending, batch>>
        BY <1>5 DEF Sweeps, Free, vars
    <2>2. {k \in Covered : stale[k]} \in SUBSET Key
        BY DEF Covered
    <2>3. todo' = [todo EXCEPT ![Reconciler] = {k \in Covered : stale[k]}]
        BY <1>5 DEF Sweeps
    <2> QED
        BY <2>1, <2>2, <2>3, Producers DEF PassTypeOK, TypeOK
<1>6. ASSUME NEW p \in Producer, NEW k \in Key, LooksFree(p, k) PROVE PassTypeOK'
    BY <1>6 DEF LooksFree, EnqueueLooks, PassTypeOK, TypeOK, passVars
<1>7. ASSUME NEW p \in Producer, NEW k \in Key, FindsOpen(p, k) PROVE PassTypeOK'
    BY <1>7 DEF FindsOpen, PassTypeOK, TypeOK, vars
<1>8. ASSUME NEW p \in Producer, NEW i \in Item, Inserts(p, i) PROVE PassTypeOK'
    BY <1>8 DEF Inserts, EnqueueInserts, PassTypeOK, TypeOK
<1>9. ASSUME NEW p \in Producer, InsertRaises(p) PROVE PassTypeOK'
    <2>1. /\ calling' \in [Producer -> Key \cup {None}] /\ calling'[p] = None
          /\ \A q \in Producer \ {p} : calling'[q] = calling[q]
          /\ raised' = raised \cup {p} /\ kills' = kills
        BY <1>9 DEF InsertRaises, EnqueueRaises, TypeOK
    <2> QED
        BY <1>9, <2>1, PassLostTypeOK DEF InsertRaises, PassTypeOK
<1>10. ASSUME NEW p \in Producer, ProducerDies(p) PROVE PassTypeOK'
    <2>1. calling[p] = None /\ UNCHANGED <<calling, raised>> /\ PassLost(p)
        BY <1>10 DEF ProducerDies, vars
    <2>2. kills' \in 0 .. MaxKills
        BY <1>10, OrchestrationAssumption DEF ProducerDies, PassTypeOK
    <2> QED
        BY <2>1, <2>2, PassLostTypeOK DEF TypeOK
<1>11. ASSUME NEW p \in Producer, ProducerRestarts(p) PROVE PassTypeOK'
    BY <1>11 DEF ProducerRestarts, RestartProducer, PassTypeOK, passVars
<1>12. ASSUME NEW w \in Worker, NEW i \in Item, Takes(w, i) \/ TakeRaises(w, i)
       PROVE  PassTypeOK'
    BY <1>12, PassKept DEF Takes, TakeRaises, Claims, ClaimRaises
<1>13. ASSUME NEW w \in Worker, Reads(w) \/ Writes(w) \/ NothingToDo(w) \/ Skips(w)
       PROVE  PassTypeOK'
    BY <1>13, PassKept DEF Reads, Writes, NothingToDo, Skips, vars
<1>14. ASSUME NEW w \in Worker, Finishes(w) PROVE PassTypeOK'
    <2>1. holds[w] # None /\ UNCHANGED <<calling, raised, batch, todo, kills>>
        BY <1>14 DEF Finishes, Completes
    <2>2. Successor[KeyOf(w)] \in SUBSET Key
        BY <2>1, HeldKey, SuccessorKeys
    <2>3. pending' \in SUBSET Key
        BY <1>14, <2>2 DEF Finishes, EventsStaged, PassTypeOK
    <2> QED
        BY <2>1, <2>3 DEF PassTypeOK
<1>15. ASSUME NEW w \in Worker, GivesUp(w) \/ Dies(w) \/ WorkerRestarts(w)
       PROVE  PassTypeOK'
    BY <1>15, PassKept DEF GivesUp, Dies, WorkerRestarts, Fails, Crash, RestartWorker
<1>16. ASSUME NEW i \in Item, TimePasses(i) PROVE PassTypeOK'
    BY <1>16, PassKept DEF TimePasses, BackoffElapses, LeaseExpires
<1> QED
    BY <1>1, <1>2, <1>3, <1>4, <1>5, <1>6, <1>7, <1>8, <1>9, <1>10, <1>11, <1>12,
       <1>13, <1>14, <1>15, <1>16 DEF ONext

LEMMA NextStageTypeOK ==
    TypeOK /\ StageTypeOK /\ HandlerTypeOK /\ [ONext]_ovars => StageTypeOK'
<1> SUFFICES ASSUME TypeOK, StageTypeOK, HandlerTypeOK, [ONext]_ovars PROVE StageTypeOK'
    OBVIOUS
<1>1. CASE UNCHANGED stageVars
    BY <1>1 DEF StageTypeOK, stageVars
<1>2. ASSUME NEW k \in Root, Arrives(k) PROVE StageTypeOK'
    <2>1. k \in Key /\ MaxArrivals \in Nat
        BY OrchestrationAssumption
    <2> QED
        BY <1>2, <2>1 DEF Arrives, StageTypeOK
<1>3. ASSUME NEW k \in Root, Publishes(k) PROVE StageTypeOK'
    BY <1>3 DEF Publishes, StageTypeOK
<1>4. ASSUME NEW w \in Worker, Writes(w) PROVE StageTypeOK'
    <2>1. phase[w] = "read" /\ seen[w] \in Nat
        BY <1>4 DEF Writes, HandlerTypeOK
    <2>2. holds[w] # None
        BY <2>1 DEF HandlerTypeOK
    <2>3. KeyOf(w) \in Key /\ Successor[KeyOf(w)] \in SUBSET Key
        BY <2>2, HeldKey, SuccessorKeys
    <2>4. Effect(KeyOf(w), seen[w]) \in Nat
        BY <2>1, <2>3 DEF Effect, StageTypeOK
    <2>5. output' \in [Key -> Nat]
        BY <1>4, <2>3, <2>4 DEF Writes, StageTypeOK
    <2>6. input' \in [Key -> Nat]
        BY <1>4 DEF Writes, StageTypeOK
    <2>8. stale' \in [Key -> BOOLEAN]
        <3>1. PICK required :
                  stale' = [s \in Key |-> IF s \in Successor[KeyOf(w)] THEN Reports(s, required)
                                          ELSE s # KeyOf(w) /\ stale[s]]
            BY <1>4 DEF Writes
        <3>2. \A s \in Key : /\ Reports(s, required) \in BOOLEAN
                             /\ (s # KeyOf(w) /\ stale[s]) \in BOOLEAN
            BY DEF Reports
        <3> QED
            BY <3>1, <3>2
    <2>7. owing' \in SUBSET Key /\ raced' \in SUBSET Key
        BY <1>4, <2>3 DEF Writes, StageTypeOK
    <2> QED
        BY <1>4, <2>5, <2>6, <2>7, <2>8 DEF Writes, StageTypeOK
<1>5. ASSUME NEW w \in Worker, Skips(w) PROVE StageTypeOK'
    BY <1>5, OrchestrationAssumption DEF Skips, StageTypeOK
<1>6. ASSUME NEW w \in Worker, Finishes(w) PROVE StageTypeOK'
    BY <1>6 DEF Finishes, EventsStaged, StageTypeOK
<1>7. CASE UNCHANGED ovars
    BY <1>1, <1>7 DEF ovars
<1>8. CASE DispatchReads \/ DispatchMarks \/ Sweeps
    BY <1>1, <1>8 DEF DispatchReads, DispatchMarks, Sweeps
<1>9. ASSUME NEW p \in Producer,
             \/ \E k \in Key : LooksFree(p, k) \/ FindsOpen(p, k)
             \/ \E i \in Item : Inserts(p, i)
             \/ InsertRaises(p) \/ ProducerDies(p) \/ ProducerRestarts(p)
      PROVE  StageTypeOK'
    BY <1>1, <1>9
       DEF LooksFree, FindsOpen, Inserts, InsertRaises, ProducerDies, ProducerRestarts
<1>10. ASSUME NEW w \in Worker,
              \/ \E i \in Item : Takes(w, i) \/ TakeRaises(w, i)
              \/ Reads(w) \/ NothingToDo(w) \/ GivesUp(w) \/ Dies(w) \/ WorkerRestarts(w)
       PROVE  StageTypeOK'
    BY <1>1, <1>10 DEF Takes, TakeRaises, Reads, NothingToDo, GivesUp, Dies, WorkerRestarts
<1>11. ASSUME NEW i \in Item, TimePasses(i) PROVE StageTypeOK'
    BY <1>1, <1>11 DEF TimePasses
<1> QED
    BY <1>2, <1>3, <1>4, <1>5, <1>6, <1>7, <1>8, <1>9, <1>10, <1>11 DEF ONext

LEMMA NextHandlerTypeOK ==
    TypeOK /\ StageTypeOK /\ HandlerTypeOK /\ [ONext]_ovars => HandlerTypeOK'
<1> SUFFICES ASSUME TypeOK, StageTypeOK, HandlerTypeOK, [ONext]_ovars PROVE HandlerTypeOK'
    OBVIOUS
<1>1. CASE UNCHANGED <<runVars, holds>>
    BY <1>1 DEF HandlerTypeOK, runVars
<1>2. ASSUME NEW w \in Worker, NEW i \in Item, Takes(w, i) PROVE HandlerTypeOK'
    <2>1. i # None
        BY QueueAssumption
    <2> QED
        BY <1>2, <2>1 DEF Takes, Claims, HandlerTypeOK, TypeOK, Phases
<1>3. ASSUME NEW w \in Worker, Reads(w) PROVE HandlerTypeOK'
    <2>1. holds[w] # None /\ holds' = holds
        BY <1>3 DEF Reads, HandlerTypeOK, vars
    <2>2. input[KeyOf(w)] \in Nat
        BY <2>1, HeldKey DEF StageTypeOK
    <2> QED
        BY <1>3, <2>1, <2>2 DEF Reads, HandlerTypeOK, Phases
<1>4. ASSUME NEW w \in Worker, Writes(w) \/ NothingToDo(w) \/ Skips(w)
      PROVE  HandlerTypeOK'
    <2>1. phase[w] = "read" /\ UNCHANGED <<holds, seen>>
        BY <1>4 DEF Writes, NothingToDo, Skips, vars
    <2>2. \E q \in Phases \ {"idle"} : phase' = [phase EXCEPT ![w] = q]
        BY <1>4 DEF Writes, NothingToDo, Skips, Phases
    <2> QED
        BY <2>1, <2>2 DEF HandlerTypeOK
<1>5. ASSUME NEW w \in Worker, Finishes(w) \/ GivesUp(w) \/ Dies(w)
      PROVE  HandlerTypeOK'
    <2>1. Forgets(w)
        BY <1>5 DEF Finishes, GivesUp, Dies
    <2>2. holds' = [holds EXCEPT ![w] = None]
        BY <1>5 DEF Finishes, GivesUp, Dies, Completes, Fails, Crash
    <2> QED
        BY <2>1, <2>2 DEF Forgets, HandlerTypeOK, TypeOK, Phases
<1>6. CASE UNCHANGED ovars
    BY <1>1, <1>6 DEF ovars, vars
<1>7. ASSUME NEW k \in Root, Arrives(k) \/ Publishes(k) PROVE HandlerTypeOK'
    BY <1>1, <1>7 DEF Arrives, Publishes, vars
<1>8. CASE DispatchReads \/ DispatchMarks \/ Sweeps
    BY <1>1, <1>8 DEF DispatchReads, DispatchMarks, Sweeps, vars
<1>9. ASSUME NEW p \in Producer,
             \/ \E k \in Key : LooksFree(p, k) \/ FindsOpen(p, k)
             \/ \E i \in Item : Inserts(p, i)
             \/ InsertRaises(p) \/ ProducerDies(p) \/ ProducerRestarts(p)
      PROVE  HandlerTypeOK'
    BY <1>1, <1>9
       DEF LooksFree, FindsOpen, Inserts, InsertRaises, ProducerDies, ProducerRestarts,
           EnqueueLooks, EnqueueInserts, EnqueueRaises, RestartProducer, vars
<1>10. ASSUME NEW w \in Worker, NEW i \in Item, TakeRaises(w, i) PROVE HandlerTypeOK'
    BY <1>1, <1>10 DEF TakeRaises, ClaimRaises
<1>11. ASSUME NEW w \in Worker, WorkerRestarts(w) PROVE HandlerTypeOK'
    BY <1>1, <1>11 DEF WorkerRestarts, RestartWorker
<1>12. ASSUME NEW i \in Item, TimePasses(i) PROVE HandlerTypeOK'
    BY <1>1, <1>12 DEF TimePasses, BackoffElapses, LeaseExpires
<1> QED
    BY <1>2, <1>3, <1>4, <1>5, <1>6, <1>7, <1>8, <1>9, <1>10, <1>11, <1>12 DEF ONext

LEMMA NextOTypeOK == TypeOK /\ OTypeOK /\ [ONext]_ovars => (TypeOK /\ OTypeOK)'
BY NextTypeOK, StepIsQueueStep, NextPassTypeOK, NextStageTypeOK, NextHandlerTypeOK
   DEF OTypeOK

\* The composition keeps its types: a handler runs exactly while its worker holds
\* an item, and a producer's pending insert belongs to its pass.
THEOREM PipelineTypeCorrect == OSpec => []OTypeOK
<1>1. OInit => TypeOK /\ OTypeOK
    BY InitTypeOK, InitOTypeOK DEF OInit
<1> QED
    BY <1>1, NextOTypeOK, PTL DEF OSpec

-----------------------------------------------------------------------------
(* No effect is left unannounced.                                          *)

\* Without refused answers, only event resolution finishes without an effect.
OnlyRootsSkip ==
    skips = 0 => \A w \in Worker : phase[w] = "skipped" => KeyOf(w) \in Root

\* A step of the queue leaves a key its item as long as it completes none of the
\* key's items and supersedes nothing.
LEMMA HasItemKept ==
    ASSUME TypeOK, NEW k \in Key, HasItem(k),
           \A i \in Item :
               rows[i].key = k /\ rows[i].status \in Unsettled \cup {"dead"} =>
               rows'[i].key = k /\ rows'[i].status \in Unsettled \cup {"dead"}
    PROVE  HasItem(k)'
BY DEF HasItem

LEMMA ReclaimKeepsUnsettled ==
    ASSUME TypeOK, NEW i \in Item, rows[i].status \in Unsettled \cup {"dead"}
    PROVE  Reclaimed[i].status \in Unsettled \cup {"dead"} /\ Reclaimed[i].key = rows[i].key
BY ReclaimedFact DEF Unsettled, Settled, Open, Reclaimed

\* Every step but the completion of one of its items leaves a key its item.
LEMMA StepKeepsItem ==
    ASSUME TypeOK, [ONext]_ovars, NEW k \in Key, HasItem(k),
           \A w \in Worker : Finishes(w) => KeyOf(w) # k
    PROVE  HasItem(k)'
<1>1. CASE UNCHANGED rows
    BY <1>1 DEF HasItem
<1>2. ASSUME NEW p \in Producer, NEW i \in Item, Inserts(p, i) PROVE HasItem(k)'
    <2>1. EnqueueInserts(p, i)
        BY <1>2 DEF Inserts
    <2> QED
        BY <2>1, InsertStep, HasItemKept DEF Unsettled
<1>3. ASSUME NEW w \in Worker, NEW i \in Item, Takes(w, i) PROVE HasItem(k)'
    <2>1. Claims(w, i)
        BY <1>3 DEF Takes
    <2> QED
        BY <2>1, ClaimStep, ReclaimKeepsUnsettled, HasItemKept DEF Unsettled
<1>4. ASSUME NEW w \in Worker, Finishes(w) PROVE HasItem(k)'
    <2>1. Completes(w) /\ rows[holds[w]].key # k
        BY <1>4 DEF Finishes, KeyOf
    <2> QED
        BY <2>1, CompleteStep, HasItemKept
<1>5. ASSUME NEW w \in Worker, GivesUp(w) PROVE HasItem(k)'
    <2>1. Fails(w)
        BY <1>5 DEF GivesUp
    <2> QED
        BY <2>1, FailStep, HasItemKept DEF Unsettled
<1>6. ASSUME NEW i \in Item, TimePasses(i) PROVE HasItem(k)'
    <2>1. CASE BackoffElapses(i)
        BY <2>1, BackoffStep, HasItemKept
    <2>2. CASE LeaseExpires(i)
        BY <2>2, LeaseStep, HasItemKept
    <2> QED
        BY <1>6, <2>1, <2>2 DEF TimePasses
<1>7. CASE UNCHANGED ovars
    BY <1>1, <1>7 DEF ovars, vars
<1>8. ASSUME NEW r \in Root, Arrives(r) \/ Publishes(r) PROVE HasItem(k)'
    BY <1>1, <1>8 DEF Arrives, Publishes, vars
<1>9. CASE DispatchReads \/ DispatchMarks \/ Sweeps
    BY <1>1, <1>9 DEF DispatchReads, DispatchMarks, Sweeps, vars
<1>10. ASSUME NEW p \in Producer,
              \/ \E j \in Key : LooksFree(p, j) \/ FindsOpen(p, j)
              \/ InsertRaises(p) \/ ProducerDies(p) \/ ProducerRestarts(p)
       PROVE  HasItem(k)'
    BY <1>1, <1>10
       DEF LooksFree, FindsOpen, InsertRaises, ProducerDies, ProducerRestarts,
           EnqueueLooks, EnqueueRaises, RestartProducer, vars
<1>11. ASSUME NEW w \in Worker,
              \/ \E i \in Item : TakeRaises(w, i)
              \/ Reads(w) \/ Writes(w) \/ NothingToDo(w) \/ Skips(w)
              \/ Dies(w) \/ WorkerRestarts(w)
       PROVE  HasItem(k)'
    BY <1>1, <1>11
       DEF TakeRaises, ClaimRaises, Reads, Writes, NothingToDo, Skips, Dies, Crash,
           WorkerRestarts, RestartWorker, vars
<1> QED
    BY <1>2, <1>3, <1>4, <1>5, <1>6, <1>7, <1>8, <1>9, <1>10, <1>11 DEF ONext

\* A row a worker holds keeps its key.
LEMMA HeldKeyKept ==
    ASSUME TypeOK, [ONext]_ovars, NEW w \in Worker, holds[w] # None, holds'[w] = holds[w]
    PROVE  KeyOf(w)' = KeyOf(w)
<1>0. holds[w] \in Item
    BY DEF TypeOK
<1>1. [Next]_vars
    BY StepIsQueueStep
<1>2. CASE UNCHANGED rows
    BY <1>2 DEF KeyOf
<1>3. ASSUME NEW p \in Producer, NEW i \in Item, EnqueueInserts(p, i)
      PROVE  KeyOf(w)' = KeyOf(w)
    BY <1>0, <1>3, InsertStep DEF KeyOf
<1>4. ASSUME NEW v \in Worker, NEW i \in Item, Claims(v, i) PROVE KeyOf(w)' = KeyOf(w)
    BY <1>0, <1>4, ClaimStep, ReclaimedFact DEF KeyOf
<1>5. ASSUME NEW v \in Worker, Completes(v) PROVE KeyOf(w)' = KeyOf(w)
    BY <1>0, <1>5, CompleteStep DEF KeyOf
<1>6. ASSUME NEW v \in Worker, Fails(v) PROVE KeyOf(w)' = KeyOf(w)
    BY <1>0, <1>6, FailStep DEF KeyOf
<1>7. ASSUME NEW k \in Key, Supersede(k) PROVE KeyOf(w)' = KeyOf(w)
    BY <1>0, <1>7, SupersedeStep DEF KeyOf
<1>8. ASSUME NEW i \in Item, BackoffElapses(i) PROVE KeyOf(w)' = KeyOf(w)
    BY <1>0, <1>8, BackoffStep DEF KeyOf
<1>9. ASSUME NEW i \in Item, LeaseExpires(i) PROVE KeyOf(w)' = KeyOf(w)
    BY <1>0, <1>9, LeaseStep DEF KeyOf
<1>10. ASSUME NEW p \in Producer,
              \/ \E k \in Key : EnqueueLooks(p, k)
              \/ EnqueueRaises(p) \/ RestartProducer(p)
       PROVE  KeyOf(w)' = KeyOf(w)
    BY <1>2, <1>10 DEF EnqueueLooks, EnqueueRaises, RestartProducer
<1>11. ASSUME NEW v \in Worker,
              (\E i \in Item : ClaimRaises(v, i)) \/ Crash(v) \/ RestartWorker(v)
       PROVE  KeyOf(w)' = KeyOf(w)
    BY <1>2, <1>11 DEF ClaimRaises, Crash, RestartWorker
<1>12. CASE UNCHANGED vars
    BY <1>2, <1>12 DEF vars
<1> QED
    BY <1>1, <1>3, <1>4, <1>5, <1>6, <1>7, <1>8, <1>9, <1>10, <1>11, <1>12 DEF Next

\* A handler that goes on holds what it held, and no history runs backwards.
LEMMA GoesOn ==
    ASSUME TypeOK, OTypeOK, [ONext]_ovars
    PROVE  /\ slips' = 0 => slips = 0
           /\ skips' = 0 => skips = 0
           /\ \A w \in Worker :
                 phase'[w] \notin {"idle", "claimed"} =>
                    /\ phase[w] \notin {"idle"} /\ holds[w] # None
                    /\ holds'[w] = holds[w]
<1>1. slips \in Nat /\ skips \in Nat
    BY QueueAssumption, OrchestrationAssumption DEF TypeOK, OTypeOK, StageTypeOK
<1>2. slips' = 0 => slips = 0
    BY <1>1, StepIsQueueStep
       DEF Next, EnqueueLooks, EnqueueInserts, EnqueueRaises, RestartProducer, Claims,
           ClaimRaises, Completes, Fails, Crash, RestartWorker, Supersede,
           BackoffElapses, LeaseExpires, vars
<1>3. CASE UNCHANGED ovars
    BY <1>3 DEF ovars, vars, runVars, stageVars, OTypeOK, HandlerTypeOK
<1> DEFINE Goal ==
       /\ skips' = 0 => skips = 0
       /\ \A w \in Worker :
             phase'[w] \notin {"idle", "claimed"} =>
                /\ phase[w] \notin {"idle"} /\ holds[w] # None
                /\ holds'[w] = holds[w]
<1>4. ASSUME UNCHANGED <<skips, phase, holds>> PROVE Goal
    BY <1>4 DEF OTypeOK, HandlerTypeOK
<1>5. ASSUME NEW w \in Worker, NEW i \in Item, Takes(w, i) PROVE Goal
    BY <1>5 DEF Takes, Claims, stageVars, OTypeOK, HandlerTypeOK, TypeOK
<1>6. ASSUME NEW w \in Worker, Reads(w) \/ Writes(w) \/ NothingToDo(w) \/ Skips(w)
      PROVE  Goal
    BY <1>1, <1>6
       DEF Reads, Writes, NothingToDo, Skips, stageVars, vars, OTypeOK, HandlerTypeOK
<1>7. ASSUME NEW w \in Worker, Finishes(w) \/ GivesUp(w) \/ Dies(w) PROVE Goal
    <2>1. skips' = skips /\ phase' = [phase EXCEPT ![w] = "idle"]
        BY <1>7 DEF Finishes, GivesUp, Dies, Forgets, stageVars
    <2>2. holds' = [holds EXCEPT ![w] = None]
        BY <1>7 DEF Finishes, GivesUp, Dies, Completes, Fails, Crash
    <2> QED
        BY <2>1, <2>2 DEF OTypeOK, HandlerTypeOK, TypeOK
<1>8. ASSUME NEW k \in Root, Arrives(k) \/ Publishes(k) PROVE Goal
    BY <1>4, <1>8 DEF Arrives, Publishes, vars, runVars
<1>9. CASE DispatchReads \/ DispatchMarks \/ Sweeps
    BY <1>4, <1>9 DEF DispatchReads, DispatchMarks, Sweeps, vars, stageVars, runVars
<1>10. ASSUME NEW p \in Producer,
              \/ \E k \in Key : LooksFree(p, k) \/ FindsOpen(p, k)
              \/ \E i \in Item : Inserts(p, i)
              \/ InsertRaises(p) \/ ProducerDies(p) \/ ProducerRestarts(p)
       PROVE  Goal
    BY <1>4, <1>10
       DEF LooksFree, FindsOpen, Inserts, InsertRaises, ProducerDies, ProducerRestarts,
           EnqueueLooks, EnqueueInserts, EnqueueRaises, RestartProducer,
           vars, stageVars, runVars
<1>11. ASSUME NEW w \in Worker, (\E i \in Item : TakeRaises(w, i)) \/ WorkerRestarts(w)
       PROVE  Goal
    BY <1>4, <1>11
       DEF TakeRaises, WorkerRestarts, ClaimRaises, RestartWorker, stageVars, runVars
<1>12. ASSUME NEW i \in Item, TimePasses(i) PROVE Goal
    BY <1>4, <1>12
       DEF TimePasses, BackoffElapses, LeaseExpires, stageVars, runVars
<1> QED
    BY <1>2, <1>3, <1>5, <1>6, <1>7, <1>8, <1>9, <1>10, <1>11, <1>12 DEF ONext

LEMMA NextOnlyRootsSkip ==
    TypeOK /\ OTypeOK /\ OnlyRootsSkip /\ [ONext]_ovars => OnlyRootsSkip'
<1> SUFFICES ASSUME TypeOK, OTypeOK, OnlyRootsSkip, [ONext]_ovars, skips' = 0,
                    NEW w \in Worker, phase'[w] = "skipped"
             PROVE  KeyOf(w)' \in Root
    BY DEF OnlyRootsSkip
<1>1. skips = 0 /\ holds[w] # None /\ holds'[w] = holds[w]
    BY GoesOn
<1>2. KeyOf(w)' = KeyOf(w)
    BY <1>1, HeldKeyKept
<1>3. CASE phase[w] = "skipped"
    BY <1>1, <1>2, <1>3 DEF OnlyRootsSkip
<1>4. CASE phase[w] # "skipped"
    <2>1. NothingToDo(w) \/ Skips(w)
        BY <1>4 DEF ONext, ovars, vars, runVars, Arrives, Publishes, DispatchReads,
           DispatchMarks, Sweeps, LooksFree, FindsOpen, Inserts, InsertRaises,
           ProducerDies, ProducerRestarts, Takes, TakeRaises, Reads, Writes,
           NothingToDo, Skips, Finishes, GivesUp, Dies, WorkerRestarts, TimePasses,
           Forgets, OTypeOK, HandlerTypeOK
    <2>2. ~Skips(w)
        BY <1>1 DEF Skips
    <2> QED
        BY <1>2, <2>1, <2>2 DEF NothingToDo
<1> QED
    BY <1>3, <1>4

LEMMA NextAnnounced ==
    /\ TypeOK /\ SingleFlightWithinLease /\ OTypeOK /\ OnlyRootsSkip
    /\ EffectsAreAnnounced /\ [ONext]_ovars
    => EffectsAreAnnounced'
<1> SUFFICES ASSUME TypeOK, SingleFlightWithinLease, OTypeOK, OnlyRootsSkip,
                    EffectsAreAnnounced, [ONext]_ovars,
                    slips' = 0, skips' = 0, NEW k \in owing' \ Root
             PROVE  HasItem(k)'
    BY DEF EffectsAreAnnounced
<1>1. slips = 0 /\ skips = 0
    BY GoesOn
<1>2. CASE k \in owing
    <2>1. HasItem(k) /\ k \in Key
        BY <1>1, <1>2 DEF EffectsAreAnnounced, OTypeOK, StageTypeOK
    <2>2. ASSUME NEW w \in Worker, Finishes(w) PROVE KeyOf(w) # k
        <3>1. CASE phase[w] = "written"
            BY <2>2, <3>1 DEF Finishes, EventsStaged
        <3>2. CASE phase[w] = "skipped"
            BY <1>1, <3>2 DEF OnlyRootsSkip
        <3> QED
            BY <2>2, <3>1, <3>2 DEF Finishes
    <2> QED
        BY <2>1, <2>2, StepKeepsItem
<1>3. CASE k \notin owing
    <2>1. PICK w \in Worker : Writes(w) /\ KeyOf(w) = k
        BY <1>3 DEF ONext, ovars, stageVars, Arrives, Publishes, DispatchReads,
           DispatchMarks, Sweeps, LooksFree, FindsOpen, Inserts, InsertRaises,
           ProducerDies, ProducerRestarts, Takes, TakeRaises, Reads, Writes,
           NothingToDo, Skips, Finishes, EventsStaged, GivesUp, Dies, WorkerRestarts,
           TimePasses
    <2>2. phase[w] = "read" /\ UNCHANGED rows
        BY <2>1 DEF Writes, vars
    <2>3. holds[w] \in Item /\ rows[holds[w]].status = "running"
        BY <1>1, <2>2 DEF SingleFlightWithinLease, OTypeOK, HandlerTypeOK, TypeOK
    <2> QED
        BY <2>1, <2>2, <2>3 DEF HasItem, KeyOf, Unsettled
<1> QED
    BY <1>2, <1>3

\* As long as leases are kept and answers accepted, an effect of a stage other than
\* event resolution is never left without its event: until the event is staged, the
\* stage has an item that will run again or is dead.
THEOREM AnnouncedHolds == OSpec => []EffectsAreAnnounced
<1> DEFINE IInv == /\ TypeOK /\ OneOpenPerKey /\ SingleFlightWithinLease /\ OTypeOK
                   /\ OnlyRootsSkip /\ EffectsAreAnnounced
<1>1. OInit => IInv
    <2>1. OInit => OnlyRootsSkip /\ EffectsAreAnnounced
        BY DEF OInit, OnlyRootsSkip, EffectsAreAnnounced
    <2>2. OInit => SingleFlightWithinLease
        BY DEF OInit, Init, SingleFlightWithinLease
    <2> QED
        BY <2>1, <2>2, InitTypeOK, InitOneOpen, InitOTypeOK DEF OInit
<1>2. IInv /\ [ONext]_ovars => IInv'
    BY StepIsQueueStep, NextOneOpen, NextSingleFlight, NextOTypeOK, NextOnlyRootsSkip,
       NextAnnounced
<1> QED
    BY <1>1, <1>2, PTL DEF OSpec

-----------------------------------------------------------------------------
(* Only changes that raced a running handler are lost.                     *)

Behind(k) == input[k] > output[k] /\ k \notin raced

\* A finder reports every key that is behind, of those the sweep answers for.
FinderSeesBehind == \A k \in Key : Behind(k) /\ Swept(k) => stale[k]

\* A handler that has read what its key is still behind of has read its latest
\* input, and one past its effect leaves nothing behind.
ReadersCatchUp ==
    \A w \in Worker : KeyOf(w) \in Key /\ Behind(KeyOf(w)) =>
        /\ phase[w] = "read" => seen[w] = input[KeyOf(w)]
        /\ phase[w] = "written" => FALSE
        /\ phase[w] = "skipped" => skips > 0

\* An effect whose event schedules k has still to be announced.
IsOwed(k) == \E j \in owing : k \in Successor[j]

\* What a key is behind of is on its way to the queue, in it, or has still to be
\* announced.
IsOnItsWay ==
    skips = 0 => \A k \in Key : Behind(k) =>
        k \in unpublished \cup pending \cup todo[Dispatcher] \/ HasItem(k) \/ IsOwed(k)

LEMMA EffectFact ==
    ASSUME StageTypeOK, NEW k \in Key, NEW v \in Nat
    PROVE  Effect(k, v) \in Nat /\ Effect(k, v) >= v
BY DEF StageTypeOK, Effect

LEMMA NextFinderSees ==
    TypeOK /\ OTypeOK /\ FinderSeesBehind /\ [ONext]_ovars => FinderSeesBehind'
<1> SUFFICES ASSUME TypeOK, OTypeOK, FinderSeesBehind, [ONext]_ovars
             PROVE  FinderSeesBehind'
    OBVIOUS
<1>1. CASE UNCHANGED <<input, output, raced, stale>>
    BY <1>1 DEF FinderSeesBehind, Behind, Swept
<1>2. ASSUME NEW k \in Root, Arrives(k) PROVE FinderSeesBehind'
    <2> SUFFICES ASSUME NEW j \in Key, Behind(j)', Swept(j)' PROVE stale'[j]
        BY DEF FinderSeesBehind
    <2>1. output' = output /\ raced \subseteq raced' /\ j # k
        BY <1>2 DEF Arrives, Swept, Covered
    <2>2. input'[j] = input[j] /\ stale'[j] = stale[j]
        BY <1>2, <2>1 DEF Arrives, OTypeOK, StageTypeOK
    <2> QED
        BY <2>1, <2>2 DEF FinderSeesBehind, Behind, Swept
<1>3. ASSUME NEW w \in Worker, Writes(w) PROVE FinderSeesBehind'
    <2> DEFINE k == KeyOf(w)
    <2>1. holds[w] # None /\ seen[w] \in Nat
        BY <1>3 DEF Writes, OTypeOK, HandlerTypeOK
    <2>2. k \in Key
        BY <2>1, HeldKey
    <2> SUFFICES ASSUME NEW j \in Key, Behind(j)', Swept(j)' PROVE stale'[j]
        BY DEF FinderSeesBehind
    <2>0. PICK required :
              stale' = [s \in Key |-> IF s \in Successor[k] THEN Reports(s, required)
                                      ELSE s # k /\ stale[s]]
        BY <1>3 DEF Writes
    <2>3. CASE j \in Successor[k]
        <3>1. j # k
            BY <2>2, <2>3, OrchestrationAssumption
        <3>2. output'[j] = output[j]
            BY <1>3, <3>1 DEF Writes, OTypeOK, StageTypeOK
        <3>3. Reports(j, required)
            BY <3>2 DEF Swept, Reports
        <3> QED
            BY <2>0, <2>3, <3>3
    <2>4. CASE j \notin Successor[k] /\ j # k
        <3>1. input'[j] = input[j] /\ output'[j] = output[j]
            BY <1>3, <2>4 DEF Writes, OTypeOK, StageTypeOK
        <3>2. j \notin raced
            BY <1>3, <2>4 DEF Writes, Behind
        <3>3. stale[j]
            BY <3>1, <3>2 DEF Behind, Swept, FinderSeesBehind
        <3> QED
            BY <2>0, <2>4, <3>3
    <2>5. CASE j \notin Successor[k] /\ j = k
        <3>1. seen[w] = input[k]
            BY <1>3, <2>5 DEF Writes, Behind
        <3>2. input'[k] = input[k] /\ output'[k] = Effect(k, seen[w])
            BY <1>3, <2>2, <2>5 DEF Writes, OTypeOK, StageTypeOK
        <3>3. Effect(k, seen[w]) \in Nat /\ Effect(k, seen[w]) >= seen[w]
            BY <2>1, <2>2, EffectFact DEF OTypeOK
        <3>4. ~(input'[k] > output'[k])
            BY <2>1, <3>1, <3>2, <3>3
        <3> QED
            BY <2>5, <3>4 DEF Behind
    <2> QED
        BY <2>3, <2>4, <2>5
<1>4. CASE UNCHANGED ovars
    BY <1>1, <1>4 DEF ovars, stageVars
<1>5. ASSUME NEW k \in Root, Publishes(k) PROVE FinderSeesBehind'
    BY <1>1, <1>5 DEF Publishes
<1>6. CASE DispatchReads \/ DispatchMarks \/ Sweeps
    BY <1>1, <1>6 DEF DispatchReads, DispatchMarks, Sweeps, stageVars
<1>7. ASSUME NEW p \in Producer,
             \/ \E k \in Key : LooksFree(p, k) \/ FindsOpen(p, k)
             \/ \E i \in Item : Inserts(p, i)
             \/ InsertRaises(p) \/ ProducerDies(p) \/ ProducerRestarts(p)
      PROVE  FinderSeesBehind'
    BY <1>1, <1>7
       DEF LooksFree, FindsOpen, Inserts, InsertRaises, ProducerDies, ProducerRestarts,
           stageVars
<1>8. ASSUME NEW w \in Worker,
             \/ \E i \in Item : Takes(w, i) \/ TakeRaises(w, i)
             \/ Reads(w) \/ NothingToDo(w) \/ Skips(w) \/ Finishes(w)
             \/ GivesUp(w) \/ Dies(w) \/ WorkerRestarts(w)
      PROVE  FinderSeesBehind'
    BY <1>1, <1>8
       DEF Takes, TakeRaises, Reads, NothingToDo, Skips, Finishes, GivesUp, Dies,
           WorkerRestarts, stageVars
<1>9. ASSUME NEW i \in Item, TimePasses(i) PROVE FinderSeesBehind'
    BY <1>1, <1>9 DEF TimePasses, stageVars
<1> QED
    BY <1>2, <1>3, <1>4, <1>5, <1>6, <1>7, <1>8, <1>9 DEF ONext

LEMMA NextReaders ==
    TypeOK /\ OTypeOK /\ ReadersCatchUp /\ [ONext]_ovars => ReadersCatchUp'
<1> SUFFICES ASSUME TypeOK, OTypeOK, ReadersCatchUp, [ONext]_ovars,
                    NEW w \in Worker, NEW k \in Key, KeyOf(w)' = k, Behind(k)',
                    phase'[w] \notin {"idle", "claimed"}
             PROVE  /\ phase'[w] = "read" => seen'[w] = input'[k]
                    /\ phase'[w] = "written" => FALSE
                    /\ phase'[w] = "skipped" => skips' > 0
    BY DEF ReadersCatchUp
<1> DEFINE Goal == /\ phase'[w] = "read" => seen'[w] = input'[k]
                   /\ phase'[w] = "written" => FALSE
                   /\ phase'[w] = "skipped" => skips' > 0
<1>1. phase[w] # "idle" /\ holds[w] # None /\ holds'[w] = holds[w]
    BY GoesOn
<1>2. KeyOf(w) = k
    BY <1>1, HeldKeyKept
<1>3. skips \in Nat
    BY OrchestrationAssumption DEF OTypeOK, StageTypeOK
<1>4. ASSUME UNCHANGED <<input, output, raced, skips>>, phase'[w] = phase[w], seen'[w] = seen[w]
      PROVE  Goal
    BY <1>2, <1>3, <1>4 DEF ReadersCatchUp, Behind
<1>5. ASSUME NEW r \in Root, Arrives(r) PROVE Goal
    <2>1. phase' = phase /\ seen' = seen /\ output' = output /\ skips' = skips
        BY <1>5 DEF Arrives, runVars
    <2>2. k \in BehindReaders
        BY <1>2, <2>1 DEF BehindReaders
    <2>3. r # k
        BY <1>3, <1>5, <2>2 DEF Arrives, Behind
    <2>4. input'[k] = input[k] /\ (k \in raced' <=> k \in raced)
        BY <1>2, <1>5, <2>3 DEF Arrives, OTypeOK, StageTypeOK
    <2> QED
        BY <1>2, <1>3, <2>1, <2>4 DEF ReadersCatchUp, Behind
<1>6. ASSUME NEW v \in Worker, Reads(v) PROVE Goal
    <2>1. UNCHANGED <<input, output, raced, skips>>
        BY <1>6 DEF Reads, stageVars
    <2>2. CASE v = w
        BY <1>2, <1>6, <2>1, <2>2 DEF Reads, OTypeOK, HandlerTypeOK
    <2>3. CASE v # w
        <3>1. phase'[w] = phase[w] /\ seen'[w] = seen[w]
            BY <1>6, <2>3 DEF Reads, OTypeOK, HandlerTypeOK
        <3> QED
            BY <1>4, <2>1, <3>1
    <2> QED
        BY <2>2, <2>3
<1>7. ASSUME NEW v \in Worker, Writes(v) PROVE Goal
    <2> DEFINE j == KeyOf(v)
    <2>1. holds[v] # None /\ seen[v] \in Nat
        BY <1>7 DEF Writes, OTypeOK, HandlerTypeOK
    <2>2. j \in Key /\ k \notin Successor[j]
        <3>1. j \in Key
            BY <2>1, HeldKey
        <3>2. ASSUME k \in Successor[j] PROVE FALSE
            <4>1. v # w
                BY <1>2, <3>1, <3>2, OrchestrationAssumption
            <4>2. phase'[w] = phase[w]
                BY <1>7, <4>1 DEF Writes, OTypeOK, HandlerTypeOK
            <4>3. k \in BehindReaders
                BY <1>2, <4>2 DEF BehindReaders
            <4> QED
                BY <1>7, <3>2, <4>3 DEF Writes, Behind
        <3> QED
            BY <3>1, <3>2
    <2>3. input'[k] = input[k]
        BY <1>2, <1>7, <2>2 DEF Writes
    <2>4. j # k
        <3> SUFFICES ASSUME j = k PROVE FALSE
            OBVIOUS
        <3>1. seen[v] = input[k]
            BY <1>3, <1>7, <2>2 DEF Writes, Behind
        <3>2. output'[k] = Effect(k, seen[v])
            BY <1>2, <1>7, <2>1 DEF Writes, OTypeOK, StageTypeOK
        <3>3. Effect(k, seen[v]) \in Nat /\ Effect(k, seen[v]) >= seen[v]
            BY <1>2, <2>1, EffectFact DEF OTypeOK
        <3>4. ~(input'[k] > output'[k])
            BY <2>1, <2>3, <3>1, <3>2, <3>3
        <3> QED
            BY <3>4 DEF Behind
    <2>5. output'[k] = output[k] /\ (k \in raced' <=> k \in raced)
        BY <1>2, <1>7, <2>2, <2>4 DEF Writes, OTypeOK, StageTypeOK
    <2>6. v # w
        BY <1>2, <2>4
    <2>7. phase'[w] = phase[w] /\ seen'[w] = seen[w] /\ skips' = skips
        BY <1>7, <2>6 DEF Writes, OTypeOK, HandlerTypeOK
    <2> QED
        BY <1>2, <1>3, <2>3, <2>5, <2>7 DEF ReadersCatchUp, Behind
<1>8. ASSUME NEW v \in Worker, NothingToDo(v) PROVE Goal
    <2>1. UNCHANGED <<input, output, raced, skips, seen>>
        BY <1>8 DEF NothingToDo, stageVars
    <2>2. CASE v = w
        <3>1. seen[w] <= output[k] /\ seen[w] = input[k]
            BY <1>2, <1>3, <1>8, <2>1, <2>2 DEF NothingToDo, ReadersCatchUp, Behind
        <3>2. input[k] \in Nat /\ output[k] \in Nat
            BY <1>2 DEF OTypeOK, StageTypeOK
        <3> QED
            BY <1>3, <2>1, <3>1, <3>2 DEF Behind
    <2>3. CASE v # w
        <3>1. phase'[w] = phase[w]
            BY <1>8, <2>3 DEF NothingToDo, OTypeOK, HandlerTypeOK
        <3> QED
            BY <1>4, <2>1, <3>1
    <2> QED
        BY <2>2, <2>3
<1>9. ASSUME NEW v \in Worker, Skips(v) PROVE Goal
    <2>1. UNCHANGED <<input, output, raced, seen>> /\ skips' > 0
        BY <1>3, <1>9 DEF Skips
    <2>2. CASE v = w
        BY <1>9, <2>1, <2>2 DEF Skips, OTypeOK, HandlerTypeOK
    <2>3. CASE v # w
        <3>1. phase'[w] = phase[w]
            BY <1>9, <2>3 DEF Skips, OTypeOK, HandlerTypeOK
        <3> QED
            BY <1>2, <1>3, <2>1, <3>1 DEF ReadersCatchUp, Behind
    <2> QED
        BY <2>2, <2>3
<1>10. ASSUME NEW v \in Worker, Finishes(v) \/ GivesUp(v) \/ Dies(v) PROVE Goal
    <2>1. UNCHANGED <<input, output, raced, skips>> /\ Forgets(v)
        BY <1>10 DEF Finishes, GivesUp, Dies, stageVars
    <2>2. phase'[w] = phase[w] /\ seen'[w] = seen[w]
        BY <2>1 DEF Forgets, OTypeOK, HandlerTypeOK
    <2> QED
        BY <1>4, <2>1, <2>2
<1>11. ASSUME NEW v \in Worker, NEW i \in Item, Takes(v, i) PROVE Goal
    <2>1. UNCHANGED <<input, output, raced, skips, seen>> /\ phase' = [phase EXCEPT ![v] = "claimed"]
        BY <1>11 DEF Takes, stageVars
    <2>2. phase'[w] = phase[w]
        BY <2>1 DEF OTypeOK, HandlerTypeOK
    <2> QED
        BY <1>4, <2>1, <2>2
<1>12. ASSUME NEW v \in Worker, (\E i \in Item : TakeRaises(v, i)) \/ WorkerRestarts(v)
       PROVE  Goal
    BY <1>4, <1>12 DEF TakeRaises, WorkerRestarts, stageVars, runVars
<1>13. CASE UNCHANGED ovars
    BY <1>2, <1>4, <1>13 DEF ovars, stageVars, runVars
<1>14. ASSUME NEW r \in Root, Publishes(r) PROVE Goal
    BY <1>4, <1>14 DEF Publishes, runVars
<1>15. CASE DispatchReads \/ DispatchMarks \/ Sweeps
    BY <1>2, <1>4, <1>15 DEF DispatchReads, DispatchMarks, Sweeps, stageVars, runVars
<1>16. ASSUME NEW p \in Producer,
              \/ \E q \in Key : LooksFree(p, q) \/ FindsOpen(p, q)
              \/ \E i \in Item : Inserts(p, i)
              \/ InsertRaises(p) \/ ProducerDies(p) \/ ProducerRestarts(p)
       PROVE  Goal
    BY <1>4, <1>16
       DEF LooksFree, FindsOpen, Inserts, InsertRaises, ProducerDies, ProducerRestarts,
           stageVars, runVars
<1>17. ASSUME NEW i \in Item, TimePasses(i) PROVE Goal
    BY <1>4, <1>17 DEF TimePasses, stageVars, runVars
<1> QED
    BY <1>2, <1>5, <1>6, <1>7, <1>8, <1>9, <1>10, <1>11, <1>12, <1>13, <1>14, <1>15,
       <1>16, <1>17 DEF ONext

\* What is on its way to the queue stays so until it is there.
LEMMA StaysOnItsWay ==
    ASSUME TypeOK, OTypeOK, [ONext]_ovars, NEW k \in Key,
           k \in unpublished \cup pending \cup todo[Dispatcher] \/ HasItem(k),
           \A w \in Worker : Finishes(w) => KeyOf(w) # k
    PROVE  k \in unpublished' \cup pending' \cup todo'[Dispatcher] \/ HasItem(k)'
<1>0. PassTypeOK
    BY DEF OTypeOK
<1>1. HasItem(k) => HasItem(k)'
    BY StepKeepsItem
<1> SUFFICES ASSUME k \in unpublished \cup pending \cup todo[Dispatcher]
             PROVE  k \in unpublished' \cup pending' \cup todo'[Dispatcher] \/ HasItem(k)'
    BY <1>1
<1> DEFINE Goal == k \in unpublished' \cup pending' \cup todo'[Dispatcher] \/ HasItem(k)'
<1>2. CASE UNCHANGED <<unpublished, pending, todo>>
    BY <1>2
<1>3. ASSUME NEW r \in Root, Arrives(r) \/ Publishes(r) PROVE Goal
    BY <1>3 DEF Arrives, Publishes, passVars
<1>4. CASE DispatchReads
    <2>1. todo[Dispatcher] = {}
        BY <1>4 DEF DispatchReads, Free
    <2>2. todo'[Dispatcher] = pending /\ unpublished' = unpublished
        BY <1>0, <1>4, Producers DEF DispatchReads, PassTypeOK, stageVars
    <2> QED
        BY <2>1, <2>2
<1>5. CASE DispatchMarks
    BY <1>2, <1>5 DEF DispatchMarks, stageVars
<1>6. CASE Sweeps
    <2>1. todo'[Dispatcher] = todo[Dispatcher] /\ UNCHANGED <<pending, unpublished>>
        BY <1>0, <1>6, Producers DEF Sweeps, PassTypeOK, stageVars
    <2> QED
        BY <2>1
<1>7. ASSUME NEW p \in Producer, NEW j \in Key, FindsOpen(p, j) PROVE Goal
    <2>1. UNCHANGED <<pending, unpublished, rows>>
        BY <1>7 DEF FindsOpen, stageVars, vars
    <2>2. HasItem(j)
        BY <1>7 DEF FindsOpen, KeyIsFree, HasItem, Open, Unsettled
    <2>3. j = k \/ (k \in todo[Dispatcher] => k \in todo'[Dispatcher])
        BY <1>0, <1>7, Producers DEF FindsOpen, PassTypeOK
    <2> QED
        BY <1>1, <2>1, <2>2, <2>3
<1>8. ASSUME NEW p \in Producer, NEW i \in Item, Inserts(p, i) PROVE Goal
    <2>1. UNCHANGED <<pending, unpublished>> /\ EnqueueInserts(p, i)
        BY <1>8 DEF Inserts, stageVars
    <2>2. calling[p] = k => HasItem(k)'
        BY <2>1, InsertStep DEF HasItem, Unsettled
    <2>3. calling[p] = k \/ (k \in todo[Dispatcher] => k \in todo'[Dispatcher])
        BY <1>0, <1>8, Producers DEF Inserts, PassTypeOK
    <2> QED
        BY <2>1, <2>2, <2>3
<1>9. ASSUME NEW p \in Producer, InsertRaises(p) \/ ProducerDies(p) PROVE Goal
    <2>1. PassLost(p) /\ unpublished' = unpublished
        BY <1>9 DEF InsertRaises, ProducerDies, stageVars
    <2>2. pending \subseteq pending'
        BY <2>1 DEF PassLost
    <2>3. k \in todo[Dispatcher] => k \in pending' \cup todo'[Dispatcher]
        <3>1. CASE p = Dispatcher
            BY <1>0, <2>1, <3>1 DEF PassLost, PassTypeOK
        <3>2. CASE p # Dispatcher
            BY <1>0, <2>1, <3>2, Producers DEF PassLost, PassTypeOK
        <3> QED
            BY <3>1, <3>2
    <2> QED
        BY <2>1, <2>2, <2>3
<1>10. ASSUME NEW w \in Worker, Finishes(w) PROVE Goal
    <2>1. pending \subseteq pending' /\ UNCHANGED <<todo, unpublished>>
        BY <1>10 DEF Finishes, EventsStaged
    <2> QED
        BY <2>1
<1>11. CASE UNCHANGED ovars
    BY <1>2, <1>11 DEF ovars, passVars, stageVars
<1>12. ASSUME NEW p \in Producer, (\E j \in Key : LooksFree(p, j)) \/ ProducerRestarts(p)
       PROVE  Goal
    BY <1>2, <1>12 DEF LooksFree, ProducerRestarts, passVars, stageVars
<1>13. ASSUME NEW w \in Worker,
              \/ \E i \in Item : Takes(w, i) \/ TakeRaises(w, i)
              \/ Reads(w) \/ Writes(w) \/ NothingToDo(w) \/ Skips(w)
              \/ GivesUp(w) \/ Dies(w) \/ WorkerRestarts(w)
       PROVE  Goal
    BY <1>2, <1>13
       DEF Takes, TakeRaises, Reads, Writes, NothingToDo, Skips, GivesUp, Dies,
           WorkerRestarts, passVars, stageVars
<1>14. ASSUME NEW i \in Item, TimePasses(i) PROVE Goal
    BY <1>2, <1>14 DEF TimePasses, passVars, stageVars
<1> QED
    BY <1>3, <1>4, <1>5, <1>6, <1>7, <1>8, <1>9, <1>10, <1>11, <1>12, <1>13, <1>14
       DEF ONext

\* What has to be announced stays so until its events are pending.
LEMMA StaysOwed ==
    ASSUME [ONext]_ovars, NEW k \in Key, IsOwed(k)
    PROVE  IsOwed(k)' \/ k \in pending'
<1>1. PICK j \in owing : k \in Successor[j]
    BY DEF IsOwed
<1>2. CASE owing \subseteq owing'
    BY <1>1, <1>2 DEF IsOwed
<1>3. ASSUME NEW w \in Worker, Finishes(w) PROVE IsOwed(k)' \/ k \in pending'
    <2>1. CASE EventsStaged(KeyOf(w))
        BY <1>1, <2>1 DEF EventsStaged, IsOwed
    <2>2. CASE owing' = owing
        BY <1>2, <2>2
    <2> QED
        BY <1>3, <2>1, <2>2 DEF Finishes
<1>4. ASSUME NEW w \in Worker, Writes(w) PROVE owing \subseteq owing'
    BY <1>4 DEF Writes
<1> QED
    BY <1>2, <1>3, <1>4
       DEF ONext, ovars, stageVars, Arrives, Publishes, DispatchReads, DispatchMarks,
           Sweeps, LooksFree, FindsOpen, Inserts, InsertRaises, ProducerDies,
           ProducerRestarts, Takes, TakeRaises, Reads, NothingToDo, Skips, GivesUp, Dies,
           WorkerRestarts, TimePasses

\* A key that falls behind in a step has just been changed: by ingestion, and is
\* unpublished, or by a handler that has still to announce it.
LEMMA FallsBehind ==
    ASSUME TypeOK, OTypeOK, [ONext]_ovars, NEW k \in Key, Behind(k)', ~Behind(k)
    PROVE  k \in unpublished' \/ IsOwed(k)'
<1>1. ~UNCHANGED <<input, output, raced>>
    BY DEF Behind
<1>2. ASSUME NEW r \in Root, Arrives(r) PROVE k \in unpublished'
    <2>1. r # k => input'[k] = input[k] /\ output' = output /\ (k \in raced' <=> k \in raced)
        BY <1>2 DEF Arrives, OTypeOK, StageTypeOK
    <2>2. r = k
        BY <2>1 DEF Behind
    <2> QED
        BY <1>2, <2>2 DEF Arrives
<1>3. ASSUME NEW w \in Worker, Writes(w) PROVE IsOwed(k)'
    <2> DEFINE j == KeyOf(w)
    <2>1. holds[w] # None /\ seen[w] \in Nat
        BY <1>3 DEF Writes, OTypeOK, HandlerTypeOK
    <2>2. j \in Key
        BY <2>1, HeldKey
    <2>3. CASE k \in Successor[j]
        BY <1>3, <2>3 DEF Writes, IsOwed
    <2>4. CASE k \notin Successor[j]
        <3>1. input'[k] = input[k]
            BY <1>3, <2>4 DEF Writes
        <3>2. j = k
            BY <1>3, <2>4, <3>1 DEF Writes, Behind, OTypeOK, StageTypeOK
        <3>3. seen[w] = input[k]
            BY <1>3, <2>4, <3>2 DEF Writes, Behind
        <3>4. output'[k] = Effect(k, seen[w])
            BY <1>3, <3>2 DEF Writes, OTypeOK, StageTypeOK
        <3>5. ~(input'[k] > output'[k])
            BY <2>1, <3>1, <3>3, <3>4, EffectFact DEF OTypeOK
        <3> QED
            BY <3>5 DEF Behind
    <2> QED
        BY <2>3, <2>4
<1> QED
    BY <1>1, <1>2, <1>3
       DEF ONext, ovars, stageVars, Publishes, DispatchReads, DispatchMarks, Sweeps,
           LooksFree, FindsOpen, Inserts, InsertRaises, ProducerDies, ProducerRestarts,
           Takes, TakeRaises, Reads, NothingToDo, Skips, Finishes, GivesUp, Dies,
           WorkerRestarts, TimePasses

LEMMA NextOnItsWay ==
    TypeOK /\ OTypeOK /\ ReadersCatchUp /\ IsOnItsWay /\ [ONext]_ovars => IsOnItsWay'
<1> SUFFICES ASSUME TypeOK, OTypeOK, ReadersCatchUp, IsOnItsWay, [ONext]_ovars,
                    skips' = 0, NEW k \in Key, Behind(k)'
             PROVE  \/ k \in unpublished' \cup pending' \cup todo'[Dispatcher]
                    \/ HasItem(k)' \/ IsOwed(k)'
    BY DEF IsOnItsWay
<1>1. skips = 0
    BY GoesOn
<1>2. CASE ~Behind(k)
    BY <1>2, FallsBehind
<1>3. CASE Behind(k)
    <2>1. CASE IsOwed(k)
        BY <2>1, StaysOwed
    <2>2. CASE ~IsOwed(k)
        <3>1. k \in unpublished \cup pending \cup todo[Dispatcher] \/ HasItem(k)
            BY <1>1, <1>3, <2>2 DEF IsOnItsWay
        <3>2. ASSUME NEW w \in Worker, Finishes(w) PROVE KeyOf(w) # k
            BY <1>1, <1>3, <3>2 DEF Finishes, ReadersCatchUp
        <3> QED
            BY <3>1, <3>2, StaysOnItsWay
    <2> QED
        BY <2>1, <2>2
<1> QED
    BY <1>2, <1>3

\* For any number of workers, keys and items, any number of kills, any successor
\* relation and whatever the finders ask: what the sweep or the events answer for is in
\* motion as long as it is behind, unless a handler had read already when it changed.
\* The sweep answers for every change of state estimation, critique and capability
\* mapping and for the first one of discovery, the events for asset discovery's.
THEOREM OnlyRacedChangesAreLostHolds == OSpec => []OnlyRacedChangesAreLost
<1> DEFINE IInv == /\ TypeOK /\ OTypeOK
                   /\ FinderSeesBehind /\ ReadersCatchUp /\ IsOnItsWay
<1>1. OInit => IInv
    <2>1. OInit => \A k \in Key : ~Behind(k)
        BY DEF OInit, Behind
    <2>2. OInit => FinderSeesBehind /\ ReadersCatchUp /\ IsOnItsWay
        BY <2>1 DEF FinderSeesBehind, ReadersCatchUp, IsOnItsWay
    <2> QED
        BY <2>2, InitTypeOK, InitOTypeOK DEF OInit
<1>2. IInv /\ [ONext]_ovars => IInv'
    BY NextOTypeOK, NextFinderSees, NextReaders, NextOnItsWay
<1>3. IInv /\ EffectsAreAnnounced => OnlyRacedChangesAreLost
    <2> SUFFICES ASSUME IInv, EffectsAreAnnounced,
                        NEW k \in Key, input[k] > output[k], k \notin raced,
                        Swept(k) \/ Announced(k)
                 PROVE  InMotion(k)
        BY DEF OnlyRacedChangesAreLost
    <2>1. CASE Swept(k)
        BY <2>1 DEF FinderSeesBehind, Behind, Swept, InMotion
    <2>2. CASE Announced(k)
        <3>1. \/ k \in unpublished \cup pending \cup todo[Dispatcher]
              \/ HasItem(k) \/ IsOwed(k)
            BY <2>2 DEF Announced, IsOnItsWay, Behind
        <3>2. todo[Dispatcher] \subseteq batch /\ owing \subseteq Key
            BY DEF OTypeOK, PassTypeOK, StageTypeOK
        <3>3. ASSUME NEW j \in owing, k \in Successor[j] PROVE InMotion(k)
            <4>1. k \notin Root
                BY <3>2, <3>3, SuccessorKeys
            <4>2. slips = 0 /\ skips = 0 /\ j \notin Root
                BY <2>2, <3>3, <4>1 DEF Announced
            <4> QED
                BY <3>3, <4>2 DEF EffectsAreAnnounced, InMotion
        <3> QED
            BY <3>1, <3>2, <3>3 DEF InMotion, IsOwed
    <2> QED
        BY <2>1, <2>2
<1> QED
    BY <1>1, <1>2, <1>3, AnnouncedHolds, PTL DEF OSpec

\* A change that the sweep or the events answer for is carried onward or was raced,
\* and effects are announced.
THEOREM ChangesAreCarriedHolds == OSpec => []ChangesAreCarried
<1>1. OnlyRacedChangesAreLost /\ EffectsAreAnnounced => ChangesAreCarried
    BY DEF ChangesAreCarried
<1> QED
    BY <1>1, OnlyRacedChangesAreLostHolds, AnnouncedHolds, PTL
=============================================================================
