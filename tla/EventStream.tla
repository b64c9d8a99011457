----------------------------- MODULE EventStream -----------------------------
(***************************************************************************)
(* The terminal's live-update stream (apps/api, routers/stream.py): one    *)
(* client, its Last-Event-ID, and the server generator that polls          *)
(* outbox_events and remembers a single timestamp.                         *)
(*                                                                         *)
(* created_at of an outbox row defaults to now(), which Postgres fixes     *)
(* when the transaction starts: all rows of a transaction carry its start  *)
(* time, and become visible only when it commits.                          *)
(***************************************************************************)
EXTENDS Integers, FiniteSets

CONSTANTS
    Row,        \* identities of outbox rows
    Txn,        \* the transactions that stage them
    TxnOf,      \* the transaction of each row
    Pushed,     \* rows whose event name has an entry in INVALIDATES
    None,       \* no Last-Event-ID
    PageLimit,  \* the LIMIT of one poll
    MaxDrops    \* bound: how often the connection breaks

ASSUME StreamAssumption ==
    /\ IsFiniteSet(Row) /\ None \notin Row
    /\ TxnOf \in [Row -> Txn]
    /\ Pushed \subseteq Row
    /\ PageLimit \in Nat \ {0}
    /\ MaxDrops \in Nat

VARIABLES
    now,        \* the clock, advanced by every transaction that starts
    started,    \* the start time of each transaction, 0 before it starts
    committed,  \* transactions that have committed
    up,         \* the connection stands
    cursor,     \* the generator's cursor
    page,       \* rows of the last poll not yet yielded
    lastId,     \* the Last-Event-ID the browser keeps across connections
    told,       \* how often the client received each row
    drops,      \* history: broken connections so far
    before,     \* history: rows visible when a connection without an id began
    passed      \* history: transactions open when a page or a start went past them

writerVars == <<now, started, committed>>
clientVars == <<lastId, told, drops, before>>
vars == <<writerVars, up, cursor, page, clientVars, passed>>

At(r)   == started[TxnOf[r]]
Visible == {r \in Row : TxnOf[r] \in committed}

Init ==
    /\ now = 0
    /\ started = [t \in Txn |-> 0]
    /\ committed = {}
    /\ up = FALSE /\ cursor = 0 /\ page = {}
    /\ lastId = None
    /\ told = [r \in Row |-> 0]
    /\ drops = 0
    /\ before = {} /\ passed = {}

-----------------------------------------------------------------------------
(* The pipeline's transactions.                                            *)

Begin(t) ==
    /\ started[t] = 0
    /\ now' = now + 1
    /\ started' = [started EXCEPT ![t] = now']
    /\ UNCHANGED <<committed, up, cursor, page, clientVars, passed>>

Commit(t) ==
    /\ started[t] # 0 /\ t \notin committed
    /\ committed' = committed \cup {t}
    /\ UNCHANGED <<now, started, up, cursor, page, clientVars, passed>>

-----------------------------------------------------------------------------
(* The generator.                                                          *)

\* Transactions still open whose rows a cursor at c leaves behind.
OpenBehind(c) == {t \in Txn \ committed : started[t] \in 1 .. c}

\* _start: resume at the row the client names, else at the newest row, else now.
Start(c) ==
    IF lastId # None THEN c = At(lastId)
    ELSE IF Visible = {} THEN c = now
    ELSE \E r \in Visible : c = At(r) /\ \A s \in Visible : At(s) <= c

Connects ==
    /\ ~up
    /\ \E c \in 0 .. now :
          /\ Start(c)
          /\ cursor' = c
          /\ passed' = passed \cup OpenBehind(c)
    /\ up' = TRUE
    /\ before' = IF lastId = None THEN before \cup Visible ELSE before
    /\ UNCHANGED <<writerVars, page, lastId, told, drops>>

Ahead(c) == {r \in Visible : At(r) > c}

\* Mutant: the page is not ordered by created_at.
IsPageUnordered(s) ==
    /\ s \subseteq Ahead(cursor)
    /\ Cardinality(s) <= PageLimit
    /\ s # Ahead(cursor) => Cardinality(s) = PageLimit

\* ORDER BY created_at LIMIT n: rows of equal created_at come in any order.
IsPage(s) ==
    /\ s \subseteq Ahead(cursor)
    /\ Cardinality(s) <= PageLimit
    /\ s # Ahead(cursor) => Cardinality(s) = PageLimit
    /\ \A r \in s, q \in Ahead(cursor) \ s : At(r) <= At(q)

Polls ==
    /\ up /\ page = {}
    /\ \E s \in SUBSET Ahead(cursor) :
          /\ s # {} /\ IsPage(s)
          /\ page' = s
          /\ passed' = passed \cup UNION {OpenBehind(At(r)) : r \in s}
    /\ UNCHANGED <<writerVars, up, cursor, clientVars>>

\* Mutant: an event no screen listens for is skipped before the cursor moves.
YieldsListedOnly(r) ==
    /\ up
    /\ r \in page /\ \A q \in page : At(r) <= At(q)
    /\ page' = page \ {r}
    /\ IF r \in Pushed
       THEN /\ told' = [told EXCEPT ![r] = @ + 1]
            /\ lastId' = r
            /\ cursor' = At(r)
       ELSE UNCHANGED <<told, lastId, cursor>>
    /\ UNCHANGED <<writerVars, up, drops, before, passed>>

\* Mutant: the rows of a page come in any order.
YieldsAnyOf(r) ==
    /\ up
    /\ r \in page
    /\ page' = page \ {r}
    /\ cursor' = At(r)
    /\ IF r \in Pushed
       THEN /\ told' = [told EXCEPT ![r] = @ + 1]
            /\ lastId' = r
       ELSE UNCHANGED <<told, lastId>>
    /\ UNCHANGED <<writerVars, up, drops, before, passed>>

\* One turn of the loop over the page: a row whose event is not listed only moves
\* the cursor.
Yields(r) ==
    /\ up
    /\ r \in page /\ \A q \in page : At(r) <= At(q)
    /\ page' = page \ {r}
    /\ cursor' = At(r)
    /\ IF r \in Pushed
       THEN /\ told' = [told EXCEPT ![r] = @ + 1]
            /\ lastId' = r
       ELSE UNCHANGED <<told, lastId>>
    /\ UNCHANGED <<writerVars, up, drops, before, passed>>

\* The connection breaks; what the generator had read goes with it.
Drops ==
    /\ up
    /\ drops < MaxDrops
    /\ drops' = drops + 1
    /\ up' = FALSE
    /\ page' = {}
    /\ UNCHANGED <<writerVars, cursor, lastId, told, before, passed>>

Next ==
    \/ \E t \in Txn : Begin(t) \/ Commit(t)
    \/ Connects
    \/ Polls
    \/ \E r \in Row : Yields(r)
    \/ Drops

Spec == Init /\ [][Next]_vars

\* EventSource reconnects by itself and the generator polls in a loop.
Fairness ==
    /\ WF_vars(Connects)
    /\ WF_vars(Polls)
    /\ WF_vars(\E r \in Row : Yields(r))

FairSpec == Spec /\ Fairness

-----------------------------------------------------------------------------
(* Properties.                                                             *)

\* Type invariant: the clock is ahead of every start, a page is visible, ahead of
\* the cursor and lost with the connection, and the client names a row it was told.
TypeOK ==
    /\ now \in Nat /\ cursor \in 0 .. now
    /\ started \in [Txn -> 0 .. now]
    /\ committed \in SUBSET Txn /\ \A t \in committed : started[t] # 0
    /\ up \in BOOLEAN
    /\ page \in SUBSET Visible
    /\ \A r \in page : At(r) >= cursor
    /\ page # {} => up
    /\ lastId \in Row \cup {None}
    /\ told \in [Row -> Nat]
    /\ lastId # None => told[lastId] > 0
    /\ drops \in 0 .. MaxDrops
    /\ before \in SUBSET Row /\ passed \in SUBSET Txn

\* Over any number of broken connections the client is told of a row once at most:
\* it never invalidates for a change it has been told of.
ToldOnce == \A r \in Row : told[r] <= 1

\* Rows arrive in the order their transactions started, across pages and
\* connections: nothing older follows what the client names as its last event.
ToldInOrder ==
    [][\A r \in Row : told'[r] # told[r] =>
          \A q \in Row : told[q] > 0 => At(q) <= At(r)]_vars

\* A row with a sibling in its transaction that has been yielded: a page or a
\* connection can end between the two.
MaySplit(r) ==
    \E s \in Row \ {r} :
        TxnOf[s] = TxnOf[r] /\ (told[s] > 0 \/ s \notin Pushed)

\* The point the client will read on from.
ReadsOn == IF up \/ lastId = None THEN cursor ELSE At(lastId)

\* What the single timestamp costs, and no more: a listed change the client has not
\* been told of is still ahead of it, was there before it subscribed, comes from a
\* transaction that was still open when a newer row was read, or shares its timestamp
\* with a row already yielded.  A client that breaks off before its first event has
\* no id to resume from and is excepted.
OnlyOvertakenOrSplitRowsAreMissed ==
    up \/ lastId # None =>
        \A r \in Visible \cap Pushed :
            \/ told[r] > 0
            \/ r \in page
            \/ At(r) > ReadsOn
            \/ r \in before
            \/ TxnOf[r] \in passed
            \/ MaySplit(r)

\* A listed row in front of the cursor is told in the end, whatever stands between
\* the two, unless a newer row was read before it committed, the connection breaks
\* before the client has an id, or a page or connection ends inside its transaction.
AheadIsTold ==
    \A r \in Pushed :
        (up /\ r \in Ahead(cursor))
            ~> (told[r] > 0 \/ r \in before \/ TxnOf[r] \in passed \/ MaySplit(r))

-----------------------------------------------------------------------------
(* What a docstring says and the stream does not do.                       *)

Missed(r) ==
    /\ up /\ r \in Visible \cap Pushed
    /\ told[r] = 0 /\ r \notin page /\ r \notin before
    /\ At(r) <= cursor

\* "there is no window in which a Process changed and the terminal was not told"
\* (stream.py:17), for a connection that never breaks.
NoWindow == drops = 0 => \A r \in Row : ~Missed(r)

(* A client is told of a row once, and of every row that is visible and pushed
   unless a later commit overtook it or a page split it from its siblings. *)
ToldOnceOrExcused ==
    /\ ToldOnce
    /\ OnlyOvertakenOrSplitRowsAreMissed
=============================================================================
