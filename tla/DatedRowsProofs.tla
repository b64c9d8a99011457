--------------------------- MODULE DatedRowsProofs ---------------------------
(***************************************************************************)
(* Proofs about the two readers of rows that are dated when their writer   *)
(* began and visible only once it committed.                               *)
(*                                                                         *)
(* EventStream: the client is told of a row once at most, in the order the *)
(* transactions started, and misses only rows that were overtaken or split *)
(* from a sibling.                                                         *)
(*                                                                         *)
(* Market: a past moment has one answer, a written snapshot never changes, *)
(* and what an ingest, an export or a scoring pass did, it says.           *)
(***************************************************************************)
EXTENDS EventStream, Market, WellFoundedInduction, TLAPS

\* The clock gives every transaction a start time of its own.
StartsDiffer ==
    \A t, u \in Txn : started[t] # 0 /\ started[t] = started[u] => t = u

\* Everything the client was told of is listed, visible and no newer than what it
\* names as its last event, and the cursor is not older than that.
ToldBehind ==
    /\ \A r \in Row : told[r] > 0 =>
          r \in Pushed /\ r \in Visible /\ lastId # None /\ At(r) <= At(lastId)
    /\ lastId # None => At(lastId) <= cursor

\* The rows of a page are news.
PageIsNew == \A r \in page : told[r] = 0

\* A transaction that is open behind the cursor or a page is in passed.
OpenIsPassed ==
    /\ OpenBehind(cursor) \subseteq passed
    /\ \A r \in page : OpenBehind(At(r)) \subseteq passed

\* A visible row that the page left out is no older than the page.
PageIsOldest ==
    \A r \in Visible \ page : \A q \in page :
        At(r) > cursor => At(q) <= At(r) \/ TxnOf[r] \in passed

IInv ==
    /\ TypeOK /\ StartsDiffer /\ ToldBehind /\ PageIsNew /\ OpenIsPassed
    /\ PageIsOldest /\ ToldOnce /\ OnlyOvertakenOrSplitRowsAreMissed

-----------------------------------------------------------------------------
(* Each action preserves the invariant.                                    *)

\* The start time of a row is a natural number no later than now; a row that is
\* visible has one.
LEMMA AtFact ==
    ASSUME TypeOK, NEW r \in Row
    PROVE  /\ At(r) \in 0 .. now
           /\ r \in Visible => At(r) # 0
  BY StreamAssumption DEF TypeOK, At, Visible

LEMMA InitHolds == Init => IInv
  <1> SUFFICES ASSUME Init PROVE IInv
    OBVIOUS
  <1>1. TypeOK
    <2>1. page = {} /\ committed = {} /\ up = FALSE /\ before = {} /\ passed = {}
      BY DEF Init
    <2>2. /\ now = 0 /\ cursor = 0 /\ drops = 0 /\ drops \in 0 .. MaxDrops
          /\ lastId = None
      BY StreamAssumption DEF Init
    <2>3. started \in [Txn -> 0 .. now] /\ told \in [Row -> Nat]
      BY <2>2 DEF Init
    <2>4. now \in Nat /\ cursor \in 0 .. now /\ lastId \in Row \cup {None}
      BY <2>2
    <2>6. up \in BOOLEAN
      BY <2>1
    <2>5. /\ committed \in SUBSET Txn /\ \A t \in committed : started[t] # 0
          /\ page \in SUBSET Visible /\ \A r \in page : At(r) >= cursor
          /\ page # {} => up
          /\ before \in SUBSET Row /\ passed \in SUBSET Txn
      BY <2>1
    <2> QED
      BY <2>2, <2>3, <2>4, <2>5, <2>6 DEF TypeOK
  <1>2. StartsDiffer /\ PageIsNew /\ PageIsOldest /\ ToldOnce
    BY DEF Init, StartsDiffer, PageIsNew, PageIsOldest, ToldOnce
  <1>3. ToldBehind
    BY DEF Init, ToldBehind
  <1>4. OpenIsPassed
    BY DEF Init, OpenIsPassed, OpenBehind
  <1>5. OnlyOvertakenOrSplitRowsAreMissed
    BY DEF Init, OnlyOvertakenOrSplitRowsAreMissed
  <1> QED
    BY <1>1, <1>2, <1>3, <1>4, <1>5 DEF IInv

\* A transaction that starts is younger than everything the stream has seen.
LEMMA BeginStep ==
    ASSUME IInv, NEW t \in Txn, Begin(t)
    PROVE  IInv'
  <1> USE DEF IInv
  <1>1. /\ now \in Nat /\ now' = now + 1
        /\ started \in [Txn -> 0 .. now] /\ started' = [started EXCEPT ![t] = now + 1]
        /\ started[t] = 0
        /\ UNCHANGED <<committed, up, cursor, page, lastId, told, drops, before, passed>>
    BY DEF Begin, TypeOK, clientVars
  <1>2. t \notin committed
    BY <1>1 DEF TypeOK
  <1>3. Visible' = Visible
    BY <1>1 DEF Visible
  <1>4. \A r \in Row : r \in Visible => At(r)' = At(r)
    BY <1>1, <1>2, StreamAssumption DEF At, Visible
  <1>5. lastId # None => lastId \in Visible
    BY DEF TypeOK, ToldBehind
  <1>6. TypeOK'
    <2>1. started' \in [Txn -> 0 .. now']
      BY <1>1
    <2>2. \A u \in committed' : started'[u] # 0
      BY <1>1, <1>2 DEF TypeOK
    <2>3. \A r \in page' : At(r)' >= cursor'
      BY <1>1, <1>4 DEF TypeOK, Visible
    <2> QED
      BY <2>1, <2>2, <2>3, <1>1, <1>3 DEF TypeOK
  <1>7. StartsDiffer'
    BY <1>1 DEF StartsDiffer
  <1>8. ToldBehind'
    <2>0. lastId # None => At(lastId)' = At(lastId)
      BY <1>1, <1>4, <1>5 DEF At, Visible
    <2>1. lastId # None => At(lastId)' <= cursor
      BY <2>0 DEF ToldBehind
    <2>2. ASSUME NEW r \in Row, told[r] > 0
          PROVE  r \in Pushed /\ r \in Visible /\ lastId # None /\ At(r)' <= At(lastId)'
      BY <2>0, <2>2, <1>4 DEF ToldBehind
    <2>3. lastId' = lastId /\ told' = told /\ cursor' = cursor
      BY <1>1
    <2> QED
      BY <2>1, <2>2, <2>3, <1>3 DEF ToldBehind, At
  <1>9. PageIsNew' /\ ToldOnce'
    BY <1>1 DEF PageIsNew, ToldOnce
  <1>10. ASSUME NEW c \in 0 .. now
         PROVE  OpenBehind(c)' \subseteq OpenBehind(c)
    BY <1>1 DEF OpenBehind
  <1>11. OpenIsPassed'
    <2>1. OpenBehind(cursor)' \subseteq passed'
      BY <1>1, <1>10 DEF OpenIsPassed, TypeOK, OpenBehind
    <2>2. ASSUME NEW r \in page
          PROVE  OpenBehind(At(r))' \subseteq passed'
      <3>1. r \in Row /\ At(r)' = At(r) /\ At(r) \in 0 .. now
        BY <1>4, AtFact DEF TypeOK, Visible
      <3>2. OpenBehind(At(r))' \subseteq OpenBehind(At(r))
        BY <3>1, <1>1 DEF OpenBehind
      <3> QED
        BY <3>2, <1>1 DEF OpenIsPassed
    <2> QED
      BY <2>1, <2>2, <1>1 DEF OpenIsPassed
  <1>12. PageIsOldest'
    BY <1>1, <1>3, <1>4 DEF PageIsOldest, TypeOK, Visible
  <1>13. OnlyOvertakenOrSplitRowsAreMissed'
    BY <1>1, <1>3, <1>4, <1>5
    DEF OnlyOvertakenOrSplitRowsAreMissed, ReadsOn, MaySplit, TypeOK, Visible
  <1> QED
    BY <1>6, <1>7, <1>8, <1>9, <1>11, <1>12, <1>13

\* The rows of a commit are ahead of the cursor or of an overtaken transaction.
LEMMA CommitStep ==
    ASSUME IInv, NEW t \in Txn, Commit(t)
    PROVE  IInv'
  <1> USE DEF IInv
  <1>1. /\ started[t] # 0 /\ t \notin committed /\ committed' = committed \cup {t}
        /\ UNCHANGED <<now, started, up, cursor, page, lastId, told, drops, before, passed>>
    BY DEF Commit, clientVars
  <1>2. Visible \subseteq Visible' /\ Visible' \subseteq Row
    BY <1>1 DEF Visible
  <1>3. \A r \in Visible' \ Visible : TxnOf[r] = t
    BY <1>1 DEF Visible
  <1>4. \A r \in Row : At(r)' = At(r)
    BY <1>1 DEF At
  <1>5. TypeOK'
    BY <1>1, <1>2, <1>4 DEF TypeOK, Visible
  <1>6. StartsDiffer' /\ PageIsNew' /\ ToldOnce'
    BY <1>1 DEF StartsDiffer, PageIsNew, ToldOnce
  <1>7. ToldBehind'
    BY <1>1, <1>2, <1>4 DEF ToldBehind, TypeOK
  <1>8. OpenIsPassed'
    BY <1>1 DEF OpenIsPassed, OpenBehind, At
  <1>9. ASSUME NEW r \in Row, TxnOf[r] = t
        PROVE  /\ At(r) <= cursor => t \in passed
               /\ \A q \in page : At(r) <= At(q) => t \in passed
    <2>1. started[t] \in 1 .. now /\ At(r) = started[t]
      BY <1>9, <1>1 DEF TypeOK, At
    <2>2. cursor \in Nat /\ \A q \in page : At(q) \in Nat
      BY AtFact DEF TypeOK, Visible
    <2>3. At(r) <= cursor => t \in OpenBehind(cursor)
      BY <2>1, <2>2, <1>1 DEF OpenBehind
    <2>4. \A q \in page : At(r) <= At(q) => t \in OpenBehind(At(q))
      BY <2>1, <2>2, <1>1 DEF OpenBehind
    <2> QED
      BY <2>3, <2>4 DEF OpenIsPassed
  <1>10. PageIsOldest'
    <2> SUFFICES ASSUME NEW r \in Visible' \ page, NEW q \in page, At(r) > cursor
                 PROVE  At(q) <= At(r) \/ TxnOf[r] \in passed
      BY <1>1, <1>2, <1>4 DEF PageIsOldest, TypeOK, Visible
    <2>1. CASE r \in Visible
      BY <2>1 DEF PageIsOldest
    <2>2. CASE r \notin Visible
      <3>1. r \in Row /\ q \in Row /\ TxnOf[r] = t
        BY <2>2, <1>2, <1>3 DEF TypeOK, Visible
      <3>2. At(r) \in Nat /\ At(q) \in Nat
        BY <3>1, AtFact
      <3> QED
        BY <3>1, <3>2, <1>9
    <2> QED
      BY <2>1, <2>2
  <1>11. OnlyOvertakenOrSplitRowsAreMissed'
    <2> SUFFICES ASSUME up \/ lastId # None, NEW r \in Visible', r \in Pushed,
                        ~(told[r] > 0), r \notin page, ~(At(r) > ReadsOn), r \notin before
                 PROVE  TxnOf[r] \in passed \/ MaySplit(r)
      BY <1>1, <1>2, <1>4
      DEF OnlyOvertakenOrSplitRowsAreMissed, ReadsOn, MaySplit, TypeOK, Visible
    <2>1. CASE r \in Visible
      BY <2>1 DEF OnlyOvertakenOrSplitRowsAreMissed
    <2>2. CASE r \notin Visible
      <3>1. r \in Row /\ TxnOf[r] = t
        BY <2>2, <1>2, <1>3
      <3>2. At(r) \in Nat /\ cursor \in Nat
        BY <3>1, AtFact DEF TypeOK
      <3>3. lastId # None => At(lastId) \in Nat /\ At(lastId) <= cursor
        BY AtFact DEF TypeOK, ToldBehind
      <3>4. At(r) <= cursor
        BY <3>2, <3>3 DEF ReadsOn
      <3> QED
        BY <3>1, <3>4, <1>9
    <2> QED
      BY <2>1, <2>2
  <1> QED
    BY <1>5, <1>6, <1>7, <1>8, <1>10, <1>11

\* A start is at the client's last event, or at a cursor that leaves nothing
\* promised behind.
LEMMA ConnectStep ==
    ASSUME IInv, Connects
    PROVE  IInv'
  <1> USE DEF IInv
  <1>1. /\ ~up /\ up' = TRUE
        /\ before' = IF lastId = None THEN before \cup Visible ELSE before
        /\ UNCHANGED <<now, started, committed, page, lastId, told, drops>>
    BY DEF Connects, writerVars
  <1>2. PICK c \in 0 .. now :
          Start(c) /\ cursor' = c /\ passed' = passed \cup OpenBehind(c)
    BY DEF Connects
  <1>3. page = {}
    BY <1>1 DEF TypeOK
  <1>4. Visible' = Visible /\ \A r \in Row : At(r)' = At(r)
    BY <1>1 DEF Visible, At
  <1>5. OpenBehind(cursor)' \subseteq passed' /\ passed' \in SUBSET Txn
    BY <1>1, <1>2 DEF OpenBehind, TypeOK
  <1>6. TypeOK'
    BY <1>1, <1>2, <1>3, <1>4, <1>5 DEF TypeOK, Visible
  <1>7. StartsDiffer' /\ PageIsNew' /\ ToldOnce' /\ PageIsOldest'
    BY <1>1, <1>3 DEF StartsDiffer, PageIsNew, ToldOnce, PageIsOldest
  <1>8. lastId # None => lastId \in Row /\ cursor' = At(lastId)
    BY <1>2 DEF Start, TypeOK
  <1>9. ToldBehind'
    <2>1. lastId # None => At(lastId)' = At(lastId) /\ At(lastId) <= cursor'
      BY <1>1, <1>8, AtFact DEF At
    <2> QED
      BY <1>1, <1>4, <2>1 DEF ToldBehind
  <1>10. OpenIsPassed'
    BY <1>1, <1>3, <1>5 DEF OpenIsPassed
  <1>11. OnlyOvertakenOrSplitRowsAreMissed'
    <2> SUFFICES ASSUME NEW r \in Visible, r \in Pushed,
                        ~(told[r] > 0), ~(At(r) > cursor'), r \notin before'
                 PROVE  TxnOf[r] \in passed' \/ MaySplit(r)'
      BY <1>1, <1>4 DEF OnlyOvertakenOrSplitRowsAreMissed, ReadsOn, Visible
    <2>1. lastId # None /\ r \notin before
      BY <1>1
    <2>2. r \notin page /\ ~(At(r) > ReadsOn)
      BY <2>1, <1>1, <1>3, <1>8 DEF ReadsOn
    <2>3. TxnOf[r] \in passed \/ MaySplit(r)
      BY <2>1, <2>2 DEF OnlyOvertakenOrSplitRowsAreMissed
    <2> QED
      BY <2>3, <1>1, <1>2 DEF MaySplit
  <1> QED
    BY <1>6, <1>7, <1>9, <1>10, <1>11

\* What a poll finds is newer than everything told, and the oldest of what is ahead.
LEMMA PollStep ==
    ASSUME IInv, Polls
    PROVE  IInv'
  <1> USE DEF IInv
  <1>1. /\ up /\ page = {}
        /\ UNCHANGED <<now, started, committed, up, cursor, lastId, told, drops, before>>
    BY DEF Polls, writerVars, clientVars
  <1>2. PICK s \in SUBSET Ahead(cursor) :
          /\ IsPage(s) /\ page' = s
          /\ passed' = passed \cup UNION {OpenBehind(At(r)) : r \in s}
    BY DEF Polls
  <1>3. Visible' = Visible /\ \A r \in Row : At(r)' = At(r)
    BY <1>1 DEF Visible, At
  <1>4. \A r \in s : r \in Visible /\ r \in Row /\ At(r) > cursor
    BY DEF Ahead, Visible
  <1>5. \A c \in 0 .. now : OpenBehind(c)' = OpenBehind(c)
    BY <1>1 DEF OpenBehind
  <1>6. passed' \in SUBSET Txn /\ passed \subseteq passed'
    BY <1>2 DEF TypeOK, OpenBehind
  <1>7. TypeOK'
    <2>1. page' \in SUBSET Visible' /\ \A r \in page' : At(r)' >= cursor'
      <3>1. \A r \in s : At(r) >= cursor
        BY <1>4, AtFact DEF TypeOK
      <3> QED
        BY <3>1, <1>1, <1>2, <1>3, <1>4
    <2> QED
      BY <2>1, <1>1, <1>6 DEF TypeOK
  <1>8. StartsDiffer' /\ ToldOnce'
    BY <1>1 DEF StartsDiffer, ToldOnce
  <1>9. ToldBehind'
    BY <1>1, <1>3 DEF ToldBehind, TypeOK
  <1>10. PageIsNew'
    <2> SUFFICES ASSUME NEW r \in s, told[r] # 0
                 PROVE  FALSE
      BY <1>1, <1>2 DEF PageIsNew
    <2>1. r \in Row /\ told[r] > 0
      BY <1>4 DEF TypeOK
    <2>2. lastId \in Row /\ At(r) <= At(lastId) /\ At(lastId) <= cursor
      BY <2>1 DEF ToldBehind, TypeOK
    <2>3. At(r) \in Nat /\ At(lastId) \in Nat /\ cursor \in Nat
      BY <2>1, <2>2, AtFact DEF TypeOK
    <2> QED
      BY <2>2, <2>3, <1>4
  <1>11. OpenIsPassed'
    <2>1. OpenBehind(cursor)' \subseteq passed'
      BY <1>1, <1>6 DEF OpenIsPassed, OpenBehind
    <2>2. ASSUME NEW r \in s
          PROVE  OpenBehind(At(r))' \subseteq passed'
      <3>1. OpenBehind(At(r)) \subseteq passed'
        BY <1>2
      <3>2. OpenBehind(At(r))' = OpenBehind(At(r))
        BY <1>1, <1>3, <1>4 DEF OpenBehind
      <3> QED
        BY <3>1, <3>2
    <2> QED
      BY <2>1, <2>2, <1>2 DEF OpenIsPassed
  <1>12. PageIsOldest'
    <2>1. \A q \in s, r \in Ahead(cursor) \ s : At(q) <= At(r)
      BY <1>2 DEF IsPage
    <2>2. \A r \in Visible \ s : At(r) > cursor => r \in Ahead(cursor) \ s
      BY DEF Ahead
    <2>3. \A r \in Visible \ s : \A q \in s : At(r) > cursor => At(q) <= At(r)
      BY <2>1, <2>2
    <2>4. \A r \in Visible : r \in Row
      BY DEF Visible
    <2> QED
      BY <2>3, <2>4, <1>1, <1>2, <1>3, <1>4 DEF PageIsOldest
  <1>13. OnlyOvertakenOrSplitRowsAreMissed'
    <2> SUFFICES ASSUME NEW r \in Visible, r \in Pushed,
                        ~(told[r] > 0), ~(At(r) > cursor), r \notin before
                 PROVE  TxnOf[r] \in passed' \/ MaySplit(r)'
      BY <1>1, <1>3 DEF OnlyOvertakenOrSplitRowsAreMissed, ReadsOn, Visible
    <2>1. TxnOf[r] \in passed \/ MaySplit(r)
      BY <1>1 DEF OnlyOvertakenOrSplitRowsAreMissed, ReadsOn
    <2> QED
      BY <2>1, <1>1, <1>6 DEF MaySplit
  <1> QED
    BY <1>7, <1>8, <1>9, <1>10, <1>11, <1>12, <1>13

\* A row that is yielded is the oldest of its page: what the cursor goes past with
\* it was told, is a sibling of it, or was overtaken.
LEMMA YieldStep ==
    ASSUME IInv, NEW r \in Row, Yields(r)
    PROVE  IInv'
  <1> USE DEF IInv
  <1>1. /\ up /\ r \in page /\ page' = page \ {r} /\ cursor' = At(r)
        /\ UNCHANGED <<now, started, committed, up, drops, before, passed>>
    BY DEF Yields, writerVars
  <1>2. /\ r \in Pushed => told' = [told EXCEPT ![r] = @ + 1] /\ lastId' = r
        /\ r \notin Pushed => UNCHANGED <<told, lastId>>
    BY DEF Yields
  <1>3. Visible' = Visible /\ \A q \in Row : At(q)' = At(q)
    BY <1>1 DEF Visible, At
  <1>4. \A q \in page : q \in Row /\ q \in Visible /\ At(q) >= cursor /\ At(r) <= At(q)
    BY DEF Yields, TypeOK, Visible
  <1>5. told \in [Row -> Nat] /\ told[r] = 0
    BY <1>1 DEF TypeOK, PageIsNew
  <1>6. /\ told' \in [Row -> Nat]
        /\ \A q \in Row : told'[q] = IF q = r /\ r \in Pushed THEN 1 ELSE told[q]
    BY <1>2, <1>5
  <1>7. At(r) \in 0 .. now /\ cursor \in 0 .. now /\ cursor <= At(r) /\ now \in Nat
    BY <1>1, <1>4, AtFact DEF TypeOK
  <1>8. lastId' \in Row \cup {None} /\ (lastId' # None => told'[lastId'] > 0)
    <2>1. CASE r \in Pushed
      BY <2>1, <1>2, <1>6
    <2>2. CASE r \notin Pushed
      BY <2>2, <1>2 DEF TypeOK
    <2> QED
      BY <2>1, <2>2
  <1>9. TypeOK'
    <2>1. cursor' \in 0 .. now' /\ now' \in Nat
      BY <1>1, <1>7
    <2>2. page' \in SUBSET Visible' /\ \A q \in page' : At(q)' >= cursor'
      <3>1. \A q \in page : At(q) >= At(r)
        BY <1>4, <1>7, AtFact
      <3> QED
        BY <3>1, <1>1, <1>3, <1>4
    <2>3. page' # {} => up'
      BY <1>1
    <2> QED
      BY <2>1, <2>2, <2>3, <1>1, <1>6, <1>8 DEF TypeOK
  <1>10. StartsDiffer'
    BY <1>1 DEF StartsDiffer
  <1>11. ToldOnce' /\ PageIsNew'
    <2>1. \A q \in Row : told'[q] <= 1
      BY <1>6 DEF ToldOnce
    <2>2. \A q \in page \ {r} : told'[q] = 0
      BY <1>4, <1>6 DEF PageIsNew
    <2> QED
      BY <2>1, <2>2, <1>1 DEF ToldOnce, PageIsNew
  <1>12. ASSUME NEW q \in Row, told[q] > 0
         PROVE  /\ q \in Pushed /\ q \in Visible /\ lastId # None
                /\ At(q) <= At(lastId) /\ At(lastId) <= cursor /\ At(q) <= At(r)
    <2>1. /\ q \in Pushed /\ q \in Visible /\ lastId # None
          /\ At(q) <= At(lastId) /\ At(lastId) <= cursor
      BY <1>12 DEF ToldBehind
    <2>2. At(q) \in Nat /\ At(lastId) \in Nat
      BY <2>1, AtFact DEF TypeOK
    <2> QED
      BY <2>1, <2>2, <1>7
  <1>13. ToldBehind'
    <2>1. CASE r \in Pushed
      <3>1. At(lastId)' = At(r)
        BY <2>1, <1>1, <1>2 DEF At
      <3>2. lastId' # None
        BY <2>1, <1>2, StreamAssumption
      <3>3. \A q \in Row : told'[q] > 0 => q \in Pushed /\ q \in Visible /\ At(q) <= At(r)
        BY <2>1, <1>1, <1>4, <1>6, <1>7, <1>12
      <3> QED
        BY <3>1, <3>2, <3>3, <1>1, <1>3, <1>7 DEF ToldBehind
    <2>2. CASE r \notin Pushed
      <3>1. lastId # None => At(lastId)' = At(lastId) /\ At(lastId) <= At(r)
        <4>1. lastId # None => At(lastId) \in Nat /\ At(lastId) <= cursor
          BY AtFact DEF TypeOK, ToldBehind
        <4> QED
          BY <4>1, <2>2, <1>1, <1>2, <1>7 DEF At
      <3>2. told' = told /\ lastId' = lastId
        BY <2>2, <1>2
      <3> QED
        BY <3>1, <3>2, <1>1, <1>3, <1>12 DEF ToldBehind
    <2> QED
      BY <2>1, <2>2
  <1>14. OpenIsPassed'
    <2>1. OpenBehind(At(r))' = OpenBehind(At(r)) /\ OpenBehind(At(r)) \subseteq passed
      BY <1>1, <1>3 DEF OpenBehind, OpenIsPassed
    <2>3. OpenBehind(cursor)' \subseteq passed'
      BY <2>1, <1>1 DEF OpenBehind
    <2>4. \A q \in page : OpenBehind(At(q))' \subseteq passed'
      BY <1>1, <1>3, <1>4 DEF OpenBehind, OpenIsPassed
    <2> QED
      BY <2>3, <2>4, <1>1 DEF OpenIsPassed
  <1>15. PageIsOldest'
    <2> SUFFICES ASSUME NEW p \in Visible, p \notin page \ {r}, NEW q \in page \ {r},
                        At(p) > At(r)
                 PROVE  At(q) <= At(p) \/ TxnOf[p] \in passed
      BY <1>1, <1>3, <1>4 DEF PageIsOldest, Visible
    <2>1. p \in Row /\ At(p) \in Nat
      BY AtFact DEF Visible
    <2>2. p \notin page /\ At(p) > cursor
      BY <2>1, <1>7
    <2> QED
      BY <2>2 DEF PageIsOldest
  <1>16. OnlyOvertakenOrSplitRowsAreMissed'
    <2> SUFFICES ASSUME NEW p \in Visible, p \in Pushed, ~(told'[p] > 0),
                        p \notin page \ {r}, ~(At(p) > At(r)), p \notin before
                 PROVE  TxnOf[p] \in passed \/ MaySplit(p)'
      BY <1>1, <1>3 DEF OnlyOvertakenOrSplitRowsAreMissed, ReadsOn, Visible
    <2>1. p \in Row /\ At(p) \in Nat /\ At(p) # 0
      BY AtFact DEF Visible
    <2>2. p # r /\ told'[p] = told[p] /\ p \notin page
      BY <2>1, <1>6
    <2>3. \A s \in Row : told[s] > 0 => told'[s] > 0
      BY <1>5, <1>6
    <2>4. MaySplit(p) => MaySplit(p)'
      BY <2>3 DEF MaySplit
    <2>5. CASE At(p) > cursor
      <3>1. At(r) <= At(p) \/ TxnOf[p] \in passed
        BY <2>2, <2>5, <1>1 DEF PageIsOldest
      <3>2. ASSUME At(r) <= At(p) PROVE MaySplit(p)'
        <4>1. At(p) = At(r)
          BY <3>2, <2>1, <1>7
        <4>2. TxnOf[p] \in Txn /\ TxnOf[r] \in Txn
          BY <2>1, StreamAssumption
        <4>3. TxnOf[p] = TxnOf[r]
          BY <4>1, <4>2, <2>1 DEF At, StartsDiffer
        <4>4. told'[r] > 0 \/ r \notin Pushed
          BY <1>6
        <4> QED
          BY <4>3, <4>4, <2>2 DEF MaySplit
      <3> QED
        BY <3>1, <3>2
    <2>6. CASE ~(At(p) > cursor)
      <3>1. TxnOf[p] \in passed \/ MaySplit(p)
        BY <2>2, <2>6, <1>1 DEF OnlyOvertakenOrSplitRowsAreMissed, ReadsOn
      <3> QED
        BY <3>1, <2>4
    <2> QED
      BY <2>5, <2>6
  <1> QED
    BY <1>9, <1>10, <1>11, <1>13, <1>14, <1>15, <1>16

\* What a broken connection takes back to the last event the client names is still
\* ahead of it, or shares that event's transaction.
LEMMA DropStep ==
    ASSUME IInv, Drops
    PROVE  IInv'
  <1> USE DEF IInv
  <1>1. /\ up /\ up' = FALSE /\ page' = {} /\ drops < MaxDrops /\ drops' = drops + 1
        /\ UNCHANGED <<now, started, committed, cursor, lastId, told, before, passed>>
    BY DEF Drops, writerVars
  <1>2. Visible' = Visible /\ \A r \in Row : At(r)' = At(r)
    BY <1>1 DEF Visible, At
  <1>3. TypeOK'
    <2>1. drops' \in 0 .. MaxDrops
      BY <1>1, StreamAssumption DEF TypeOK
    <2> QED
      BY <2>1, <1>1, <1>2 DEF TypeOK
  <1>4. StartsDiffer' /\ ToldOnce' /\ PageIsNew' /\ PageIsOldest'
    BY <1>1 DEF StartsDiffer, ToldOnce, PageIsNew, PageIsOldest
  <1>5. lastId # None => lastId' = lastId /\ At(lastId)' = At(lastId)
    BY <1>1 DEF At
  <1>6. ToldBehind'
    BY <1>1, <1>2, <1>5 DEF ToldBehind, TypeOK
  <1>7. OpenIsPassed'
    BY <1>1 DEF OpenIsPassed, OpenBehind
  <1>8. OnlyOvertakenOrSplitRowsAreMissed'
    <2> SUFFICES ASSUME lastId # None, NEW r \in Visible, r \in Pushed,
                        ~(told[r] > 0), ~(At(r) > At(lastId)), r \notin before
                 PROVE  TxnOf[r] \in passed \/ MaySplit(r)
      BY <1>1, <1>2, <1>5
      DEF OnlyOvertakenOrSplitRowsAreMissed, ReadsOn, MaySplit, Visible
    <2>1. /\ r \in Row /\ At(r) \in Nat /\ At(r) # 0
          /\ lastId \in Row /\ At(lastId) \in Nat /\ told[lastId] > 0
          /\ At(lastId) <= cursor /\ cursor \in Nat
      BY AtFact DEF TypeOK, ToldBehind, Visible
    <2>2. CASE r \in page
      <3>1. At(r) >= cursor
        BY <2>2 DEF TypeOK
      <3>2. At(r) = At(lastId)
        BY <3>1, <2>1
      <3>3. TxnOf[r] = TxnOf[lastId]
        BY <3>2, <2>1, StreamAssumption DEF At, StartsDiffer
      <3>4. r # lastId
        BY <2>1
      <3> QED
        BY <3>3, <3>4, <2>1 DEF MaySplit
    <2>3. CASE r \notin page
      <3>1. ~(At(r) > ReadsOn)
        BY <2>1, <1>1 DEF ReadsOn
      <3> QED
        BY <3>1, <2>3 DEF OnlyOvertakenOrSplitRowsAreMissed
    <2> QED
      BY <2>2, <2>3
  <1> QED
    BY <1>3, <1>4, <1>6, <1>7, <1>8

LEMMA StepHolds == IInv /\ [Next]_vars => IInv'
  <1> SUFFICES ASSUME IInv, [Next]_vars PROVE IInv'
    OBVIOUS
  <1>1. ASSUME NEW t \in Txn, Begin(t) PROVE IInv'
    BY <1>1, BeginStep
  <1>2. ASSUME NEW t \in Txn, Commit(t) PROVE IInv'
    BY <1>2, CommitStep
  <1>3. CASE Connects
    BY <1>3, ConnectStep
  <1>4. CASE Polls
    BY <1>4, PollStep
  <1>5. ASSUME NEW r \in Row, Yields(r) PROVE IInv'
    BY <1>5, YieldStep
  <1>6. CASE Drops
    BY <1>6, DropStep
  <1>7. CASE UNCHANGED vars
    BY <1>7
    DEF vars, writerVars, clientVars, IInv, TypeOK, StartsDiffer, ToldBehind, PageIsNew,
        OpenIsPassed, OpenBehind, PageIsOldest, ToldOnce, Visible, At,
        OnlyOvertakenOrSplitRowsAreMissed, ReadsOn, MaySplit
  <1> QED
    BY <1>1, <1>2, <1>3, <1>4, <1>5, <1>6, <1>7 DEF Next

LEMMA InvariantHolds == Spec => []IInv
  BY InitHolds, StepHolds, PTL DEF Spec

-----------------------------------------------------------------------------
(* The theorems.                                                           *)

\* The stream's state is well typed in every reachable state.
THEOREM StreamTypeCorrect == Spec => []TypeOK
  <1>1. IInv => TypeOK
    BY DEF IInv
  <1> QED
    BY <1>1, InvariantHolds, PTL

\* For every number of writers, rows and broken connections, and every page size,
\* no change is told twice.
THEOREM ToldOnceHolds == Spec => []ToldOnce
  <1>1. IInv => ToldOnce
    BY DEF IInv
  <1> QED
    BY <1>1, InvariantHolds, PTL

\* A client misses only what its one timestamp cannot tell apart: rows overtaken by
\* a newer transaction, or split from a row with the same start time.
THEOREM OnlyOvertakenOrSplitHolds == Spec => []OnlyOvertakenOrSplitRowsAreMissed
  <1>1. IInv => OnlyOvertakenOrSplitRowsAreMissed
    BY DEF IInv
  <1> QED
    BY <1>1, InvariantHolds, PTL

\* What is told is told in the order in which the transactions started, over pages
\* and connections.
THEOREM ToldInOrderHolds == Spec => ToldInOrder
  <1>1. ASSUME IInv, [Next]_vars, NEW r \in Row, told'[r] # told[r],
               NEW q \in Row, told[q] > 0
        PROVE  At(q) <= At(r)
    <2>1. PICK p \in Row : Yields(p)
      BY <1>1 DEF Next, vars, Begin, Commit, Connects, Polls, Drops, clientVars
    <2>2. told' = [told EXCEPT ![p] = @ + 1] \/ told' = told
      BY <2>1 DEF Yields
    <2>3. p = r
      BY <2>2, <1>1 DEF IInv, TypeOK
    <2>4. At(q) <= At(lastId) /\ At(lastId) <= cursor /\ lastId # None
      BY <1>1 DEF IInv, ToldBehind
    <2>5. r \in page /\ At(r) >= cursor
      BY <2>1, <2>3, <1>1 DEF Yields, IInv, TypeOK
    <2>6. /\ At(q) \in Nat /\ At(r) \in Nat /\ At(lastId) \in Nat /\ cursor \in Nat
      BY <2>4, <1>1, AtFact DEF IInv, TypeOK
    <2> QED
      BY <2>4, <2>5, <2>6
  <1>2. IInv /\ [Next]_vars =>
          [\A r \in Row : told'[r] # told[r] =>
              \A q \in Row : told[q] > 0 => At(q) <= At(r)]_vars
    BY <1>1
  <1> QED
    BY <1>2, InvariantHolds, PTL DEF Spec, ToldInOrder

\* A client hears of a visible row once, or the row was overtaken or split.
THEOREM ToldOnceOrExcusedHolds == Spec => []ToldOnceOrExcused
<1>1. ToldOnce /\ OnlyOvertakenOrSplitRowsAreMissed => ToldOnceOrExcused
    BY DEF ToldOnceOrExcused
<1> QED
    BY <1>1, ToldOnceHolds, OnlyOvertakenOrSplitHolds, PTL

-----------------------------------------------------------------------------
(* The inductive invariant of Market. *)

IngestSteps == {"idle", "fetch", "store", "done", "stopped"}
PassSteps == {"idle", "read", "score", "annotate", "done", "stopped"}
Version == [asset : Asset, observed : Time, recorded : Time, close : Nat, adj : Nat]
Run == [step : IngestSteps, began : Nat, left : SUBSET Asset,
        bars : SUBSET [asset : Asset, day : Time, close : Nat, adj : Nat],
        results : SUBSET [asset : Asset, ok : BOOLEAN]]
Directory == [stamp : Time, written : BOOLEAN, rows : SUBSET Version, open : SUBSET Nat]

\* A pass and a card are records of their fields, whatever the agent answers.
PassForm(p) ==
    /\ DOMAIN p = {"step", "moment", "next", "histories", "open", "card"}
    /\ p.step \in PassSteps /\ p.moment \in Nat /\ p.next \in Nat /\ p.open \in SUBSET Nat
    /\ p.histories \in Seq(SUBSET [day : Time, close : Nat, adj : Nat])
CardForm(c) ==
    DOMAIN c = {"asset", "moment", "bars", "open", "inputs", "explained", "dimensions"}

\* The types, and that no time is later than the clock.
Shapes ==
    /\ clock \in Time /\ broken \subseteq 1..clock
    /\ ingest \in [Ingester -> Run] /\ \A i \in Ingester : ingest[i].began <= clock
    /\ table \in SUBSET Version /\ \A r \in table : r.observed <= clock /\ r.recorded <= clock
    /\ snapshots \in SUBSET Directory /\ \A s \in snapshots : s.stamp <= clock
    /\ export \in [Exporter -> Nat]
    /\ PassForm(pass) /\ pass.moment <= clock
    /\ \A c \in cards : CardForm(c)

\* A run has a result for each asset it is done with, and the table rows of the run
\* for just those it found prices of; what it holds in hand is of one asset.
RunStands(r, requested, rows, moment) ==
    /\ r.step = "idle" => r = Idle
    /\ r.step # "idle" =>
          /\ r.began # 0
          /\ r.left \cup {p.asset : p \in r.results} = {a \in requested : Priceable(a)}
    /\ \A p \in r.results : p.asset \notin r.left
    /\ \A p \in r.results : \A q \in r.results : p.asset = q.asset => p = q
    /\ r.step = "done" => r.left = {}
    /\ r.bars # {} <=> r.step = "store"
    /\ \A b \in r.bars : b.asset \in r.left /\ b.day <= moment
    /\ \A b \in r.bars : \A c \in r.bars : b.asset = c.asset /\ (b.day = c.day => b = c)
    /\ \A p \in r.results : p.ok => \E q \in rows : q.recorded = r.began /\ q.asset = p.asset
    /\ \A q \in rows : q.recorded = r.began => [asset |-> q.asset, ok |-> TRUE] \in r.results
RunsStand == \A i \in Ingester : RunStands(ingest[i], Requested[i], table, clock)

\* Runs begin at times of their own, and a row is dated by the run it is of: no two
\* rows are the same version of the same day.
BegansDiffer ==
    \A i, j \in Ingester : ingest[i].began = ingest[j].began /\ ingest[i].began # 0 => i = j
RowsAreOfRuns == \A r \in table : \E i \in Ingester : ingest[i].began = r.recorded /\ ingest[i].step # "idle"
VersionsDiffer ==
    \A q, r \in table : q.asset = r.asset /\ q.observed = r.observed /\ q.recorded = r.recorded => q = r

\* What a run that is still open may write is excused by the open runs a reader
\* noted, or it is dated after the reader's moment.
Excused(open, moment) ==
    \A i \in Ingester : Open(i) => ingest[i].began \in open \/ ingest[i].began > moment

\* A written snapshot is what the table was, but for rows that are excused; an
\* unwritten one is being written, or its export was broken off.
SnapshotsStand ==
    /\ \A s, t \in snapshots : s.stamp = t.stamp => s = t
    /\ \A s \in snapshots :
          /\ s.written =>
                /\ s.rows \subseteq table
                /\ \A r \in table \ s.rows : r.recorded \in s.open \/ r.recorded > s.stamp
                /\ Excused(s.open, s.stamp)
          /\ ~s.written => s.rows = {} /\ ((\E x \in Exporter : export[x] = s.stamp) \/ s.stamp \in broken)
ExportsStand ==
    /\ \A x \in Exporter : export[x] # 0 => \E s \in snapshots : s.stamp = export[x] /\ ~s.written
    /\ \A x, y \in Exporter : export[x] = export[y] /\ export[x] # 0 => x = y

\* Where a pass stands, and that the histories it has read are still those of its
\* moment unless a run begun by then was open.
AllLater(open, moment) == \A began \in open : began > moment
PassStands ==
    /\ pass.step = "idle" => pass = NoPass
    /\ pass.step = "read" => pass.next \in 1..Len(Exposed) /\ Len(pass.histories) = pass.next - 1
    /\ pass.step \in {"score", "annotate"} =>
          pass.next \in 1..Len(Exposed) /\ Len(pass.histories) = Len(Exposed)
    /\ pass.card # {} => pass.step \in {"annotate", "stopped"}
    /\ pass.step = "annotate" => pass.card # {}
    /\ pass.card \subseteq cards /\ \A c, d \in pass.card : c = d
    /\ pass.histories # <<>> => Excused(pass.open, pass.moment)
    /\ AllLater(pass.open, pass.moment) =>
          \A n \in DOMAIN pass.histories : pass.histories[n] = History(table, Exposed[n], pass.moment)

ScoreFits(c) ==
    \A input \in c.inputs :
        input[1] = "score" => input[2] = TechnicalConfirmation(MetricsOf(Prices(c.bars)), MomentumWindow)
ProducersFit(c) ==
    /\ c.dimensions # {}
    /\ \A d \in c.dimensions : d.producer = "computed" <=> d.axis = Technical
    /\ {d.axis : d \in {e \in c.dimensions : e.producer = "agent"}} \in {{}, Judged}
    /\ \A d \in c.dimensions : \A e \in c.dimensions : d.axis = e.axis => d = e
CardsStand ==
    \A c \in cards :
        /\ c.moment = pass.moment /\ pass.step # "idle"
        /\ AllLater(c.open, c.moment) => c.bars = History(table, c.asset, c.moment)
        /\ Excused(c.open, c.moment)
        /\ ScoreFits(c) /\ ProducersFit(c)
        /\ c.explained \/ (c \in pass.card /\ pass.step \in {"annotate", "stopped"})

RunInv == RunsStand /\ BegansDiffer /\ RowsAreOfRuns /\ VersionsDiffer
MarketInv == Shapes /\ RunInv /\ SnapshotsStand /\ ExportsStand /\ PassStands /\ CardsStand

-----------------------------------------------------------------------------
(* Lemmas about the operators of Market.                                    *)

LEMMA AssetFacts ==
    ASSUME NEW a \in Asset, NEW d \in Time, NEW n \in Time
    PROVE  Close[a][d] \in Nat /\ AdjustedClose(a, d, n) \in Nat
  <1>1. Close[a][d] \in Nat
    BY MarketAssumption
  <1> QED
    BY <1>1 DEF AdjustedClose

\* The vendor's bars are of the asset asked for, one for a day, none of a later day.
LEMMA BarFacts ==
    ASSUME NEW a \in Asset, NEW from \in Int, NEW n \in Time
    PROVE  /\ VendorBars(a, from, n) \in SUBSET [asset : Asset, day : Time, close : Nat, adj : Nat]
           /\ \A b \in VendorBars(a, from, n) : b.asset = a /\ b.day <= n
           /\ \A b, c \in VendorBars(a, from, n) : b.day = c.day => b = c
  <1> DEFINE Bar(d) == [asset |-> a, day |-> d, close |-> Close[a][d], adj |-> AdjustedClose(a, d, n)]
             Days == {e \in Time : e >= from /\ e <= n /\ Close[a][e] # NoPrice}
  <1>1. VendorBars(a, from, n) = {Bar(d) : d \in Days}
    BY DEF VendorBars
  <1>2. \A d \in Days : d \in Time /\ d <= n /\ Bar(d) \in [asset : Asset, day : Time, close : Nat, adj : Nat]
    BY AssetFacts
  <1>3. \A d \in Days : Bar(d).asset = a /\ Bar(d).day = d
    OBVIOUS
  <1> HIDE DEF Bar, Days
  <1> QED
    BY <1>1, <1>2, <1>3

LEMMA ReportedFacts ==
    ASSUME NEW r \in Run, NEW a \in Asset, NEW ok \in BOOLEAN
    PROVE  /\ Reported(r, a, ok) \in Run
           /\ Reported(r, a, ok).step = "fetch" /\ Reported(r, a, ok).began = r.began
           /\ Reported(r, a, ok).left = r.left \ {a} /\ Reported(r, a, ok).bars = {}
           /\ Reported(r, a, ok).results = r.results \cup {[asset |-> a, ok |-> ok]}
  <1> DEFINE x == [asset |-> a, ok |-> ok]
  <1>1. x \in [asset : Asset, ok : BOOLEAN] /\ "fetch" \in IngestSteps
    BY DEF IngestSteps
  <1> HIDE DEF x
  <1>2. PICK s : s = [r EXCEPT !.step = "fetch", !.left = @ \ {a}, !.bars = {}, !.results = @ \cup {x}]
    OBVIOUS
  <1>3. /\ s \in Run /\ s.step = "fetch" /\ s.began = r.began /\ s.left = r.left \ {a} /\ s.bars = {}
        /\ s.results = r.results \cup {x}
    BY <1>1, <1>2 DEF Run
  <1>4. s = Reported(r, a, ok)
    BY <1>2 DEF Reported, x
  <1> QED
    BY <1>3, <1>4 DEF x


\* A history is of the types a pass keeps.
LEMMA HistoryFits ==
    ASSUME NEW rows \in SUBSET Version, NEW a, NEW moment
    PROVE  History(rows, a, moment) \in SUBSET [day : Time, close : Nat, adj : Nat]
  BY DEF History, Known, Version

\* Rows that are learned after a moment do not change what was known at it.
LEMMA KnownStays ==
    ASSUME NEW rows \in SUBSET Version, NEW more \in SUBSET Version, rows \subseteq more, NEW moment \in Nat,
           \A r \in more \ rows : r.recorded > moment
    PROVE  /\ Known(more, moment) = Known(rows, moment)
           /\ \A a : History(more, a, moment) = History(rows, a, moment)
           /\ AsKnownAt(more, moment) = AsKnownAt(rows, moment)
  <1>1. \A r \in more : r.recorded \in Nat
    BY DEF Version, Time
  <1>2. Known(more, moment) = Known(rows, moment)
    BY <1>1 DEF Known
  <1> QED
    BY <1>2 DEF History, AsKnownAt

-----------------------------------------------------------------------------
(* What a step of a run does: the run goes on as r2, at its time, or begins   *)
(* at the clock; and what it adds to the table is dated by it.                *)

Goes(i, r2) ==
    /\ ingest' = [ingest EXCEPT ![i] = r2] /\ r2 \in Run
    /\ clock' = clock /\ UNCHANGED <<snapshots, export, pass, cards>>
    /\ broken' = broken
    /\ table \subseteq table' /\ table' \in SUBSET Version
    /\ \A r \in table' : r.observed <= clock /\ r.recorded <= clock
    /\ \A r \in table' \ table : r.recorded = r2.began /\ ingest[i].step = "store"
    /\ r2.step # "idle"
    /\ \/ r2.began = ingest[i].began /\ (r2.step \in {"fetch", "store"} => Open(i))
       \/ r2.began = clock /\ clock \notin ReadingsOfTheClock /\ ingest[i].step = "idle"
    /\ RunStands(r2, Requested[i], table', clock)
    /\ VersionsDiffer'

LEMMA ShapeFacts ==
    ASSUME Shapes
    PROVE  /\ clock \in Nat /\ clock \in Time /\ MaxClock \in Nat
           /\ \A i \in Ingester : ingest[i] \in Run /\ ingest[i].began \in 0..clock
           /\ \A r \in table : r \in Version /\ r.recorded \in 1..clock /\ r.observed \in 1..clock
  BY MarketAssumption DEF Shapes, Run, Version, Time

\* Not covered or refused: the asset has its result.
LEMMA FetchFailsStep ==
    ASSUME Shapes, RunInv, NEW i \in Ingester, NEW a \in ingest[i].left, ingest[i].step = "fetch",
           IngestStep(i, Reported(ingest[i], a, FALSE)), UNCHANGED table
    PROVE  Goes(i, Reported(ingest[i], a, FALSE))
  <1> DEFINE r == ingest[i]
             s == Reported(r, a, FALSE)
  <1>1. r \in Run /\ a \in Asset
    BY ShapeFacts DEF Run
  <1>2. /\ s \in Run /\ s.step = "fetch" /\ s.began = r.began /\ s.left = r.left \ {a} /\ s.bars = {}
        /\ s.results = r.results \cup {[asset |-> a, ok |-> FALSE]}
    <2> HIDE DEF r
    <2> QED
      BY <1>1, ReportedFacts
  <1>3. RunStands(r, Requested[i], table, clock)
    BY DEF RunInv, RunsStand
  <1> HIDE DEF s
  <1>4. RunStands(s, Requested[i], table, clock)
    <2> DEFINE x == [asset |-> a, ok |-> FALSE]
    <2>x. x.asset = a
      OBVIOUS
    <2> HIDE DEF x
    <2>y. s.results = r.results \cup {x}
      BY <1>2 DEF x
    <2>1. s.began # 0 /\ s.left \cup {p.asset : p \in s.results} = {b \in Requested[i] : Priceable(b)}
      <3>1. {p.asset : p \in s.results} = {p.asset : p \in r.results} \cup {a}
        BY <2>x, <2>y
      <3>2. r.left \cup {p.asset : p \in r.results} = {b \in Requested[i] : Priceable(b)} /\ r.began # 0
        BY <1>3 DEF RunStands
      <3> QED
        BY <1>2, <3>1, <3>2
    <2>2. \A p \in s.results : p.asset \notin s.left
      BY <1>2, <1>3 DEF RunStands
    <2>3. \A p \in s.results : \A q \in s.results : p.asset = q.asset => p = q
      <3>1. \A p \in r.results : p.asset # a
        BY <1>3 DEF RunStands
      <3>2. \A p \in r.results : \A q \in r.results : p.asset = q.asset => p = q
        BY <1>3 DEF RunStands
      <3> QED
        BY <2>x, <2>y, <3>1, <3>2, Zenon
    <2>4. \A p \in s.results : p.ok => \E q \in table : q.recorded = s.began /\ q.asset = p.asset
      BY <1>2, <1>3 DEF RunStands
    <2>5. \A q \in table : q.recorded = s.began => [asset |-> q.asset, ok |-> TRUE] \in s.results
      BY <1>2, <1>3 DEF RunStands
    <2> QED
      BY <1>2, <2>1, <2>2, <2>3, <2>4, <2>5 DEF RunStands
  <1>5. VersionsDiffer'
    BY DEF RunInv, VersionsDiffer
  <1>6. /\ ingest' = [ingest EXCEPT ![i] = s] /\ clock' = clock /\ UNCHANGED <<snapshots, export, pass, cards>>
        /\ broken' = broken /\ table' = table
    BY DEF IngestStep, s
  <1>7. /\ table \subseteq table' /\ table' \in SUBSET Version /\ broken' = broken
        /\ \A q \in table' : q.observed <= clock /\ q.recorded <= clock
    BY <1>6, MarketAssumption DEF Shapes
  <1>8. table' \ table = {} /\ s.step # "idle" /\ Open(i)
    BY <1>2, <1>6 DEF Open
  <1> QED
    BY <1>2, <1>4, <1>5, <1>6, <1>7, <1>8 DEF Goes, s

\* A run that keeps its results and its table.
LEMMA KeepsResults ==
    ASSUME Shapes, RunInv, NEW i \in Ingester, NEW s \in Run, UNCHANGED table,
           ingest[i].step # "idle", s.step # "idle", s.began = ingest[i].began,
           s.left = ingest[i].left, s.results = ingest[i].results,
           s.bars # {} <=> s.step = "store", s.step = "done" => s.left = {},
           \A b \in s.bars : b.asset \in s.left /\ b.day <= clock,
           \A b \in s.bars : \A c \in s.bars : b.asset = c.asset /\ (b.day = c.day => b = c)
    PROVE  RunStands(s, Requested[i], table', clock) /\ VersionsDiffer'
  <1>1. RunStands(ingest[i], Requested[i], table, clock)
    BY DEF RunInv, RunsStand
  <1>2. VersionsDiffer'
    BY DEF RunInv, VersionsDiffer
  <1>3. RunStands(s, Requested[i], table', clock)
    BY <1>1 DEF RunStands
  <1> QED
    BY <1>2, <1>3

LEMMA GoesOn ==
    ASSUME Shapes, RunInv, NEW i \in Ingester, NEW s \in Run, UNCHANGED table,
           ingest' = [ingest EXCEPT ![i] = s], UNCHANGED <<clock, snapshots, export, pass, cards>>,
           broken' = broken,
           s.step # "idle", s.began = ingest[i].began, s.step \in {"fetch", "store"} => Open(i),
           RunStands(s, Requested[i], table', clock), VersionsDiffer'
    PROVE  Goes(i, s)
  <1>1. /\ table \subseteq table' /\ table' \in SUBSET Version /\ table' \ table = {}
        /\ \A q \in table' : q.observed <= clock /\ q.recorded <= clock
    BY DEF Shapes
  <1> QED
    BY <1>1 DEF Goes

LEMMA StoresStep ==
    ASSUME Shapes, RunInv, NEW i \in Ingester, NEW a \in ingest[i].left, ingest[i].step = "fetch",
           NEW bars, bars = VendorBars(a, ingest[i].began - Backfill, clock), bars # {},
           IngestStep(i, [ingest[i] EXCEPT !.step = "store", !.bars = bars]), UNCHANGED table
    PROVE  Goes(i, [ingest[i] EXCEPT !.step = "store", !.bars = bars])
  <1>1. ingest[i] \in Run /\ a \in Asset /\ ingest[i].began - Backfill \in Int /\ clock \in Time
    BY ShapeFacts, MarketAssumption DEF Run
  <1>2. /\ bars \in SUBSET [asset : Asset, day : Time, close : Nat, adj : Nat]
        /\ \A b \in bars : b.asset = a /\ b.day <= clock
        /\ \A b, c \in bars : b.day = c.day => b = c
    BY <1>1, BarFacts
  <1>3. PICK s : s = [ingest[i] EXCEPT !.step = "store", !.bars = bars]
    OBVIOUS
  <1>4. "store" \in IngestSteps
    BY DEF IngestSteps
  <1>5. /\ s \in Run /\ s.step = "store" /\ s.began = ingest[i].began /\ s.left = ingest[i].left
        /\ s.bars = bars /\ s.results = ingest[i].results
    BY <1>1, <1>2, <1>3, <1>4 DEF Run
  <1>6. RunStands(s, Requested[i], table', clock) /\ VersionsDiffer'
    BY <1>2, <1>5, KeepsResults
  <1>7. /\ ingest' = [ingest EXCEPT ![i] = s] /\ UNCHANGED <<clock, snapshots, export, pass, cards>>
        /\ broken' = broken /\ Open(i)
    BY <1>3, MarketAssumption DEF IngestStep, Shapes, Open
  <1> QED
    BY <1>3, <1>5, <1>6, <1>7, GoesOn

\* The run ends: it is done, or stops with what it had in hand.
LEMMA EndsStep ==
    ASSUME Shapes, RunInv, NEW i \in Ingester, NEW s, UNCHANGED table, Open(i),
           \/ s = [ingest[i] EXCEPT !.step = "done"] /\ ingest[i].step = "fetch" /\ ingest[i].left = {}
           \/ s = [ingest[i] EXCEPT !.step = "stopped", !.bars = {}],
           ingest' = [ingest EXCEPT ![i] = s], UNCHANGED <<clock, snapshots, export, pass, cards>>,
           broken' = broken
    PROVE  Goes(i, s) /\ ~Open(i)'
  <1>1. ingest[i] \in Run /\ RunStands(ingest[i], Requested[i], table, clock)
    BY ShapeFacts DEF RunInv, RunsStand
  <1>2. ingest[i].step = "fetch" => ingest[i].bars = {}
    BY <1>1 DEF RunStands
  <1>3. "done" \in IngestSteps /\ "stopped" \in IngestSteps
    BY DEF IngestSteps
  <1>4. /\ s \in Run /\ s.step \in {"done", "stopped"} /\ s.began = ingest[i].began /\ s.left = ingest[i].left
        /\ s.bars = {} /\ s.results = ingest[i].results
    BY <1>1, <1>2, <1>3 DEF Run
  <1>5. RunStands(s, Requested[i], table', clock) /\ VersionsDiffer'
    <2>1. s.step = "done" => s.left = {}
      BY <1>1, <1>4 DEF Run
    <2> QED
      BY <1>4, <2>1, KeepsResults DEF Open
  <1>6. Goes(i, s)
    BY <1>4, <1>5, GoesOn
  <1>7. ingest'[i] = s
    BY DEF Shapes
  <1> QED
    BY <1>4, <1>6, <1>7 DEF Open

LEMMA BeginIngestStep ==
    ASSUME Shapes, RunInv, NEW i \in Ingester, BeginIngest(i)
    PROVE  \E s \in Run : Goes(i, s)
  <1> DEFINE todo == {a \in Requested[i] : Priceable(a)}
  <1>1. PICK s : s = [ingest[i] EXCEPT !.step = "fetch", !.began = clock, !.left = todo]
    OBVIOUS
  <1>2. RunStands(ingest[i], Requested[i], table, clock) /\ ingest[i].step = "idle" /\ ingest[i] = Idle
    BY DEF RunInv, RunsStand, RunStands, BeginIngest
  <1>3. ingest[i] \in Run /\ "fetch" \in IngestSteps /\ clock \in Nat \ {0} /\ todo \in SUBSET Asset
    BY ShapeFacts, MarketAssumption DEF IngestSteps, Time
  <1>4. ingest[i].bars = {} /\ ingest[i].results = {}
    BY <1>2 DEF Idle
  <1> HIDE DEF todo
  <1>5. /\ s \in Run /\ s.step = "fetch" /\ s.began = clock /\ s.left = todo
        /\ s.bars = {} /\ s.results = {}
    BY <1>1, <1>3, <1>4 DEF Run
  <1>6. clock \notin ReadingsOfTheClock /\ UNCHANGED table /\ ingest' = [ingest EXCEPT ![i] = s]
        /\ UNCHANGED <<clock, snapshots, export, pass, cards>> /\ broken' = broken
    BY <1>1 DEF BeginIngest, IngestStep, todo
  <1>7. \A q \in table : q.recorded # clock
    BY <1>6 DEF ReadingsOfTheClock, RunInv, RowsAreOfRuns
  <1>8. RunStands(s, Requested[i], table', clock)
    <2>1. s.left \cup {p.asset : p \in s.results} = todo
      BY <1>5
    <2> QED
      BY <1>3, <1>5, <1>6, <1>7, <2>1 DEF RunStands, todo
  <1>9. /\ table \subseteq table' /\ table' \in SUBSET Version /\ table' \ table = {} /\ VersionsDiffer'
        /\ \A q \in table' : q.observed <= clock /\ q.recorded <= clock
        /\ broken' = broken
    BY <1>6, MarketAssumption DEF Shapes, RunInv, VersionsDiffer
  <1>10. Goes(i, s)
    BY <1>2, <1>5, <1>6, <1>8, <1>9 DEF Goes
  <1> QED
    BY <1>5, <1>10

LEMMA StoreStep ==
    ASSUME Shapes, RunInv, NEW i \in Ingester, Store(i)
    PROVE  \E s \in Run : Goes(i, s)
  <1> DEFINE r == ingest[i]
             RowOf(b) == [asset |-> b.asset, observed |-> b.day, recorded |-> r.began,
                          close |-> b.close, adj |-> b.adj]
             N == {RowOf(b) : b \in r.bars}
  <1>1. PICK bar \in r.bars : IngestStep(i, Reported(r, bar.asset, TRUE))
    BY DEF Store
  <1>2. r \in Run /\ RunStands(r, Requested[i], table, clock) /\ r.step = "store"
    BY ShapeFacts DEF RunInv, RunsStand, Store
  <1>3. r.began \in Time /\ r.began <= clock /\ r.began # 0
    <2>1. r.began \in 0..clock /\ clock \in 1..MaxClock /\ MaxClock \in Nat
      BY ShapeFacts DEF Time
    <2>2. r.began # 0
      BY <1>2 DEF RunStands
    <2> QED
      BY <2>1, <2>2 DEF Time
  <1> DEFINE a == bar.asset
             s == Reported(r, a, TRUE)
  <1>4. a \in Asset /\ a \in r.left
    BY <1>2 DEF Run, RunStands
  <1>5. /\ s \in Run /\ s.step = "fetch" /\ s.began = r.began /\ s.left = r.left \ {a} /\ s.bars = {}
        /\ s.results = r.results \cup {[asset |-> a, ok |-> TRUE]}
    <2>1. r \in Run /\ a \in Asset /\ TRUE \in BOOLEAN
      BY <1>2, <1>4
    <2> HIDE DEF r, a
    <2> QED
      BY <2>1, ReportedFacts
  <1>6. /\ ingest' = [ingest EXCEPT ![i] = s] /\ UNCHANGED <<clock, snapshots, export, pass, cards>>
        /\ broken' = broken /\ table' = table \cup N
    BY <1>1 DEF Store, IngestStep
  <1>7. ASSUME NEW b \in r.bars
        PROVE  /\ RowOf(b) \in Version /\ b.asset = a /\ RowOf(b).asset = a /\ RowOf(b).observed = b.day
               /\ RowOf(b).recorded = r.began /\ b.day <= clock
    <2>1. b.asset \in Asset /\ b.day \in Time /\ b.close \in Nat /\ b.adj \in Nat
      BY <1>2 DEF Run
    <2>2. b.asset = a /\ b.day <= clock
      BY <1>2 DEF RunStands
    <2> QED
      BY <1>3, <2>1, <2>2 DEF Version
  <1> HIDE DEF s, RowOf
  <1>8. \A q \in N : /\ q \in Version /\ q.asset = a /\ q.recorded = r.began
                     /\ q.observed <= clock
                     /\ \E b \in r.bars : q = RowOf(b) /\ q.observed = b.day
    BY <1>7
  <1>9. \A q \in table : ~(q.recorded = r.began /\ q.asset = a)
    BY <1>2, <1>4 DEF RunStands
  <1>10. VersionsDiffer'
    <2>1. \A p, q \in N : p.observed = q.observed => p = q
      <3>1. \A b, c \in r.bars : b.day = c.day => b = c
        BY <1>2 DEF RunStands
      <3> QED
        BY <1>8, <3>1
    <2>2. \A p, q \in table :
              p.asset = q.asset /\ p.observed = q.observed /\ p.recorded = q.recorded => p = q
      BY DEF RunInv, VersionsDiffer
    <2> HIDE DEF N
    <2>3. \A p \in table : \A q \in N : ~(p.asset = q.asset /\ p.recorded = q.recorded)
      BY <1>8, <1>9
    <2>4. ASSUME NEW p \in table', NEW q \in table',
                 p.asset = q.asset, p.observed = q.observed, p.recorded = q.recorded
          PROVE  p = q
      BY <1>6, <2>1, <2>2, <2>3, <2>4
    <2> QED
      BY <2>4 DEF VersionsDiffer
  <1>11. RunStands(s, Requested[i], table', clock)
    <2> DEFINE x == [asset |-> a, ok |-> TRUE]
    <2>0. x.asset = a /\ s.results = r.results \cup {x}
      BY <1>5
    <2>1. s.left \cup {p.asset : p \in s.results} = {b \in Requested[i] : Priceable(b)}
      <3> HIDE DEF x
      <3>1. {p.asset : p \in s.results} = {p.asset : p \in r.results} \cup {a}
        BY <2>0
      <3>2. r.left \cup {p.asset : p \in r.results} = {b \in Requested[i] : Priceable(b)}
        BY <1>2 DEF RunStands
      <3> QED
        BY <1>4, <1>5, <3>1, <3>2
    <2>2. \A p \in r.results : p.asset \notin r.left
      BY <1>2 DEF RunStands
    <2>3. \A p \in s.results : p.asset \notin s.left
      <3> HIDE DEF x
      <3> QED
        BY <1>5, <2>0, <2>2
    <2>4. \A p \in s.results : \A q \in s.results : p.asset = q.asset => p = q
      <3>1. \A p \in r.results : \A q \in r.results : p.asset = q.asset => p = q
        BY <1>2 DEF RunStands
      <3> HIDE DEF x
      <3> QED
        BY <1>4, <2>0, <2>2, <3>1
    <2>5. \A p \in s.results : p.ok => \E q \in table' : q.recorded = s.began /\ q.asset = p.asset
      <3>1. \A p \in r.results : p.ok => \E q \in table : q.recorded = r.began /\ q.asset = p.asset
        BY <1>2 DEF RunStands
      <3>2. RowOf(bar) \in table' /\ RowOf(bar).recorded = r.began /\ RowOf(bar).asset = a
        BY <1>6, <1>7
      <3> HIDE DEF x
      <3> QED
        BY <1>5, <1>6, <2>0, <3>1, <3>2
    <2>6. \A q \in table' : q.recorded = s.began => [asset |-> q.asset, ok |-> TRUE] \in s.results
      <3>1. \A q \in table : q.recorded = r.began => [asset |-> q.asset, ok |-> TRUE] \in r.results
        BY <1>2 DEF RunStands
      <3> HIDE DEF N
      <3> QED
        BY <1>5, <1>6, <1>8, <2>0, <3>1
    <2> QED
      BY <1>3, <1>5, <2>1, <2>3, <2>4, <2>5, <2>6 DEF RunStands
  <1> HIDE DEF N
  <1>12. /\ table \subseteq table' /\ table' \in SUBSET Version
         /\ \A q \in table' : q.observed <= clock /\ q.recorded <= clock
    BY <1>3, <1>6, <1>8 DEF Shapes
  <1>13. \A q \in table' \ table : q.recorded = s.began
    BY <1>5, <1>6, <1>8
  <1>14. broken' = broken
    BY <1>6, MarketAssumption DEF Shapes
  <1>15. Goes(i, s)
    BY <1>2, <1>5, <1>6, <1>10, <1>11, <1>12, <1>13, <1>14 DEF Goes, Open
  <1> QED
    BY <1>5, <1>15

\* Every step of a run is of the kind described.
LEMMA IngestGoes ==
    ASSUME Shapes, RunInv, NEW i \in Ingester,
           \/ BeginIngest(i) \/ Fetch(i) \/ FetchFails(i) \/ Store(i)
           \/ FinishIngest(i) \/ IngestStops(i)
    PROVE  \E s \in Run : Goes(i, s)
  <1>1. CASE BeginIngest(i)
    BY <1>1, BeginIngestStep
  <1>2. CASE Fetch(i)
    <2>1. PICK a \in ingest[i].left :
              LET bars == VendorBars(a, ingest[i].began - Backfill, clock)
              IN IngestStep(i, IF bars = {} THEN Reported(ingest[i], a, FALSE)
                               ELSE [ingest[i] EXCEPT !.step = "store", !.bars = bars])
      BY <1>2 DEF Fetch
    <2>2. PICK bars : bars = VendorBars(a, ingest[i].began - Backfill, clock)
      OBVIOUS
    <2>3. ingest[i].step = "fetch" /\ UNCHANGED table
      BY <1>2 DEF Fetch
    <2>4. CASE bars = {}
      <3>1. IngestStep(i, Reported(ingest[i], a, FALSE))
        BY <2>1, <2>2, <2>4
      <3>2. Goes(i, Reported(ingest[i], a, FALSE))
        BY <2>3, <3>1, FetchFailsStep
      <3> QED
        BY <3>2 DEF Goes
    <2>5. CASE bars # {}
      <3>1. IngestStep(i, [ingest[i] EXCEPT !.step = "store", !.bars = bars])
        BY <2>1, <2>2, <2>5
      <3>2. Goes(i, [ingest[i] EXCEPT !.step = "store", !.bars = bars])
        BY <2>2, <2>3, <2>5, <3>1, StoresStep
      <3> QED
        BY <3>2 DEF Goes
    <2> QED
      BY <2>4, <2>5
  <1>3. CASE FetchFails(i)
    <2>1. PICK a \in ingest[i].left : IngestStep(i, Reported(ingest[i], a, FALSE))
      BY <1>3 DEF FetchFails
    <2>2. Goes(i, Reported(ingest[i], a, FALSE))
      BY <1>3, <2>1, FetchFailsStep DEF FetchFails
    <2> QED
      BY <2>2 DEF Goes
  <1>4. CASE Store(i)
    BY <1>4, StoreStep
  <1>5. CASE FinishIngest(i)
    <2>1. PICK s : s = [ingest[i] EXCEPT !.step = "done"]
      OBVIOUS
    <2>2. /\ ingest' = [ingest EXCEPT ![i] = s] /\ UNCHANGED <<clock, snapshots, export, pass, cards>>
          /\ UNCHANGED table /\ Open(i)
      BY <1>5, <2>1 DEF FinishIngest, IngestStep, Open
    <2>3. broken' = broken
      BY <1>5, MarketAssumption DEF FinishIngest, IngestStep, Shapes
    <2>4. Goes(i, s)
      BY <1>5, <2>1, <2>2, <2>3, EndsStep DEF FinishIngest
    <2> QED
      BY <2>4 DEF Goes
  <1>6. CASE IngestStops(i)
    <2>1. PICK s : s = [ingest[i] EXCEPT !.step = "stopped", !.bars = {}]
      OBVIOUS
    <2>2. /\ ingest' = [ingest EXCEPT ![i] = s] /\ UNCHANGED <<clock, snapshots, export, pass, cards>>
          /\ UNCHANGED table /\ Open(i)
      BY <1>6, <2>1 DEF IngestStops, IngestStep
    <2>3. broken' = broken
      BY <1>6, MarketAssumption DEF IngestStops, IngestStep, Shapes
    <2>4. Goes(i, s)
      BY <1>6, <2>1, <2>2, <2>3, EndsStep DEF IngestStops
    <2> QED
      BY <2>4 DEF Goes
  <1> QED
    BY <1>1, <1>2, <1>3, <1>4, <1>5, <1>6

LEMMA GoesShapes ==
    ASSUME Shapes, NEW i \in Ingester, NEW s \in Run, Goes(i, s)
    PROVE  Shapes'
  <1>1. ingest' \in [Ingester -> Run] /\ \A j \in Ingester : ingest'[j].began <= clock
    BY ShapeFacts DEF Goes, Shapes
  <1>2. /\ clock' = clock /\ UNCHANGED <<snapshots, export, pass, cards>> /\ broken' = broken
        /\ table' \in SUBSET Version /\ \A r \in table' : r.observed <= clock /\ r.recorded <= clock
    BY MarketAssumption DEF Goes, Shapes
  <1> QED
    BY <1>1, <1>2 DEF Shapes

LEMMA GoesRunInv ==
    ASSUME Shapes, RunInv, NEW i \in Ingester, NEW s \in Run, Goes(i, s)
    PROVE  RunInv'
  <1>1. ingest' \in [Ingester -> Run] /\ ingest'[i] = s /\ \A j \in Ingester \ {i} : ingest'[j] = ingest[j]
    BY DEF Goes, Shapes
  <1>2. ingest[i].step = "idle" => ingest[i].began = 0
    BY DEF RunInv, RunsStand, RunStands, Idle
  <1>3. s.step # "idle" /\ s.began # 0
    BY DEF Goes, RunStands
  <1>4. \A j \in Ingester : ingest[j].began # 0 => ingest'[j].began = ingest[j].began /\ ingest'[j].step # "idle"
    <2>1. \A j \in Ingester : ingest[j].step = "idle" => ingest[j].began = 0
      BY DEF RunInv, RunsStand, RunStands, Idle
    <2> QED
      BY <1>1, <1>2, <1>3, <2>1 DEF Goes
  <1>5. \A j \in Ingester \ {i} : ingest[j].began # s.began \/ ingest[j].began = 0
    BY <1>3 DEF Goes, RunInv, BegansDiffer, ReadingsOfTheClock
  <1>6. BegansDiffer'
    BY <1>1, <1>5 DEF BegansDiffer, RunInv
  <1>7. RowsAreOfRuns'
    <2>1. \A r \in table : \E j \in Ingester : ingest[j].began = r.recorded /\ r.recorded # 0
      BY ShapeFacts DEF RunInv, RowsAreOfRuns
    <2>2. \A r \in table' \ table : r.recorded = s.began
      BY DEF Goes
    <2> QED
      BY <1>1, <1>3, <1>4, <2>1, <2>2 DEF RowsAreOfRuns
  <1>8. ASSUME NEW j \in Ingester PROVE RunStands(ingest'[j], Requested[j], table', clock')
    <2>1. CASE j = i
      BY <1>1, <2>1 DEF Goes
    <2>2. CASE j # i
      <3>1. RunStands(ingest[j], Requested[j], table, clock) /\ ingest'[j] = ingest[j] /\ clock' = clock
        BY <1>1, <2>2 DEF RunInv, RunsStand, Goes
      <3>2. \A q \in table' \ table : q.recorded # ingest[j].began
        BY <1>3, <1>5, <2>2 DEF Goes
      <3>3. table \subseteq table'
        BY DEF Goes
      <3>4. \A p \in ingest[j].results : p.ok => \E q \in table' : q.recorded = ingest[j].began /\ q.asset = p.asset
        BY <3>1, <3>3 DEF RunStands
      <3>5. \A q \in table' : q.recorded = ingest[j].began => [asset |-> q.asset, ok |-> TRUE] \in ingest[j].results
        BY <3>1, <3>2 DEF RunStands
      <3> QED
        BY <3>1, <3>4, <3>5 DEF RunStands
    <2> QED
      BY <2>1, <2>2
  <1> QED
    BY <1>6, <1>7, <1>8 DEF RunInv, RunsStand, Goes

\* What readers need to know of a step of a run.
LEMMA GoesFacts ==
    ASSUME Shapes, RunInv, NEW i \in Ingester, NEW s \in Run, Goes(i, s)
    PROVE  /\ table \subseteq table' /\ table' \in SUBSET Version
           /\ UNCHANGED <<clock, snapshots, export, pass, cards>> /\ broken' = broken
           /\ \A r \in table' \ table : \E j \in Ingester : Open(j) /\ r.recorded = ingest[j].began
           /\ \A j \in Ingester : Open(j)' =>
                 \/ Open(j) /\ ingest'[j].began = ingest[j].began
                 \/ ingest'[j].began = clock /\ clock \notin ReadingsOfTheClock
  <1>1. ingest'[i] = s /\ \A j \in Ingester \ {i} : ingest'[j] = ingest[j]
    BY DEF Goes, Shapes
  <1>2. \A r \in table' \ table : Open(i) /\ r.recorded = ingest[i].began
    BY DEF Goes, Open
  <1>3. \A j \in Ingester : Open(j)' =>
                 \/ Open(j) /\ ingest'[j].began = ingest[j].began
                 \/ ingest'[j].began = clock /\ clock \notin ReadingsOfTheClock
    BY <1>1 DEF Goes, Open
  <1> QED
    BY <1>2, <1>3 DEF Goes

-----------------------------------------------------------------------------
(* What the readers rely on stays true while runs go on.                      *)

\* What is excused stays excused: what begins, begins later than any moment read.
LEMMA ExcusedStays ==
    ASSUME Shapes, RunInv, NEW i \in Ingester, NEW s \in Run, Goes(i, s),
           NEW open, NEW moment \in Nat, moment <= clock, moment \in ReadingsOfTheClock,
           Excused(open, moment)
    PROVE  /\ Excused(open, moment)'
           /\ \A r \in table' \ table : r.recorded \in open \/ r.recorded > moment
  <1>1. clock \notin ReadingsOfTheClock => clock > moment
    BY ShapeFacts
  <1>2. ASSUME NEW j \in Ingester, Open(j)'
        PROVE  ingest'[j].began \in open \/ ingest'[j].began > moment
    BY <1>1, <1>2, GoesFacts DEF Excused
  <1>3. ASSUME NEW r \in table' \ table
        PROVE  r.recorded \in open \/ r.recorded > moment
    BY <1>3, GoesFacts DEF Excused
  <1> QED
    BY <1>2, <1>3 DEF Excused

\* A history of a moment is not changed by a run that begins or goes on, unless it
\* was open then.
LEMMA HistoryStays ==
    ASSUME Shapes, RunInv, NEW i \in Ingester, NEW s \in Run, Goes(i, s),
           NEW open, NEW moment \in Nat, moment <= clock, moment \in ReadingsOfTheClock,
           Excused(open, moment), AllLater(open, moment)
    PROVE  \A a : History(table', a, moment) = History(table, a, moment)
  <1>1. \A r \in table' \ table : r.recorded > moment
    BY ExcusedStays DEF AllLater
  <1>2. table \in SUBSET Version /\ table' \in SUBSET Version /\ table \subseteq table'
    BY GoesFacts DEF Shapes
  <1> QED
    BY <1>1, <1>2, KnownStays

LEMMA GoesSnapshots ==
    ASSUME MarketInv, NEW i \in Ingester, NEW s \in Run, Goes(i, s)
    PROVE  SnapshotsStand' /\ ExportsStand'
  <1>1. /\ snapshots' = snapshots /\ export' = export /\ broken' = broken
        /\ table \subseteq table'
    BY GoesFacts, MarketAssumption DEF MarketInv, Shapes
  <1>2. ExportsStand'
    BY <1>1 DEF MarketInv, ExportsStand
  <1>3. ASSUME NEW d \in snapshots, d.written
        PROVE  /\ d.rows \subseteq table'
               /\ \A r \in table' \ d.rows : r.recorded \in d.open \/ r.recorded > d.stamp
               /\ Excused(d.open, d.stamp)'
    <2>1. /\ d.rows \subseteq table
          /\ \A r \in table \ d.rows : r.recorded \in d.open \/ r.recorded > d.stamp
          /\ Excused(d.open, d.stamp)
      BY <1>3 DEF MarketInv, SnapshotsStand
    <2>2. d.stamp \in Nat /\ d.stamp <= clock /\ d.stamp \in ReadingsOfTheClock
      BY DEF MarketInv, Shapes, Directory, Time, ReadingsOfTheClock
    <2>3. /\ Excused(d.open, d.stamp)'
          /\ \A r \in table' \ table : r.recorded \in d.open \/ r.recorded > d.stamp
      BY <2>1, <2>2, ExcusedStays DEF MarketInv
    <2> QED
      BY <1>1, <2>1, <2>3
  <1>4. ASSUME NEW d \in snapshots, ~d.written
        PROVE  d.rows = {} /\ ((\E x \in Exporter : export'[x] = d.stamp) \/ d.stamp \in broken')
    BY <1>1, <1>4 DEF MarketInv, SnapshotsStand
  <1>5. \A d, t \in snapshots' : d.stamp = t.stamp => d = t
    BY <1>1 DEF MarketInv, SnapshotsStand
  <1>6. SnapshotsStand'
    BY <1>1, <1>3, <1>4, <1>5 DEF SnapshotsStand
  <1> QED
    BY <1>2, <1>6

LEMMA GoesPass ==
    ASSUME MarketInv, NEW i \in Ingester, NEW s \in Run, Goes(i, s)
    PROVE  PassStands' /\ CardsStand'
  <1>1. /\ pass' = pass /\ cards' = cards /\ broken' = broken
        /\ Shapes /\ RunInv
    BY GoesFacts, MarketAssumption DEF MarketInv, Shapes
  <1>2. pass.moment \in Nat /\ pass.moment <= clock /\ pass.moment \in ReadingsOfTheClock
    BY DEF MarketInv, Shapes, PassForm, ReadingsOfTheClock
  <1>3. pass.histories # <<>> => Excused(pass.open, pass.moment)'
    BY <1>1, <1>2, ExcusedStays DEF MarketInv, PassStands
  <1>4. ASSUME AllLater(pass.open, pass.moment), NEW n \in DOMAIN pass.histories
        PROVE  pass.histories[n] = History(table', Exposed[n], pass.moment)
    <2>1. pass.histories # <<>>
      BY <1>4
    <2>2. Excused(pass.open, pass.moment)
      BY <2>1 DEF MarketInv, PassStands
    <2>3. History(table', Exposed[n], pass.moment) = History(table, Exposed[n], pass.moment)
      BY <1>1, <1>2, <1>4, <2>2, HistoryStays
    <2> QED
      BY <1>4, <2>3 DEF MarketInv, PassStands
  <1>5. PassStands'
    BY <1>1, <1>3, <1>4 DEF MarketInv, PassStands, AllLater
  <1>6. ASSUME NEW c \in cards
        PROVE  /\ AllLater(c.open, c.moment) => c.bars = History(table', c.asset, c.moment)
               /\ Excused(c.open, c.moment)'
    <2>1. c.moment = pass.moment /\ Excused(c.open, c.moment)
      BY DEF MarketInv, CardsStand
    <2>2. Excused(c.open, c.moment)'
      BY <1>1, <1>2, <2>1, ExcusedStays
    <2>3. AllLater(c.open, c.moment) => History(table', c.asset, c.moment) = History(table, c.asset, c.moment)
      BY <1>1, <1>2, <2>1, HistoryStays
    <2> QED
      BY <2>2, <2>3 DEF MarketInv, CardsStand
  <1>7. \A c \in cards : c.explained \/ (c \in pass.card /\ pass.step \in {"annotate", "stopped"})
    BY <1>1 DEF MarketInv, CardsStand
  <1>8. CardsStand'
    BY <1>1, <1>6, <1>7 DEF MarketInv, CardsStand, AllLater, ScoreFits, ProducersFit
  <1> QED
    BY <1>5, <1>8

-----------------------------------------------------------------------------
(* The steps of the readers.                                                  *)

LEMMA RunsUndisturbed ==
    ASSUME RunInv, UNCHANGED <<ingest, table>>, clock' >= clock, Shapes, clock' \in Nat
    PROVE  RunInv'
  <1>1. ASSUME NEW i \in Ingester PROVE RunStands(ingest[i], Requested[i], table, clock')
    <2>1. RunStands(ingest[i], Requested[i], table, clock)
      BY DEF RunInv, RunsStand
    <2>2. \A b \in ingest[i].bars : b.day \in Nat
      BY ShapeFacts DEF Run, Time
    <2>3. \A b \in ingest[i].bars : b.asset \in ingest[i].left /\ b.day <= clock'
      BY <2>1, <2>2, ShapeFacts DEF RunStands
    <2> QED
      BY <2>1, <2>3 DEF RunStands
  <1> QED
    BY <1>1 DEF RunInv, RunsStand, BegansDiffer, RowsAreOfRuns, VersionsDiffer

LEMMA TickStep ==
    ASSUME MarketInv, Tick
    PROVE  MarketInv'
  <1>1. /\ clock' \in Time /\ clock' \in Nat /\ clock' >= clock /\ Shapes /\ RunInv
        /\ UNCHANGED <<ingest, table, snapshots, export, pass, cards, broken>>
    BY ShapeFacts DEF Tick, MarketInv, Time
  <1>2. Shapes'
    <2>1. \A i \in Ingester : ingest[i].began <= clock'
      BY <1>1, ShapeFacts
    <2>2. \A r \in table : r.observed <= clock' /\ r.recorded <= clock'
      BY <1>1, ShapeFacts
    <2>3. \A s \in snapshots : s.stamp <= clock'
      BY <1>1, ShapeFacts DEF Shapes, Directory, Time
    <2>4. pass.moment <= clock'
      BY <1>1, ShapeFacts DEF Shapes, PassForm
    <2> QED
      BY <1>1, <2>1, <2>2, <2>3, <2>4 DEF Shapes
  <1>3. RunInv'
    BY <1>1, RunsUndisturbed
  <1> QED
    BY <1>1, <1>2, <1>3
    DEF MarketInv, SnapshotsStand, ExportsStand, PassStands, CardsStand, Excused, Open, AllLater,
        ScoreFits, ProducersFit

LEMMA BeginExportStep ==
    ASSUME MarketInv, NEW x \in Exporter, BeginExport(x)
    PROVE  MarketInv'
  <1> DEFINE new == [stamp |-> clock, written |-> FALSE, rows |-> {}, open |-> {}]
  <1>0. Shapes /\ RunInv /\ clock \in Nat /\ clock # 0
    BY ShapeFacts DEF MarketInv, Time
  <1>1. /\ snapshots' = snapshots \cup {new} /\ export' = [export EXCEPT ![x] = clock]
        /\ UNCHANGED <<clock, ingest, table, pass, cards, broken>>
        /\ export[x] = 0 /\ \A s \in snapshots : s.stamp # clock
    BY DEF BeginExport
  <1>2. new \in Directory /\ new.stamp = clock /\ ~new.written /\ new.rows = {}
    BY <1>0, ShapeFacts DEF Directory
  <1> HIDE DEF new
  <1>3. export' \in [Exporter -> Nat] /\ export'[x] = clock /\ \A y \in Exporter \ {x} : export'[y] = export[y]
    BY <1>0, <1>1 DEF Shapes
  <1>4. Shapes'
    BY <1>0, <1>1, <1>2, <1>3 DEF Shapes
  <1>5. RunInv'
    BY <1>0, <1>1, RunsUndisturbed
  <1>6. SnapshotsStand'
    <2>1. \A s, t \in snapshots' : s.stamp = t.stamp => s = t
      BY <1>1, <1>2 DEF MarketInv, SnapshotsStand
    <2>2. ASSUME NEW s \in snapshots', s.written
          PROVE  /\ s \in snapshots /\ s.rows \subseteq table
                 /\ \A r \in table \ s.rows : r.recorded \in s.open \/ r.recorded > s.stamp
                 /\ Excused(s.open, s.stamp)'
      BY <1>1, <1>2, <2>2 DEF MarketInv, SnapshotsStand, Excused, Open
    <2>3. ASSUME NEW s \in snapshots', ~s.written
          PROVE  s.rows = {} /\ ((\E y \in Exporter : export'[y] = s.stamp) \/ s.stamp \in broken')
      <3>1. CASE s = new
        BY <1>2, <1>3, <3>1
      <3>2. CASE s \in snapshots
        <4>1. s.rows = {} /\ ((\E y \in Exporter : export[y] = s.stamp) \/ s.stamp \in broken)
          BY <2>3, <3>2 DEF MarketInv, SnapshotsStand
        <4>2. s.stamp # 0
          BY <3>2, <1>0 DEF Shapes, Directory, Time
        <4> QED
          BY <1>1, <1>3, <4>1, <4>2
      <3> QED
        BY <1>1, <3>1, <3>2
    <2> QED
      BY <1>1, <2>1, <2>2, <2>3 DEF SnapshotsStand
  <1>7. ExportsStand'
    <2>1. \A y \in Exporter : export[y] # clock
      BY <1>0, <1>1 DEF MarketInv, ExportsStand
    <2>2. ASSUME NEW y \in Exporter, export'[y] # 0
          PROVE  \E s \in snapshots' : s.stamp = export'[y] /\ ~s.written
      BY <1>1, <1>2, <1>3, <2>2 DEF MarketInv, ExportsStand
    <2>3. \A y, z \in Exporter : export'[y] = export'[z] /\ export'[y] # 0 => y = z
      BY <1>3, <2>1 DEF MarketInv, ExportsStand
    <2> QED
      BY <2>2, <2>3 DEF ExportsStand
  <1>8. PassStands' /\ CardsStand'
    BY <1>1 DEF MarketInv, PassStands, CardsStand, Excused, Open, AllLater, ScoreFits, ProducersFit
  <1> QED
    BY <1>4, <1>5, <1>6, <1>7, <1>8 DEF MarketInv

LEMMA WriteExportStep ==
    ASSUME MarketInv, NEW x \in Exporter, WriteExport(x)
    PROVE  MarketInv' /\ \A s \in snapshots : s.written => s \in snapshots'
  <1> DEFINE new == [stamp |-> export[x], written |-> TRUE, rows |-> table, open |-> OpenSince]
             others == {s \in snapshots : s.stamp # export[x]}
  <1>0. Shapes /\ RunInv /\ clock \in Nat
    BY ShapeFacts DEF MarketInv
  <1>1. /\ snapshots' = others \cup {new} /\ export' = [export EXCEPT ![x] = 0]
        /\ UNCHANGED <<clock, ingest, table, pass, cards, broken>> /\ export[x] # 0
    BY DEF WriteExport
  <1>2. PICK old \in snapshots : old.stamp = export[x] /\ ~old.written
    BY <1>1 DEF MarketInv, ExportsStand
  <1>3. \A s \in snapshots : s.stamp = export[x] => s = old
    BY <1>2 DEF MarketInv, SnapshotsStand
  <1>4. OpenSince \in SUBSET Nat /\ \A i \in Ingester : Open(i) => ingest[i].began \in OpenSince
    BY <1>0, ShapeFacts DEF OpenSince
  <1>5. new \in Directory /\ new.stamp = export[x] /\ new.written /\ new.rows = table /\ new.open = OpenSince
    BY <1>0, <1>2, <1>4 DEF Directory, Shapes
  <1> HIDE DEF new
  <1>6. export' \in [Exporter -> Nat] /\ export'[x] = 0 /\ \A y \in Exporter \ {x} : export'[y] = export[y]
    BY <1>0, <1>1 DEF Shapes
  <1>7. Shapes'
    BY <1>0, <1>1, <1>2, <1>5, <1>6 DEF Shapes
  <1>8. RunInv'
    BY <1>0, <1>1, RunsUndisturbed
  <1>9. SnapshotsStand'
    <2>1. \A s, t \in snapshots' : s.stamp = t.stamp => s = t
      BY <1>1, <1>5 DEF MarketInv, SnapshotsStand
    <2>2. ASSUME NEW s \in snapshots', s.written
          PROVE  /\ s.rows \subseteq table
                 /\ \A r \in table \ s.rows : r.recorded \in s.open \/ r.recorded > s.stamp
                 /\ Excused(s.open, s.stamp)'
      <3>1. CASE s = new
        BY <1>1, <1>4, <1>5, <3>1 DEF Excused, Open
      <3>2. CASE s \in snapshots
        BY <1>1, <2>2, <3>2 DEF MarketInv, SnapshotsStand, Excused, Open
      <3> QED
        BY <1>1, <3>1, <3>2
    <2>3. ASSUME NEW s \in snapshots', ~s.written
          PROVE  s.rows = {} /\ ((\E y \in Exporter : export'[y] = s.stamp) \/ s.stamp \in broken')
      <3>1. s \in snapshots /\ s.stamp # export[x]
        BY <1>1, <1>5, <2>3
      <3>2. s.rows = {} /\ ((\E y \in Exporter : export[y] = s.stamp) \/ s.stamp \in broken)
        BY <2>3, <3>1 DEF MarketInv, SnapshotsStand
      <3> QED
        BY <1>1, <1>6, <3>1, <3>2
    <2> QED
      BY <1>1, <2>1, <2>2, <2>3 DEF SnapshotsStand
  <1>10. ExportsStand'
    <2>1. ASSUME NEW y \in Exporter, export'[y] # 0
          PROVE  \E s \in snapshots' : s.stamp = export'[y] /\ ~s.written
      <3>1. y # x /\ export'[y] = export[y]
        BY <1>6, <2>1
      <3>2. export[y] # export[x]
        BY <2>1, <3>1 DEF MarketInv, ExportsStand
      <3>3. PICK s \in snapshots : s.stamp = export[y] /\ ~s.written
        BY <2>1, <3>1 DEF MarketInv, ExportsStand
      <3> QED
        BY <1>1, <3>1, <3>2, <3>3
    <2>2. \A y, z \in Exporter : export'[y] = export'[z] /\ export'[y] # 0 => y = z
      BY <1>6 DEF MarketInv, ExportsStand
    <2> QED
      BY <2>1, <2>2 DEF ExportsStand
  <1>11. PassStands' /\ CardsStand'
    BY <1>1 DEF MarketInv, PassStands, CardsStand, Excused, Open, AllLater, ScoreFits, ProducersFit
  <1>12. \A s \in snapshots : s.written => s \in snapshots'
    BY <1>1, <1>2, <1>3
  <1> QED
    BY <1>7, <1>8, <1>9, <1>10, <1>11, <1>12 DEF MarketInv

LEMMA ExportStopsStep ==
    ASSUME MarketInv, NEW x \in Exporter, ExportStops(x)
    PROVE  MarketInv'
  <1>0. Shapes /\ RunInv /\ clock \in Nat
    BY ShapeFacts DEF MarketInv
  <1>1. /\ export' = [export EXCEPT ![x] = 0] /\ broken' = broken \cup {export[x]} /\ export[x] # 0
        /\ UNCHANGED <<clock, ingest, table, snapshots, pass, cards>>
    BY DEF ExportStops
  <1>2. export' \in [Exporter -> Nat] /\ export'[x] = 0 /\ \A y \in Exporter \ {x} : export'[y] = export[y]
    BY <1>0, <1>1 DEF Shapes
  <1>3. Shapes'
    <2>1. PICK s \in snapshots : s.stamp = export[x]
      BY <1>1 DEF MarketInv, ExportsStand
    <2>2. s.stamp \in 1..clock
      BY <1>0, <2>1, ShapeFacts DEF Shapes, Directory, Time
    <2> QED
      BY <1>0, <1>1, <1>2, <2>1, <2>2 DEF Shapes
  <1>4. RunInv'
    BY <1>0, <1>1, RunsUndisturbed
  <1>5. SnapshotsStand'
    <2>1. ASSUME NEW s \in snapshots, ~s.written
          PROVE  (\E y \in Exporter : export'[y] = s.stamp) \/ s.stamp \in broken'
      BY <1>1, <1>2, <2>1 DEF MarketInv, SnapshotsStand
    <2> QED
      BY <1>1, <2>1 DEF MarketInv, SnapshotsStand, Excused, Open
  <1>6. ExportsStand'
    BY <1>1, <1>2 DEF MarketInv, ExportsStand
  <1>7. PassStands' /\ CardsStand'
    BY <1>1, <1>3 DEF MarketInv, PassStands, CardsStand, Excused, Open, AllLater, ScoreFits, ProducersFit
  <1> QED
    BY <1>3, <1>4, <1>5, <1>6, <1>7 DEF MarketInv

-----------------------------------------------------------------------------
(* The steps of a pass.                                                       *)

\* They leave the runs and the snapshots alone.
LEMMA PassLeaves ==
    ASSUME MarketInv, UNCHANGED <<clock, ingest, table, snapshots, export, broken>>
    PROVE  /\ RunInv' /\ SnapshotsStand' /\ ExportsStand'
           /\ \A open, moment : Excused(open, moment)' <=> Excused(open, moment)
  <1>0. Shapes /\ RunInv /\ clock \in Nat
    BY ShapeFacts DEF MarketInv
  <1>1. RunInv'
    BY <1>0, RunsUndisturbed
  <1>2. SnapshotsStand'
    BY <1>0 DEF MarketInv, SnapshotsStand, Excused, Open
  <1>3. ExportsStand'
    BY DEF MarketInv, ExportsStand
  <1>4. \A open, moment : Excused(open, moment)' <=> Excused(open, moment)
    BY DEF Excused, Open
  <1> QED
    BY <1>1, <1>2, <1>3, <1>4

LEMMA PassFacts ==
    ASSUME MarketInv
    PROVE  /\ PassForm(pass) /\ pass.moment <= clock /\ PassStands /\ Shapes
           /\ Len(Exposed) \in Nat /\ Exposed \in Seq(Asset)
           /\ (pass.card = {} => \A c \in cards : c.explained)
           /\ (pass.step = "idle" => cards = {})
           /\ pass.step \notin {"annotate", "stopped"} => pass.card = {}
  BY MarketAssumption DEF MarketInv, Shapes, PassStands, CardsStand

LEMMA BeginPassStep ==
    ASSUME MarketInv, BeginPass
    PROVE  MarketInv'
  <1>1. PICK moment \in 1..clock : PassStep([NoPass EXCEPT !.step = "read", !.moment = moment])
    BY DEF BeginPass
  <1>2. /\ UNCHANGED <<clock, ingest, table, snapshots, export, broken, cards>> /\ cards = {} /\ Exposed # <<>>
        /\ pass' = [NoPass EXCEPT !.step = "read", !.moment = moment]
    BY <1>1, PassFacts DEF BeginPass, PassStep
  <1>3. /\ pass'.step = "read" /\ pass'.moment = moment /\ pass'.next = 1 /\ pass'.histories = <<>>
        /\ pass'.open = {} /\ pass'.card = {}
        /\ DOMAIN pass' = {"step", "moment", "next", "histories", "open", "card"}
    BY <1>2 DEF NoPass
  <1>4. moment \in Nat /\ moment <= clock /\ <<>> \in Seq(SUBSET [day : Time, close : Nat, adj : Nat])
    BY PassFacts, ShapeFacts
  <1>5. PassForm(pass')
    BY <1>3, <1>4 DEF PassForm, PassSteps
  <1>6. Shapes'
    BY <1>2, <1>3, <1>4, <1>5, PassFacts DEF Shapes
  <1>7. Len(Exposed) >= 1
    BY <1>2, PassFacts
  <1>8. PassStands'
    BY <1>3, <1>7, PassFacts DEF PassStands
  <1>9. CardsStand'
    BY <1>2 DEF CardsStand
  <1>10. RunInv' /\ SnapshotsStand' /\ ExportsStand'
    BY <1>2, PassLeaves
  <1> QED
    BY <1>6, <1>8, <1>9, <1>10 DEF MarketInv

LEMMA ReadHistoryStep ==
    ASSUME MarketInv, ReadHistory
    PROVE  MarketInv'
  <1> DEFINE h == History(table, Exposed[pass.next], pass.moment)
             last == pass.next = Len(Exposed)
             Bars == SUBSET [day : Time, close : Nat, adj : Nat]
  <1>1. /\ UNCHANGED <<clock, ingest, table, snapshots, export, broken, cards>> /\ pass.step = "read"
        /\ pass' = WithHistory(h)
    BY DEF ReadHistory, PassStep
  <1>2. /\ pass.card = {} /\ pass.histories \in Seq(Bars) /\ pass.moment \in Nat /\ pass.open \in SUBSET Nat
        /\ pass.next \in 1..Len(Exposed) /\ Len(pass.histories) = pass.next - 1 /\ Len(Exposed) \in Nat
    BY <1>1, PassFacts DEF PassForm, PassStands
  <1>3. h \in Bars
    BY HistoryFits, PassFacts DEF Shapes
  <1>4. OpenSince \in SUBSET Nat /\ \A i \in Ingester : Open(i) => ingest[i].began \in OpenSince
    BY ShapeFacts, PassFacts DEF OpenSince
  <1> HIDE DEF h, Bars
  <1>5. /\ pass'.step = (IF last THEN "score" ELSE "read") /\ pass'.moment = pass.moment
        /\ pass'.next = (IF last THEN 1 ELSE pass.next + 1)
        /\ pass'.histories = Append(pass.histories, h)
        /\ pass'.open = pass.open \cup OpenSince /\ pass'.card = {}
        /\ DOMAIN pass' = {"step", "moment", "next", "histories", "open", "card"}
    <2>1. PICK a, b, d, e : /\ a = Append(pass.histories, h) /\ b = pass.open \cup OpenSince
                            /\ d = (IF last THEN "score" ELSE "read") /\ e = (IF last THEN 1 ELSE pass.next + 1)
      OBVIOUS
    <2>2. pass' = [pass EXCEPT !.histories = a, !.open = b, !.step = d, !.next = e]
      BY <1>1, <2>1 DEF WithHistory
    <2>3. DOMAIN pass = {"step", "moment", "next", "histories", "open", "card"}
      BY PassFacts DEF PassForm
    <2>4. /\ pass'.step = d /\ pass'.moment = pass.moment /\ pass'.next = e /\ pass'.histories = a
          /\ pass'.open = b /\ pass'.card = pass.card
          /\ DOMAIN pass' = {"step", "moment", "next", "histories", "open", "card"}
      BY <2>2, <2>3
    <2> QED
      BY <1>2, <2>1, <2>4
  <1>6. /\ Append(pass.histories, h) \in Seq(Bars) /\ Append(pass.histories, h) # <<>>
        /\ Len(Append(pass.histories, h)) = pass.next
        /\ \A n \in 1..(pass.next - 1) : Append(pass.histories, h)[n] = pass.histories[n]
        /\ Append(pass.histories, h)[pass.next] = h
        /\ DOMAIN Append(pass.histories, h) = 1..pass.next /\ DOMAIN pass.histories = 1..(pass.next - 1)
    BY <1>2, <1>3
  <1>7. PassForm(pass')
    <2>1. pass'.step \in PassSteps
      BY <1>5 DEF PassSteps
    <2>2. pass'.next \in Nat
      BY <1>2, <1>5
    <2>3. pass'.open \in SUBSET Nat /\ pass'.moment \in Nat
      BY <1>2, <1>4, <1>5
    <2>4. pass'.histories \in Seq(SUBSET [day : Time, close : Nat, adj : Nat])
      BY <1>5, <1>6 DEF Bars
    <2>5. DOMAIN pass' = {"step", "moment", "next", "histories", "open", "card"}
      BY <1>5
    <2> QED
      BY <2>1, <2>2, <2>3, <2>4, <2>5 DEF PassForm
  <1>8. Shapes'
    BY <1>1, <1>5, <1>7, PassFacts DEF Shapes
  <1>9. RunInv' /\ SnapshotsStand' /\ ExportsStand' /\ \A open, moment : Excused(open, moment)' <=> Excused(open, moment)
    BY <1>1, PassLeaves
  <1>10. Excused(pass.open, pass.moment)'
    BY <1>1, <1>4, <1>5 DEF Excused, Open
  <1>11. ASSUME AllLater(pass'.open, pass'.moment), NEW n \in 1..pass.next
         PROVE  Append(pass.histories, h)[n] = History(table, Exposed[n], pass.moment)
    <2>1. AllLater(pass.open, pass.moment)
      BY <1>5, <1>11 DEF AllLater
    <2>2. CASE n = pass.next
      BY <1>6, <2>2 DEF h
    <2>3. CASE n \in 1..(pass.next - 1)
      BY <1>6, <2>1, <2>3, PassFacts DEF PassStands
    <2> QED
      BY <1>2, <2>2, <2>3
  <1>12. PassStands'
    <2>1. pass'.step = "read" => pass'.next \in 1..Len(Exposed) /\ Len(pass'.histories) = pass'.next - 1
      BY <1>2, <1>5, <1>6
    <2>2. pass'.step = "score" => pass'.next \in 1..Len(Exposed) /\ Len(pass'.histories) = Len(Exposed)
      BY <1>2, <1>5, <1>6
    <2>3. pass'.step \in {"read", "score"}
      BY <1>5
    <2>4. AllLater(pass'.open, pass'.moment) =>
              \A n \in DOMAIN pass'.histories : pass'.histories[n] = History(table', Exposed[n], pass'.moment)
      BY <1>1, <1>5, <1>6, <1>11
    <2> QED
      BY <1>5, <1>10, <2>1, <2>2, <2>3, <2>4 DEF PassStands, AllLater
  <1>13. CardsStand'
    <2>1. \A c \in cards : c.explained
      BY <1>2, PassFacts
    <2>2. pass'.step # "idle" /\ pass'.moment = pass.moment
      BY <1>5
    <2> QED
      BY <1>1, <1>9, <2>1, <2>2 DEF MarketInv, CardsStand, AllLater, ScoreFits, ProducersFit
  <1> QED
    BY <1>8, <1>9, <1>12, <1>13 DEF MarketInv

\* A pass goes on to its next asset, or is done.
LEMMA NextAssetFacts ==
    ASSUME MarketInv, pass.step \in {"score", "annotate"}, pass' = NextAsset(pass),
           UNCHANGED <<clock, ingest, table, snapshots, export, broken>>
    PROVE  /\ PassForm(pass') /\ pass'.moment = pass.moment /\ pass'.card = {}
           /\ pass'.step \in {"score", "done"} /\ pass'.open = pass.open
           /\ pass'.histories = pass.histories
           /\ PassStands'
  <1>1. /\ PassForm(pass) /\ pass.next \in 1..Len(Exposed) /\ Len(pass.histories) = Len(Exposed)
        /\ Len(Exposed) \in Nat
    BY PassFacts DEF PassStands
  <1> DEFINE t == IF pass.next = Len(Exposed) THEN "done" ELSE "score"
  <1>2. pass' = [pass EXCEPT !.next = @ + 1, !.card = {}, !.step = t]
    BY DEF NextAsset
  <1>3. t \in {"score", "done"} /\ (t = "score" => pass.next # Len(Exposed))
    OBVIOUS
  <1> HIDE DEF t
  <1>4. /\ pass'.step = t /\ pass'.next = pass.next + 1 /\ pass'.card = {} /\ pass'.moment = pass.moment
        /\ pass'.open = pass.open /\ pass'.histories = pass.histories
        /\ DOMAIN pass' = {"step", "moment", "next", "histories", "open", "card"}
    BY <1>1, <1>2 DEF PassForm
  <1>5. PassForm(pass')
    <2>1. pass'.step \in PassSteps
      BY <1>3, <1>4 DEF PassSteps
    <2>2. pass'.next \in Nat
      BY <1>1, <1>4
    <2> QED
      BY <1>1, <1>4, <2>1, <2>2 DEF PassForm
  <1>6. t = "score" => pass'.next \in 1..Len(Exposed)
    BY <1>1, <1>3, <1>4
  <1>7. Excused(pass.open, pass.moment)' <=> Excused(pass.open, pass.moment)
    BY <1>4 DEF Excused, Open
  <1>8. PassStands'
    BY <1>1, <1>3, <1>4, <1>6, <1>7, PassFacts DEF PassStands, AllLater
  <1> QED
    BY <1>3, <1>4, <1>5, <1>8

LEMMA DimensionFacts ==
    ASSUME NEW p, NEW judged \in {{}, Judged}, NEW axes,
           axes = ComputedDimensions(p) \cup {[axis |-> x, producer |-> "agent"] : x \in judged}, axes # {}
    PROVE  /\ \A d \in axes : d.producer = "computed" <=> d.axis = Technical
           /\ {d.axis : d \in {e \in axes : e.producer = "agent"}} \in {{}, Judged}
           /\ \A d \in axes : \A e \in axes : d.axis = e.axis => d = e
  <1> DEFINE one == [axis |-> Technical, producer |-> "computed"]
             Axis(x) == [axis |-> x, producer |-> "agent"]
  <1>1. ComputedDimensions(p) = {one} \/ ComputedDimensions(p) = {}
    BY DEF ComputedDimensions
  <1>2. one.axis = Technical /\ one.producer = "computed" /\ \A x : Axis(x).axis = x /\ Axis(x).producer = "agent"
    OBVIOUS
  <1>3. Technical \notin judged
    BY MarketAssumption
  <1>4. axes = ComputedDimensions(p) \cup {Axis(x) : x \in judged}
    OBVIOUS
  <1> HIDE DEF one, Axis
  <1>5. {d.axis : d \in {e \in axes : e.producer = "agent"}} = judged
    BY <1>1, <1>2, <1>4
  <1>6. \A d \in axes : d.producer = "computed" <=> d.axis = Technical
    BY <1>1, <1>2, <1>3, <1>4
  <1>7. \A d \in axes : \A e \in axes : d.axis = e.axis => d = e
    BY <1>1, <1>2, <1>3, <1>4
  <1> QED
    BY <1>5, <1>6, <1>7

LEMMA ScoresStep ==
    ASSUME MarketInv, NEW judged \in {{}, Judged}, Scores(judged)
    PROVE  MarketInv'
  <1> DEFINE card == Card(pass, judged)
             n == pass.next
  <1>1. /\ UNCHANGED <<clock, ingest, table, snapshots, export, broken>> /\ pass.step = "score" /\ pass.card = {}
        /\ \A c \in cards : c.explained
    BY PassFacts DEF Scores, PassStep
  <1>2. /\ PassForm(pass) /\ n \in 1..Len(Exposed) /\ Len(pass.histories) = Len(Exposed) /\ Len(Exposed) \in Nat
        /\ pass.histories \in Seq(SUBSET [day : Time, close : Nat, adj : Nat])
    BY <1>1, PassFacts DEF PassStands, PassForm
  <1>3. /\ RunInv' /\ SnapshotsStand' /\ ExportsStand'
        /\ \A open, moment : Excused(open, moment)' <=> Excused(open, moment)
    BY <1>1, PassLeaves
  <1>4. CASE card.dimensions = {}
    <2>1. pass' = NextAsset(pass) /\ cards' = cards
      BY <1>4 DEF Scores, PassStep
    <2>2. PassForm(pass') /\ pass'.moment = pass.moment /\ pass'.step # "idle" /\ PassStands'
      BY <1>1, <2>1, NextAssetFacts
    <2>3. Shapes'
      BY <1>1, <2>1, <2>2, PassFacts DEF Shapes
    <2>4. CardsStand'
      BY <1>1, <1>3, <2>1, <2>2 DEF MarketInv, CardsStand, AllLater, ScoreFits, ProducersFit
    <2> QED
      BY <1>3, <2>2, <2>3, <2>4 DEF MarketInv
  <1>5. CASE card.dimensions # {}
    <2>1. cards' = cards \cup {card} /\ pass' = [pass EXCEPT !.step = "annotate", !.card = {card}]
      BY <1>5 DEF Scores, PassStep
    <2>2. /\ CardForm(card) /\ card.asset = Exposed[n] /\ card.moment = pass.moment
          /\ card.bars = pass.histories[n] /\ card.open = pass.open /\ card.inputs = Inputs(pass)
          /\ card.dimensions = ComputedDimensions(pass) \cup {[axis |-> x, producer |-> "agent"] : x \in judged}
      BY DEF Card, CardForm
    <2>3. ScoreFits(card)
      <3>1. Metrics(pass)[n] = MetricsOf(Prices(pass.histories[n]))
        BY <1>2 DEF Metrics
      <3>2. \A input \in Inputs(pass) : input[1] = "score" =>
                input[2] = TechnicalConfirmation(Metrics(pass)[n], MomentumWindow)
        BY DEF Inputs
      <3> QED
        BY <2>2, <3>1, <3>2 DEF ScoreFits
    <2>4. ProducersFit(card)
      BY <1>5, <2>2, DimensionFacts DEF ProducersFit
    <2> HIDE DEF card
    <2>5. /\ pass'.step = "annotate" /\ pass'.card = {card} /\ pass'.moment = pass.moment /\ pass'.next = n
          /\ pass'.open = pass.open /\ pass'.histories = pass.histories
          /\ DOMAIN pass' = {"step", "moment", "next", "histories", "open", "card"}
      BY <1>2, <2>1 DEF PassForm
    <2>6. PassForm(pass')
      BY <1>2, <2>5 DEF PassForm, PassSteps
    <2>7. Shapes'
      BY <1>1, <2>1, <2>2, <2>5, <2>6, PassFacts DEF Shapes
    <2>8. Excused(pass.open, pass.moment)
      BY <1>2, PassFacts DEF PassStands
    <2>9. PassStands'
      BY <1>1, <1>2, <1>3, <2>1, <2>5, <2>8, PassFacts DEF PassStands, AllLater
    <2>10. AllLater(card.open, card.moment) => card.bars = History(table, card.asset, card.moment)
      <3>1. n \in DOMAIN pass.histories
        BY <1>2
      <3> QED
        BY <2>2, <3>1, PassFacts DEF PassStands
    <2>11. CardsStand'
      <3>1. ASSUME NEW c \in cards'
            PROVE  /\ c.moment = pass'.moment
                   /\ AllLater(c.open, c.moment) => c.bars = History(table', c.asset, c.moment)
                   /\ Excused(c.open, c.moment)' /\ ScoreFits(c) /\ ProducersFit(c)
                   /\ c.explained \/ c \in pass'.card
        <4>1. CASE c \in cards
          BY <1>1, <1>3, <2>5, <4>1 DEF MarketInv, CardsStand
        <4>2. CASE c = card
          BY <1>1, <1>3, <2>2, <2>3, <2>4, <2>5, <2>8, <2>10, <4>2
        <4> QED
          BY <2>1, <4>1, <4>2
      <3> QED
        BY <2>5, <3>1 DEF CardsStand, AllLater, ScoreFits, ProducersFit
    <2> QED
      BY <1>3, <2>7, <2>9, <2>11 DEF MarketInv
  <1> QED
    BY <1>4, <1>5

LEMMA AnnotateStep ==
    ASSUME MarketInv, Annotate
    PROVE  MarketInv'
  <1> DEFINE Told(c) == [c EXCEPT !.explained = TRUE]
  <1>1. /\ UNCHANGED <<clock, ingest, table, snapshots, export, broken>> /\ pass.step = "annotate"
        /\ pass' = NextAsset(pass) /\ cards' = (cards \ pass.card) \cup {Told(c) : c \in pass.card}
    BY DEF Annotate, PassStep
  <1>2. /\ RunInv' /\ SnapshotsStand' /\ ExportsStand'
        /\ \A open, moment : Excused(open, moment)' <=> Excused(open, moment)
    BY <1>1, PassLeaves
  <1>3. PassForm(pass') /\ pass'.moment = pass.moment /\ pass'.step # "idle"
        /\ pass'.card = {} /\ pass'.open = pass.open /\ pass'.histories = pass.histories /\ PassStands'
    BY <1>1, NextAssetFacts
  <1>4. ASSUME NEW c \in pass.card
        PROVE  /\ CardForm(Told(c)) /\ Told(c).explained /\ Told(c).moment = c.moment
               /\ Told(c).open = c.open /\ Told(c).bars = c.bars /\ Told(c).asset = c.asset
               /\ Told(c).inputs = c.inputs /\ Told(c).dimensions = c.dimensions /\ c \in cards
    <2>1. CardForm(c) /\ c \in cards
      BY PassFacts DEF Shapes, PassStands
    <2> QED
      BY <2>1 DEF CardForm
  <1> HIDE DEF Told
  <1>5. \A c \in cards' : CardForm(c)
    BY <1>1, <1>4 DEF MarketInv, Shapes
  <1>6. Shapes'
    BY <1>1, <1>3, <1>5, PassFacts DEF Shapes
  <1>7. ASSUME NEW c \in cards'
        PROVE  /\ c.moment = pass'.moment
               /\ AllLater(c.open, c.moment) => c.bars = History(table', c.asset, c.moment)
               /\ Excused(c.open, c.moment)' /\ ScoreFits(c) /\ ProducersFit(c) /\ c.explained
    <2>1. CASE c \in cards \ pass.card
      BY <1>1, <1>2, <1>3, <2>1 DEF MarketInv, CardsStand
    <2>2. CASE c \in {Told(d) : d \in pass.card}
      <3>1. PICK d \in pass.card : c = Told(d)
        BY <2>2
      <3>2. d \in cards /\ c.explained /\ c.moment = d.moment /\ c.open = d.open /\ c.bars = d.bars
            /\ c.asset = d.asset /\ c.inputs = d.inputs /\ c.dimensions = d.dimensions
        BY <1>4, <3>1
      <3>3. /\ d.moment = pass.moment
            /\ AllLater(d.open, d.moment) => d.bars = History(table, d.asset, d.moment)
            /\ Excused(d.open, d.moment) /\ ScoreFits(d) /\ ProducersFit(d)
        BY <3>2 DEF MarketInv, CardsStand
      <3>4. ScoreFits(c) /\ ProducersFit(c)
        BY <3>2, <3>3 DEF ScoreFits, ProducersFit
      <3>5. Excused(d.open, d.moment)'
        BY <1>2, <3>3
      <3>6. Excused(c.open, c.moment)'
        BY <3>2, <3>5
      <3>7. AllLater(c.open, c.moment) => c.bars = History(table', c.asset, c.moment)
        BY <1>1, <3>2, <3>3
      <3>8. c.moment = pass'.moment
        BY <1>3, <3>2, <3>3
      <3> QED
        BY <3>2, <3>4, <3>6, <3>7, <3>8
    <2> QED
      BY <1>1, <2>1, <2>2
  <1>8. CardsStand'
    BY <1>3, <1>7 DEF CardsStand, AllLater, ScoreFits, ProducersFit
  <1> QED
    BY <1>2, <1>3, <1>6, <1>8 DEF MarketInv

LEMMA PassStopsStep ==
    ASSUME MarketInv, PassStops
    PROVE  MarketInv'
  <1>1. /\ UNCHANGED <<clock, ingest, table, snapshots, export, broken, cards>>
        /\ pass' = [pass EXCEPT !.step = "stopped"] /\ pass.step \in {"read", "score", "annotate"}
    BY DEF PassStops, PassStep
  <1>2. /\ RunInv' /\ SnapshotsStand' /\ ExportsStand'
        /\ \A open, moment : Excused(open, moment)' <=> Excused(open, moment)
    BY <1>1, PassLeaves
  <1>3. /\ pass'.step = "stopped" /\ pass'.next = pass.next /\ pass'.card = pass.card /\ pass'.moment = pass.moment
        /\ pass'.open = pass.open /\ pass'.histories = pass.histories
        /\ DOMAIN pass' = {"step", "moment", "next", "histories", "open", "card"}
    BY <1>1, PassFacts DEF PassForm
  <1>4. PassForm(pass')
    BY <1>3, PassFacts DEF PassForm, PassSteps
  <1>5. Shapes'
    BY <1>1, <1>3, <1>4, PassFacts DEF Shapes
  <1>6. PassStands'
    BY <1>1, <1>2, <1>3, PassFacts DEF PassStands, AllLater
  <1>7. CardsStand'
    BY <1>1, <1>2, <1>3 DEF MarketInv, CardsStand, AllLater, ScoreFits, ProducersFit
  <1> QED
    BY <1>2, <1>5, <1>6, <1>7 DEF MarketInv

LEMMA MarketStep == MarketInv /\ [MarketNext]_marketVars => MarketInv'
  <1> SUFFICES ASSUME MarketInv, [MarketNext]_marketVars PROVE MarketInv'
    OBVIOUS
  <1>1. CASE Tick
    BY <1>1, TickStep
  <1>2. ASSUME NEW i \in Ingester,
               \/ BeginIngest(i) \/ Fetch(i) \/ FetchFails(i) \/ Store(i)
               \/ FinishIngest(i) \/ IngestStops(i)
        PROVE  MarketInv'
    <2>1. PICK s \in Run : Goes(i, s)
      BY <1>2, IngestGoes DEF MarketInv
    <2> QED
      BY <2>1, GoesShapes, GoesRunInv, GoesSnapshots, GoesPass DEF MarketInv
  <1>3. ASSUME NEW x \in Exporter, BeginExport(x) \/ WriteExport(x) \/ ExportStops(x)
        PROVE  MarketInv'
    BY <1>3, BeginExportStep, WriteExportStep, ExportStopsStep
  <1>4. CASE BeginPass
    BY <1>4, BeginPassStep
  <1>5. CASE ReadHistory
    BY <1>5, ReadHistoryStep
  <1>6. CASE Judge
    <2>1. PICK answer \in Answers : Scores(IF Accepted(answer) THEN answer.axes ELSE {})
      BY <1>6 DEF Judge
    <2>2. (IF Accepted(answer) THEN answer.axes ELSE {}) \in {{}, Judged}
      BY DEF Accepted
    <2> QED
      BY <2>1, <2>2, ScoresStep
  <1>7. CASE JudgeFails
    BY <1>7, ScoresStep DEF JudgeFails
  <1>8. CASE Annotate
    BY <1>8, AnnotateStep
  <1>9. CASE PassStops
    BY <1>9, PassStopsStep
  <1>10. CASE UNCHANGED marketVars
    <2>1. UNCHANGED <<clock, ingest, table, snapshots, export, pass, cards, broken>>
      BY <1>10 DEF marketVars
    <2>2. RunInv' /\ SnapshotsStand' /\ ExportsStand' /\ \A open, moment : Excused(open, moment)' <=> Excused(open, moment)
      BY <2>1, PassLeaves
    <2>3. Shapes' /\ PassStands' /\ CardsStand'
      BY <2>1, <2>2 DEF MarketInv, Shapes, PassStands, CardsStand, AllLater, ScoreFits, ProducersFit
    <2> QED
      BY <2>2, <2>3 DEF MarketInv
  <1> QED
    BY <1>1, <1>2, <1>3, <1>4, <1>5, <1>6, <1>7, <1>8, <1>9, <1>10 DEF MarketNext

LEMMA MarketInitHolds == MarketInit => MarketInv
  <1> SUFFICES ASSUME MarketInit PROVE MarketInv
    OBVIOUS
  <1>1. /\ clock = 1 /\ broken = {} /\ ingest = [i \in Ingester |-> Idle] /\ table = {} /\ snapshots = {}
        /\ export = [x \in Exporter |-> 0] /\ pass = NoPass /\ cards = {}
    BY DEF MarketInit
  <1>2. Idle \in Run /\ Idle.began = 0 /\ Idle.step = "idle" /\ Idle.bars = {} /\ Idle.results = {}
    BY DEF Idle, Run, IngestSteps
  <1>3. /\ NoPass.step = "idle" /\ NoPass.moment = 0 /\ NoPass.histories = <<>> /\ NoPass.open = {} /\ NoPass.card = {}
        /\ PassForm(NoPass)
    BY DEF NoPass, PassForm, PassSteps
  <1>4. Shapes
    BY <1>1, <1>2, <1>3, MarketAssumption DEF Shapes, Time
  <1>5. RunInv
    BY <1>1, <1>2 DEF RunInv, RunsStand, RunStands, BegansDiffer, RowsAreOfRuns, VersionsDiffer
  <1>6. SnapshotsStand /\ ExportsStand
    BY <1>1 DEF SnapshotsStand, ExportsStand
  <1>7. PassStands
    BY <1>1, <1>3 DEF PassStands
  <1>8. CardsStand
    BY <1>1 DEF CardsStand
  <1> QED
    BY <1>4, <1>5, <1>6, <1>7, <1>8 DEF MarketInv

LEMMA MarketInvHolds == MarketSpec => []MarketInv
  BY MarketInitHolds, MarketStep, PTL DEF MarketSpec

-----------------------------------------------------------------------------
(* The readers agree.                                                         *)

\* A set of natural numbers has a least member.
LEMMA LeastMember ==
    ASSUME NEW S \in SUBSET Nat, S # {}
    PROVE  \E x \in S : \A y \in S : x <= y
  <1>1. PICK x \in S : \A y \in S : ~ (<<y, x>> \in OpToRel(<, Nat))
    BY NatLessThanWellFounded, WFMin, Zenon
  <1>2. ASSUME NEW y \in Nat, NEW z \in Nat, y < z PROVE <<y, z>> \in OpToRel(<, Nat)
    BY <1>2, Zenon DEF OpToRel
  <1>3. \A y \in S : ~(y < x)
    BY <1>1, <1>2, Zenon
  <1> QED
    BY <1>3

\* Where members are numbered within a bound, one has the greatest number.
LEMMA GreatestMember ==
    ASSUME NEW S, S # {}, NEW N \in Nat, NEW num, \A x \in S : num[x] \in 0..N
    PROVE  \E x \in S : \A y \in S : num[y] <= num[x]
  <1> DEFINE Left(x) == N - num[x]
             D == {Left(x) : x \in S}
  <1>1. D \in SUBSET Nat /\ D # {}
    OBVIOUS
  <1>2. PICK d \in D : \A e \in D : d <= e
    <2> HIDE DEF D
    <2> QED
      BY <1>1, LeastMember
  <1>3. PICK x \in S : d = Left(x)
    BY <1>2
  <1>4. ASSUME NEW y \in S PROVE num[y] <= num[x]
    <2>1. Left(x) <= Left(y)
      BY <1>2, <1>3
    <2> QED
      BY <2>1
  <1> QED
    BY <1>4

\* Of versions of one day, one is the newest.
LEMMA NewestFacts ==
    ASSUME Shapes, VersionsDiffer, NEW rows \in SUBSET table, rows # {},
           \A q, r \in rows : q.asset = r.asset /\ q.observed = r.observed
    PROVE  /\ Newest(rows) \in rows
           /\ \A r \in rows : r.recorded <= Newest(rows).recorded
           /\ \A r \in rows : (\A q \in rows : q.recorded <= r.recorded) => r = Newest(rows)
  <1>1. \A r \in rows : r.recorded \in 0..clock
    BY ShapeFacts
  <1>2. PICK num : num = [r \in rows |-> r.recorded]
    OBVIOUS
  <1>3. \A r \in rows : num[r] = r.recorded /\ num[r] \in 0..clock
    BY <1>1, <1>2
  <1>4. \E r \in rows : \A q \in rows : num[q] <= num[r]
    BY <1>3, GreatestMember, ShapeFacts
  <1>5. \E r \in rows : \A q \in rows : q.recorded <= r.recorded
    BY <1>3, <1>4
  <1>6. Newest(rows) \in rows /\ \A q \in rows : q.recorded <= Newest(rows).recorded
    BY <1>5 DEF Newest
  <1>7. ASSUME NEW r \in rows, \A q \in rows : q.recorded <= r.recorded
        PROVE  r = Newest(rows)
    <2>1. r.recorded = Newest(rows).recorded
      BY <1>1, <1>6, <1>7
    <2> QED
      BY <1>6, <2>1 DEF VersionsDiffer
  <1> QED
    BY <1>6, <1>7

\* as_known_at keeps of every day the version that no other known one is newer than.
LEMMA AsKnownAtFacts ==
    ASSUME Shapes, VersionsDiffer, NEW moment \in Time
    PROVE  AsKnownAt(table, moment) =
               {r \in Known(table, moment) : \A q \in Known(table, moment) :
                    q.asset = r.asset /\ q.observed = r.observed => q.recorded <= r.recorded}
  <1> DEFINE known == Known(table, moment)
             Same(r) == {q \in known : q.asset = r.asset /\ q.observed = r.observed}
             Kept(r) == \A q \in known : q.asset = r.asset /\ q.observed = r.observed => q.recorded <= r.recorded
  <1>1. AsKnownAt(table, moment) = {Newest(Same(r)) : r \in known}
    BY DEF AsKnownAt
  <1>2. known \in SUBSET table
    BY DEF Known
  <1>3. ASSUME NEW r \in known
        PROVE  /\ Newest(Same(r)) \in Same(r)
               /\ \A q \in Same(r) : q.recorded <= Newest(Same(r)).recorded
               /\ \A p \in Same(r) : (\A q \in Same(r) : q.recorded <= p.recorded) => p = Newest(Same(r))
    BY <1>2, NewestFacts
  <1>4. ASSUME NEW r \in known
        PROVE  Newest(Same(r)) \in known /\ Kept(Newest(Same(r)))
    BY <1>3
  <1>5. ASSUME NEW r \in known, Kept(r)
        PROVE  r = Newest(Same(r))
    BY <1>3, <1>5
  <1> HIDE DEF known, Same, Kept
  <1>6. AsKnownAt(table, moment) = {r \in known : Kept(r)}
    BY <1>1, <1>4, <1>5
  <1> QED
    BY <1>6 DEF known, Kept

LEMMA ReadersAgreeHere ==
    ASSUME Shapes, VersionsDiffer
    PROVE  ReadersAgree
  <1> SUFFICES ASSUME NEW a \in Asset, NEW m \in Time
               PROVE  LET rows == {r \in AsKnownAt(table, m) : r.asset = a} IN
                      /\ History(table, a, m) = {[day |-> r.observed, close |-> r.close, adj |-> r.adj] : r \in rows}
                      /\ \A r \in rows : \E q \in rows : q.observed = r.observed /\ q.recorded = r.recorded
                      /\ LatestKnownAt(table, a, m) = {r \in rows : \A q \in rows : q.observed <= r.observed}
    BY Zenon DEF ReadersAgree
  <1> DEFINE rows == {r \in AsKnownAt(table, m) : r.asset = a}
             known == {r \in Known(table, m) : r.asset = a}
             kept == {r \in known : \A q \in known : q.observed = r.observed => q.recorded <= r.recorded}
  <1>1. rows = kept
    BY AsKnownAtFacts
  <1>2. History(table, a, m) = {[day |-> r.observed, close |-> r.close, adj |-> r.adj] : r \in kept}
    <2>1. kept = {q \in Known(table, m) :
                    /\ q.asset = a
                    /\ \A p \in Known(table, m) : p.asset = a /\ p.observed = q.observed => p.recorded <= q.recorded}
      OBVIOUS
    <2> QED
      BY <2>1 DEF History
  <1>3. known \in SUBSET table /\ \A r \in known : r.asset = a /\ r.observed \in 0..clock /\ r.observed \in Nat
    BY ShapeFacts DEF Known
  <1> DEFINE last == {r \in known : \A q \in known : q.observed <= r.observed}
  <1>4. LatestKnownAt(table, a, m) = IF known = {} THEN {} ELSE {Newest(last)}
    BY DEF LatestKnownAt
  <1>5. ASSUME NEW r \in known
        PROVE  \E k \in kept : k.observed = r.observed
    <2> DEFINE same == {q \in known : q.observed = r.observed}
    <2>1. same \in SUBSET table /\ same # {} /\ \A p, q \in same : p.asset = q.asset /\ p.observed = q.observed
      BY <1>3
    <2>2. Newest(same) \in same /\ \A q \in same : q.recorded <= Newest(same).recorded
      BY <2>1, NewestFacts
    <2> QED
      BY <2>2
  <1>6. ASSUME known # {}
        PROVE  {Newest(last)} = {r \in kept : \A q \in kept : q.observed <= r.observed}
    <2>1. PICK day : day = [r \in known |-> r.observed]
      OBVIOUS
    <2>2. \A r \in known : day[r] = r.observed /\ day[r] \in 0..clock
      BY <1>3, <2>1
    <2>3. \E r \in known : \A q \in known : day[q] <= day[r]
      BY <1>6, <2>2, GreatestMember, ShapeFacts
    <2>4. last # {} /\ last \in SUBSET table
      BY <1>3, <2>2, <2>3
    <2>5. \A p, q \in last : p.asset = q.asset /\ p.observed = q.observed
      BY <1>3
    <2>6. /\ Newest(last) \in last /\ \A r \in last : r.recorded <= Newest(last).recorded
          /\ \A r \in last : (\A q \in last : q.recorded <= r.recorded) => r = Newest(last)
      BY <2>4, <2>5, NewestFacts
    <2>7. Newest(last) \in kept
      <3>1. ASSUME NEW q \in known, q.observed = Newest(last).observed PROVE q \in last
        BY <2>6, <3>1
      <3> QED
        BY <2>6, <3>1
    <2>8. \A q \in kept : q.observed <= Newest(last).observed
      BY <2>6
    <2>9. ASSUME NEW r \in kept, \A q \in kept : q.observed <= r.observed
          PROVE  r = Newest(last)
      <3>1. r \in last
        <4>1. ASSUME NEW q \in known PROVE q.observed <= r.observed
          BY <1>5, <2>9
        <4> QED
          BY <4>1
      <3>2. \A q \in last : q.recorded <= r.recorded
        BY <2>5, <3>1
      <3> QED
        BY <2>6, <3>1, <3>2
    <2> HIDE DEF last, kept, known
    <2> QED
      BY <2>7, <2>8, <2>9
  <1>7. LatestKnownAt(table, a, m) = {r \in kept : \A q \in kept : q.observed <= r.observed}
    <2>1. CASE known = {}
      BY <1>4, <2>1
    <2>2. CASE known # {}
      BY <1>4, <1>6, <2>2
    <2> QED
      BY <2>1, <2>2
  <1> HIDE DEF rows, kept, known
  <1>8. /\ History(table, a, m) = {[day |-> r.observed, close |-> r.close, adj |-> r.adj] : r \in rows}
        /\ \A r \in rows : \E q \in rows : q.observed = r.observed /\ q.recorded = r.recorded
        /\ LatestKnownAt(table, a, m) = {r \in rows : \A q \in rows : q.observed <= r.observed}
    BY <1>1, <1>2, <1>7
  <1> QED
    BY <1>8 DEF rows

-----------------------------------------------------------------------------
(* The theorems.                                                            *)

\* Rows an unfinished run added since are dated after the moments a snapshot answers for.
LEMMA SnapshotsAnswerHere ==
    ASSUME MarketInv
    PROVE  SnapshotAnswersForThePast
  <1> SUFFICES ASSUME NEW s \in snapshots, NEW m \in 1..s.stamp, s.written, \A began \in s.open : began > m
               PROVE  AsKnownAt(s.rows, m) = AsKnownAt(table, m)
    BY DEF SnapshotAnswersForThePast
  <1>1. /\ s.rows \subseteq table
        /\ \A r \in table \ s.rows : r.recorded \in s.open \/ r.recorded > s.stamp
    BY DEF MarketInv, SnapshotsStand
  <1>2. table \in SUBSET Version /\ s.rows \in SUBSET Version /\ s.stamp \in Nat /\ m \in Nat /\ m <= s.stamp
    BY <1>1 DEF MarketInv, Shapes, Directory, Time
  <1>3. \A r \in table : r.recorded \in Nat
    BY <1>2 DEF Version, Time
  <1>4. ASSUME NEW r \in table \ s.rows PROVE r.recorded > m
    <2>1. CASE r.recorded \in s.open
      BY <2>1
    <2>2. CASE r.recorded > s.stamp
      BY <1>2, <1>3, <2>2
    <2> QED
      BY <1>1, <2>1, <2>2
  <1> QED
    BY <1>1, <1>2, <1>4, KnownStays

\* A card's bars are the history of its moment, and its score is theirs.
LEMMA CardsReplayHere ==
    ASSUME MarketInv
    PROVE  CardCanBeReplayed
  <1> SUFFICES ASSUME NEW c \in cards, \A began \in c.open : began > c.moment
               PROVE  /\ c.bars = History(table, c.asset, c.moment)
                      /\ \A input \in c.inputs :
                            input[1] = "score" =>
                                input[2] = TechnicalConfirmation(
                                              MetricsOf(Prices(History(table, c.asset, c.moment))), MomentumWindow)
    BY DEF CardCanBeReplayed
  <1>1. (AllLater(c.open, c.moment) => c.bars = History(table, c.asset, c.moment)) /\ ScoreFits(c)
    BY DEF MarketInv, CardsStand
  <1>2. c.bars = History(table, c.asset, c.moment)
    BY <1>1 DEF AllLater
  <1> QED
    BY <1>1, <1>2 DEF ScoreFits

LEMMA MarketTypesHold ==
    ASSUME MarketInv
    PROVE  MarketTypeOK
  <1>1. clock \in Time /\ broken \subseteq 1..clock
    BY DEF MarketInv, Shapes
  <1>2. ASSUME NEW i \in Ingester
        PROVE  /\ ingest[i].step \in {"idle", "fetch", "store", "done", "stopped"}
               /\ ingest[i].began \in 0..clock
               /\ ingest[i].bars # {} <=> ingest[i].step = "store"
    <2>1. ingest[i] \in Run /\ ingest[i].began \in 0..clock
      BY ShapeFacts DEF MarketInv
    <2>2. ingest[i].bars # {} <=> ingest[i].step = "store"
      BY DEF MarketInv, RunInv, RunsStand, RunStands
    <2> QED
      BY <2>1, <2>2 DEF Run, IngestSteps
  <1>3. \A r \in table : r.asset \in Asset /\ r.observed \in 1..clock /\ r.recorded \in 1..clock
    BY ShapeFacts DEF MarketInv, Version
  <1>4. ASSUME NEW s \in snapshots
        PROVE  s.stamp \in 1..clock /\ (~s.written => s.rows = {})
    <2>1. s.stamp \in 1..MaxClock /\ s.stamp <= clock /\ clock \in Nat
      BY ShapeFacts DEF MarketInv, Shapes, Directory, Time
    <2>2. ~s.written => s.rows = {}
      BY DEF MarketInv, SnapshotsStand
    <2> QED
      BY <2>1, <2>2, MarketAssumption
  <1>5. pass.step \in {"idle", "read", "score", "annotate", "done", "stopped"}
    BY DEF MarketInv, Shapes, PassForm, PassSteps
  <1>6. pass.step = "annotate" => pass.card # {}
    BY DEF MarketInv, PassStands
  <1> QED
    BY <1>1, <1>2, <1>3, <1>4, <1>5, <1>6 DEF MarketTypeOK

\* A past moment has one answer: the three point-in-time reads, written apart, agree on
\* it, every written snapshot gives it, and a scorecard can be replayed from it, unless
\* an ingest begun by then was still writing.
THEOREM PastIsAnsweredHolds == MarketSpec => []PastIsAnswered
  <1>1. MarketInv => PastIsAnswered
    BY MarketTypesHold, ReadersAgreeHere, CardsReplayHere, SnapshotsAnswerHere DEF MarketInv, RunInv, PastIsAnswered
  <1> QED
    BY <1>1, MarketInvHolds, PTL

\* What a run reports is what the table has of it.
LEMMA ReportsMatchHere ==
    ASSUME MarketInv
    PROVE  ReportMatchesTable
  <1> SUFFICES ASSUME NEW i \in Ingester
               PROVE  LET stored == {r.asset : r \in {q \in table : q.recorded = ingest[i].began}}
                          reported == {r.asset : r \in ingest[i].results}
                      IN /\ stored = {r.asset : r \in {q \in ingest[i].results : q.ok}}
                         /\ \A p, q \in ingest[i].results : p.asset = q.asset => p = q
                         /\ ingest[i].step = "done" => reported = {a \in Requested[i] : Priceable(a)}
                         /\ ingest[i].step = "stopped" => stored \cap ingest[i].left = {}
    BY Zenon DEF ReportMatchesTable
  <1> DEFINE r == ingest[i]
             stored == {q.asset : q \in {p \in table : p.recorded = r.began}}
  <1>1. RunStands(r, Requested[i], table, clock) /\ r \in Run
    BY ShapeFacts DEF MarketInv, RunInv, RunsStand
  <1> HIDE DEF r
  <1>2. stored = {p.asset : p \in {q \in r.results : q.ok}}
    <2>1. ASSUME NEW q \in table, q.recorded = r.began
          PROVE  \E p \in r.results : p.ok /\ p.asset = q.asset
      BY <1>1, <2>1 DEF RunStands
    <2>2. ASSUME NEW p \in r.results, p.ok
          PROVE  \E q \in table : q.recorded = r.began /\ q.asset = p.asset
      BY <1>1, <2>2 DEF RunStands
    <2> QED
      BY <2>1, <2>2
  <1>3. \A p, q \in r.results : p.asset = q.asset => p = q
    BY <1>1 DEF RunStands
  <1>4. ASSUME r.step = "done" PROVE {p.asset : p \in r.results} = {a \in Requested[i] : Priceable(a)}
    BY <1>1, <1>4 DEF RunStands
  <1>5. stored \cap r.left = {}
    BY <1>1, <1>2 DEF RunStands
  <1> QED
    BY <1>2, <1>3, <1>4, <1>5 DEF r

\* What a pass or a run did, it says: the report of an ingest matches the table, an
\* unwritten latest snapshot is of an export that is writing or was broken off, only
\* the card a pass stopped at is unexplained, and each axis of a card has one producer.
THEOREM PassesAreAccountedHolds == MarketSpec => []PassesAreAccounted
  <1>1. ASSUME MarketInv PROVE PassesAreAccounted
    <2>1. EmptyLatestWasBrokenOff
      BY <1>1 DEF MarketInv, SnapshotsStand, EmptyLatestWasBrokenOff, Latest
    <2>2. OneProducerPerAxis
      BY <1>1 DEF MarketInv, CardsStand, ProducersFit, OneProducerPerAxis
    <2>3. OnlyLastCardIsUnexplained
      <3>1. ASSUME NEW c \in pass.card PROVE pass.card = {c}
        BY <1>1, <3>1 DEF MarketInv, PassStands
      <3> QED
        BY <1>1, <3>1 DEF MarketInv, CardsStand, OnlyLastCardIsUnexplained
    <2> QED
      BY <1>1, <2>1, <2>2, <2>3, ReportsMatchHere DEF PassesAreAccounted
  <1> QED
    BY <1>1, MarketInvHolds, PTL

\* A directory that is written stays as it is whatever any run, export or pass does:
\* the export of the same second finds its stamp taken.
THEOREM SnapshotsAreImmutableHolds == MarketSpec => SnapshotsAreImmutable
  <1> DEFINE Stand == \A s \in snapshots : s.written => s \in snapshots'
  <1>1. ASSUME MarketInv, [MarketNext]_marketVars PROVE Stand
    <2>1. CASE UNCHANGED snapshots
      BY <2>1
    <2>2. ASSUME NEW x \in Exporter, BeginExport(x) PROVE Stand
      BY <2>2 DEF BeginExport
    <2>3. ASSUME NEW x \in Exporter, WriteExport(x) PROVE Stand
      BY <1>1, <2>3, WriteExportStep
    <2>4. ASSUME NEW x \in Exporter, ExportStops(x) PROVE UNCHANGED snapshots
      BY <2>4 DEF ExportStops
    <2>5. ASSUME NEW i \in Ingester,
                 \/ BeginIngest(i) \/ Fetch(i) \/ FetchFails(i) \/ Store(i)
                 \/ FinishIngest(i) \/ IngestStops(i)
          PROVE  UNCHANGED snapshots
      BY <1>1, <2>5, IngestGoes DEF MarketInv, Goes
    <2>6. CASE Tick \/ BeginPass \/ ReadHistory \/ Judge \/ JudgeFails \/ Annotate \/ PassStops
      BY <2>1, <2>6, Zenon
         DEF Tick, BeginPass, ReadHistory, Judge, JudgeFails, Scores, Annotate, PassStops, PassStep
    <2>7. CASE UNCHANGED marketVars
      BY <2>1, <2>7 DEF marketVars
    <2> QED
      BY <1>1, <2>1, <2>2, <2>3, <2>4, <2>5, <2>6, <2>7 DEF MarketNext
  <1> QED
    BY <1>1, MarketInvHolds, PTL DEF MarketSpec, SnapshotsAreImmutable
=============================================================================
