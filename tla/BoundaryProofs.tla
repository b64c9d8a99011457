--------------------------- MODULE BoundaryProofs ---------------------------
(***************************************************************************)
(* Proofs about the two ends of the system, what it takes in and what it   *)
(* answers.                                                                *)
(*                                                                         *)
(* Ingestion and Extraction: one document per byte string, its bytes under *)
(* its row, announced once or at the cost of a kill, and reported as it    *)
(* stands; and runs that are recorded with the claims they were accepted   *)
(* with, whole or not at all.                                              *)
(*                                                                         *)
(* ThesisFeed, GraphReads and Watchlist: what a feed, a ranking or a       *)
(* traversal said of a settled moment is what it says today, and a         *)
(* watchlist does what its answers say.                                    *)
(***************************************************************************)
EXTENDS Extraction, Watchlist, FiniteSetTheorems, TLAPS

Steps == {"fetch", "find", "store", "persist", "publish", "drained", "stopped"}
Raws == [content : Content, kind : Kind]
DocumentRow == [content : Content, kind : Kind, status : {"parsed", "failed"}]
ResultRow == [content : Content, status : {"ingested", "duplicate", "parse_failed"}]

IngesterShape ==
    /\ step \in [Ingester -> Steps]
    /\ next \in [Ingester -> Nat \ {0}]
    /\ raw \in [Ingester -> Raws \cup {NoRaw}]
    /\ results \in [Ingester -> Seq(ResultRow)]
    /\ runs \in [Ingester -> 1..MaxRuns]
StoreShape ==
    /\ objects \subseteq {"raw", "normalized"} \X Content \X (Kind \cup {"txt"})
    /\ documents \in Seq(DocumentRow)
    /\ announced \in Seq(Content)
    /\ silenced \subseteq Content

\* An ingester goes through its source with one result for each entry.
Progress ==
    \A i \in Ingester :
        /\ next[i] = Len(results[i]) + 1
        /\ Len(results[i]) <= Limit
        /\ Len(results[i]) <= Len(Source[i])
        /\ step[i] = "drained" => Exhausted(i)

\* What it works on is its next entry, and is not too many.
Working(i) == step[i] \in {"find", "store", "persist", "publish"}
InHand ==
    \A i \in Ingester :
        /\ Working(i) => /\ ~Exhausted(i)
                         /\ raw[i] \in Raws /\ raw[i] \in Offered(Source[i][next[i]])
        /\ step[i] = "persist" => Puts(i) \subseteq objects

\* Each result is of the entry it stands for.
ResultsFollowSource ==
    \A i \in Ingester : \A k \in DOMAIN results[i] :
        \E r \in Offered(Source[i][k]) : r.content = results[i][k].content

\* Only one ingester at a time has a document's announcement before it, and none
\* has reported the document.
Publishing ==
    \A i \in Ingester : step[i] = "publish" =>
        /\ \E n \in Held(raw[i].content) : documents[n].status = "parsed"
        /\ \A n \in DOMAIN announced : announced[n] # raw[i].content
        /\ \A j \in Ingester : step[j] = "publish" /\ raw[j].content = raw[i].content => j = i
        /\ \A j \in Ingester : \A k \in DOMAIN results[j] :
              results[j][k].content = raw[i].content => results[j][k].status = "duplicate"

Shape == IngesterShape /\ StoreShape
Drains == Shape /\ Progress /\ InHand /\ ResultsFollowSource
Rows == OneDocumentPerContent /\ RowHasBytes
Announcements == Publishing /\ AnnouncedOnce /\ UnannouncedCostsAKill
IngestInv == Drains /\ Rows /\ Announcements /\ ResultsMatchRows

-----------------------------------------------------------------------------
(* Lemmas.                                                                 *)

\* What appending to a sequence keeps and adds.
LEMMA AppendFacts ==
    ASSUME NEW S, NEW s \in Seq(S), NEW e \in S
    PROVE  /\ Append(s, e) \in Seq(S)
           /\ Len(Append(s, e)) = Len(s) + 1
           /\ \A n \in DOMAIN s : n \in DOMAIN Append(s, e) /\ Append(s, e)[n] = s[n]
           /\ \A n \in DOMAIN Append(s, e) : n \in DOMAIN s \/ (n = Len(s) + 1 /\ Append(s, e)[n] = e)
           /\ Len(s) + 1 \in DOMAIN Append(s, e) /\ Append(s, e)[Len(s) + 1] = e
           /\ Len(s) + 1 \notin DOMAIN s
  OBVIOUS

\* An entry offers documents whose contents and kinds are known.
LEMMA OffersAreKnown ==
    ASSUME NEW i \in Ingester, NEW n \in 1..Len(Source[i])
    PROVE  Offered(Source[i][n]) \subseteq Raws
  <1> DEFINE Entry == [feed : BOOLEAN, content : Content, summary : Content,
                       kind : Kind, date : {"past", "future", "unzoned"}]
  <1>1. Source[i] \in Seq(Entry)
    BY IngestionAssumption
  <1>2. Source[i][n] \in Entry
    <2> HIDE DEF Entry
    <2> QED
      BY <1>1
  <1> QED
    BY <1>2, IngestionAssumption DEF Offered, Raws

\* The row of a document, and the result of an ingester, in the step that makes it.
LEMMA InsertFacts ==
    ASSUME Shape, NEW i \in Ingester, raw[i] \in Raws, documents' = Append(documents, Row(raw[i]))
    PROVE  /\ Row(raw[i]) \in DocumentRow
           /\ documents' \in Seq(DocumentRow)
           /\ \A n \in DOMAIN documents : n \in DOMAIN documents' /\ documents'[n] = documents[n]
           /\ \A n \in DOMAIN documents' : n \in DOMAIN documents \/ (n = Len(documents) + 1 /\ documents'[n] = Row(raw[i]))
           /\ Len(documents) + 1 \in DOMAIN documents' /\ documents'[Len(documents) + 1] = Row(raw[i])
           /\ Len(documents) + 1 \notin DOMAIN documents
  <1>1. Row(raw[i]) \in DocumentRow
    BY DEF Row, Raws, DocumentRow
  <1> QED
    BY <1>1, AppendFacts DEF Shape, StoreShape

Reported(i, r) ==
    /\ Len(results'[i]) = Len(results[i]) + 1
    /\ \A j \in Ingester : j # i => results'[j] = results[j]
    /\ \A k \in DOMAIN results[i] : k \in DOMAIN results'[i] /\ results'[i][k] = results[i][k]
    /\ \A k \in DOMAIN results'[i] : k \in DOMAIN results[i] \/ (k = Len(results[i]) + 1 /\ results'[i][k] = r)
    /\ results' \in [Ingester -> Seq(ResultRow)]

LEMMA ResultFacts ==
    ASSUME Shape, NEW i \in Ingester, raw[i] \in Raws,
           NEW s \in {"ingested", "duplicate", "parse_failed"}, Result(i, s)
    PROVE  Reported(i, [content |-> raw[i].content, status |-> s])
  <1> DEFINE r == [content |-> raw[i].content, status |-> s]
  <1>1. r \in ResultRow /\ results[i] \in Seq(ResultRow)
    BY DEF Raws, ResultRow, Shape, IngesterShape
  <1>2. results' = [results EXCEPT ![i] = Append(results[i], r)]
    BY DEF Result
  <1>3. results'[i] = Append(results[i], r) /\ \A j \in Ingester : j # i => results'[j] = results[j]
    BY <1>2 DEF Shape, IngesterShape
  <1>4. /\ Append(results[i], r) \in Seq(ResultRow)
        /\ Len(Append(results[i], r)) = Len(results[i]) + 1
        /\ \A k \in DOMAIN results[i] : k \in DOMAIN Append(results[i], r) /\ Append(results[i], r)[k] = results[i][k]
        /\ \A k \in DOMAIN Append(results[i], r) :
              k \in DOMAIN results[i] \/ (k = Len(results[i]) + 1 /\ Append(results[i], r)[k] = r)
    BY <1>1, AppendFacts
  <1>5. results' \in [Ingester -> Seq(ResultRow)]
    BY <1>2, <1>4 DEF Shape, IngesterShape
  <1> HIDE DEF r
  <1>6. Reported(i, r)
    BY <1>3, <1>4, <1>5 DEF Reported
  <1> QED
    BY <1>6 DEF r

-----------------------------------------------------------------------------
(* Drains: an ingester goes through its source.                            *)

LEMMA DrainsInit == IngestionInit => Drains
  <1> SUFFICES ASSUME IngestionInit PROVE Drains
    OBVIOUS
  <1> USE IngestionAssumption DEF IngestionInit
  <1>1. Shape
    BY DEF Shape, IngesterShape, StoreShape, Steps
  <1>2. Progress /\ InHand /\ ResultsFollowSource
    BY DEF Progress, InHand, Working, ResultsFollowSource
  <1> QED
    BY <1>1, <1>2 DEF Drains

\* A result moves its ingester on by one entry.
LEMMA DrainsResult ==
    ASSUME Drains, NEW i \in Ingester, Working(i), NEW s \in {"ingested", "duplicate", "parse_failed"},
           Result(i, s), UNCHANGED runs, objects \subseteq objects', StoreShape'
    PROVE  Drains'
  <1> USE IngestionAssumption DEF Drains, Shape, IngesterShape
  <1> DEFINE r == [content |-> raw[i].content, status |-> s]
  <1>1. raw[i] \in Raws /\ raw[i] \in Offered(Source[i][next[i]]) /\ ~Exhausted(i)
    BY DEF InHand
  <1>2. /\ Len(results'[i]) = Len(results[i]) + 1
        /\ \A j \in Ingester : j # i => results'[j] = results[j]
        /\ \A k \in DOMAIN results[i] : k \in DOMAIN results'[i] /\ results'[i][k] = results[i][k]
        /\ \A k \in DOMAIN results'[i] : k \in DOMAIN results[i] \/ (k = Len(results[i]) + 1 /\ results'[i][k] = r)
        /\ results' \in [Ingester -> Seq(ResultRow)]
    <2>1. Reported(i, r)
      BY <1>1, ResultFacts
    <2> HIDE DEF r
    <2> QED
      BY <2>1 DEF Reported
  <1>3. /\ step' = [step EXCEPT ![i] = "fetch"] /\ next' = [next EXCEPT ![i] = @ + 1]
        /\ raw' = [raw EXCEPT ![i] = NoRaw] /\ runs' = runs
    BY DEF Result
  <1>4. IngesterShape'
    BY <1>2, <1>3 DEF Steps
  <1>5. Progress'
    <2> SUFFICES ASSUME NEW j \in Ingester
                 PROVE  /\ next'[j] = Len(results'[j]) + 1 /\ Len(results'[j]) <= Limit
                        /\ Len(results'[j]) <= Len(Source[j])
                        /\ step'[j] = "drained" => next'[j] > Len(Source[j]) \/ Len(results'[j]) >= Limit
      BY DEF Progress, Exhausted
    <2>1. Len(Source[j]) \in Nat /\ Len(results[j]) \in Nat
      OBVIOUS
    <2>2. CASE j = i
      BY <1>1, <1>2, <1>3, <2>1, <2>2 DEF Progress, Exhausted
    <2>3. CASE j # i
      BY <1>2, <1>3, <2>3 DEF Progress, Exhausted
    <2> QED
      BY <2>2, <2>3
  <1>6. InHand'
    <2> SUFFICES ASSUME NEW j \in Ingester, Working(j)'
                 PROVE  /\ ~Exhausted(j)' /\ raw'[j] \in Raws /\ raw'[j] \in Offered(Source[j][next'[j]])
                        /\ step'[j] = "persist" => Puts(j)' \subseteq objects'
      BY DEF InHand, Working
    <2>1. j # i
      BY <1>3 DEF Working
    <2>2. step'[j] = step[j] /\ raw'[j] = raw[j] /\ next'[j] = next[j] /\ results'[j] = results[j]
      BY <1>2, <1>3, <2>1
    <2> QED
      BY <2>2 DEF InHand, Working, Exhausted, Puts, Parsed
  <1>7. ResultsFollowSource'
    <2> SUFFICES ASSUME NEW j \in Ingester, NEW k \in DOMAIN results'[j]
                 PROVE  \E o \in Offered(Source[j][k]) : o.content = results'[j][k].content
      BY DEF ResultsFollowSource
    <2>1. CASE j = i /\ k \notin DOMAIN results[i]
      <3>1. k = next[i] /\ results'[j][k].content = raw[i].content
        BY <1>2, <2>1 DEF Progress
      <3> QED
        BY <1>1, <2>1, <3>1
    <2>2. CASE j # i \/ k \in DOMAIN results[i]
      <3>1. k \in DOMAIN results[j] /\ results'[j][k] = results[j][k]
        BY <1>2, <2>2
      <3>2. PICK o \in Offered(Source[j][k]) : o.content = results[j][k].content
        BY <3>1 DEF ResultsFollowSource
      <3> QED
        BY <3>1, <3>2
    <2> QED
      BY <2>1, <2>2
  <1> QED
    BY <1>4, <1>5, <1>6, <1>7

\* A step of an ingester without a result.
LEMMA DrainsMove ==
    ASSUME Drains, NEW i \in Ingester, NEW s \in Steps, step' = [step EXCEPT ![i] = s],
           UNCHANGED <<next, results, runs>>, IngesterShape', StoreShape', objects \subseteq objects',
           \A j \in Ingester : j # i => raw'[j] = raw[j],
           s \in {"find", "store", "persist", "publish"} =>
               ~Exhausted(i) /\ raw'[i] \in Raws /\ raw'[i] \in Offered(Source[i][next[i]]),
           s = "persist" => raw'[i] = raw[i] /\ Puts(i) \subseteq objects',
           s = "drained" => Exhausted(i)
    PROVE  Drains'
  <1> USE DEF Drains, Shape, IngesterShape
  <1>1. Progress'
    BY DEF Progress, Exhausted
  <1>2. InHand'
    <2> SUFFICES ASSUME NEW j \in Ingester
                 PROVE  /\ Working(j)' => /\ ~Exhausted(j)'
                                          /\ raw'[j] \in Raws /\ raw'[j] \in Offered(Source[j][next'[j]])
                        /\ step'[j] = "persist" => Puts(j)' \subseteq objects'
      BY DEF InHand
    <2>1. CASE j = i
      BY <2>1 DEF Working, Exhausted, Puts, Parsed
    <2>2. CASE j # i
      BY <2>2 DEF InHand, Working, Exhausted, Puts, Parsed
    <2> QED
      BY <2>1, <2>2
  <1>3. ResultsFollowSource'
    BY DEF ResultsFollowSource
  <1> QED
    BY <1>1, <1>2, <1>3

\* A step that moves its ingester alone.
LEMMA DrainsAlone ==
    ASSUME Drains, NEW i \in Ingester, NEW s \in Steps, step' = [step EXCEPT ![i] = s],
           UNCHANGED <<next, raw, results, runs>>, StoreShape', objects \subseteq objects',
           s \in {"find", "store", "persist", "publish"} => Working(i),
           s = "persist" => Puts(i) \subseteq objects',
           s = "drained" => Exhausted(i)
    PROVE  Drains'
  <1>1. IngesterShape'
    BY DEF Drains, Shape, IngesterShape
  <1>2. Working(i) => ~Exhausted(i) /\ raw[i] \in Raws /\ raw[i] \in Offered(Source[i][next[i]])
    BY DEF Drains, InHand
  <1>3. \A j \in Ingester : j # i => raw'[j] = raw[j]
    OBVIOUS
  <1>4. s \in {"find", "store", "persist", "publish"} =>
           ~Exhausted(i) /\ raw'[i] \in Raws /\ raw'[i] \in Offered(Source[i][next[i]])
    BY <1>2
  <1> QED
    BY <1>1, <1>3, <1>4, DrainsMove

\* An action of an ingester, by what it does to its results.
LEMMA DrainsStep ==
    ASSUME Drains, NEW i \in Ingester, IngesterNext(i)
    PROVE  Drains'
  <1>s. UNCHANGED storeVars /\ silenced' \subseteq Content => StoreShape' /\ objects \subseteq objects'
    BY DEF Drains, Shape, StoreShape, storeVars
  <1>m. silenced \subseteq Content
    BY DEF Drains, Shape, StoreShape
  <1>w. Working(i) => ~Exhausted(i) /\ raw[i] \in Raws /\ raw[i] \in Offered(Source[i][next[i]])
    BY DEF Drains, InHand
  <1>1. CASE Fetches(i)
    <2>1. /\ ~Exhausted(i)
          /\ UNCHANGED <<next, results, runs>>
          /\ UNCHANGED storeVars /\ silenced' = silenced
      BY <1>1 DEF Fetches, faultVars
    <2>2. StoreShape' /\ objects \subseteq objects'
      BY <1>s, <1>m, <2>1
    <2>3. CASE Undatable(Source[i][next[i]])
      <3>1. step' = [step EXCEPT ![i] = "stopped"] /\ UNCHANGED raw
        BY <1>1, <2>3 DEF Fetches
      <3> QED
        BY <2>1, <2>2, <3>1, DrainsAlone DEF Steps
    <2>4. CASE ~Undatable(Source[i][next[i]])
      <3>1. PICK r \in Offered(Source[i][next[i]]) : raw' = [raw EXCEPT ![i] = r]
        BY <1>1, <2>4 DEF Fetches
      <3>2. step' = [step EXCEPT ![i] = "find"]
        BY <1>1, <2>4 DEF Fetches
      <3>3. next[i] \in 1..Len(Source[i])
        BY <2>1, IngestionAssumption DEF Exhausted, Drains, Shape, IngesterShape
      <3>4. r \in Raws
        BY <3>3, OffersAreKnown
      <3>5. raw'[i] = r /\ (\A j \in Ingester : j # i => raw'[j] = raw[j])
        BY <3>1 DEF Drains, Shape, IngesterShape
      <3>6. IngesterShape'
        BY <2>1, <3>1, <3>2, <3>4 DEF Drains, Shape, IngesterShape, Steps
      <3> QED
        BY <2>1, <2>2, <3>2, <3>4, <3>5, <3>6, DrainsMove DEF Steps
    <2> QED
      BY <2>3, <2>4
  <1>2. CASE Finishes(i)
    <2>1. /\ Exhausted(i) /\ step' = [step EXCEPT ![i] = "drained"]
          /\ UNCHANGED <<next, raw, results, runs>> /\ UNCHANGED storeVars /\ silenced' = silenced
      BY <1>2 DEF Finishes, faultVars
    <2> QED
      BY <1>s, <1>m, <2>1, DrainsAlone DEF Steps
  <1>3. CASE FindsByHash(i)
    <2>1. /\ Working(i) /\ UNCHANGED runs
          /\ UNCHANGED storeVars /\ silenced' = silenced
      BY <1>3 DEF FindsByHash, Working, faultVars
    <2>2. StoreShape' /\ objects \subseteq objects'
      BY <1>s, <1>m, <2>1
    <2>3. CASE Held(raw[i].content) # {}
      <3>1. Result(i, "duplicate")
        BY <1>3, <2>3 DEF FindsByHash
      <3> QED
        BY <2>1, <2>2, <3>1, DrainsResult
    <2>4. CASE Held(raw[i].content) = {}
      <3>1. step' = [step EXCEPT ![i] = "store"] /\ UNCHANGED <<next, raw, results>>
        BY <1>3, <2>4 DEF FindsByHash
      <3> QED
        BY <2>1, <2>2, <3>1, DrainsAlone DEF Steps
    <2> QED
      BY <2>3, <2>4
  <1>4. CASE Stores(i) \/ PutFails(i)
    <2>1. Working(i) /\ UNCHANGED <<next, raw, results, runs, documents, announced, silenced>>
      BY <1>4 DEF Stores, PutFails, Working, faultVars
    <2>2. Puts(i) \subseteq {"raw", "normalized"} \X Content \X (Kind \cup {"txt"})
      BY <1>w, <2>1 DEF Puts, Key, Raws
    <2>3. objects \subseteq objects' /\ objects' \subseteq objects \cup Puts(i)
      BY <1>4 DEF Stores, PutFails
    <2>4. StoreShape'
      BY <2>1, <2>2, <2>3 DEF Drains, Shape, StoreShape
    <2>5. CASE Stores(i)
      <3>1. step' = [step EXCEPT ![i] = "persist"] /\ Puts(i) \subseteq objects'
        BY <2>5 DEF Stores
      <3> QED
        BY <2>1, <2>3, <2>4, <3>1, DrainsAlone DEF Steps
    <2>6. CASE PutFails(i)
      <3>1. step' = [step EXCEPT ![i] = "stopped"]
        BY <2>6 DEF PutFails
      <3> QED
        BY <2>1, <2>3, <2>4, <3>1, DrainsAlone DEF Steps
    <2> QED
      BY <1>4, <2>5, <2>6
  <1>5. CASE Persists(i)
    <2>1. Working(i) /\ UNCHANGED <<runs, objects, announced, silenced>>
      BY <1>5 DEF Persists, Working, faultVars
    <2>2. CASE Conflicts(i)
      <3>1. step' = [step EXCEPT ![i] = "stopped"] /\ UNCHANGED <<next, raw, results, documents>>
        BY <1>5, <2>2 DEF Persists
      <3>2. StoreShape'
        BY <2>1, <3>1 DEF Drains, Shape, StoreShape
      <3> QED
        BY <2>1, <3>1, <3>2, DrainsAlone DEF Steps
    <2>3. CASE ~Conflicts(i)
      <3>0. documents' = Append(documents, Row(raw[i]))
        BY <1>5, <2>3 DEF Persists
      <3>1. documents' \in Seq(DocumentRow)
        BY <1>w, <2>1, <3>0, InsertFacts DEF Drains
      <3>2. StoreShape'
        BY <2>1, <3>1 DEF Drains, Shape, StoreShape
      <3>3. CASE Parsed(raw[i])
        <4>1. step' = [step EXCEPT ![i] = "publish"] /\ UNCHANGED <<next, raw, results>>
          BY <1>5, <2>3, <3>3 DEF Persists
        <4> QED
          BY <2>1, <3>2, <4>1, DrainsAlone DEF Steps
      <3>4. CASE ~Parsed(raw[i])
        <4>1. Result(i, "parse_failed")
          BY <1>5, <2>3, <3>4 DEF Persists
        <4> QED
          BY <2>1, <3>2, <4>1, DrainsResult
      <3> QED
        BY <3>3, <3>4
    <2> QED
      BY <2>2, <2>3
  <1>6. CASE Publishes(i)
    <2>1. /\ Working(i) /\ UNCHANGED <<runs, objects, documents, silenced>>
          /\ announced' = Append(announced, raw[i].content) /\ Result(i, "ingested")
      BY <1>6 DEF Publishes, Working, faultVars
    <2>2. announced' \in Seq(Content)
      BY <1>w, <2>1, AppendFacts DEF Raws, Drains, Shape, StoreShape
    <2>3. StoreShape'
      BY <2>1, <2>2 DEF Drains, Shape, StoreShape
    <2> QED
      BY <2>1, <2>3, DrainsResult
  <1>7. CASE IsKilled(i)
    <2>1. /\ step' = [step EXCEPT ![i] = "stopped"]
          /\ UNCHANGED <<next, raw, results, runs>> /\ UNCHANGED storeVars
          /\ silenced' = IF step[i] = "publish" THEN silenced \cup {raw[i].content} ELSE silenced
      BY <1>7 DEF IsKilled
    <2>2. silenced' \subseteq Content
      BY <1>w, <1>m, <2>1 DEF Working, Raws
    <2> QED
      BY <1>s, <2>1, <2>2, DrainsAlone DEF Steps
  <1>8. CASE RunsAgain(i)
    <2>0. /\ step' = [step EXCEPT ![i] = "fetch"] /\ next' = [next EXCEPT ![i] = 1]
          /\ raw' = [raw EXCEPT ![i] = NoRaw] /\ results' = [results EXCEPT ![i] = <<>>]
          /\ runs' = [runs EXCEPT ![i] = @ + 1] /\ runs[i] < MaxRuns
          /\ UNCHANGED <<objects, documents, announced, silenced>>
      BY <1>8 DEF RunsAgain, storeVars, faultVars
    <2>1. IngesterShape' /\ StoreShape'
      <3>1. runs' \in [Ingester -> 1..MaxRuns]
        BY <2>0, IngestionAssumption DEF Drains, Shape, IngesterShape
      <3> QED
        BY <2>0, <3>1 DEF Drains, Shape, IngesterShape, StoreShape, Steps
    <2>k. /\ step'[i] = "fetch" /\ next'[i] = 1 /\ results'[i] = <<>>
          /\ \A j \in Ingester : j # i => /\ step'[j] = step[j] /\ next'[j] = next[j]
                                         /\ raw'[j] = raw[j] /\ results'[j] = results[j]
      BY <2>0 DEF Drains, Shape, IngesterShape
    <2>2. Progress'
      <3> SUFFICES ASSUME NEW j \in Ingester
                   PROVE  /\ next'[j] = Len(results'[j]) + 1 /\ Len(results'[j]) <= Limit
                          /\ Len(results'[j]) <= Len(Source[j])
                          /\ step'[j] = "drained" => next'[j] > Len(Source[j]) \/ Len(results'[j]) >= Limit
        BY DEF Progress, Exhausted
      <3>1. CASE j = i
        <4>1. Len(Source[j]) \in Nat /\ Limit \in Nat
          BY IngestionAssumption
        <4> QED
          BY <2>k, <3>1, <4>1
      <3>2. CASE j # i
        BY <2>k, <3>2 DEF Drains, Progress, Exhausted
      <3> QED
        BY <3>1, <3>2
    <2>3. InHand'
      <3> SUFFICES ASSUME NEW j \in Ingester
                   PROVE  /\ Working(j)' => /\ ~Exhausted(j)'
                                            /\ raw'[j] \in Raws /\ raw'[j] \in Offered(Source[j][next'[j]])
                          /\ step'[j] = "persist" => Puts(j)' \subseteq objects'
        BY DEF InHand
      <3>1. CASE j = i
        BY <2>k, <3>1 DEF Working
      <3>2. CASE j # i
        BY <2>0, <2>k, <3>2 DEF Drains, InHand, Working, Exhausted, Puts, Parsed
      <3> QED
        BY <3>1, <3>2
    <2>4. ResultsFollowSource'
      BY <2>k DEF Drains, ResultsFollowSource
    <2> QED
      BY <2>1, <2>2, <2>3, <2>4 DEF Drains, Shape
  <1> QED
    BY <1>1, <1>2, <1>3, <1>4, <1>5, <1>6, <1>7, <1>8 DEF IngesterNext, Ingests

-----------------------------------------------------------------------------
(* Rows: one row for each byte string, and its bytes under it.             *)

\* A row is only added for a content without one, after its objects were put.
LEMMA StoreGrows ==
    ASSUME Drains, NEW i \in Ingester, IngesterNext(i)
    PROVE  /\ objects \subseteq objects'
           /\ \/ documents' = documents
              \/ /\ step[i] = "persist" /\ ~Conflicts(i) /\ raw[i] \in Raws /\ Puts(i) \subseteq objects
                 /\ documents' = Append(documents, Row(raw[i]))
  <1> USE DEF storeVars
  <1>1. CASE Persists(i)
    BY <1>1 DEF Persists, Drains, InHand, Working
  <1>2. CASE Fetches(i) \/ Finishes(i) \/ FindsByHash(i) \/ Publishes(i) \/ IsKilled(i) \/ RunsAgain(i)
    BY <1>2 DEF Fetches, Finishes, FindsByHash, Publishes, IsKilled, RunsAgain
  <1>3. CASE Stores(i) \/ PutFails(i)
    BY <1>3 DEF Stores, PutFails
  <1> QED
    BY <1>1, <1>2, <1>3 DEF IngesterNext, Ingests

LEMMA RowsStep ==
    ASSUME Drains, Rows, NEW i \in Ingester, IngesterNext(i)
    PROVE  Rows'
  <1>1. CASE documents' = documents
    BY <1>1, StoreGrows DEF Rows, OneDocumentPerContent, RowHasBytes
  <1>2. CASE documents' # documents
    <2>1. /\ ~Conflicts(i) /\ raw[i] \in Raws /\ Puts(i) \subseteq objects'
          /\ documents' = Append(documents, Row(raw[i])) /\ objects \subseteq objects'
      BY <1>2, StoreGrows
    <2>2. /\ \A n \in DOMAIN documents : n \in DOMAIN documents' /\ documents'[n] = documents[n]
          /\ \A n \in DOMAIN documents' :
                n \in DOMAIN documents \/ (n = Len(documents) + 1 /\ documents'[n] = Row(raw[i]))
      BY <2>1, InsertFacts DEF Drains
    <2>3. \A n \in DOMAIN documents : documents[n].content # Row(raw[i]).content
      BY <2>1 DEF Conflicts, Held, Row
    <2>4. OneDocumentPerContent'
      BY <2>2, <2>3 DEF Rows, OneDocumentPerContent
    <2>5. /\ Key("raw", Row(raw[i])) \in objects'
          /\ Row(raw[i]).status = "parsed" => Key("normalized", Row(raw[i])) \in objects'
      BY <2>1 DEF Puts, Key, Row
    <2>6. RowHasBytes'
      BY <2>1, <2>2, <2>5 DEF Rows, RowHasBytes
    <2> QED
      BY <2>4, <2>6 DEF Rows
  <1> QED
    BY <1>1, <1>2

-----------------------------------------------------------------------------
(* Announcements and results.                                              *)

\* A step that neither writes nor announces, nor has an announcement before it,
\* and adds at most the result that its document is there already.
LEMMA QuietStep ==
    ASSUME Announcements, ResultsMatchRows, NEW i \in Ingester,
           UNCHANGED <<documents, announced, silenced>>, step[i] # "publish", step'[i] # "publish",
           \A j \in Ingester : j # i => /\ step'[j] = step[j] /\ raw'[j] = raw[j]
                                       /\ results'[j] = results[j],
           \A k \in DOMAIN results'[i] :
               \/ k \in DOMAIN results[i] /\ results'[i][k] = results[i][k]
               \/ results'[i][k].status = "duplicate" /\ Held(results'[i][k].content) # {}
    PROVE  Announcements' /\ ResultsMatchRows'
  <1>1. \A c : Held(c)' = Held(c)
    BY DEF Held
  <1>2. Publishing'
    BY <1>1 DEF Announcements, Publishing
  <1>3. AnnouncedOnce' /\ UnannouncedCostsAKill'
    BY <1>1 DEF Announcements, AnnouncedOnce, UnannouncedCostsAKill
  <1>4. \A j \in Ingester : \A k \in DOMAIN results'[j] :
           \/ k \in DOMAIN results[j] /\ results'[j][k] = results[j][k]
           \/ results'[j][k].status = "duplicate" /\ Held(results'[j][k].content) # {}
    OBVIOUS
  <1>5. ResultsMatchRows'
    BY <1>1, <1>4 DEF ResultsMatchRows
  <1> QED
    BY <1>2, <1>3, <1>5 DEF Announcements

\* Held of any state of the table.
HeldIn(rows, c) == {n \in DOMAIN rows : rows[n].content = c}
LEMMA HeldIsHeldIn == \A c : Held(c) = HeldIn(documents, c) /\ Held(c)' = HeldIn(documents', c)
  BY DEF Held, HeldIn

\* What Publishing says of one ingester, in any two states of the variables.
Unpublished(j, s, r, docs, ann, res) ==
    /\ \E n \in HeldIn(docs, r[j].content) : docs[n].status = "parsed"
    /\ \A n \in DOMAIN ann : ann[n] # r[j].content
    /\ \A l \in Ingester : s[l] = "publish" /\ r[l].content = r[j].content => l = j
    /\ \A l \in Ingester : \A k \in DOMAIN res[l] :
          res[l][k].content = r[j].content => res[l][k].status = "duplicate"
LEMMA PublishingIs ==
    ASSUME \A j \in Ingester : step'[j] = "publish" =>
               Unpublished(j, step', raw', documents', announced', results')
    PROVE  Publishing'
  BY HeldIsHeldIn DEF Publishing, Unpublished

\* What an insert makes of Held.
LEMMA HeldAfterInsert ==
    ASSUME Drains, NEW i \in Ingester, raw[i] \in Raws, ~Conflicts(i),
           documents' = Append(documents, Row(raw[i]))
    PROVE  /\ Held(raw[i].content) = {} /\ HeldIn(documents', raw[i].content) = {Len(documents) + 1}
           /\ \A c : c # raw[i].content => HeldIn(documents', c) = Held(c)
           /\ \A n \in DOMAIN documents : documents'[n] = documents[n]
           /\ documents'[Len(documents) + 1] = Row(raw[i])
  <1>1. /\ \A n \in DOMAIN documents : n \in DOMAIN documents' /\ documents'[n] = documents[n]
        /\ \A n \in DOMAIN documents' :
              n \in DOMAIN documents \/ (n = Len(documents) + 1 /\ documents'[n] = Row(raw[i]))
        /\ Len(documents) + 1 \in DOMAIN documents' /\ documents'[Len(documents) + 1] = Row(raw[i])
        /\ Len(documents) + 1 \notin DOMAIN documents
    BY InsertFacts DEF Drains
  <1>2. Row(raw[i]).content = raw[i].content
    BY DEF Row
  <1>3. Held(raw[i].content) = {}
    BY DEF Conflicts
  <1>4. \A n \in DOMAIN documents : documents[n].content # raw[i].content
    BY <1>3 DEF Held
  <1>5. HeldIn(documents', raw[i].content) = {Len(documents) + 1}
    BY <1>1, <1>2, <1>4 DEF HeldIn
  <1>6. ASSUME NEW c, c # raw[i].content PROVE HeldIn(documents', c) = Held(c)
    BY <1>1, <1>2, <1>6 DEF Held, HeldIn
  <1> QED
    BY <1>1, <1>3, <1>5, <1>6

\* Nothing announced, announcing or reported has a content without a row.
LEMMA UnheldIsUnknown ==
    ASSUME Announcements, ResultsMatchRows, NEW c, Held(c) = {}
    PROVE  /\ \A n \in DOMAIN announced : announced[n] # c
           /\ \A j \in Ingester : step[j] = "publish" => raw[j].content # c
           /\ \A j \in Ingester : \A k \in DOMAIN results[j] : results[j][k].content # c
  BY DEF Announcements, Publishing, AnnouncedOnce, ResultsMatchRows

LEMMA ResultsKept ==
    ASSUME ResultsMatchRows, results' = results,
           \A c : Held(c) # {} => HeldIn(documents', c) = Held(c),
           \A c : \A n \in Held(c) : documents'[n] = documents[n]
    PROVE  ResultsMatchRows'
  <1> SUFFICES ASSUME NEW j \in Ingester, NEW k \in DOMAIN results[j]
               PROVE  /\ HeldIn(documents', results[j][k].content) # {}
                      /\ results[j][k].status # "duplicate" =>
                           /\ \A n \in HeldIn(documents', results[j][k].content) :
                                documents'[n].status =
                                    (IF results[j][k].status = "ingested" THEN "parsed" ELSE "failed")
                           /\ \A l \in Ingester : \A m \in DOMAIN results[l] :
                                /\ results[l][m].content = results[j][k].content
                                /\ results[l][m].status # "duplicate"
                                => <<j, k>> = <<l, m>>
    BY HeldIsHeldIn DEF ResultsMatchRows
  <1>1. Held(results[j][k].content) # {}
    BY DEF ResultsMatchRows
  <1>2. HeldIn(documents', results[j][k].content) = Held(results[j][k].content)
    BY <1>1
  <1>3. results[j][k].status # "duplicate" =>
             /\ \A n \in Held(results[j][k].content) :
                  documents[n].status = (IF results[j][k].status = "ingested" THEN "parsed" ELSE "failed")
             /\ \A l \in Ingester : \A m \in DOMAIN results[l] :
                  /\ results[l][m].content = results[j][k].content
                  /\ results[l][m].status # "duplicate"
                  => <<j, k>> = <<l, m>>
    BY DEF ResultsMatchRows
  <1> QED
    BY <1>1, <1>2, <1>3

\* The insert of a parsed document: its announcement comes next.
LEMMA ParsedInsertStep ==
    ASSUME IngestInv, NEW i \in Ingester, raw[i] \in Raws, ~Conflicts(i), Parsed(raw[i]),
           documents' = Append(documents, Row(raw[i])), step' = [step EXCEPT ![i] = "publish"],
           UNCHANGED <<raw, results, announced, silenced>>, step[i] = "persist"
    PROVE  Announcements' /\ ResultsMatchRows'
  <1> DEFINE c0 == raw[i].content
             e == Len(documents) + 1
  <1>1. /\ Held(c0) = {} /\ HeldIn(documents', c0) = {e} /\ \A c : c # c0 => HeldIn(documents', c) = Held(c)
        /\ \A n \in DOMAIN documents : documents'[n] = documents[n]
        /\ documents'[e] = Row(raw[i])
    BY HeldAfterInsert DEF IngestInv
  <1>2. /\ \A n \in DOMAIN announced : announced[n] # c0
        /\ \A j \in Ingester : step[j] = "publish" => raw[j].content # c0
        /\ \A j \in Ingester : \A k \in DOMAIN results[j] : results[j][k].content # c0
    BY <1>1, UnheldIsUnknown DEF IngestInv
  <1>3. documents'[e].status = "parsed" /\ documents'[e].content = c0
    BY <1>1 DEF Row
  <1>4. step'[i] = "publish" /\ \A j \in Ingester : j # i => step'[j] = step[j]
    BY DEF IngestInv, Drains, Shape, IngesterShape
  <1>5. \A c : \A n \in Held(c) : documents'[n] = documents[n]
    BY <1>1 DEF Held
  <1> HIDE DEF c0, e
  <1>6. Publishing'
    <2> SUFFICES ASSUME NEW j \in Ingester, step'[j] = "publish"
                 PROVE  Unpublished(j, step', raw', documents', announced', results')
      BY PublishingIs
    <2>1. CASE j = i
      BY <1>1, <1>2, <1>3, <1>4, <2>1 DEF c0, Unpublished
    <2>2. CASE j # i
      <3>1. step[j] = "publish" /\ raw[j].content # c0
        BY <1>2, <1>4, <2>2
      <3>2. HeldIn(documents', raw[j].content) = Held(raw[j].content)
        BY <1>1, <3>1
      <3>3. /\ \E n \in Held(raw[j].content) : documents[n].status = "parsed"
            /\ \A n \in DOMAIN announced : announced[n] # raw[j].content
            /\ \A l \in Ingester : step[l] = "publish" /\ raw[l].content = raw[j].content => l = j
            /\ \A l \in Ingester : \A k \in DOMAIN results[l] :
                  results[l][k].content = raw[j].content => results[l][k].status = "duplicate"
        BY <3>1 DEF IngestInv, Announcements, Publishing
      <3>4. raw[i].content # raw[j].content
        BY <3>1 DEF c0
      <3>5. \E n \in HeldIn(documents', raw[j].content) : documents'[n].status = "parsed"
        BY <1>5, <3>2, <3>3
      <3>6. \A l \in Ingester : step'[l] = "publish" /\ raw[l].content = raw[j].content => l = j
        BY <1>4, <3>3, <3>4
      <3>7. raw' = raw /\ results' = results /\ announced' = announced
        OBVIOUS
      <3>8. Unpublished(j, step', raw, documents', announced, results)
        BY <3>3, <3>5, <3>6, Zenon DEF Unpublished
      <3> QED
        BY <3>7, <3>8
    <2> QED
      BY <2>1, <2>2
  <1>7. AnnouncedOnce'
    <2>1. \A n \in DOMAIN announced :
             \E k \in HeldIn(documents', announced[n]) : documents'[k].status = "parsed"
      <3> TAKE n \in DOMAIN announced
      <3>1. HeldIn(documents', announced[n]) = Held(announced[n])
        BY <1>1, <1>2
      <3>2. PICK k \in Held(announced[n]) : documents[k].status = "parsed"
        BY DEF IngestInv, Announcements, AnnouncedOnce
      <3> QED
        BY <1>5, <3>1, <3>2
    <2> QED
      BY HeldIsHeldIn, <2>1 DEF IngestInv, Announcements, AnnouncedOnce
  <1>8. UnannouncedCostsAKill'
    <2> SUFFICES ASSUME NEW n \in DOMAIN documents', documents'[n].status = "parsed"
                 PROVE  \/ \E k \in DOMAIN announced : announced[k] = documents'[n].content
                        \/ documents'[n].content \in silenced
                        \/ \E j \in Ingester : step'[j] = "publish" /\ raw[j].content = documents'[n].content
      BY DEF UnannouncedCostsAKill
    <2>1. n \in DOMAIN documents \/ n = e
      BY InsertFacts DEF IngestInv, Drains, e
    <2>2. CASE n = e
      BY <1>3, <1>4, <2>2 DEF c0
    <2>3. CASE n \in DOMAIN documents
      <3>1. documents'[n] = documents[n]
        BY <1>1, <2>3
      <3> QED
        BY <1>4, <2>3, <3>1 DEF IngestInv, Announcements, UnannouncedCostsAKill
    <2> QED
      BY <2>1, <2>2, <2>3
  <1>9. ResultsMatchRows'
    <2>1. \A c : Held(c) # {} => HeldIn(documents', c) = Held(c)
      BY <1>1
    <2> QED
      BY <1>5, <2>1, ResultsKept DEF IngestInv
  <1> QED
    BY <1>6, <1>7, <1>8, <1>9 DEF Announcements

\* A result other than "duplicate", the first that a content with a row gets.
LEMMA FirstResult ==
    ASSUME ResultsMatchRows, NEW i \in Ingester, Drains, raw[i] \in Raws,
           NEW s \in {"ingested", "parse_failed"}, Result(i, s),
           \A c : Held(c) \subseteq HeldIn(documents', c) /\ (c # raw[i].content => HeldIn(documents', c) = Held(c)),
           \A c : \A n \in Held(c) : documents'[n] = documents[n],
           HeldIn(documents', raw[i].content) # {},
           \A n \in HeldIn(documents', raw[i].content) :
               documents'[n].status = (IF s = "ingested" THEN "parsed" ELSE "failed"),
           \A j \in Ingester : \A k \in DOMAIN results[j] :
               results[j][k].content = raw[i].content => results[j][k].status = "duplicate"
    PROVE  ResultsMatchRows'
  <1> DEFINE r == [content |-> raw[i].content, status |-> s]
             last == Len(results[i]) + 1
  <1>1. /\ \A j \in Ingester : j # i => results'[j] = results[j]
        /\ \A k \in DOMAIN results[i] : k \in DOMAIN results'[i] /\ results'[i][k] = results[i][k]
        /\ \A k \in DOMAIN results'[i] : k \in DOMAIN results[i] \/ (k = last /\ results'[i][k] = r)
    <2>1. Shape /\ s \in {"ingested", "duplicate", "parse_failed"}
      BY DEF Drains
    <2>2. Reported(i, r)
      BY <2>1, ResultFacts
    <2> HIDE DEF r
    <2> QED
      BY <2>2 DEF Reported
  <1>2. r.content = raw[i].content /\ r.status = s /\ s # "duplicate"
    OBVIOUS
  <1> HIDE DEF r, last
  <1>3. \A j \in Ingester : \A k \in DOMAIN results'[j] :
           \/ k \in DOMAIN results[j] /\ results'[j][k] = results[j][k]
           \/ j = i /\ k = last /\ results'[j][k] = r
    BY <1>1
  <1> SUFFICES ASSUME NEW j \in Ingester, NEW k \in DOMAIN results'[j]
               PROVE  /\ HeldIn(documents', results'[j][k].content) # {}
                      /\ results'[j][k].status # "duplicate" =>
                           /\ \A n \in HeldIn(documents', results'[j][k].content) :
                                documents'[n].status =
                                    (IF results'[j][k].status = "ingested" THEN "parsed" ELSE "failed")
                           /\ \A l \in Ingester : \A m \in DOMAIN results'[l] :
                                /\ results'[l][m].content = results'[j][k].content
                                /\ results'[l][m].status # "duplicate"
                                => <<j, k>> = <<l, m>>
    BY HeldIsHeldIn DEF ResultsMatchRows
  <1>4. CASE j = i /\ k = last /\ results'[j][k] = r
    BY <1>2, <1>3, <1>4
  <1>5. CASE k \in DOMAIN results[j] /\ results'[j][k] = results[j][k]
    <2>1. HeldIn(documents', results[j][k].content) # {}
      BY <1>5 DEF ResultsMatchRows
    <2>2. ASSUME results[j][k].status # "duplicate"
          PROVE  /\ results[j][k].content # raw[i].content
                 /\ \A n \in HeldIn(documents', results[j][k].content) :
                      documents'[n].status =
                          (IF results[j][k].status = "ingested" THEN "parsed" ELSE "failed")
                 /\ \A l \in Ingester : \A m \in DOMAIN results'[l] :
                      /\ results'[l][m].content = results[j][k].content
                      /\ results'[l][m].status # "duplicate"
                      => <<j, k>> = <<l, m>>
      <3>1. results[j][k].content # raw[i].content
        BY <1>5, <2>2
      <3> QED
        BY <1>2, <1>3, <1>5, <2>2, <3>1 DEF ResultsMatchRows
    <2> QED
      BY <1>5, <2>1, <2>2
  <1> QED
    BY <1>3, <1>4, <1>5

\* The insert of a document without text: it is reported at once.
LEMMA FailedInsertStep ==
    ASSUME IngestInv, NEW i \in Ingester, raw[i] \in Raws, ~Conflicts(i), ~Parsed(raw[i]),
           documents' = Append(documents, Row(raw[i])), Result(i, "parse_failed"),
           UNCHANGED <<announced, silenced>>, step[i] = "persist"
    PROVE  Announcements' /\ ResultsMatchRows'
  <1> DEFINE c0 == raw[i].content
             e == Len(documents) + 1
  <1>1. /\ Held(c0) = {} /\ HeldIn(documents', c0) = {e} /\ \A c : c # c0 => HeldIn(documents', c) = Held(c)
        /\ \A n \in DOMAIN documents : documents'[n] = documents[n]
        /\ documents'[e] = Row(raw[i])
    BY HeldAfterInsert DEF IngestInv
  <1>2. /\ \A n \in DOMAIN announced : announced[n] # c0
        /\ \A j \in Ingester : step[j] = "publish" => raw[j].content # c0
        /\ \A j \in Ingester : \A k \in DOMAIN results[j] : results[j][k].content # c0
    BY <1>1, UnheldIsUnknown DEF IngestInv
  <1>3. documents'[e].status = "failed"
    BY <1>1 DEF Row
  <1>4. /\ step'[i] = "fetch"
        /\ \A j \in Ingester : j # i => step'[j] = step[j] /\ raw'[j] = raw[j]
    BY DEF Result, IngestInv, Drains, Shape, IngesterShape
  <1>5. \A c : \A n \in Held(c) : documents'[n] = documents[n]
    BY <1>1 DEF Held
  <1>6. /\ \A j \in Ingester : j # i => results'[j] = results[j]
        /\ \A k \in DOMAIN results'[i] :
              (k \in DOMAIN results[i] /\ results'[i][k] = results[i][k]) \/ results'[i][k].content = c0
    <2> DEFINE r == [content |-> raw[i].content, status |-> "parse_failed"]
    <2>1. r.content = c0
      OBVIOUS
    <2>2. Reported(i, r)
      BY ResultFacts DEF IngestInv, Drains
    <2> HIDE DEF r, c0
    <2> QED
      BY <2>1, <2>2 DEF Reported
  <1> HIDE DEF c0, e
  <1>7. Publishing'
    <2> SUFFICES ASSUME NEW j \in Ingester, step'[j] = "publish"
                 PROVE  Unpublished(j, step', raw', documents', announced', results')
      BY PublishingIs
    <2>1. j # i /\ step[j] = "publish" /\ raw'[j] = raw[j] /\ raw[j].content # c0
      BY <1>2, <1>4
    <2>2. HeldIn(documents', raw[j].content) = Held(raw[j].content)
      BY <1>1, <2>1
    <2>3. /\ \E n \in Held(raw[j].content) : documents[n].status = "parsed"
          /\ \A n \in DOMAIN announced : announced[n] # raw[j].content
          /\ \A l \in Ingester : step[l] = "publish" /\ raw[l].content = raw[j].content => l = j
          /\ \A l \in Ingester : \A k \in DOMAIN results[l] :
                results[l][k].content = raw[j].content => results[l][k].status = "duplicate"
      BY <2>1 DEF IngestInv, Announcements, Publishing
    <2>4. \E n \in HeldIn(documents', raw[j].content) : documents'[n].status = "parsed"
      BY <1>5, <2>2, <2>3
    <2>5. \A l \in Ingester : step'[l] = "publish" /\ raw'[l].content = raw[j].content => l = j
      BY <1>4, <2>3
    <2>6. \A l \in Ingester : \A k \in DOMAIN results'[l] :
             results'[l][k].content = raw[j].content => results'[l][k].status = "duplicate"
      BY <1>6, <2>1, <2>3
    <2>7. raw'[j].content = raw[j].content
      BY <2>1
    <2>8. \E n \in HeldIn(documents', raw'[j].content) : documents'[n].status = "parsed"
      BY <2>4, <2>7
    <2>9. \A n \in DOMAIN announced' : announced'[n] # raw'[j].content
      BY <2>3, <2>7
    <2>10. \A l \in Ingester : step'[l] = "publish" /\ raw'[l].content = raw'[j].content => l = j
      BY <2>5, <2>7
    <2>11. \A l \in Ingester : \A k \in DOMAIN results'[l] :
             results'[l][k].content = raw'[j].content => results'[l][k].status = "duplicate"
      BY <2>6, <2>7
    <2> QED
      BY <2>8, <2>9, <2>10, <2>11 DEF Unpublished
  <1>8. AnnouncedOnce'
    <2>1. \A n \in DOMAIN announced :
             \E k \in HeldIn(documents', announced[n]) : documents'[k].status = "parsed"
      <3> TAKE n \in DOMAIN announced
      <3>1. HeldIn(documents', announced[n]) = Held(announced[n])
        BY <1>1, <1>2
      <3>2. PICK k \in Held(announced[n]) : documents[k].status = "parsed"
        BY DEF IngestInv, Announcements, AnnouncedOnce
      <3> QED
        BY <1>5, <3>1, <3>2
    <2> QED
      BY HeldIsHeldIn, <2>1 DEF IngestInv, Announcements, AnnouncedOnce
  <1>9. UnannouncedCostsAKill'
    <2> SUFFICES ASSUME NEW n \in DOMAIN documents', documents'[n].status = "parsed"
                 PROVE  \/ \E k \in DOMAIN announced : announced[k] = documents'[n].content
                        \/ documents'[n].content \in silenced
                        \/ \E j \in Ingester : step'[j] = "publish" /\ raw'[j].content = documents'[n].content
      BY DEF UnannouncedCostsAKill
    <2>1. n \in DOMAIN documents \/ n = e
      BY InsertFacts DEF IngestInv, Drains, e
    <2>2. n \in DOMAIN documents /\ documents'[n] = documents[n]
      BY <1>1, <1>3, <2>1
    <2> QED
      BY <1>4, <2>2 DEF IngestInv, Announcements, UnannouncedCostsAKill
  <1>10. ResultsMatchRows'
    <2>1. \A c : Held(c) \subseteq HeldIn(documents', c) /\ (c # raw[i].content => HeldIn(documents', c) = Held(c))
      BY <1>1 DEF c0
    <2> QED
      BY <1>1, <1>2, <1>3, <1>5, <2>1, FirstResult DEF IngestInv, c0
  <1> QED
    BY <1>7, <1>8, <1>9, <1>10 DEF Announcements

LEMMA PublishStep ==
    ASSUME IngestInv, NEW i \in Ingester, Publishes(i)
    PROVE  Announcements' /\ ResultsMatchRows'
  <1> DEFINE c0 == raw[i].content
  <1> USE DEF Publishes, storeVars, faultVars
  <1>1. raw[i] \in Raws /\ step[i] = "publish" /\ UNCHANGED <<documents, silenced>>
    BY DEF IngestInv, Drains, InHand, Working
  <1>2. /\ \E n \in Held(c0) : documents[n].status = "parsed"
        /\ \A n \in DOMAIN announced : announced[n] # c0
        /\ \A j \in Ingester : step[j] = "publish" /\ raw[j].content = c0 => j = i
        /\ \A j \in Ingester : \A k \in DOMAIN results[j] :
              results[j][k].content = c0 => results[j][k].status = "duplicate"
    BY <1>1 DEF IngestInv, Announcements, Publishing
  <1>3. /\ step'[i] = "fetch"
        /\ \A j \in Ingester : j # i => step'[j] = step[j] /\ raw'[j] = raw[j]
    BY DEF Result, IngestInv, Drains, Shape, IngesterShape
  <1>4. /\ \A n \in DOMAIN announced : n \in DOMAIN announced' /\ announced'[n] = announced[n]
        /\ \A n \in DOMAIN announced' :
              n \in DOMAIN announced \/ (n = Len(announced) + 1 /\ announced'[n] = c0)
        /\ Len(announced) + 1 \in DOMAIN announced' /\ announced'[Len(announced) + 1] = c0
    BY <1>1, AppendFacts DEF IngestInv, Drains, Shape, StoreShape, Raws
  <1>5. /\ \A j \in Ingester : j # i => results'[j] = results[j]
        /\ \A k \in DOMAIN results'[i] :
              (k \in DOMAIN results[i] /\ results'[i][k] = results[i][k]) \/ results'[i][k].content = c0
    <2> DEFINE r == [content |-> raw[i].content, status |-> "ingested"]
    <2>1. r.content = c0
      OBVIOUS
    <2>2. Reported(i, r)
      BY <1>1, ResultFacts DEF IngestInv, Drains
    <2> HIDE DEF r, c0
    <2> QED
      BY <2>1, <2>2 DEF Reported
  <1>6. \A c : HeldIn(documents', c) = Held(c)
    BY <1>1 DEF Held, HeldIn
  <1>7. ResultsMatchRows'
    <2>1. \A n \in Held(c0) : documents[n].status = "parsed"
      BY <1>2 DEF IngestInv, Rows, OneDocumentPerContent, Held
    <2>2. Result(i, "ingested") /\ ResultsMatchRows /\ Drains
      BY DEF IngestInv
    <2>3. /\ \A c : Held(c) \subseteq HeldIn(documents', c) /\ (c # raw[i].content => HeldIn(documents', c) = Held(c))
          /\ \A c : \A n \in Held(c) : documents'[n] = documents[n]
      BY <1>1, <1>6
    <2>4. /\ HeldIn(documents', raw[i].content) # {}
          /\ \A n \in HeldIn(documents', raw[i].content) : documents'[n].status = "parsed"
      BY <1>1, <1>2, <1>6, <2>1
    <2>5. \A j \in Ingester : \A k \in DOMAIN results[j] :
             results[j][k].content = raw[i].content => results[j][k].status = "duplicate"
      BY <1>2
    <2> HIDE DEF Publishes
    <2> QED
      BY <1>1, <2>2, <2>3, <2>4, <2>5, FirstResult
  <1> HIDE DEF c0, Publishes
  <1>8. Publishing'
    <2> SUFFICES ASSUME NEW j \in Ingester, step'[j] = "publish"
                 PROVE  Unpublished(j, step', raw', documents', announced', results')
      BY PublishingIs
    <2>1. j # i /\ step[j] = "publish" /\ raw'[j] = raw[j] /\ raw[j].content # c0
      BY <1>2, <1>3
    <2>2. Unpublished(j, step, raw, documents, announced, results)
      BY <2>1, HeldIsHeldIn DEF IngestInv, Announcements, Publishing, Unpublished
    <2> QED
      BY <1>1, <1>3, <1>4, <1>5, <1>6, <2>1, <2>2, HeldIsHeldIn DEF Unpublished
  <1>9. AnnouncedOnce'
    BY HeldIsHeldIn, <1>1, <1>2, <1>4, <1>6 DEF IngestInv, Announcements, AnnouncedOnce
  <1>10. UnannouncedCostsAKill'
    <2> SUFFICES ASSUME NEW n \in DOMAIN documents, documents[n].status = "parsed"
                 PROVE  \/ \E k \in DOMAIN announced' : announced'[k] = documents[n].content
                        \/ documents[n].content \in silenced
                        \/ \E j \in Ingester : step'[j] = "publish" /\ raw'[j].content = documents[n].content
      BY <1>1 DEF UnannouncedCostsAKill
    <2>1. CASE documents[n].content = c0
      BY <1>4, <2>1
    <2>2. CASE documents[n].content # c0
      BY <1>3, <1>4, <2>2 DEF IngestInv, Announcements, UnannouncedCostsAKill, c0
    <2> QED
      BY <2>1, <2>2
  <1> QED
    BY <1>7, <1>8, <1>9, <1>10 DEF Announcements

\* A kill between the commit and the event silences the document.
LEMMA KillStep ==
    ASSUME IngestInv, NEW i \in Ingester, IsKilled(i), step[i] = "publish"
    PROVE  Announcements' /\ ResultsMatchRows'
  <1> USE DEF IsKilled, storeVars
  <1>1. /\ UNCHANGED <<raw, results, documents, announced>> /\ silenced' = silenced \cup {raw[i].content}
        /\ step'[i] = "stopped" /\ \A j \in Ingester : j # i => step'[j] = step[j]
    BY DEF IngestInv, Drains, Shape, IngesterShape
  <1> HIDE DEF IsKilled
  <1>2. \A c : HeldIn(documents', c) = Held(c)
    BY <1>1 DEF Held, HeldIn
  <1>3. Publishing'
    BY HeldIsHeldIn, <1>1, <1>2 DEF IngestInv, Announcements, Publishing
  <1>4. AnnouncedOnce' /\ UnannouncedCostsAKill' /\ ResultsMatchRows'
    BY HeldIsHeldIn, <1>1, <1>2 DEF IngestInv, Announcements, AnnouncedOnce, UnannouncedCostsAKill, ResultsMatchRows
  <1> QED
    BY <1>3, <1>4 DEF Announcements

LEMMA AnnouncementsStep ==
    ASSUME IngestInv, NEW i \in Ingester, IngesterNext(i)
    PROVE  Announcements' /\ ResultsMatchRows'
  <1> USE DEF Drains, Shape, IngesterShape, storeVars, faultVars
  <1>0. Announcements /\ ResultsMatchRows
    BY DEF IngestInv
  <1>1. CASE Fetches(i) \/ Finishes(i) \/ Stores(i) \/ PutFails(i) \/ (IsKilled(i) /\ step[i] # "publish")
    <2>1. /\ UNCHANGED <<results, documents, announced, silenced>> /\ step[i] # "publish" /\ step'[i] # "publish"
          /\ \A j \in Ingester : j # i => step'[j] = step[j] /\ raw'[j] = raw[j]
      BY <1>1 DEF IngestInv, Fetches, Finishes, Stores, PutFails, IsKilled
    <2> QED
      BY <1>0, <2>1, QuietStep
  <1>2. CASE FindsByHash(i)
    <2>1. raw[i] \in Raws /\ step[i] = "find" /\ UNCHANGED <<documents, announced, silenced>>
      BY <1>2 DEF IngestInv, FindsByHash, InHand, Working
    <2>2. CASE Held(raw[i].content) # {}
      <3>1. Result(i, "duplicate")
        BY <1>2, <2>2 DEF FindsByHash
      <3>2. step'[i] = "fetch" /\ \A j \in Ingester : j # i => step'[j] = step[j] /\ raw'[j] = raw[j]
        BY <3>1 DEF Result, IngestInv
      <3> DEFINE r == [content |-> raw[i].content, status |-> "duplicate"]
      <3>3. /\ \A j \in Ingester : j # i => results'[j] = results[j]
            /\ \A k \in DOMAIN results[i] : k \in DOMAIN results'[i] /\ results'[i][k] = results[i][k]
            /\ \A k \in DOMAIN results'[i] :
                  k \in DOMAIN results[i] \/ (k = Len(results[i]) + 1 /\ results'[i][k] = r)
        <4>1. Reported(i, r)
          BY <2>1, <3>1, ResultFacts DEF IngestInv
        <4> HIDE DEF r
        <4> QED
          BY <4>1 DEF Reported
      <3>4. r.status = "duplicate" /\ Held(r.content) # {}
        BY <2>2
      <3> HIDE DEF r
      <3> QED
        BY <1>0, <2>1, <3>2, <3>3, <3>4, QuietStep
    <2>3. CASE Held(raw[i].content) = {}
      <3>1. step' = [step EXCEPT ![i] = "store"] /\ UNCHANGED <<raw, results>>
        BY <1>2, <2>3 DEF FindsByHash
      <3>2. step'[i] = "store" /\ \A j \in Ingester : j # i => step'[j] = step[j]
        BY <3>1 DEF IngestInv
      <3> QED
        BY <1>0, <2>1, <3>1, <3>2, QuietStep
    <2> QED
      BY <2>2, <2>3
  <1>3. CASE Persists(i)
    <2>1. raw[i] \in Raws /\ step[i] = "persist" /\ UNCHANGED <<announced, silenced>>
      BY <1>3 DEF IngestInv, Persists, InHand, Working
    <2>2. CASE Conflicts(i)
      <3>1. step' = [step EXCEPT ![i] = "stopped"] /\ UNCHANGED <<raw, results, documents>>
        BY <1>3, <2>2 DEF Persists
      <3>2. step'[i] = "stopped" /\ \A j \in Ingester : j # i => step'[j] = step[j]
        BY <3>1 DEF IngestInv
      <3> QED
        BY <1>0, <2>1, <3>1, <3>2, QuietStep
    <2>3. CASE ~Conflicts(i) /\ Parsed(raw[i])
      BY <1>3, <2>1, <2>3, ParsedInsertStep DEF Persists
    <2>4. CASE ~Conflicts(i) /\ ~Parsed(raw[i])
      BY <1>3, <2>1, <2>4, FailedInsertStep DEF Persists
    <2> QED
      BY <2>2, <2>3, <2>4
  <1>4. CASE Publishes(i)
    BY <1>4, PublishStep
  <1>5. CASE IsKilled(i) /\ step[i] = "publish"
    BY <1>5, KillStep
  <1>6. CASE RunsAgain(i)
    <2>1. /\ UNCHANGED <<documents, announced, silenced>> /\ step[i] # "publish" /\ step'[i] = "fetch"
          /\ \A j \in Ingester : j # i => step'[j] = step[j] /\ raw'[j] = raw[j] /\ results'[j] = results[j]
          /\ results'[i] = <<>>
      BY <1>6 DEF IngestInv, RunsAgain
    <2> QED
      BY <1>0, <2>1, QuietStep
  <1> QED
    BY <1>1, <1>2, <1>3, <1>4, <1>5, <1>6 DEF IngesterNext, Ingests

-----------------------------------------------------------------------------
(* Extraction: its rows, and what an extractor has in hand.                *)

Mode == {"none", "qualitative", "quantitative"}
StageRow ==
    [at : {"idle", "ask", "look", "record", "persist"}, agent : Agent \cup {"none"},
     document : Content \cup {"none"}, attempts : Nat, mode : Mode, proposed : SUBSET Quote,
     known : BOOLEAN, run : Nat, classified : Nat]
RunRow ==
    [agent : Agent, document : Content, attempts : 1..MaxAttempts, mode : Mode,
     proposed : SUBSET Quote, after : Nat, status : {"succeeded", "rejected"}]

ExtractorShape ==
    /\ stage \in [Extractor -> StageRow]
    /\ versions \in [Agent -> {0, 1}]
    /\ agentRuns \in Seq(RunRow)

\* The classification of a document that an extraction follows.
Classifies(n, document) ==
    /\ n \in DOMAIN agentRuns
    /\ agentRuns[n].agent = "classifier" /\ agentRuns[n].document = document
    /\ agentRuns[n].mode = "qualitative"

\* What an agent has been asked is in hand until it is recorded, then its run.
Asked(s) ==
    /\ s.document \in Content /\ s.agent \in Agent
    /\ s.agent = "extractor" => Classifies(s.classified, s.document) /\ s.mode = "qualitative"
    /\ s.agent = "classifier" => s.proposed = {} /\ (s.at # "ask" => s.mode # "none")
    /\ s.at = "ask" => s.attempts < MaxAttempts
    /\ s.at \in {"look", "record"} => s.attempts \in 1..MaxAttempts
    /\ s.at = "record" /\ s.known => versions[s.agent] = 1
RunOf(s) ==
    /\ s.run \in DOMAIN agentRuns /\ agentRuns[s.run].agent = "extractor"
    /\ agentRuns[s.run].document = s.document /\ agentRuns[s.run].proposed = s.proposed
    /\ Stored(s.run) = {}
StageOK(s) ==
    /\ s.at # "idle" => Asked(s)
    /\ s.at = "persist" => RunOf(s)
    /\ s.attempts <= MaxAttempts
    /\ s.run \in 0..Len(agentRuns) /\ s.classified \in 0..Len(agentRuns)
Stages ==
    /\ \A x \in Extractor : StageOK(stage[x])
    /\ \A x, y \in Extractor :
          stage[x].at = "persist" /\ stage[y].at = "persist" /\ stage[x].run = stage[y].run => x = y

Lacks(document, q) == ~Ground[document, q]
\* A run is of an agent whose version is there; only a ground for it rejects it.
RunsAreExplained ==
    \A n \in DOMAIN agentRuns :
        /\ versions[agentRuns[n].agent] = 1
        /\ agentRuns[n].agent = "classifier" => agentRuns[n].proposed = {}
        /\ agentRuns[n].status = "rejected" =>
              \E q \in agentRuns[n].proposed : Lacks(agentRuns[n].document, q)
ClaimsHaveRuns ==
    \A c \in claims :
        /\ c.run \in DOMAIN agentRuns
        /\ c.document = agentRuns[c.run].document
        /\ c.quote \in Found(agentRuns[c.run])
        /\ c.late => c.quote \in Misdated

RunsInv == RunsAreExplained /\ ExtractionFollowsClassification
ExtractInv == ExtractorShape /\ Stages /\ RunsInv /\ ClaimsHaveRuns /\ ClaimsOfARunAreWhole

LEMMA BecomesFacts ==
    ASSUME ExtractorShape, NEW x \in Extractor, NEW s \in StageRow, Becomes(x, s)
    PROVE  /\ stage' \in [Extractor -> StageRow] /\ stage'[x] = s
           /\ \A y \in Extractor : y # x => stage'[y] = stage[y]
  <1> HIDE DEF StageRow
  <1> QED
    BY DEF ExtractorShape, Becomes

LEMMA IdleFacts == Idle \in StageRow /\ Idle.at = "idle" /\ StageOK(Idle)
  <1>1. Idle \in StageRow /\ Idle.at = "idle" /\ Idle.attempts = 0 /\ Idle.run = 0 /\ Idle.classified = 0
    BY DEF Idle, StageRow, Mode
  <1> QED
    BY <1>1, ExtractionAssumption DEF StageOK

\* A step of an extractor that neither records nor persists.
LEMMA StageMove ==
    ASSUME ExtractInv, NEW x \in Extractor, NEW s \in StageRow, Becomes(x, s), StageOK(s),
           stage[x].at # "persist", s.at # "persist",
           UNCHANGED <<versions, agentRuns, claims, interrupted>>
    PROVE  ExtractInv'
  <1>1. /\ stage' \in [Extractor -> StageRow] /\ stage'[x] = s
        /\ \A y \in Extractor : y # x => stage'[y] = stage[y]
    BY BecomesFacts DEF ExtractInv
  <1>2. ExtractorShape'
    BY <1>1 DEF ExtractInv, ExtractorShape
  <1>3. \A t : StageOK(t)' = StageOK(t)
    BY DEF StageOK, Asked, RunOf, Classifies, Stored
  <1>4. Stages'
    BY <1>1, <1>3 DEF ExtractInv, Stages
  <1>5. RunsInv' /\ ClaimsHaveRuns'
    BY DEF ExtractInv, RunsInv, RunsAreExplained, ExtractionFollowsClassification, ClaimsHaveRuns
  <1>6. ClaimsOfARunAreWhole'
    <2>1. \A n : Stored(n)' = Stored(n)
      BY DEF Stored
    <2> QED
      BY <1>1, <2>1 DEF ExtractInv, ClaimsOfARunAreWhole
  <1> QED
    BY <1>2, <1>4, <1>5, <1>6 DEF ExtractInv

\* What an extractor has in hand after an answer, a failed attempt, a look-up.
ModeAnswered(r, m) == [r EXCEPT !.at = "look", !.attempts = @ + 1, !.mode = m]
QuotesAnswered(r, p) == [r EXCEPT !.at = "look", !.attempts = @ + 1, !.proposed = p]
AskedAgain(r) == [r EXCEPT !.attempts = r.attempts + 1]
LookedUp(r, k) == [r EXCEPT !.at = "record", !.known = k]
Keeps(s, r) ==
    /\ s.agent = r.agent /\ s.document = r.document
    /\ s.run = r.run /\ s.classified = r.classified

LEMMA ModeAnsweredFacts ==
    ASSUME NEW r \in StageRow, NEW m \in Mode
    PROVE  LET s == ModeAnswered(r, m)
           IN  /\ s \in StageRow /\ s.at = "look" /\ s.attempts = r.attempts + 1 /\ s.mode = m
               /\ Keeps(s, r) /\ s.proposed = r.proposed
  <1>1. r.attempts + 1 \in Nat
    BY DEF StageRow
  <1> QED
    BY <1>1 DEF StageRow, ModeAnswered, Keeps

LEMMA QuotesAnsweredFacts ==
    ASSUME NEW r \in StageRow, NEW p \in SUBSET Quote
    PROVE  LET s == QuotesAnswered(r, p)
           IN  /\ s \in StageRow /\ s.at = "look" /\ s.attempts = r.attempts + 1
               /\ Keeps(s, r) /\ s.proposed = p /\ s.mode = r.mode
  <1>1. r.attempts + 1 \in Nat
    BY DEF StageRow
  <1> QED
    BY <1>1 DEF StageRow, QuotesAnswered, Keeps

LEMMA AskedAgainFacts ==
    ASSUME NEW r \in StageRow
    PROVE  LET s == AskedAgain(r)
           IN  /\ s \in StageRow /\ s.at = r.at /\ s.attempts = r.attempts + 1 /\ s.mode = r.mode
               /\ Keeps(s, r) /\ s.proposed = r.proposed
  <1>1. r.attempts + 1 \in Nat
    BY DEF StageRow
  <1> QED
    BY <1>1 DEF StageRow, AskedAgain, Keeps

LEMMA LookedUpFacts ==
    ASSUME NEW r \in StageRow, NEW k \in BOOLEAN
    PROVE  LET s == LookedUp(r, k)
           IN  /\ s \in StageRow /\ s.at = "record" /\ s.attempts = r.attempts /\ s.mode = r.mode
               /\ Keeps(s, r) /\ s.proposed = r.proposed /\ s.known = k
  BY DEF StageRow, LookedUp, Keeps

\* A document handed over, an answer, a refusal, a look-up, or a kill before the
\* run is recorded.
LEMMA AskingStep ==
    ASSUME ExtractInv, StoreShape, NEW x \in Extractor,
           \/ Starts(x) \/ Valid(x) \/ Invalid(x) \/ Refuses(x) \/ LooksUpVersion(x)
           \/ ExtractorIsKilled(x) /\ stage[x].at # "persist"
    PROVE  ExtractInv'
  <1> USE ExtractionAssumption
  <1>0. stage[x] \in StageRow /\ StageOK(stage[x]) /\ versions \in [Agent -> {0, 1}]
    BY DEF ExtractInv, ExtractorShape, Stages
  <1>1. CASE Starts(x)
    <2>1. PICK n \in DOMAIN announced :
             Becomes(x, [Idle EXCEPT !.at = "ask", !.agent = "classifier", !.document = announced[n]])
      BY <1>1 DEF Starts
    <2> DEFINE s == [Idle EXCEPT !.at = "ask", !.agent = "classifier", !.document = announced[n]]
    <2>2. announced[n] \in Content
      BY DEF StoreShape
    <2>3. /\ s.at = "ask" /\ s.agent = "classifier" /\ s.document \in Content /\ s.attempts = 0
          /\ s.proposed = {} /\ s.run = 0 /\ s.classified = 0 /\ s \in StageRow
      BY <2>2, IdleFacts DEF Idle, StageRow, Agent, Mode
    <2>4. stage[x].at # "persist" /\ UNCHANGED <<versions, agentRuns, claims, interrupted>>
      BY <1>1 DEF Starts
    <2> HIDE DEF s
    <2>5. StageOK(s)
      <3>1. Len(agentRuns) \in Nat
        BY DEF ExtractInv, ExtractorShape
      <3> QED
        BY <2>3, <3>1 DEF StageOK, Asked, Agent
    <2> QED
      BY <2>1, <2>3, <2>4, <2>5, StageMove DEF s
  <1>2. CASE Valid(x)
    <2>0. stage[x].at = "ask" /\ UNCHANGED <<versions, agentRuns, claims, interrupted>>
      BY <1>2 DEF Valid
    <2>1. CASE stage[x].agent = "classifier"
      <3>1. PICK m \in {"qualitative", "quantitative"} : Becomes(x, ModeAnswered(stage[x], m))
        BY <1>2, <2>1 DEF Valid, ModeAnswered
      <3> DEFINE s == ModeAnswered(stage[x], m)
      <3>2. m \in Mode /\ m # "none"
        BY DEF Mode
      <3>3. /\ s \in StageRow /\ s.at = "look" /\ s.attempts = stage[x].attempts + 1 /\ s.mode = m
            /\ Keeps(s, stage[x]) /\ s.proposed = stage[x].proposed
        BY <1>0, <3>2, ModeAnsweredFacts
      <3> HIDE DEF s
      <3>4. StageOK(s)
        BY <1>0, <2>0, <2>1, <3>2, <3>3 DEF StageOK, Asked, Agent, Keeps, StageRow
      <3> QED
        BY <2>0, <3>1, <3>3, <3>4, StageMove DEF s
    <2>2. CASE stage[x].agent = "extractor"
      <3>1. PICK p \in Proposals : Becomes(x, QuotesAnswered(stage[x], p))
        BY <1>2, <2>2 DEF Valid, QuotesAnswered
      <3> DEFINE s == QuotesAnswered(stage[x], p)
      <3>2. p \in SUBSET Quote
        BY DEF Quote
      <3>3. /\ s \in StageRow /\ s.at = "look" /\ s.attempts = stage[x].attempts + 1
            /\ Keeps(s, stage[x]) /\ s.mode = stage[x].mode
        BY <1>0, <3>2, QuotesAnsweredFacts
      <3> HIDE DEF s
      <3>4. StageOK(s)
        BY <1>0, <2>0, <2>2, <3>3 DEF StageOK, Asked, Agent, Keeps, StageRow
      <3> QED
        BY <2>0, <3>1, <3>3, <3>4, StageMove DEF s
    <2> QED
      BY <1>2, <2>1, <2>2 DEF Valid
  <1>3. CASE Invalid(x) \/ Refuses(x) \/ (ExtractorIsKilled(x) /\ stage[x].at # "persist")
    <2>0. stage[x].at # "persist" /\ UNCHANGED <<versions, agentRuns, claims, interrupted>>
      BY <1>3 DEF Invalid, Refuses, ExtractorIsKilled
    <2>1. CASE Becomes(x, Idle)
      BY <2>0, <2>1, IdleFacts, StageMove
    <2>2. CASE ~Becomes(x, Idle)
      <3> DEFINE s == AskedAgain(stage[x])
      <3>1. stage[x].at = "ask" /\ Attempted(x) # MaxAttempts /\ Becomes(x, s)
        BY <1>3, <2>2 DEF Invalid, Refuses, ExtractorIsKilled, AskedAgain, Attempted
      <3>2. /\ s \in StageRow /\ s.at = stage[x].at /\ s.attempts = stage[x].attempts + 1
            /\ s.mode = stage[x].mode /\ Keeps(s, stage[x]) /\ s.proposed = stage[x].proposed
        BY <1>0, AskedAgainFacts
      <3> HIDE DEF s
      <3>3. StageOK(s)
        BY <1>0, <3>1, <3>2 DEF StageOK, Asked, Attempted, Keeps, StageRow
      <3> QED
        BY <2>0, <3>1, <3>2, <3>3, StageMove
    <2> QED
      BY <2>1, <2>2
  <1>4. CASE LooksUpVersion(x)
    <2> DEFINE k == versions[stage[x].agent] > 0
               s == LookedUp(stage[x], k)
    <2>1. stage[x].at = "look" /\ Becomes(x, s) /\ UNCHANGED <<versions, agentRuns, claims, interrupted>>
      BY <1>4 DEF LooksUpVersion, LookedUp
    <2>2. versions[stage[x].agent] \in {0, 1}
      <3>1. stage[x].agent \in Agent
        BY <1>0, <2>1 DEF StageOK, Asked
      <3> QED
        BY <1>0, <3>1
    <2>3. k \in BOOLEAN
      BY <2>2
    <2>4. k => versions[stage[x].agent] = 1
      BY <2>2
    <2> HIDE DEF k
    <2>5. /\ s \in StageRow /\ s.at = "record" /\ s.attempts = stage[x].attempts /\ s.mode = stage[x].mode
          /\ Keeps(s, stage[x]) /\ s.proposed = stage[x].proposed /\ s.known = k
      BY <1>0, <2>3, LookedUpFacts
    <2> HIDE DEF s
    <2>6. StageOK(s)
      BY <1>0, <2>1, <2>4, <2>5 DEF StageOK, Asked, Keeps
    <2> QED
      BY <2>1, <2>5, <2>6, StageMove
  <1> QED
    BY <1>1, <1>2, <1>3, <1>4

\* The row of the run that an extractor records.
LEMMA RunRowFacts ==
    ASSUME ExtractInv, NEW x \in Extractor, stage[x].at = "record"
    PROVE  LET r == AgentRunRow(x)
           IN  /\ r \in RunRow /\ r.agent = stage[x].agent /\ r.document = stage[x].document
               /\ r.mode = stage[x].mode /\ r.proposed = stage[x].proposed /\ r.after = stage[x].classified
               /\ r.status = "rejected" =>
                     /\ r.agent = "extractor"
                     /\ \E q \in r.proposed : Lacks(r.document, q)
  <1>1. stage[x] \in StageRow /\ stage[x].agent \in Agent /\ stage[x].document \in Content
        /\ stage[x].attempts \in 1..MaxAttempts
    BY DEF ExtractInv, ExtractorShape, Stages, StageOK, Asked
  <1>2. /\ stage[x].mode \in Mode /\ stage[x].proposed \in SUBSET Quote /\ stage[x].classified \in Nat
    BY <1>1 DEF StageRow
  <1>3. AgentRunRow(x) \in RunRow
    BY <1>1, <1>2 DEF AgentRunRow, RunRow
  <1>4. CASE Passed(x)
    BY <1>3, <1>4 DEF AgentRunRow
  <1>5. CASE ~Passed(x)
    <2>1. stage[x].agent = "extractor" /\ \E q \in stage[x].proposed : Lacks(stage[x].document, q)
      BY <1>5, Zenon DEF Passed, Lacks
    <2> QED
      BY <1>3, <2>1 DEF AgentRunRow
  <1> QED
    BY <1>4, <1>5

\* What recording makes of what an extractor has in hand.
LEMMA RecordedFacts ==
    ASSUME ExtractInv, NEW x \in Extractor, stage[x].at = "record", NEW n \in Nat
    PROVE  LET s == Recorded(x, n)
           IN  /\ s \in StageRow
               /\ \/ s = Idle /\ stage[x].agent = "classifier"
                  \/ /\ stage[x].agent = "extractor" /\ s.at = "persist" /\ s.run = n /\ s.agent = stage[x].agent
                     /\ s.document = stage[x].document /\ s.proposed = stage[x].proposed
                     /\ s.attempts = stage[x].attempts /\ s.classified = stage[x].classified
                     /\ s.mode = "qualitative"
                  \/ /\ stage[x].agent = "classifier" /\ stage[x].mode = "qualitative"
                     /\ s.at = "ask" /\ s.agent = "extractor" /\ s.attempts = 0 /\ s.classified = n
                     /\ s.document = stage[x].document /\ s.run = stage[x].run /\ s.mode = "qualitative"
  <1>1. /\ stage[x] \in StageRow /\ stage[x].agent \in Agent /\ stage[x].document \in Content
        /\ stage[x].agent = "classifier" => stage[x].mode # "none"
        /\ stage[x].agent = "extractor" => stage[x].mode = "qualitative"
    BY DEF ExtractInv, ExtractorShape, Stages, StageOK, Asked
  <1>2. CASE stage[x].agent = "extractor"
    <2> DEFINE s == [stage[x] EXCEPT !.at = "persist", !.run = n]
    <2>1. Recorded(x, n) = s
      BY <1>1, <1>2 DEF Recorded
    <2>2. /\ s \in StageRow /\ s.at = "persist" /\ s.run = n /\ s.agent = stage[x].agent
          /\ s.document = stage[x].document /\ s.proposed = stage[x].proposed
          /\ s.attempts = stage[x].attempts /\ s.classified = stage[x].classified
          /\ s.mode = stage[x].mode
      BY <1>1 DEF StageRow
    <2> HIDE DEF s
    <2> QED
      BY <1>1, <1>2, <2>1, <2>2
  <1>3. CASE stage[x].agent # "extractor" /\ stage[x].mode = "quantitative"
    <2>1. Recorded(x, n) = Idle
      BY <1>3 DEF Recorded
    <2> QED
      BY <1>1, <1>3, <2>1, IdleFacts DEF Agent
  <1>4. CASE stage[x].agent # "extractor" /\ stage[x].mode # "quantitative"
    <2> DEFINE s == [stage[x] EXCEPT !.at = "ask", !.agent = "extractor", !.attempts = 0, !.classified = n]
    <2>1. Recorded(x, n) = s
      BY <1>4 DEF Recorded
    <2>2. /\ s \in StageRow /\ s.at = "ask" /\ s.agent = "extractor" /\ s.attempts = 0 /\ s.classified = n
          /\ s.document = stage[x].document /\ s.run = stage[x].run /\ s.mode = stage[x].mode
      BY <1>1 DEF StageRow, Agent
    <2>3. stage[x].agent = "classifier" /\ stage[x].mode = "qualitative"
      BY <1>1, <1>4 DEF Agent, StageRow, Mode
    <2> HIDE DEF s
    <2> QED
      BY <2>1, <2>2, <2>3
  <1> QED
    BY <1>2, <1>3, <1>4

LEMMA RecordsStep ==
    ASSUME ExtractInv, NEW x \in Extractor, Records(x)
    PROVE  ExtractInv'
  <1> USE ExtractionAssumption
  <1>0. stage[x].at = "record" /\ UNCHANGED <<claims, interrupted>>
    BY DEF Records
  <1>1. CASE VersionConflicts(x)
    <2>1. Becomes(x, Idle) /\ UNCHANGED <<versions, agentRuns>>
      BY <1>1 DEF Records
    <2> QED
      BY <1>0, <2>1, IdleFacts, StageMove
  <1>2. CASE ~VersionConflicts(x)
    <2> DEFINE a == stage[x].agent
               r == AgentRunRow(x)
               e == Len(agentRuns) + 1
               s == Recorded(x, e)
    <2>1. /\ stage[x] \in StageRow /\ StageOK(stage[x]) /\ a \in Agent
          /\ agentRuns \in Seq(RunRow) /\ versions \in [Agent -> {0, 1}]
      BY <1>0 DEF ExtractInv, ExtractorShape, Stages, StageOK, Asked
    <2>2. /\ r \in RunRow /\ r.agent = a /\ r.document = stage[x].document
          /\ r.mode = stage[x].mode /\ r.proposed = stage[x].proposed /\ r.after = stage[x].classified
          /\ r.status = "rejected" =>
                /\ r.agent = "extractor"
                /\ \E q \in r.proposed : Lacks(r.document, q)
      BY <1>0, RunRowFacts
    <2>3. /\ agentRuns' = Append(agentRuns, r) /\ Becomes(x, Recorded(x, Len(agentRuns')))
          /\ versions' = IF stage[x].known THEN versions ELSE [versions EXCEPT ![a] = @ + 1]
      BY <1>2 DEF Records
    <2> HIDE DEF a, r
    <2>4. /\ agentRuns' \in Seq(RunRow) /\ Len(agentRuns') = e /\ e \in Nat
          /\ \A n \in DOMAIN agentRuns : n \in DOMAIN agentRuns' /\ agentRuns'[n] = agentRuns[n]
          /\ \A n \in DOMAIN agentRuns' : n \in DOMAIN agentRuns \/ (n = e /\ agentRuns'[n] = r)
          /\ e \in DOMAIN agentRuns' /\ agentRuns'[e] = r /\ e \notin DOMAIN agentRuns
          /\ DOMAIN agentRuns = 1..(e - 1)
      <3> HIDE DEF RunRow
      <3>1. Len(agentRuns) \in Nat /\ DOMAIN agentRuns = 1..Len(agentRuns)
        BY <2>1
      <3>2. e \in Nat /\ e - 1 = Len(agentRuns)
        BY <3>1
      <3>3. /\ Append(agentRuns, r) \in Seq(RunRow) /\ Len(Append(agentRuns, r)) = e
            /\ \A n \in DOMAIN agentRuns :
                  n \in DOMAIN Append(agentRuns, r) /\ Append(agentRuns, r)[n] = agentRuns[n]
            /\ \A n \in DOMAIN Append(agentRuns, r) :
                  n \in DOMAIN agentRuns \/ (n = e /\ Append(agentRuns, r)[n] = r)
            /\ e \in DOMAIN Append(agentRuns, r) /\ Append(agentRuns, r)[e] = r /\ e \notin DOMAIN agentRuns
        BY <2>1, <2>2, AppendFacts
      <3> QED
        BY <2>3, <3>1, <3>2, <3>3
    <2>5. /\ s \in StageRow
          /\ \/ s = Idle /\ a = "classifier"
             \/ /\ a = "extractor" /\ s.at = "persist" /\ s.run = e /\ s.agent = a
                /\ s.document = stage[x].document /\ s.proposed = stage[x].proposed
                /\ s.attempts = stage[x].attempts /\ s.classified = stage[x].classified
                /\ s.mode = "qualitative"
             \/ /\ a = "classifier" /\ stage[x].mode = "qualitative"
                /\ s.at = "ask" /\ s.agent = "extractor" /\ s.attempts = 0 /\ s.classified = e
                /\ s.document = stage[x].document /\ s.run = stage[x].run /\ s.mode = "qualitative"
      BY <1>0, <2>4, RecordedFacts DEF a
    <2>6. Becomes(x, s)
      BY <2>3, <2>4
    <2>7. /\ versions' \in [Agent -> {0, 1}] /\ versions'[a] = 1
          /\ \A b \in Agent : versions[b] = 1 => versions'[b] = 1
      <3>1. CASE stage[x].known
        <4>1. versions[a] = 1
          BY <1>0, <2>1, <3>1 DEF StageOK, Asked, a
        <4> QED
          BY <2>1, <2>3, <3>1, <4>1
      <3>2. CASE ~stage[x].known
        <4>1. versions[a] = 0
          BY <1>2, <2>1, <3>2 DEF VersionConflicts, a
        <4> QED
          BY <2>1, <2>3, <3>2, <4>1
      <3> QED
        BY <3>1, <3>2
    <2>8. /\ stage' \in [Extractor -> StageRow] /\ stage'[x] = s
          /\ \A y \in Extractor : y # x => stage'[y] = stage[y]
      BY <2>5, <2>6, BecomesFacts DEF ExtractInv
    <2> HIDE DEF s, e
    <2>9. ExtractorShape'
      BY <2>4, <2>7, <2>8 DEF ExtractorShape
    <2>10. RunsInv'
      <3>1. RunsAreExplained'
        <4>1. \A n \in DOMAIN agentRuns : agentRuns[n].agent \in Agent
          <5> SUFFICES ASSUME NEW n \in DOMAIN agentRuns PROVE agentRuns[n] \in RunRow
            BY DEF RunRow
          <5> HIDE DEF RunRow
          <5> QED
            BY <2>1
        <4>2. \A n \in DOMAIN agentRuns' : versions'[agentRuns'[n].agent] = 1
          BY <2>2, <2>4, <2>7, <4>1 DEF ExtractInv, RunsInv, RunsAreExplained
        <4>3. a = "classifier" => r.proposed = {}
          BY <1>0, <2>1, <2>2 DEF StageOK, Asked, a
        <4> QED
          BY <2>2, <2>4, <4>2, <4>3 DEF ExtractInv, RunsInv, RunsAreExplained
      <3>2. ExtractionFollowsClassification'
        <4>1. a = "extractor" => Classifies(stage[x].classified, stage[x].document)
          BY <1>0, <2>1 DEF StageOK, Asked, a
        <4>2. a = "extractor" =>
                 /\ stage[x].classified \in 1..(e - 1)
                 /\ agentRuns[stage[x].classified].agent = "classifier"
                 /\ agentRuns[stage[x].classified].document = stage[x].document
                 /\ agentRuns[stage[x].classified].mode = "qualitative"
          BY <2>4, <4>1 DEF Classifies
        <4> SUFFICES ASSUME NEW n \in DOMAIN agentRuns', agentRuns'[n].agent = "extractor"
                     PROVE  /\ agentRuns'[n].after \in 1..(n - 1)
                            /\ agentRuns'[agentRuns'[n].after].agent = "classifier"
                            /\ agentRuns'[agentRuns'[n].after].document = agentRuns'[n].document
                            /\ agentRuns'[agentRuns'[n].after].mode = "qualitative"
          BY DEF ExtractionFollowsClassification
        <4>3. CASE n = e
          <5>1. agentRuns'[n] = r /\ r.after = stage[x].classified /\ stage[x].classified \in DOMAIN agentRuns
            BY <2>2, <2>4, <4>2, <4>3
          <5> QED
            BY <2>2, <2>4, <4>2, <4>3, <5>1
        <4>4. CASE n \in DOMAIN agentRuns
          <5>1. agentRuns'[n] = agentRuns[n]
            BY <2>4, <4>4
          <5>2. /\ agentRuns[n].after \in 1..(n - 1)
                /\ agentRuns[agentRuns[n].after].agent = "classifier"
                /\ agentRuns[agentRuns[n].after].document = agentRuns[n].document
                /\ agentRuns[agentRuns[n].after].mode = "qualitative"
            BY <4>4, <5>1 DEF ExtractInv, RunsInv, ExtractionFollowsClassification
          <5>3. agentRuns[n].after \in DOMAIN agentRuns
            BY <2>4, <4>4, <5>2
          <5> QED
            BY <2>4, <5>1, <5>2, <5>3
        <4> QED
          BY <2>4, <4>3, <4>4
      <3> QED
        BY <3>1, <3>2 DEF RunsInv
    <2>11. ClaimsHaveRuns'
      <3>1. \A n \in DOMAIN agentRuns : n \in DOMAIN agentRuns' /\ Found(agentRuns'[n]) = Found(agentRuns[n])
        BY <2>4
      <3> QED
        BY <1>0, <2>4, <3>1 DEF ExtractInv, ClaimsHaveRuns
    <2>12. \A n : Stored(n)' = Stored(n)
      BY <1>0 DEF Stored
    <2>13. Stored(e) = {}
      BY <2>4 DEF Stored, ExtractInv, ClaimsHaveRuns
    <2>14. Stages'
      <3>0. \A n, d : Classifies(n, d) => Classifies(n, d)'
        BY <2>4 DEF Classifies
      <3>1. ASSUME NEW t, t = s PROVE StageOK(t)'
        <4>0. agentRuns' \in Seq(RunRow) /\ Len(agentRuns') = e /\ e \in Nat
          BY <2>4
        <4>1. CASE t = Idle
          BY <4>0, <4>1, IdleFacts DEF StageOK, Idle
        <4>2. CASE t.at = "persist"
          <5>1. /\ t.agent = "extractor" /\ t.run = e /\ t.document = stage[x].document
                /\ t.proposed = stage[x].proposed /\ t.attempts = stage[x].attempts
                /\ t.classified = stage[x].classified /\ t.mode = "qualitative" /\ a = "extractor"
            BY <2>5, <3>1, <4>2, IdleFacts
          <5>2. /\ Classifies(t.classified, t.document)' /\ t.document \in Content
                /\ t.attempts \in 1..MaxAttempts
            BY <1>0, <2>1, <3>0, <5>1 DEF StageOK, Asked, a
          <5>3. RunOf(t)'
            <6>1. Stored(t.run)' = {}
              BY <2>12, <2>13, <5>1
            <6> QED
              BY <2>2, <2>4, <5>1, <6>1 DEF RunOf
          <5>4. t.classified \in 0..e
            BY <2>4, <5>2 DEF Classifies
          <5> QED
            BY <4>0, <4>2, <5>1, <5>2, <5>3, <5>4 DEF StageOK, Asked, Agent
        <4>3. CASE t.at = "ask"
          <5>1. /\ t.agent = "extractor" /\ t.attempts = 0 /\ t.classified = e
                /\ t.document = stage[x].document /\ t.run = stage[x].run /\ t.mode = "qualitative"
                /\ a = "classifier" /\ stage[x].mode = "qualitative"
            BY <2>5, <3>1, <4>3, IdleFacts
          <5>2. Classifies(t.classified, t.document)'
            BY <2>2, <2>4, <5>1 DEF Classifies
          <5>3. t.run \in 0..e /\ t.document \in Content
            BY <1>0, <2>1, <2>4, <5>1 DEF StageOK, Asked
          <5> QED
            BY <4>0, <4>3, <5>1, <5>2, <5>3 DEF StageOK, Asked, Agent
        <4> QED
          BY <2>5, <3>1, <4>1, <4>2, <4>3
      <3>2. ASSUME NEW y \in Extractor, y # x PROVE StageOK(stage[y])'
        <4>1. stage'[y] = stage[y]
          BY <2>8, <3>2
        <4>2. StageOK(stage[y]) /\ stage[y] \in StageRow
          BY DEF ExtractInv, ExtractorShape, Stages
        <4> QED
          BY <2>4, <2>7, <2>12, <3>0, <4>1, <4>2 DEF StageOK, Asked, RunOf, Agent
      <3>3. \A y \in Extractor : stage[y].at = "persist" => stage[y].run # e
        BY <2>4 DEF ExtractInv, Stages, StageOK, RunOf
      <3>4. \A y \in Extractor : StageOK(stage[y])'
        BY <2>8, <3>1, <3>2
      <3>5. \A y \in Extractor : stage'[y].at = "persist" =>
               IF y = x THEN stage'[y].run = e
               ELSE stage[y].at = "persist" /\ stage[y].run # e /\ stage'[y].run = stage[y].run
        BY <2>5, <2>8, <3>3, IdleFacts
      <3> QED
        BY <3>4, <3>5 DEF ExtractInv, Stages
    <2>15. ClaimsOfARunAreWhole'
      <3> SUFFICES ASSUME NEW n \in DOMAIN agentRuns'
                   PROVE  \/ Stored(n)' = Found(agentRuns'[n])
                          \/ /\ Stored(n)' = {}
                             /\ \/ n \in interrupted'
                                \/ \E y \in Extractor : stage'[y].at = "persist" /\ stage'[y].run = n
        BY DEF ClaimsOfARunAreWhole
      <3>1. CASE n \in DOMAIN agentRuns
        <4>1. agentRuns'[n] = agentRuns[n] /\ Stored(n)' = Stored(n)
          BY <2>4, <2>12, <3>1
        <4>2. \A y \in Extractor : stage[y].at = "persist" => stage'[y] = stage[y]
          BY <1>0, <2>8
        <4> QED
          BY <1>0, <3>1, <4>1, <4>2 DEF ExtractInv, ClaimsOfARunAreWhole
      <3>2. CASE n = e
        <4>1. Stored(n)' = {} /\ agentRuns'[n] = r
          BY <2>4, <2>12, <2>13, <3>2
        <4>2. CASE a = "classifier"
          <5>1. r.proposed = {}
            BY <1>0, <2>1, <2>2, <4>2 DEF StageOK, Asked, a
          <5>2. Found(r) = {}
            BY <5>1, Zenon DEF Found
          <5> QED
            BY <4>1, <5>2
        <4>3. CASE a = "extractor"
          BY <2>5, <2>8, <3>2, <4>1, <4>3
        <4> QED
          BY <2>1, <4>2, <4>3 DEF Agent
      <3> QED
        BY <2>4, <3>1, <3>2
    <2> QED
      BY <2>9, <2>10, <2>11, <2>14, <2>15 DEF ExtractInv
  <1> QED
    BY <1>1, <1>2

\* The Claims of a run come all at once, those whose quotes are found.
LEMMA PersistsStep ==
    ASSUME ExtractInv, NEW x \in Extractor, stage[x].at = "persist", Becomes(x, Idle),
           UNCHANGED <<versions, agentRuns>>,
           \/ /\ claims' = claims \cup {ClaimRow(x, q) : q \in Accepted(x)}
              /\ interrupted' = interrupted
           \/ /\ claims' = claims
              /\ interrupted' = interrupted \cup {stage[x].run}
    PROVE  ExtractInv'
  <1>7. PICK n0 : n0 = stage[x].run
    OBVIOUS
  <1>0. RunOf(stage[x]) /\ StageOK(stage[x])
    BY DEF ExtractInv, Stages, StageOK
  <1>1. /\ stage' \in [Extractor -> StageRow] /\ stage'[x] = Idle
        /\ \A y \in Extractor : y # x => stage'[y] = stage[y]
    BY IdleFacts, BecomesFacts DEF ExtractInv
  <1>2. Accepted(x) = Found(agentRuns[n0])
    <2>1. agentRuns[n0].document = stage[x].document /\ agentRuns[n0].proposed = stage[x].proposed
      BY <1>0, <1>7 DEF RunOf
    <2> QED
      BY <2>1, Zenon DEF Accepted, Found
  <1>3. \A q : /\ ClaimRow(x, q).run = n0 /\ ClaimRow(x, q).quote = q
               /\ ClaimRow(x, q).document = stage[x].document
               /\ ClaimRow(x, q).late => q \in Misdated
    BY <1>7, Zenon DEF ClaimRow
  <1>4. /\ n0 \in DOMAIN agentRuns /\ Stored(n0) = {} /\ agentRuns[n0].document = stage[x].document
        /\ \A y \in Extractor : y # x /\ stage[y].at = "persist" => stage[y].run # n0
    BY <1>0, <1>7 DEF RunOf, ExtractInv, Stages
  <1>5. CASE claims' = claims /\ interrupted' = interrupted \cup {n0}
    <2>1. \A n : Stored(n)' = Stored(n)
      BY <1>5 DEF Stored
    <2>2. Stages'
      <3>1. ASSUME NEW t PROVE StageOK(t)' = StageOK(t)
        BY <2>1 DEF StageOK, Asked, RunOf, Classifies
      <3> QED
        BY <1>1, <3>1, IdleFacts DEF ExtractInv, Stages
    <2>3. RunsInv' /\ ClaimsHaveRuns' /\ ExtractorShape'
      BY <1>1, <1>5 DEF ExtractInv, ExtractorShape, RunsInv, RunsAreExplained, ExtractionFollowsClassification, ClaimsHaveRuns
    <2>4. ClaimsOfARunAreWhole'
      BY <1>1, <1>5, <1>7, <2>1 DEF ExtractInv, ClaimsOfARunAreWhole
    <2> QED
      BY <2>2, <2>3, <2>4 DEF ExtractInv
  <1>6. CASE claims' = claims \cup {ClaimRow(x, q) : q \in Accepted(x)} /\ interrupted' = interrupted
    <2>1. \A n : n # n0 => Stored(n)' = Stored(n)
      BY <1>3, <1>6 DEF Stored
    <2>2. Stored(n0)' = Found(agentRuns[n0])
      BY <1>2, <1>3, <1>4, <1>6 DEF Stored
    <2>3. Stages'
      <3>1. \A n, d : Classifies(n, d)' = Classifies(n, d)
        BY DEF Classifies
      <3>2. ASSUME NEW t, StageOK(t), t.at = "persist" => t.run # n0 PROVE StageOK(t)'
        BY <2>1, <3>1, <3>2 DEF StageOK, Asked, RunOf
      <3>3. \A y \in Extractor : StageOK(stage[y])'
        <4> TAKE y \in Extractor
        <4>1. CASE y = x
          BY <1>1, <3>2, <4>1, IdleFacts
        <4>2. CASE y # x
          BY <1>1, <1>4, <3>2, <4>2 DEF ExtractInv, Stages
        <4> QED
          BY <4>1, <4>2
      <3> QED
        BY <1>1, <3>3, IdleFacts DEF ExtractInv, Stages
    <2>4. RunsInv' /\ ExtractorShape'
      BY <1>1 DEF ExtractInv, ExtractorShape, RunsInv, RunsAreExplained, ExtractionFollowsClassification
    <2>5. ClaimsHaveRuns'
      BY <1>2, <1>3, <1>4, <1>6 DEF ExtractInv, ClaimsHaveRuns
    <2>6. ClaimsOfARunAreWhole'
      <3> SUFFICES ASSUME NEW n \in DOMAIN agentRuns
                   PROVE  \/ Stored(n)' = Found(agentRuns[n])
                          \/ /\ Stored(n)' = {}
                             /\ \/ n \in interrupted
                                \/ \E y \in Extractor : stage'[y].at = "persist" /\ stage'[y].run = n
        BY <1>6 DEF ClaimsOfARunAreWhole
      <3>1. CASE n = n0
        BY <2>2, <3>1
      <3>2. CASE n # n0
        BY <1>1, <1>7, <2>1, <3>2 DEF ExtractInv, ClaimsOfARunAreWhole
      <3> QED
        BY <3>1, <3>2
    <2> QED
      BY <2>3, <2>4, <2>5, <2>6 DEF ExtractInv
  <1> QED
    BY <1>5, <1>6, <1>7

-----------------------------------------------------------------------------
(* The theorems.                                                           *)

IInv == IngestInv /\ ExtractInv

LEMMA InitHolds == Init => IInv
  <1> SUFFICES ASSUME Init PROVE IInv
    OBVIOUS
  <1>1. Drains
    BY DrainsInit DEF Init
  <1>2. IngestInv
    BY <1>1 DEF Init, IngestionInit, IngestInv, Rows, OneDocumentPerContent, RowHasBytes, Announcements,
                Publishing, AnnouncedOnce, UnannouncedCostsAKill, ResultsMatchRows
  <1>3. ExtractorShape
    BY IdleFacts DEF Init, ExtractorShape
  <1>4. Stages
    BY IdleFacts DEF Init, Stages
  <1>5. RunsInv /\ ClaimsHaveRuns /\ ClaimsOfARunAreWhole
    BY DEF Init, RunsInv, RunsAreExplained, ExtractionFollowsClassification, ClaimsHaveRuns, ClaimsOfARunAreWhole
  <1> QED
    BY <1>2, <1>3, <1>4, <1>5 DEF IInv, ExtractInv

\* What is not touched stays as it is.
LEMMA IngestUntouched ==
    ASSUME IngestInv, UNCHANGED <<ingesterVars, storeVars, silenced>>
    PROVE  IngestInv'
  <1> USE DEF ingesterVars, storeVars
  <1>1. Drains'
    BY DEF IngestInv, Drains, Shape, IngesterShape, StoreShape, Progress, Exhausted, InHand, Working, Puts, Parsed,
           ResultsFollowSource
  <1>2. \A c : Held(c)' = Held(c)
    BY DEF Held
  <1>3. Rows' /\ Announcements' /\ ResultsMatchRows'
    BY <1>2 DEF IngestInv, Rows, OneDocumentPerContent, RowHasBytes, Announcements, Publishing, AnnouncedOnce,
                UnannouncedCostsAKill, ResultsMatchRows
  <1> QED
    BY <1>1, <1>3 DEF IngestInv

LEMMA ExtractUntouched ==
    ASSUME ExtractInv, UNCHANGED extractionVars
    PROVE  ExtractInv'
  <1> USE DEF extractionVars
  <1>1. ExtractorShape' /\ RunsInv' /\ ClaimsHaveRuns'
    BY DEF ExtractInv, ExtractorShape, RunsInv, RunsAreExplained, ExtractionFollowsClassification, ClaimsHaveRuns
  <1>2. /\ \A n : Stored(n)' = Stored(n)
        /\ \A t : StageOK(t)' = StageOK(t)
    BY DEF Stored, StageOK, Asked, RunOf, Classifies
  <1>3. Stages' /\ ClaimsOfARunAreWhole'
    BY <1>2 DEF ExtractInv, Stages, ClaimsOfARunAreWhole
  <1> QED
    BY <1>1, <1>3 DEF ExtractInv

LEMMA StepHolds == IInv /\ [Next]_vars => IInv'
  <1> SUFFICES ASSUME IInv, [Next]_vars PROVE IInv'
    OBVIOUS
  <1>1. CASE UNCHANGED vars
    BY <1>1, IngestUntouched, ExtractUntouched DEF IInv, vars, ingestionVars, faultVars
  <1>2. ASSUME NEW i \in Ingester, IngesterNext(i), UNCHANGED extractionVars PROVE IInv'
    <2>1. Drains' /\ Rows' /\ Announcements' /\ ResultsMatchRows'
      BY <1>2, DrainsStep, RowsStep, AnnouncementsStep DEF IInv, IngestInv
    <2> QED
      BY <1>2, <2>1, ExtractUntouched DEF IInv, IngestInv
  <1>3. ASSUME NEW x \in Extractor, Starts(x) \/ Extracts(x) \/ ExtractorIsKilled(x) PROVE IInv'
    <2>1. IngestInv'
      BY <1>3, IngestUntouched
         DEF IInv, Starts, Extracts, ExtractorIsKilled, Valid, Invalid, Refuses, LooksUpVersion, Records, PersistsClaims,
             ingestionVars, faultVars
    <2>2. StoreShape
      BY DEF IInv, IngestInv, Drains, Shape
    <2>3. ExtractInv'
      <3>1. CASE Records(x)
        BY <3>1, RecordsStep DEF IInv
      <3>2. CASE PersistsClaims(x)
        BY <3>2, PersistsStep DEF IInv, PersistsClaims
      <3>3. CASE ExtractorIsKilled(x) /\ stage[x].at = "persist"
        <4>1. interrupted' = interrupted \cup {stage[x].run}
          BY <3>3 DEF ExtractorIsKilled
        <4> QED
          BY <3>3, <4>1, PersistsStep DEF IInv, ExtractorIsKilled
      <3>4. CASE \/ Starts(x) \/ Valid(x) \/ Invalid(x) \/ Refuses(x) \/ LooksUpVersion(x)
                 \/ ExtractorIsKilled(x) /\ stage[x].at # "persist"
        BY <2>2, <3>4, AskingStep DEF IInv
      <3> QED
        BY <1>3, <3>1, <3>2, <3>3, <3>4 DEF Extracts
    <2> QED
      BY <2>1, <2>3 DEF IInv
  <1> QED
    BY <1>1, <1>2, <1>3 DEF Next

LEMMA InvHolds == Spec => []IInv
  BY InitHolds, StepHolds, PTL DEF Spec

\* However drains overlap, are killed, fail and are repeated: one document per
\* byte string, its bytes under its row, announced once or at the cost of a kill,
\* reported as it stands, and every entry of a finished drain accounted for
\* (pipeline.py:88-168).
THEOREM EveryDocumentOnce == Spec => []DocumentsAreStoredOnce
  <1>1. IInv => TypeOK
    <2> SUFFICES ASSUME IInv PROVE TypeOK
      OBVIOUS
    <2>1. IngesterShape /\ StoreShape /\ ExtractorShape /\ Stages /\ ClaimsHaveRuns
      BY DEF IInv, IngestInv, Drains, Shape, ExtractInv
    <2>2. \A n \in DOMAIN announced : announced[n] \in Content
      BY <2>1 DEF StoreShape
    <2>3. \A x \in Extractor :
              /\ stage[x].at \in {"idle", "ask", "look", "record", "persist"}
              /\ stage[x].run \in 0..Len(agentRuns) /\ stage[x].classified \in 0..Len(agentRuns)
      BY <2>1 DEF ExtractorShape, StageRow, Stages, StageOK
    <2>4. \A n \in DOMAIN agentRuns : agentRuns[n].document \in Content
      <3> SUFFICES ASSUME NEW n \in DOMAIN agentRuns PROVE agentRuns[n] \in RunRow
        BY DEF RunRow
      <3> HIDE DEF RunRow
      <3> QED
        BY <2>1 DEF ExtractorShape
    <2>5. \A c \in claims : c.run \in DOMAIN agentRuns /\ c.document \in Content
      BY <2>1, <2>4 DEF ClaimsHaveRuns
    <2> QED
      BY <2>1, <2>2, <2>3, <2>5 DEF TypeOK, IngesterShape, StoreShape, Steps, Raws
  <1>2. IInv => DrainCoversSource
    <2> SUFFICES ASSUME IInv, NEW i \in Ingester, step[i] = "drained"
                 PROVE  Len(results[i]) = IF Len(Source[i]) < Limit THEN Len(Source[i]) ELSE Limit
      BY DEF DrainCoversSource, IInv, IngestInv, Drains, ResultsFollowSource
    <2>1. /\ next[i] = Len(results[i]) + 1 /\ Len(results[i]) <= Limit /\ Len(results[i]) <= Len(Source[i])
          /\ next[i] > Len(Source[i]) \/ Len(results[i]) >= Limit
      BY DEF IInv, IngestInv, Drains, Progress, Exhausted
    <2>2. Len(results[i]) \in Nat /\ Len(Source[i]) \in Nat /\ Limit \in Nat
      BY IngestionAssumption DEF IInv, IngestInv, Drains, Shape, IngesterShape
    <2> QED
      BY <2>1, <2>2
  <1>3. IInv => DocumentsAreStoredOnce
    BY <1>1, <1>2 DEF IInv, IngestInv, Rows, Announcements, DocumentsAreStoredOnce
  <1> QED
    BY <1>3, InvHolds, PTL

\* A recorded agent run tells what was done, whatever the model answered, however
\* often and wherever an extraction was killed: its Claims all there or none,
\* after a classification of its document, within its attempts, under versions
\* recorded once; an audit finds nothing but the Claims of runs rejected in part
\* and those the agent dated after their document (extraction.py:85,
\* persistence.py:103-221, service.py:120-174, audit.py:301-306).
THEOREM RunsAreRecordedWhole == Spec => []ExtractionRunsAreWhole
  <1>1. IInv => ClaimsOfARunAreWhole /\ ExtractionFollowsClassification
    BY DEF IInv, ExtractInv, RunsInv
  <1>2. IInv => AttemptsWithinLimit /\ VersionsRecordedOnce /\ RunsWithoutVersions = {}
    <2> SUFFICES ASSUME IInv PROVE AttemptsWithinLimit /\ VersionsRecordedOnce /\ RunsWithoutVersions = {}
      OBVIOUS
    <2>1. ExtractorShape /\ Stages /\ RunsAreExplained
      BY DEF IInv, ExtractInv, RunsInv
    <2>2. \A n \in DOMAIN agentRuns : agentRuns[n].attempts \in 1..MaxAttempts /\ agentRuns[n].agent \in Agent
      <3> SUFFICES ASSUME NEW n \in DOMAIN agentRuns PROVE agentRuns[n] \in RunRow
        BY DEF RunRow
      <3> HIDE DEF RunRow
      <3> QED
        BY <2>1 DEF ExtractorShape
    <2>3. AttemptsWithinLimit
      BY <2>1, <2>2 DEF AttemptsWithinLimit, Stages, StageOK
    <2>4. VersionsRecordedOnce
      <3> SUFFICES ASSUME NEW a \in Agent PROVE versions[a] <= 1
        BY DEF VersionsRecordedOnce
      <3>1. versions[a] = 0 \/ versions[a] = 1
        BY <2>1 DEF ExtractorShape
      <3> QED
        BY <3>1
    <2>5. RunsWithoutVersions = {}
      BY <2>1 DEF RunsWithoutVersions, RunsAreExplained
    <2> QED
      BY <2>3, <2>4, <2>5
  <1>3. IInv => DerivedRowsWithoutARun = {} /\ ClaimsFromFutureDocuments = {}
    BY DEF IInv, ExtractInv, ClaimsHaveRuns, DerivedRowsWithoutARun, ClaimsFromFutureDocuments, Attributed
  <1>4. ASSUME IInv, NEW c \in AcceptedRowsFromRejectedRuns
        PROVE  LET run == agentRuns[c.run]
               IN  c.quote \in Found(run) /\ \E q \in run.proposed : ~Ground[run.document, q]
    <2>1. c \in claims /\ c.run \in DOMAIN agentRuns /\ agentRuns[c.run].status = "rejected"
      BY DEF AcceptedRowsFromRejectedRuns, RejectedRuns
    <2>2. c.quote \in Found(agentRuns[c.run])
      BY <1>4, <2>1 DEF IInv, ExtractInv, ClaimsHaveRuns
    <2>3. \E q \in agentRuns[c.run].proposed : Lacks(agentRuns[c.run].document, q)
      BY <1>4, <2>1 DEF IInv, ExtractInv, RunsInv, RunsAreExplained
    <2> QED
      BY <2>2, <2>3, Zenon DEF Lacks
  <1>5. ASSUME IInv, NEW c \in ClaimsStatedAfterPublication
        PROVE  c.quote \in Misdated \cap Found(agentRuns[c.run])
    BY <1>5 DEF IInv, ExtractInv, ClaimsHaveRuns, ClaimsStatedAfterPublication
  <1>6. IInv => AuditsFindKnownSlips
    BY <1>2, <1>3, <1>4, <1>5, Zenon DEF AuditsFindKnownSlips
  <1>7. IInv => ExtractionRunsAreWhole
    BY <1>1, <1>2, <1>6 DEF ExtractionRunsAreWhole
  <1> QED
    BY <1>7, InvHolds, PTL

-----------------------------------------------------------------------------
(* The readers: rows that are dated, and closed when the next one comes. *)

-----------------------------------------------------------------------------
(* Dated rows: those of an entity, told by the column key, follow one another *)
(* by the column from, the day a row is dated.                                *)

Follows(from, r, s) == r.to # NoEnd /\ r.to <= s[from]
InOrder(key, from, rows) ==
    \A r, s \in rows : r[key] = s[key] /\ r # s => Follows(from, r, s) \/ Follows(from, s, r)

\* Rows of the columns a reader of moments uses.
Windows(key, from, rows) ==
    \A r \in rows : {key, from, "to"} \subseteq DOMAIN r /\ r[from] \in Nat \ {0} /\ r.to \in Nat

RowsAt(rows, from, moment) == {r \in rows : r[from] <= moment /\ (r.to = NoEnd \/ r.to > moment)}

\* Two rows that differ at most in their end, and two sets of such rows.
Echo(r, s) == DOMAIN r = DOMAIN s /\ \A x \in DOMAIN r : x # "to" => s[x] = r[x]
Echoes(A, B) == (\A r \in A : \E s \in B : Echo(r, s)) /\ (\A s \in B : \E r \in A : Echo(r, s))

\* A new row closes the current one of its entity.
Succeeds(key, from, rows, closes, new) ==
    /\ Windows(key, from, rows \cup {new})
    /\ closes = {r \in rows : r[key] = new[key] /\ r.to = NoEnd}
    /\ new.to = NoEnd
    /\ \A r \in rows : r[key] = new[key] => r[from] <= new[from] /\ r.to <= new[from]

\* Closing a row changes its end only.
LEMMA ClosedFacts ==
    ASSUME NEW r, NEW day, "to" \in DOMAIN r
    PROVE  /\ DOMAIN Closed(r, day) = DOMAIN r /\ Closed(r, day).to = day
           /\ \A x \in DOMAIN r : x # "to" => Closed(r, day)[x] = r[x]
BY Zenon DEF Closed

\* A row that closes the current one leaves the rows of its entity in order.
LEMMA SuccessorInOrder ==
    ASSUME NEW key, NEW from, key # "to", from # "to", NEW rows, NEW closes, NEW new,
           Succeeds(key, from, rows, closes, new), InOrder(key, from, rows)
    PROVE  LET after == Replaced(rows, closes, new[from]) \cup {new}
           IN InOrder(key, from, after) /\ Windows(key, from, after)
<1> DEFINE after == Replaced(rows, closes, new[from]) \cup {new}
           image(r) == IF r \in closes THEN Closed(r, new[from]) ELSE r
<1>1. \A r \in rows : /\ image(r)[key] = r[key] /\ image(r)[from] = r[from]
                      /\ DOMAIN image(r) = DOMAIN r
                      /\ image(r).to = IF r \in closes THEN new[from] ELSE r.to
  <2> SUFFICES ASSUME NEW r \in rows
               PROVE  /\ image(r)[key] = r[key] /\ image(r)[from] = r[from]
                      /\ DOMAIN image(r) = DOMAIN r
                      /\ image(r).to = IF r \in closes THEN new[from] ELSE r.to
    OBVIOUS
  <2>1. {key, from, "to"} \subseteq DOMAIN r
    BY DEF Succeeds, Windows
  <2>2. CASE r \in closes
    BY <2>1, <2>2, ClosedFacts
  <2>3. CASE r \notin closes
    BY <2>3
  <2> QED
    BY <2>2, <2>3
<1>2. \A s \in after : s = new \/ \E r \in rows : s = image(r)
  BY DEF Replaced
<1>3. new[from] \in Nat \ {0}
  BY DEF Succeeds, Windows
<1>4. Windows(key, from, after)
  <2> SUFFICES ASSUME NEW s \in after
               PROVE  {key, from, "to"} \subseteq DOMAIN s /\ s[from] \in Nat \ {0} /\ s.to \in Nat
    BY DEF Windows
  <2>1. CASE s = new
    BY <2>1 DEF Succeeds, Windows
  <2>2. CASE \E r \in rows : s = image(r)
    <3>1. PICK r \in rows : s = image(r)
      BY <2>2
    <3>2. s[from] = r[from] /\ DOMAIN s = DOMAIN r /\ s.to = IF r \in closes THEN new[from] ELSE r.to
      BY <3>1, <1>1
    <3> QED
      BY <3>2, <1>3 DEF Succeeds, Windows
  <2> QED
    BY <1>2, <2>1, <2>2
<1>5. \A r \in rows : r[key] = new[key] => Follows(from, image(r), new)
  <2> SUFFICES ASSUME NEW r \in rows, r[key] = new[key]
               PROVE  Follows(from, image(r), new)
    OBVIOUS
  <2>1. image(r).to = IF r \in closes THEN new[from] ELSE r.to
    BY <1>1
  <2>2. r \in closes <=> r.to = NoEnd
    BY DEF Succeeds
  <2>3. r.to \in Nat /\ r.to <= new[from]
    BY DEF Succeeds, Windows
  <2> HIDE DEF image
  <2> QED
    BY <2>1, <2>2, <2>3, <1>3 DEF Follows, NoEnd
<1>6. \A r, s \in rows : r[key] = s[key] /\ r # s => Follows(from, image(r), image(s)) \/ Follows(from, image(s), image(r))
  <2> SUFFICES ASSUME NEW r \in rows, NEW s \in rows, r[key] = s[key], r # s
               PROVE  Follows(from, image(r), image(s)) \/ Follows(from, image(s), image(r))
    OBVIOUS
  <2>1. Follows(from, r, s) \/ Follows(from, s, r)
    BY DEF InOrder
  <2>2. \A q \in rows : q.to # NoEnd => image(q).to = q.to
    BY <1>1 DEF Succeeds
  <2>3. image(r)[from] = r[from] /\ image(s)[from] = s[from]
    BY <1>1
  <2> HIDE DEF image
  <2> QED
    BY <2>1, <2>2, <2>3 DEF Follows
<1>7. InOrder(key, from, after)
  <2> SUFFICES ASSUME NEW s \in after, NEW q \in after, s[key] = q[key], s # q
               PROVE  Follows(from, s, q) \/ Follows(from, q, s)
    BY DEF InOrder
  <2>1. CASE s = new
    <3>1. PICK r \in rows : q = image(r)
      BY <1>2, <2>1
    <3> HIDE DEF image
    <3> QED
      BY <3>1, <1>1, <1>5, <2>1
  <2>2. CASE q = new
    <3>1. PICK r \in rows : s = image(r)
      BY <1>2, <2>2
    <3> HIDE DEF image
    <3> QED
      BY <3>1, <1>1, <1>5, <2>2
  <2>3. CASE s # new /\ q # new
    <3>1. PICK r \in rows : s = image(r)
      BY <1>2, <2>3
    <3>2. PICK t \in rows : q = image(t)
      BY <1>2, <2>3
    <3> HIDE DEF image
    <3> QED
      BY <3>1, <3>2, <1>1, <1>6
  <2> QED
    BY <2>1, <2>2, <2>3
<1> HIDE DEF after
<1> QED
  BY <1>4, <1>7 DEF after

\* What stood before the day of a new row stands as it did.
LEMMA SuccessorKeepsThePast ==
    ASSUME NEW key, NEW from, key # "to", from # "to", NEW rows, NEW closes, NEW new,
           Succeeds(key, from, rows, closes, new), NEW moment \in Nat, moment < new[from]
    PROVE  Echoes(RowsAt(rows, from, moment), RowsAt(Replaced(rows, closes, new[from]) \cup {new}, from, moment))
<1> DEFINE after == Replaced(rows, closes, new[from]) \cup {new}
           image(r) == IF r \in closes THEN Closed(r, new[from]) ELSE r
<1>1. \A r \in rows : /\ Echo(r, image(r)) /\ image(r)[from] = r[from]
                      /\ image(r).to = IF r \in closes THEN new[from] ELSE r.to
  <2> SUFFICES ASSUME NEW r \in rows
               PROVE  /\ Echo(r, image(r)) /\ image(r)[from] = r[from]
                      /\ image(r).to = IF r \in closes THEN new[from] ELSE r.to
    OBVIOUS
  <2>1. {from, "to"} \subseteq DOMAIN r
    BY DEF Succeeds, Windows
  <2>2. CASE r \in closes
    BY <2>1, <2>2, ClosedFacts DEF Echo
  <2>3. CASE r \notin closes
    BY <2>3 DEF Echo
  <2> QED
    BY <2>2, <2>3
<1>2. \A r \in rows : image(r) \in after
  BY DEF Replaced
<1>3. new[from] \in Nat \ {0} /\ \A r \in rows : r.to \in Nat /\ (r \in closes => r.to = NoEnd)
  BY DEF Succeeds, Windows
<1>4. \A r \in rows : r \in RowsAt(rows, from, moment) <=> image(r) \in RowsAt(after, from, moment)
  <2> SUFFICES ASSUME NEW r \in rows
               PROVE  r \in RowsAt(rows, from, moment) <=> image(r) \in RowsAt(after, from, moment)
    OBVIOUS
  <2> HIDE DEF image, after
  <2>1. image(r) \in after /\ image(r)[from] = r[from]
    BY <1>1, <1>2
  <2>2. r.to = NoEnd \/ r.to > moment <=> image(r).to = NoEnd \/ image(r).to > moment
    BY <1>1, <1>3 DEF NoEnd
  <2> QED
    BY <2>1, <2>2 DEF RowsAt
<1>5. \A s \in RowsAt(after, from, moment) : \E r \in rows : s = image(r)
  <2> SUFFICES ASSUME NEW s \in RowsAt(after, from, moment)
               PROVE  \E r \in rows : s = image(r)
    OBVIOUS
  <2>1. s # new
    BY <1>3 DEF RowsAt
  <2> QED
    BY <2>1 DEF RowsAt, Replaced
<1> HIDE DEF image, after
<1>6. \A r \in RowsAt(rows, from, moment) : image(r) \in RowsAt(after, from, moment) /\ Echo(r, image(r))
  BY <1>1, <1>4 DEF RowsAt
<1>7. \A s \in RowsAt(after, from, moment) : \E r \in RowsAt(rows, from, moment) : Echo(r, s)
  BY <1>1, <1>4, <1>5
<1>8. Echoes(RowsAt(rows, from, moment), RowsAt(after, from, moment))
  BY <1>6, <1>7 DEF Echoes
<1> QED
  BY <1>8 DEF after

\* At a moment an entity has one row.
LEMMA OneRowAtAMoment ==
    ASSUME NEW key, NEW from, NEW rows, Windows(key, from, rows), InOrder(key, from, rows), NEW moment \in Nat
    PROVE  \A r, s \in RowsAt(rows, from, moment) : r[key] = s[key] => r = s
<1> SUFFICES ASSUME NEW r \in RowsAt(rows, from, moment), NEW s \in RowsAt(rows, from, moment), r[key] = s[key], r # s
             PROVE  FALSE
  OBVIOUS
<1>1. Follows(from, r, s) \/ Follows(from, s, r)
  BY DEF InOrder, RowsAt
<1>2. r[from] \in Nat /\ s[from] \in Nat /\ r.to \in Nat /\ s.to \in Nat
  BY DEF RowsAt, Windows
<1> QED
  BY <1>1, <1>2 DEF RowsAt, Follows

\* A set of rows echoes itself.
LEMMA EchoesItself == \A A : Echoes(A, A)
BY DEF Echoes, Echo

-----------------------------------------------------------------------------
(* What is invariant of the rows agents write. *)

Tables == DOMAIN Columns
RowShape(table, r) == DOMAIN r = Columns[table] \cup Dates(table) /\ InRange(table, r)

LogInv ==
    /\ DOMAIN log = Tables
    /\ \A table \in Tables :
          /\ IsFiniteSet(log[table])
          /\ \A r \in log[table] :
                /\ RowShape(table, r) /\ r.at \in 1..clock
                /\ table \in Versioned => r.to \in 0..clock
          /\ table \in Versioned => InOrder("process", "at", log[table])

PendingInv ==
    \A p \in pending :
        /\ p.table \in Tables /\ RowShape(p.table, p.row) /\ p.row.at \in 1..clock
        /\ p.table \in Versioned => Succeeds("process", "at", log[p.table], p.closes, p.row)
        /\ p.table \notin Versioned => p.closes = {}

EdgeShape(r) ==
    /\ DOMAIN r = {"id", "source", "target", "type", "weight", "from", "to"}
    /\ r.id = <<r.source, r.type, r.target>>
EdgesInv ==
    /\ IsFiniteSet(edges)
    /\ \A r \in edges : EdgeShape(r) /\ r.from \in 1..clock /\ r.to \in 0..clock
    /\ InOrder("id", "from", edges)
WriterInv ==
    \A w \in writer :
        /\ EdgeShape(w.row) /\ w.row.from \in 1..clock
        /\ Succeeds("id", "from", edges, w.closes, w.row)

-----------------------------------------------------------------------------
(* What is told of a moment depends on the rows of that moment. *)

DatedBy(rows, moment) == {r \in rows : r.at <= moment}
OpenBy(rows, moment) == {r \in rows : r.at <= moment /\ r.open}

\* A step says nothing new of a moment.
SameMoment(moment) ==
    /\ \A table \in Versioned : Echoes(RowsAt(log[table], "at", moment), RowsAt(log'[table], "at", moment))
    /\ \A table \in {"state", "belief", "link"} : DatedBy(log'[table], moment) = DatedBy(log[table], moment)
    /\ OpenBy(log'["critique"], moment) \subseteq OpenBy(log["critique"], moment)
    /\ Echoes(RowsAt(edges, "from", moment), RowsAt(edges', "from", moment))

\* The tables and what of their columns the feed reads.
LEMMA TableFacts ==
    /\ Tables = {"process", "bottleneck", "state", "belief", "critique", "link"}
    /\ Versioned \subseteq Tables
    /\ \A r : RowShape("process", r) => DOMAIN r = {"process", "status", "at", "revision", "to"}
    /\ \A r : RowShape("bottleneck", r) => DOMAIN r = {"process", "binding", "at", "revision", "to"}
    /\ \A r : RowShape("critique", r) => DOMAIN r = {"process", "damaging", "open", "at"}
    /\ \A r : RowShape("state", r) => r.observed \in Int /\ r.confidence \in 0..100
BY DEF Tables, Versioned, RowShape, Columns, Dates, InRange

\* At a past moment the window of temporal.py is that moment's.
LEMMA PastWindow ==
    ASSUME NEW moment \in Nat \ {0}
    PROVE  /\ \A rows : CurrentRevision(rows, moment) = RowsAt(rows, "at", moment)
           /\ \A rows : CurrentRevision(rows, moment)' = RowsAt(rows, "at", moment)
           /\ \A rows : RecordedBy(rows, moment) = DatedBy(rows, moment)
           /\ \A r : ValidAt(r, moment) <=> r.from <= moment /\ (r.to = NoEnd \/ r.to > moment)
BY DEF CurrentRevision, CutOf, RowsAt, Now, RecordedBy, DatedBy, ValidAt

\* Then the Processes a feed is about are the same.
LEMMA SubjectsKept ==
    ASSUME LogInv, NEW moment \in Nat \ {0}, SameMoment(moment)
    PROVE  Subjects({}, moment)' = Subjects({}, moment) /\ Candidates(moment)' = Candidates(moment)
<1> DEFINE old == RowsAt(log["process"], "at", moment)
           new == RowsAt(log'["process"], "at", moment)
<1>1. Echoes(old, new)
  BY DEF SameMoment, Versioned
<1>2. CurrentRevision(log["process"], moment) = old /\ CurrentRevision(log["process"], moment)' = new
  BY DEF CurrentRevision, CutOf, RowsAt, Now
<1>3. \A r \in old : DOMAIN r = {"process", "status", "at", "revision", "to"}
  BY TableFacts DEF LogInv, RowsAt
<1>4. \A r \in old, s \in new : Echo(r, s) => s.process = r.process /\ s.status = r.status
  BY <1>3 DEF Echo
<1> HIDE DEF old, new
<1>5. {r.process : r \in old} = {r.process : r \in new}
  BY <1>1, <1>4 DEF Echoes
<1>6. {r.process : r \in {q \in old : q.status \notin {"merged", "invalidated"}}}
        = {r.process : r \in {q \in new : q.status \notin {"merged", "invalidated"}}}
  BY <1>1, <1>4 DEF Echoes
<1> QED
  BY <1>2, <1>5, <1>6 DEF Subjects, Candidates

\* And so are the States of a Process,
LEMMA StatesKept ==
    ASSUME NEW moment \in Nat \ {0}, SameMoment(moment), NEW process
    PROVE  StatesOf(process, moment)' = StatesOf(process, moment)
<1>1. DatedBy(log'["state"], moment) = DatedBy(log["state"], moment)
  BY DEF SameMoment
<1> QED
  BY <1>1 DEF StatesOf, RecordedBy, DatedBy, Now

\* the alerts but for the critiques, of which none is new,
LEMMA AlertsKept ==
    ASSUME LogInv, NEW moment \in Nat \ {0}, SameMoment(moment), NEW processes
    PROVE  /\ Generate(processes, moment, moment).dated' = Generate(processes, moment, moment).dated
           /\ Generate(processes, moment, moment).critiques' \subseteq Generate(processes, moment, moment).critiques
<1>1. StateTransitions(processes, moment, moment)' = StateTransitions(processes, moment, moment)
  <2>1. DatedBy(log'["state"], moment) = DatedBy(log["state"], moment)
    BY DEF SameMoment
  <2> DEFINE Tells(r) == /\ r \in LatestOf(StatesOf(r.process, moment))
                         /\ \E previous \in LatestOf(StatesOf(r.process, moment) \ {r}) : previous.label # r.label
  <2>2. \A r : Tells(r)' <=> Tells(r)
    BY StatesKept DEF LatestOf
  <2> HIDE DEF Tells
  <2>3. {r \in log["state"] : r.process \in processes /\ Recent(r.at, moment) /\ Tells(r)}'
          = {r \in log["state"] : r.process \in processes /\ Recent(r.at, moment) /\ Tells(r)}
    BY <2>1, <2>2 DEF DatedBy, Recent
  <2> QED
    BY <2>3 DEF StateTransitions, Tells
<1>2. BeliefChanges(processes, moment, moment)' = BeliefChanges(processes, moment, moment)
  <2>1. DatedBy(log'["belief"], moment) = DatedBy(log["belief"], moment)
    BY DEF SameMoment
  <2> QED
    BY <2>1 DEF BeliefChanges, RecordedBy, DatedBy, Now
<1>3. ContradictingEvidence(processes, moment)' = ContradictingEvidence(processes, moment)
  <2>1. DatedBy(log'["link"], moment) = DatedBy(log["link"], moment)
    BY DEF SameMoment
  <2>2. {r \in log["link"] : r.process \in processes /\ ~r.supports /\ Recent(r.at, moment)}'
          = {r \in log["link"] : r.process \in processes /\ ~r.supports /\ Recent(r.at, moment)}
    BY <2>1 DEF DatedBy, Recent
  <2> QED
    BY <2>2 DEF ContradictingEvidence
<1>4. BottleneckChanges(processes, moment, moment)' = BottleneckChanges(processes, moment, moment)
  <2> DEFINE old == RowsAt(log["bottleneck"], "at", moment)
             new == RowsAt(log'["bottleneck"], "at", moment)
             Tells(r) == r.process \in processes /\ Recent(r.at, moment) /\ (Stopped(r) \/ r.revision = 1)
             Says(b) == Alert(IF Stopped(b) THEN "bottleneck_resolving" ELSE "bottleneck_emerged", "notable",
                              <<"bottleneck", b.process, b.revision>>)
  <2>1. Echoes(old, new)
    BY DEF SameMoment, Versioned
  <2>2. CurrentRevision(log["bottleneck"], moment) = old /\ CurrentRevision(log["bottleneck"], moment)' = new
    BY DEF CurrentRevision, CutOf, RowsAt, Now
  <2>3. \A r \in old : DOMAIN r = {"process", "binding", "at", "revision", "to"}
    BY TableFacts DEF LogInv, RowsAt
  <2>4. \A r \in old, s \in new :
            Echo(r, s) => s.process = r.process /\ s.binding = r.binding /\ s.at = r.at /\ s.revision = r.revision
    BY <2>3 DEF Echo
  <2>5. \A r \in old, s \in new : Echo(r, s) => (Tells(s) <=> Tells(r)) /\ Says(s) = Says(r)
    BY <2>4 DEF Stopped
  <2> HIDE DEF old, new, Tells, Says
  <2>6. {Says(b) : b \in {r \in old : Tells(r)}} = {Says(b) : b \in {r \in new : Tells(r)}}
    BY <2>1, <2>5 DEF Echoes
  <2> QED
    BY <2>2, <2>6 DEF BottleneckChanges, Tells, Says
<1>5. Critiques(processes, moment, moment)' \subseteq Critiques(processes, moment, moment)
  <2>1. OpenBy(log'["critique"], moment) \subseteq OpenBy(log["critique"], moment)
    BY DEF SameMoment
  <2>2. {r \in RecordedBy(log["critique"], moment) : r.process \in processes /\ r.open /\ Recent(r.at, moment)}'
          \subseteq {r \in RecordedBy(log["critique"], moment) : r.process \in processes /\ r.open /\ Recent(r.at, moment)}
    BY <2>1 DEF OpenBy, RecordedBy, Now
  <2> QED
    BY <2>2 DEF Critiques
<1> QED
  BY <1>1, <1>2, <1>3, <1>4, <1>5 DEF Generate

\* and what the ranking is made of.
LEMMA FactsKept ==
    ASSUME LogInv, LogInv', EdgesInv, NEW moment \in Nat \ {0}, SameMoment(moment), NEW process
    PROVE  Facts(process, moment, moment)' = Facts(process, moment, moment)
<1>1. DatedBy(log'["link"], moment) = DatedBy(log["link"], moment)
  BY DEF SameMoment
<1>2. \A from, to \in Int : to <= moment => EvidenceBetween(process, from, to)' = EvidenceBetween(process, from, to)
  <2> SUFFICES ASSUME NEW from \in Int, NEW to \in Int, to <= moment
               PROVE  {l \in log["link"] : l.process = process /\ l.at > from /\ l.at <= to}'
                        = {l \in log["link"] : l.process = process /\ l.at > from /\ l.at <= to}
    BY DEF EvidenceBetween
  <2>1. \A l \in log["link"] \cup log'["link"] : l.at \in Int
    BY TableFacts DEF LogInv
  <2> QED
    BY <1>1, <2>1 DEF DatedBy
<1>3. {l \in log["link"] : l.process = process /\ ~l.supports /\ l.at <= moment}'
        = {l \in log["link"] : l.process = process /\ ~l.supports /\ l.at <= moment}
  BY <1>1 DEF DatedBy
<1>4. LatestOf(StatesOf(process, moment))' = LatestOf(StatesOf(process, moment))
  BY StatesKept DEF LatestOf
<1>5. TwoHops(edges, moment)' = TwoHops(edges, moment)
  <2> DEFINE old == RowsAt(edges, "from", moment)
             new == RowsAt(edges', "from", moment)
             Ends(e) == <<e[1].source, e[2].target>>
             Meet(e) == e[1].type = "creates" /\ e[2].type = "requires" /\ e[1].target = e[2].source
             Hops(rows) == {Ends(e) : e \in {f \in rows \X rows : Meet(f)}}
  <2>1. Echoes(old, new)
    BY DEF SameMoment
  <2>2. \A r \in old, s \in new : Echo(r, s) => s.source = r.source /\ s.target = r.target /\ s.type = r.type
    BY DEF Echo, RowsAt, EdgesInv, EdgeShape
  <2>3. Hops(old) \subseteq Hops(new)
    <3> SUFFICES ASSUME NEW r \in old, NEW s \in old, Meet(<<r, s>>)
                 PROVE  Ends(<<r, s>>) \in Hops(new)
      OBVIOUS
    <3> HIDE DEF old, new
    <3>1. PICK q \in new : Echo(r, q)
      BY <2>1 DEF Echoes
    <3>2. PICK t \in new : Echo(s, t)
      BY <2>1 DEF Echoes
    <3>3. Meet(<<q, t>>) /\ Ends(<<q, t>>) = Ends(<<r, s>>)
      BY <3>1, <3>2, <2>2
    <3> QED
      BY <3>3
  <2>4. Hops(new) \subseteq Hops(old)
    <3> SUFFICES ASSUME NEW q \in new, NEW t \in new, Meet(<<q, t>>)
                 PROVE  Ends(<<q, t>>) \in Hops(old)
      OBVIOUS
    <3> HIDE DEF old, new
    <3>1. PICK r \in old : Echo(r, q)
      BY <2>1 DEF Echoes
    <3>2. PICK s \in old : Echo(s, t)
      BY <2>1 DEF Echoes
    <3>3. Meet(<<r, s>>) /\ Ends(<<q, t>>) = Ends(<<r, s>>)
      BY <3>1, <3>2, <2>2
    <3> QED
      BY <3>3
  <2>5. TwoHops(edges, moment) = Hops(old) /\ TwoHops(edges, moment)' = Hops(new)
    BY DEF TwoHops, ValidAt, RowsAt, Now
  <2> QED
    BY <2>3, <2>4, <2>5
<1>6. (\E b \in CurrentRevision(log["bottleneck"], moment) : b.process = process /\ ~Stopped(b))'
        <=> \E b \in CurrentRevision(log["bottleneck"], moment) : b.process = process /\ ~Stopped(b)
  <2> DEFINE old == RowsAt(log["bottleneck"], "at", moment)
             new == RowsAt(log'["bottleneck"], "at", moment)
  <2>1. Echoes(old, new)
    BY DEF SameMoment, Versioned
  <2>2. CurrentRevision(log["bottleneck"], moment) = old /\ CurrentRevision(log["bottleneck"], moment)' = new
    BY DEF CurrentRevision, CutOf, RowsAt, Now
  <2>3. \A r \in old : DOMAIN r = {"process", "binding", "at", "revision", "to"}
    BY TableFacts DEF LogInv, RowsAt
  <2>4. \A r \in old, s \in new : Echo(r, s) => s.process = r.process /\ (Stopped(s) <=> Stopped(r))
    BY <2>3 DEF Echo, Stopped
  <2> HIDE DEF old, new
  <2> QED
    BY <2>1, <2>2, <2>4 DEF Echoes
<1>7. EvidenceWindow \in Nat
  BY FeedAssumption
<1>8. /\ EvidenceBetween(process, moment - EvidenceWindow, moment)'
           = EvidenceBetween(process, moment - EvidenceWindow, moment)
      /\ EvidenceBetween(process, moment - 2 * EvidenceWindow, moment - EvidenceWindow)'
           = EvidenceBetween(process, moment - 2 * EvidenceWindow, moment - EvidenceWindow)
  <2>1. /\ moment - EvidenceWindow \in Int /\ moment - 2 * EvidenceWindow \in Int
        /\ moment \in Int /\ moment - EvidenceWindow <= moment
    BY <1>7
  <2> QED
    BY <1>2, <2>1
<1> QED
  BY <1>3, <1>4, <1>5, <1>6, <1>8 DEF Facts
-----------------------------------------------------------------------------
(* The rows stay in order, and a step says nothing new of a settled moment. *)

BaseInv == clock \in Nat \ {0} /\ LogInv /\ PendingInv /\ EdgesInv /\ WriterInv

\* A moment is past, and no open transaction is dated at or before it.
Known(moment) == moment \in Nat \ {0} /\ moment < clock /\ \A s \in Stamps : s > moment

\* Rows revised are as many, and finite as they were.
LEMMA ReplacedIsFinite ==
    ASSUME NEW rows, NEW closes, NEW day, NEW new, IsFiniteSet(rows)
    PROVE  IsFiniteSet(Replaced(rows, closes, day) \cup {new})
<1>1. IsFiniteSet(Replaced(rows, closes, day))
  <2> DEFINE image(r) == IF r \in closes THEN Closed(r, day) ELSE r
  <2> HIDE DEF image
  <2>1. [r \in rows |-> image(r)] \in Surjection(rows, {image(r) : r \in rows})
    BY DEF Surjection
  <2>2. IsFiniteSet({image(r) : r \in rows})
    BY <2>1, FS_Surjection
  <2> QED
    BY <2>2 DEF Replaced, image
<1> QED
  BY <1>1, FS_AddElement

\* Where nothing is closed the rows are those there were.
LEMMA NothingReplaced == \A rows, day : Replaced(rows, {}, day) = rows
BY DEF Replaced

\* The rows in the windows of temporal.py are rows of an entity, in order.
LEMMA RowsHaveWindows ==
    ASSUME LogInv, clock \in Nat \ {0}, NEW table \in Versioned
    PROVE  Windows("process", "at", log[table])
<1>1. \A r \in log[table] : {"process", "at", "to"} \subseteq DOMAIN r
  BY TableFacts DEF LogInv, Versioned
<1>2. \A r \in log[table] : r.at \in 1..clock /\ r.to \in 0..clock
  BY TableFacts DEF LogInv
<1> QED
  BY <1>1, <1>2 DEF Windows

\* So are the revisions of an edge.
LEMMA EdgesHaveWindows ==
    ASSUME EdgesInv, clock \in Nat \ {0}
    PROVE  Windows("id", "from", edges)
BY DEF EdgesInv, EdgeShape, Windows

\* The rows there are at the beginning.
LEMMA BaseInit == ReadsInit => BaseInv
<1> SUFFICES ASSUME ReadsInit
             PROVE  BaseInv
  OBVIOUS
<1> USE DEF ReadsInit
<1>1. LogInv
  <2> SUFFICES ASSUME NEW table \in Tables
               PROVE  /\ IsFiniteSet(log[table])
                      /\ \A r \in log[table] :
                            /\ RowShape(table, r) /\ r.at \in 1..clock
                            /\ table \in Versioned => r.to \in 0..clock
                      /\ table \in Versioned => InOrder("process", "at", log[table])
    BY FeedAssumption DEF LogInv, FeedInit, Tables
  <2>1. /\ IsFiniteSet(log[table])
        /\ \A r \in log[table] :
              /\ DOMAIN r = Columns[table] \cup Dates(table) /\ InRange(table, r) /\ r.at = 1
              /\ table \in Versioned => r.to = NoEnd /\ \A s \in log[table] : s.process = r.process => s = r
    BY FeedAssumption DEF FeedInit, Tables
  <2> QED
    BY <2>1 DEF RowShape, InOrder, NoEnd
<1>2. PendingInv
  BY DEF PendingInv, FeedInit
<1>3. EdgesInv
  BY ReadsAssumption DEF EdgesInv, GraphInit, EdgeShape, InOrder, NoEnd
<1>4. WriterInv
  BY DEF WriterInv, GraphInit
<1> QED
  BY <1>1, <1>2, <1>3, <1>4 DEF BaseInv

\* A change is dated with the clock and closes what is current of its Process.
LEMMA RowRecordedStep ==
    ASSUME BaseInv, NEW change \in Changes, RecordsRow(change), UNCHANGED clock
    PROVE  PendingInv' /\ \A p \in pending' : p.row.at = clock
<1> DEFINE table == change.table
           columns == IF table \in Versioned
                      THEN [at |-> clock, revision |-> Revision(CurrentRow(change)), to |-> NoEnd]
                      ELSE [at |-> clock]
           row == With(change.row, columns)
<1>1. /\ table \in Tables /\ DOMAIN change.row = Columns[table] /\ InRange(table, change.row)
      /\ clock \in Nat \ {0}
  BY FeedAssumption DEF Tables, BaseInv
<1>2. /\ DOMAIN row = Columns[table] \cup Dates(table)
      /\ \A c \in Columns[table] : row[c] = change.row[c]
      /\ row.at = clock /\ (table \in Versioned => row.to = NoEnd)
  <2>1. DOMAIN columns = Dates(table) /\ columns.at = clock /\ (table \in Versioned => columns.to = NoEnd)
    BY DEF Dates
  <2>2. \A c \in Columns[table] : c \notin Dates(table)
    BY <1>1 DEF Tables, Columns, Dates, Versioned
  <2>3. "at" \in Dates(table) /\ (table \in Versioned => "to" \in Dates(table))
    BY DEF Dates
  <2> HIDE DEF columns
  <2> QED
    BY <1>1, <2>1, <2>2, <2>3 DEF With
<1>3. RowShape(table, row)
  BY <1>1, <1>2 DEF RowShape, InRange, Columns, Tables
<1>4. pending' = {[table |-> table, closes |-> CurrentRow(change), row |-> row]} /\ log' = log
  BY DEF RecordsRow
<1> HIDE DEF table, row
<1>5. ASSUME table \in Versioned
      PROVE  Succeeds("process", "at", log[table], CurrentRow(change), row)
  <2>1. "process" \in Columns[table] /\ row.process = change.row.process
    <3>1. "process" \in Columns[table]
      BY <1>5 DEF Columns, Versioned
    <3> QED
      BY <3>1, <1>2
  <2>2. Windows("process", "at", log[table])
    BY <1>5, RowsHaveWindows DEF BaseInv
  <2>3. {"process", "at", "to"} \subseteq DOMAIN row /\ row.at \in Nat \ {0} /\ row.to \in Nat
    BY <1>1, <1>2, <1>5, <2>1 DEF Dates, NoEnd
  <2>4. \A r \in log[table] : r.at <= clock /\ r.to <= clock
    BY <1>1, <1>5 DEF BaseInv, LogInv
  <2>5. CurrentRow(change) = {r \in log[table] : r.process = row.process /\ r.to = NoEnd}
    BY <1>5, <2>1 DEF CurrentRow, table
  <2> QED
    BY <1>2, <1>5, <2>2, <2>3, <2>4, <2>5 DEF Succeeds, Windows
<1>6. table \notin Versioned => CurrentRow(change) = {}
  BY DEF CurrentRow, table
<1>7. row.at \in 1..clock
  BY <1>1, <1>2
<1> QED
  BY <1>1, <1>2, <1>3, <1>4, <1>5, <1>6, <1>7 DEF PendingInv

\* A commit replaces the current row.
LEMMA CommitStep ==
    ASSUME BaseInv, CommitRow, UNCHANGED clock
    PROVE  LogInv' /\ PendingInv'
<1>1. pending' = {}
  BY DEF CommitRow
<1>2. PICK p \in pending : log' = [log EXCEPT ![p.table] = Replaced(log[p.table], p.closes, p.row.at) \cup {p.row}]
  BY DEF CommitRow
<1> DEFINE t == p.table
           after == Replaced(log[t], p.closes, p.row.at) \cup {p.row}
<1>3. /\ t \in Tables /\ RowShape(t, p.row) /\ p.row.at \in 1..clock
      /\ t \in Versioned => Succeeds("process", "at", log[t], p.closes, p.row)
      /\ t \notin Versioned => p.closes = {}
  BY DEF BaseInv, PendingInv
<1>4. DOMAIN log = Tables /\ clock \in Nat \ {0}
  BY DEF BaseInv, LogInv
<1>5. DOMAIN log' = Tables /\ log'[t] = after /\ \A table \in Tables : table # t => log'[table] = log[table]
  BY <1>2, <1>3, <1>4, Zenon
<1>6. IsFiniteSet(after)
  BY <1>3, ReplacedIsFinite DEF BaseInv, LogInv
<1>7. \A r \in log[t] : RowShape(t, r) /\ r.at \in 1..clock /\ (t \in Versioned => r.to \in 0..clock)
  BY <1>3 DEF BaseInv, LogInv
<1> HIDE DEF t, after
<1>8. CASE t \in Versioned
  <2>1. Succeeds("process", "at", log[t], p.closes, p.row) /\ InOrder("process", "at", log[t])
    BY <1>3, <1>8 DEF BaseInv, LogInv
  <2>2. InOrder("process", "at", after)
    BY <2>1, SuccessorInOrder DEF after, t
  <2>3. \A r \in after : RowShape(t, r) /\ r.at \in 1..clock /\ r.to \in 0..clock
    <3> SUFFICES ASSUME NEW r \in after
                 PROVE  RowShape(t, r) /\ r.at \in 1..clock /\ r.to \in 0..clock
      OBVIOUS
    <3>1. CASE r = p.row
      BY <3>1, <1>3, <1>4, <2>1 DEF Succeeds, NoEnd
    <3>2. CASE r \in log[t]
      BY <3>2, <1>7, <1>8
    <3>3. CASE \E q \in p.closes : r = Closed(q, p.row.at)
      <4>1. PICK q \in p.closes : r = Closed(q, p.row.at)
        BY <3>3
      <4>2. q \in log[t] /\ {"at", "to"} \subseteq DOMAIN q
        BY <2>1 DEF Succeeds, Windows
      <4>3. DOMAIN r = DOMAIN q /\ r.at = q.at /\ r.to = p.row.at
        BY <4>1, <4>2, ClosedFacts
      <4>4. \A row : InRange(t, row)
        BY <1>8 DEF InRange, Versioned
      <4> QED
        BY <4>2, <4>3, <4>4, <1>3, <1>4, <1>7 DEF RowShape
    <3> QED
      BY <3>1, <3>2, <3>3 DEF after, Replaced, t
  <2> QED
    BY <1>1, <1>5, <1>6, <2>2, <2>3 DEF LogInv, PendingInv, BaseInv
<1>9. CASE t \notin Versioned
  <2>1. after = log[t] \cup {p.row}
    BY <1>3, <1>9, NothingReplaced DEF after, t
  <2> QED
    BY <1>1, <1>3, <1>5, <1>6, <1>7, <1>9, <2>1 DEF LogInv, PendingInv, BaseInv
<1> QED
  BY <1>8, <1>9

\* A Critic that closes its findings leaves their columns and dates.
LEMMA ClosesStep ==
    ASSUME BaseInv, ClosesCritiques, UNCHANGED clock
    PROVE  /\ LogInv' /\ PendingInv'
           /\ \A table \in Tables : table # "critique" => log'[table] = log[table]
           /\ \A moment : OpenBy(log'["critique"], moment) = {}
<1>1. log' = [log EXCEPT !["critique"] = {Superseded(c) : c \in log["critique"]}] /\ pending' = pending
  BY DEF ClosesCritiques
<1>2. DOMAIN log = Tables /\ "critique" \in Tables /\ "critique" \notin Versioned
  BY TableFacts DEF BaseInv, LogInv, Versioned
<1> DEFINE after == {Superseded(c) : c \in log["critique"]}
<1>3. DOMAIN log' = Tables /\ log'["critique"] = after /\ \A table \in Tables : table # "critique" => log'[table] = log[table]
  BY <1>1, <1>2, Zenon
<1>4. \A c \in log["critique"] : RowShape("critique", c) /\ c.at \in 1..clock
  BY <1>2 DEF BaseInv, LogInv
<1>5. \A c \in log["critique"] :
          /\ DOMAIN Superseded(c) = DOMAIN c /\ Superseded(c).at = c.at
          /\ Superseded(c).open = FALSE
  <2> SUFFICES ASSUME NEW c \in log["critique"]
               PROVE  /\ DOMAIN Superseded(c) = DOMAIN c /\ Superseded(c).at = c.at
                      /\ Superseded(c).open = FALSE
    OBVIOUS
  <2>1. DOMAIN c = {"process", "damaging", "open", "at"}
    BY <1>4, TableFacts
  <2>2. "open" \in DOMAIN c /\ "at" \in DOMAIN c /\ "at" # "open"
    BY <2>1
  <2> QED
    BY <2>2, Zenon DEF Superseded
<1>6. \A r \in after : RowShape("critique", r) /\ r.at \in 1..clock /\ r.open = FALSE
  BY <1>4, <1>5 DEF RowShape, InRange
<1>7. IsFiniteSet(after)
  <2>1. IsFiniteSet(log["critique"])
    BY <1>2 DEF BaseInv, LogInv
  <2>2. [c \in log["critique"] |-> Superseded(c)] \in Surjection(log["critique"], after)
    BY DEF Surjection
  <2> QED
    BY <2>1, <2>2, FS_Surjection
<1> HIDE DEF after
<1>8. LogInv'
  BY <1>2, <1>3, <1>6, <1>7 DEF LogInv, BaseInv
<1>9. PendingInv'
  BY <1>1, <1>2, <1>3 DEF PendingInv, BaseInv
<1> QED
  BY <1>3, <1>6, <1>8, <1>9 DEF OpenBy

\* A fact asserted is dated with the clock and closes the current edge.
LEMMA RelateStep ==
    ASSUME BaseInv, NEW fact \in Asserted, Relate(fact)
    PROVE  WriterInv' /\ \A w \in writer' : w.row.from = clock
<1> DEFINE row == [id |-> EdgeId(fact), source |-> fact.source, target |-> fact.target,
                   type |-> fact.type, weight |-> fact.weight, from |-> clock, to |-> NoEnd]
<1>1. writer' = {[row |-> row, closes |-> CurrentEdge(fact)]} /\ edges' = edges /\ clock' = clock
  BY DEF Relate, Revises
<1>2. clock \in Nat \ {0} /\ EdgesInv
  BY DEF BaseInv
<1>3. EdgeShape(row) /\ row.from = clock /\ row.to = NoEnd
  BY DEF EdgeShape, EdgeId
<1>4. Windows("id", "from", edges)
  BY <1>2, EdgesHaveWindows
<1>5. Windows("id", "from", edges \cup {row})
  BY <1>2, <1>3, <1>4 DEF Windows, EdgeShape, NoEnd
<1>6. CurrentEdge(fact) = {r \in edges : r.id = row.id /\ r.to = NoEnd}
  BY <1>2 DEF CurrentEdge, Current, ValidAt, Now, EdgesInv, EdgeShape, EdgeId
<1>7. \A r \in edges : r.from <= row.from /\ r.to <= row.from
  BY <1>2, <1>3 DEF EdgesInv
<1> HIDE DEF row
<1>8. Succeeds("id", "from", edges, CurrentEdge(fact), row)
  BY <1>3, <1>5, <1>6, <1>7 DEF Succeeds
<1> QED
  BY <1>1, <1>2, <1>3, <1>8 DEF WriterInv

\* A commit replaces the current edge.
LEMMA CommitEdgeStep ==
    ASSUME BaseInv, CommitEdge
    PROVE  EdgesInv' /\ WriterInv'
<1>1. writer' = {} /\ clock' = clock
  BY DEF CommitEdge
<1>2. PICK w \in writer : edges' = Replaced(edges, w.closes, w.row.from) \cup {w.row}
  BY DEF CommitEdge, Committed
<1>3. /\ EdgeShape(w.row) /\ w.row.from \in 1..clock /\ clock \in Nat \ {0}
      /\ Succeeds("id", "from", edges, w.closes, w.row)
  BY DEF BaseInv, WriterInv
<1>4. IsFiniteSet(edges')
  BY <1>2, ReplacedIsFinite DEF BaseInv, EdgesInv
<1>5. InOrder("id", "from", edges')
  BY <1>2, <1>3, SuccessorInOrder DEF BaseInv, EdgesInv
<1>6. ASSUME NEW r \in edges'
      PROVE  EdgeShape(r) /\ r.from \in 1..clock /\ r.to \in 0..clock
  <2>1. CASE r = w.row
    BY <2>1, <1>3 DEF Succeeds, NoEnd
  <2>2. CASE r \in edges
    BY <2>2 DEF BaseInv, EdgesInv
  <2>3. CASE \E q \in w.closes : r = Closed(q, w.row.from)
    <3>1. PICK q \in w.closes : r = Closed(q, w.row.from)
      BY <2>3
    <3>2. q \in edges /\ EdgeShape(q) /\ q.from \in 1..clock
      BY <1>3 DEF Succeeds, BaseInv, EdgesInv
    <3>3. /\ DOMAIN r = DOMAIN q /\ r.to = w.row.from
          /\ r.id = q.id /\ r.from = q.from /\ r.source = q.source /\ r.type = q.type /\ r.target = q.target
      BY <3>1, <3>2, ClosedFacts DEF EdgeShape
    <3> QED
      BY <3>2, <3>3, <1>3 DEF EdgeShape
  <2> QED
    BY <2>1, <2>2, <2>3, <1>2 DEF Replaced
<1> QED
  BY <1>1, <1>4, <1>5, <1>6 DEF EdgesInv, WriterInv

rowVars == <<log, pending, edges, writer>>

\* The rows are in order, whoever writes or reads them: traversals, feeds and
\* requests leave them alone.
LEMMA BaseStep == BaseInv /\ [ReadsNext]_readsVars => BaseInv'
<1> SUFFICES ASSUME BaseInv, [ReadsNext]_readsVars
             PROVE  BaseInv'
  OBVIOUS
<1>1. CASE UNCHANGED <<clock, rowVars>>
  BY <1>1 DEF BaseInv, LogInv, PendingInv, EdgesInv, WriterInv, rowVars
<1>2. CASE ReadsTick
  <2>1. clock' = clock + 1 /\ UNCHANGED rowVars /\ clock \in Nat \ {0}
    BY <1>2 DEF ReadsTick, graphVars, feedVars, rowVars, BaseInv
  <2>2. \A n : (n \in 0..clock => n \in 0..clock') /\ (n \in 1..clock => n \in 1..clock')
    BY <2>1
  <2>3. LogInv'
    BY <2>1, <2>2 DEF BaseInv, LogInv, rowVars
  <2>4. PendingInv'
    BY <2>1, <2>2 DEF BaseInv, PendingInv, rowVars
  <2>5. EdgesInv'
    BY <2>1, <2>2 DEF BaseInv, EdgesInv, rowVars
  <2>6. WriterInv'
    BY <2>1, <2>2 DEF BaseInv, WriterInv, rowVars
  <2> QED
    BY <2>1, <2>3, <2>4, <2>5, <2>6 DEF BaseInv
<1>3. CASE GraphStep /\ UNCHANGED <<feedVars, watchVars>>
  <2>1. log' = log /\ pending' = pending
    BY <1>3 DEF feedVars
  <2>2. ASSUME NEW fact \in Asserted, Relate(fact)
        PROVE  BaseInv'
    <3>1. WriterInv' /\ clock' = clock /\ edges' = edges
      BY <2>2, RelateStep DEF Relate
    <3> QED
      BY <2>1, <3>1 DEF BaseInv, LogInv, PendingInv, EdgesInv
  <2>3. CASE CommitEdge
    <3>1. EdgesInv' /\ WriterInv' /\ clock' = clock
      BY <2>3, CommitEdgeStep DEF CommitEdge
    <3> QED
      BY <2>1, <3>1 DEF BaseInv, LogInv, PendingInv
  <2>4. CASE AbortEdge
    BY <2>1, <2>4 DEF AbortEdge, BaseInv, LogInv, PendingInv, EdgesInv, WriterInv
  <2>5. CASE \/ \E question \in Questions : \E asOf \in {Now} \cup 1..clock : ReadRoutes(question, asOf)
             \/ ReadEdges
    BY <1>1, <2>1, <2>5 DEF ReadRoutes, ReadEdges, rowVars
  <2> QED
    BY <1>3, <2>2, <2>3, <2>4, <2>5 DEF GraphStep
<1>4. CASE FeedStep /\ UNCHANGED <<clock, graphVars, watchVars>>
  <2>1. UNCHANGED <<clock, edges, writer>>
    BY <1>4 DEF graphVars
  <2>2. ASSUME NEW change \in Changes, RecordsRow(change)
        PROVE  BaseInv'
    <3>1. PendingInv' /\ log' = log
      BY <2>1, <2>2, RowRecordedStep DEF RecordsRow
    <3> QED
      BY <2>1, <3>1 DEF BaseInv, LogInv, EdgesInv, WriterInv
  <2>3. CASE CommitRow
    <3>1. LogInv' /\ PendingInv'
      BY <2>1, <2>3, CommitStep
    <3> QED
      BY <2>1, <3>1 DEF BaseInv, EdgesInv, WriterInv
  <2>4. CASE ClosesCritiques
    <3>1. LogInv' /\ PendingInv'
      BY <2>1, <2>4, ClosesStep
    <3> QED
      BY <2>1, <3>1 DEF BaseInv, EdgesInv, WriterInv
  <2>5. CASE (\E asOf \in {Now} \cup 1..clock : FindsProcesses(asOf)) \/ Feeds
    BY <1>1, <2>1, <2>5 DEF FindsProcesses, Feeds, rowVars
  <2> QED
    BY <1>4, <2>2, <2>3, <2>4, <2>5 DEF FeedStep
<1>5. CASE WatchStep /\ UNCHANGED <<clock, graphVars, feedVars>>
  BY <1>1, <1>5 DEF graphVars, feedVars, rowVars
<1>6. CASE UNCHANGED readsVars
  BY <1>1, <1>6 DEF readsVars, graphVars, feedVars, rowVars
<1> QED
  BY <1>2, <1>3, <1>4, <1>5, <1>6 DEF ReadsNext

\* A settled moment stays settled, and no step says anything new of it.
LEMMA SettledStep ==
    ASSUME BaseInv, [ReadsNext]_readsVars, NEW moment, Known(moment)
    PROVE  Known(moment)' /\ SameMoment(moment)
<1> USE DEF Stamps, OpenStamps
<1>1. /\ moment \in Nat \ {0} /\ moment < clock /\ clock \in Nat
      /\ \A p \in pending : p.row.at > moment
      /\ \A w \in writer : w.row.from > moment
  BY DEF Known, BaseInv
<1>2. ASSUME UNCHANGED <<log, edges>>
      PROVE  SameMoment(moment)
  BY <1>2, EchoesItself DEF SameMoment
<1>3. CASE UNCHANGED <<clock, rowVars>>
  BY <1>2, <1>3 DEF rowVars, Known
<1>4. CASE ReadsTick
  <2>1. clock' = clock + 1 /\ UNCHANGED rowVars
    BY <1>4 DEF ReadsTick, graphVars, feedVars, rowVars
  <2> QED
    BY <1>1, <1>2, <2>1 DEF rowVars, Known
<1>5. CASE GraphStep /\ UNCHANGED <<feedVars, watchVars>>
  <2>1. log' = log /\ pending' = pending
    BY <1>5 DEF feedVars
  <2>2. ASSUME NEW fact \in Asserted, Relate(fact)
        PROVE  Known(moment)' /\ SameMoment(moment)
    <3>1. (\A w \in writer' : w.row.from = clock) /\ clock' = clock /\ edges' = edges
      BY <2>2, RelateStep DEF Relate
    <3> QED
      BY <1>1, <1>2, <2>1, <3>1 DEF Known
  <2>3. CASE CommitEdge
    <3>1. PICK w \in writer : edges' = Replaced(edges, w.closes, w.row.from) \cup {w.row}
      BY <2>3 DEF CommitEdge, Committed
    <3>2. Succeeds("id", "from", edges, w.closes, w.row)
      BY DEF BaseInv, WriterInv
    <3>3. Echoes(RowsAt(edges, "from", moment), RowsAt(edges', "from", moment))
      BY <1>1, <3>1, <3>2, SuccessorKeepsThePast
    <3>4. SameMoment(moment)
      BY <2>1, <3>3, EchoesItself DEF SameMoment
    <3> QED
      BY <1>1, <2>1, <2>3, <3>4 DEF CommitEdge, Known
  <2>4. CASE AbortEdge
    BY <1>1, <1>2, <2>1, <2>4 DEF AbortEdge, Known
  <2>5. CASE \/ \E question \in Questions : \E asOf \in {Now} \cup 1..clock : ReadRoutes(question, asOf)
             \/ ReadEdges
    BY <1>3, <2>1, <2>5 DEF ReadRoutes, ReadEdges, rowVars
  <2> QED
    BY <1>5, <2>2, <2>3, <2>4, <2>5 DEF GraphStep
<1>6. CASE FeedStep /\ UNCHANGED <<clock, graphVars, watchVars>>
  <2>1. UNCHANGED <<clock, edges, writer>>
    BY <1>6 DEF graphVars
  <2>2. ASSUME NEW change \in Changes, RecordsRow(change)
        PROVE  Known(moment)' /\ SameMoment(moment)
    <3>1. (\A p \in pending' : p.row.at = clock) /\ log' = log
      BY <2>1, <2>2, RowRecordedStep DEF RecordsRow
    <3> QED
      BY <1>1, <1>2, <2>1, <3>1 DEF Known
  <2>3. CASE CommitRow
    <3>1. PICK p \in pending : log' = [log EXCEPT ![p.table] = Replaced(log[p.table], p.closes, p.row.at) \cup {p.row}]
      BY <2>3 DEF CommitRow
    <3>2. /\ p.table \in Tables /\ p.row.at > moment
          /\ p.table \in Versioned => Succeeds("process", "at", log[p.table], p.closes, p.row)
          /\ p.table \notin Versioned => p.closes = {}
      BY <1>1 DEF BaseInv, PendingInv
    <3>3. /\ log'[p.table] = Replaced(log[p.table], p.closes, p.row.at) \cup {p.row}
          /\ \A table \in Tables : table # p.table => log'[table] = log[table]
      BY <3>1, <3>2, Zenon DEF BaseInv, LogInv
    <3>4. ASSUME NEW table \in Versioned
          PROVE  Echoes(RowsAt(log[table], "at", moment), RowsAt(log'[table], "at", moment))
      <4>1. CASE table = p.table
        BY <1>1, <3>2, <3>3, <4>1, SuccessorKeepsThePast
      <4>2. CASE table # p.table
        BY <3>3, <4>2, EchoesItself, TableFacts
      <4> QED
        BY <4>1, <4>2
    <3>5. ASSUME NEW table \in Tables \ Versioned
          PROVE  /\ DatedBy(log'[table], moment) = DatedBy(log[table], moment)
                 /\ OpenBy(log'[table], moment) = OpenBy(log[table], moment)
      <4>1. CASE table = p.table
        <5>1. log'[table] = log[table] \cup {p.row}
          BY <3>2, <3>3, <4>1, NothingReplaced
        <5>2. ~(p.row.at <= moment)
          BY <1>1, <3>2 DEF BaseInv, PendingInv
        <5> QED
          BY <5>1, <5>2 DEF DatedBy, OpenBy
      <4>2. CASE table # p.table
        BY <3>3, <4>2
      <4> QED
        BY <4>1, <4>2
    <3>6. {"state", "belief", "link", "critique"} \subseteq Tables \ Versioned
      BY TableFacts DEF Versioned
    <3>7. SameMoment(moment)
      BY <2>1, <3>4, <3>5, <3>6, EchoesItself DEF SameMoment
    <3> QED
      BY <1>1, <2>1, <2>3, <3>7 DEF CommitRow, Known
  <2>4. CASE ClosesCritiques
    <3>1. /\ \A table \in Tables : table # "critique" => log'[table] = log[table]
          /\ OpenBy(log'["critique"], moment) = {}
      BY <2>1, <2>4, ClosesStep
    <3>2. {"process", "bottleneck", "state", "belief", "link"} \subseteq Tables
      BY TableFacts
    <3>3. SameMoment(moment)
      BY <2>1, <3>1, <3>2, EchoesItself DEF SameMoment, Versioned
    <3> QED
      BY <1>1, <2>1, <2>4, <3>3 DEF ClosesCritiques, Known
  <2>5. CASE (\E asOf \in {Now} \cup 1..clock : FindsProcesses(asOf)) \/ Feeds
    BY <1>3, <2>1, <2>5 DEF FindsProcesses, Feeds, rowVars
  <2> QED
    BY <1>6, <2>2, <2>3, <2>4, <2>5 DEF FeedStep
<1>7. CASE WatchStep /\ UNCHANGED <<clock, graphVars, feedVars>>
  BY <1>3, <1>7 DEF graphVars, feedVars, rowVars
<1>8. CASE UNCHANGED readsVars
  BY <1>3, <1>8 DEF readsVars, graphVars, feedVars, rowVars
<1> QED
  BY <1>4, <1>5, <1>6, <1>7, <1>8 DEF ReadsNext

-----------------------------------------------------------------------------
(* Feeds of settled moments stand. *)

\* A feed in progress has found what its moment has, and will.
AskingInv ==
    \A a \in asking :
        /\ a.asOf \in {Now} \cup 1..clock /\ a.cut \in 1..clock
        /\ a.clean => /\ Known(a.asOf) /\ a.cut = a.asOf
                      /\ a.processes = Subjects({}, a.asOf) /\ a.candidates = Candidates(a.asOf)
FedInv == PastFeedsStand /\ \A f \in fed : f.clean => Known(f.asOf) /\ f.cut = f.asOf

\* What a request under way has read of a settled moment stays what is there.
LEMMA AskingKept == BaseInv /\ AskingInv /\ [ReadsNext]_readsVars => AskingInv'
<1> SUFFICES ASSUME BaseInv, AskingInv, [ReadsNext]_readsVars, NEW a \in asking'
             PROVE  (/\ a.asOf \in {Now} \cup 1..clock /\ a.cut \in 1..clock
                     /\ a.clean => /\ Known(a.asOf) /\ a.cut = a.asOf
                                   /\ a.processes = Subjects({}, a.asOf) /\ a.candidates = Candidates(a.asOf))'
  BY DEF AskingInv
<1>1. CASE a \in asking
  <2>1. clock' \in {clock, clock + 1} /\ clock \in Nat
    <3>1. clock' \in {clock, clock + 1}
      BY DEF ReadsNext, readsVars, ReadsTick, GraphStep, Relate, CommitEdge, AbortEdge, ReadRoutes, ReadEdges
    <3> QED
      BY <3>1 DEF BaseInv
  <2>2. a.asOf \in {Now} \cup 1..clock' /\ a.cut \in 1..clock'
    BY <1>1, <2>1 DEF AskingInv
  <2>3. ASSUME a.clean
        PROVE  (Known(a.asOf) /\ a.cut = a.asOf
                  /\ a.processes = Subjects({}, a.asOf) /\ a.candidates = Candidates(a.asOf))'
    <3>1. /\ Known(a.asOf) /\ a.cut = a.asOf
          /\ a.processes = Subjects({}, a.asOf) /\ a.candidates = Candidates(a.asOf)
      BY <1>1, <2>3 DEF AskingInv
    <3>2. Known(a.asOf)' /\ SameMoment(a.asOf)
      BY <3>1, SettledStep
    <3>3. a.asOf \in Nat \ {0} /\ LogInv
      BY <3>1 DEF Known, BaseInv
    <3>4. Subjects({}, a.asOf)' = Subjects({}, a.asOf) /\ Candidates(a.asOf)' = Candidates(a.asOf)
      BY <3>2, <3>3, SubjectsKept
    <3> QED
      BY <3>1, <3>2, <3>4
  <2> QED
    BY <2>2, <2>3
<1>2. CASE a \notin asking
  <2>1. PICK asOf \in {Now} \cup 1..clock : FindsProcesses(asOf) /\ UNCHANGED <<clock, graphVars, watchVars>>
    <3>1. asking' = asking \/ \E asOf \in {Now} \cup 1..clock :
              FindsProcesses(asOf) /\ UNCHANGED <<clock, graphVars, watchVars>>
      BY DEF ReadsNext, readsVars, feedVars, ReadsTick, FeedStep, RecordsRow, CommitRow, ClosesCritiques, Feeds
    <3> QED
      BY <1>2, <3>1
  <2>2. a = [asOf |-> asOf, cut |-> CutOf(asOf), clean |-> Settled(asOf, Stamps),
             processes |-> Subjects({}, asOf), candidates |-> Candidates(asOf)]
    BY <2>1 DEF FindsProcesses
  <2>3. clock \in Nat \ {0} /\ CutOf(asOf) \in 1..clock
    BY DEF BaseInv, CutOf, Now
  <2>4. UNCHANGED <<clock, log, pending, edges, writer>>
    BY <2>1 DEF FindsProcesses, graphVars
  <2>5. Settled(asOf, Stamps) => Known(asOf) /\ CutOf(asOf) = asOf
    BY <2>3 DEF Settled, Known, CutOf, Now
  <2>6. Known(asOf)' = Known(asOf) /\ Subjects({}, asOf)' = Subjects({}, asOf) /\ Candidates(asOf)' = Candidates(asOf)
    BY <2>4 DEF Known, Stamps, OpenStamps, Subjects, Candidates, CurrentRevision, CutOf
  <2> QED
    BY <2>2, <2>3, <2>4, <2>5, <2>6
<1> QED
  BY <1>1, <1>2

\* A feed that was given is given again, of a settled moment.
LEMMA FedStep == BaseInv /\ AskingInv /\ FedInv /\ [ReadsNext]_readsVars => FedInv'
<1> SUFFICES ASSUME BaseInv, AskingInv, FedInv, [ReadsNext]_readsVars, BaseInv', NEW f \in fed', f.clean
             PROVE  /\ Known(f.asOf)' /\ f.cut = f.asOf
                    /\ f.processes = Subjects({}, f.asOf)'
                    /\ f.alerts.dated = Generate(f.processes, f.asOf, f.cut).dated'
                    /\ Generate(f.processes, f.asOf, f.cut).critiques' \subseteq f.alerts.critiques
                    /\ f.candidates = Candidates(f.asOf)'
                    /\ f.facts = [p \in f.candidates |-> Facts(p, f.asOf, f.cut)']
  BY BaseStep DEF FedInv, PastFeedsStand
<1>1. CASE f \in fed
  <2>1. /\ Known(f.asOf) /\ f.cut = f.asOf
        /\ f.processes = Subjects({}, f.asOf)
        /\ f.alerts.dated = Generate(f.processes, f.asOf, f.cut).dated
        /\ Generate(f.processes, f.asOf, f.cut).critiques \subseteq f.alerts.critiques
        /\ f.candidates = Candidates(f.asOf)
        /\ f.facts = [p \in f.candidates |-> Facts(p, f.asOf, f.cut)]
    BY <1>1 DEF FedInv, PastFeedsStand
  <2>2. Known(f.asOf)' /\ SameMoment(f.asOf)
    BY <2>1, SettledStep
  <2>3. f.asOf \in Nat \ {0} /\ LogInv /\ LogInv' /\ EdgesInv
    BY <2>1 DEF Known, BaseInv
  <2>4. Subjects({}, f.asOf)' = Subjects({}, f.asOf) /\ Candidates(f.asOf)' = Candidates(f.asOf)
    BY <2>2, <2>3, SubjectsKept
  <2>5. /\ Generate(f.processes, f.asOf, f.asOf).dated' = Generate(f.processes, f.asOf, f.asOf).dated
        /\ Generate(f.processes, f.asOf, f.asOf).critiques' \subseteq Generate(f.processes, f.asOf, f.asOf).critiques
    BY <2>2, <2>3, AlertsKept
  <2>6. \A p : Facts(p, f.asOf, f.asOf)' = Facts(p, f.asOf, f.asOf)
    BY <2>2, <2>3, FactsKept
  <2> QED
    BY <2>1, <2>2, <2>4, <2>5, <2>6
<1>2. CASE f \notin fed
  <2>1. Feeds /\ UNCHANGED <<clock, graphVars, watchVars>>
    <3>1. fed' \subseteq fed \/ (Feeds /\ UNCHANGED <<clock, graphVars, watchVars>>)
      BY DEF ReadsNext, readsVars, feedVars, ReadsTick, FeedStep, RecordsRow, CommitRow, ClosesCritiques, FindsProcesses
    <3> QED
      BY <1>2, <3>1
  <2>2. PICK a \in asking : f = FeedOf(a)
    BY <2>1 DEF Feeds
  <2>3. /\ a.clean /\ f.asOf = a.asOf /\ f.cut = a.cut /\ f.processes = a.processes /\ f.candidates = a.candidates
        /\ f.alerts = Generate(a.processes, a.asOf, a.cut)
        /\ f.facts = [p \in a.candidates |-> Facts(p, a.asOf, a.cut)]
    BY <2>2 DEF FeedOf
  <2>4. /\ Known(a.asOf) /\ a.cut = a.asOf
        /\ a.processes = Subjects({}, a.asOf) /\ a.candidates = Candidates(a.asOf)
    BY <2>3 DEF AskingInv
  <2>5. Known(a.asOf)' /\ SameMoment(a.asOf)
    BY <2>4, SettledStep
  <2>6. a.asOf \in Nat \ {0} /\ LogInv /\ LogInv' /\ EdgesInv
    BY <2>4 DEF Known, BaseInv
  <2>7. Subjects({}, a.asOf)' = Subjects({}, a.asOf) /\ Candidates(a.asOf)' = Candidates(a.asOf)
    BY <2>5, <2>6, SubjectsKept
  <2>8. /\ Generate(a.processes, a.asOf, a.asOf).dated' = Generate(a.processes, a.asOf, a.asOf).dated
        /\ Generate(a.processes, a.asOf, a.asOf).critiques' \subseteq Generate(a.processes, a.asOf, a.asOf).critiques
    BY <2>5, <2>6, AlertsKept
  <2>9. \A p : Facts(p, a.asOf, a.asOf)' = Facts(p, a.asOf, a.asOf)
    BY <2>5, <2>6, FactsKept
  <2> QED
    BY <2>3, <2>4, <2>5, <2>7, <2>8, <2>9
<1> QED
  BY <1>1, <1>2

-----------------------------------------------------------------------------
(* What a feed says. *)

\* What is current now is current at any moment from the last change on.
LEMMA NowIsCurrentHolds == BaseInv => NowIsCurrent
<1> SUFFICES ASSUME BaseInv, NEW table \in Versioned
             PROVE  /\ CurrentRevision(log[table], Now) = {r \in log[table] : r.to = NoEnd}
                    /\ \A moment \in 1..clock : \A r \in CurrentRevision(log[table], moment) :
                          \A s \in CurrentRevision(log[table], moment) : r.process = s.process => r = s
  BY DEF NowIsCurrent
<1>1. table \in Tables /\ clock \in Nat \ {0} /\ LogInv
  BY TableFacts DEF BaseInv
<1>2. \A r \in log[table] : r.at \in 1..clock /\ r.to \in 0..clock
  BY <1>1 DEF LogInv
<1>3. CurrentRevision(log[table], Now) = {r \in log[table] : r.to = NoEnd}
  BY <1>1, <1>2 DEF CurrentRevision, CutOf, Now, NoEnd
<1>4. Windows("process", "at", log[table]) /\ InOrder("process", "at", log[table])
  BY <1>1, RowsHaveWindows DEF LogInv
<1>5. ASSUME NEW moment \in 1..clock,
             NEW r \in CurrentRevision(log[table], moment), NEW s \in CurrentRevision(log[table], moment),
             r.process = s.process
      PROVE  r = s
  <2>1. r \in RowsAt(log[table], "at", moment) /\ s \in RowsAt(log[table], "at", moment) /\ moment \in Nat
    BY <1>1 DEF CurrentRevision, CutOf, RowsAt, Now
  <2> QED
    BY <1>4, <1>5, <2>1, OneRowAtAMoment
<1> QED
  BY <1>3, <1>5

\* No change is told twice.
LEMMA AlertsAreOne ==
    ASSUME BaseInv, NEW processes, NEW asOf \in {Now} \cup 1..clock, NEW cut
    PROVE  LET told_ == Generate(processes, asOf, cut).dated
           IN \A a \in told_ : \A b \in told_ : a.id = b.id => a = b
<1> DEFINE states == StateTransitions(processes, asOf, cut)
           beliefs == BeliefChanges(processes, asOf, cut)
           against == ContradictingEvidence(processes, cut)
           bottlenecks == BottleneckChanges(processes, asOf, cut)
<1>1. \A a \in states : \E p, o, d : a = Alert("state_transition", "notable", <<"state", p, o, d>>)
  BY DEF StateTransitions
<1>2. \A a \in beliefs : \E p, m, d :
          a = Alert(IF m < 0 THEN "thesis_weakened" ELSE "thesis_strengthened",
                    IF m < 0 THEN "urgent" ELSE "informational", <<"belief", p, m, d>>)
  BY DEF BeliefChanges
<1>3. \A a \in against : \E p, e, d : a = Alert("contradicting_evidence", "urgent", <<"against", p, e, d>>)
  BY DEF ContradictingEvidence
<1>4. \A a, b \in bottlenecks : a.id = b.id => a = b
  <2> DEFINE current == CurrentRevision(log["bottleneck"], asOf)
             Says(r) == Alert(IF Stopped(r) THEN "bottleneck_resolving" ELSE "bottleneck_emerged", "notable",
                              <<"bottleneck", r.process, r.revision>>)
  <2>1. \A r, s \in current : r.process = s.process => r = s
    <3>1. "bottleneck" \in Versioned /\ clock \in 1..clock
      BY DEF Versioned, BaseInv
    <3>2. asOf = Now => current = CurrentRevision(log["bottleneck"], clock)
      BY <3>1 DEF CurrentRevision, CutOf, Now
    <3> QED
      BY <3>1, <3>2, NowIsCurrentHolds DEF NowIsCurrent
  <2>2. \A a \in bottlenecks : \E r \in current : a = Says(r)
    BY DEF BottleneckChanges
  <2>3. \A r, s \in current : Says(r).id = Says(s).id => r.process = s.process
    BY DEF Alert
  <2> HIDE DEF current, Says
  <2> QED
    BY <2>1, <2>2, <2>3
<1>5. \A a \in bottlenecks : \E p, n : a.id = <<"bottleneck", p, n>>
  BY DEF BottleneckChanges, Alert
<1> HIDE DEF states, beliefs, against, bottlenecks
<1>6. \A a \in states : a.id[1] = "state"
  BY <1>1 DEF Alert
<1>7. \A a \in beliefs : a.id[1] = "belief"
  BY <1>2 DEF Alert
<1>8. \A a \in against : a.id[1] = "against"
  BY <1>3 DEF Alert
<1>9. \A a \in bottlenecks : a.id[1] = "bottleneck"
  BY <1>5
<1>10. \A a, b \in states : a.id = b.id => a = b
  BY <1>1 DEF Alert
<1>11. \A a, b \in beliefs : a.id = b.id => a = b
  BY <1>2 DEF Alert
<1>12. \A a, b \in against : a.id = b.id => a = b
  BY <1>3 DEF Alert
<1>13. Generate(processes, asOf, cut).dated = states \cup beliefs \cup against \cup bottlenecks
  BY DEF Generate, states, beliefs, against, bottlenecks
<1> QED
  BY <1>4, <1>6, <1>7, <1>8, <1>9, <1>10, <1>11, <1>12, <1>13

\* What the ranking is made of.
LEMMA FactsParts ==
    ASSUME NEW process, NEW asOf, NEW cut \in Int
    PROVE  /\ Facts(process, asOf, cut).recent = EvidenceBetween(process, cut - EvidenceWindow, cut)
           /\ Facts(process, asOf, cut).prior
                  = EvidenceBetween(process, cut - 2 * EvidenceWindow, cut - EvidenceWindow)
BY DEF Facts

\* And the rest of it.
LEMMA FactsRest ==
    ASSUME NEW process, NEW asOf, NEW cut \in Int
    PROVE  /\ Facts(process, asOf, cut).capabilities
                  = Cardinality({e[2] : e \in {f \in TwoHops(edges, asOf) : f[1] = process}})
           /\ Facts(process, asOf, cut).state = LatestOf(StatesOf(process, asOf))
BY DEF Facts

\* The windows of evidence meet.
LEMMA WindowsMeetHolds == BaseInv => WindowsMeet
<1> SUFFICES ASSUME BaseInv, NEW process
             PROVE  LET facts == Facts(process, Now, clock)
                    IN /\ Facts(process, Now, clock + EvidenceWindow).prior = facts.recent
                       /\ facts.recent + facts.prior
                              = Cardinality({l \in log["link"] : l.process = process /\ l.at > clock - 2 * EvidenceWindow})
  BY DEF WindowsMeet
<1>1. /\ clock \in Nat /\ EvidenceWindow \in Nat
      /\ clock \in Int /\ clock + EvidenceWindow \in Int
  BY FeedAssumption DEF BaseInv
<1> DEFINE Between(from, to) == {l \in log["link"] : l.process = process /\ l.at > from /\ l.at <= to}
           recent == Between(clock - EvidenceWindow, clock)
           prior == Between(clock - 2 * EvidenceWindow, clock - EvidenceWindow)
           both == {l \in log["link"] : l.process = process /\ l.at > clock - 2 * EvidenceWindow}
<1>2. Facts(process, Now, clock + EvidenceWindow).prior = Cardinality(recent)
  <2>1. /\ clock + EvidenceWindow - 2 * EvidenceWindow = clock - EvidenceWindow
        /\ clock + EvidenceWindow - EvidenceWindow = clock
    BY <1>1
  <2>2. Facts(process, Now, clock + EvidenceWindow).prior
          = EvidenceBetween(process, clock + EvidenceWindow - 2 * EvidenceWindow,
                            clock + EvidenceWindow - EvidenceWindow)
    BY <1>1, FactsParts
  <2>3. Facts(process, Now, clock + EvidenceWindow).prior = EvidenceBetween(process, clock - EvidenceWindow, clock)
    BY <2>1, <2>2
  <2> QED
    BY <2>3 DEF EvidenceBetween
<1>3. Facts(process, Now, clock).recent = Cardinality(recent) /\ Facts(process, Now, clock).prior = Cardinality(prior)
  BY <1>1, FactsParts DEF EvidenceBetween
<1>4. "link" \in Tables /\ IsFiniteSet(log["link"]) /\ \A l \in log["link"] : l.at \in 1..clock
  BY TableFacts DEF BaseInv, LogInv
<1>5. IsFiniteSet(recent) /\ IsFiniteSet(prior)
  BY <1>4, FS_Subset
<1>6. recent \cup prior = both /\ recent \cap prior = {}
  BY <1>1, <1>4
<1> HIDE DEF recent, prior, both
<1>7. /\ Cardinality(recent \cup prior) = Cardinality(recent) + Cardinality(prior) - Cardinality(recent \cap prior)
      /\ Cardinality(recent) \in Nat /\ Cardinality(prior) \in Nat
  BY <1>5, FS_Union, FS_CardinalityType
<1>8. Cardinality(both) = Cardinality(recent) + Cardinality(prior)
  <2>1. Cardinality(recent \cap prior) = 0
    BY <1>6, FS_EmptySet
  <2>2. Cardinality(both) = Cardinality(recent \cup prior)
    BY <1>6
  <2> QED
    BY <1>7, <2>1, <2>2
<1> QED
  BY <1>2, <1>3, <1>8 DEF both

\* The smaller of two numbers, and the larger.
LEMMA SmallerLarger ==
    ASSUME NEW m \in Int, NEW n \in Int
    PROVE  Min({m, n}) = (IF m <= n THEN m ELSE n) /\ Max({m, n}) = (IF m <= n THEN n ELSE m)
BY DEF Min, Max

\* What evidence scores by the two windows, in terms of their counts.
LEMMA AccelerationValue ==
    ASSUME NEW recent \in Nat, NEW prior \in Nat
    PROVE  /\ prior = 0 => Acceleration(recent, prior) =
                  IF recent = 0 THEN 0 ELSE IF 60 + 6 * recent <= 120 THEN 60 + 6 * recent ELSE 120
           /\ prior > 0 => Acceleration(recent, prior) =
                  IF (recent * 120) \div (2 * prior) <= 120 THEN (recent * 120) \div (2 * prior) ELSE 120
           /\ prior > 0 => (recent * 120) \div (2 * prior) \in Nat
<1>1. ASSUME prior = 0, recent # 0
      PROVE  Acceleration(recent, prior) = IF 60 + 6 * recent <= 120 THEN 60 + 6 * recent ELSE 120
  <2>1. Unit \div 2 + (recent * Unit) \div 20 = 60 + 6 * recent
    BY DEF Unit
  <2>2. Acceleration(recent, prior) = Min({Unit, 60 + 6 * recent})
    BY <1>1, <2>1 DEF Acceleration
  <2> QED
    BY <2>2, SmallerLarger DEF Unit
<1>2. ASSUME prior > 0
      PROVE  /\ (recent * 120) \div (2 * prior) \in Nat
             /\ Acceleration(recent, prior) =
                  IF (recent * 120) \div (2 * prior) <= 120 THEN (recent * 120) \div (2 * prior) ELSE 120
  <2> DEFINE part == (recent * 120) \div (2 * prior)
  <2>1. part \in Nat
    BY <1>2
  <2>2. Acceleration(recent, prior) = Min({120, part})
    BY <1>2 DEF Acceleration, Unit
  <2> HIDE DEF part
  <2>3. Acceleration(recent, prior) = IF part <= 120 THEN part ELSE 120
    BY <2>1, <2>2, SmallerLarger
  <2> QED
    BY <2>1, <2>3 DEF part
<1> QED
  BY <1>1, <1>2 DEF Acceleration

\* The score of the evidence tells its direction.
LEMMA AccelerationHolds == AccelerationTellsTheDirection
<1> SUFFICES ASSUME NEW recent \in 0..6, NEW prior \in 0..6
             PROVE  Scored(recent, prior)
  BY DEF AccelerationTellsTheDirection, Misscored
<1>1. Passes([recent |-> recent, prior |-> prior, capabilities |-> 0], 0, TRUE) <=> recent > prior
  BY DEF Passes
<1>2. ASSUME NEW part \in 0..120, NEW more \in 0..120, part <= more,
             part = Acceleration(recent, prior), more = Acceleration(recent + 1, prior),
             recent < prior <=> recent + prior > 0 /\ part < 60, recent > prior <=> part > 60
      PROVE  Scored(recent, prior)
  <2>1. part \in 0..Unit /\ (2 * part < Unit <=> part < 60) /\ (2 * part > Unit <=> part > 60)
    BY <1>2 DEF Unit
  <2> QED
    BY <1>1, <1>2, <2>1 DEF Scored
<1>3. recent \in Nat /\ recent + 1 \in Nat /\ prior \in Nat
  OBVIOUS
<1>4. CASE prior = 0
  <2> DEFINE part == IF recent = 0 THEN 0 ELSE IF 60 + 6 * recent <= 120 THEN 60 + 6 * recent ELSE 120
             more == IF 60 + 6 * (recent + 1) <= 120 THEN 60 + 6 * (recent + 1) ELSE 120
  <2>1. part = Acceleration(recent, prior)
    BY <1>3, <1>4, AccelerationValue
  <2>2. more = Acceleration(recent + 1, prior)
    BY <1>3, <1>4, AccelerationValue
  <2>3. /\ part \in 0..120 /\ more \in 0..120 /\ part <= more
        /\ (recent < prior <=> recent + prior > 0 /\ part < 60) /\ (recent > prior <=> part > 60)
    BY <1>4
  <2> HIDE DEF part, more
  <2> QED
    BY <1>2, <2>1, <2>2, <2>3
<1>5. CASE prior > 0
  <2>1. \A k \in 1..6, n \in 0..7 : (n * 120) \div (2 * k) \in Nat
    OBVIOUS
  <2>2. \A k \in 1..6, n \in 0..6 : (n * 120) \div (2 * k) <= ((n + 1) * 120) \div (2 * k)
    OBVIOUS
  <2>3. \A k \in 1..6, n \in 0..6 : n < k <=> (n * 120) \div (2 * k) < 60
    OBVIOUS
  <2>4. \A k \in 1..6, n \in 0..6 : n > k <=> (n * 120) \div (2 * k) > 60
    OBVIOUS
  <2> DEFINE ofThese == (recent * 120) \div (2 * prior)
             ofMore == ((recent + 1) * 120) \div (2 * prior)
             part == IF ofThese <= 120 THEN ofThese ELSE 120
             more == IF ofMore <= 120 THEN ofMore ELSE 120
  <2>5. prior \in 1..6 /\ recent + 1 \in 0..7 /\ recent \in 0..7
    BY <1>5
  <2>6. /\ ofThese \in Nat /\ ofMore \in Nat /\ ofThese <= ofMore
        /\ (recent < prior <=> ofThese < 60) /\ (recent > prior <=> ofThese > 60)
    BY <2>1, <2>2, <2>3, <2>4, <2>5
  <2>7. part = Acceleration(recent, prior)
    BY <1>3, <1>5, AccelerationValue
  <2>8. more = Acceleration(recent + 1, prior)
    BY <1>3, <1>5, AccelerationValue
  <2> HIDE DEF ofThese, ofMore
  <2>9. /\ part \in 0..120 /\ more \in 0..120 /\ part <= more
        /\ (recent < prior <=> recent + prior > 0 /\ part < 60) /\ (recent > prior <=> part > 60)
    BY <1>5, <2>6
  <2> HIDE DEF part, more
  <2> QED
    BY <1>2, <2>7, <2>8, <2>9
<1> QED
  BY <1>4, <1>5

\* What the ranking is made of is counted, and a State is what agents record.
CountedFacts(facts) ==
    /\ facts.recent \in Nat /\ facts.prior \in Nat /\ facts.capabilities \in Nat
    /\ \A s \in facts.state : s.observed \in Int /\ s.confidence \in 0..100

\* The facts of a Process are counts, and a State has a confidence of a hundred at most.
LEMMA FactsAreCounted ==
    ASSUME BaseInv, NEW process, NEW asOf, NEW cut \in Int
    PROVE  CountedFacts(Facts(process, asOf, cut))
<1>1. {"link", "state"} \subseteq Tables /\ LogInv /\ EdgesInv
  BY TableFacts DEF BaseInv
<1>2. ASSUME NEW from, NEW to
      PROVE  EvidenceBetween(process, from, to) \in Nat
  <2>1. IsFiniteSet({l \in log["link"] : l.process = process /\ l.at > from /\ l.at <= to})
    BY <1>1, FS_Subset DEF LogInv
  <2> QED
    BY <2>1, FS_CardinalityType DEF EvidenceBetween
<1>3. Cardinality({e[2] : e \in {f \in TwoHops(edges, asOf) : f[1] = process}}) \in Nat
  <2> DEFINE meeting == {f \in edges \X edges :
                           /\ f[1].type = "creates" /\ f[2].type = "requires" /\ f[1].target = f[2].source
                           /\ ValidAt(f[1], asOf) /\ ValidAt(f[2], asOf)}
             ends(e) == <<e[1].source, e[2].target>>
             hops == {ends(e) : e \in meeting}
             these == {f \in hops : f[1] = process}
             found == {e[2] : e \in these}
  <2>1. IsFiniteSet(edges \X edges)
    BY <1>1, FS_Product DEF EdgesInv
  <2>2. IsFiniteSet(meeting)
    BY <2>1, FS_Subset
  <2>3. TwoHops(edges, asOf) = hops
    BY DEF TwoHops
  <2> HIDE DEF meeting
  <2>4. [e \in meeting |-> ends(e)] \in Surjection(meeting, hops)
    BY DEF Surjection
  <2>5. IsFiniteSet(hops)
    BY <2>2, <2>4, FS_Surjection
  <2> HIDE DEF hops
  <2>6. IsFiniteSet(these)
    BY <2>5, FS_Subset
  <2> HIDE DEF these
  <2>7. [e \in these |-> e[2]] \in Surjection(these, found)
    BY DEF Surjection
  <2>8. IsFiniteSet(found)
    BY <2>6, <2>7, FS_Surjection
  <2> QED
    BY <2>3, <2>8, FS_CardinalityType DEF these
<1>4. \A s \in LatestOf(StatesOf(process, asOf)) : s.observed \in Int /\ s.confidence \in 0..100
  BY <1>1, TableFacts DEF LatestOf, StatesOf, RecordedBy, LogInv
<1> QED
  BY <1>2, <1>3, <1>4, FactsParts, FactsRest DEF CountedFacts

\* The parts of a score are parts of the unit.
LEMMA PartsOfAScore ==
    /\ \A count \in Nat : Saturating(count, 10) \in 0..120 /\ Saturating(count, 6) \in 0..120
    /\ \A recent, prior \in Nat : Acceleration(recent, prior) \in 0..120
    /\ \A state, cut : cut \in Nat /\ (\A s \in state : s.observed \in Int) => Recency(state, cut) \in 0..120
<1>1. ASSUME NEW count \in Nat
      PROVE  Saturating(count, 10) \in 0..120 /\ Saturating(count, 6) \in 0..120
  <2> DEFINE tenth == (count * 120) \div 10
             sixth == (count * 120) \div 6
  <2>1. tenth \in Nat /\ sixth \in Nat
    OBVIOUS
  <2>2. Saturating(count, 10) = Min({120, tenth}) /\ Saturating(count, 6) = Min({120, sixth})
    BY DEF Saturating, Unit
  <2> HIDE DEF tenth, sixth
  <2>3. Min({120, tenth}) \in 0..120 /\ Min({120, sixth}) \in 0..120
    BY <2>1 DEF Min
  <2> QED
    BY <2>2, <2>3
<1>2. ASSUME NEW recent \in Nat, NEW prior \in Nat
      PROVE  Acceleration(recent, prior) \in 0..120
  <2>1. CASE prior = 0
    <3>1. Acceleration(recent, prior) =
            IF recent = 0 THEN 0 ELSE IF 60 + 6 * recent <= 120 THEN 60 + 6 * recent ELSE 120
      BY <2>1, AccelerationValue
    <3> QED
      BY <3>1
  <2>2. CASE prior > 0
    <3> DEFINE part == (recent * 120) \div (2 * prior)
    <3>1. part \in Nat /\ Acceleration(recent, prior) = IF part <= 120 THEN part ELSE 120
      BY <2>2, AccelerationValue
    <3> HIDE DEF part
    <3> QED
      BY <3>1
  <2> QED
    BY <2>1, <2>2
<1>3. ASSUME NEW state, NEW cut \in Nat, \A s \in state : s.observed \in Int
      PROVE  Recency(state, cut) \in 0..120
  <2>1. CASE state = {}
    BY <2>1 DEF Recency
  <2>2. CASE state # {}
    <3> DEFINE latest == CHOOSE s \in state : TRUE
               age == Max({0, cut - latest.observed})
               lost == (age * TickDays * Unit) \div 180
    <3>1. cut - latest.observed \in Int
      BY <1>3, <2>2
    <3>2. age \in Nat
      <4> DEFINE since == cut - latest.observed
      <4>1. since \in Int
        BY <3>1
      <4> HIDE DEF since
      <4>2. Max({0, since}) = (IF 0 <= since THEN since ELSE 0)
        <5>1. 0 \in Int
          OBVIOUS
        <5> QED
          BY <4>1, <5>1, SmallerLarger
      <4> QED
        BY <4>1, <4>2 DEF since
    <3>3. Recency(state, cut) = Max({0, Unit - lost})
      BY <2>2 DEF Recency
    <3> HIDE DEF age
    <3>4. age * TickDays \in Nat
      BY <3>2, FeedAssumption
    <3>5. lost \in Nat
      <4> DEFINE days == age * TickDays
      <4>1. days \in Nat
        BY <3>4
      <4> HIDE DEF days
      <4>2. (days * Unit) \div 180 \in Nat
        BY <4>1 DEF Unit
      <4> QED
        BY <4>2 DEF days
    <3> HIDE DEF lost
    <3> DEFINE rest == Unit - lost
    <3>6. rest \in Int /\ rest <= 120
      BY <3>5 DEF Unit
    <3> HIDE DEF rest
    <3>7. Max({0, rest}) \in 0..120
      BY <3>6 DEF Max
    <3> QED
      BY <3>3, <3>7 DEF rest
  <2> QED
    BY <2>1, <2>2
<1> QED
  BY <1>1, <1>2, <1>3

\* Weights that add up to a hundred give no more than a hundred units.
LEMMA WeighedSum ==
    ASSUME NEW a \in Int, NEW b \in Int, NEW c \in Int, NEW d \in Int, NEW e \in Int,
           0 <= a, a <= 120, 0 <= b, b <= 120, 0 <= c, c <= 120, 0 <= d, d <= 120, 0 <= e, e <= 120
    PROVE  LET sum == 30 * a + 20 * b + 15 * c + 15 * d + 10 * e + 10 * d
           IN sum \in Int /\ 0 <= sum /\ sum <= 12000
OBVIOUS

\* Then the whole is at most the unit.
LEMMA ScoreFits ==
    ASSUME NEW facts, CountedFacts(facts), NEW cut \in Nat, NEW few \in Nat
    PROVE  Score(facts, cut, few, few) \in 0..(100 * Unit)
<1> DEFINE confidence == IF facts.state = {} THEN 0 ELSE ((CHOOSE s \in facts.state : TRUE).confidence * Unit) \div 100
           acceleration == Acceleration(facts.recent, facts.prior)
           recency == Recency(facts.state, cut)
           breadth == Saturating(few, 10)
           capabilities == Saturating(facts.capabilities, 6)
<1>1. confidence \in 0..120
  <2>1. CASE facts.state = {}
    BY <2>1
  <2>2. CASE facts.state # {}
    <3>1. (CHOOSE s \in facts.state : TRUE).confidence \in 0..100
      BY <2>2 DEF CountedFacts
    <3>2. \A n \in 0..100 : (n * Unit) \div 100 \in 0..120
      BY DEF Unit
    <3> QED
      BY <2>2, <3>1, <3>2
  <2> QED
    BY <2>1, <2>2
<1>2. /\ acceleration \in 0..120 /\ recency \in 0..120 /\ breadth \in 0..120 /\ capabilities \in 0..120
  BY PartsOfAScore DEF CountedFacts
<1>3. Score(facts, cut, few, few)
        = 30 * acceleration + 20 * confidence + 15 * recency + 15 * breadth + 10 * capabilities + 10 * breadth
  BY DEF Score, Weights
<1> HIDE DEF confidence, acceleration, recency, breadth, capabilities
<1>4. /\ acceleration \in Int /\ 0 <= acceleration /\ acceleration <= 120
      /\ confidence \in Int /\ 0 <= confidence /\ confidence <= 120
      /\ recency \in Int /\ 0 <= recency /\ recency <= 120
      /\ breadth \in Int /\ 0 <= breadth /\ breadth <= 120
      /\ capabilities \in Int /\ 0 <= capabilities /\ capabilities <= 120
  BY <1>1, <1>2
<1>5. PICK sum : sum = 30 * acceleration + 20 * confidence + 15 * recency + 15 * breadth + 10 * capabilities + 10 * breadth
  OBVIOUS
<1>6. sum \in Int /\ 0 <= sum /\ sum <= 12000
  BY <1>4, <1>5, WeighedSum
<1>7. sum \in 0..(100 * Unit)
  BY <1>6 DEF Unit
<1>8. Score(facts, cut, few, few) = sum
  BY <1>3, <1>5, Zenon
<1> QED
  BY <1>7, <1>8, Zenon

\* A feed tells no change twice, and its ranking is made of counts.
SaysInv ==
    \A f \in fed :
        /\ f.cut \in Nat
        /\ \A a \in f.alerts.dated : \A b \in f.alerts.dated : a.id = b.id => a = b
        /\ \A p \in f.candidates : CountedFacts(f.facts[p])

\* A feed is made once, of what was read at its moment.
LEMMA SaysStep == BaseInv /\ AskingInv /\ SaysInv /\ [ReadsNext]_readsVars => SaysInv'
<1> SUFFICES ASSUME BaseInv, AskingInv, SaysInv, [ReadsNext]_readsVars, NEW f \in fed'
             PROVE  /\ f.cut \in Nat
                    /\ \A a \in f.alerts.dated : \A b \in f.alerts.dated : a.id = b.id => a = b
                    /\ \A p \in f.candidates : CountedFacts(f.facts[p])
  BY DEF SaysInv, CountedFacts
<1>1. CASE f \in fed
  BY <1>1 DEF SaysInv
<1>2. CASE f \notin fed
  <2>1. Feeds
    <3>1. fed' \subseteq fed \/ Feeds
      BY DEF ReadsNext, readsVars, feedVars, ReadsTick, FeedStep, RecordsRow, CommitRow, ClosesCritiques, FindsProcesses
    <3> QED
      BY <1>2, <3>1
  <2>2. PICK a \in asking : f = FeedOf(a)
    BY <2>1 DEF Feeds
  <2>3. /\ f.cut = a.cut /\ f.candidates = a.candidates
        /\ f.alerts = Generate(a.processes, a.asOf, a.cut)
        /\ f.facts = [p \in a.candidates |-> Facts(p, a.asOf, a.cut)]
    BY <2>2 DEF FeedOf
  <2>4. a.asOf \in {Now} \cup 1..clock /\ a.cut \in Nat /\ a.cut \in Int
    BY DEF AskingInv, BaseInv
  <2>5. LET says == Generate(a.processes, a.asOf, a.cut).dated
        IN \A c \in says : \A b \in says : c.id = b.id => c = b
    BY <2>4, AlertsAreOne
  <2>6. \A p : CountedFacts(Facts(p, a.asOf, a.cut))
    BY <2>4, FactsAreCounted
  <2> QED
    BY <2>3, <2>4, <2>5, <2>6
<1> QED
  BY <1>1, <1>2

\* The inductive invariant of the feeds.
FeedsInv == BaseInv /\ AskingInv /\ FedInv /\ SaysInv

\* Nothing was asked yet.
LEMMA FeedsInit == ReadsInit => FeedsInv
<1> SUFFICES ASSUME ReadsInit
             PROVE  FeedsInv
  OBVIOUS
<1>1. asking = {} /\ fed = {}
  BY DEF ReadsInit, FeedInit
<1> QED
  BY <1>1, BaseInit DEF FeedsInv, AskingInv, FedInv, PastFeedsStand, SaysInv

\* The four parts are kept together: a feed rests on what its request read, that on the rows.
LEMMA FeedsStep == FeedsInv /\ [ReadsNext]_readsVars => FeedsInv'
BY BaseStep, AskingKept, FedStep, SaysStep DEF FeedsInv

\* The invariant holds, whatever the readers and the writers do.
LEMMA FeedsInvHolds == ReadsSpec => []FeedsInv
BY FeedsInit, FeedsStep, PTL DEF ReadsSpec

\* It says of every feed what the run checks.
LEMMA FeedsInvSuffices == FeedsInv => FeedsAnswerForTheirMoment
<1> SUFFICES ASSUME FeedsInv
             PROVE  FeedsAnswerForTheirMoment
  OBVIOUS
<1>1. NowIsCurrent /\ WindowsMeet /\ AccelerationTellsTheDirection
  BY NowIsCurrentHolds, WindowsMeetHolds, AccelerationHolds DEF FeedsInv
<1>2. PastFeedsStand
  BY DEF FeedsInv, FedInv
<1>3. AlertsAreOnePerChange
  BY DEF FeedsInv, SaysInv, AlertsAreOnePerChange
<1>4. ScoresFit
  <2> SUFFICES ASSUME NEW f \in fed, NEW p \in f.candidates, NEW few \in {0, 11}
               PROVE  Score(f.facts[p], f.cut, few, few) \in 0..100 * Unit
    BY DEF ScoresFit
  <2>1. CountedFacts(f.facts[p]) /\ f.cut \in Nat /\ few \in Nat
    BY DEF FeedsInv, SaysInv
  <2> QED
    BY <2>1, ScoreFits
<1> QED
  BY <1>1, <1>2, <1>3, <1>4 DEF FeedsAnswerForTheirMoment

(* Whatever agents record, revise, close and commit late, a feed answers for the
   moment it is asked about (alerts.py:91-118, discover.py:131-172,
   temporal.py:23-43): a settled moment has one feed and one ranking, the
   present is one row of each entity, no change is told twice, the windows of
   evidence meet and tell its direction, and a score is at most the whole. *)
THEOREM FeedsAnswerForTheirMomentHolds == ReadsSpec => []FeedsAnswerForTheirMoment
BY FeedsInvHolds, FeedsInvSuffices, PTL

-----------------------------------------------------------------------------
(* What a traversal answered of a settled moment is an answer still. *)

\* No open transaction of an edge is dated at or before a past moment.
EdgesKnown(moment) == moment \in Nat \ {0} /\ moment < clock /\ \A s \in OpenStamps : s > moment

\* No step says anything new of the edges of such a moment.
LEMMA EdgesSettledStep ==
    ASSUME BaseInv, [ReadsNext]_readsVars, NEW moment, EdgesKnown(moment)
    PROVE  EdgesKnown(moment)' /\ Echoes(RowsAt(edges, "from", moment), RowsAt(edges', "from", moment))
<1> USE DEF OpenStamps
<1>1. /\ moment \in Nat \ {0} /\ moment < clock /\ clock \in Nat
      /\ \A w \in writer : w.row.from > moment
  BY DEF EdgesKnown, BaseInv
<1>2. CASE UNCHANGED <<clock, edges, writer>>
  BY <1>2, EchoesItself DEF EdgesKnown
<1>3. CASE ReadsTick
  <2>1. clock' = clock + 1 /\ UNCHANGED <<edges, writer>>
    BY <1>3 DEF ReadsTick, graphVars
  <2> QED
    BY <1>1, <2>1, EchoesItself DEF EdgesKnown
<1>4. ASSUME NEW fact \in Asserted, Relate(fact)
      PROVE  EdgesKnown(moment)' /\ Echoes(RowsAt(edges, "from", moment), RowsAt(edges', "from", moment))
  <2>1. (\A w \in writer' : w.row.from = clock) /\ clock' = clock /\ edges' = edges
    BY <1>4, RelateStep DEF Relate
  <2> QED
    BY <1>1, <2>1, EchoesItself DEF EdgesKnown
<1>5. CASE CommitEdge
  <2>1. PICK w \in writer : edges' = Replaced(edges, w.closes, w.row.from) \cup {w.row}
    BY <1>5 DEF CommitEdge, Committed
  <2>2. Succeeds("id", "from", edges, w.closes, w.row)
    BY DEF BaseInv, WriterInv
  <2>3. Echoes(RowsAt(edges, "from", moment), RowsAt(edges', "from", moment))
    BY <1>1, <2>1, <2>2, SuccessorKeepsThePast
  <2> QED
    BY <1>1, <1>5, <2>3 DEF CommitEdge, EdgesKnown
<1>6. CASE AbortEdge
  BY <1>1, <1>6, EchoesItself DEF AbortEdge, EdgesKnown
<1>7. CASE \/ \E question \in Questions : \E asOf \in {Now} \cup 1..clock : ReadRoutes(question, asOf)
           \/ ReadEdges
  BY <1>2, <1>7 DEF ReadRoutes, ReadEdges
<1>8. CASE UNCHANGED <<clock, graphVars>>
  BY <1>2, <1>8 DEF graphVars
<1> QED
  BY <1>3, <1>4, <1>5, <1>6, <1>7, <1>8 DEF ReadsNext, GraphStep, readsVars

\* The edge a path says by its id.
Said(found, id) == GraphEdge(CHOOSE r \in found : r.id = id)

\* Edges that differ in their end only are told alike.
LEMMA ToldAlike ==
    ASSUME NEW old, NEW new, Echoes(old, new),
           \A r \in old : DOMAIN r = {"id", "source", "target", "type", "weight", "from", "to"},
           \A r, s \in old : r.id = s.id => r = s,
           \A r, s \in new : r.id = s.id => r = s,
           NEW cut, NEW spec
    PROVE  Told(cut, old, spec) = Told(cut, new, spec)
<1>1. \A r \in old, s \in new : Echo(r, s) => s.id = r.id /\ GraphEdge(s) = GraphEdge(r)
  BY DEF Echo, GraphEdge
<1>2. {r.id : r \in old} = {r.id : r \in new}
  BY <1>1 DEF Echoes
<1>3. ASSUME NEW id \in {r.id : r \in old}
      PROVE  Said(old, id) = Said(new, id)
  <2>1. PICK r \in old : r.id = id
    OBVIOUS
  <2>2. PICK s \in new : Echo(r, s)
    BY DEF Echoes
  <2>3. (CHOOSE q \in old : q.id = id) = r
    BY <2>1
  <2>4. (CHOOSE q \in new : q.id = id) = s
    BY <1>1, <2>1, <2>2
  <2> QED
    BY <1>1, <2>2, <2>3, <2>4 DEF Said
<1> DEFINE Complete(found) == {v \in cut : /\ spec.targets = {} \/ TypeOf[Last(v.path)] \in spec.targets
                                           /\ Range(v.edges) \subseteq {r.id : r \in found}}
           Path(w, found) == [nodes |-> w.path, edges |-> [n \in DOMAIN w.edges |-> Said(found, w.edges[n])]]
<1>4. Complete(old) = Complete(new)
  BY <1>2
<1>5. ASSUME NEW w \in Complete(old)
      PROVE  Path(w, old) = Path(w, new)
  <2>1. \A n \in DOMAIN w.edges : w.edges[n] \in {r.id : r \in old}
    BY DEF Range
  <2>2. \A n \in DOMAIN w.edges : Said(old, w.edges[n]) = Said(new, w.edges[n])
    BY <1>3, <2>1
  <2> QED
    BY <2>2
<1>6. \A found : Told(cut, found, spec) = {Path(w, found) : w \in Complete(found)}
  BY DEF Told, Said
<1> HIDE DEF Complete, Path
<1>7. {Path(w, old) : w \in Complete(old)} = {Path(w, new) : w \in Complete(new)}
  BY <1>4, <1>5
<1> QED
  BY <1>6, <1>7

\* The routes and the answers of a settled moment are the same.
LEMMA AnswersKept ==
    ASSUME BaseInv, BaseInv', NEW moment \in Nat \ {0},
           Echoes(RowsAt(edges, "from", moment), RowsAt(edges', "from", moment)), NEW seeds, NEW spec
    PROVE  /\ Routes(edges, seeds, spec, moment)' = Routes(edges, seeds, spec, moment)
           /\ Answers(edges, seeds, spec, moment)' = Answers(edges, seeds, spec, moment)
<1> DEFINE old == RowsAt(edges, "from", moment)
           new == RowsAt(edges', "from", moment)
<1>1. \A rows : {r \in rows : ValidAt(r, moment)} = RowsAt(rows, "from", moment)
  BY DEF ValidAt, RowsAt, Now
<1>2. \A r \in old : DOMAIN r = {"id", "source", "target", "type", "weight", "from", "to"}
  BY DEF RowsAt, BaseInv, EdgesInv, EdgeShape
<1>3. \A r \in old, s \in new : Echo(r, s) =>
          s.id = r.id /\ s.source = r.source /\ s.target = r.target /\ s.type = r.type
  BY <1>2 DEF Echo
<1>4. \A r, s \in old : r.id = s.id => r = s
  BY EdgesHaveWindows, OneRowAtAMoment DEF BaseInv, EdgesInv
<1>5. \A r, s \in new : r.id = s.id => r = s
  <2>1. Windows("id", "from", edges')
    BY DEF BaseInv, EdgesInv, EdgeShape, Windows
  <2> QED
    BY <2>1, OneRowAtAMoment DEF BaseInv, EdgesInv
<1>6. Arcs(edges, spec, moment)' = Arcs(edges, spec, moment)
  <2> DEFINE Walked(rows) == {r \in rows : spec.types = {} \/ r.type \in spec.types}
             Down(r) == [id |-> r.id, from |-> r.source, to |-> r.target]
             Up(r) == [id |-> r.id, from |-> r.target, to |-> r.source]
             Of(rows) == (IF spec.direction = "upstream" THEN {} ELSE {Down(r) : r \in Walked(rows)})
                         \cup (IF spec.direction = "downstream" THEN {} ELSE {Up(r) : r \in Walked(rows)})
  <2>1. {r \in edges : ValidAt(r, moment) /\ (spec.types = {} \/ r.type \in spec.types)} = Walked(old)
    BY DEF ValidAt, RowsAt, Now
  <2>2. {r \in edges' : ValidAt(r, moment) /\ (spec.types = {} \/ r.type \in spec.types)} = Walked(new)
    BY DEF ValidAt, RowsAt, Now
  <2>3. Arcs(edges, spec, moment) = Of(old) /\ Arcs(edges, spec, moment)' = Of(new)
    BY <2>1, <2>2 DEF Arcs
  <2> HIDE DEF old, new
  <2>4. \A r \in old, s \in new : Echo(r, s) => Down(s) = Down(r) /\ Up(s) = Up(r) /\ s.type = r.type
    BY <1>3
  <2> HIDE DEF Down, Up
  <2>5. {Down(r) : r \in Walked(old)} = {Down(r) : r \in Walked(new)}
    BY <2>4 DEF Echoes, old, new
  <2>6. {Up(r) : r \in Walked(old)} = {Up(r) : r \in Walked(new)}
    BY <2>4 DEF Echoes, old, new
  <2> QED
    BY <2>3, <2>5, <2>6
<1>7. Routes(edges, seeds, spec, moment)' = Routes(edges, seeds, spec, moment)
  BY <1>6 DEF Routes
<1>8. ASSUME NEW cut
      PROVE  Told(cut, EdgesById(edges, EdgeIds(cut), moment), spec)'
               = Told(cut, EdgesById(edges, EdgeIds(cut), moment), spec)
  <2> DEFINE FoundEdges(rows) == {r \in rows : r.id \in EdgeIds(cut)}
  <2>1. EdgesById(edges, EdgeIds(cut), moment) = FoundEdges(old) /\ EdgesById(edges, EdgeIds(cut), moment)' = FoundEdges(new)
    BY DEF EdgesById, ValidAt, RowsAt, Now
  <2> HIDE DEF old, new
  <2>2. Echoes(FoundEdges(old), FoundEdges(new))
    BY <1>3 DEF Echoes, old, new
  <2>3. Told(cut, FoundEdges(old), spec) = Told(cut, FoundEdges(new), spec)
    BY <1>2, <1>4, <1>5, <2>2, ToldAlike
  <2> QED
    BY <2>1, <2>3
<1> QED
  BY <1>7, <1>8 DEF Answers

\* A traversal of a settled moment has routes it would find again.
RoutesInv ==
    /\ \A r \in reader : r.clean =>
          /\ EdgesKnown(r.asOf)
          /\ r.cut \in Routes(edges, r.question.seeds, r.question.spec, r.asOf)
    /\ PastAnswersStand
    /\ \A t \in told : t.clean => EdgesKnown(t.asOf)

\* A traversal under way keeps to the edges of its moment, and so does what it told.
LEMMA RoutesStep == BaseInv /\ RoutesInv /\ [ReadsNext]_readsVars => RoutesInv'
<1> SUFFICES ASSUME BaseInv, RoutesInv, [ReadsNext]_readsVars
             PROVE  RoutesInv'
  OBVIOUS
<1>1. BaseInv'
  BY BaseStep
<1>2. ASSUME NEW moment, EdgesKnown(moment)
      PROVE  /\ EdgesKnown(moment)'
             /\ \A seeds, spec : /\ Routes(edges, seeds, spec, moment)' = Routes(edges, seeds, spec, moment)
                                 /\ Answers(edges, seeds, spec, moment)' = Answers(edges, seeds, spec, moment)
  <2>1. EdgesKnown(moment)' /\ Echoes(RowsAt(edges, "from", moment), RowsAt(edges', "from", moment))
    BY <1>2, EdgesSettledStep
  <2>2. moment \in Nat \ {0}
    BY <1>2 DEF EdgesKnown
  <2> QED
    BY <1>1, <2>1, <2>2, AnswersKept
<1>3. /\ reader' \subseteq reader \/ \E question \in Questions : \E asOf \in {Now} \cup 1..clock : ReadRoutes(question, asOf)
      /\ told' \subseteq told \/ ReadEdges
  BY DEF ReadsNext, readsVars, graphVars, ReadsTick, GraphStep, Relate, CommitEdge, AbortEdge, ReadRoutes, ReadEdges
<1>4. ASSUME NEW r \in reader', r.clean
      PROVE  /\ EdgesKnown(r.asOf)'
             /\ r.cut \in Routes(edges, r.question.seeds, r.question.spec, r.asOf)'
  <2>1. CASE r \in reader
    <3>1. EdgesKnown(r.asOf) /\ r.cut \in Routes(edges, r.question.seeds, r.question.spec, r.asOf)
      BY <1>4, <2>1 DEF RoutesInv
    <3> QED
      BY <1>2, <3>1
  <2>2. CASE r \notin reader
    <3>1. PICK question \in Questions : \E asOf \in {Now} \cup 1..clock : ReadRoutes(question, asOf)
      BY <1>3, <2>2
    <3>2. PICK asOf \in {Now} \cup 1..clock : ReadRoutes(question, asOf)
      BY <3>1
    <3>3. PICK cut \in Routes(edges, question.seeds, question.spec, asOf) :
              r = [question |-> question, asOf |-> asOf, cut |-> cut, clean |-> Settled(asOf, OpenStamps)]
      BY <3>2 DEF ReadRoutes
    <3>4. EdgesKnown(asOf)
      <4>1. Settled(asOf, OpenStamps)
        BY <1>4, <3>3
      <4>2. clock \in Nat \ {0}
        BY DEF BaseInv
      <4> QED
        BY <4>1, <4>2 DEF Settled, EdgesKnown, Now
    <3> QED
      BY <1>2, <3>3, <3>4
  <2> QED
    BY <2>1, <2>2
<1>5. ASSUME NEW t \in told', t.clean
      PROVE  EdgesKnown(t.asOf)' /\ t.paths \in Answers(edges, t.question.seeds, t.question.spec, t.asOf)'
  <2>1. CASE t \in told
    <3>1. EdgesKnown(t.asOf) /\ t.paths \in Answers(edges, t.question.seeds, t.question.spec, t.asOf)
      BY <1>5, <2>1 DEF RoutesInv, PastAnswersStand
    <3> QED
      BY <1>2, <3>1
  <2>2. CASE t \notin told
    <3>1. PICK r \in reader :
              t = Answer(r, Told(r.cut, EdgesById(edges, EdgeIds(r.cut), r.asOf), r.question.spec))
      <4>1. \E r \in reader :
                told' = {Answer(r, Told(r.cut, EdgesById(edges, EdgeIds(r.cut), r.asOf), r.question.spec))}
        BY <1>3, <2>2 DEF ReadEdges
      <4> QED
        BY <4>1
    <3>2. /\ t.question = r.question /\ t.asOf = r.asOf /\ t.clean = r.clean
          /\ t.paths = Told(r.cut, EdgesById(edges, EdgeIds(r.cut), r.asOf), r.question.spec)
      BY <3>1 DEF Answer
    <3>3. EdgesKnown(r.asOf) /\ r.cut \in Routes(edges, r.question.seeds, r.question.spec, r.asOf)
      BY <1>5, <3>2 DEF RoutesInv
    <3>4. t.paths \in Answers(edges, t.question.seeds, t.question.spec, t.asOf)
      BY <3>2, <3>3 DEF Answers
    <3> QED
      BY <1>2, <3>2, <3>3, <3>4
  <2> QED
    BY <2>1, <2>2
<1> QED
  BY <1>4, <1>5 DEF RoutesInv, PastAnswersStand

(* However the graph is revised since, what a traversal told of a settled moment
   is what it would tell today: the routes, the edges on them, and no other
   revision of them (queries.py:12-15, 154-247). *)
THEOREM PastAnswersStandHolds == ReadsSpec => []PastAnswersStand
<1>1. ReadsInit => RoutesInv
  BY DEF ReadsInit, GraphInit, RoutesInv, PastAnswersStand
<1>2. BaseInv /\ RoutesInv /\ [ReadsNext]_readsVars => BaseInv' /\ RoutesInv'
  BY BaseStep, RoutesStep
<1>3. RoutesInv => PastAnswersStand
  BY DEF RoutesInv
<1> QED
  BY <1>1, <1>2, <1>3, BaseInit, PTL DEF ReadsSpec

-----------------------------------------------------------------------------
(* The watchlist: its rows, and where the requests are. *)

ItemRow == [id : Nat, workspace : {WorkspaceOf(p) : p \in Principal}, node : AskedFor,
            note : Notes \cup {{}}, removed : Nat]
Step == {"idle", "find", "create", "inside", "write", "ok", "error", "gone", "read",
         "not_found", "unauthorized", "not_implemented"}
CallRow == [step : Step, who : SUBSET Principal, node : SUBSET AskedFor, note : Notes \cup {{}},
            sees : SUBSET Nat, removedMeanwhile : BOOLEAN]

SameRow(i, j) == i.workspace = j.workspace /\ i.node = j.node
ItemsInv ==
    /\ IsFiniteSet(items) /\ items \subseteq ItemRow
    /\ \A i \in items : i.id <= Cardinality(items) /\ i.workspace \in workspaces
    /\ \A i, j \in items : i.id = j.id => i = j
    /\ \A i, j \in items : SameRow(i, j) /\ i.removed = NoEnd /\ j.removed = NoEnd => i = j

\* The rows a request saw are live.
Sees(c) ==
    \A n \in c.sees : \E i \in items :
        i.id = n /\ i.workspace \in Scope(c) /\ i.node \in c.node /\ i.removed = NoEnd
LetIn == {"find", "create", "inside", "write"}
CallHolds(c) ==
    /\ c \in CallRow
    /\ c.step \in LetIn => \E p \in Principal : c.who = {p}
    /\ c.step \in {"inside", "write"} => Scope(c) \subseteq workspaces
    /\ c.step = "write" =>
          /\ \E n \in AskedFor : c.node = {n}
          /\ ~c.removedMeanwhile => Sees(c)
CallsInv == call \in [Call -> CallRow] /\ \A k \in Call : CallHolds(call[k])

Owners(w) == {m \in members : m.workspace = w /\ m.role = "owner"}
OwnersInv ==
    /\ \A m \in members :
          m.workspace \in workspaces /\ \E p \in Principal : p.user = m.user /\ WorkspaceOf(p) = m.workspace
    /\ \A w \in workspaces : \E o \in members : Owners(w) = {o}

WatchInv == ItemsInv /\ CallsInv /\ OwnersInv

\* A request that was let in acts in one workspace, on one node.
LEMMA OneScope ==
    ASSUME NEW c, NEW p, c.who = {p}
    PROVE  Scope(c) = {WorkspaceOf(p)} /\ Item(c).workspace = WorkspaceOf(p)
BY DEF Scope, Item

\* It names one node.
LEMMA OneNode ==
    ASSUME NEW c, NEW n, c.node = {n}
    PROVE  Item(c).node = n
BY DEF Item

\* Where a request is changes, and what it says of itself stays.
LEMMA StepIsSet ==
    ASSUME NEW c \in CallRow, NEW spot \in Step, NEW r, r = [c EXCEPT !.step = spot]
    PROVE  /\ r \in CallRow /\ r.step = spot /\ r.who = c.who /\ r.node = c.node
           /\ r.note = c.note /\ r.sees = c.sees /\ r.removedMeanwhile = c.removedMeanwhile
BY DEF CallRow

\* What a look-up makes of a request.
Looked(c, spot, n, note, ids) == [c EXCEPT !.step = spot, !.node = {n}, !.note = note, !.sees = ids]

\* It fills in the node, the note and the rows it saw.
LEMMA LookUpIsSet ==
    ASSUME NEW c \in CallRow, NEW spot \in Step, NEW n \in AskedFor, NEW note \in Notes, NEW ids \in SUBSET Nat,
           NEW r, r = Looked(c, spot, n, note, ids)
    PROVE  /\ r \in CallRow /\ r.step = spot /\ r.who = c.who
           /\ r.node = {n} /\ r.note = note /\ r.sees = ids
BY DEF CallRow, Looked

\* A request that has just come in.
Fresh(who, spot) ==
    [step |-> spot, who |-> who, node |-> {}, note |-> {}, sees |-> {}, removedMeanwhile |-> FALSE]

\* It is what the three ways to begin or to end one write.
LEMMA FreshIs ==
    ASSUME NEW who, NEW spot
    PROVE  /\ [NoCall EXCEPT !.who = who, !.step = spot] = Fresh(who, spot)
           /\ [NoCall EXCEPT !.step = spot] = Fresh({}, spot)
           /\ NoCall = Fresh({}, "idle")
<1>1. [NoCall EXCEPT !.who = who, !.step = spot] = Fresh(who, spot)
  <2>1. PICK r : r = [NoCall EXCEPT !.who = who, !.step = spot]
    OBVIOUS
  <2>2. r = Fresh(who, spot)
    BY <2>1 DEF NoCall, Fresh
  <2> QED
    BY <2>1, <2>2
<1>2. [NoCall EXCEPT !.step = spot] = Fresh({}, spot)
  <2>1. PICK r : r = [NoCall EXCEPT !.step = spot]
    OBVIOUS
  <2>2. r = Fresh({}, spot)
    BY <2>1 DEF NoCall, Fresh
  <2> QED
    BY <2>1, <2>2
<1>3. NoCall = Fresh({}, "idle")
  BY DEF NoCall, Fresh
<1> QED
  BY <1>1, <1>2, <1>3

\* It knows who asks, and nothing else yet.
LEMMA FreshCall ==
    ASSUME NEW spot \in Step, NEW who \in SUBSET Principal
    PROVE  Fresh(who, spot) \in CallRow /\ Fresh(who, spot).step = spot /\ Fresh(who, spot).who = who
<1>2. PICK none, no : none = {} /\ no = FALSE
  OBVIOUS
<1>3. none \in Notes \cup {{}} /\ none \in SUBSET Nat /\ none \in SUBSET AskedFor /\ no \in BOOLEAN
  BY <1>2
<1>4. Fresh(who, spot) = [step |-> spot, who |-> who, node |-> none, note |-> none, sees |-> none, removedMeanwhile |-> no]
  BY <1>2 DEF Fresh
<1>5. Fresh(who, spot) \in CallRow
  BY <1>3, <1>4 DEF CallRow
<1> QED
  BY <1>4, <1>5

\* What a request holds on to stays where it is while the rows it saw are live.
LEMMA CallKept ==
    ASSUME NEW c, CallHolds(c), workspaces \subseteq workspaces',
           \A i \in items : i.removed = NoEnd =>
              \E j \in items' : j.id = i.id /\ SameRow(i, j) /\ j.removed = NoEnd
    PROVE  CallHolds(c)'
<1>1. Sees(c) => Sees(c)'
  BY DEF Sees, SameRow
<1> QED
  BY <1>1 DEF CallHolds

\* Of the requests that one step moves on, one goes and the others stand.
LEMMA GoesFacts ==
    ASSUME CallsInv, NEW k \in Call, NEW record \in CallRow, Goes(k, record)
    PROVE  /\ call' \in [Call -> CallRow] /\ call'[k] = record
           /\ \A j \in Call : j # k => call'[j] = call[j]
BY DEF CallsInv, Goes

\* A request moves on to where its record holds, and the others hold what they held.
LEMMA OneGoes ==
    ASSUME CallsInv, NEW k \in Call, NEW record \in CallRow, Goes(k, record), CallHolds(record)',
           workspaces \subseteq workspaces',
           \A i \in items : i.removed = NoEnd =>
              \E j \in items' : j.id = i.id /\ SameRow(i, j) /\ j.removed = NoEnd
    PROVE  CallsInv'
<1>1. /\ call' \in [Call -> CallRow] /\ call'[k] = record
      /\ \A j \in Call : j # k => call'[j] = call[j]
  BY GoesFacts
<1>2. ASSUME NEW j \in Call
      PROVE  CallHolds(call[j])'
  <2>1. CASE j = k
    BY <1>1, <2>1 DEF CallHolds, Sees
  <2>2. CASE j # k
    <3>1. CallHolds(call[j])
      BY DEF CallsInv
    <3> DEFINE c == call[j]
    <3>2. c = call'[j]
      BY <1>1, <2>2
    <3> QED
      BY <3>1, <3>2, CallKept
  <2> QED
    BY <2>1, <2>2
<1> QED
  BY <1>1, <1>2 DEF CallsInv

\* No request is told that it has written, or cannot.
Silent == \A j \in Call : call'[j].step \in {"ok", "error"} => call'[j] = call[j]

\* A request that reads, or only moves on, leaves everything else alone.
LEMMA SilentStep ==
    ASSUME WatchInv, NEW k \in Call,
           \/ \E token \in {{}, {Forged}} \cup {{{p}} : p \in Principal} : Presents(k, token) \/ ReadsOpenly(k, token)
           \/ Finds(k)
           \/ \E n \in AskedFor : \E note \in Notes : LooksUp(k, n, note)
           \/ Returns(k)
    PROVE  WatchInv' /\ UNCHANGED <<workspaces, members, items>> /\ Silent
<1>1. UNCHANGED <<workspaces, members, items>>
  BY DEF Presents, ReadsOpenly, Finds, LooksUp, Returns
<1>2. ItemsInv' /\ OwnersInv'
  BY <1>1 DEF WatchInv, ItemsInv, OwnersInv, Owners, SameRow
<1>3. CallsInv /\ CallHolds(call[k]) /\ call[k] \in CallRow
  BY DEF WatchInv, CallsInv, CallHolds
<1>4. ASSUME NEW record, Goes(k, record), CallHolds(record), record.step \notin {"ok", "error"}
      PROVE  CallsInv' /\ Silent
  <2>1. record \in CallRow
    BY <1>4 DEF CallHolds
  <2>2. CallHolds(record)'
    BY <1>1, <1>4 DEF CallHolds, Sees
  <2>3. \A i \in items : i.removed = NoEnd => \E j \in items' : j.id = i.id /\ SameRow(i, j) /\ j.removed = NoEnd
    BY <1>1 DEF SameRow
  <2> QED
    BY <1>1, <1>3, <1>4, <2>1, <2>2, <2>3, OneGoes, GoesFacts DEF Silent
<1>5. ASSUME NEW who \in SUBSET Principal, NEW spot \in Step, Goes(k, Fresh(who, spot)),
             spot \notin {"inside", "write", "ok", "error"}, spot \in LetIn => \E p \in Principal : who = {p}
      PROVE  CallsInv' /\ Silent
  <2>1. PICK record : record = Fresh(who, spot)
    OBVIOUS
  <2>2. record \in CallRow /\ record.step = spot /\ record.who = who
    BY <2>1, FreshCall
  <2>3. CallHolds(record)
    BY <1>5, <2>2 DEF CallHolds
  <2> QED
    BY <1>4, <1>5, <2>1, <2>2, <2>3
<1>6. ASSUME NEW token \in {{}, {Forged}} \cup {{{p}} : p \in Principal}, Presents(k, token)
      PROVE  CallsInv' /\ Silent
  <2>1. Viewer(token) = {} \/ \E p \in Principal : Viewer(token) = {p}
    BY DEF Viewer, Forged
  <2>2. CASE Viewer(token) # {}
    <3>1. issuer /\ Goes(k, Fresh(Viewer(token), "find"))
      BY <1>6, <2>2, FreshIs DEF Presents, Viewer
    <3> QED
      BY <1>5, <2>1, <2>2, <3>1 DEF Step
  <2>3. CASE Viewer(token) = {}
    <3>1. Goes(k, Fresh(Viewer(token), "unauthorized")) \/ Goes(k, Fresh(Viewer(token), "not_implemented"))
      BY <1>6, <2>3, FreshIs DEF Presents
    <3>2. Viewer(token) \in SUBSET Principal
      BY <2>3
    <3> QED
      BY <1>5, <3>1, <3>2 DEF Step, LetIn
  <2> QED
    BY <2>2, <2>3
<1>10. ASSUME NEW token, ReadsOpenly(k, token)
      PROVE  CallsInv' /\ Silent
  <2>1. PICK spot \in {"unauthorized", "read"} : Goes(k, Fresh({}, spot))
    BY <1>10, FreshIs DEF ReadsOpenly
  <2> QED
    BY <1>5, <2>1 DEF Step, LetIn
<1>7. ASSUME Finds(k)
      PROVE  CallsInv' /\ Silent
  <2>1. PICK spot \in {"inside", "create"} :
            Goes(k, [call[k] EXCEPT !.step = spot]) /\ (spot = "inside" => Scope(call[k]) \subseteq workspaces)
    BY <1>7 DEF Finds
  <2>2. PICK record : record = [call[k] EXCEPT !.step = spot]
    OBVIOUS
  <2>3. record \in CallRow /\ record.step = spot /\ record.who = call[k].who
    BY <1>3, <2>2, StepIsSet DEF Step
  <2>4. \E p \in Principal : call[k].who = {p}
    BY <1>3, <1>7 DEF CallHolds, LetIn, Finds, AtIts
  <2>5. CallHolds(record)
    BY <2>1, <2>3, <2>4 DEF CallHolds, Scope
  <2>6. Goes(k, record)
    BY <2>1, <2>2
  <2> QED
    BY <1>4, <2>3, <2>5, <2>6
<1>8. ASSUME NEW n \in AskedFor, NEW note \in Notes, LooksUp(k, n, note)
      PROVE  CallsInv' /\ Silent
  <2>1. PICK ids : ids = {i.id : i \in UNION {Live(w, n) : w \in Scope(call[k])}}
    OBVIOUS
  <2>2. PICK spot \in {"write", "not_found"} :
            Goes(k, Looked(call[k], spot, n, note, ids))
    BY <1>8, <2>1 DEF LooksUp, Looked
  <2>3. \A x \in ids : \E i \in items : i.id = x /\ i.workspace \in Scope(call[k]) /\ i.node = n /\ i.removed = NoEnd
    BY <2>1 DEF Live
  <2>4. ids \subseteq Nat
    BY <2>3 DEF WatchInv, ItemsInv, ItemRow
  <2>11. PICK record : record = Looked(call[k], spot, n, note, ids)
    OBVIOUS
  <2>5. /\ record \in CallRow /\ record.step = spot /\ record.who = call[k].who
        /\ record.node = {n} /\ record.sees = ids
    <3>1. call[k] \in CallRow /\ spot \in Step /\ ids \in SUBSET Nat
      BY <1>3, <2>4 DEF Step
    <3> QED
      BY <2>11, <3>1, LookUpIsSet
  <2>6. Scope(record) = Scope(call[k])
    BY <2>5 DEF Scope
  <2>7. Sees(record)
    BY <2>3, <2>5, <2>6 DEF Sees
  <2>8. (\E p \in Principal : call[k].who = {p}) /\ Scope(call[k]) \subseteq workspaces
    BY <1>3, <1>8 DEF CallHolds, LetIn, LooksUp, AtIts
  <2>9. CallHolds(record)
    BY <2>5, <2>6, <2>7, <2>8 DEF CallHolds
  <2>10. Goes(k, record)
    BY <2>2, <2>11
  <2> QED
    BY <1>4, <2>5, <2>9, <2>10
<1>9. ASSUME Returns(k)
      PROVE  CallsInv' /\ Silent
  <2>1. Goes(k, Fresh({}, "idle"))
    BY <1>9, FreshIs DEF Returns
  <2> QED
    BY <1>5, <2>1 DEF Step, LetIn
<1> QED
  BY <1>1, <1>2, <1>6, <1>7, <1>8, <1>9, <1>10 DEF WatchInv

\* The first request of a workspace makes it, with its owner.
LEMMA CreatesStep ==
    ASSUME WatchInv, NEW k \in Call, Creates(k)
    PROVE  /\ WatchInv' /\ items' = items
           /\ call'[k].step = "error" => Scope(call[k]) \subseteq workspaces
           /\ call'[k].step \in {"error", "inside"} /\ \A j \in Call : j # k => call'[j] = call[j]
<1>1. CallsInv /\ CallHolds(call[k]) /\ call[k] \in CallRow
  BY DEF WatchInv, CallsInv, CallHolds
<1>2. PICK p \in Principal : call[k].who = {p}
  BY <1>1 DEF CallHolds, LetIn, Creates, AtIts
<1> DEFINE w == WorkspaceOf(p)
           owner == [workspace |-> w, user |-> p.user, role |-> "owner"]
<1>3. Scope(call[k]) = {w}
  BY <1>2, OneScope
<1>4. /\ items' = items /\ workspaces' = workspaces \cup {w}
      /\ members' = members \cup (IF w \in workspaces THEN {} ELSE {owner})
  <2>1. {[workspace |-> WorkspaceOf(q), user |-> q.user, role |-> "owner"] :
            q \in {r \in call[k].who : WorkspaceOf(r) \notin workspaces}} = IF w \in workspaces THEN {} ELSE {owner}
    BY <1>2
  <2> QED
    BY <1>3, <2>1 DEF Creates
<1>5. PICK spot \in {"error", "inside"} :
          Goes(k, [call[k] EXCEPT !.step = spot]) /\ (spot = "error" => Scope(call[k]) \subseteq workspaces)
  BY DEF Creates
<1>6. PICK record : record = [call[k] EXCEPT !.step = spot]
  OBVIOUS
<1>7. record \in CallRow /\ record.step = spot /\ record.who = call[k].who
  BY <1>1, <1>6, StepIsSet DEF Step
<1>8. Goes(k, record)
  BY <1>5, <1>6
<1>9. CallHolds(record)'
  <2>1. Scope(record) = {w}
    BY <1>2, <1>7, OneScope
  <2>2. Scope(record) \subseteq workspaces'
    BY <1>4, <2>1
  <2> QED
    BY <1>2, <1>7, <2>2 DEF CallHolds, Scope
<1>10. \A i \in items : i.removed = NoEnd => \E j \in items' : j.id = i.id /\ SameRow(i, j) /\ j.removed = NoEnd
  BY <1>4 DEF SameRow
<1>11. CallsInv'
  BY <1>1, <1>4, <1>7, <1>8, <1>9, <1>10, OneGoes
<1>12. ItemsInv'
  BY <1>4 DEF WatchInv, ItemsInv, SameRow
<1>13. OwnersInv'
  <2>1. OwnersInv
    BY DEF WatchInv
  <2>2. \A m \in members' : m.workspace \in workspaces' /\ \E q \in Principal : q.user = m.user /\ WorkspaceOf(q) = m.workspace
    BY <1>4, <2>1 DEF OwnersInv
  <2>3. ASSUME NEW v \in workspaces'
        PROVE  \E o \in members' : Owners(v)' = {o}
    <3>1. CASE v \in workspaces
      <4>1. Owners(v)' = Owners(v)
        BY <1>4, <3>1 DEF Owners
      <4> QED
        BY <1>4, <2>1, <3>1, <4>1 DEF OwnersInv
    <3>2. CASE v \notin workspaces
      <4>1. v = w /\ w \notin workspaces
        BY <1>4, <3>2
      <4>2. \A m \in members : m.workspace # w
        BY <2>1, <4>1 DEF OwnersInv
      <4>3. members' = members \cup {owner} /\ owner.workspace = w /\ owner.role = "owner"
        BY <1>4, <4>1
      <4> HIDE DEF owner, w
      <4>4. Owners(v)' = {owner}
        BY <4>1, <4>2, <4>3 DEF Owners
      <4> QED
        BY <4>3, <4>4
    <3> QED
      BY <3>1, <3>2
  <2> QED
    BY <2>2, <2>3 DEF OwnersInv
<1> QED
  BY <1>1, <1>4, <1>5, <1>7, <1>8, <1>11, <1>12, <1>13, GoesFacts DEF WatchInv

\* A rewriting that keeps who each row is, and revives none.
LEMMA Rewritten ==
    ASSUME ItemsInv, workspaces \subseteq workspaces', NEW F \in [items -> ItemRow], items' = {F[i] : i \in items},
           \A i \in items : F[i].id = i.id /\ SameRow(i, F[i]) /\ (F[i].removed = NoEnd => i.removed = NoEnd)
    PROVE  ItemsInv'
<1>1. \A i, j \in items : F[i] = F[j] => i = j
  BY DEF ItemsInv
<1>2. F \in Surjection(items, items') /\ F \in Injection(items, items')
  BY <1>1 DEF Surjection, Injection, IsInjective
<1>3. IsFiniteSet(items') /\ Cardinality(items') = Cardinality(items)
  BY <1>2, FS_Surjection DEF ItemsInv
<1>4. items' \subseteq ItemRow
  OBVIOUS
<1>5. \A i \in items' : i.id <= Cardinality(items') /\ i.workspace \in workspaces'
  BY <1>3 DEF ItemsInv, SameRow
<1>6. \A i, j \in items' : i.id = j.id => i = j
  BY DEF ItemsInv
<1>7. \A i, j \in items' : SameRow(i, j) /\ i.removed = NoEnd /\ j.removed = NoEnd => i = j
  BY DEF ItemsInv, SameRow
<1> QED
  BY <1>3, <1>4, <1>5, <1>6, <1>7 DEF ItemsInv, ItemRow

\* A PUT that saw no row inserts one, or finds that somebody else has.
LEMMA InsertsStep ==
    ASSUME WatchInv, NEW k \in Call, Inserts(k)
    PROVE  /\ WatchInv' /\ UNCHANGED <<workspaces, members>> /\ items \subseteq items'
           /\ \A j \in Call : j # k => call'[j] = call[j]
           /\ call'[k].who = call[k].who /\ call'[k].node = call[k].node
           /\ call'[k].step = "error" => Live(Item(call[k]).workspace, Item(call[k]).node) # {}
           /\ call'[k].step = "ok" => \E i \in items' :
                 /\ i.workspace = Item(call[k]).workspace /\ i.node = Item(call[k]).node
                 /\ i.removed = NoEnd /\ i.note = call[k].note
<1>1. CallsInv /\ CallHolds(call[k]) /\ call[k] \in CallRow /\ ItemsInv
  BY DEF WatchInv, CallsInv, CallHolds
<1>2. PICK p \in Principal : call[k].who = {p}
  BY <1>1 DEF CallHolds, LetIn, Inserts, AtIts
<1>3. PICK n \in AskedFor : call[k].node = {n}
  BY <1>1 DEF CallHolds, Inserts, AtIts
<1>4. PICK w, note, new : w = WorkspaceOf(p) /\ note = call[k].note /\ new = Item(call[k])
  OBVIOUS
<1>5. Scope(call[k]) = {w} /\ new.workspace = w /\ new.node = n
  BY <1>2, <1>3, <1>4, OneScope, OneNode
<1>6. w \in workspaces
  BY <1>1, <1>5 DEF CallHolds, Inserts, AtIts
<1>7. Cardinality(items) \in Nat
  BY <1>1, FS_CardinalityType DEF ItemsInv
<1>8. new = [id |-> Cardinality(items) + 1, workspace |-> w, node |-> n, note |-> note, removed |-> NoEnd]
  BY <1>3, <1>4, <1>5 DEF Item
<1>9. new \in ItemRow
  <2>1. note \in Notes \cup {{}} /\ w \in {WorkspaceOf(q) : q \in Principal} /\ NoEnd \in Nat
    BY <1>1, <1>2, <1>4 DEF CallRow, NoEnd
  <2> QED
    BY <1>7, <1>8, <2>1 DEF ItemRow
<1>10. PICK record, spot : /\ spot \in {"error", "ok"} /\ record = [call[k] EXCEPT !.step = spot] /\ Goes(k, record)
                           /\ spot = IF Live(w, n) # {} THEN "error" ELSE "ok"
                           /\ items' = IF Live(w, n) # {} THEN items ELSE items \cup {new}
  BY <1>4, <1>5 DEF Inserts, Taken
<1>11. UNCHANGED <<workspaces, members>>
  BY DEF Inserts
<1>12. record \in CallRow /\ record.step = spot /\ record.who = call[k].who /\ record.node = call[k].node
  BY <1>1, <1>10, StepIsSet DEF Step
<1>13. CallHolds(record)'
  BY <1>10, <1>12 DEF CallHolds, LetIn
<1>14. items \subseteq items'
  BY <1>10
<1>15. CallsInv'
  <2>1. \A i \in items : i.removed = NoEnd => \E j \in items' : j.id = i.id /\ SameRow(i, j) /\ j.removed = NoEnd
    BY <1>14 DEF SameRow
  <2> QED
    BY <1>1, <1>10, <1>11, <1>12, <1>13, <2>1, OneGoes
<1>16. ItemsInv'
  <2>1. CASE Live(w, n) # {}
    BY <1>1, <1>10, <1>11, <2>1 DEF ItemsInv, ItemRow, SameRow
  <2>2. CASE Live(w, n) = {}
    <3>1. items' = items \cup {new} /\ new.id = Cardinality(items) + 1 /\ new.removed = NoEnd
      BY <1>8, <1>10, <2>2
    <3>2. new \notin items
      BY <1>1, <1>7, <3>1 DEF ItemsInv
    <3>3. IsFiniteSet(items') /\ Cardinality(items') = Cardinality(items) + 1
      BY <1>1, <3>1, <3>2, FS_AddElement DEF ItemsInv
    <3>4. items' \subseteq ItemRow
      BY <1>1, <1>9, <3>1 DEF ItemsInv
    <3>5. \A i \in items : i.id \in Nat /\ i.id <= Cardinality(items)
      BY <1>1 DEF ItemsInv, ItemRow
    <3>6. \A i \in items' : i.id <= Cardinality(items') /\ i.workspace \in workspaces'
      BY <1>1, <1>5, <1>6, <1>7, <1>11, <3>1, <3>3, <3>5 DEF ItemsInv
    <3>7. \A i, j \in items' : i.id = j.id => i = j
      BY <1>1, <1>7, <3>1, <3>5 DEF ItemsInv
    <3>8. \A i \in items : ~(i.workspace = w /\ i.node = n /\ i.removed = NoEnd)
      BY <2>2 DEF Live
    <3>9. \A i, j \in items' : SameRow(i, j) /\ i.removed = NoEnd /\ j.removed = NoEnd => i = j
      BY <1>1, <1>5, <3>1, <3>8 DEF ItemsInv, SameRow
    <3> QED
      BY <3>3, <3>4, <3>6, <3>7, <3>9 DEF ItemsInv, ItemRow
  <2> QED
    BY <2>1, <2>2
<1>17. OwnersInv'
  BY <1>11 DEF WatchInv, OwnersInv, Owners
<1>18. call'[k] = record /\ \A j \in Call : j # k => call'[j] = call[j]
  BY <1>1, <1>10, <1>12, GoesFacts
<1>19. ASSUME spot = "ok"
       PROVE  new \in items' /\ new.workspace = w /\ new.node = n /\ new.removed = NoEnd /\ new.note = note
  BY <1>8, <1>10, <1>19
<1>20. spot = "error" => Live(w, n) # {}
  BY <1>10
<1>21. Item(call[k]).workspace = w /\ Item(call[k]).node = n
  BY <1>4, <1>5
<1> QED
  BY <1>4, <1>11, <1>12, <1>14, <1>15, <1>16, <1>17, <1>18, <1>19, <1>20, <1>21 DEF WatchInv

\* A PUT that saw a row, live or not by now, gives it its note.
LEMMA UpdatesStep ==
    ASSUME WatchInv, NEW k \in Call, UpdatesNote(k)
    PROVE  /\ WatchInv' /\ UNCHANGED <<workspaces, members>>
           /\ \A i \in items : \E j \in items' : j.id = i.id /\ j.removed = i.removed
           /\ \A j \in Call : j # k => call'[j] = call[j]
           /\ call'[k].who = call[k].who /\ call'[k].node = call[k].node /\ call'[k].step = "ok"
           /\ call[k].removedMeanwhile \/ \E i \in items' :
                 /\ i.workspace = Item(call[k]).workspace /\ i.node = Item(call[k]).node
                 /\ i.removed = NoEnd /\ (i.note = call[k].note \/ call[k].note = {})
<1>1. CallsInv /\ CallHolds(call[k]) /\ call[k] \in CallRow /\ ItemsInv
  BY DEF WatchInv, CallsInv, CallHolds
<1>2. PICK p \in Principal : call[k].who = {p}
  BY <1>1 DEF CallHolds, LetIn, UpdatesNote, AtIts
<1>3. PICK n \in AskedFor : call[k].node = {n}
  BY <1>1 DEF CallHolds, UpdatesNote, AtIts
<1>4. PICK w, note, sees : w = WorkspaceOf(p) /\ note = call[k].note /\ sees = call[k].sees
  OBVIOUS
<1>5. Scope(call[k]) = {w} /\ Item(call[k]).workspace = w /\ Item(call[k]).node = n
  BY <1>2, <1>3, <1>4, OneScope, OneNode
<1>6. PICK F : F = [i \in items |-> IF note # {} /\ i.id \in sees THEN [i EXCEPT !.note = note] ELSE i]
  OBVIOUS
<1>7. items' = {F[i] : i \in items} /\ UNCHANGED <<workspaces, members>>
  BY <1>4, <1>6 DEF UpdatesNote
<1>8. ASSUME NEW i \in items
      PROVE  /\ F[i] \in ItemRow /\ F[i].id = i.id /\ F[i].workspace = i.workspace /\ F[i].node = i.node
             /\ F[i].removed = i.removed /\ (i.id \in sees => F[i].note = note \/ note = {})
  <2>1. i \in ItemRow /\ note \in Notes \cup {{}}
    BY <1>1, <1>4 DEF ItemsInv, CallRow
  <2>2. CASE note # {} /\ i.id \in sees
    <3>1. F[i] = [i EXCEPT !.note = note]
      BY <1>6, <2>2
    <3> QED
      BY <2>1, <3>1 DEF ItemRow
  <2>3. CASE ~(note # {} /\ i.id \in sees)
    BY <1>6, <2>1, <2>3
  <2> QED
    BY <2>2, <2>3
<1>9. ItemsInv'
  <2>1. F \in [items -> ItemRow]
    BY <1>6, <1>8
  <2>2. \A i \in items : F[i].id = i.id /\ SameRow(i, F[i]) /\ (F[i].removed = NoEnd => i.removed = NoEnd)
    BY <1>8 DEF SameRow
  <2> QED
    BY <1>1, <1>7, <2>1, <2>2, Rewritten
<1>10. PICK record : record = [call[k] EXCEPT !.step = "ok"]
  OBVIOUS
<1>11. record \in CallRow /\ record.step = "ok" /\ record.who = call[k].who /\ record.node = call[k].node
  BY <1>1, <1>10, StepIsSet DEF Step
<1>12. Goes(k, record)
  BY <1>10 DEF UpdatesNote
<1>13. CallHolds(record)'
  BY <1>11 DEF CallHolds, LetIn
<1>14. CallsInv'
  <2>1. \A i \in items : i.removed = NoEnd => \E j \in items' : j.id = i.id /\ SameRow(i, j) /\ j.removed = NoEnd
    BY <1>7, <1>8 DEF SameRow
  <2> QED
    BY <1>1, <1>7, <1>11, <1>12, <1>13, <2>1, OneGoes
<1>15. OwnersInv'
  BY <1>7 DEF WatchInv, OwnersInv, Owners
<1>16. call'[k] = record /\ \A j \in Call : j # k => call'[j] = call[j]
  BY <1>1, <1>11, <1>12, GoesFacts
<1>17. \A i \in items : \E j \in items' : j.id = i.id /\ j.removed = i.removed
  BY <1>7, <1>8
<1>18. ASSUME ~call[k].removedMeanwhile
       PROVE  \E i \in items' : /\ i.workspace = w /\ i.node = n
                                /\ i.removed = NoEnd /\ (i.note = note \/ note = {})
  <2>1. Sees(call[k]) /\ sees # {}
    BY <1>1, <1>4, <1>18 DEF CallHolds, UpdatesNote, AtIts
  <2>2. PICK i \in items : i.id \in sees /\ i.workspace = w /\ i.node = n /\ i.removed = NoEnd
    BY <1>3, <1>4, <1>5, <2>1 DEF Sees
  <2> QED
    BY <1>7, <1>8, <2>2
<1> QED
  BY <1>4, <1>5, <1>7, <1>9, <1>11, <1>14, <1>15, <1>16, <1>17, <1>18 DEF WatchInv

\* A mark is set, and what a request says of itself stays.
LEMMA MarkIsSet ==
    ASSUME NEW c \in CallRow, NEW mark \in BOOLEAN, NEW r, r = [c EXCEPT !.removedMeanwhile = mark]
    PROVE  /\ r \in CallRow /\ r.step = c.step /\ r.who = c.who /\ r.node = c.node
           /\ r.sees = c.sees /\ r.removedMeanwhile = mark
BY DEF CallRow

\* A DELETE dates the live row, and marks the requests under way about it.
LEMMA UnwatchStep ==
    ASSUME WatchInv, clock \in Nat \ {0}, NEW k \in Call, NEW node \in AskedFor, Unwatch(k, node)
    PROVE  /\ WatchInv' /\ UNCHANGED <<workspaces, members>>
           /\ \A i \in items : i.removed # NoEnd => i \in items'
           /\ \A j \in Call : call[j].step \in {"write", "create"} => call'[j].step = call[j].step
<1>1. CallsInv /\ CallHolds(call[k]) /\ call[k] \in CallRow /\ ItemsInv
  BY DEF WatchInv, CallsInv, CallHolds
<1>2. PICK p \in Principal : call[k].who = {p}
  BY <1>1 DEF CallHolds, LetIn, Unwatch, AtIts
<1>3. PICK w : w = WorkspaceOf(p)
  OBVIOUS
<1>4. Scope(call[k]) = {w}
  BY <1>2, <1>3, OneScope
<1>5. PICK F : F = [i \in items |-> IF i.node = node /\ i.workspace = w /\ i.removed = NoEnd
                                    THEN [i EXCEPT !.removed = clock] ELSE i]
  OBVIOUS
<1>6. UNCHANGED <<workspaces, members>>
  BY DEF Unwatch
<1>7. items' = {F[i] : i \in items}
  <2>1. items' = {IF i.node = node /\ i.workspace \in {w} /\ i.removed = NoEnd
                  THEN [i EXCEPT !.removed = clock] ELSE i : i \in items}
    BY <1>4 DEF Unwatch
  <2> QED
    BY <1>5, <2>1
<1>8. ASSUME NEW i \in items
      PROVE  /\ F[i] \in ItemRow /\ F[i].id = i.id /\ F[i].workspace = i.workspace /\ F[i].node = i.node
             /\ ~(i.node = node /\ i.workspace = w) => F[i] = i
             /\ i.removed # NoEnd => F[i] = i
  <2>1. i \in ItemRow
    BY <1>1 DEF ItemsInv
  <2>2. CASE i.node = node /\ i.workspace = w /\ i.removed = NoEnd
    <3>1. F[i] = [i EXCEPT !.removed = clock]
      BY <1>5, <2>2
    <3> QED
      BY <2>1, <2>2, <3>1 DEF ItemRow
  <2>3. CASE ~(i.node = node /\ i.workspace = w /\ i.removed = NoEnd)
    BY <1>5, <2>1, <2>3
  <2> QED
    BY <2>2, <2>3
<1>9. ItemsInv'
  <2>1. F \in [items -> ItemRow]
    BY <1>5, <1>8
  <2>2. \A i \in items : F[i].id = i.id /\ SameRow(i, F[i]) /\ (F[i].removed = NoEnd => i.removed = NoEnd)
    BY <1>8 DEF SameRow
  <2> QED
    BY <1>1, <1>6, <1>7, <2>1, <2>2, Rewritten
<1>10. ASSUME NEW j \in Call
       PROVE  /\ call'[j] \in CallRow /\ CallHolds(call[j])'
              /\ call[j].step \in {"write", "create"} => call'[j].step = call[j].step
  <2>1. CASE j = k
    <3>2. call'[j] = [call[k] EXCEPT !.step = "gone", !.node = {node}]
      BY <2>1 DEF Unwatch
    <3>3. PICK c : c = [call[k] EXCEPT !.step = "gone", !.node = {node}]
      OBVIOUS
    <3>4. c \in CallRow /\ c.step = "gone"
      BY <1>1, <3>3 DEF CallRow, Step
    <3>5. CallHolds(c)'
      BY <3>4 DEF CallHolds, LetIn
    <3>6. call[j].step = "inside"
      BY <2>1 DEF Unwatch, AtIts
    <3> QED
      BY <3>2, <3>3, <3>4, <3>5, <3>6
  <2>2. CASE j # k
    <3>1. CallHolds(call[j]) /\ call[j] \in CallRow
      BY <1>1 DEF CallsInv, CallHolds
    <3>2. PICK old, hit : /\ old = call[j]
                          /\ hit = (call[j].step = "write" /\ Scope(call[j]) = Scope(call[k]) /\ call[j].node = {node})
      OBVIOUS
    <3>3. PICK mark \in BOOLEAN : mark = (old.removedMeanwhile \/ hit)
      OBVIOUS
    <3>4. PICK c : c = [old EXCEPT !.removedMeanwhile = mark]
      OBVIOUS
    <3>5. call'[j] = c
      BY <2>2, <3>2, <3>3, <3>4 DEF Unwatch, AtIts
    <3>6. /\ c \in CallRow /\ c.step = old.step /\ c.who = old.who /\ c.node = old.node
          /\ c.sees = old.sees /\ c.removedMeanwhile = mark
      BY <3>1, <3>2, <3>4, MarkIsSet
    <3>7. Scope(c) = Scope(old)
      BY <3>6 DEF Scope
    <3>8. ASSUME c.step = "write", ~c.removedMeanwhile
          PROVE  Sees(c)'
      <4>1. ~old.removedMeanwhile /\ ~hit
        BY <3>3, <3>6, <3>8
      <4>2. Sees(old)
        BY <3>1, <3>2, <3>6, <3>8, <4>1 DEF CallHolds
      <4>3. PICK n \in AskedFor : old.node = {n}
        BY <3>1, <3>2, <3>6, <3>8 DEF CallHolds
      <4>4. PICK q \in Principal : old.who = {q}
        BY <3>1, <3>2, <3>6, <3>8 DEF CallHolds, LetIn
      <4>5. Scope(old) = {WorkspaceOf(q)}
        BY <4>4, OneScope
      <4>6. ~(WorkspaceOf(q) = w /\ n = node)
        BY <1>4, <3>2, <3>6, <3>8, <4>1, <4>3, <4>5
      <4>7. ASSUME NEW x \in old.sees
            PROVE  \E i \in items' : i.id = x /\ i.workspace = WorkspaceOf(q) /\ i.node = n /\ i.removed = NoEnd
        <5>1. PICK i \in items : i.id = x /\ i.workspace = WorkspaceOf(q) /\ i.node = n /\ i.removed = NoEnd
          BY <4>2, <4>3, <4>5, <4>7 DEF Sees
        <5>2. F[i] = i
          BY <1>8, <4>6, <5>1
        <5> QED
          BY <1>7, <5>1, <5>2
      <4> QED
        BY <3>6, <3>7, <4>3, <4>5, <4>7 DEF Sees, Scope
    <3>9. CallHolds(c)'
      BY <1>6, <3>1, <3>2, <3>6, <3>7, <3>8 DEF CallHolds, Scope
    <3> QED
      BY <3>2, <3>5, <3>6, <3>9
  <2> QED
    BY <2>1, <2>2
<1>11. CallsInv'
  <2>1. call' \in [Call -> CallRow]
    <3>1. DOMAIN call' = Call /\ call' = [j \in Call |-> call'[j]]
      BY DEF Unwatch
    <3> QED
      BY <1>10, <3>1
  <2> QED
    BY <1>10, <2>1 DEF CallsInv
<1>12. OwnersInv'
  BY <1>6 DEF WatchInv, OwnersInv, Owners
<1>13. \A i \in items : i.removed # NoEnd => i \in items'
  BY <1>7, <1>8
<1> QED
  BY <1>6, <1>9, <1>10, <1>11, <1>12, <1>13 DEF WatchInv

\* A request that knows what it knew names the row it named.
LEMMA SameItem ==
    ASSUME NEW c, NEW d, d.who = c.who, d.node = c.node
    PROVE  Item(d)'.workspace = Item(c).workspace /\ Item(d)'.node = Item(c).node
<1>1. Scope(d) = Scope(c)
  BY DEF Scope
<1>2. Scope(d)' = Scope(d)
  BY DEF Scope
<1> QED
  BY <1>1, <1>2 DEF Item

\* What a step of the watchlist may tell a client.
Answered(k) ==
    call[k].step = "write" /\ call'[k].step = "ok" =>
        \/ call[k].removedMeanwhile
        \/ \E i \in items' : /\ i.workspace = Item(call[k]).workspace /\ i.node = Item(call[k]).node
                             /\ i.removed = NoEnd /\ (i.note = call[k].note \/ call[k].note = {})
Refused(k) ==
    /\ AtIts(k, "write") /\ call'[k].step = "error" => Live(Item(call[k]).workspace, Item(call[k]).node) # {}
    /\ AtIts(k, "create") /\ call'[k].step = "error" => \E m \in members : m.workspace \in Scope(call[k])
Kept == \A i \in items : i.removed # NoEnd => \E j \in items' : j.id = i.id /\ j.removed = i.removed
SamePlace(k) == call'[k].step = "ok" /\ call[k].step = "write" =>
                   call'[k].who = call[k].who /\ call'[k].node = call[k].node

\* Every step of the watchlist keeps the invariant, and tells only what is so.
LEMMA WatchStepTells ==
    ASSUME WatchInv, clock \in Nat \ {0}, WatchStep
    PROVE  WatchInv' /\ Kept /\ \A k \in Call : Answered(k) /\ Refused(k) /\ SamePlace(k)
<1>1. PICK k \in Call :
        \/ \E token \in {{}, {Forged}} \cup {{{p}} : p \in Principal} : Presents(k, token) \/ ReadsOpenly(k, token)
        \/ Finds(k) \/ Creates(k)
        \/ \E n \in AskedFor : \E note \in Notes : LooksUp(k, n, note)
        \/ Inserts(k) \/ UpdatesNote(k) \/ Returns(k)
        \/ \E n \in AskedFor : Unwatch(k, n)
  BY DEF WatchStep
<1>2. \A j \in Call : call'[j] = call[j] => Answered(j) /\ Refused(j) /\ SamePlace(j)
  BY DEF Answered, Refused, SamePlace, AtIts
<1>3. items' = items => Kept
  BY DEF Kept
<1>4. CASE \/ \E token \in {{}, {Forged}} \cup {{{p}} : p \in Principal} : Presents(k, token) \/ ReadsOpenly(k, token)
           \/ Finds(k)
           \/ \E n \in AskedFor : \E note \in Notes : LooksUp(k, n, note)
           \/ Returns(k)
  <2>1. WatchInv' /\ items' = items /\ Silent
    BY <1>4, SilentStep
  <2>2. ASSUME NEW j \in Call
        PROVE  Answered(j) /\ Refused(j) /\ SamePlace(j)
    <3>1. CASE call'[j].step \in {"ok", "error"}
      BY <1>2, <2>1, <3>1 DEF Silent
    <3>2. CASE call'[j].step \notin {"ok", "error"}
      BY <3>2 DEF Answered, Refused, SamePlace
    <3> QED
      BY <3>1, <3>2
  <2> QED
    BY <1>3, <2>1, <2>2
<1>5. CASE Creates(k)
  <2>1. /\ WatchInv' /\ items' = items
        /\ call'[k].step = "error" => Scope(call[k]) \subseteq workspaces
        /\ call'[k].step \in {"error", "inside"} /\ \A j \in Call : j # k => call'[j] = call[j]
    BY <1>5, CreatesStep
  <2>2. call[k].step = "create"
    BY <1>5 DEF Creates, AtIts
  <2>3. ASSUME call'[k].step = "error"
        PROVE  \E m \in members : m.workspace \in Scope(call[k])
    <3>1. CallHolds(call[k])
      BY DEF WatchInv, CallsInv
    <3>2. PICK p \in Principal : call[k].who = {p}
      BY <2>2, <3>1 DEF CallHolds, LetIn
    <3>3. Scope(call[k]) = {WorkspaceOf(p)}
      BY <3>2, OneScope
    <3>4. PICK o \in members : Owners(WorkspaceOf(p)) = {o}
      BY <2>1, <2>3, <3>3 DEF WatchInv, OwnersInv
    <3> QED
      BY <3>3, <3>4 DEF Owners
  <2>4. Answered(k) /\ Refused(k) /\ SamePlace(k)
    BY <2>1, <2>2, <2>3 DEF Answered, Refused, SamePlace, AtIts
  <2> QED
    BY <1>2, <1>3, <2>1, <2>4
<1>6. CASE Inserts(k)
  <2>1. call[k].step = "write" /\ Kept
    BY <1>6, InsertsStep DEF Inserts, AtIts, Kept
  <2>2. Answered(k) /\ Refused(k) /\ SamePlace(k)
    BY <1>6, <2>1, InsertsStep DEF Answered, Refused, SamePlace, AtIts
  <2> QED
    BY <1>2, <1>6, <2>1, <2>2, InsertsStep
<1>7. CASE UpdatesNote(k)
  <2>1. Kept
    BY <1>7, UpdatesStep DEF Kept
  <2>2. Answered(k) /\ Refused(k) /\ SamePlace(k)
    BY <1>7, UpdatesStep DEF Answered, Refused, SamePlace, AtIts
  <2> QED
    BY <1>2, <1>7, <2>1, <2>2, UpdatesStep
<1>8. ASSUME NEW n \in AskedFor, Unwatch(k, n)
      PROVE  WatchInv' /\ Kept /\ \A j \in Call : Answered(j) /\ Refused(j) /\ SamePlace(j)
  <2>1. /\ WatchInv' /\ \A i \in items : i.removed # NoEnd => i \in items'
        /\ \A j \in Call : call[j].step \in {"write", "create"} => call'[j].step = call[j].step
    BY <1>8, UnwatchStep
  <2> QED
    BY <2>1 DEF Kept, Answered, Refused, SamePlace, AtIts
<1> QED
  BY <1>1, <1>4, <1>5, <1>6, <1>7, <1>8

\* The watchlist goes on as it began, whatever the other readers do.
LEMMA WatchInvStep ==
    ASSUME BaseInv, WatchInv, [ReadsNext]_readsVars
    PROVE  WatchInv'
<1>1. CASE WatchStep
  BY <1>1, WatchStepTells DEF BaseInv
<1>2. CASE UNCHANGED watchVars
  BY <1>2 DEF watchVars, WatchInv, ItemsInv, CallsInv, CallHolds, OwnersInv, Owners, Sees, SameRow
<1> QED
  BY <1>1, <1>2 DEF ReadsNext, ReadsTick, readsVars

-----------------------------------------------------------------------------
(* What the feed of a workspace is of. *)

\* An alert names its Process, and is of it alone.
LEMMA AlertsAreOfTheirProcess ==
    ASSUME NEW all, NEW some, some \subseteq all, NEW asOf, NEW cut
    PROVE  Generate(some, asOf, cut).dated = {a \in Generate(all, asOf, cut).dated : a.id[2] \in some}
<1>1. StateTransitions(some, asOf, cut) = {a \in StateTransitions(all, asOf, cut) : a.id[2] \in some}
  <2> DEFINE Moved == {r \in log["state"] :
                         /\ Recent(r.at, cut) /\ r \in LatestOf(StatesOf(r.process, asOf))
                         /\ \E previous \in LatestOf(StatesOf(r.process, asOf) \ {r}) : previous.label # r.label}
             Telling(P) == {Alert("state_transition", "notable", <<"state", s.process, s.observed, s.at>>) :
                              s \in {r \in Moved : r.process \in P}}
  <2>1. StateTransitions(some, asOf, cut) = Telling(some) /\ StateTransitions(all, asOf, cut) = Telling(all)
    <3>1. ASSUME NEW P
          PROVE  {r \in log["state"] :
                    /\ r.process \in P /\ Recent(r.at, cut) /\ r \in LatestOf(StatesOf(r.process, asOf))
                    /\ \E previous \in LatestOf(StatesOf(r.process, asOf) \ {r}) : previous.label # r.label}
                 = {r \in Moved : r.process \in P}
      OBVIOUS
    <3> QED
      BY <3>1 DEF StateTransitions
  <2> HIDE DEF Moved
  <2>2. Telling(some) = {a \in Telling(all) : a.id[2] \in some}
    BY DEF Alert
  <2> QED
    BY <2>1, <2>2
<1>2. BeliefChanges(some, asOf, cut) = {a \in BeliefChanges(all, asOf, cut) : a.id[2] \in some}
  BY DEF BeliefChanges, Alert
<1>3. ContradictingEvidence(some, cut) = {a \in ContradictingEvidence(all, cut) : a.id[2] \in some}
  BY DEF ContradictingEvidence, Alert
<1>4. BottleneckChanges(some, asOf, cut) = {a \in BottleneckChanges(all, asOf, cut) : a.id[2] \in some}
  BY DEF BottleneckChanges, Alert
<1> QED
  BY <1>1, <1>2, <1>3, <1>4 DEF Generate

\* A workspace is told of what it watches, as the public feed tells it.
LEMMA OnlyWatchedIsToldHolds == OnlyWatchedIsTold
<1> SUFFICES ASSUME NEW w \in workspaces, NEW asOf \in {Now} \cup 1..clock
             PROVE  /\ \A a \in WatchedAlerts(w, asOf) : a.id[2] \in Watched(w)
                    /\ Watched(w) # {} => WatchedAlerts(w, asOf)
                           = {a \in Generate(Subjects({}, asOf), asOf, CutOf(asOf)).dated : a.id[2] \in Watched(w)}
  BY DEF OnlyWatchedIsTold
<1> DEFINE all == Subjects({}, asOf)
           some == Subjects(Watched(w), asOf)
<1>1. CASE Watched(w) = {}
  BY <1>1 DEF WatchedAlerts
<1>2. CASE Watched(w) # {}
  <2>1. some = all \cap Watched(w)
    BY <1>2 DEF Subjects
  <2>2. WatchedAlerts(w, asOf) = Generate(some, asOf, CutOf(asOf)).dated
    BY <1>2 DEF WatchedAlerts
  <2> HIDE DEF some, all
  <2>3. WatchedAlerts(w, asOf) = {a \in Generate(all, asOf, CutOf(asOf)).dated : a.id[2] \in some}
    BY <2>1, <2>2, AlertsAreOfTheirProcess
  <2>4. \A a \in Generate(all, asOf, CutOf(asOf)).dated : a.id[2] \in all
    BY AlertsAreOfTheirProcess
  <2> QED
    BY <2>1, <2>3, <2>4 DEF all
<1> QED
  BY <1>1, <1>2

-----------------------------------------------------------------------------
(* What the watchlist answers. *)

\* Nothing is watched yet, and nobody asks.
LEMMA WatchInvInit == ReadsInit => WatchInv
<1> SUFFICES ASSUME ReadsInit
             PROVE  WatchInv
  OBVIOUS
<1>1. workspaces = {} /\ members = {} /\ items = {} /\ call = [k \in Call |-> NoCall]
  BY DEF ReadsInit, WatchInit
<1>2. ItemsInv /\ OwnersInv
  BY <1>1, FS_EmptySet DEF ItemsInv, OwnersInv
<1>3. Fresh({}, "idle") \in CallRow /\ Fresh({}, "idle").step = "idle"
  BY FreshCall DEF Step
<1>4. NoCall \in CallRow /\ NoCall.step = "idle"
  BY <1>3, FreshIs
<1>5. CallHolds(NoCall)
  BY <1>4 DEF CallHolds, LetIn
<1> QED
  BY <1>1, <1>2, <1>4, <1>5 DEF WatchInv, CallsInv

\* The invariant of the watchlist holds, beside that of the rows.
LEMMA WatchInvHolds == ReadsSpec => [](BaseInv /\ WatchInv)
<1>1. BaseInv /\ WatchInv /\ [ReadsNext]_readsVars => BaseInv' /\ WatchInv'
  BY BaseStep, WatchInvStep
<1> QED
  BY <1>1, BaseInit, WatchInvInit, PTL DEF ReadsSpec

\* What the watchlist is, at any moment.
LEMMA WatchInvSuffices == WatchInv => OneLiveRow /\ WorkspacesAreOwned
<1> SUFFICES ASSUME WatchInv
             PROVE  OneLiveRow /\ WorkspacesAreOwned
  OBVIOUS
<1>1. OneLiveRow
  BY DEF WatchInv, ItemsInv, OneLiveRow, Live, SameRow
<1>2. \A w \in workspaces : Cardinality({m \in members : m.workspace = w /\ m.role = "owner"}) = 1
  <2> SUFFICES ASSUME NEW w \in workspaces
               PROVE  Cardinality(Owners(w)) = 1
    BY DEF Owners
  <2>1. PICK o \in members : Owners(w) = {o}
    BY DEF WatchInv, OwnersInv
  <2> QED
    BY <2>1, FS_Singleton
<1>3. \A m \in members : \E p \in Principal : p.user = m.user /\ WorkspaceOf(p) = m.workspace
  BY DEF WatchInv, OwnersInv
<1>4. ASSUME NEW i \in items
      PROVE  \E m \in members : m.workspace = i.workspace
  <2>1. PICK o \in members : Owners(i.workspace) = {o}
    BY DEF WatchInv, ItemsInv, OwnersInv
  <2> QED
    BY <2>1 DEF Owners
<1> QED
  BY <1>1, <1>2, <1>3, <1>4 DEF WorkspacesAreOwned

(* A step of the system tells a client that a node is watched, or refuses it, only
   when it may, and keeps the date of every removal. *)
LEMMA WatchedStep ==
    ASSUME BaseInv, WatchInv, [ReadsNext]_readsVars
    PROVE  \/ Kept /\ \A k \in Call : Answered(k) /\ Refused(k) /\ SamePlace(k)
           \/ UNCHANGED watchVars
<1>1. CASE WatchStep
  BY <1>1, WatchStepTells DEF BaseInv
<1>2. CASE UNCHANGED watchVars
  BY <1>2
<1> QED
  BY <1>1, <1>2 DEF ReadsNext, ReadsTick, readsVars, watchVars

(* Whatever requests overlap (auth.py, workspace.py:56-142), a watchlist does what
   its answers say: one live row of a node, who is told a node is watched finds it
   watched, a removal keeps its date, only an overlap makes a request fail, a
   workspace is made once and with its owner, and the feed is of what is watched. *)
THEOREM WatchIsAnsweredHolds == ReadsSpec => WatchIsAnswered
<1>1. BaseInv /\ WatchInv => OneLiveRow /\ OnlyWatchedIsTold /\ WorkspacesAreOwned
  BY WatchInvSuffices, OnlyWatchedIsToldHolds
<1>2. BaseInv /\ WatchInv /\ [ReadsNext]_readsVars =>
        [\A k \in Call : call[k].step = "write" /\ call'[k].step = "ok" =>
          \/ call[k].removedMeanwhile
          \/ \E i \in Live(Item(call[k]).workspace, Item(call[k]).node)' : i.note = call[k].note \/ call[k].note = {}]_watchVars
  <2> SUFFICES ASSUME BaseInv, WatchInv, Kept, \A k \in Call : Answered(k) /\ Refused(k) /\ SamePlace(k),
                      NEW k \in Call, call[k].step = "write" /\ call'[k].step = "ok", ~call[k].removedMeanwhile
               PROVE  \E i \in Live(Item(call[k]).workspace, Item(call[k]).node)' : i.note = call[k].note \/ call[k].note = {}
    BY WatchedStep
  <2>1. PICK i \in items' : /\ i.workspace = Item(call[k]).workspace /\ i.node = Item(call[k]).node
                            /\ i.removed = NoEnd /\ (i.note = call[k].note \/ call[k].note = {})
    BY DEF Answered
  <2>2. PICK c, d : c = call[k] /\ d = call'[k]
    OBVIOUS
  <2>3. Item(d)'.workspace = Item(c).workspace /\ Item(d)'.node = Item(c).node
    BY <2>2, SameItem DEF SamePlace
  <2>4. Item(call[k])' = Item(d)'
    BY <2>2
  <2>5. i \in Live(Item(call[k]).workspace, Item(call[k]).node)'
    BY <2>1, <2>2, <2>3, <2>4 DEF Live
  <2> QED
    BY <2>1, <2>5
<1>3. BaseInv /\ WatchInv /\ [ReadsNext]_readsVars =>
        [/\ \A i \in items : i.removed # NoEnd => \E j \in items' : j.id = i.id /\ j.removed = i.removed
         /\ \A k \in Call : AtIts(k, "write") /\ call'[k].step = "error" => Live(Item(call[k]).workspace, Item(call[k]).node) # {}
         /\ \A k \in Call : AtIts(k, "create") /\ call'[k].step = "error" =>
               \E m \in members : m.workspace \in Scope(call[k])
        ]_watchVars
  BY WatchedStep DEF Kept, Refused
<1> QED
  BY <1>1, <1>2, <1>3, WatchInvHolds, PTL DEF ReadsSpec, WatchIsAnswered, AnsweredMeansWatched, RemovalsAreKept
=============================================================================
