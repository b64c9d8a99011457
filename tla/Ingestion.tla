------------------------------ MODULE Ingestion ------------------------------
(***************************************************************************)
(* Documents on their way from a source to the system of record            *)
(* (ingestion, pipeline.py, sources.py, parsing.py, storage.py).           *)
(*                                                                         *)
(* An ingester drains its source one document after the other: look for    *)
(* the hash, store the bytes, parse, store the text, write the row in one  *)
(* transaction, announce it.  Ingesters share the object store and the     *)
(* table.  One may be killed, and its source drained again.                *)
(***************************************************************************)
EXTENDS Integers, Sequences, FiniteSets, Texts

CONSTANTS
    Ingester,
    Content,        \* the distinct byte strings
    Kind, Readable, \* the content types, those with a parser
    TextOf,         \* what a parser finds in a byte string
    Source,         \* the entries each ingester is given, in order
    Limit,          \* how many results a run may have
    MaxKills, MaxOutages, MaxRuns  \* bounds: kills, failed writes, drains of a source

ASSUME IngestionAssumption ==
    /\ Readable \subseteq Kind
    /\ TextOf \in [Content -> Seq(Character)]
    /\ Source \in [Ingester -> Seq([feed : BOOLEAN, content : Content, summary : Content,
                                    kind : Kind, date : {"past", "future", "unzoned"}])]
    /\ "html" \in Kind
    /\ Limit \in Nat \ {0} /\ MaxKills \in Nat /\ MaxOutages \in Nat /\ MaxRuns \in Nat \ {0}

VARIABLES
    step, next, raw, results,  \* of each ingester: where it is, in the source and in ingest
    objects,        \* the keys of the object store
    documents,      \* the rows, in the order of their commits
    announced,      \* the published events, by the document they name
    kills, outages, \* history: kills of any process, failed writes
    runs,           \* history: the drains each ingester has begun
    silenced        \* history: documents whose announcement a kill prevented

ingesterVars == <<step, next, raw, results, runs>>
storeVars == <<objects, documents, announced>>
faultVars == <<kills, outages, silenced>>
ingestionVars == <<ingesterVars, storeVars, faultVars>>

NoRaw == [content |-> "none", kind |-> "none"]

IngestionInit ==
    /\ step = [i \in Ingester |-> "fetch"] /\ next = [i \in Ingester |-> 1]
    /\ raw = [i \in Ingester |-> NoRaw] /\ results = [i \in Ingester |-> <<>>]
    /\ runs = [i \in Ingester |-> 1]
    /\ objects = {} /\ documents = <<>> /\ announced = <<>>
    /\ kills = 0 /\ outages = 0 /\ silenced = {}

-----------------------------------------------------------------------------
(* Sources. *)

\* A feed entry is a summary and a link: the article's bytes when the link
\* answers, else the summary's.  A file is its bytes.
Offered(e) == {[content |-> e.content, kind |-> e.kind]} \cup
              IF e.feed THEN {[content |-> e.summary, kind |-> "html"]} ELSE {}

\* A file dated in the future and a feed date without a zone raise where the
\* RawDocument is made; a feed's missing or future date becomes the present.
Undatable(e) == IF e.feed THEN e.date = "unzoned" ELSE e.date = "future"

Exhausted(i) == next[i] > Len(Source[i]) \/ Len(results[i]) >= Limit

Fetches(i) ==
    /\ step[i] = "fetch" /\ ~Exhausted(i)
    /\ IF Undatable(Source[i][next[i]])
       THEN step' = [step EXCEPT ![i] = "stopped"] /\ UNCHANGED raw
       ELSE /\ \E r \in Offered(Source[i][next[i]]) : raw' = [raw EXCEPT ![i] = r]
            /\ step' = [step EXCEPT ![i] = "find"]
    /\ UNCHANGED <<next, results, runs, storeVars, faultVars>>

Finishes(i) ==
    /\ step[i] = "fetch" /\ Exhausted(i)
    /\ step' = [step EXCEPT ![i] = "drained"]
    /\ UNCHANGED <<next, raw, results, runs, storeVars, faultVars>>

-----------------------------------------------------------------------------
(* One document. *)

Key(artifact, r) == <<artifact, r.content, IF artifact = "raw" THEN r.kind ELSE "txt">>

\* An unknown type, a parser that raises and a text without ink come to the same.
Text == [c \in Content |-> NormalizeWhitespace(TextOf[c])]
Parsed(r) == r.kind \in Readable /\ Text[r.content] # <<>>

Held(c) == {n \in DOMAIN documents : documents[n].content = c}

Result(i, status) ==
    /\ results' = [results EXCEPT ![i] = Append(@, [content |-> raw[i].content, status |-> status])]
    /\ step' = [step EXCEPT ![i] = "fetch"]
    /\ next' = [next EXCEPT ![i] = @ + 1]
    /\ raw' = [raw EXCEPT ![i] = NoRaw]

FindsByHash(i) ==
    /\ step[i] = "find"
    /\ IF Held(raw[i].content) # {}
       THEN Result(i, "duplicate")
       ELSE step' = [step EXCEPT ![i] = "store"] /\ UNCHANGED <<next, raw, results>>
    /\ UNCHANGED <<runs, storeVars, faultVars>>

Puts(i) == {Key("raw", raw[i])} \cup IF Parsed(raw[i]) THEN {Key("normalized", raw[i])} ELSE {}

Stores(i) ==
    /\ step[i] = "store"
    /\ objects' = objects \cup Puts(i)
    /\ step' = [step EXCEPT ![i] = "persist"]
    /\ UNCHANGED <<next, raw, results, runs, documents, announced, faultVars>>

\* A write the object store refuses raises the client's own error, which ingest
\* and ingest_source let through: the rest of the source is not drained.

PutFails(i) ==
    /\ step[i] = "store" /\ outages < MaxOutages
    /\ \E stored \in SUBSET Puts(i) :
          /\ stored # Puts(i) /\ (stored # {} => Key("raw", raw[i]) \in stored)
          /\ objects' = objects \cup stored
    /\ outages' = outages + 1
    /\ step' = [step EXCEPT ![i] = "stopped"]
    /\ UNCHANGED <<next, raw, results, runs, documents, announced, kills, silenced>>

InsertsAlways(i) == FALSE

Row(r) == [content |-> r.content, kind |-> r.kind,
           status |-> IF Parsed(r) THEN "parsed" ELSE "failed"]

\* The unique content_hash: the second of two inserts raises.
Conflicts(i) == Held(raw[i].content) # {}

PersistsAsFailure(i) ==
    /\ step[i] = "persist"
    /\ documents' = IF Conflicts(i) THEN documents ELSE Append(documents, Row(raw[i]))
    /\ IF Parsed(raw[i]) /\ ~Conflicts(i)
       THEN step' = [step EXCEPT ![i] = "publish"] /\ UNCHANGED <<next, raw, results>>
       ELSE Result(i, "parse_failed")
    /\ UNCHANGED <<runs, objects, announced, faultVars>>

Persists(i) ==
    /\ step[i] = "persist"
    /\ IF Conflicts(i)
       THEN step' = [step EXCEPT ![i] = "stopped"] /\ UNCHANGED <<next, raw, results, documents>>
       ELSE /\ documents' = Append(documents, Row(raw[i]))
            /\ IF Parsed(raw[i])
               THEN step' = [step EXCEPT ![i] = "publish"] /\ UNCHANGED <<next, raw, results>>
               ELSE Result(i, "parse_failed")
    /\ UNCHANGED <<runs, objects, announced, faultVars>>

Publishes(i) ==
    /\ step[i] = "publish"
    /\ announced' = Append(announced, raw[i].content)
    /\ Result(i, "ingested")
    /\ UNCHANGED <<runs, objects, documents, faultVars>>

-----------------------------------------------------------------------------
(* The process of an ingester. *)

Busy(i) == step[i] \in {"fetch", "find", "store", "persist", "publish"}

IsKilled(i) ==
    /\ Busy(i) /\ kills < MaxKills
    /\ kills' = kills + 1
    /\ silenced' = IF step[i] = "publish" THEN silenced \cup {raw[i].content} ELSE silenced
    /\ step' = [step EXCEPT ![i] = "stopped"]
    /\ UNCHANGED <<next, raw, results, runs, storeVars, outages>>

\* The source is drained again from its first entry.
RunsAgain(i) ==
    /\ step[i] \in {"stopped", "drained"} /\ runs[i] < MaxRuns
    /\ runs' = [runs EXCEPT ![i] = @ + 1]
    /\ step' = [step EXCEPT ![i] = "fetch"]
    /\ next' = [next EXCEPT ![i] = 1]
    /\ raw' = [raw EXCEPT ![i] = NoRaw]
    /\ results' = [results EXCEPT ![i] = <<>>]
    /\ UNCHANGED <<storeVars, faultVars>>

Ingests(i) == Fetches(i) \/ Finishes(i) \/ FindsByHash(i) \/ Stores(i) \/ Persists(i) \/ Publishes(i)
IngesterNext(i) == Ingests(i) \/ PutFails(i) \/ IsKilled(i) \/ RunsAgain(i)
=============================================================================
