------------------------- MODULE SourceIndependence -------------------------
(***************************************************************************)
(* assess_independence (agents, independence.py): one step is one document *)
(* of the loop, placed into the first group whose first document it        *)
(* matches.  The documents come from a SELECT DISTINCT without an ORDER BY *)
(* (event_persistence.py), so the loop meets them in any order.            *)
(***************************************************************************)
EXTENDS SourceSets, Sequences

VARIABLES
    docs,        \* the documents handed to the call
    todo,        \* those the loop has not reached
    leads,       \* the first document of each group, group[0]
    groups,      \* the documents of each group
    syndicated   \* documents collapsed into a group as copies

vars == <<docs, todo, leads, groups, syndicated>>

Init ==
    /\ docs \in SUBSET Doc
    /\ todo = docs
    /\ leads = <<>>
    /\ groups = <<>>
    /\ syndicated = {}

\* Mutant: text is not compared.
FitsPublisherOnly(d, i) == SamePublisher(d, leads[i])

Fits(d, i) == Match(d, leads[i])

FirstFit(d, i) ==
    /\ i \in DOMAIN leads
    /\ Fits(d, i)
    /\ \A j \in 1 .. i - 1 : ~Fits(d, j)

CountsAsCopy(d, i) == SyndicatedCopy(d, leads[i]) /\ ~SamePublisher(d, leads[i])

\* Mutant: the document joins its group and is not listed as a copy.
JoinsUnlisted(d) ==
    /\ \E i \in DOMAIN leads :
          /\ FirstFit(d, i)
          /\ groups' = [groups EXCEPT ![i] = @ \cup {d}]
    /\ UNCHANGED <<leads, syndicated>>

Joins(d) ==
    /\ \E i \in DOMAIN leads :
          /\ FirstFit(d, i)
          /\ groups' = [groups EXCEPT ![i] = @ \cup {d}]
          /\ syndicated' = IF CountsAsCopy(d, i) THEN syndicated \cup {d} ELSE syndicated
    /\ UNCHANGED leads

Opens(d) ==
    /\ \A i \in DOMAIN leads : ~Fits(d, i)
    /\ leads' = Append(leads, d)
    /\ groups' = Append(groups, {d})
    /\ UNCHANGED syndicated

Place(d) ==
    /\ todo' = todo \ {d}
    /\ Joins(d) \/ Opens(d)
    /\ UNCHANGED docs

Next == \E d \in todo : Place(d)

Spec == Init /\ [][Next]_vars

-----------------------------------------------------------------------------
(* Properties.                                                             *)

IndependentSourceCount == Len(leads)

Lead == {leads[i] : i \in DOMAIN leads}

\* Type invariant: the groups hold exactly the documents reached so far, each
\* group its first document.
TypeOK ==
    /\ docs \in SUBSET Doc
    /\ todo \in SUBSET docs
    /\ leads \in Seq(docs \ todo)
    /\ groups \in Seq(SUBSET (docs \ todo))
    /\ DOMAIN groups = DOMAIN leads
    /\ \A i \in DOMAIN leads : leads[i] \in groups[i]
    /\ \A d \in docs \ todo : \E i \in DOMAIN groups : d \in groups[i]
    /\ syndicated \in SUBSET (docs \ todo)

\* No document counts twice: it is in one group, and matches the first document
\* of no group before it.
GroupedOnce ==
    \A i, j \in DOMAIN groups : i < j =>
        \A d \in groups[j] : d \notin groups[i] /\ ~Match(d, leads[i])

\* What was collapsed as a copy was collapsed by its text alone.
CopiesAreForeign ==
    \A i \in DOMAIN groups : \A d \in groups[i] :
        d \in syndicated <=> d # leads[i] /\ ~SamePublisher(d, leads[i])

\* "Three pieces from the same outlet are one source" (independence.py:10) holds
\* but for copies: an outlet counts in two groups only where the earlier of them
\* holds its piece as the copy of another outlet's.
OutletSplitsOnlyByCopy ==
    \A i, j \in DOMAIN groups : i < j =>
        \A d \in groups[i], e \in groups[j] :
            SamePublisher(d, e) => d \in syndicated /\ leads[i] # d

\* A cluster never has more sources than it has known publishers and documents
\* without one.
CountWithinPublishers ==
    IndependentSourceCount <=
        Cardinality({PublisherOf[d] : d \in docs} \ {None})
            + Cardinality({d \in docs : PublisherOf[d] = None})

\* The loop decides what IndependentSources allows, whatever the order.
Abstract == INSTANCE IndependentSources WITH
    sources <- IF todo = {} THEN Lead ELSE {},
    decided <- (todo = {} /\ docs # {})
ImplementsIndependentSources == Abstract!Spec

(* The groups the loop forms are sound whatever order the documents come in:
   each document in one group, copies foreign to the lead, an outlet split only
   by a copy, and never more sources counted than there are publishers. *)
GroupsAreSound ==
    /\ GroupedOnce
    /\ CopiesAreForeign
    /\ OutletSplitsOnlyByCopy
    /\ CountWithinPublishers
=============================================================================
