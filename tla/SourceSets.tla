----------------------------- MODULE SourceSets -----------------------------
(***************************************************************************)
(* What makes two documents one source (agents, independence.py), and what *)
(* a count of independent sources means for a set of documents.            *)
(***************************************************************************)
EXTENDS Naturals, FiniteSets

CONSTANTS
    Doc,          \* documents
    None,         \* "publisher unknown"
    PublisherOf,  \* the publisher of each document, or None
    Alike         \* pairs whose shingles overlap by the syndication threshold

\* Jaccard overlap is symmetric, not transitive, and zero for a document without
\* tokens, even with itself.
ASSUME SourceAssumption ==
    /\ Alike \subseteq Doc \X Doc
    /\ \A d, e \in Doc : <<d, e>> \in Alike => <<e, d>> \in Alike

\* One call is handed the documents of one cluster.
ASSUME FiniteDocAssumption == IsFiniteSet(Doc)

SamePublisher(d, e) == PublisherOf[d] # None /\ PublisherOf[d] = PublisherOf[e]
SyndicatedCopy(d, e) == <<d, e>> \in Alike

Match(d, e) == SamePublisher(d, e) \/ SyndicatedCopy(d, e)

Unrelated(S) == \A d, e \in S : d # e => ~Match(d, e)

\* S is one document per source of D: no two of S match, and every other
\* document of D matches one of them.
Represents(S, D) ==
    /\ S \subseteq D
    /\ Unrelated(S)
    /\ \A d \in D \ S : \E e \in S : Match(d, e)

\* The counts assess_independence can return for D, over the orders in which the
\* database may hand it the documents.
Counts(D) == {Cardinality(S) : S \in {T \in SUBSET D : Represents(T, D)}}
=============================================================================
