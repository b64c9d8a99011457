----------------------- MODULE EventResolutionProofs -----------------------
(***************************************************************************)
(* Proofs about EventResolution and the count of independent sources it    *)
(* works with (SourceIndependence): the loop groups the documents of a     *)
(* cluster soundly whatever their publishers, their texts and their order; *)
(* an event counts the claims of its own cluster, nothing passes the gate  *)
(* early, and a release that is not discovered was missed.                 *)
(***************************************************************************)
EXTENDS SourceIndependence, EventResolution, FiniteSetTheorems, TLAPS

-----------------------------------------------------------------------------
(* Independence of sources.                                                 *)

\* Every collapsed document matches the first one of its group.
GroupsMatch ==
    \A i \in DOMAIN groups : \A d \in groups[i] : d # leads[i] => Match(d, leads[i])

GroupsInv == TypeOK /\ GroupedOnce /\ CopiesAreForeign /\ GroupsMatch

LEMMA MatchSymmetric ==
    ASSUME NEW d \in Doc, NEW e \in Doc
    PROVE  Match(d, e) <=> Match(e, d)
BY SourceAssumption DEF Match, SamePublisher, SyndicatedCopy

LEMMA GroupsInit == Init => GroupsInv
BY DEF Init, GroupsInv, TypeOK, GroupedOnce, CopiesAreForeign, GroupsMatch

\* A document that joins group i.
LEMMA JoinStep ==
    ASSUME GroupsInv, NEW d \in todo, Place(d), Joins(d)
    PROVE  GroupsInv'
<1> USE DEF GroupsInv
<1>1. PICK i \in DOMAIN leads :
          /\ FirstFit(d, i)
          /\ groups' = [groups EXCEPT ![i] = @ \cup {d}]
          /\ syndicated' = IF CountsAsCopy(d, i) THEN syndicated \cup {d} ELSE syndicated
    BY DEF Joins
<1>2. /\ docs' = docs /\ leads' = leads /\ todo' = todo \ {d}
      /\ d \in docs /\ d \notin docs \ todo
      /\ docs' \ todo' = (docs \ todo) \cup {d}
    BY DEF Place, Joins, TypeOK
<1>3. /\ DOMAIN groups' = DOMAIN groups /\ DOMAIN groups = DOMAIN leads
      /\ groups'[i] = groups[i] \cup {d}
      /\ \A j \in DOMAIN groups \ {i} : groups'[j] = groups[j]
      /\ groups' \in Seq(SUBSET (docs' \ todo'))
    <2>1. groups \in Seq(SUBSET (docs' \ todo')) /\ DOMAIN groups = DOMAIN leads
        <3>1. SUBSET (docs \ todo) \subseteq SUBSET (docs' \ todo')
            BY <1>2
        <3> QED
            BY <3>1 DEF TypeOK
    <2>2. groups[i] \cup {d} \in SUBSET (docs' \ todo')
        BY <1>1, <1>2, <2>1 DEF TypeOK
    <2> QED
        BY <1>1, <2>1, <2>2
<1>4. \A j \in DOMAIN groups : d \notin groups[j]
    BY <1>2 DEF TypeOK
<1>5. d # leads[i] /\ Match(d, leads[i]) /\ \A j \in 1 .. i - 1 : ~Match(d, leads[j])
    BY <1>1, <1>3, <1>4 DEF FirstFit, Fits, TypeOK
<1>6. TypeOK'
    <2>1. docs' \in SUBSET Doc /\ todo' \in SUBSET docs' /\ leads' \in Seq(docs' \ todo')
        BY <1>2 DEF TypeOK
    <2>2. \A j \in DOMAIN leads' : leads'[j] \in groups'[j]
        BY <1>1, <1>2, <1>3 DEF TypeOK
    <2>3. \A e \in docs' \ todo' : \E j \in DOMAIN groups' : e \in groups'[j]
        <3>1. ASSUME NEW e \in docs \ todo PROVE \E j \in DOMAIN groups' : e \in groups'[j]
            <4>1. PICK j \in DOMAIN groups : e \in groups[j]
                BY DEF TypeOK
            <4> QED
                BY <1>3, <4>1
        <3> QED
            BY <1>1, <1>2, <1>3, <3>1
    <2>4. syndicated' \in SUBSET (docs' \ todo')
        BY <1>1, <1>2 DEF TypeOK
    <2> QED
        BY <1>2, <1>3, <2>1, <2>2, <2>3, <2>4 DEF TypeOK
<1>7. GroupedOnce'
    <2> SUFFICES ASSUME NEW j \in DOMAIN groups, NEW k \in DOMAIN groups, j < k,
                        NEW e \in groups'[k]
                 PROVE  e \notin groups'[j] /\ ~Match(e, leads[j])
        BY <1>2, <1>3 DEF GroupedOnce
    <2>1. CASE e = d
        <3>1. k = i /\ j \in 1 .. i - 1
            BY <1>3, <1>4, <2>1 DEF TypeOK
        <3> QED
            BY <1>3, <1>4, <1>5, <2>1, <3>1
    <2>2. CASE e # d
        BY <1>3, <2>2 DEF GroupedOnce
    <2> QED
        BY <2>1, <2>2
<1>8. CopiesAreForeign'
    <2> SUFFICES ASSUME NEW j \in DOMAIN groups, NEW e \in groups'[j]
                 PROVE  e \in syndicated' <=> e # leads[j] /\ ~SamePublisher(e, leads[j])
        BY <1>2, <1>3 DEF CopiesAreForeign
    <2>1. CASE e = d
        <3>1. j = i
            BY <1>3, <1>4, <2>1
        <3>2. d \notin syndicated
            BY <1>2 DEF TypeOK
        <3>3. d \in syndicated' <=> ~SamePublisher(d, leads[i])
            BY <1>1, <1>5, <3>2 DEF CountsAsCopy, Match
        <3> QED
            BY <1>5, <2>1, <3>1, <3>3
    <2>2. CASE e # d
        BY <1>1, <1>3, <2>2 DEF CopiesAreForeign
    <2> QED
        BY <2>1, <2>2
<1>9. GroupsMatch'
    <2> SUFFICES ASSUME NEW j \in DOMAIN groups, NEW e \in groups'[j], e # leads[j]
                 PROVE  Match(e, leads[j])
        BY <1>2, <1>3 DEF GroupsMatch
    <2>1. CASE e = d
        BY <1>3, <1>4, <1>5, <2>1
    <2>2. CASE e # d
        BY <1>3, <2>2 DEF GroupsMatch
    <2> QED
        BY <2>1, <2>2
<1> QED
    BY <1>6, <1>7, <1>8, <1>9

\* A document that opens a group of its own.
LEMMA OpenStep ==
    ASSUME GroupsInv, NEW d \in todo, Place(d), Opens(d)
    PROVE  GroupsInv'
<1> USE DEF GroupsInv
<1> DEFINE n == Len(leads) + 1
<1>1. /\ docs' = docs /\ todo' = todo \ {d} /\ syndicated' = syndicated
      /\ leads' = Append(leads, d) /\ groups' = Append(groups, {d})
      /\ d \in docs /\ d \notin docs \ todo
      /\ docs' \ todo' = (docs \ todo) \cup {d}
    BY DEF Place, Opens, TypeOK
<1>2. /\ leads \in Seq(docs' \ todo') /\ groups \in Seq(SUBSET (docs' \ todo'))
      /\ {d} \in SUBSET (docs' \ todo') /\ d \in docs' \ todo'
    <2>1. SUBSET (docs \ todo) \subseteq SUBSET (docs' \ todo') /\ docs \ todo \subseteq docs' \ todo'
        BY <1>1
    <2> QED
        BY <1>1, <2>1 DEF TypeOK
<1>3. /\ Len(groups) = Len(leads) /\ n \in Nat \ {0}
      /\ DOMAIN leads = 1 .. n - 1 /\ DOMAIN groups = 1 .. n - 1
    BY <1>2 DEF TypeOK
<1>4. /\ leads' \in Seq(docs' \ todo') /\ groups' \in Seq(SUBSET (docs' \ todo'))
      /\ DOMAIN leads' = 1 .. n /\ DOMAIN groups' = 1 .. n
      /\ leads'[n] = d /\ groups'[n] = {d}
      /\ \A j \in 1 .. n - 1 : leads'[j] = leads[j] /\ groups'[j] = groups[j]
    BY <1>1, <1>2, <1>3
<1>5. \A j \in 1 .. n - 1 : d \notin groups[j]
    BY <1>1, <1>3 DEF TypeOK
<1>6. \A j \in 1 .. n - 1 : ~Match(d, leads[j])
    BY <1>3 DEF Opens, Fits
<1>7. 1 .. n = (1 .. n - 1) \cup {n}
    BY <1>3
<1> HIDE DEF n
<1>8. TypeOK'
    <2>1. docs' \in SUBSET Doc /\ todo' \in SUBSET docs' /\ syndicated' \in SUBSET (docs' \ todo')
        BY <1>1 DEF TypeOK
    <2>2. \A j \in 1 .. n : leads'[j] \in groups'[j]
        BY <1>3, <1>4, <1>7 DEF TypeOK
    <2>3. \A e \in docs' \ todo' : \E j \in 1 .. n : e \in groups'[j]
        <3>1. ASSUME NEW e \in docs \ todo PROVE \E j \in 1 .. n : e \in groups'[j]
            <4>1. PICK j \in 1 .. n - 1 : e \in groups[j]
                BY <1>3 DEF TypeOK
            <4> QED
                BY <1>4, <1>7, <4>1
        <3> QED
            BY <1>1, <1>4, <1>7, <3>1
    <2> QED
        BY <1>4, <2>1, <2>2, <2>3 DEF TypeOK
<1>9. GroupedOnce'
    <2> SUFFICES ASSUME NEW j \in 1 .. n, NEW k \in 1 .. n, j < k, NEW e \in groups'[k]
                 PROVE  e \notin groups'[j] /\ ~Match(e, leads'[j])
        BY <1>4 DEF GroupedOnce
    <2>1. j \in 1 .. n - 1
        BY <1>3
    <2>2. CASE k = n
        BY <1>4, <1>5, <1>6, <2>1, <2>2
    <2>3. CASE k # n
        BY <1>3, <1>4, <1>7, <2>1, <2>3 DEF GroupedOnce
    <2> QED
        BY <2>2, <2>3
<1>10. CopiesAreForeign'
    <2> SUFFICES ASSUME NEW j \in 1 .. n, NEW e \in groups'[j]
                 PROVE  e \in syndicated <=> e # leads'[j] /\ ~SamePublisher(e, leads'[j])
        BY <1>1, <1>4 DEF CopiesAreForeign
    <2>1. CASE j = n
        BY <1>1, <1>4, <2>1 DEF TypeOK
    <2>2. CASE j # n
        BY <1>3, <1>4, <1>7, <2>2 DEF CopiesAreForeign
    <2> QED
        BY <2>1, <2>2
<1>11. GroupsMatch'
    <2> SUFFICES ASSUME NEW j \in 1 .. n, NEW e \in groups'[j], e # leads'[j]
                 PROVE  Match(e, leads'[j])
        BY <1>4 DEF GroupsMatch
    <2> QED
        BY <1>3, <1>4, <1>7 DEF GroupsMatch
<1> QED
    BY <1>8, <1>9, <1>10, <1>11

LEMMA GroupsStep == GroupsInv /\ [Next]_vars => GroupsInv'
<1> SUFFICES ASSUME GroupsInv, [Next]_vars PROVE GroupsInv'
    OBVIOUS
<1>1. CASE Next
    BY <1>1, JoinStep, OpenStep DEF Next, Place
<1>2. CASE UNCHANGED vars
    BY <1>2 DEF vars, GroupsInv, TypeOK, GroupedOnce, CopiesAreForeign, GroupsMatch
<1> QED
    BY <1>1, <1>2

LEMMA GroupsInvHolds == Spec => []GroupsInv
BY GroupsInit, GroupsStep, PTL DEF Spec

\* For every set of documents and every order: a document counts once, in the
\* group of the first lead it matches.
THEOREM GroupedOnceHolds == Spec => []GroupedOnce
BY GroupsInvHolds, PTL DEF GroupsInv

\* The list of copies is exact.
THEOREM CopiesAreForeignHolds == Spec => []CopiesAreForeign
BY GroupsInvHolds, PTL DEF GroupsInv

\* An outlet counts twice only through a copy of another outlet's report.
THEOREM OutletSplitsOnlyByCopyHolds == Spec => []OutletSplitsOnlyByCopy
<1>1. GroupsInv => OutletSplitsOnlyByCopy
    <2> SUFFICES ASSUME GroupsInv,
                        NEW i \in DOMAIN groups, NEW j \in DOMAIN groups, i < j,
                        NEW d \in groups[i], NEW e \in groups[j], SamePublisher(d, e)
                 PROVE  d \in syndicated /\ leads[i] # d
        BY DEF OutletSplitsOnlyByCopy
    <2>1. ~SamePublisher(e, leads[i])
        BY DEF GroupsInv, GroupedOnce, Match
    <2>2. d # leads[i] /\ ~SamePublisher(d, leads[i])
        BY <2>1 DEF SamePublisher
    <2> QED
        BY <2>2 DEF GroupsInv, CopiesAreForeign
<1> QED
    BY <1>1, GroupsInvHolds, PTL

-----------------------------------------------------------------------------
(* Counting: every source is led by a document of its own.                 *)

\* No document leads two groups.
LEMMA LeadsDiffer ==
    ASSUME GroupsInv, NEW i \in DOMAIN leads, NEW j \in DOMAIN leads, i # j
    PROVE  leads[i] # leads[j] /\ ~SamePublisher(leads[i], leads[j])
<1>1. i \in Nat /\ j \in Nat
    BY DEF GroupsInv, TypeOK
<1>2. CASE i < j
    BY <1>2 DEF GroupsInv, TypeOK, GroupedOnce, Match, SamePublisher
<1>3. CASE j < i
    BY <1>3 DEF GroupsInv, TypeOK, GroupedOnce, Match, SamePublisher
<1> QED
    BY <1>1, <1>2, <1>3

\* The groups are as many as their leads.
LEMMA LeadCount == GroupsInv => IsFiniteSet(Lead) /\ Cardinality(Lead) = IndependentSourceCount
<1> SUFFICES ASSUME GroupsInv PROVE IsFiniteSet(Lead) /\ Cardinality(Lead) = IndependentSourceCount
    OBVIOUS
<1> DEFINE n == Len(leads)
           f == [i \in 1 .. n |-> leads[i]]
<1>1. n \in Nat /\ DOMAIN leads = 1 .. n
    BY DEF GroupsInv, TypeOK
<1>2. f \in Bijection(1 .. n, Lead)
    <2>1. f \in [1 .. n -> Lead]
        BY <1>1 DEF Lead
    <2>2. \A i, j \in 1 .. n : f[i] = f[j] => i = j
        BY <1>1, LeadsDiffer
    <2>3. \A d \in Lead : \E i \in 1 .. n : f[i] = d
        BY <1>1 DEF Lead
    <2> QED
        BY <2>1, <2>2, <2>3 DEF Bijection, Injection, Surjection, IsInjective
<1>3. IsFiniteSet(1 .. n) /\ Cardinality(1 .. n) = n
    <2>1. n \in Nat
        BY <1>1
    <2> HIDE DEF n
    <2>2. IsFiniteSet(1 .. n) /\ Cardinality(1 .. n) = IF 1 > n THEN 0 ELSE n - 1 + 1
        BY <2>1, FS_Interval
    <2> QED
        BY <2>1, <2>2
<1> QED
    BY <1>2, <1>3, FS_Bijection DEF ExistsBijection, IndependentSourceCount

\* A cluster never has more sources than known publishers and documents without
\* one, however it is grouped.
THEOREM CountWithinPublishersHolds == Spec => []CountWithinPublishers
<1>1. GroupsInv => CountWithinPublishers
    <2> SUFFICES ASSUME GroupsInv PROVE CountWithinPublishers
        OBVIOUS
    <2> DEFINE known == {d \in Lead : PublisherOf[d] # None}
               nameless == {d \in Lead : PublisherOf[d] = None}
               all == {PublisherOf[d] : d \in docs}
               publishers == all \ {None}
               anonymous == {d \in docs : PublisherOf[d] = None}
    <2>1. Lead \subseteq docs /\ IsFiniteSet(docs)
        <3>1. Lead \subseteq docs
            BY DEF GroupsInv, TypeOK, Lead
        <3>2. docs \in SUBSET Doc
            BY DEF GroupsInv, TypeOK
        <3> QED
            BY <3>1, <3>2, FiniteDocAssumption, FS_Subset
    <2>2. IsFiniteSet(publishers)
        <3>1. [d \in docs |-> PublisherOf[d]] \in Surjection(docs, all)
            BY DEF Surjection
        <3>2. IsFiniteSet(all)
            BY <2>1, <3>1, FS_Surjection
        <3> QED
            BY <3>2, FS_Subset
    <2>3. Cardinality(known) <= Cardinality(publishers) /\ IsFiniteSet(known)
        <3> DEFINE g == [d \in known |-> PublisherOf[d]]
        <3>1. g \in [known -> publishers]
            BY <2>1
        <3>2. ASSUME NEW d \in known, NEW e \in known, PublisherOf[d] = PublisherOf[e]
              PROVE  d = e
            <4>1. PICK i \in DOMAIN leads : d = leads[i]
                BY DEF Lead
            <4>2. PICK j \in DOMAIN leads : e = leads[j]
                BY DEF Lead
            <4> QED
                BY <3>2, <4>1, <4>2, LeadsDiffer DEF SamePublisher
        <3>3. \A d, e \in known : g[d] = g[e] => d = e
            BY <3>2
        <3>4. g \in Injection(known, publishers)
            BY <3>1, <3>3 DEF Injection, IsInjective
        <3> QED
            BY <2>2, <3>4, FS_Injection
    <2>4. Cardinality(nameless) <= Cardinality(anonymous) /\ IsFiniteSet(nameless)
        <3>1. anonymous \in SUBSET docs /\ nameless \in SUBSET anonymous
            BY <2>1
        <3>2. IsFiniteSet(anonymous)
            BY <2>1, <3>1, FS_Subset
        <3> QED
            BY <3>1, <3>2, FS_Subset
    <2>5. Cardinality(Lead) = Cardinality(known) + Cardinality(nameless)
        <3>1. Lead = known \cup nameless /\ known \cap nameless = {}
            OBVIOUS
        <3>2. Cardinality(known \cup nameless) = Cardinality(known) + Cardinality(nameless)
                                                 - Cardinality(known \cap nameless)
            BY <2>3, <2>4, FS_Union
        <3>3. Cardinality(known) \in Nat /\ Cardinality(nameless) \in Nat
            BY <2>3, <2>4, FS_CardinalityType
        <3>4. Cardinality(known \cap nameless) = 0
            BY <3>1, FS_EmptySet
        <3> HIDE DEF known, nameless
        <3> QED
            BY <3>1, <3>2, <3>3, <3>4
    <2>6. /\ Cardinality(known) \in Nat /\ Cardinality(nameless) \in Nat
          /\ Cardinality(publishers) \in Nat /\ Cardinality(anonymous) \in Nat
        <3>1. IsFiniteSet(anonymous)
            BY <2>1, FS_Subset
        <3> QED
            BY <2>2, <2>3, <2>4, <3>1, FS_CardinalityType
    <2>7. IndependentSourceCount = Cardinality(known) + Cardinality(nameless)
        BY <2>5, LeadCount
    <2>8. CountWithinPublishers <=>
              IndependentSourceCount <= Cardinality(publishers) + Cardinality(anonymous)
        BY DEF CountWithinPublishers
    <2> HIDE DEF known, nameless, publishers, anonymous
    <2> QED
        BY <2>3, <2>4, <2>6, <2>7, <2>8
<1> QED
    BY <1>1, GroupsInvHolds, PTL

\* The groups are sound, whatever the documents and their order.
THEOREM GroupsAreSoundHolds == Spec => []GroupsAreSound
<1>1. GroupedOnce /\ CopiesAreForeign /\ OutletSplitsOnlyByCopy /\ CountWithinPublishers
          => GroupsAreSound
    BY DEF GroupsAreSound
<1> QED
    BY <1>1, GroupedOnceHolds, CopiesAreForeignHolds, OutletSplitsOnlyByCopyHolds,
       CountWithinPublishersHolds, PTL

-----------------------------------------------------------------------------
(* The loop implements the single decision of IndependentSources.          *)

\* When every document is placed, the leads represent them all.
LEMMA LeadsRepresent == GroupsInv /\ todo = {} => Represents(Lead, docs)
<1> SUFFICES ASSUME GroupsInv, todo = {} PROVE Represents(Lead, docs)
    OBVIOUS
<1> USE DEF GroupsInv
<1>1. Lead \subseteq docs /\ docs \subseteq Doc
    BY DEF Lead, TypeOK
<1>2. Unrelated(Lead)
    <2> SUFFICES ASSUME NEW i \in DOMAIN leads, NEW j \in DOMAIN leads, leads[i] # leads[j]
                 PROVE  ~Match(leads[i], leads[j])
        BY DEF Unrelated, Lead
    <2>1. leads[i] \in Doc /\ leads[j] \in Doc /\ i \in Nat /\ j \in Nat
        BY <1>1 DEF TypeOK, Lead
    <2>2. CASE j < i
        BY <2>2 DEF GroupedOnce, TypeOK
    <2>3. CASE i < j
        BY <2>1, <2>3, MatchSymmetric DEF GroupedOnce, TypeOK
    <2> QED
        BY <2>1, <2>2, <2>3
<1>3. ASSUME NEW d \in docs \ Lead PROVE \E e \in Lead : Match(d, e)
    <2>1. PICK i \in DOMAIN groups : d \in groups[i]
        BY DEF TypeOK
    <2>2. leads[i] \in Lead /\ d # leads[i]
        BY DEF Lead, TypeOK
    <2> QED
        BY <2>1, <2>2 DEF GroupsMatch
<1> QED
    BY <1>1, <1>2, <1>3 DEF Represents

\* IndependentSources means by Represents what the loop's module does.
LEMMA SameRepresents ==
    ASSUME NEW S, NEW D
    PROVE  Abstract!Represents(S, D) <=> Represents(S, D)
BY DEF Represents, Unrelated, Match, SamePublisher, SyndicatedCopy,
       Abstract!Represents, Abstract!Unrelated, Abstract!Match,
       Abstract!SamePublisher, Abstract!SyndicatedCopy

\* Over any order in which the database hands out the documents, the loop returns
\* one document per source and nothing else.
THEOREM LoopImplementsIndependentSources == Spec => ImplementsIndependentSources
<1> DEFINE s == IF todo = {} THEN Lead ELSE {}
           f == todo = {} /\ docs # {}
<1>1. Init => Abstract!Init
    BY DEF Init, Abstract!Init, Lead
<1>2. (GroupsInv /\ todo = {} => Represents(Lead, docs))'
    BY LeadsRepresent, PTL
<1>3. GroupsInv /\ GroupsInv' /\ [Next]_vars => [Abstract!Decide]_<<docs, s, f>>
    <2> SUFFICES ASSUME GroupsInv, GroupsInv', [Next]_vars PROVE [Abstract!Decide]_<<docs, s, f>>
        OBVIOUS
    <2>1. CASE UNCHANGED vars
        BY <2>1 DEF vars, Lead
    <2>2. ASSUME NEW d \in todo, Place(d) PROVE [Abstract!Decide]_<<docs, s, f>>
        <3>1. docs' = docs /\ docs # {} /\ todo # {}
            BY <2>2 DEF Place, GroupsInv, TypeOK
        <3>2. CASE todo' = {}
            <4>1. Represents(Lead', docs)
                BY <1>2, <3>1, <3>2 DEF Represents
            <4>2. /\ s' = Lead' /\ f' = TRUE /\ f = FALSE /\ Lead' \subseteq docs
                BY <3>1, <3>2, <4>1 DEF Represents
            <4>3. Abstract!Represents(Lead', docs)
                BY <4>1, SameRepresents
            <4> QED
                BY <3>1, <4>2, <4>3 DEF Abstract!Decide
        <3>3. CASE todo' # {}
            BY <3>1, <3>3
        <3> QED
            BY <3>2, <3>3
    <2> QED
        BY <2>1, <2>2 DEF Next
<1> QED
    BY <1>1, <1>3, GroupsInvHolds, PTL DEF Spec, ImplementsIndependentSources, Abstract!Spec

-----------------------------------------------------------------------------
(* Events.                                                                  *)

\* The variables as functions, which the type invariant of the runs leaves open.
Rows == [rev : Nat, sources : Nat, major : BOOLEAN, marked : BOOLEAN]
Answers == [shown : SUBSET Claim, rest : SUBSET Claim, known : SUBSET Event]
Works == [into : Event \cup {None}, claims : SUBSET Claim, rev : Nat, sources : Nat, major : BOOLEAN]

StoreShape == arrived \in SUBSET Claim /\ cluster \in [Event -> SUBSET Claim] /\ table \in [Event -> Rows]
AnswerShape == answer \in [Worker -> Answers]
WorkShape == work \in [Worker -> Works]
OtherShape ==
    /\ stage \in [Worker -> Stages] /\ releases \in [Worker -> SUBSET Event]
    /\ outbox \in SUBSET Event /\ missed \in SUBSET Event
    /\ item \in [Event -> {"none", "due", "read", "logged"}]
    /\ loaded \in [Event -> Nat] /\ seenRev \in [Event -> Nat] /\ released \in [Event -> Nat]
    /\ stops \in Nat /\ overlaps \in Nat /\ sloppy \in Nat
Shapes == StoreShape /\ AnswerShape /\ WorkShape /\ OtherShape

\* A pass that is not storing a proposal holds none.
NothingHeld ==
    \A w \in Worker :
        /\ stage[w] \in {"idle", "asked"} => work[w] = NoWork
        /\ stage[w] = "idle" => answer[w] = NoAnswer

\* Passes are single-flighted until one overlaps.
OnePass ==
    overlaps = 0 => \A v, w \in Worker : stage[v] # "idle" /\ stage[w] # "idle" => v = w

\* What a single-flighted pass has left to use supports no event yet, as long as the
\* agent partitions, and neither does the proposal it is storing.
RestIsUnclustered ==
    overlaps = 0 /\ sloppy = 0 =>
        \A w \in Worker, e \in Event : stage[w] # "idle" =>
            /\ answer[w].rest \cap cluster[e] = {}
            /\ stage[w] = "extending" =>
                  work[w].claims \cap cluster[e] = {} /\ work[w].claims \cap answer[w].rest = {}

\* What a single-flighted pass has stored is what the table says.
StoredIsCurrent ==
    overlaps = 0 => \A w \in Worker : stage[w] = "stored" =>
        /\ table[work[w].into].sources = work[w].sources
        /\ table[work[w].into].major = work[w].major

\* Every way to discovery begins at a release.
WaysBeginReleased ==
    \A e \in Event :
        \/ table[e].marked \/ e \in outbox \/ (\E w \in Worker : e \in releases[w])
        \/ item[e] # "none" \/ seenRev[e] > 0
        => released[e] > 0

\* A release that is not missed is on its way without the finder's help.
CarriedWithoutFinder ==
    \A e \in Event \ missed : released[e] > seenRev[e] =>
        \/ e \in outbox \/ (\E w \in Worker : e \in releases[w])
        \/ item[e] = "due" \/ (item[e] = "read" /\ loaded[e] >= released[e])

\* A discovery under way has read no less than the last one recorded.
LoadsAreNotOlder == \A e \in Event : item[e] = "read" => seenRev[e] <= loaded[e]

TypeInv  == Shapes /\ EventTypeOK /\ NothingHeld
CountInv == OnePass /\ RestIsUnclustered /\ ClusteredOnce /\ CountMatchesEvidence
GateInv  == StoredIsCurrent /\ MarkedPassedGate /\ WaysBeginReleased
LossInv  == LoadsAreNotOlder /\ CarriedWithoutFinder
IInv     == TypeInv /\ CountInv /\ GateInv /\ LossInv

-----------------------------------------------------------------------------
(* Lemmas.                                                                 *)

\* A count of the sources of some claims is a natural number.
LEMMA CountsAreNumbers ==
    ASSUME NEW C \in SUBSET Claim PROVE Counts(DocsOf(C)) \subseteq Nat
  <1>1. DocsOf(C) \in SUBSET Doc
    BY EventAssumption DEF DocsOf
  <1>2. ASSUME NEW S \in SUBSET DocsOf(C) PROVE Cardinality(S) \in Nat
    <2>1. IsFiniteSet(S)
      BY <1>1, FiniteDocAssumption, FS_Subset
    <2> QED
      BY <2>1, FS_CardinalityType
  <1> QED
    BY <1>2 DEF Counts

\* The initial state satisfies the invariant.
LEMMA InitHolds == EventInit => IInv
  <1> SUFFICES ASSUME EventInit PROVE IInv
    OBVIOUS
  <1> USE DEF EventInit
  <1>1. Shapes
    BY EventAssumption DEF Shapes, StoreShape, AnswerShape, WorkShape, OtherShape, Rows, Answers, Works,
                           NoRow, NoAnswer, NoWork, Stages
  <1>2. EventTypeOK
    <2>1. RowTypeOK
      BY DEF RowTypeOK, NoRow
    <2>2. PassTypeOK
      BY DEF PassTypeOK, NoAnswer, NoWork, Stages
    <2>3. FindTypeOK
      BY DEF FindTypeOK, NoRow
    <2> QED
      BY <2>1, <2>2, <2>3 DEF EventTypeOK
  <1>3. NothingHeld
    BY DEF NothingHeld
  <1>4. CountInv
    BY DEF CountInv, OnePass, RestIsUnclustered, ClusteredOnce, CountMatchesEvidence, Known, NoRow
  <1>5. GateInv
    BY DEF GateInv, StoredIsCurrent, MarkedPassedGate, WaysBeginReleased, NoRow
  <1>6. LossInv
    BY DEF LossInv, LoadsAreNotOlder, CarriedWithoutFinder
  <1> QED
    BY <1>1, <1>2, <1>3, <1>4, <1>5, <1>6 DEF IInv, TypeInv

-----------------------------------------------------------------------------
(* Types.                                                                  *)

\* A cluster stored as a new event: what Creates did, with its counts as numbers.
LEMMA CreateFacts ==
    ASSUME TypeInv, NEW w \in Worker, Creates(w)
    PROVE  \E C \in SUBSET Claim, e \in Event, m \in BOOLEAN, n \in Nat :
             /\ C \subseteq answer[w].shown /\ e \notin Known /\ n \in Counts(DocsOf(C))
             /\ sloppy' \in {sloppy, sloppy + 1}
             /\ sloppy' = sloppy => C \subseteq answer[w].rest
             /\ answer' = [answer EXCEPT ![w].rest = @ \ C]
             /\ table' = [table EXCEPT ![e] = [rev |-> 1, sources |-> n, major |-> m, marked |-> FALSE]]
             /\ work' = [work EXCEPT ![w] = [into |-> e, claims |-> C, rev |-> 1, sources |-> n, major |-> m]]
             /\ cluster' = [cluster EXCEPT ![e] = C]
  <1> USE DEF TypeInv, Shapes, StoreShape, AnswerShape, WorkShape, OtherShape, Rows, Answers, Works
  <1>1. PICK C \in SUBSET answer[w].shown, e \in Event \ Known, m \in BOOLEAN :
           /\ Proposes(w, C)
           /\ \E n \in Counts(DocsOf(C)) :
                 /\ table' = [table EXCEPT ![e] = [rev |-> 1, sources |-> n, major |-> m, marked |-> FALSE]]
                 /\ work' = [work EXCEPT ![w] = [into |-> e, claims |-> C, rev |-> 1, sources |-> n, major |-> m]]
           /\ cluster' = [cluster EXCEPT ![e] = C]
    BY DEF Creates
  <1>2. C \in SUBSET Claim
    OBVIOUS
  <1>3. Counts(DocsOf(C)) \subseteq Nat
    BY <1>2, CountsAreNumbers
  <1>4. PICK n \in Counts(DocsOf(C)) :
           /\ table' = [table EXCEPT ![e] = [rev |-> 1, sources |-> n, major |-> m, marked |-> FALSE]]
           /\ work' = [work EXCEPT ![w] = [into |-> e, claims |-> C, rev |-> 1, sources |-> n, major |-> m]]
    BY <1>1
  <1>5. /\ sloppy' \in {sloppy, sloppy + 1}
        /\ sloppy' = sloppy => C \subseteq answer[w].rest
        /\ answer' = [answer EXCEPT ![w].rest = @ \ C]
    BY <1>1 DEF Proposes
  <1>6. n \in Nat
    BY <1>3, <1>4
  <1> QED
    BY <1>1, <1>2, <1>4, <1>5, <1>6

\* A cluster that extends an event, likewise.
LEMMA ExtendFacts ==
    ASSUME TypeInv, NEW w \in Worker, Extends(w)
    PROVE  /\ work[w].into \in Known
           /\ table[work[w].into].rev + 1 = work[w].rev
           /\ Evidence(w) \in SUBSET Claim
           /\ \E n \in Nat, m \in BOOLEAN :
                 /\ n \in Counts(DocsOf(Evidence(w)))
                 /\ table' = [table EXCEPT ![work[w].into] =
                        [rev |-> work[w].rev, sources |-> n, major |-> m, marked |-> FALSE]]
                 /\ work' = [work EXCEPT ![w].sources = n, ![w].major = m]
  <1> USE DEF TypeInv, Shapes, StoreShape, AnswerShape, WorkShape, OtherShape, Rows, Answers, Works
  <1>1. work[w].into \in Known /\ work[w].into \in Event
    BY DEF Extends, EventTypeOK, PassTypeOK, Known
  <1>2. table[work[w].into].rev + 1 = work[w].rev
    BY <1>1 DEF Extends, Unwritten
  <1>3. Evidence(w) \in SUBSET Claim
    BY <1>1 DEF Evidence
  <1>4. PICK n \in Counts(DocsOf(Evidence(w))), m \in BOOLEAN :
           /\ table' = [table EXCEPT ![work[w].into] =
                  [rev |-> work[w].rev, sources |-> n, major |-> m, marked |-> MarkOf(work[w].into)]]
           /\ work' = [work EXCEPT ![w] = [@ EXCEPT !.sources = n, !.major = m]]
    BY DEF Extends
  <1>5. n \in Nat
    BY <1>3, <1>4, CountsAreNumbers
  <1>6. work' = [work EXCEPT ![w].sources = n, ![w].major = m]
    BY <1>4
  <1> QED
    BY <1>1, <1>2, <1>3, <1>4, <1>5, <1>6 DEF MarkOf

-----------------------------------------------------------------------------
(* Types.                                                                  *)

\* What a step leaves of the types: nothing loses a revision, and a pass that is
\* not storing holds no proposal.
LEMMA TypeStep == TypeInv /\ EventNext => TypeInv'
  <1> SUFFICES ASSUME TypeInv, EventNext PROVE TypeInv'
    OBVIOUS
  <1> USE EventAssumption DEF TypeInv, EventTypeOK, Shapes, countVars, passVars, storeVars, findVars
  <1>1. ASSUME NEW c \in Claim, Arrives(c)
        PROVE  TypeInv'
    <2>1a. StoreShape'
      BY <1>1 DEF Arrives, Known, StoreShape, Rows, AnswerShape, Answers, WorkShape, Works
    <2>1b. AnswerShape'
      BY <1>1 DEF Arrives, Known, AnswerShape, Answers, StoreShape
    <2>1c. WorkShape'
      BY <1>1 DEF Arrives, Known, WorkShape, Works, AnswerShape, Answers, StoreShape, Rows
    <2>1d. OtherShape'
      BY <1>1 DEF Arrives, Known, OtherShape, StoreShape, Rows, WorkShape, Works, Stages
    <2>2. RowTypeOK'
      BY <1>1 DEF Arrives, Known, RowTypeOK, PassTypeOK, StoreShape, Rows
    <2>3. PassTypeOK'
      BY <1>1 DEF Arrives, Known, PassTypeOK, RowTypeOK, NothingHeld, StoreShape, Rows, AnswerShape, Answers, WorkShape, Works, OtherShape, Stages
    <2>4. FindTypeOK'
      BY <1>1 DEF Arrives, Known, FindTypeOK, PassTypeOK, RowTypeOK, OtherShape, StoreShape, Rows
    <2>5. NothingHeld'
      BY <1>1 DEF Arrives, Known, NothingHeld, OtherShape, AnswerShape, Answers, WorkShape, Works, Stages
    <2> QED
      BY <2>1a, <2>1b, <2>1c, <2>1d, <2>2, <2>3, <2>4, <2>5
  <1>2. ASSUME NEW w \in Worker, Starts(w)
        PROVE  TypeInv'
    <2>1a. StoreShape'
      BY <1>2 DEF Starts, Unclustered, NoWork, Known, StoreShape, Rows, AnswerShape, Answers, WorkShape, Works
    <2>1b. AnswerShape'
      BY <1>2 DEF Starts, Unclustered, NoWork, Known, AnswerShape, Answers, StoreShape
    <2>1c. WorkShape'
      BY <1>2 DEF Starts, Unclustered, NoWork, Known, WorkShape, Works, AnswerShape, Answers, StoreShape, Rows
    <2>1d. OtherShape'
      BY <1>2 DEF Starts, Unclustered, NoWork, Known, OtherShape, StoreShape, Rows, WorkShape, Works, Stages
    <2>2. RowTypeOK'
      BY <1>2 DEF Starts, Unclustered, NoWork, Known, RowTypeOK, PassTypeOK, StoreShape, Rows
    <2>3. PassTypeOK'
      BY <1>2 DEF Starts, Unclustered, NoWork, Known, PassTypeOK, RowTypeOK, NothingHeld, StoreShape, Rows, AnswerShape, Answers, WorkShape, Works, OtherShape, Stages
    <2>4. FindTypeOK'
      BY <1>2 DEF Starts, Unclustered, NoWork, Known, FindTypeOK, PassTypeOK, RowTypeOK, OtherShape, StoreShape, Rows
    <2>5. NothingHeld'
      BY <1>2 DEF Starts, Unclustered, NoWork, Known, NothingHeld, OtherShape, AnswerShape, Answers, WorkShape, Works, Stages
    <2> QED
      BY <2>1a, <2>1b, <2>1c, <2>1d, <2>2, <2>3, <2>4, <2>5
  <1>3. ASSUME NEW w \in Worker, Creates(w)
        PROVE  TypeInv'
    <2>0. PICK C \in SUBSET Claim, e \in Event, m \in BOOLEAN, n \in Nat :
             /\ C \subseteq answer[w].shown /\ e \notin Known
             /\ sloppy' \in {sloppy, sloppy + 1}
             /\ answer' = [answer EXCEPT ![w].rest = @ \ C]
             /\ table' = [table EXCEPT ![e] = [rev |-> 1, sources |-> n, major |-> m, marked |-> FALSE]]
             /\ work' = [work EXCEPT ![w] = [into |-> e, claims |-> C, rev |-> 1, sources |-> n, major |-> m]]
             /\ cluster' = [cluster EXCEPT ![e] = C]
      BY <1>3, CreateFacts
    <2>1a. StoreShape'
      BY <1>3, <2>0 DEF Creates, Known, StoreShape, Rows, AnswerShape, Answers, WorkShape, Works
    <2>1b. AnswerShape'
      BY <1>3, <2>0 DEF Creates, Known, AnswerShape, Answers, StoreShape
    <2>1c. WorkShape'
      BY <1>3, <2>0 DEF Creates, Known, WorkShape, Works, AnswerShape, Answers, StoreShape, Rows
    <2>1d. OtherShape'
      BY <1>3, <2>0 DEF Creates, Known, OtherShape, StoreShape, Rows, WorkShape, Works, Stages
    <2>2. RowTypeOK'
      <3>1. arrived' = arrived
        BY <1>3 DEF Creates
      <3>2. C \subseteq arrived
        BY <2>0 DEF PassTypeOK
      <3> SUFFICES ASSUME NEW d \in Event PROVE RowTypeOK!(d)'
        BY DEF RowTypeOK
      <3>3. CASE d = e
        <4>1. table'[d] = [rev |-> 1, sources |-> n, major |-> m, marked |-> FALSE] /\ cluster'[d] = C
          BY <1>3, <2>0, <3>3 DEF Creates, StoreShape
        <4>2. table'[d].rev # 0
          BY <2>0, <4>1
        <4> QED
          BY <2>1a, <3>1, <3>2, <4>1, <4>2 DEF StoreShape, Rows
      <3>4. CASE d # e
        <4>1. table'[d] = table[d] /\ cluster'[d] = cluster[d]
          BY <1>3, <2>0, <3>4 DEF Creates, StoreShape
        <4> QED
          BY <3>1, <4>1 DEF RowTypeOK
      <3> QED
        BY <3>3, <3>4
    <2>3. PassTypeOK'
      BY <1>3, <2>0 DEF Creates, NoRow, Known, PassTypeOK, RowTypeOK, NothingHeld, StoreShape, Rows, AnswerShape, Answers, WorkShape, Works, OtherShape, Stages
    <2>4. FindTypeOK'
      BY <1>3, <2>0 DEF Creates, NoRow, Known, FindTypeOK, PassTypeOK, RowTypeOK, OtherShape, StoreShape, Rows
    <2>5. NothingHeld'
      BY <1>3, <2>0 DEF Creates, Known, NothingHeld, OtherShape, AnswerShape, Answers, WorkShape, Works, Stages
    <2> QED
      BY <2>1a, <2>1b, <2>1c, <2>1d, <2>2, <2>3, <2>4, <2>5
  <1>4. ASSUME NEW w \in Worker, Reads(w)
        PROVE  TypeInv'
    <2>1a. StoreShape'
      BY <1>4 DEF Reads, Proposes, NoWork, Known, StoreShape, Rows, AnswerShape, Answers, WorkShape, Works
    <2>1b. AnswerShape'
      BY <1>4 DEF Reads, Proposes, NoWork, Known, AnswerShape, Answers, StoreShape
    <2>1c. WorkShape'
      <3>1. PICK C \in SUBSET answer[w].shown, e \in answer[w].known :
               work' = [work EXCEPT ![w] = [NoWork EXCEPT !.into = e, !.claims = C, !.rev = table[e].rev + 1]]
        BY <1>4 DEF Reads
      <3>2. e \in Event /\ C \in SUBSET Claim
        BY DEF AnswerShape, Answers
      <3>3. [NoWork EXCEPT !.into = e, !.claims = C, !.rev = table[e].rev + 1] \in Works
        <4>1. NoWork \in Works
          BY DEF NoWork, Works
        <4>2. table[e].rev + 1 \in Nat
          BY <3>2 DEF StoreShape, Rows
        <4> QED
          BY <3>2, <4>1, <4>2 DEF Works
      <3> QED
        BY <3>1, <3>3 DEF WorkShape
    <2>1d. OtherShape'
      BY <1>4 DEF Reads, Proposes, NoWork, Known, OtherShape, StoreShape, Rows, WorkShape, Works, Stages
    <2>2. RowTypeOK'
      BY <1>4 DEF Reads, Proposes, NoWork, Known, RowTypeOK, PassTypeOK, StoreShape, Rows
    <2>3. PassTypeOK'
      BY <1>4 DEF Reads, Proposes, NoWork, Known, PassTypeOK, RowTypeOK, NothingHeld, StoreShape, Rows, AnswerShape, Answers, WorkShape, Works, OtherShape, Stages
    <2>4. FindTypeOK'
      BY <1>4 DEF Reads, Proposes, NoWork, Known, FindTypeOK, PassTypeOK, RowTypeOK, OtherShape, StoreShape, Rows
    <2>5. NothingHeld'
      BY <1>4 DEF Reads, Proposes, NoWork, Known, NothingHeld, OtherShape, AnswerShape, Answers, WorkShape, Works, Stages
    <2> QED
      BY <2>1a, <2>1b, <2>1c, <2>1d, <2>2, <2>3, <2>4, <2>5
  <1>5. ASSUME NEW w \in Worker, Extends(w)
        PROVE  TypeInv'
    <2>0. PICK n \in Nat, m \in BOOLEAN :
             /\ work[w].into \in Known /\ table[work[w].into].rev + 1 = work[w].rev
             /\ table' = [table EXCEPT ![work[w].into] =
                    [rev |-> work[w].rev, sources |-> n, major |-> m, marked |-> FALSE]]
             /\ work' = [work EXCEPT ![w].sources = n, ![w].major = m]
      BY <1>5, ExtendFacts
    <2>1a. StoreShape'
      BY <1>5, <2>0 DEF Extends, Known, StoreShape, Rows, AnswerShape, Answers, WorkShape, Works
    <2>1b. AnswerShape'
      BY <1>5, <2>0 DEF Extends, Known, AnswerShape, Answers, StoreShape
    <2>1c. WorkShape'
      <3>1. [work[w] EXCEPT !.sources = n, !.major = m] \in Works
        BY DEF WorkShape, Works
      <3>2. work' = [work EXCEPT ![w] = [work[w] EXCEPT !.sources = n, !.major = m]]
        BY <2>0 DEF WorkShape
      <3> QED
        BY <3>1, <3>2 DEF WorkShape
    <2>1d. OtherShape'
      BY <1>5, <2>0 DEF Extends, Known, OtherShape, StoreShape, Rows, WorkShape, Works, Stages
    <2>2. RowTypeOK'
      <3>1. arrived' = arrived
        BY <1>5 DEF Extends
      <3>2. (cluster[work[w].into] \cup work[w].claims) \subseteq arrived
        BY <2>0 DEF PassTypeOK, RowTypeOK, Known
      <3> SUFFICES ASSUME NEW d \in Event PROVE RowTypeOK!(d)'
        BY DEF RowTypeOK
      <3>3. CASE d = work[w].into
        <4>1. table'[d] = [rev |-> work[w].rev, sources |-> n, major |-> m, marked |-> FALSE] /\ cluster'[d] = (cluster[work[w].into] \cup work[w].claims)
          BY <1>5, <2>0, <3>3 DEF Extends, StoreShape
        <4>2. table'[d].rev # 0
          BY <2>0, <4>1 DEF StoreShape, Rows, Known
        <4> QED
          BY <2>1a, <3>1, <3>2, <4>1, <4>2 DEF StoreShape, Rows
      <3>4. CASE d # work[w].into
        <4>1. table'[d] = table[d] /\ cluster'[d] = cluster[d]
          BY <1>5, <2>0, <3>4 DEF Extends, StoreShape
        <4> QED
          BY <3>1, <4>1 DEF RowTypeOK
      <3> QED
        BY <3>3, <3>4
    <2>3. PassTypeOK'
      BY <1>5, <2>0 DEF Extends, NoRow, Known, PassTypeOK, RowTypeOK, NothingHeld, StoreShape, Rows, AnswerShape, Answers, WorkShape, Works, OtherShape, Stages
    <2>4. FindTypeOK'
      BY <1>5, <2>0 DEF Extends, NoRow, Known, FindTypeOK, PassTypeOK, RowTypeOK, OtherShape, StoreShape, Rows
    <2>5. NothingHeld'
      BY <1>5, <2>0 DEF Extends, Known, NothingHeld, OtherShape, AnswerShape, Answers, WorkShape, Works, Stages
    <2> QED
      BY <2>1a, <2>1b, <2>1c, <2>1d, <2>2, <2>3, <2>4, <2>5
  <1>6. ASSUME NEW w \in Worker, Marks(w)
        PROVE  TypeInv'
    <2>0. work[w].into \in Known
      BY <1>6 DEF Marks, PassTypeOK
    <2>1a. StoreShape'
      <3>1. /\ table' = [table EXCEPT ![work[w].into] = [table[work[w].into] EXCEPT !.marked = TRUE]]
            /\ arrived' = arrived /\ cluster' = cluster
        BY <1>6 DEF Marks, StoreShape
      <3>2. [table[work[w].into] EXCEPT !.marked = TRUE] \in Rows
        BY <2>0 DEF StoreShape, Rows, Known
      <3> QED
        BY <3>1, <3>2 DEF StoreShape
    <2>1b. AnswerShape'
      BY <1>6, <2>0 DEF Marks, NoWork, Known, AnswerShape, Answers, StoreShape
    <2>1c. WorkShape'
      BY <1>6, <2>0 DEF Marks, NoWork, Known, WorkShape, Works, AnswerShape, Answers, StoreShape, Rows
    <2>1d. OtherShape'
      BY <1>6, <2>0 DEF Marks, NoWork, Known, OtherShape, StoreShape, Rows, WorkShape, Works, Stages
    <2>2. RowTypeOK'
      <3>1. arrived' = arrived
        BY <1>6 DEF Marks
      <3>2. cluster[work[w].into] \subseteq arrived
        BY <2>0 DEF RowTypeOK, Known
      <3> SUFFICES ASSUME NEW d \in Event PROVE RowTypeOK!(d)'
        BY DEF RowTypeOK
      <3>3. CASE d = work[w].into
        <4>1. table'[d] = [table[work[w].into] EXCEPT !.marked = TRUE] /\ cluster'[d] = cluster[work[w].into]
          BY <1>6, <2>0, <3>3 DEF Marks, StoreShape
        <4> QED
          BY <2>0, <3>1, <3>2, <4>1 DEF StoreShape, Rows, Known, RowTypeOK
      <3>4. CASE d # work[w].into
        <4>1. table'[d] = table[d] /\ cluster'[d] = cluster[d]
          BY <1>6, <2>0, <3>4 DEF Marks, StoreShape
        <4> QED
          BY <3>1, <4>1 DEF RowTypeOK
      <3> QED
        BY <3>3, <3>4
    <2>3. PassTypeOK'
      BY <1>6, <2>0 DEF Marks, NoWork, NoRow, Known, PassTypeOK, RowTypeOK, NothingHeld, StoreShape, Rows, AnswerShape, Answers, WorkShape, Works, OtherShape, Stages
    <2>4. FindTypeOK'
      BY <1>6, <2>0 DEF Marks, NoWork, NoRow, Known, FindTypeOK, PassTypeOK, RowTypeOK, OtherShape, StoreShape, Rows
    <2>5. NothingHeld'
      BY <1>6, <2>0 DEF Marks, NoWork, Known, NothingHeld, OtherShape, AnswerShape, Answers, WorkShape, Works, Stages
    <2> QED
      BY <2>1a, <2>1b, <2>1c, <2>1d, <2>2, <2>3, <2>4, <2>5
  <1>7. ASSUME NEW w \in Worker, Holds(w) \/ Finishes(w) \/ Stops(w)
        PROVE  TypeInv'
    <2>1a. StoreShape'
      BY <1>7 DEF Holds, Finishes, Stops, NoWork, NoAnswer, Known, StoreShape, Rows, AnswerShape, Answers, WorkShape, Works
    <2>1b. AnswerShape'
      BY <1>7 DEF Holds, Finishes, Stops, NoWork, NoAnswer, Known, AnswerShape, Answers, StoreShape
    <2>1c. WorkShape'
      <3>1. CASE Holds(w)
        BY <3>1 DEF Holds, NoWork, NoAnswer, Known, WorkShape, Works, AnswerShape, Answers, StoreShape, Rows
      <3>2. CASE Finishes(w)
        BY <3>2 DEF Finishes, NoWork, NoAnswer, Known, WorkShape, Works, AnswerShape, Answers, StoreShape, Rows
      <3>3. CASE Stops(w)
        BY <3>3 DEF Stops, NoWork, NoAnswer, Known, WorkShape, Works, AnswerShape, Answers, StoreShape, Rows
      <3> QED
        BY <1>7, <3>1, <3>2, <3>3
    <2>1d. OtherShape'
      <3>1. CASE Holds(w)
        BY <3>1 DEF Holds, NoWork, NoAnswer, Known, OtherShape, StoreShape, Rows, WorkShape, Works, Stages
      <3>2. CASE Finishes(w)
        BY <3>2 DEF Finishes, NoWork, NoAnswer, Known, OtherShape, StoreShape, Rows, WorkShape, Works, Stages
      <3>3. CASE Stops(w)
        BY <3>3 DEF Stops, NoWork, NoAnswer, Known, OtherShape, StoreShape, Rows, WorkShape, Works, Stages
      <3> QED
        BY <1>7, <3>1, <3>2, <3>3
    <2>2. RowTypeOK'
      BY <1>7 DEF Holds, Finishes, Stops, NoWork, NoAnswer, Known, RowTypeOK, PassTypeOK, StoreShape, Rows
    <2>3. PassTypeOK'
      <3>1. CASE Holds(w)
        BY <3>1 DEF Holds, NoWork, Known, PassTypeOK, RowTypeOK, NothingHeld, StoreShape, Rows, AnswerShape, Answers, WorkShape, Works, OtherShape, Stages
      <3>2. CASE Finishes(w)
        <4>1. /\ UNCHANGED <<arrived, table, work>> /\ Known' = Known
              /\ answer'[w] = NoAnswer /\ stage'[w] = "idle" /\ releases'[w] = {} /\ stage[w] = "asked"
              /\ \A v \in Worker \ {w} :
                    answer'[v] = answer[v] /\ stage'[v] = stage[v] /\ releases'[v] = releases[v]
          BY <3>2 DEF Finishes, Known, AnswerShape, OtherShape
        <4>2. work[w] = NoWork
          BY <4>1 DEF NothingHeld
        <4> SUFFICES ASSUME NEW v \in Worker PROVE PassTypeOK!(v)'
          BY DEF PassTypeOK
        <4>3. CASE v = w
          BY <4>1, <4>2, <4>3 DEF NoWork, NoAnswer, Stages
        <4>4. CASE v # w
          BY <4>1, <4>4 DEF PassTypeOK
        <4> QED
          BY <4>3, <4>4
      <3>3. CASE Stops(w)
        BY <3>3 DEF Stops, NoWork, NoAnswer, Known, PassTypeOK, RowTypeOK, NothingHeld, StoreShape, Rows, AnswerShape, Answers, WorkShape, Works, OtherShape, Stages
      <3> QED
        BY <1>7, <3>1, <3>2, <3>3
    <2>4. FindTypeOK'
      BY <1>7 DEF Holds, Finishes, Stops, NoWork, NoAnswer, Known, FindTypeOK, PassTypeOK, RowTypeOK, OtherShape, StoreShape, Rows
    <2>5. NothingHeld'
      BY <1>7 DEF Holds, Finishes, Stops, NoWork, NoAnswer, Known, NothingHeld, OtherShape, AnswerShape, Answers, WorkShape, Works, Stages
    <2> QED
      BY <2>1a, <2>1b, <2>1c, <2>1d, <2>2, <2>3, <2>4, <2>5
  <1>8. ASSUME NEW e \in Event, Dispatches(e) \/ Sweeps(e) \/ Loads(e)
        PROVE  TypeInv'
    <2>1a. StoreShape'
      BY <1>8 DEF Dispatches, Sweeps, Loads, Pending, Known, StoreShape, Rows, AnswerShape, Answers, WorkShape, Works
    <2>1b. AnswerShape'
      BY <1>8 DEF Dispatches, Sweeps, Loads, Pending, Known, AnswerShape, Answers, StoreShape
    <2>1c. WorkShape'
      BY <1>8 DEF Dispatches, Sweeps, Loads, Pending, Known, WorkShape, Works, AnswerShape, Answers, StoreShape, Rows
    <2>1d. OtherShape'
      BY <1>8 DEF Dispatches, Sweeps, Loads, Pending, Known, OtherShape, StoreShape, Rows, WorkShape, Works, Stages
    <2>2. RowTypeOK'
      BY <1>8 DEF Dispatches, Sweeps, Loads, Pending, NoRow, Known, RowTypeOK, PassTypeOK, StoreShape, Rows
    <2>3. PassTypeOK'
      BY <1>8 DEF Dispatches, Sweeps, Loads, Pending, NoRow, Known, PassTypeOK, RowTypeOK, NothingHeld, StoreShape, Rows, AnswerShape, Answers, WorkShape, Works, OtherShape, Stages
    <2>4. FindTypeOK'
      BY <1>8 DEF Dispatches, Sweeps, Loads, Pending, NoRow, Known, FindTypeOK, PassTypeOK, RowTypeOK, OtherShape, StoreShape, Rows
    <2>5. NothingHeld'
      BY <1>8 DEF Dispatches, Sweeps, Loads, Pending, Known, NothingHeld, OtherShape, AnswerShape, Answers, WorkShape, Works, Stages
    <2> QED
      BY <2>1a, <2>1b, <2>1c, <2>1d, <2>2, <2>3, <2>4, <2>5
  <1>9. ASSUME NEW e \in Event, Records(e) \/ Declines(e) \/ Completes(e) \/ Retries(e)
        PROVE  TypeInv'
    <2>1a. StoreShape'
      BY <1>9 DEF Records, Declines, Completes, Retries, Known, StoreShape, Rows, AnswerShape, Answers, WorkShape, Works
    <2>1b. AnswerShape'
      BY <1>9 DEF Records, Declines, Completes, Retries, Known, AnswerShape, Answers, StoreShape
    <2>1c. WorkShape'
      <3>1. CASE Records(e)
        BY <3>1 DEF Records, Known, WorkShape, Works, AnswerShape, Answers, StoreShape, Rows
      <3>2. CASE Declines(e)
        BY <3>2 DEF Declines, Known, WorkShape, Works, AnswerShape, Answers, StoreShape, Rows
      <3>3. CASE Completes(e)
        BY <3>3 DEF Completes, Known, WorkShape, Works, AnswerShape, Answers, StoreShape, Rows
      <3>4. CASE Retries(e)
        BY <3>4 DEF Retries, Known, WorkShape, Works, AnswerShape, Answers, StoreShape, Rows
      <3> QED
        BY <1>9, <3>1, <3>2, <3>3, <3>4
    <2>1d. OtherShape'
      <3>1. CASE Records(e)
        BY <3>1 DEF Records, Known, OtherShape, StoreShape, Rows, WorkShape, Works, Stages
      <3>2. CASE Declines(e)
        BY <3>2 DEF Declines, Known, OtherShape, StoreShape, Rows, WorkShape, Works, Stages
      <3>3. CASE Completes(e)
        BY <3>3 DEF Completes, Known, OtherShape, StoreShape, Rows, WorkShape, Works, Stages
      <3>4. CASE Retries(e)
        BY <3>4 DEF Retries, Known, OtherShape, StoreShape, Rows, WorkShape, Works, Stages
      <3> QED
        BY <1>9, <3>1, <3>2, <3>3, <3>4
    <2>2. RowTypeOK'
      BY <1>9 DEF Records, Declines, Completes, Retries, Known, RowTypeOK, PassTypeOK, StoreShape, Rows
    <2>3. PassTypeOK'
      BY <1>9 DEF Records, Declines, Completes, Retries, Known, PassTypeOK, RowTypeOK, NothingHeld, StoreShape, Rows, AnswerShape, Answers, WorkShape, Works, OtherShape, Stages
    <2>4. FindTypeOK'
      BY <1>9 DEF Records, Declines, Completes, Retries, Known, FindTypeOK, PassTypeOK, RowTypeOK, OtherShape, StoreShape, Rows
    <2>5. NothingHeld'
      BY <1>9 DEF Records, Declines, Completes, Retries, Known, NothingHeld, OtherShape, AnswerShape, Answers, WorkShape, Works, Stages
    <2> QED
      BY <2>1a, <2>1b, <2>1c, <2>1d, <2>2, <2>3, <2>4, <2>5
  <1> QED
    BY <1>1, <1>2, <1>3, <1>4, <1>5, <1>6, <1>7, <1>8, <1>9 DEF EventNext

-----------------------------------------------------------------------------
(* Counts.                                                                 *)

\* What neither passes nor the queue of discoveries touch stays.
LEMMA CountIdle ==
    ASSUME CountInv, UNCHANGED <<cluster, table, stage, answer, work, overlaps, sloppy>>
    PROVE  CountInv'
  BY DEF CountInv, OnePass, RestIsUnclustered, ClusteredOnce, CountMatchesEvidence, Known

\* Only the pass of w goes on: as long as none overlaps, the others are idle.
LEMMA OthersIdle ==
    ASSUME TypeInv, OnePass, overlaps = 0, NEW w \in Worker, NEW v \in Worker, stage[w] # "idle", v # w
    PROVE  stage[v] = "idle"
  BY DEF OnePass

LEMMA CountStep == TypeInv /\ CountInv /\ EventNext => CountInv'
  <1> SUFFICES ASSUME TypeInv, CountInv, EventNext PROVE CountInv'
    OBVIOUS
  <1> USE DEF TypeInv, Shapes, countVars, passVars, storeVars, findVars
  <1>1. ASSUME NEW c \in Claim, Arrives(c) PROVE CountInv'
    BY <1>1, CountIdle DEF Arrives
  <1>2. ASSUME NEW w \in Worker, Starts(w) PROVE CountInv'
    <2> USE DEF StoreShape, AnswerShape, OtherShape
    <2>1. UNCHANGED <<cluster, table, work, sloppy>>
      BY <1>2 DEF Starts
    <2>2. overlaps' = 0 => overlaps = 0 /\ \A v \in Worker : stage'[v] # "idle" <=> v = w
      BY <1>2 DEF Starts
    <2>3. stage'[w] = "asked" /\ answer'[w].rest = Unclustered
      BY <1>2 DEF Starts
    <2>4. OnePass'
      BY <2>2 DEF OnePass
    <2>5. RestIsUnclustered'
      BY <2>1, <2>2, <2>3 DEF RestIsUnclustered, Unclustered
    <2>6. ClusteredOnce' /\ CountMatchesEvidence'
      BY <2>1, <2>2 DEF CountInv, ClusteredOnce, CountMatchesEvidence, Known
    <2> QED
      BY <2>4, <2>5, <2>6 DEF CountInv
  <1>3. ASSUME NEW w \in Worker, Creates(w) PROVE CountInv'
    <2>1. PICK C \in SUBSET Claim, e \in Event, m \in BOOLEAN, n \in Nat :
             /\ C \subseteq answer[w].shown /\ e \notin Known /\ n \in Counts(DocsOf(C))
             /\ sloppy' \in {sloppy, sloppy + 1}
             /\ sloppy' = sloppy => C \subseteq answer[w].rest
             /\ answer' = [answer EXCEPT ![w].rest = @ \ C]
             /\ table' = [table EXCEPT ![e] = [rev |-> 1, sources |-> n, major |-> m, marked |-> FALSE]]
             /\ work' = [work EXCEPT ![w] = [into |-> e, claims |-> C, rev |-> 1, sources |-> n, major |-> m]]
             /\ cluster' = [cluster EXCEPT ![e] = C]
      BY <1>3, CreateFacts
    <2>2. stage[w] = "asked" /\ stage' = [stage EXCEPT ![w] = "stored"] /\ overlaps' = overlaps
      BY <1>3 DEF Creates
    <2>3. OnePass'
      BY <2>2 DEF CountInv, OnePass, OtherShape
    <2>4. overlaps' = 0 /\ sloppy' = 0 =>
             /\ sloppy = 0 /\ C \subseteq answer[w].rest
             /\ \A d \in Event : C \cap cluster[d] = {}
      BY <2>1, <2>2 DEF CountInv, RestIsUnclustered, OtherShape
    <2>5. answer'[w].rest = answer[w].rest \ C
      BY <2>1 DEF AnswerShape, Answers
    <2>6. RestIsUnclustered'
      <3> SUFFICES ASSUME overlaps' = 0, sloppy' = 0, NEW v \in Worker, NEW d \in Event, stage'[v] # "idle"
                   PROVE  /\ answer'[v].rest \cap cluster'[d] = {}
                          /\ stage'[v] # "extending"
        BY DEF RestIsUnclustered
      <3>1. v = w
        BY <2>2, OthersIdle DEF CountInv, OtherShape
      <3>2. cluster'[d] \in {cluster[d], C}
        BY <2>1 DEF StoreShape
      <3>3. answer[w].rest \cap cluster[d] = {}
        BY <2>2, <2>4 DEF CountInv, RestIsUnclustered
      <3> QED
        BY <2>2, <2>5, <3>1, <3>2, <3>3 DEF OtherShape
    <2>7. ClusteredOnce'
      BY <2>1, <2>2, <2>4 DEF CountInv, ClusteredOnce, StoreShape
    <2>8. CountMatchesEvidence'
      <3> SUFFICES ASSUME NEW d \in Known' PROVE table'[d].sources \in Counts(DocsOf(cluster'[d]))
        BY DEF CountMatchesEvidence, DocsOf, Counts
      <3>1. CASE d = e
        BY <2>1, <3>1 DEF StoreShape, Known
      <3>2. CASE d # e
        <4>1. table'[d] = table[d] /\ cluster'[d] = cluster[d] /\ d \in Known
          BY <2>1, <3>2 DEF StoreShape, Known
        <4> QED
          BY <4>1 DEF CountInv, CountMatchesEvidence
      <3> QED
        BY <3>1, <3>2
    <2> QED
      BY <2>3, <2>6, <2>7, <2>8 DEF CountInv
  <1>4. ASSUME NEW w \in Worker, Reads(w) PROVE CountInv'
    <2>1. PICK C \in SUBSET answer[w].shown, e \in answer[w].known :
             /\ Proposes(w, C)
             /\ work' = [work EXCEPT ![w] = [NoWork EXCEPT !.into = e, !.claims = C, !.rev = table[e].rev + 1]]
      BY <1>4 DEF Reads
    <2>2. stage[w] = "asked" /\ stage' = [stage EXCEPT ![w] = "extending"] /\ UNCHANGED <<cluster, table, overlaps>>
      BY <1>4 DEF Reads
    <2>3. answer'[w].rest = answer[w].rest \ C /\ work'[w].claims = C
      BY <2>1 DEF Proposes, AnswerShape, Answers, WorkShape, NoWork
    <2>4. OnePass'
      BY <2>2 DEF CountInv, OnePass, OtherShape
    <2>5. overlaps' = 0 /\ sloppy' = 0 => sloppy = 0 /\ C \subseteq answer[w].rest
      BY <2>1 DEF Proposes, OtherShape
    <2>6. RestIsUnclustered'
      <3> SUFFICES ASSUME overlaps' = 0, sloppy' = 0, NEW v \in Worker, NEW d \in Event, stage'[v] # "idle"
                   PROVE  /\ answer'[v].rest \cap cluster'[d] = {}
                          /\ work'[v].claims \cap cluster'[d] = {} /\ work'[v].claims \cap answer'[v].rest = {}
        BY DEF RestIsUnclustered
      <3>1. v = w
        BY <2>2, OthersIdle DEF CountInv, OtherShape
      <3>2. answer[w].rest \cap cluster[d] = {}
        BY <2>2, <2>5 DEF CountInv, RestIsUnclustered
      <3> QED
        BY <2>2, <2>3, <2>5, <3>1, <3>2
    <2>7. ClusteredOnce' /\ CountMatchesEvidence'
      BY <2>2, <2>5 DEF CountInv, ClusteredOnce, CountMatchesEvidence, Known
    <2> QED
      BY <2>4, <2>6, <2>7 DEF CountInv
  <1>5. ASSUME NEW w \in Worker, Extends(w) PROVE CountInv'
    <2> DEFINE e == work[w].into
    <2>1. PICK n \in Nat, m \in BOOLEAN :
             /\ e \in Known /\ n \in Counts(DocsOf(Evidence(w)))
             /\ table' = [table EXCEPT ![e] = [rev |-> work[w].rev, sources |-> n, major |-> m, marked |-> FALSE]]
             /\ work' = [work EXCEPT ![w].sources = n, ![w].major = m]
      BY <1>5, ExtendFacts
    <2>2. /\ stage[w] = "extending" /\ stage' = [stage EXCEPT ![w] = "stored"]
          /\ cluster' = [cluster EXCEPT ![e] = @ \cup work[w].claims]
          /\ UNCHANGED <<answer, overlaps, sloppy>>
      BY <1>5 DEF Extends
    <2>3. \A d \in Event : cluster'[d] = IF d = e THEN Evidence(w) ELSE cluster[d]
      BY <2>2 DEF StoreShape, Evidence
    <2>4. OnePass'
      BY <2>2 DEF CountInv, OnePass, OtherShape
    <2>5. overlaps' = 0 /\ sloppy' = 0 => \A d \in Event :
             /\ work[w].claims \cap cluster[d] = {} /\ work[w].claims \cap answer[w].rest = {}
             /\ answer[w].rest \cap cluster[d] = {}
      BY <2>2 DEF CountInv, RestIsUnclustered
    <2>6. RestIsUnclustered'
      <3> SUFFICES ASSUME overlaps' = 0, sloppy' = 0, NEW v \in Worker, NEW d \in Event, stage'[v] # "idle"
                   PROVE  answer'[v].rest \cap cluster'[d] = {} /\ stage'[v] # "extending"
        BY DEF RestIsUnclustered
      <3>1. v = w
        BY <2>2, OthersIdle DEF CountInv, OtherShape
      <3>2. answer[w].rest \cap cluster'[d] = {}
        BY <2>3, <2>5 DEF Evidence
      <3> QED
        BY <2>2, <3>1, <3>2 DEF OtherShape
    <2>7. ClusteredOnce'
      <3> SUFFICES ASSUME overlaps' = 0, sloppy' = 0, NEW d \in Event, NEW f \in Event, d # f
                   PROVE  cluster'[d] \cap cluster'[f] = {}
        BY DEF ClusteredOnce
      <3>1. cluster[d] \cap cluster[f] = {}
        BY <2>2 DEF CountInv, ClusteredOnce
      <3> QED
        BY <2>3, <2>5, <3>1 DEF Evidence
    <2>8. CountMatchesEvidence'
      <3> SUFFICES ASSUME NEW d \in Known' PROVE table'[d].sources \in Counts(DocsOf(cluster'[d]))
        BY DEF CountMatchesEvidence, DocsOf, Counts
      <3>1. CASE d = e
        BY <2>1, <2>3, <3>1 DEF StoreShape, Known
      <3>2. CASE d # e
        <4>1. table'[d] = table[d] /\ cluster'[d] = cluster[d] /\ d \in Known
          BY <2>1, <2>3, <3>2 DEF StoreShape, Known
        <4> QED
          BY <4>1 DEF CountInv, CountMatchesEvidence
      <3> QED
        BY <3>1, <3>2
    <2> QED
      BY <2>4, <2>6, <2>7, <2>8 DEF CountInv
  <1>6. ASSUME NEW w \in Worker, Marks(w) \/ Holds(w) \/ Finishes(w) \/ Stops(w) PROVE CountInv'
    <2>1. /\ stage[w] # "idle" /\ UNCHANGED <<cluster, overlaps, sloppy>>
          /\ \E s \in {"asked", "idle"} : stage' = [stage EXCEPT ![w] = s]
          /\ (answer' = answer \/ stage' = [stage EXCEPT ![w] = "idle"])
      BY <1>6 DEF Marks, Holds, Finishes, Stops
    <2>2. \A d \in Event : table'[d].sources = table[d].sources /\ table'[d].rev = table[d].rev
      BY <1>6 DEF Marks, Holds, Finishes, Stops, StoreShape, Rows
    <2>3. OnePass'
      BY <2>1 DEF CountInv, OnePass, OtherShape
    <2>4. RestIsUnclustered'
      <3> SUFFICES ASSUME overlaps' = 0, sloppy' = 0, NEW v \in Worker, NEW d \in Event, stage'[v] # "idle"
                   PROVE  answer'[v].rest \cap cluster'[d] = {} /\ stage'[v] # "extending"
        BY DEF RestIsUnclustered
      <3>1. v = w
        BY <2>1, OthersIdle DEF CountInv, OtherShape
      <3>2. answer' = answer /\ stage'[v] = "asked"
        BY <2>1, <3>1 DEF OtherShape
      <3> QED
        BY <2>1, <3>1, <3>2 DEF CountInv, RestIsUnclustered
    <2>5. ClusteredOnce'
      BY <2>1 DEF CountInv, ClusteredOnce
    <2>6. CountMatchesEvidence'
      BY <2>1, <2>2 DEF CountInv, CountMatchesEvidence, Known, DocsOf, Counts
    <2> QED
      BY <2>3, <2>4, <2>5, <2>6 DEF CountInv
  <1>7. ASSUME NEW e \in Event, Dispatches(e) \/ Sweeps(e) \/ Loads(e) \/ Records(e) \/ Declines(e)
                                \/ Completes(e) \/ Retries(e)
        PROVE  CountInv'
    BY <1>7, CountIdle DEF Dispatches, Sweeps, Loads, Records, Declines, Completes, Retries
  <1> QED
    BY <1>1, <1>2, <1>3, <1>4, <1>5, <1>6, <1>7 DEF EventNext

-----------------------------------------------------------------------------
(* The gate.                                                               *)

\* A way to discovery is told from the tables and the ways it may take.
LEMMA GateIdle ==
    ASSUME GateInv, UNCHANGED <<table, stage, work, releases, outbox, item, seenRev, released, overlaps>>
    PROVE  GateInv'
  BY DEF GateInv, StoredIsCurrent, MarkedPassedGate, WaysBeginReleased, ClearsGate

LEMMA GateStep == TypeInv /\ CountInv /\ GateInv /\ LossInv /\ EventNext => GateInv'
  <1> SUFFICES ASSUME TypeInv, CountInv, GateInv, LossInv, EventNext PROVE GateInv'
    OBVIOUS
  <1> USE DEF TypeInv, Shapes, EventTypeOK, CountInv, countVars, passVars, storeVars, findVars
  <1>1. ASSUME NEW c \in Claim, Arrives(c) PROVE GateInv'
    BY <1>1, GateIdle DEF Arrives
  <1>2. ASSUME NEW w \in Worker, Starts(w) \/ Reads(w) \/ Holds(w) PROVE GateInv'
    <2>1. /\ UNCHANGED <<table, releases, outbox, item, seenRev, released>>
          /\ \E s \in {"asked", "extending"} : stage' = [stage EXCEPT ![w] = s]
          /\ \A v \in Worker : v # w => work'[v] = work[v]
      BY <1>2 DEF Starts, Reads, Holds, WorkShape, OtherShape
    <2>2. overlaps' = 0 => overlaps = 0
      <3>1. CASE Starts(w)
        BY <3>1 DEF Starts, OtherShape
      <3>2. CASE Reads(w) \/ Holds(w)
        BY <3>2 DEF Reads, Holds
      <3> QED
        BY <1>2, <3>1, <3>2
    <2>3. StoredIsCurrent'
      BY <2>1, <2>2 DEF GateInv, StoredIsCurrent, OtherShape
    <2> QED
      BY <2>1, <2>2, <2>3 DEF GateInv, MarkedPassedGate, WaysBeginReleased, ClearsGate
  <1>3. ASSUME NEW w \in Worker, NEW e \in Event, NEW n \in Nat, NEW m \in BOOLEAN, NEW r \in Nat,
               table' = [table EXCEPT ![e] = [rev |-> r, sources |-> n, major |-> m, marked |-> FALSE]],
               work'[w].into = e, work'[w].sources = n, work'[w].major = m,
               stage[w] # "idle", stage' = [stage EXCEPT ![w] = "stored"],
               UNCHANGED <<releases, outbox, item, seenRev, released, overlaps>>
        PROVE  GateInv'
    <2>1. \A d \in Event : table'[d] = IF d = e THEN [rev |-> r, sources |-> n, major |-> m, marked |-> FALSE]
                                       ELSE table[d]
      BY <1>3 DEF StoreShape
    <2>2. StoredIsCurrent'
      <3> SUFFICES ASSUME overlaps' = 0, NEW v \in Worker, stage'[v] = "stored"
                   PROVE  /\ table'[work'[v].into].sources = work'[v].sources
                          /\ table'[work'[v].into].major = work'[v].major
        BY DEF StoredIsCurrent
      <3>1. v = w
        BY <1>3, OthersIdle DEF OtherShape
      <3> QED
        BY <1>3, <2>1, <3>1
    <2>3. MarkedPassedGate'
      BY <1>3, <2>1 DEF GateInv, MarkedPassedGate, ClearsGate
    <2>4. WaysBeginReleased'
      BY <1>3, <2>1 DEF GateInv, WaysBeginReleased
    <2> QED
      BY <2>2, <2>3, <2>4 DEF GateInv
  <1>4. ASSUME NEW w \in Worker, Creates(w) PROVE GateInv'
    <2>1. PICK C \in SUBSET Claim, e \in Event, m \in BOOLEAN, n \in Nat :
             /\ C \subseteq answer[w].shown /\ e \notin Known /\ n \in Counts(DocsOf(C))
             /\ sloppy' \in {sloppy, sloppy + 1}
             /\ sloppy' = sloppy => C \subseteq answer[w].rest
             /\ answer' = [answer EXCEPT ![w].rest = @ \ C]
             /\ table' = [table EXCEPT ![e] = [rev |-> 1, sources |-> n, major |-> m, marked |-> FALSE]]
             /\ work' = [work EXCEPT ![w] = [into |-> e, claims |-> C, rev |-> 1, sources |-> n, major |-> m]]
             /\ cluster' = [cluster EXCEPT ![e] = C]
      BY <1>4, CreateFacts
    <2>2. work'[w].into = e /\ work'[w].sources = n /\ work'[w].major = m
      BY <2>1 DEF WorkShape
    <2>3. /\ stage[w] # "idle" /\ stage' = [stage EXCEPT ![w] = "stored"]
          /\ UNCHANGED <<releases, outbox, item, seenRev, released, overlaps>>
      BY <1>4 DEF Creates
    <2> QED
      BY <1>3, <2>1, <2>2, <2>3
  <1>5. ASSUME NEW w \in Worker, Extends(w) PROVE GateInv'
    <2> DEFINE e == work[w].into
    <2>1. PICK n \in Nat, m \in BOOLEAN :
             /\ e \in Known /\ table[e].rev + 1 = work[w].rev
             /\ table' = [table EXCEPT ![e] = [rev |-> work[w].rev, sources |-> n, major |-> m, marked |-> FALSE]]
             /\ work' = [work EXCEPT ![w].sources = n, ![w].major = m]
      BY <1>5, ExtendFacts
    <2>2. work'[w].into = e /\ work'[w].sources = n /\ work'[w].major = m
      BY <2>1 DEF WorkShape, Works
    <2>3. /\ stage[w] # "idle" /\ stage' = [stage EXCEPT ![w] = "stored"]
          /\ UNCHANGED <<releases, outbox, item, seenRev, released, overlaps>>
      BY <1>5 DEF Extends
    <2>4. e \in Event /\ work[w].rev \in Nat
      BY <2>1 DEF Known, WorkShape, Works
    <2> QED
      BY <1>3, <2>1, <2>2, <2>3, <2>4
  <1>6. ASSUME NEW w \in Worker, Marks(w) PROVE GateInv'
    <2> DEFINE e == work[w].into
    <2>1. e \in Known /\ e \in Event
      BY <1>6 DEF Marks, PassTypeOK, Known
    <2>2. /\ stage[w] = "stored" /\ ClearsGate(work[w].sources, work[w].major)
          /\ table' = [table EXCEPT ![e].marked = TRUE]
          /\ released' = [released EXCEPT ![e] = table[e].rev]
          /\ releases' = [releases EXCEPT ![w] = @ \cup {e}]
          /\ work' = [work EXCEPT ![w] = NoWork] /\ stage' = [stage EXCEPT ![w] = "asked"]
          /\ UNCHANGED <<outbox, item, seenRev, overlaps>>
      BY <1>6 DEF Marks
    <2>3. \A d \in Event : /\ table'[d].sources = table[d].sources /\ table'[d].major = table[d].major
                           /\ d # e => table'[d] = table[d]
      BY <2>1, <2>2 DEF StoreShape, Rows
    <2>4. StoredIsCurrent'
      <3> SUFFICES ASSUME overlaps' = 0, NEW v \in Worker PROVE stage'[v] # "stored"
        BY DEF StoredIsCurrent
      <3>1. CASE v = w
        BY <2>2, <3>1 DEF OtherShape
      <3>2. CASE v # w
        BY <2>2, <3>2, OthersIdle DEF OtherShape
      <3> QED
        BY <3>1, <3>2
    <2>5. MarkedPassedGate'
      <3> SUFFICES ASSUME overlaps' = 0, NEW d \in Event, table'[d].marked
                   PROVE  ClearsGate(table[d].sources, table[d].major)
        BY <2>3 DEF MarkedPassedGate, ClearsGate
      <3>1. CASE d = e
        BY <2>2, <3>1 DEF GateInv, StoredIsCurrent
      <3>2. CASE d # e
        BY <2>2, <2>3, <3>2 DEF GateInv, MarkedPassedGate
      <3> QED
        BY <3>1, <3>2
    <2>6. WaysBeginReleased'
      <3> SUFFICES ASSUME NEW d \in Event,
                          \/ table'[d].marked \/ d \in outbox' \/ (\E v \in Worker : d \in releases'[v])
                          \/ item'[d] # "none" \/ seenRev'[d] > 0
                   PROVE  released'[d] > 0
        BY DEF WaysBeginReleased
      <3>1. CASE d = e
        BY <2>1, <2>2, <3>1 DEF OtherShape, Known
      <3>2. CASE d # e
        <4>1. /\ table'[d] = table[d] /\ released'[d] = released[d]
              /\ \A v \in Worker : d \in releases'[v] => d \in releases[v]
          BY <2>2, <2>3, <3>2 DEF OtherShape
        <4> QED
          BY <2>2, <4>1 DEF GateInv, WaysBeginReleased
      <3> QED
        BY <3>1, <3>2
    <2> QED
      BY <2>4, <2>5, <2>6 DEF GateInv
  <1>7. ASSUME NEW w \in Worker, Finishes(w) \/ Stops(w) PROVE GateInv'
    <2>1. /\ UNCHANGED <<table, item, seenRev, released, overlaps>>
          /\ outbox' \subseteq outbox \cup releases[w]
          /\ releases' = [releases EXCEPT ![w] = {}]
          /\ stage' = [stage EXCEPT ![w] = "idle"]
          /\ \A v \in Worker : v # w => work'[v] = work[v]
      BY <1>7 DEF Finishes, Stops, WorkShape
    <2>2. StoredIsCurrent'
      BY <2>1 DEF GateInv, StoredIsCurrent, OtherShape
    <2>3. WaysBeginReleased'
      BY <2>1 DEF GateInv, WaysBeginReleased, OtherShape
    <2> QED
      BY <2>1, <2>2, <2>3 DEF GateInv, MarkedPassedGate, ClearsGate
  <1>8. ASSUME NEW e \in Event, Dispatches(e) \/ Sweeps(e) \/ Loads(e) \/ Records(e) \/ Declines(e)
                                \/ Completes(e) \/ Retries(e)
        PROVE  GateInv'
    <2>1. UNCHANGED <<table, stage, work, releases, released, overlaps>>
      BY <1>8 DEF Dispatches, Sweeps, Loads, Records, Declines, Completes, Retries
    <2>2. released[e] > 0
      BY <1>8 DEF Dispatches, Sweeps, Loads, Records, Declines, Completes, Retries, Pending, GateInv,
                  WaysBeginReleased
    <2>3. \A d \in Event : d # e => item'[d] = item[d] /\ seenRev'[d] = seenRev[d] /\ (d \in outbox' => d \in outbox)
      BY <1>8 DEF Dispatches, Sweeps, Loads, Records, Declines, Completes, Retries, OtherShape
    <2>4. WaysBeginReleased'
      BY <2>1, <2>2, <2>3 DEF GateInv, WaysBeginReleased
    <2> QED
      BY <2>1, <2>4 DEF GateInv, StoredIsCurrent, MarkedPassedGate, ClearsGate
  <1> QED
    BY <1>1, <1>2, <1>4, <1>5, <1>6, <1>7, <1>8 DEF EventNext

-----------------------------------------------------------------------------
(* Losses.                                                                 *)

LEMMA LossStep == TypeInv /\ LossInv /\ EventNext => LossInv'
  <1> SUFFICES ASSUME TypeInv, LossInv, EventNext PROVE LossInv'
    OBVIOUS
  <1> USE DEF TypeInv, Shapes, EventTypeOK, LossInv, countVars, passVars, storeVars, findVars
  <1>1. CASE UNCHANGED <<releases, outbox, item, loaded, seenRev, released, missed>>
    BY <1>1 DEF LoadsAreNotOlder, CarriedWithoutFinder
  <1>2. ASSUME NEW w \in Worker, Marks(w) PROVE LossInv'
    <2>1. /\ UNCHANGED <<outbox, item, loaded, seenRev, missed>>
          /\ released' = [released EXCEPT ![work[w].into] = table[work[w].into].rev]
          /\ releases' = [releases EXCEPT ![w] = @ \cup {work[w].into}]
      BY <1>2 DEF Marks
    <2>2. \A d \in Event : IF d = work[w].into THEN d \in releases'[w] ELSE released'[d] = released[d]
      BY <2>1 DEF OtherShape
    <2>3. \A v \in Worker : releases[v] \subseteq releases'[v]
      BY <2>1 DEF OtherShape
    <2> QED
      BY <2>1, <2>2, <2>3 DEF LoadsAreNotOlder, CarriedWithoutFinder
  <1>3. ASSUME NEW w \in Worker, Finishes(w) \/ Stops(w) PROVE LossInv'
    <2>1. /\ UNCHANGED <<item, loaded, seenRev, released>>
          /\ outbox \subseteq outbox' /\ missed \subseteq missed'
          /\ releases[w] \subseteq outbox' \cup missed'
          /\ releases' = [releases EXCEPT ![w] = {}]
      BY <1>3 DEF Finishes, Stops
    <2>2. \A v \in Worker : v # w => releases'[v] = releases[v]
      BY <2>1 DEF OtherShape
    <2> QED
      BY <2>1, <2>2 DEF LoadsAreNotOlder, CarriedWithoutFinder
  <1>4. ASSUME NEW e \in Event, Dispatches(e) PROVE LossInv'
    <2>1. /\ UNCHANGED <<releases, loaded, seenRev, released>> /\ outbox' = outbox \ {e}
          /\ item' = [item EXCEPT ![e] = IF @ = "none" THEN "due" ELSE @]
          /\ missed' = IF item[e] \in {"read", "logged"} THEN missed \cup {e} ELSE missed
      BY <1>4 DEF Dispatches
    <2>2. \A d \in Event : d # e => item'[d] = item[d]
      BY <2>1 DEF OtherShape
    <2>3. item'[e] = "due" \/ (item'[e] = item[e] /\ e \in missed')
      <3>1. item'[e] = IF item[e] = "none" THEN "due" ELSE item[e]
        BY <2>1 DEF OtherShape
      <3>2. item[e] \in {"none", "due", "read", "logged"}
        BY DEF OtherShape
      <3>3. item[e] \in {"read", "logged"} => e \in missed'
        BY <2>1
      <3> QED
        BY <3>1, <3>2, <3>3
    <2> QED
      BY <2>1, <2>2, <2>3 DEF LoadsAreNotOlder, CarriedWithoutFinder
  <1>5. ASSUME NEW e \in Event, Loads(e) PROVE LossInv'
    <2>1. /\ UNCHANGED <<releases, outbox, seenRev, released>> /\ missed' = missed \ {e}
          /\ item' = [item EXCEPT ![e] = "read"] /\ loaded' = [loaded EXCEPT ![e] = table[e].rev]
      BY <1>5 DEF Loads
    <2>2. /\ \A d \in Event : d # e => item'[d] = item[d] /\ loaded'[d] = loaded[d]
          /\ item'[e] = "read" /\ seenRev[e] <= loaded'[e] /\ released[e] <= loaded'[e]
      BY <2>1 DEF OtherShape, FindTypeOK
    <2> QED
      BY <2>1, <2>2 DEF LoadsAreNotOlder, CarriedWithoutFinder, OtherShape
  <1>6. ASSUME NEW e \in Event, Records(e) PROVE LossInv'
    <2>1. /\ UNCHANGED <<releases, outbox, released, missed>> /\ item[e] = "read"
          /\ item' = [item EXCEPT ![e] = "logged"]
          /\ seenRev' = [seenRev EXCEPT ![e] = loaded[e]] /\ loaded' = [loaded EXCEPT ![e] = 0]
      BY <1>6 DEF Records
    <2>2. /\ \A d \in Event : d # e => item'[d] = item[d] /\ loaded'[d] = loaded[d] /\ seenRev'[d] = seenRev[d]
          /\ item'[e] = "logged" /\ seenRev'[e] = loaded[e]
      BY <2>1 DEF OtherShape
    <2>3. seenRev[e] <= loaded[e]
      BY <2>1 DEF LoadsAreNotOlder
    <2> QED
      BY <2>1, <2>2, <2>3 DEF LoadsAreNotOlder, CarriedWithoutFinder, OtherShape
  <1>7. ASSUME NEW e \in Event, Sweeps(e) \/ Declines(e) \/ Completes(e) \/ Retries(e) PROVE LossInv'
    <2>1. UNCHANGED <<releases, outbox, seenRev, released>>
      BY <1>7 DEF Sweeps, Declines, Completes, Retries
    <2>2. /\ \A d \in Event : d # e => item'[d] = item[d] /\ loaded'[d] = loaded[d]
          /\ missed \subseteq missed' /\ item'[e] # "read"
      BY <1>7 DEF Sweeps, Declines, Completes, Retries, OtherShape
    <2>3. e \in missed' \/ item'[e] = "due" \/ item[e] \notin {"due", "read"}
      BY <1>7 DEF Sweeps, Declines, Completes, Retries, OtherShape
    <2>4. LoadsAreNotOlder'
      BY <2>1, <2>2 DEF LoadsAreNotOlder
    <2>5. CarriedWithoutFinder'
      <3> SUFFICES ASSUME NEW d \in Event, d \notin missed', released[d] > seenRev[d]
                   PROVE  \/ d \in outbox \/ (\E w \in Worker : d \in releases[w])
                          \/ item'[d] = "due" \/ (item'[d] = "read" /\ loaded'[d] >= released[d])
        BY <2>1 DEF CarriedWithoutFinder
      <3>1. \/ d \in outbox \/ (\E w \in Worker : d \in releases[w])
            \/ item[d] = "due" \/ (item[d] = "read" /\ loaded[d] >= released[d])
        BY <2>2 DEF CarriedWithoutFinder
      <3> QED
        BY <2>2, <2>3, <3>1
    <2> QED
      BY <2>4, <2>5
  <1>8. ASSUME NEW w \in Worker, Starts(w) \/ Creates(w) \/ Reads(w) \/ Extends(w) \/ Holds(w) PROVE LossInv'
    BY <1>1, <1>8 DEF Starts, Creates, Reads, Extends, Holds
  <1>9. ASSUME NEW c \in Claim, Arrives(c) PROVE LossInv'
    BY <1>1, <1>9 DEF Arrives
  <1> QED
    BY <1>2, <1>3, <1>4, <1>5, <1>6, <1>7, <1>8, <1>9 DEF EventNext

-----------------------------------------------------------------------------
(* Theorems.                                                               *)

LEMMA InvStep == IInv /\ [EventNext]_eventVars => IInv'
  <1> SUFFICES ASSUME IInv, [EventNext]_eventVars PROVE IInv'
    OBVIOUS
  <1>1. CASE EventNext
    BY <1>1, TypeStep, CountStep, GateStep, LossStep DEF IInv
  <1>2. CASE UNCHANGED eventVars
    <2> USE <1>2 DEF IInv, eventVars, countVars, passVars, storeVars, findVars
    <2>1. TypeInv'
      BY DEF TypeInv, Shapes, StoreShape, AnswerShape, WorkShape, OtherShape, EventTypeOK, RowTypeOK,
             PassTypeOK, FindTypeOK, NothingHeld, Known
    <2>2. CountInv' /\ GateInv'
      BY CountIdle, GateIdle
    <2>3. LossInv'
      BY DEF LossInv, LoadsAreNotOlder, CarriedWithoutFinder
    <2> QED
      BY <2>1, <2>2, <2>3
  <1> QED
    BY <1>1, <1>2

\* The strengthening is an invariant.
LEMMA InvHolds == EventSpec => []IInv
  BY InitHolds, InvStep, PTL DEF EventSpec

\* Type correctness: what a pass holds exists, and no discovery, announcement or
\* release is ahead of the event's table.
THEOREM EventTypeCorrect == EventSpec => []EventTypeOK
  <1>1. IInv => EventTypeOK
    BY DEF IInv, TypeInv
  <1> QED
    BY <1>1, InvHolds, PTL

\* A claim is evidence of one event while one pass runs at a time and the agent
\* partitions, and a stored count is always one of the cluster stored with it,
\* however many passes overlap (event_persistence.py).
THEOREM EvidenceCountedOnce == EventSpec => []EvidenceIsCountedOnce
  <1>1. IInv => EvidenceIsCountedOnce
    BY DEF IInv, TypeInv, CountInv, EvidenceIsCountedOnce
  <1> QED
    BY <1>1, InvHolds, PTL

\* A revision is marked only if it clears the propagation gate, while one pass runs
\* at a time, and discovery works on released events only.
THEOREM GateIsHeld == EventSpec => []GateHolds
  <1>1. IInv => GateHolds
    BY DEF IInv, GateInv, GateHolds, OnlyReleasedAreDiscovered, WaysBeginReleased
  <1> QED
    BY <1>1, InvHolds, PTL

\* A released revision reaches discovery unless its announcement was missed: the
\* finder of the sweep is not even needed for it.
THEOREM ReleasesReachDiscovery == EventSpec => []OnlyMissedReleasesAreLost
  <1>1. IInv => OnlyMissedReleasesAreLost
    BY DEF IInv, LossInv, CarriedWithoutFinder, OnlyMissedReleasesAreLost, OnItsWay
  <1> QED
    BY <1>1, InvHolds, PTL
=============================================================================
