----------------------- MODULE ProcessDiscoveryProofs -----------------------
(***************************************************************************)
(* Proofs about ProcessDiscovery: every change of a Process has its        *)
(* revision and its evidence, a broken pass leaves nothing the sweep would *)
(* repeat and is tried again, and twins, second edges and second links are *)
(* each explained: by a broken or an outlived pass, and links also by a    *)
(* second announcement or an answer that repeats itself.                   *)
(***************************************************************************)
EXTENDS ProcessDiscovery, FiniteSetTheorems, FunctionTheorems, SequenceTheorems, WellFoundedInduction, TLAPS

\* The rows of the table and of the passes.
TableRow == [rev : Nat, slug : Slug \cup {None}, origin : Event \cup {None},
             status : {"candidate", "active"}]
PassRow == [event : Event \cup {None}, step : Step,
            shown : SUBSET Process, new : SUBSET Proposal,
            affected : SUBSET Entries(Process),
            at : Process \cup {None}, slug : Slug \cup {None},
            saw : Nat, why : {"new", "changes", "bears"}]

Placed == {"linking", "relating", "evidencing", "updating", "applying"}
Planned == {"looping", "naming"} \cup Placed

-----------------------------------------------------------------------------
(* What the types leave open.                                              *)

\* A worker without an event does nothing; one with an event that has had its answer
\* has recorded the run.
RowOK(r, known, log) ==
    /\ r.step = "idle" => r = Idle
    /\ r.step # "idle" => r.event \in Event
    /\ r.step \in Planned => r.event \in log
    /\ r.step \in {"asked", "looping", "naming"} => r.at = None
    /\ r.step = "naming" => r.slug \in Slug
    /\ r.step \in Placed => r.at \in known
    /\ r.shown \subseteq known
    /\ \A a \in r.affected : a[1] \in known
PassesAreShaped == \A w \in Worker : RowOK(pass[w], Known, logged)

\* A Process that has not been created has left no trace, and there are finitely many
\* that have.
UnknownIsBlank ==
    /\ IsFiniteSet(Known)
    /\ \A p \in Process \ Known :
          /\ table[p] = NoProcess /\ journal[p] = <<>>
          /\ \A e \in Event : edges[e][p] = <<>> /\ links[e][p] = 0
    /\ \A p \in Known : table[p].slug \in Slug /\ table[p].origin \in Event

\* An edge has a revision, counted from one.
EdgesAreNumbered ==
    \A e \in Event, p \in Process : \A i \in DOMAIN edges[e][p] : edges[e][p][i] > 0

-----------------------------------------------------------------------------
(* Evidence.                                                               *)

\* The passes of an event that may still change a Process.
Changing(e, p) ==
    {w \in Worker : /\ pass[w].event = e /\ pass[w].at = p
                    /\ pass[w].step \in {"updating", "applying"}}

\* There is evidence for the changes made and for those that may come.
EvidenceCovers ==
    \A e \in Event, p \in Process :
        Moves(e, p) + Cardinality(Changing(e, p)) <= links[e][p]

\* Evidence comes after the edge.
EdgeBeforeEvidence ==
    \A e \in Event, p \in Process :
        /\ links[e][p] > 0 => edges[e][p] # <<>>
        /\ \A w \in Worker : pass[w].event = e /\ pass[w].at = p =>
              /\ pass[w].step = "evidencing" => edges[e][p] # <<>>
              /\ pass[w].step = "relating" /\ pass[w].saw > 0 => edges[e][p] # <<>>

\* What has been written is of an event with a recorded run.
WrittenIsLogged ==
    \A e \in Event \ logged, p \in Process :
        /\ edges[e][p] = <<>> /\ links[e][p] = 0 /\ table[p].origin # e

-----------------------------------------------------------------------------
(* One pass at a time.                                                     *)

\* Until its lease is outlived, an event has one pass, which holds its item.
OnePass ==
    \A e \in Event \ outlived : \A w \in Worker : pass[w].event = e =>
        item[e] = "running" /\ holder[e] = w

\* A pass does not propose what its event has led to already, nor one thing twice.
ProposalsAreNew ==
    \A e \in Event \ outlived : \A w \in Worker : pass[w].event = e =>
        /\ \A s, u \in pass[w].new : Base(s) = Base(u) => s = u
        /\ \A p \in Known : table[p].origin = e =>
              /\ pass[w].step = "asked" => p \in pass[w].shown
              /\ \A s \in pass[w].new : Base(s) # TopicOf(p)
              /\ pass[w].step = "naming" => Base(pass[w].slug) # TopicOf(p)
        /\ pass[w].step = "naming" => \A s \in pass[w].new : Base(s) # Base(pass[w].slug)

\* The edge a pass has not seen is not there.
UnseenEdge ==
    \A e \in Event \ outlived, p \in Process, w \in Worker :
        pass[w].event = e /\ pass[w].at = p /\ pass[w].step = "relating" /\ pass[w].saw = 0
        => edges[e][p] = <<>>

\* An event whose passes were neither broken nor outlived, that was announced once and
\* whose answers named each Process once, has been through one plan, and that is
\* finished or under way.
Smooth == Event \ (broken \cup outlived \cup again \cup repeated)
OnePlan ==
    \A e \in Smooth : e \in logged =>
        /\ item[e] \in {"running", "done"}
        /\ \A w \in Worker : pass[w].event = e => pass[w].step # "asked"

\* What such a pass has still to link has no evidence from it yet.
LinksToCome ==
    \A e \in Smooth, w \in Worker : pass[w].event = e =>
        /\ \A a \in pass[w].affected :
              links[e][a[1]] = 0 /\ a[1] # pass[w].at
        /\ \A a, b \in pass[w].affected : a[1] = b[1] => a = b
        /\ \A p \in Process :
              pass[w].at = p /\ pass[w].step \in {"linking", "relating", "evidencing"} => links[e][p] = 0

TypeInv == TypeOK /\ PassesAreShaped /\ UnknownIsBlank /\ EdgesAreNumbered
EvidenceInv == EvidenceCovers /\ EdgeBeforeEvidence /\ WrittenIsLogged /\ CreatedIsEvidenced
TopicInv == OnePass /\ ProposalsAreNew /\ TwinsAreOfTwoEvents
EdgeInv == UnseenEdge /\ OneEdgePerPair
PlanInv == OnePlan /\ LinksToCome /\ RepeatsAreAccounted /\ ShortPassIsTriedAgain
IInv == TypeInv /\ RevisionPerChange /\ EvidenceInv /\ TopicInv /\ EdgeInv /\ PlanInv

-----------------------------------------------------------------------------
(* Lemmas about the data.                                                  *)

\* A set of natural numbers has a least member.
LEMMA LeastMember ==
    ASSUME NEW S \in SUBSET Nat, S # {}
    PROVE  \E x \in S : \A y \in S : x <= y
  <1>1. PICK x \in S : \A y \in S : ~ (<<y, x>> \in OpToRel(<, Nat))
    BY NatLessThanWellFounded, WFMin, Zenon
  <1>2. ASSUME NEW y \in Nat, NEW z \in Nat, y < z PROVE <<y, z>> \in OpToRel(<, Nat)
    BY <1>2, Zenon DEF OpToRel
  <1>3. \A y \in S : ~(y < x)
    BY <1>1, <1>2, Zenon
  <1> QED
    BY <1>3

\* The slugs in use are no more than the Processes.
LEMMA TakenIsSmall ==
    ASSUME IsFiniteSet(Known)
    PROVE  IsFiniteSet(Taken) /\ Cardinality(Known) \in Nat /\ Cardinality(Taken) <= Cardinality(Known)
  <1> DEFINE slug == [p \in Known |-> table[p].slug]
  <1>1. Taken = {slug[p] : p \in Known}
    BY DEF Taken
  <1>2. slug \in [Known -> Taken] /\ \A t \in Taken : \E p \in Known : slug[p] = t
    BY <1>1
  <1>3. slug \in Surjection(Known, Taken)
    BY <1>2, Fun_IsSurj
  <1> QED
    BY <1>3, FS_Surjection, FS_CardinalityType

\* Among one more numbers than there are Processes, one is free, and so there is a
\* least free one.
LEMMA FreeSlug ==
    ASSUME IsFiniteSet(Known), NEW s \in Proposal
    PROVE  UniqueSlug(s) \in Slug /\ Base(UniqueSlug(s)) = Base(s)
  <1>1. s = <<s[1], s[2]>> /\ s[2] \in Nat \ {0} /\ Base(s) \in Bases
    BY DiscoveryAssumption DEF Base, Bases
  <1>2. CASE s \notin Taken
    BY <1>1, <1>2 DEF UniqueSlug, Slug, Base
  <1>3. CASE s \in Taken
    <2> DEFINE c == Cardinality(Known)
               Numbers == 2..(c + 2)
               Free == {n \in Numbers : <<Base(s), n>> \notin Taken}
    <2>1. c \in Nat /\ IsFiniteSet(Taken) /\ Cardinality(Taken) <= c /\ Cardinality(Taken) \in Nat
      BY TakenIsSmall, FS_CardinalityType
    <2>2. Free # {}
      <3> SUFFICES ASSUME Free = {} PROVE FALSE
        OBVIOUS
      <3> DEFINE name == [n \in Numbers |-> <<Base(s), n>>]
      <3>1. name \in [Numbers -> Taken] /\ \A m, n \in Numbers : name[m] = name[n] => m = n
        OBVIOUS
      <3>2. name \in Injection(Numbers, Taken)
        BY <3>1, Fun_IsInj
      <3>3. Cardinality(Numbers) <= Cardinality(Taken)
        BY <2>1, <3>2, FS_Injection
      <3>4. Cardinality(Numbers) = c + 1
        <4>1. Cardinality(2..(c + 2)) = IF 2 > c + 2 THEN 0 ELSE (c + 2) - 2 + 1
          BY <2>1, FS_Interval
        <4> QED
          BY <2>1, <4>1
      <3> QED
        BY <2>1, <3>3, <3>4
    <2>3. Free \in SUBSET Nat
      BY <2>1
    <2>4. PICK n \in Free : \A m \in Free : n <= m
      BY <2>2, <2>3, LeastMember
    <2> DEFINE Good(u) == u \notin Taken /\ \A k \in 2..(u[2] - 1) : <<Base(s), k>> \in Taken
    <2>5. <<Base(s), n>> \in {Base(s)} \X Numbers /\ Good(<<Base(s), n>>)
      <3>1. ASSUME NEW k \in 2..(n - 1) PROVE <<Base(s), k>> \in Taken
        BY <2>1, <2>4
      <3> QED
        BY <2>4, <3>1
    <2>6. UniqueSlug(s) = CHOOSE u \in {Base(s)} \X Numbers : Good(u)
      BY <1>3 DEF UniqueSlug
    <2> HIDE DEF Good
    <2>7. UniqueSlug(s) \in {Base(s)} \X Numbers
      BY <2>5, <2>6, Zenon
    <2>8. UniqueSlug(s) \in {Base(s)} \X (Nat \ {0})
      BY <2>1, <2>7
    <2> QED
      BY <1>1, <2>8 DEF Slug, Base
  <1> QED
    BY <1>2, <1>3

\* Where an event is in a journal.
Occurs(j, e) == {i \in DOMAIN j : j[i] = e}

\* Appending to a journal adds one to the changes of the event that is appended.
LEMMA OccurrencesAfterAppend ==
    ASSUME NEW j \in Seq(Event), NEW x \in Event, NEW e \in Event
    PROVE  /\ Cardinality(Occurs(j, e)) \in Nat
           /\ x = e => Cardinality(Occurs(Append(j, x), e)) = Cardinality(Occurs(j, e)) + 1
           /\ x # e => Cardinality(Occurs(Append(j, x), e)) = Cardinality(Occurs(j, e))
  <1> DEFINE n == Len(j) + 1
  <1>1. /\ Len(j) \in Nat /\ DOMAIN j = 1..Len(j) /\ DOMAIN Append(j, x) = 1..n
        /\ Append(j, x)[n] = x
        /\ \A i \in 1..Len(j) : Append(j, x)[i] = j[i]
    BY AppendProperties
  <1>2. IsFiniteSet(Occurs(j, e)) /\ Cardinality(Occurs(j, e)) \in Nat
    <2>1. IsFiniteSet(1..Len(j))
      BY <1>1, FS_Interval
    <2> QED
      BY <1>1, <2>1, FS_Subset, FS_CardinalityType DEF Occurs
  <1>3. n \notin Occurs(j, e)
    BY <1>1 DEF Occurs
  <1>4. CASE x = e
    <2>1. Occurs(Append(j, x), e) = Occurs(j, e) \cup {n}
      BY <1>1, <1>4 DEF Occurs
    <2>2. Cardinality(Occurs(j, e) \cup {n}) = Cardinality(Occurs(j, e)) + 1
      BY <1>2, <1>3, FS_AddElement
    <2> QED
      BY <1>2, <1>4, <2>1, <2>2
  <1>5. CASE x # e
    <2>1. Occurs(Append(j, x), e) = Occurs(j, e)
      BY <1>1, <1>5 DEF Occurs
    <2> QED
      BY <1>2, <1>5, <2>1
  <1> QED
    BY <1>4, <1>5

-----------------------------------------------------------------------------
(* What each step leaves.                                                  *)

\* The row of one pass is replaced.
Becomes(w, r) ==
    /\ r \in PassRow
    /\ pass' \in [Worker -> PassRow]
    /\ pass'[w] = r
    /\ \A v \in Worker \ {w} : pass'[v] = pass[v]

\* The types, by the names of the rows.
LEMMA TypeFacts ==
    ASSUME TypeInv
    PROVE  /\ item \in [Event -> {"none", "queued", "running", "done", "dead"}]
           /\ tries \in [Event -> Nat] /\ holder \in [Event -> Worker \cup {None}]
           /\ logged \subseteq Event
           /\ table \in [Process -> TableRow]
           /\ journal \in [Process -> Seq(Event)]
           /\ edges \in [Event -> [Process -> Seq(Nat)]]
           /\ links \in [Event -> [Process -> Nat]]
           /\ pass \in [Worker -> PassRow]
  BY DEF TypeInv, TypeOK, TableRow, PassRow

\* The fields of a pass.
LEMMA RowFacts ==
    ASSUME TypeInv, NEW w \in Worker
    PROVE  /\ pass[w] \in PassRow
           /\ pass[w].event \in Event \cup {None} /\ pass[w].step \in Step
           /\ pass[w].shown \subseteq Process /\ pass[w].new \subseteq Proposal
           /\ pass[w].affected \subseteq Entries(Process)
           /\ \A a \in pass[w].affected : a[1] \in Process /\ a[2] \in {"changes", "bears"}
           /\ pass[w].at \in Process \cup {None} /\ pass[w].slug \in Slug \cup {None}
           /\ pass[w].saw \in Nat /\ pass[w].why \in {"new", "changes", "bears"}
           /\ pass[w].step # "idle" => pass[w].event \in Event
           /\ pass[w].step = "idle" => pass[w].event = None
           /\ pass[w].step \in Placed => pass[w].at \in Known /\ pass[w].at \in Process
  <1>1. pass[w] \in PassRow
    BY TypeFacts
  <1>2. /\ pass[w].event \in Event \cup {None} /\ pass[w].step \in Step
        /\ pass[w].shown \subseteq Process /\ pass[w].new \subseteq Proposal
        /\ pass[w].affected \subseteq Entries(Process)
        /\ pass[w].at \in Process \cup {None} /\ pass[w].slug \in Slug \cup {None}
        /\ pass[w].saw \in Nat /\ pass[w].why \in {"new", "changes", "bears"}
    BY <1>1 DEF PassRow
  <1>3. /\ pass[w].step # "idle" => pass[w].event \in Event
        /\ pass[w].step = "idle" => pass[w] = Idle
        /\ pass[w].step \in Placed => pass[w].at \in Known
    BY DEF TypeInv, PassesAreShaped, RowOK
  <1>4. Idle.event = None /\ Known \subseteq Process
    BY DEF Idle, Known
  <1>5. \A a \in Entries(Process) : a[1] \in Process /\ a[2] \in {"changes", "bears"}
    BY DEF Entries
  <1> QED
    BY <1>1, <1>2, <1>3, <1>4, <1>5

LEMMA BecomesFacts ==
    ASSUME TypeInv, NEW w \in Worker, NEW r \in PassRow, pass' = [pass EXCEPT ![w] = r]
    PROVE  Becomes(w, r)
  BY TypeFacts DEF Becomes

LEMMA IdleFacts ==
    /\ Idle \in PassRow /\ Idle.event = None /\ Idle.step = "idle" /\ Idle.at = None
    /\ Idle.shown = {} /\ Idle.new = {} /\ Idle.affected = {}
  BY DEF Idle, PassRow, Step

LEMMA EndsFacts ==
    ASSUME TypeInv, NEW w \in Worker, pass' = [pass EXCEPT ![w] = Idle]
    PROVE  Becomes(w, Idle)
  BY IdleFacts, BecomesFacts

LEMMA ClaimsFacts ==
    ASSUME TypeInv, NEW w \in Worker, NEW e \in Event, Claims(w, e)
    PROVE  \E r \in PassRow :
              /\ Becomes(w, r) /\ r.event = e /\ r.step = "asked" /\ r.at = None
              /\ r.shown = Known /\ r.new = {} /\ r.affected = {}
  <1> DEFINE r == [Idle EXCEPT !.event = e, !.step = "asked", !.shown = Known]
  <1>1. /\ r \in PassRow /\ r.event = e /\ r.step = "asked" /\ r.at = None
        /\ r.shown = Known /\ r.new = {} /\ r.affected = {}
    BY DEF Idle, PassRow, Step, Known
  <1>2. Becomes(w, r)
    BY <1>1, BecomesFacts DEF Claims, Candidates
  <1> QED
    BY <1>1, <1>2

LEMMA AnswersFacts ==
    ASSUME TypeInv, NEW w \in Worker, Answers(w)
    PROVE  \E r \in PassRow :
              /\ Becomes(w, r) /\ r.event = pass[w].event /\ r.step = "looping"
              /\ r.at = pass[w].at /\ r.shown = pass[w].shown
              /\ \A s, u \in r.new : Base(s) = Base(u) => s = u
              /\ \A s \in r.new, p \in pass[w].shown : Base(s) # TopicOf(p)
              /\ \A a \in r.affected : a[1] \in pass[w].shown
              /\ pass[w].event \notin repeated' =>
                    \A a, b \in r.affected : a[1] = b[1] => a = b
  <1>1. PICK new \in SUBSET Proposal, named \in SUBSET Entries(pass[w].shown) :
          /\ \A s, u \in new : Base(s) = Base(u) => s = u
          /\ \A s \in new, p \in pass[w].shown : Base(s) # TopicOf(p)
          /\ repeated' = IF \A a, b \in named : a[1] = b[1] => a = b
                         THEN repeated ELSE repeated \cup {pass[w].event}
          /\ pass' = [pass EXCEPT ![w].step = "looping", ![w].new = new,
                                  ![w].affected = named]
    BY DEF Answers
  <1> DEFINE r == [pass[w] EXCEPT !.step = "looping", !.new = new, !.affected = named]
  <1>2. /\ named \in SUBSET Entries(Process)
        /\ \A a \in named : a[1] \in pass[w].shown
    BY RowFacts DEF Entries
  <1>3. pass[w].event \notin repeated' => \A a, b \in named : a[1] = b[1] => a = b
    BY <1>1
  <1>4. /\ r \in PassRow /\ r.event = pass[w].event /\ r.step = "looping"
        /\ r.at = pass[w].at /\ r.shown = pass[w].shown /\ r.new = new /\ r.affected = named
    BY <1>2, RowFacts DEF PassRow, Step
  <1>5. pass' = [pass EXCEPT ![w] = r]
    BY <1>1, TypeFacts
  <1>6. Becomes(w, r)
    BY <1>4, <1>5, BecomesFacts
  <1> QED
    BY <1>1, <1>2, <1>3, <1>4, <1>6

\* The slug a pass is to use is of its proposal.
LEMMA NamesFacts ==
    ASSUME TypeInv, NEW w \in Worker, Names(w)
    PROVE  \E s \in pass[w].new, r \in PassRow :
              /\ Becomes(w, r)
              /\ r.event = pass[w].event /\ r.at = pass[w].at /\ r.shown = pass[w].shown
              /\ r.affected = pass[w].affected /\ r.step = "naming" /\ r.slug \in Slug
              /\ Base(r.slug) = Base(s) /\ r.new = pass[w].new \ {s}
  <1>1. PICK s \in pass[w].new :
           pass' = [pass EXCEPT ![w] = [pass[w] EXCEPT !.step = "naming", !.why = "new", !.slug = UniqueSlug(s), !.new = @ \ {s}]]
    BY TypeFacts DEF Names
  <1>4. /\ s \in Proposal
        /\ UniqueSlug(s) \in Slug /\ Base(UniqueSlug(s)) = Base(s)
    BY RowFacts, FreeSlug DEF TypeInv, UnknownIsBlank
  <1> DEFINE r == [pass[w] EXCEPT !.step = "naming", !.why = "new", !.slug = UniqueSlug(s), !.new = @ \ {s}]
  <1>2. /\ r \in PassRow
        /\ r.event = pass[w].event /\ r.at = pass[w].at /\ r.shown = pass[w].shown
        /\ r.affected = pass[w].affected /\ r.step = "naming" /\ r.slug \in Slug
        /\ Base(r.slug) = Base(s) /\ r.new = pass[w].new \ {s}
    BY <1>4, RowFacts DEF PassRow, Step
  <1>3. Becomes(w, r)
    BY <1>1, <1>2, BecomesFacts
  <1> QED
    BY <1>1, <1>2, <1>3

LEMMA CreatesFacts ==
    ASSUME TypeInv, NEW w \in Worker, Creates(w)
    PROVE  \E p \in Process \ Known, r \in PassRow :
              /\ table' = [table EXCEPT ![p] = [rev |-> 1, slug |-> pass[w].slug,
                                  origin |-> pass[w].event, status |-> "candidate"]]
              /\ Becomes(w, r)
              /\ r.event = pass[w].event /\ r.shown = pass[w].shown /\ r.new = pass[w].new
              /\ r.affected = pass[w].affected /\ r.step = "linking" /\ r.at = p
  <1>1. PICK p \in Process \ Known :
           /\ table' = [table EXCEPT ![p] = [rev |-> 1, slug |-> pass[w].slug,
                                  origin |-> pass[w].event, status |-> "candidate"]]
           /\ pass' = [pass EXCEPT ![w] = [pass[w] EXCEPT !.step = "linking", !.at = p, !.slug = None]]
    BY TypeFacts DEF Creates
  <1> DEFINE r == [pass[w] EXCEPT !.step = "linking", !.at = p, !.slug = None]
  <1>2. /\ r \in PassRow
        /\ r.event = pass[w].event /\ r.shown = pass[w].shown /\ r.new = pass[w].new
        /\ r.affected = pass[w].affected /\ r.step = "linking" /\ r.at = p
    BY RowFacts DEF PassRow, Step
  <1>3. Becomes(w, r)
    BY <1>1, <1>2, BecomesFacts
  <1> QED
    BY <1>1, <1>2, <1>3

LEMMA AffectsFacts ==
    ASSUME TypeInv, NEW w \in Worker, Affects(w)
    PROVE  \E a \in pass[w].affected, r \in PassRow :
              /\ pass[w].new = {}
              /\ Becomes(w, r)
              /\ r.event = pass[w].event /\ r.shown = pass[w].shown /\ r.new = pass[w].new
              /\ r.step = "linking" /\ r.at = a[1] /\ r.affected = pass[w].affected \ {a}
  <1>1. PICK a \in pass[w].affected :
           /\ pass[w].new = {}
           /\ pass' = [pass EXCEPT ![w] = [pass[w] EXCEPT !.step = "linking", !.at = a[1], !.why = a[2], !.affected = @ \ {a}]]
    BY TypeFacts DEF Affects
  <1>4. a[1] \in Process /\ a[2] \in {"changes", "bears"}
    BY RowFacts
  <1> DEFINE r == [pass[w] EXCEPT !.step = "linking", !.at = a[1], !.why = a[2], !.affected = @ \ {a}]
  <1>2. /\ r \in PassRow
        /\ r.event = pass[w].event /\ r.shown = pass[w].shown /\ r.new = pass[w].new
        /\ r.step = "linking" /\ r.at = a[1] /\ r.affected = pass[w].affected \ {a}
    BY <1>4, RowFacts DEF PassRow, Step
  <1>3. Becomes(w, r)
    BY <1>1, <1>2, BecomesFacts
  <1> QED
    BY <1>1, <1>2, <1>3

LEMMA LinkReadsFacts ==
    ASSUME TypeInv, NEW w \in Worker, LinkReads(w)
    PROVE  \E r \in PassRow :
              /\ Becomes(w, r)
              /\ r.event = pass[w].event /\ r.shown = pass[w].shown /\ r.new = pass[w].new
              /\ r.affected = pass[w].affected /\ r.at = pass[w].at /\ r.step = "relating"
              /\ r.saw = CurrentEdge(w)
  <1>1. pass' = [pass EXCEPT ![w] = [pass[w] EXCEPT !.step = "relating", !.saw = CurrentEdge(w)]]
    BY TypeFacts DEF LinkReads
  <1>4. CurrentEdge(w) \in Nat
    <2>1. EdgeOf(w) \in Seq(Nat)
      BY RowFacts, TypeFacts DEF LinkReads, EdgeOf, Placed
    <2> QED
      BY <2>1 DEF CurrentEdge
  <1> DEFINE r == [pass[w] EXCEPT !.step = "relating", !.saw = CurrentEdge(w)]
  <1>2. /\ r \in PassRow
        /\ r.event = pass[w].event /\ r.shown = pass[w].shown /\ r.new = pass[w].new
        /\ r.affected = pass[w].affected /\ r.at = pass[w].at /\ r.step = "relating"
        /\ r.saw = CurrentEdge(w)
    BY <1>4, RowFacts DEF PassRow, Step
  <1>3. Becomes(w, r)
    BY <1>1, <1>2, BecomesFacts
  <1> QED
    BY <1>1, <1>2, <1>3

LEMMA RelatesFacts ==
    ASSUME TypeInv, NEW w \in Worker, Relates(w)
    PROVE  \E r \in PassRow :
              /\ Becomes(w, r)
              /\ r.event = pass[w].event /\ r.shown = pass[w].shown /\ r.new = pass[w].new
              /\ r.affected = pass[w].affected /\ r.at = pass[w].at /\ r.step = "evidencing"
  <1>1. pass' = [pass EXCEPT ![w] = [pass[w] EXCEPT !.step = "evidencing"]]
    BY TypeFacts DEF Relates, Goes
  <1> DEFINE r == [pass[w] EXCEPT !.step = "evidencing"]
  <1>2. /\ r \in PassRow
        /\ r.event = pass[w].event /\ r.shown = pass[w].shown /\ r.new = pass[w].new
        /\ r.affected = pass[w].affected /\ r.at = pass[w].at /\ r.step = "evidencing"
    BY RowFacts DEF PassRow, Step
  <1>3. Becomes(w, r)
    BY <1>1, <1>2, BecomesFacts
  <1> QED
    BY <1>1, <1>2, <1>3

\* The pass goes back to its loop.
LEMMA LoopsFacts ==
    ASSUME TypeInv, NEW w \in Worker, Loops(w)
    PROVE  \E r \in PassRow :
              /\ Becomes(w, r)
              /\ r.event = pass[w].event /\ r.step = "looping" /\ r.at = None
              /\ r.shown = pass[w].shown /\ r.new = pass[w].new
              /\ r.affected = pass[w].affected
  <1> DEFINE r == [pass[w] EXCEPT !.step = "looping", !.at = None, !.slug = None, !.saw = 0,
                                  !.why = "new"]
  <1>1. pass' = [pass EXCEPT ![w] = r]
    BY TypeFacts DEF Loops
  <1>2. /\ r \in PassRow
        /\ r.event = pass[w].event /\ r.step = "looping" /\ r.at = None
        /\ r.shown = pass[w].shown /\ r.new = pass[w].new
        /\ r.affected = pass[w].affected
    BY RowFacts DEF PassRow, Step
  <1>3. Becomes(w, r)
    BY <1>1, <1>2, BecomesFacts
  <1> QED
    BY <1>2, <1>3

LEMMA EvidencesFacts ==
    ASSUME TypeInv, NEW w \in Worker, Evidences(w)
    PROVE  \E r \in PassRow :
              /\ Becomes(w, r)
              /\ r.event = pass[w].event
              /\ \/ r.step = "updating" /\ r.at = pass[w].at
                 \/ r.step = "looping" /\ r.at = None
              /\ r.shown = pass[w].shown /\ r.new = pass[w].new
              /\ r.affected = pass[w].affected
  <1>1. CASE Loops(w)
    BY <1>1, LoopsFacts
  <1>2. CASE Goes(w, "updating")
    <2> DEFINE r == [pass[w] EXCEPT !.step = "updating"]
    <2>1. pass' = [pass EXCEPT ![w] = r]
      BY <1>2, TypeFacts DEF Goes
    <2>2. /\ r \in PassRow
          /\ r.event = pass[w].event /\ r.step = "updating" /\ r.at = pass[w].at
          /\ r.shown = pass[w].shown /\ r.new = pass[w].new
          /\ r.affected = pass[w].affected
      BY RowFacts DEF PassRow, Step
    <2>3. Becomes(w, r)
      BY <2>1, <2>2, BecomesFacts
    <2> QED
      BY <2>2, <2>3
  <1> QED
    BY <1>1, <1>2 DEF Evidences

LEMMA UpdateReadsFacts ==
    ASSUME TypeInv, NEW w \in Worker, UpdateReads(w)
    PROVE  \E r \in PassRow :
              /\ Becomes(w, r)
              /\ r.event = pass[w].event /\ r.shown = pass[w].shown /\ r.new = pass[w].new
              /\ r.affected = pass[w].affected /\ r.at = pass[w].at /\ r.step = "applying"
              /\ r.saw = table[pass[w].at].rev
  <1>1. pass' = [pass EXCEPT ![w] = [pass[w] EXCEPT !.step = "applying", !.saw = table[pass[w].at].rev]]
    BY TypeFacts DEF UpdateReads
  <1>4. table[pass[w].at].rev \in Nat
    BY RowFacts, TypeFacts DEF UpdateReads, TableRow, Placed
  <1> DEFINE r == [pass[w] EXCEPT !.step = "applying", !.saw = table[pass[w].at].rev]
  <1>2. /\ r \in PassRow
        /\ r.event = pass[w].event /\ r.shown = pass[w].shown /\ r.new = pass[w].new
        /\ r.affected = pass[w].affected /\ r.at = pass[w].at /\ r.step = "applying"
        /\ r.saw = table[pass[w].at].rev
    BY <1>4, RowFacts DEF PassRow, Step
  <1>3. Becomes(w, r)
    BY <1>1, <1>2, BecomesFacts
  <1> QED
    BY <1>1, <1>2, <1>3

-----------------------------------------------------------------------------
(* The steps by what they write.                                           *)

\* The steps of a pass that write nothing else, and those that end it.
Quiet(w) == Names(w) \/ Affects(w) \/ LinkReads(w) \/ Unchanged(w) \/ UpdateReads(w)
Failing(w) == SlugRaises(w) \/ LinkRaises(w) \/ RelateRaises(w) \/ UpdateRaises(w)
Ending(w) == Declines(w) \/ Failing(w) \/ Finishes(w) \/ Stops(w)
Writing(w) == Creates(w) \/ Relates(w) \/ Evidences(w) \/ Applies(w)
PassStep(w) ==
    (\E e \in Event : Claims(w, e)) \/ Answers(w) \/ Quiet(w) \/ Ending(w) \/ Writing(w)

\* What a pass does once it has named what is new.
Linking(w) ==
    \/ Affects(w) \/ LinkReads(w) \/ Unchanged(w) \/ UpdateReads(w)
    \/ Relates(w) \/ Evidences(w) \/ Applies(w)
LEMMA LinkingFacts ==
    ASSUME TypeInv, NEW w \in Worker, Linking(w)
    PROVE  \E r \in PassRow : /\ Becomes(w, r) /\ r.event = pass[w].event /\ r.new = pass[w].new
                              /\ r.step \notin {"asked", "naming"}
  <1>1. CASE Affects(w)
    BY <1>1, AffectsFacts
  <1>2. CASE LinkReads(w)
    BY <1>2, LinkReadsFacts
  <1>3. CASE Unchanged(w) \/ Applies(w)
    <2>1. Loops(w)
      BY <1>3 DEF Unchanged, Applies
    <2> QED
      BY <2>1, LoopsFacts
  <1>4. CASE UpdateReads(w)
    BY <1>4, UpdateReadsFacts
  <1>5. CASE Relates(w)
    BY <1>5, RelatesFacts
  <1>6. CASE Evidences(w)
    BY <1>6, EvidencesFacts
  <1> QED
    BY <1>1, <1>2, <1>3, <1>4, <1>5, <1>6 DEF Linking

\* What no pass does.
Outside ==
    \/ UNCHANGED vars
    \/ \E e \in Event : Enqueues(e) \/ Reannounces(e) \/ Outlives(e)

LEMMA StepCases ==
    ASSUME [Next]_vars
    PROVE  Outside \/ \E w \in Worker : PassStep(w)
  BY DEF Next, Outside, PassStep, Quiet, Failing, Ending, Writing

LEMMA OutsideFacts ==
    ASSUME Outside
    PROVE  UNCHANGED <<logged, table, journal, edges, links, pass, short, broken, refused,
                       repeated, stops, refusals>>
  BY DEF Outside, Enqueues, Reannounces, Outlives, vars, graphVars, histVars, countVars

LEMMA QuietFacts ==
    ASSUME NEW w \in Worker, Quiet(w)
    PROVE  UNCHANGED <<item, tries, holder, logged, table, journal, edges, links,
                       short, broken, outlived, refused, again, repeated,
                       stops, outlives, refusals, releases>>
  BY DEF Quiet, Names, Affects, LinkReads, Unchanged, UpdateReads, OnlyPass,
         itemVars, graphVars, histVars, countVars

\* A pass fails at a step of its plan.
LEMMA FailingFacts ==
    ASSUME NEW w \in Worker, Failing(w)
    PROVE  Raises(w) /\ pass[w].step \in Planned
  BY DEF Failing, SlugRaises, LinkRaises, RelateRaises, UpdateRaises, Planned, Placed

\* An ending leaves the graph and the log alone, and what it says of the pass depends
\* on how far that had come.
LEMMA EndingFacts ==
    ASSUME TypeInv, NEW w \in Worker, Ending(w)
    PROVE  /\ Becomes(w, Idle) /\ pass[w].step # "idle" /\ pass[w].event \in Event
           /\ UNCHANGED <<logged, table, journal, edges, links, tries, holder, outlived, outlives,
                          again, repeated, releases>>
           /\ broken \subseteq broken' /\ broken' \subseteq Event /\ short' \subseteq Event
           /\ refused \subseteq refused' /\ refused' \subseteq Event
           /\ item' \in [Event -> {"none", "queued", "running", "done", "dead"}]
           /\ \A e \in Event \ {pass[w].event} : item'[e] = item[e] /\ (e \in short' => e \in short)
           /\ stops' \in Nat /\ refusals' \in Nat
           /\ \/ /\ pass[w].step \in Planned /\ ~Finishes(w) /\ pass[w].event \in broken'
              \/ Finishes(w)
              \/ pass[w].step = "asked"
  <1> DEFINE e == pass[w].event
  <1>1. /\ item \in [Event -> {"none", "queued", "running", "done", "dead"}]
        /\ short \subseteq Event /\ broken \subseteq Event /\ refused \subseteq Event
        /\ stops \in Nat /\ refusals \in Nat
    BY DEF TypeInv, TypeOK
  <1>2. pass[w].step # "idle" /\ pass' = [pass EXCEPT ![w] = Idle]
    BY FailingFacts DEF Ending, Declines, Finishes, Stops, Raises, EndsShort, Planned, Placed
  <1>3. e \in Event /\ pass[w].step \in Step /\ Becomes(w, Idle)
    BY <1>2, RowFacts, EndsFacts
  <1>4. pass[w].step = "asked" \/ pass[w].step \in Planned
    BY <1>2, <1>3 DEF Step, Planned, Placed
  <1> HIDE DEF e
  <1>5. CASE Declines(w)
    BY <1>1, <1>2, <1>3, <1>5 DEF Declines, graphVars, e
  <1>6. CASE Finishes(w)
    BY <1>1, <1>2, <1>3, <1>6 DEF Finishes, graphVars, countVars, e
  <1>7. CASE Failing(w)
    <2>1. /\ item' = [item EXCEPT ![e] = AfterFailure(e)]
          /\ EndsShort(w) /\ UNCHANGED <<tries, holder, stops>> /\ pass[w].step \in Planned
      BY <1>7, FailingFacts DEF Raises, e
    <2>2. AfterFailure(e) \in {"queued", "dead"} /\ "asked" \notin Planned
      BY DEF AfterFailure, Planned, Placed
    <2>3. /\ short' = short \cup {e} /\ broken' = broken \cup {e}
          /\ UNCHANGED <<logged, table, journal, edges, links, outlived, refused, outlives, refusals,
                         again, repeated, releases>>
      BY <2>1, <2>2 DEF EndsShort, graphVars, e
    <2>4. ~Finishes(w)
      BY <2>1, <2>2, <2>3, <1>1, <1>3 DEF Finishes, e
    <2> QED
      BY <1>1, <1>2, <1>3, <2>1, <2>2, <2>3, <2>4 DEF e
  <1>8. CASE Stops(w)
    <2>1. /\ stops' = stops + 1 /\ UNCHANGED <<tries, holder>> /\ EndsShort(w)
          /\ item' = IF item[e] = "running" /\ holder[e] = w
                     THEN [item EXCEPT ![e] = "queued"] ELSE item
      BY <1>8 DEF Stops, e
    <2>2. UNCHANGED <<logged, table, journal, edges, links, outlived, refused, outlives, refusals,
                      again, repeated, releases>>
      BY <2>1 DEF EndsShort, graphVars
    <2>3. CASE pass[w].step = "asked"
      BY <1>1, <1>2, <1>3, <2>1, <2>2, <2>3 DEF EndsShort, e
    <2>4. CASE pass[w].step \in Planned
      <3>1. short' = short \cup {e} /\ broken' = broken \cup {e}
        BY <2>1, <2>4 DEF EndsShort, Planned, Placed, e
      <3>2. Finishes(w) \/ ~Finishes(w)
        OBVIOUS
      <3> QED
        BY <1>1, <1>2, <1>3, <2>1, <2>2, <2>4, <3>1 DEF e
    <2> QED
      BY <1>4, <2>3, <2>4
  <1> QED
    BY <1>5, <1>6, <1>7, <1>8 DEF Ending

\* An edge is inserted, or its next revision is.
LEMMA RelatesWrites ==
    ASSUME TypeInv, EdgeBeforeEvidence, NEW w \in Worker, Relates(w),
           NEW e \in Event, NEW p \in Process, pass[w].event = e, pass[w].at = p
    PROVE  /\ edges' \in [Event -> [Process -> Seq(Nat)]]
           /\ edges'[e][p] # <<>>
           /\ \A i \in DOMAIN edges'[e][p] : edges'[e][p][i] > 0
           /\ pass[w].saw = 0 => Len(edges'[e][p]) = Len(edges[e][p]) + 1
           /\ pass[w].saw # 0 => Len(edges'[e][p]) = Len(edges[e][p])
           /\ \A d \in Event, q \in Process : d # e \/ q # p => edges'[d][q] = edges[d][q]
  <1> DEFINE old == edges[e][p]
             new == IF pass[w].saw = 0 THEN Append(old, 1) ELSE Revised(old)
  <1>1. old \in Seq(Nat) /\ pass[w].saw \in Nat /\ edges \in [Event -> [Process -> Seq(Nat)]]
    BY TypeFacts, RowFacts
  <1>2. edges' = [edges EXCEPT ![e] = [edges[e] EXCEPT ![p] = new]]
    <2>1. edges' = [edges EXCEPT ![e][p] =
              IF pass[w].saw = 0 THEN Append(@, 1) ELSE Revised(@)]
      BY DEF Relates
    <2> QED
      BY <2>1
  <1>3. \A i \in DOMAIN old : old[i] > 0
    BY DEF TypeInv, EdgesAreNumbered
  <1>4. /\ new \in Seq(Nat) /\ new # <<>> /\ \A i \in DOMAIN new : new[i] > 0
        /\ pass[w].saw = 0 => Len(new) = Len(old) + 1
        /\ pass[w].saw # 0 => Len(new) = Len(old)
    <2>1. CASE pass[w].saw = 0
      <3>1. /\ Append(old, 1) \in Seq(Nat) /\ Len(Append(old, 1)) = Len(old) + 1
            /\ \A i \in 1..Len(old) : Append(old, 1)[i] = old[i]
            /\ Append(old, 1)[Len(old) + 1] = 1
        BY <1>1, AppendProperties
      <3>2. Len(old) \in Nat /\ DOMAIN old = 1..Len(old) /\ DOMAIN Append(old, 1) = 1..(Len(old) + 1)
        BY <1>1, <3>1, LenProperties
      <3>3. Append(old, 1) # <<>>
        <4>1. Len(Append(old, 1)) # 0
          BY <3>1, <3>2
        <4> QED
          BY <4>1
      <3>4. \A i \in DOMAIN Append(old, 1) : Append(old, 1)[i] > 0
        BY <1>3, <3>1, <3>2
      <3> QED
        BY <2>1, <3>1, <3>3, <3>4
    <2>2. CASE pass[w].saw # 0
      <3>1. old # <<>>
        BY <2>2, <1>1 DEF EdgeBeforeEvidence, Relates
      <3> DEFINE inc == Revised(old)
      <3>2. 1 \in DOMAIN old /\ old[1] \in Nat /\ DOMAIN old = 1..Len(old) /\ Len(old) \in Nat
        BY <1>1, <3>1, LenProperties
      <3>3. inc \in Seq(Nat) /\ Len(inc) = Len(old)
        BY <1>1, <3>2, ExceptSeq DEF Revised
      <3>4. \A i \in DOMAIN inc : inc[i] > 0
        <4>1. DOMAIN inc = DOMAIN old /\ inc[1] = old[1] + 1
          BY <3>2 DEF Revised
        <4>2. \A i \in DOMAIN old : i # 1 => inc[i] = old[i]
          BY <3>2 DEF Revised
        <4>3. old[1] + 1 > 0
          BY <3>2 DEF Revised
        <4> HIDE DEF inc, old
        <4> QED
          BY <1>3, <4>1, <4>2, <4>3
      <3>5. inc # <<>>
        BY <3>2, <3>3
      <3> QED
        BY <2>2, <3>3, <3>4, <3>5
    <2> QED
      BY <2>1, <2>2
  <1> HIDE DEF old, new
  <1>5. /\ edges'[e][p] = new
        /\ edges' \in [Event -> [Process -> Seq(Nat)]]
        /\ \A d \in Event, q \in Process : d # e \/ q # p => edges'[d][q] = edges[d][q]
    BY <1>1, <1>2, <1>4
  <1> QED
    BY <1>4, <1>5 DEF old

\* One link more.
LEMMA EvidencesWrites ==
    ASSUME TypeInv, NEW w \in Worker, Evidences(w),
           NEW e \in Event, NEW p \in Process, pass[w].event = e, pass[w].at = p
    PROVE  /\ links' \in [Event -> [Process -> Nat]]
           /\ links'[e][p] = links[e][p] + 1
           /\ \A d \in Event, q \in Process : d # e \/ q # p => links'[d][q] = links[d][q]
  <1>1. links' = [links EXCEPT ![e] = [links[e] EXCEPT ![p] = links[e][p] + 1]]
    BY TypeFacts DEF Evidences, NewLinks
  <1> QED
    BY <1>1, TypeFacts

\* One revision more, and its entry.
LEMMA AppliesWrites ==
    ASSUME TypeInv, NEW w \in Worker, Applies(w),
           NEW e \in Event, NEW p \in Process, pass[w].event = e, pass[w].at = p
    PROVE  /\ table' \in [Process -> TableRow] /\ journal' \in [Process -> Seq(Event)]
           /\ p \in Known /\ table'[p].rev = table[p].rev + 1
           /\ table'[p].slug = table[p].slug /\ table'[p].origin = table[p].origin
           /\ journal'[p] = Append(journal[p], e)
           /\ \A q \in Process \ {p} : table'[q] = table[q] /\ journal'[q] = journal[q]
           /\ Known' = Known
  <1> DEFINE row == [table[p] EXCEPT !.rev = pass[w].saw + 1, !.status = "active"]
  <1>1. pass[w].step = "applying" /\ table[p].rev = pass[w].saw /\ p \in Known
    BY RowFacts DEF Applies, Unwritten, Placed
  <1>2. table' = [table EXCEPT ![p] = row] /\ journal' = [journal EXCEPT ![p] = Append(journal[p], e)]
    BY TypeFacts DEF Applies
  <1>3. table[p] \in TableRow /\ table[p].rev \in Nat /\ pass[w].saw \in Nat
    BY TypeFacts, RowFacts DEF TableRow
  <1>4. /\ row \in TableRow /\ row.rev = table[p].rev + 1
        /\ row.slug = table[p].slug /\ row.origin = table[p].origin
    <2>1. /\ table[p].slug \in Slug \cup {None} /\ table[p].origin \in Event \cup {None}
          /\ pass[w].saw + 1 \in Nat /\ pass[w].saw + 1 = table[p].rev + 1
      BY <1>1, <1>3 DEF TableRow
    <2>2. row.rev = pass[w].saw + 1 /\ row.slug = table[p].slug /\ row.origin = table[p].origin
      BY <1>3 DEF TableRow
    <2>3. row \in TableRow
      BY <1>3, <2>1 DEF TableRow
    <2> QED
      BY <2>1, <2>2, <2>3
  <1>5. Append(journal[p], e) \in Seq(Event)
    BY TypeFacts, AppendProperties
  <1> HIDE DEF row
  <1>6. /\ table' \in [Process -> TableRow] /\ journal' \in [Process -> Seq(Event)]
        /\ table'[p] = row /\ journal'[p] = Append(journal[p], e)
        /\ \A q \in Process \ {p} : table'[q] = table[q] /\ journal'[q] = journal[q]
    BY <1>2, <1>4, <1>5, TypeFacts
  <1>7. Known' = Known
    <2>1. row.rev > 0
      BY <1>3, <1>4
    <2> QED
      BY <1>1, <1>6, <2>1 DEF Known
  <1> QED
    BY <1>1, <1>4, <1>6, <1>7

\* One Process more, from the event of the pass and under its slug.
LEMMA CreatesWrites ==
    ASSUME TypeInv, NEW w \in Worker, NEW p \in Process \ Known, Creates(w),
           table' = [table EXCEPT ![p] = [rev |-> 1, slug |-> pass[w].slug,
                                          origin |-> pass[w].event, status |-> "candidate"]]
    PROVE  /\ table' \in [Process -> TableRow]
           /\ table'[p].rev = 1 /\ table'[p].slug = pass[w].slug
           /\ table'[p].origin = pass[w].event
           /\ pass[w].slug \in Slug /\ pass[w].event \in Event
           /\ \A q \in Process \ {p} : table'[q] = table[q]
           /\ Known' = Known \cup {p}
  <1> DEFINE row == [rev |-> 1, slug |-> pass[w].slug, origin |-> pass[w].event,
                     status |-> "candidate"]
  <1>1. pass[w].slug \in Slug /\ pass[w].event \in Event
    BY RowFacts DEF Creates, TypeInv, PassesAreShaped, RowOK
  <1>2. row \in TableRow /\ row.rev = 1 /\ row.slug = pass[w].slug /\ row.origin = pass[w].event
    BY <1>1 DEF TableRow
  <1> HIDE DEF row
  <1>3. table' \in [Process -> TableRow] /\ table'[p] = row
        /\ \A q \in Process \ {p} : table'[q] = table[q]
    BY <1>2, TypeFacts DEF row
  <1>4. Known' = Known \cup {p}
    BY <1>2, <1>3 DEF Known
  <1> QED
    BY <1>1, <1>2, <1>3, <1>4

-----------------------------------------------------------------------------
(* Every step preserves the types.                                         *)

\* What the counts and the history are.
HistoryTypes ==
    /\ short \subseteq Event /\ broken \subseteq Event
    /\ outlived \subseteq Event /\ refused \subseteq Event
    /\ again \subseteq Event /\ repeated \subseteq Event
    /\ stops \in Nat /\ outlives \in Nat /\ refusals \in Nat /\ releases \in Nat
ItemTypes ==
    /\ item \in [Event -> {"none", "queued", "running", "done", "dead"}]
    /\ tries \in [Event -> Nat] /\ holder \in [Event -> Worker \cup {None}]
    /\ logged \subseteq Event
GraphTypes ==
    /\ table \in [Process -> TableRow] /\ journal \in [Process -> Seq(Event)]
    /\ edges \in [Event -> [Process -> Seq(Nat)]] /\ links \in [Event -> [Process -> Nat]]

LEMMA TypeParts ==
    TypeOK <=> ItemTypes /\ GraphTypes /\ pass \in [Worker -> PassRow] /\ HistoryTypes
  BY DEF TypeOK, ItemTypes, GraphTypes, HistoryTypes, TableRow, PassRow

LEMMA TypeStep == ASSUME TypeInv, EdgeBeforeEvidence, [Next]_vars PROVE TypeOK'
  <1>1. ItemTypes /\ GraphTypes /\ HistoryTypes /\ pass \in [Worker -> PassRow]
    BY TypeParts DEF TypeInv
  <1>q. ASSUME ItemTypes', GraphTypes', HistoryTypes', pass' \in [Worker -> PassRow] PROVE TypeOK'
    BY <1>q DEF TypeOK, ItemTypes, GraphTypes, HistoryTypes, TableRow, PassRow
  <1>2. CASE Outside
    <2>1. UNCHANGED <<logged, table, journal, edges, links, pass, short, broken, refused,
                      repeated, stops, refusals>>
      BY <1>2, OutsideFacts
    <2> DEFINE Counted == /\ ItemTypes' /\ outlived' \subseteq Event /\ outlives' \in Nat
                          /\ again' \subseteq Event /\ releases' \in Nat
    <2>2. Counted
      <3>1. CASE UNCHANGED vars
        BY <1>1, <3>1 DEF vars, itemVars, histVars, countVars, ItemTypes, HistoryTypes
      <3>2. ASSUME NEW e \in Event, Enqueues(e) PROVE Counted
        BY <1>1, <3>2 DEF Enqueues, histVars, countVars, ItemTypes, HistoryTypes
      <3>3. ASSUME NEW e \in Event, Outlives(e) PROVE Counted
        BY <1>1, <3>3 DEF Outlives, ItemTypes, HistoryTypes
      <3>4. ASSUME NEW e \in Event, Reannounces(e) PROVE Counted
        BY <1>1, <3>4 DEF Reannounces, ItemTypes, HistoryTypes
      <3> QED
        BY <1>2, <3>1, <3>2, <3>3, <3>4 DEF Outside
    <2>3. HistoryTypes' /\ GraphTypes'
      BY <1>1, <2>1, <2>2 DEF HistoryTypes, GraphTypes
    <2> QED
      BY <1>1, <1>q, <2>1, <2>2, <2>3
  <1>3. ASSUME NEW w \in Worker, NEW e \in Event, Claims(w, e) PROVE TypeOK'
    <2>1. pass' \in [Worker -> PassRow]
      BY <1>3, ClaimsFacts DEF Becomes
    <2>2. ItemTypes' /\ GraphTypes' /\ HistoryTypes'
      BY <1>1, <1>3 DEF Claims, ItemTypes, GraphTypes, HistoryTypes, graphVars, histVars, countVars
    <2> QED
      BY <1>q, <2>1, <2>2
  <1>4. ASSUME NEW w \in Worker, Answers(w) PROVE TypeOK'
    <2>1. pass' \in [Worker -> PassRow]
      BY <1>4, AnswersFacts DEF Becomes
    <2>2. pass[w].event \in Event
      BY <1>4, RowFacts DEF Answers
    <2>3. ItemTypes' /\ GraphTypes' /\ HistoryTypes'
      BY <1>1, <1>4, <2>2 DEF Answers, Recorded, ItemTypes, GraphTypes, HistoryTypes,
                              itemVars, graphVars, histVars, countVars
    <2> QED
      BY <1>q, <2>1, <2>3
  <1>5. ASSUME NEW w \in Worker, Quiet(w) PROVE TypeOK'
    <2>1. pass' \in [Worker -> PassRow]
      BY <1>5, NamesFacts, AffectsFacts, LinkReadsFacts, LoopsFacts, UpdateReadsFacts
         DEF Becomes, Quiet, Unchanged
    <2>2. ItemTypes' /\ GraphTypes' /\ HistoryTypes'
      BY <1>1, <1>5, QuietFacts DEF ItemTypes, GraphTypes, HistoryTypes
    <2> QED
      BY <1>q, <2>1, <2>2
  <1>6. ASSUME NEW w \in Worker, Ending(w) PROVE TypeOK'
    BY <1>1, <1>6, <1>q, EndingFacts DEF Becomes, ItemTypes, GraphTypes, HistoryTypes
  <1>7. ASSUME NEW w \in Worker, Writing(w) PROVE TypeOK'
    <2>1. pass' \in [Worker -> PassRow]
      BY <1>7, CreatesFacts, RelatesFacts, EvidencesFacts, LoopsFacts DEF Becomes, Writing, Applies
    <2>2. ItemTypes' /\ HistoryTypes'
      BY <1>1, <1>7 DEF Writing, Creates, Relates, Evidences, Applies, ItemTypes, HistoryTypes,
                        itemVars, histVars, countVars
    <2>3. GraphTypes'
      <3>1. CASE Creates(w)
        BY <1>1, <3>1, CreatesFacts, CreatesWrites DEF Creates, GraphTypes
      <3>2. CASE ~Creates(w)
        <4>1. PICK e \in Event : pass[w].event = e
          BY <1>7, <3>2, RowFacts DEF Writing, Relates, Evidences, Applies
        <4>2. PICK p \in Process : pass[w].at = p
          BY <1>7, <3>2, RowFacts DEF Writing, Relates, Evidences, Applies, Placed
        <4>3. CASE Relates(w)
          BY <1>1, <4>1, <4>2, <4>3, RelatesWrites DEF Relates, GraphTypes
        <4>4. CASE Evidences(w)
          BY <1>1, <4>1, <4>2, <4>4, EvidencesWrites DEF Evidences, GraphTypes
        <4>5. CASE Applies(w)
          BY <1>1, <4>1, <4>2, <4>5, AppliesWrites DEF Applies, GraphTypes
        <4> QED
          BY <1>7, <3>2, <4>3, <4>4, <4>5 DEF Writing
      <3> QED
        BY <3>1, <3>2
    <2> QED
      BY <1>q, <2>1, <2>2, <2>3
  <1> QED
    BY <1>2, <1>3, <1>4, <1>5, <1>6, <1>7, StepCases DEF PassStep

\* A Process stays, with its slug and its origin, and so does a recorded run.
LEMMA TableStep ==
    ASSUME TypeInv, [Next]_vars
    PROVE  /\ Known \subseteq Known' /\ logged \subseteq logged'
           /\ \A p \in Known : table'[p].slug = table[p].slug /\ table'[p].origin = table[p].origin
           /\ (\A w \in Worker : ~Creates(w)) => Known' = Known
  <1>1. CASE table' = table /\ logged \subseteq logged'
    BY <1>1 DEF Known
  <1>2. CASE Outside
    BY <1>1, <1>2, OutsideFacts
  <1>3. ASSUME NEW w \in Worker, NEW e \in Event, Claims(w, e) PROVE table' = table /\ logged \subseteq logged'
    BY <1>3 DEF Claims, graphVars
  <1>4. ASSUME NEW w \in Worker, Answers(w) PROVE table' = table /\ logged \subseteq logged'
    BY <1>4 DEF Answers, Recorded, graphVars
  <1>5. ASSUME NEW w \in Worker, Quiet(w) \/ Ending(w) PROVE table' = table /\ logged \subseteq logged'
    BY <1>5, QuietFacts, EndingFacts
  <1>6. ASSUME NEW w \in Worker, Relates(w) \/ Evidences(w) PROVE table' = table /\ logged \subseteq logged'
    BY <1>6 DEF Relates, Evidences
  <1>7. ASSUME NEW w \in Worker, Creates(w)
        PROVE  /\ Known \subseteq Known' /\ logged \subseteq logged'
               /\ \A p \in Known : table'[p].slug = table[p].slug /\ table'[p].origin = table[p].origin
    <2>1. PICK p \in Process \ Known :
            table' = [table EXCEPT ![p] = [rev |-> 1, slug |-> pass[w].slug,
                                  origin |-> pass[w].event, status |-> "candidate"]]
      BY <1>7, CreatesFacts
    <2>2. Known' = Known \cup {p} /\ \A q \in Process \ {p} : table'[q] = table[q]
      BY <1>7, <2>1, CreatesWrites
    <2>3. Known \subseteq Process \ {p}
      BY DEF Known
    <2> QED
      BY <1>7, <2>2, <2>3 DEF Creates
  <1>8. ASSUME NEW w \in Worker, Applies(w)
        PROVE  /\ Known' = Known /\ logged \subseteq logged'
               /\ \A p \in Known : table'[p].slug = table[p].slug /\ table'[p].origin = table[p].origin
    <2>1. pass[w].event \in Event /\ pass[w].at \in Process /\ Known \subseteq Process
      BY <1>8, RowFacts DEF Applies, Placed, Known
    <2>2. PICK e \in Event, p \in Process : pass[w].event = e /\ pass[w].at = p
      BY <2>1
    <2> QED
      BY <1>8, <2>1, <2>2, AppliesWrites DEF Applies
  <1> QED
    BY <1>1, <1>2, <1>3, <1>4, <1>5, <1>6, <1>7, <1>8, StepCases, Zenon DEF PassStep, Writing

LEMMA RowOKGrows ==
    ASSUME NEW r, NEW known, NEW log, NEW known2, NEW log2,
           RowOK(r, known, log), known \subseteq known2, log \subseteq log2
    PROVE  RowOK(r, known2, log2)
  BY DEF RowOK

LEMMA IdleIsOK == \A known, log : RowOK(Idle, known, log)
  BY DEF RowOK, Idle, Planned, Placed

\* The row a step leaves is in shape.
LEMMA NewRowOK ==
    ASSUME TypeInv, [Next]_vars, NEW w \in Worker, PassStep(w)
    PROVE  \E r \in PassRow : Becomes(w, r) /\ RowOK(r, Known', logged')
  <1> USE DEF Planned, Placed
  <1>1. Known \subseteq Known' /\ logged \subseteq logged'
    BY TableStep
  <1>2. /\ RowOK(pass[w], Known, logged)
        /\ pass[w].step \in {"idle", "asked"} \cup Planned
    BY RowFacts DEF TypeInv, PassesAreShaped, Step
  <1>k. ASSUME NEW r \in PassRow, r.event = pass[w].event, r.event \in Event,
               r.event \in logged', r.shown \subseteq Known',
               \A a \in r.affected : a[1] \in Known',
               \/ r.step = "looping" /\ r.at = None
               \/ r.step = "naming" /\ r.at = None /\ r.slug \in Slug
               \/ r.step \in Placed /\ r.at \in Known'
        PROVE  RowOK(r, Known', logged')
    BY <1>k DEF RowOK
  <1>o. /\ pass[w].shown \subseteq Known' /\ \A a \in pass[w].affected : a[1] \in Known'
        /\ pass[w].step \in Planned => pass[w].event \in Event /\ pass[w].event \in logged'
        /\ pass[w].step \in Placed => pass[w].at \in Known'
        /\ pass[w].step \in {"asked", "looping", "naming"} => pass[w].at = None
    BY <1>1, <1>2 DEF RowOK
  <1>3. ASSUME NEW e \in Event, Claims(w, e)
        PROVE  \E r \in PassRow : Becomes(w, r) /\ RowOK(r, Known', logged')
    BY <1>1, <1>3, ClaimsFacts DEF RowOK
  <1>4. CASE Answers(w)
    <2>1. pass[w].event \in Event /\ pass[w].event \in logged' /\ pass[w].step = "asked"
      BY <1>4, RowFacts DEF Answers, Recorded
    <2> QED
      BY <1>4, <1>o, <1>k, <2>1, AnswersFacts
  <1>5. CASE Ending(w)
    BY <1>5, EndingFacts, IdleFacts, IdleIsOK
  <1>6. CASE Names(w)
    <2>1. pass[w].step = "looping"
      BY <1>6 DEF Names
    <2> QED
      BY <1>6, <2>1, <1>o, <1>k, NamesFacts
  <1>7. CASE Affects(w)
    <2>1. pass[w].step = "looping"
      BY <1>7 DEF Affects
    <2> QED
      BY <1>7, <2>1, <1>o, <1>k, AffectsFacts
  <1>8. CASE LinkReads(w)
    <2>1. pass[w].step = "linking"
      BY <1>8 DEF LinkReads
    <2> QED
      BY <1>8, <2>1, <1>o, <1>k, LinkReadsFacts
  <1>9. CASE Unchanged(w) \/ Applies(w)
    <2>1. pass[w].step \in {"updating", "applying"} /\ Loops(w)
      BY <1>9 DEF Unchanged, Applies
    <2> QED
      BY <2>1, <1>o, <1>k, LoopsFacts
  <1>10. CASE UpdateReads(w)
    <2>1. pass[w].step = "updating"
      BY <1>10 DEF UpdateReads
    <2> QED
      BY <1>10, <2>1, <1>o, <1>k, UpdateReadsFacts
  <1>11. CASE Creates(w)
    <2>1. pass[w].step = "naming"
      BY <1>11 DEF Creates
    <2>2. PICK p \in Process \ Known, r \in PassRow :
            /\ table' = [table EXCEPT ![p] = [rev |-> 1, slug |-> pass[w].slug,
                                  origin |-> pass[w].event, status |-> "candidate"]]
            /\ Becomes(w, r)
            /\ r.event = pass[w].event /\ r.shown = pass[w].shown /\ r.new = pass[w].new
            /\ r.affected = pass[w].affected /\ r.step = "linking" /\ r.at = p
      BY <1>11, CreatesFacts
    <2>3. Known' = Known \cup {p}
      <3>1. Creates(w) /\ table' = [table EXCEPT ![p] = [rev |-> 1, slug |-> pass[w].slug,
                                  origin |-> pass[w].event, status |-> "candidate"]]
        BY <1>11, <2>2
      <3> QED
        BY <3>1, CreatesWrites
    <2>4. p \in Known'
      BY <2>3
    <2> QED
      BY <2>1, <2>2, <2>4, <1>o, <1>k
  <1>12. CASE Relates(w)
    <2>1. pass[w].step = "relating"
      BY <1>12 DEF Relates
    <2> QED
      BY <1>12, <2>1, <1>o, <1>k, RelatesFacts
  <1>13. CASE Evidences(w)
    <2>1. pass[w].step = "evidencing"
      BY <1>13 DEF Evidences
    <2> QED
      BY <1>13, <2>1, <1>o, <1>k, EvidencesFacts
  <1> QED
    BY <1>3, <1>4, <1>5, <1>6, <1>7, <1>8, <1>9, <1>10, <1>11, <1>12, <1>13 DEF PassStep, Quiet, Writing

\* Who writes what of the graph.
LEMMA GraphStep ==
    ASSUME TypeInv, EdgeBeforeEvidence, [Next]_vars
    PROVE  /\ \A e \in Event, p \in Process :
                 \/ edges'[e][p] = edges[e][p]
                 \/ \E w \in Worker : Relates(w) /\ pass[w].event = e /\ pass[w].at = p
           /\ \A e \in Event, p \in Process :
                 \/ links'[e][p] = links[e][p]
                 \/ \E w \in Worker : Evidences(w) /\ pass[w].event = e /\ pass[w].at = p
           /\ \A p \in Process :
                 \/ journal'[p] = journal[p]
                 \/ \E w \in Worker : Applies(w) /\ pass[w].at = p
           /\ \A p \in Process :
                 \/ table'[p] = table[p]
                 \/ \E w \in Worker : Creates(w)
                 \/ \E w \in Worker : Applies(w) /\ pass[w].at = p
  <1> DEFINE Edges == \A e \in Event, p \in Process :
                 \/ edges'[e][p] = edges[e][p]
                 \/ \E w \in Worker : Relates(w) /\ pass[w].event = e /\ pass[w].at = p
             Links == \A e \in Event, p \in Process :
                 \/ links'[e][p] = links[e][p]
                 \/ \E w \in Worker : Evidences(w) /\ pass[w].event = e /\ pass[w].at = p
             Journal == \A p \in Process :
                 \/ journal'[p] = journal[p]
                 \/ \E w \in Worker : Applies(w) /\ pass[w].at = p
             Table == \A p \in Process :
                 \/ table'[p] = table[p]
                 \/ \E w \in Worker : Creates(w)
                 \/ \E w \in Worker : Applies(w) /\ pass[w].at = p
  <1>1. CASE UNCHANGED <<table, journal, edges, links>>
    BY <1>1
  <1>2. CASE Outside
    BY <1>1, <1>2, OutsideFacts
  <1>3. ASSUME NEW w \in Worker,
               (\E e \in Event : Claims(w, e)) \/ Answers(w) \/ Quiet(w) \/ Ending(w)
        PROVE  UNCHANGED <<table, journal, edges, links>>
    BY <1>3, QuietFacts, EndingFacts DEF Claims, Answers, graphVars
  <1>4. ASSUME NEW w \in Worker, Creates(w) PROVE Edges /\ Links /\ Journal /\ Table
    BY <1>4 DEF Creates
  <1>5. ASSUME NEW w \in Worker, Relates(w) \/ Evidences(w) \/ Applies(w)
        PROVE  Edges /\ Links /\ Journal /\ Table
    <2>1. pass[w].event \in Event /\ pass[w].at \in Process
      BY <1>5, RowFacts DEF Relates, Evidences, Applies, Placed
    <2>2. PICK e \in Event, p \in Process : pass[w].event = e /\ pass[w].at = p
      BY <2>1
    <2>3. CASE Relates(w)
      <3>1. \A d \in Event, q \in Process : d # e \/ q # p => edges'[d][q] = edges[d][q]
        BY <2>2, <2>3, RelatesWrites
      <3>2. UNCHANGED <<links, journal, table>>
        BY <2>3 DEF Relates
      <3> QED
        BY <2>2, <2>3, <3>1, <3>2
    <2>4. CASE Evidences(w)
      <3>1. \A d \in Event, q \in Process : d # e \/ q # p => links'[d][q] = links[d][q]
        BY <2>2, <2>4, EvidencesWrites
      <3>2. UNCHANGED <<edges, journal, table>>
        BY <2>4 DEF Evidences
      <3> QED
        BY <2>2, <2>4, <3>1, <3>2
    <2>5. CASE Applies(w)
      <3>1. \A q \in Process \ {p} : table'[q] = table[q] /\ journal'[q] = journal[q]
        BY <2>2, <2>5, AppliesWrites
      <3>2. UNCHANGED <<edges, links>>
        BY <2>5 DEF Applies
      <3> QED
        BY <2>2, <2>5, <3>1, <3>2
    <2> QED
      BY <1>5, <2>3, <2>4, <2>5
  <1>6. Edges /\ Links /\ Journal /\ Table
    BY <1>1, <1>2, <1>3, <1>4, <1>5, StepCases DEF PassStep, Writing
  <1> QED
    BY <1>6

\* A Process nobody has created is left alone.
LEMMA BlankStep ==
    ASSUME TypeInv, EdgeBeforeEvidence, [Next]_vars
    PROVE  UnknownIsBlank'
  <1>1. Known \subseteq Known' /\ Known \subseteq Process
    BY TableStep DEF Known
  <1>2. /\ IsFiniteSet(Known)
        /\ \A p \in Process \ Known :
              /\ table[p] = NoProcess /\ journal[p] = <<>>
              /\ \A e \in Event : edges[e][p] = <<>> /\ links[e][p] = 0
        /\ \A p \in Known : table[p].slug \in Slug /\ table[p].origin \in Event
    BY DEF TypeInv, UnknownIsBlank
  <1>3. \A w \in Worker : Relates(w) \/ Evidences(w) \/ Applies(w) => pass[w].at \in Known
    BY RowFacts DEF Relates, Evidences, Applies, Placed
  <1>4. ASSUME NEW p \in Process \ Known
        PROVE  /\ journal'[p] = <<>>
               /\ \A e \in Event : edges'[e][p] = <<>> /\ links'[e][p] = 0
    BY <1>2, <1>3, GraphStep
  <1>5. IsFiniteSet(Known') /\ \A p \in Known' : table'[p].slug \in Slug /\ table'[p].origin \in Event
    <2>1. CASE \A w \in Worker : ~Creates(w)
      BY <1>2, <2>1, TableStep
    <2>2. ASSUME NEW w \in Worker, Creates(w)
          PROVE  IsFiniteSet(Known') /\ \A p \in Known' : table'[p].slug \in Slug /\ table'[p].origin \in Event
      <3>1. PICK p \in Process \ Known :
              table' = [table EXCEPT ![p] = [rev |-> 1, slug |-> pass[w].slug,
                                  origin |-> pass[w].event, status |-> "candidate"]]
        BY <2>2, CreatesFacts
      <3>2. /\ Known' = Known \cup {p}
            /\ table'[p].slug \in Slug /\ table'[p].origin \in Event
        BY <2>2, <3>1, CreatesWrites
      <3>3. \A q \in Known : table'[q].slug \in Slug /\ table'[q].origin \in Event
        BY <1>2, TableStep
      <3>4. IsFiniteSet(Known')
        BY <1>2, <3>2, FS_AddElement
      <3> QED
        BY <3>2, <3>3, <3>4
    <2> QED
      BY <2>1, <2>2
  <1>6. \A p \in Process \ Known' : table'[p] = NoProcess
    <2> SUFFICES ASSUME NEW p \in Process \ Known' PROVE table'[p] = NoProcess
      OBVIOUS
    <2>1. p \notin Known
      BY <1>1
    <2>2. CASE \E w \in Worker : Creates(w)
      <3>1. PICK w \in Worker : Creates(w)
        BY <2>2
      <3>2. PICK q \in Process \ Known :
              table' = [table EXCEPT ![q] = [rev |-> 1, slug |-> pass[w].slug,
                                  origin |-> pass[w].event, status |-> "candidate"]]
        BY <3>1, CreatesFacts
      <3>3. Known' = Known \cup {q} /\ \A x \in Process \ {q} : table'[x] = table[x]
        <4> HIDE <2>1, <1>1, <1>2
        <4> QED
          BY <3>1, <3>2, CreatesWrites
      <3> QED
        BY <1>2, <2>1, <3>3
    <2>3. CASE ~\E w \in Worker : Creates(w)
      BY <1>2, <1>3, <2>1, <2>3, GraphStep
    <2> QED
      BY <2>2, <2>3
  <1>7. \A p \in Process \ Known' :
              /\ table'[p] = NoProcess /\ journal'[p] = <<>>
              /\ \A e \in Event : edges'[e][p] = <<>> /\ links'[e][p] = 0
    BY <1>1, <1>4, <1>6
  <1> QED
    BY <1>5, <1>7 DEF UnknownIsBlank, NoProcess

LEMMA NumberedStep ==
    ASSUME TypeInv, EdgeBeforeEvidence, [Next]_vars
    PROVE  EdgesAreNumbered'
  <1>1. ASSUME NEW e \in Event, NEW p \in Process
        PROVE  \A i \in DOMAIN edges'[e][p] : edges'[e][p][i] > 0
    <2>1. CASE edges'[e][p] = edges[e][p]
      BY <2>1 DEF TypeInv, EdgesAreNumbered
    <2>2. ASSUME NEW w \in Worker, Relates(w), pass[w].event = e, pass[w].at = p
          PROVE  \A i \in DOMAIN edges'[e][p] : edges'[e][p][i] > 0
      BY <2>2, RelatesWrites
    <2> QED
      BY <2>1, <2>2, GraphStep
  <1> QED
    BY <1>1 DEF EdgesAreNumbered

LEMMA TypeInvStep ==
    ASSUME TypeInv, EdgeBeforeEvidence, [Next]_vars
    PROVE  TypeInv'
  <1>1. PassesAreShaped'
    <2>1. \A w \in Worker : RowOK(pass[w], Known', logged')
      BY TableStep, RowOKGrows DEF TypeInv, PassesAreShaped
    <2>2. CASE pass' = pass
      BY <2>1, <2>2 DEF PassesAreShaped
    <2>3. ASSUME NEW w \in Worker, PassStep(w) PROVE PassesAreShaped'
      <3>1. PICK r \in PassRow : Becomes(w, r) /\ RowOK(r, Known', logged')
        BY <2>3, NewRowOK
      <3>2. \A v \in Worker : RowOK(pass'[v], Known', logged')
        BY <2>1, <3>1 DEF Becomes
      <3> QED
        BY <3>2 DEF PassesAreShaped
    <2> QED
      BY <2>2, <2>3, StepCases, OutsideFacts
  <1> QED
    BY <1>1, TypeStep, BlankStep, NumberedStep DEF TypeInv

-----------------------------------------------------------------------------
(* A revision for each change.                                             *)

LEMMA RevisionStep ==
    ASSUME TypeInv, EdgeBeforeEvidence, RevisionPerChange, [Next]_vars
    PROVE  RevisionPerChange'
  <1>1. ASSUME NEW p \in Known' PROVE table'[p].rev = 1 + Len(journal'[p])
    <2>0. p \in Process /\ Known \subseteq Process
      BY DEF Known
    <2>1. CASE p \in Known /\ table'[p] = table[p] /\ journal'[p] = journal[p]
      BY <2>1 DEF RevisionPerChange
    <2>2. ASSUME NEW w \in Worker, Applies(w), pass[w].at = p PROVE table'[p].rev = 1 + Len(journal'[p])
      <3>1. PICK e \in Event : pass[w].event = e
        BY <2>2, RowFacts DEF Applies
      <3>2. /\ p \in Known /\ table'[p].rev = table[p].rev + 1 /\ journal'[p] = Append(journal[p], e)
        BY <2>0, <2>2, <3>1, AppliesWrites
      <3>3. table[p].rev = 1 + Len(journal[p])
        BY <3>2 DEF RevisionPerChange
      <3>4. journal[p] \in Seq(Event)
        BY <2>0, TypeFacts
      <3>5. Len(Append(journal[p], e)) = Len(journal[p]) + 1 /\ Len(journal[p]) \in Nat
        BY <3>4, AppendProperties
      <3> QED
        BY <3>2, <3>3, <3>5
    <2>3. ASSUME NEW w \in Worker, Creates(w) PROVE table'[p].rev = 1 + Len(journal'[p])
      <3>1. PICK q \in Process \ Known :
              table' = [table EXCEPT ![q] = [rev |-> 1, slug |-> pass[w].slug,
                                  origin |-> pass[w].event, status |-> "candidate"]]
        BY <2>3, CreatesFacts
      <3>2. /\ Known' = Known \cup {q} /\ table'[q].rev = 1
            /\ \A x \in Process \ {q} : table'[x] = table[x]
        BY <2>3, <3>1, CreatesWrites
      <3>3. journal' = journal /\ journal[q] = <<>>
        BY <2>3 DEF Creates, TypeInv, UnknownIsBlank
      <3> QED
        BY <2>0, <2>1, <3>2, <3>3
    <2>4. CASE \A w \in Worker : ~Creates(w)
      <3>1. Known' = Known
        BY <2>4, TableStep
      <3> QED
        BY <2>0, <2>1, <2>2, <2>4, <3>1, GraphStep
    <2> QED
      BY <2>3, <2>4
  <1> QED
    BY <1>1 DEF RevisionPerChange

-----------------------------------------------------------------------------
(* The evidence.                                                           *)

\* How a pass comes to a step, and where it is then.
ComesTo(w, r) ==
    /\ Becomes(w, r)
    /\ \/ r = Idle /\ Ending(w)
       \/ r.event = pass[w].event /\ ~Ending(w)
       \/ \E e \in Event : Claims(w, e) /\ r.event = e /\ r.step = "asked" /\ r.at = None
    /\ r.step = "relating" => LinkReads(w) /\ r.at = pass[w].at /\ r.saw = CurrentEdge(w)
    /\ r.step = "evidencing" => Relates(w) /\ r.at = pass[w].at
    /\ r.step \in {"updating", "applying"} =>
          (Evidences(w) \/ UpdateReads(w)) /\ r.at = pass[w].at
    /\ r.at # pass[w].at =>
          \/ Ending(w) \/ Creates(w) \/ Affects(w)
          \/ Evidences(w) \/ Unchanged(w) \/ Applies(w) \/ \E e \in Event : Claims(w, e)

\* A pass that goes on does not end.
LEMMA GoingIsNotEnding ==
    ASSUME TypeInv, NEW w \in Worker, NEW r \in PassRow, Becomes(w, r), r.step # "idle"
    PROVE  ~Ending(w)
  <1>1. Ending(w) => pass'[w] = Idle
    BY EndingFacts DEF Becomes
  <1> QED
    BY <1>1, IdleFacts DEF Becomes

LEMMA PlaceFacts ==
    ASSUME TypeInv, NEW w \in Worker, PassStep(w)
    PROVE  \E r \in PassRow : ComesTo(w, r)
  <1>1. ASSUME NEW e \in Event, Claims(w, e) PROVE \E r \in PassRow : ComesTo(w, r)
    BY <1>1, ClaimsFacts DEF ComesTo
  <1>2. CASE Answers(w)
    BY <1>2, AnswersFacts, GoingIsNotEnding DEF ComesTo
  <1>3. CASE Ending(w)
    BY <1>3, EndingFacts, IdleFacts DEF ComesTo
  <1>4. CASE Names(w)
    BY <1>4, NamesFacts, GoingIsNotEnding DEF ComesTo
  <1>5. CASE Affects(w)
    BY <1>5, AffectsFacts, GoingIsNotEnding DEF ComesTo
  <1>6. CASE LinkReads(w)
    BY <1>6, LinkReadsFacts, GoingIsNotEnding DEF ComesTo
  <1>7. CASE Unchanged(w) \/ Applies(w)
    <2>1. Loops(w)
      BY <1>7 DEF Unchanged, Applies
    <2> QED
      BY <1>7, <2>1, LoopsFacts, GoingIsNotEnding DEF ComesTo
  <1>8. CASE UpdateReads(w)
    BY <1>8, UpdateReadsFacts, GoingIsNotEnding DEF ComesTo
  <1>9. CASE Creates(w)
    BY <1>9, CreatesFacts, GoingIsNotEnding DEF ComesTo
  <1>10. CASE Relates(w)
    BY <1>10, RelatesFacts, GoingIsNotEnding DEF ComesTo
  <1>11. CASE Evidences(w)
    BY <1>11, EvidencesFacts, GoingIsNotEnding DEF ComesTo
  <1> QED
    BY <1>1, <1>2, <1>3, <1>4, <1>5, <1>6, <1>7, <1>8, <1>9, <1>10, <1>11
       DEF PassStep, Quiet, Writing

\* Links, edges and broken passes stay.
LEMMA EvidenceGrows ==
    ASSUME TypeInv, EdgeBeforeEvidence, [Next]_vars
    PROVE  /\ \A e \in Event, p \in Process :
                 /\ links[e][p] \in Nat /\ links'[e][p] \in Nat /\ links[e][p] <= links'[e][p]
                 /\ edges[e][p] # <<>> => edges'[e][p] # <<>>
           /\ broken \subseteq broken'
  <1>1. ASSUME NEW e \in Event, NEW p \in Process
        PROVE  links[e][p] \in Nat /\ links'[e][p] \in Nat /\ links[e][p] <= links'[e][p]
    <2>1. links[e][p] \in Nat
      BY TypeFacts
    <2>2. ASSUME NEW w \in Worker, Evidences(w), pass[w].event = e, pass[w].at = p
          PROVE  links'[e][p] = links[e][p] + 1
      BY <2>2, EvidencesWrites
    <2> QED
      BY <2>1, <2>2, GraphStep
  <1>2. ASSUME NEW e \in Event, NEW p \in Process, edges[e][p] # <<>> PROVE edges'[e][p] # <<>>
    <2>1. ASSUME NEW w \in Worker, Relates(w), pass[w].event = e, pass[w].at = p
          PROVE  edges'[e][p] # <<>>
      BY <2>1, RelatesWrites
    <2> QED
      BY <1>2, <2>1, GraphStep
  <1>3. broken \subseteq broken'
    <2>1. ASSUME NEW w \in Worker, PassStep(w) PROVE broken \subseteq broken'
      <3>1. CASE Quiet(w) \/ Ending(w)
        BY <3>1, QuietFacts, EndingFacts
      <3>2. CASE \E e \in Event : Claims(w, e)
        BY <3>2 DEF Claims, histVars
      <3>3. CASE Answers(w) \/ Writing(w)
        BY <3>3 DEF Answers, Writing, Creates, Relates, Evidences, Applies, histVars
      <3> QED
        BY <2>1, <3>1, <3>2, <3>3 DEF PassStep
    <2> QED
      BY <2>1, StepCases, OutsideFacts
  <1> QED
    BY <1>1, <1>2, <1>3

\* A step is of one pass or of none.
LEMMA MoveCases ==
    ASSUME TypeInv, [Next]_vars
    PROVE  \/ pass' = pass /\ Outside
           \/ \E w \in Worker, r \in PassRow : PassStep(w) /\ ComesTo(w, r)
  BY StepCases, OutsideFacts, PlaceFacts

LEMMA EdgeBeforeStep ==
    ASSUME TypeInv, EdgeBeforeEvidence, [Next]_vars
    PROVE  EdgeBeforeEvidence'
  <1>1. ASSUME NEW e \in Event, NEW p \in Process, links'[e][p] > 0 PROVE edges'[e][p] # <<>>
    <2>1. CASE links'[e][p] = links[e][p]
      BY <1>1, <2>1, EvidenceGrows DEF EdgeBeforeEvidence
    <2>2. ASSUME NEW w \in Worker, Evidences(w), pass[w].event = e, pass[w].at = p
          PROVE  edges'[e][p] # <<>>
      BY <2>2, EvidenceGrows DEF EdgeBeforeEvidence, Evidences
    <2> QED
      BY <2>1, <2>2, GraphStep
  <1>2. ASSUME NEW e \in Event, NEW p \in Process, NEW v \in Worker,
               pass'[v].event = e, pass'[v].at = p,
               pass'[v].step = "evidencing" \/ (pass'[v].step = "relating" /\ pass'[v].saw > 0)
        PROVE  edges'[e][p] # <<>>
    <2>1. CASE pass'[v] = pass[v]
      BY <1>2, <2>1, EvidenceGrows DEF EdgeBeforeEvidence
    <2>2. ASSUME NEW r \in PassRow, ComesTo(v, r) PROVE edges'[e][p] # <<>>
      <3>1. pass'[v] = r /\ r.event = e /\ r.at = p
        BY <1>2, <2>2 DEF ComesTo, Becomes
      <3>2. pass[v].event = e
        BY <1>2, <2>2, <3>1, IdleFacts DEF ComesTo
      <3>3. CASE r.step = "evidencing"
        BY <2>2, <3>1, <3>2, <3>3, RelatesWrites DEF ComesTo
      <3>4. CASE r.step = "relating" /\ r.saw > 0
        <4>1. pass[v].at = p /\ CurrentEdge(v) > 0
          BY <2>2, <3>1, <3>4 DEF ComesTo
        <4>2. edges[e][p] # <<>>
          BY <3>2, <4>1 DEF CurrentEdge, EdgeOf
        <4> QED
          BY <4>2, EvidenceGrows
      <3> QED
        BY <1>2, <3>1, <3>3, <3>4
    <2>3. pass'[v] = pass[v] \/ \E r \in PassRow : ComesTo(v, r)
      BY MoveCases DEF ComesTo, Becomes
    <2> QED
      BY <2>1, <2>2, <2>3
  <1> QED
    BY <1>1, <1>2 DEF EdgeBeforeEvidence

\* Where a new Process comes from.
LEMMA NewProcess ==
    ASSUME TypeInv, [Next]_vars, NEW p \in Known', p \notin Known
    PROVE  \E w \in Worker, r \in PassRow :
              /\ Creates(w) /\ ComesTo(w, r) /\ pass[w].step = "naming"
              /\ r.event = pass[w].event /\ r.at = p
              /\ r.shown = pass[w].shown /\ r.new = pass[w].new /\ r.affected = pass[w].affected
              /\ r.step = "linking"
              /\ table'[p].origin = pass[w].event /\ table'[p].slug = pass[w].slug
              /\ pass[w].event \in Event /\ pass[w].slug \in Slug
              /\ Known' = Known \cup {p}
  <1>1. PICK w \in Worker : Creates(w)
    BY TableStep
  <1>2. PICK q \in Process \ Known, r \in PassRow :
              /\ table' = [table EXCEPT ![q] = [rev |-> 1, slug |-> pass[w].slug,
                                  origin |-> pass[w].event, status |-> "candidate"]]
              /\ Becomes(w, r)
              /\ r.event = pass[w].event /\ r.shown = pass[w].shown /\ r.new = pass[w].new
              /\ r.affected = pass[w].affected /\ r.step = "linking" /\ r.at = q
    BY <1>1, CreatesFacts
  <1>3. /\ table'[q].slug = pass[w].slug /\ table'[q].origin = pass[w].event
        /\ pass[w].slug \in Slug /\ pass[w].event \in Event
        /\ Known' = Known \cup {q}
    BY <1>1, <1>2, CreatesWrites
  <1>4. p = q
    BY <1>3
  <1>5. ComesTo(w, r)
    BY <1>1, <1>2, GoingIsNotEnding DEF ComesTo
  <1>6. pass[w].step = "naming"
    BY <1>1 DEF Creates
  <1> QED
    BY <1>1, <1>2, <1>3, <1>4, <1>5, <1>6

LEMMA WrittenStep ==
    ASSUME TypeInv, EdgeBeforeEvidence, WrittenIsLogged, [Next]_vars
    PROVE  WrittenIsLogged'
  <1>1. ASSUME NEW e \in Event \ logged', NEW p \in Process
        PROVE  edges'[e][p] = <<>> /\ links'[e][p] = 0 /\ table'[p].origin # e
    <2>1. e \notin logged
      BY TableStep
    <2>2. edges[e][p] = <<>> /\ links[e][p] = 0 /\ table[p].origin # e
      BY <2>1 DEF WrittenIsLogged
    <2>3. ASSUME NEW w \in Worker, pass[w].step \in Planned PROVE pass[w].event # e
      BY <2>1, <2>3 DEF TypeInv, PassesAreShaped, RowOK
    <2>4. ASSUME NEW w \in Worker, Relates(w) \/ Evidences(w) \/ Creates(w) PROVE pass[w].event # e
      BY <2>3, <2>4 DEF Relates, Evidences, Creates, Planned, Placed
    <2>5. edges'[e][p] = <<>> /\ links'[e][p] = 0
      BY <2>2, <2>4, GraphStep
    <2>6. CASE p \in Known
      BY <2>2, <2>5, <2>6, TableStep
    <2>7. CASE p \in Known' /\ p \notin Known
      BY <2>4, <2>5, <2>7, NewProcess
    <2>8. CASE p \notin Known'
      <3>1. table'[p] = NoProcess
        BY <2>8, BlankStep DEF UnknownIsBlank, NoProcess
      <3>2. table'[p].origin = None /\ None # e
        BY <3>1, DiscoveryAssumption DEF NoProcess
      <3> QED
        BY <2>5, <3>2
    <2> QED
      BY <2>6, <2>7, <2>8
  <1> QED
    BY <1>1 DEF WrittenIsLogged

LEMMA ChangingIsFinite ==
    ASSUME NEW e \in Event, NEW p \in Process
    PROVE  IsFiniteSet(Changing(e, p)) /\ Cardinality(Changing(e, p)) \in Nat
  BY DiscoveryAssumption, FS_Subset, FS_CardinalityType DEF Changing

\* A pass that may change a Process has given its evidence.
LEMMA ChangingStep ==
    ASSUME TypeInv, [Next]_vars, NEW e \in Event, NEW p \in Process, NEW v \in Changing(e, p)'
    PROVE  v \in Worker /\ (v \in Changing(e, p) \/ (Evidences(v) /\ pass[v].event = e /\ pass[v].at = p))
  <1>1. /\ v \in Worker /\ pass'[v].event = e /\ pass'[v].at = p
        /\ pass'[v].step \in {"updating", "applying"}
    BY DEF Changing
  <1>2. CASE pass'[v] = pass[v]
    BY <1>1, <1>2 DEF Changing
  <1>3. ASSUME NEW r \in PassRow, ComesTo(v, r)
        PROVE  v \in Changing(e, p) \/ (Evidences(v) /\ pass[v].event = e /\ pass[v].at = p)
    <2>1. pass'[v] = r
      BY <1>3 DEF ComesTo, Becomes
    <2>2. pass[v].event = e /\ pass[v].at = p /\ (Evidences(v) \/ UpdateReads(v))
      BY <1>1, <1>3, <2>1, IdleFacts DEF ComesTo
    <2> QED
      BY <1>1, <2>2 DEF UpdateReads, Changing
  <1>4. pass'[v] = pass[v] \/ \E r \in PassRow : ComesTo(v, r)
    BY <1>1, MoveCases DEF ComesTo, Becomes
  <1> QED
    BY <1>1, <1>2, <1>3, <1>4

LEMMA CoverStep ==
    ASSUME TypeInv, EdgeBeforeEvidence, EvidenceCovers, [Next]_vars
    PROVE  EvidenceCovers'
  <1>1. ASSUME NEW e \in Event, NEW p \in Process
        PROVE  Cardinality(Occurs(journal'[p], e)) + Cardinality(Changing(e, p)') <= links'[e][p]
    <2> DEFINE A == Changing(e, p)
               B == Changing(e, p)'
    <2>1. /\ Cardinality(Occurs(journal[p], e)) + Cardinality(A) <= links[e][p]
          /\ links[e][p] \in Nat /\ journal[p] \in Seq(Event)
      BY TypeFacts DEF EvidenceCovers, Moves, Occurs
    <2>2. /\ IsFiniteSet(A) /\ Cardinality(A) \in Nat
          /\ Cardinality(Occurs(journal[p], e)) \in Nat
      BY <2>1, ChangingIsFinite, OccurrencesAfterAppend
    <2>3. \A v \in B : v \in Worker /\
             (v \in A \/ (Evidences(v) /\ pass[v].event = e /\ pass[v].at = p))
      BY ChangingStep
    <2>4. \A v \in B : pass'[v].step \in {"updating", "applying"}
      BY DEF Changing
    <2> HIDE DEF A, B
    <2>5. ASSUME NEW w \in Worker, Evidences(w), pass[w].event = e, pass[w].at = p
          PROVE  Cardinality(Occurs(journal'[p], e)) + Cardinality(B) <= links'[e][p]
      <3>1. links'[e][p] = links[e][p] + 1 /\ journal' = journal
        <4>1. links'[e][p] = links[e][p] + 1
          BY <2>5, EvidencesWrites
        <4> QED
          BY <2>5, <4>1 DEF Evidences
      <3>2. PICK r \in PassRow : Becomes(w, r)
        BY <2>5, EvidencesFacts
      <3>3. B \subseteq A \cup {w}
        BY <2>3, <2>4, <3>2 DEF Becomes, Evidences
      <3>4. IsFiniteSet(A \cup {w}) /\ Cardinality(A \cup {w}) <= Cardinality(A) + 1
        <4>1. CASE w \in A
          <5>1. A \cup {w} = A
            BY <4>1
          <5>2. IsFiniteSet(A \cup {w}) /\ Cardinality(A \cup {w}) = Cardinality(A)
            BY <2>2, <5>1, Zenon
          <5> QED
            BY <2>2, <5>2
        <4>2. CASE w \notin A
          <5>1. IsFiniteSet(A \cup {w}) /\ Cardinality(A \cup {w}) = Cardinality(A) + 1
            BY <2>2, <4>2, FS_AddElement
          <5> QED
            BY <2>2, <5>1
        <4> QED
          BY <4>1, <4>2
      <3>5. Cardinality(B) <= Cardinality(A \cup {w}) /\ Cardinality(B) \in Nat
              /\ Cardinality(A \cup {w}) \in Nat
        BY <3>3, <3>4, FS_Subset, FS_CardinalityType
      <3> QED
        BY <2>1, <2>2, <3>1, <3>4, <3>5
    <2>6. ASSUME NEW w \in Worker, Applies(w), pass[w].event = e, pass[w].at = p
          PROVE  Cardinality(Occurs(journal'[p], e)) + Cardinality(B) <= links'[e][p]
      <3>1. links' = links /\ journal'[p] = Append(journal[p], e)
        BY <2>6, AppliesWrites DEF Applies
      <3>2. PICK r \in PassRow : Becomes(w, r) /\ r.step = "looping"
        BY <2>6, LoopsFacts DEF Applies
      <3>3. w \in A
        BY <2>6 DEF Applies, Changing, A
      <3>4. B \subseteq A \ {w}
        BY <2>3, <2>4, <2>6, <3>2 DEF Becomes, Evidences, Applies
      <3>5. IsFiniteSet(A \ {w}) /\ Cardinality(A \ {w}) = Cardinality(A) - 1
        BY <2>2, <3>3, FS_RemoveElement
      <3>6. Cardinality(B) <= Cardinality(A \ {w}) /\ Cardinality(B) \in Nat
        BY <3>4, <3>5, FS_Subset, FS_CardinalityType
      <3>7. Cardinality(Occurs(journal'[p], e)) = Cardinality(Occurs(journal[p], e)) + 1
        BY <2>1, <3>1, OccurrencesAfterAppend
      <3> QED
        BY <2>1, <2>2, <3>1, <3>5, <3>6, <3>7
    <2>7. ASSUME \A w \in Worker : pass[w].event = e /\ pass[w].at = p => ~Evidences(w) /\ ~Applies(w)
          PROVE  Cardinality(Occurs(journal'[p], e)) + Cardinality(B) <= links'[e][p]
      <3>1. B \subseteq A
        BY <2>3, <2>7
      <3>2. Cardinality(B) <= Cardinality(A) /\ Cardinality(B) \in Nat
        BY <2>2, <3>1, FS_Subset, FS_CardinalityType
      <3>3. links'[e][p] = links[e][p]
        BY <2>7, GraphStep
      <3>4. Cardinality(Occurs(journal'[p], e)) = Cardinality(Occurs(journal[p], e))
        <4>1. ASSUME NEW w \in Worker, Applies(w), pass[w].at = p
              PROVE  Cardinality(Occurs(journal'[p], e)) = Cardinality(Occurs(journal[p], e))
          <5>1. PICK d \in Event : pass[w].event = d
            BY <4>1, RowFacts DEF Applies
          <5>2. journal'[p] = Append(journal[p], d)
            BY <4>1, <5>1, AppliesWrites
          <5>3. d # e
            BY <2>7, <4>1, <5>1
          <5> QED
            BY <2>1, <5>2, <5>3, OccurrencesAfterAppend
        <4> QED
          BY <4>1, GraphStep
      <3> QED
        BY <2>1, <2>2, <3>2, <3>3, <3>4
    <2>8. \/ \E w \in Worker : Evidences(w) /\ pass[w].event = e /\ pass[w].at = p
          \/ \E w \in Worker : Applies(w) /\ pass[w].event = e /\ pass[w].at = p
          \/ \A w \in Worker : pass[w].event = e /\ pass[w].at = p => ~Evidences(w) /\ ~Applies(w)
      OBVIOUS
    <2>9. Cardinality(Occurs(journal'[p], e)) + Cardinality(B) <= links'[e][p]
      BY <2>5, <2>6, <2>7, <2>8
    <2> QED
      BY <2>9 DEF B
  <1> QED
    BY <1>1 DEF EvidenceCovers, Moves, Occurs

\* A pass at a Process that may still change it has given its evidence.
LEMMA ChangingIsEvidenced ==
    ASSUME TypeInv, EvidenceCovers, NEW w \in Worker, NEW e \in Event, NEW p \in Process,
           pass[w].event = e, pass[w].at = p, pass[w].step \in {"updating", "applying"}
    PROVE  links[e][p] > 0
  <1>1. w \in Changing(e, p)
    BY DEF Changing
  <1>2. Cardinality(Changing(e, p)) # 0
    BY <1>1, ChangingIsFinite, FS_EmptySet
  <1>3. /\ Cardinality(Occurs(journal[p], e)) + Cardinality(Changing(e, p)) <= links[e][p]
        /\ links[e][p] \in Nat /\ journal[p] \in Seq(Event)
    BY TypeFacts DEF EvidenceCovers, Moves, Occurs
  <1>4. Cardinality(Occurs(journal[p], e)) \in Nat /\ Cardinality(Changing(e, p)) \in Nat
    BY <1>3, ChangingIsFinite, OccurrencesAfterAppend
  <1> QED
    BY <1>2, <1>3, <1>4

\* A created Process keeps the pass that created it until it has its evidence.
LEMMA CreatedStep ==
    ASSUME TypeInv, EdgeBeforeEvidence, EvidenceCovers, CreatedIsEvidenced, [Next]_vars
    PROVE  CreatedIsEvidenced'
  <1> DEFINE Kept(p, e) == \/ links'[e][p] > 0
                           \/ e \in broken'
                           \/ \E w \in Worker : pass'[w].event = e /\ pass'[w].at = p
  <1>1. ASSUME NEW p \in Known', p \notin Known PROVE Kept(p, table'[p].origin)
    BY <1>1, NewProcess DEF ComesTo, Becomes
  <1>2. ASSUME NEW p \in Process, NEW e \in Event, p \in Known, table[p].origin = e PROVE Kept(p, e)
    <2>1. \/ links[e][p] > 0
          \/ e \in broken
          \/ \E w \in Worker : pass[w].event = e /\ pass[w].at = p
      BY <1>2 DEF CreatedIsEvidenced
    <2>2. links[e][p] > 0 => links'[e][p] > 0
      BY EvidenceGrows
    <2>3. CASE links[e][p] > 0 \/ e \in broken
      BY <2>2, <2>3, EvidenceGrows
    <2>4. ASSUME NEW w \in Worker, pass[w].event = e, pass[w].at = p PROVE Kept(p, e)
      <3>0. pass[w].step \in Placed
        <4>1. p # None
          BY DiscoveryAssumption
        <4> QED
          BY <2>4, <4>1, RowFacts, IdleFacts
             DEF TypeInv, PassesAreShaped, RowOK, Step, Placed
      <3>1. CASE pass'[w] = pass[w]
        BY <2>4, <3>1
      <3>2. ASSUME NEW r \in PassRow, PassStep(w), ComesTo(w, r) PROVE Kept(p, e)
        <4>1. CASE r.at = p /\ r.event = e
          BY <3>2, <4>1 DEF ComesTo, Becomes
        <4>2. CASE Ending(w)
          BY <2>4, <3>0, <4>2, EndingFacts DEF Finishes, Placed
        <4>3. CASE Evidences(w)
          <5>1. links'[e][p] = links[e][p] + 1 /\ links[e][p] \in Nat
            BY <2>4, <4>3, EvidencesWrites, EvidenceGrows
          <5> QED
            BY <5>1
        <4>4. CASE Unchanged(w) \/ Applies(w)
          BY <2>2, <2>4, <4>4, ChangingIsEvidenced DEF Unchanged, Applies
        <4>5. ~Creates(w) /\ ~Affects(w) /\ \A d \in Event : ~Claims(w, d)
          BY <3>0 DEF Creates, Affects, Claims, Placed
        <4> QED
          BY <2>4, <3>2, <4>1, <4>2, <4>3, <4>4, <4>5 DEF ComesTo
      <3>3. pass'[w] = pass[w] \/ \E r \in PassRow : PassStep(w) /\ ComesTo(w, r)
        BY MoveCases DEF ComesTo, Becomes
      <3> QED
        BY <3>1, <3>2, <3>3
    <2> QED
      BY <2>1, <2>3, <2>4
  <1>3. ASSUME NEW p \in Known' PROVE Kept(p, table'[p].origin)
    <2>1. CASE p \in Known
      <3>1. p \in Process /\ table[p].origin \in Event /\ table'[p].origin = table[p].origin
        BY <2>1, TableStep DEF Known, TypeInv, UnknownIsBlank
      <3> QED
        BY <1>2, <2>1, <3>1
    <2> QED
      BY <1>1, <2>1
  <1> QED
    BY <1>3 DEF CreatedIsEvidenced

-----------------------------------------------------------------------------
(* One pass at a time, and what it proposes.                               *)

\* A pass that goes on leaves its item and the history alone.
GoesOn(w) == Answers(w) \/ Quiet(w) \/ Writing(w)

LEMMA GoesOnFacts ==
    ASSUME TypeInv, NEW w \in Worker, NEW r \in PassRow, GoesOn(w), ComesTo(w, r)
    PROVE  /\ UNCHANGED <<item, tries, holder, short, broken, outlived, refused>>
           /\ again' = again /\ repeated \subseteq repeated'
           /\ r.event = pass[w].event /\ pass[w].event \in Event /\ ~Ending(w)
           /\ r.step # "asked"
           /\ pass[w].step = "asked" => Answers(w)
  <1>1. /\ UNCHANGED <<item, tries, holder, short, broken, outlived, refused, again>>
        /\ repeated \subseteq repeated'
    <2>1. CASE Quiet(w)
      BY <2>1, QuietFacts
    <2>2. CASE Answers(w)
      BY <2>2 DEF Answers, itemVars
    <2>3. CASE Creates(w)
      BY <2>3, Zenon DEF Creates, itemVars, histVars
    <2>4. CASE Relates(w) \/ Evidences(w)
      BY <2>4, Zenon DEF Relates, Evidences, itemVars, histVars
    <2>5. CASE Applies(w)
      BY <2>5, Zenon DEF Applies, itemVars, histVars
    <2> QED
      BY <2>1, <2>2, <2>3, <2>4, <2>5 DEF GoesOn, Writing
  <1>2. pass[w].step # "idle" /\ (pass[w].step = "asked" => Answers(w))
    BY DEF GoesOn, Answers, Quiet, Names, Affects, LinkReads, Unchanged, UpdateReads,
           Writing, Creates, Relates, Evidences, Applies
  <1>3. pass[w].event \in Event /\ \A e \in Event : ~Claims(w, e)
    BY <1>2, RowFacts DEF Claims
  <1>4. \E s \in PassRow : Becomes(w, s) /\ s.step \notin {"idle", "asked"}
    BY AnswersFacts, NamesFacts, AffectsFacts, LinkReadsFacts, LoopsFacts, UpdateReadsFacts,
       CreatesFacts, RelatesFacts, EvidencesFacts
       DEF GoesOn, Quiet, Unchanged, Writing, Applies
  <1>5. r.step \notin {"idle", "asked"} /\ ~Ending(w)
    BY <1>4, GoingIsNotEnding DEF ComesTo, Becomes
  <1> QED
    BY <1>1, <1>2, <1>3, <1>5 DEF ComesTo

\* A pass is claimed, goes on or ends.
LEMMA PassCases ==
    ASSUME NEW w \in Worker, PassStep(w)
    PROVE  (\E e \in Event : Claims(w, e)) \/ GoesOn(w) \/ Ending(w)
  BY DEF PassStep, GoesOn

\* An outlived lease is not forgotten, nor a broken pass.
LEMMA HistoryGrows ==
    ASSUME TypeInv, [Next]_vars
    PROVE  /\ outlived \subseteq outlived' /\ refused \subseteq refused' /\ broken \subseteq broken'
           /\ again \subseteq again' /\ repeated \subseteq repeated'
  <1> DEFINE Grows == /\ outlived \subseteq outlived' /\ refused \subseteq refused'
                      /\ broken \subseteq broken'
                      /\ again \subseteq again' /\ repeated \subseteq repeated'
  <1>1. CASE Outside
    BY <1>1 DEF Outside, Enqueues, Reannounces, Outlives, vars, histVars
  <1>2. ASSUME NEW w \in Worker, NEW r \in PassRow, PassStep(w), ComesTo(w, r)
        PROVE  Grows
    <2>1. ASSUME NEW e \in Event, Claims(w, e)
          PROVE  Grows
      BY <2>1 DEF Claims, histVars
    <2> QED
      BY <1>2, <2>1, PassCases, GoesOnFacts, EndingFacts
  <1> QED
    BY <1>1, <1>2, MoveCases

LEMMA OnePassStep ==
    ASSUME TypeInv, OnePass, [Next]_vars
    PROVE  OnePass'
  <1> SUFFICES ASSUME NEW e \in Event, e \notin outlived', NEW v \in Worker, pass'[v].event = e
               PROVE  item'[e] = "running" /\ holder'[e] = v
    BY DEF OnePass
  <1>0. /\ e \notin outlived
        /\ \A u \in Worker : pass[u].event = e => item[e] = "running" /\ holder[e] = u
        /\ item \in [Event -> {"none", "queued", "running", "done", "dead"}]
        /\ holder \in [Event -> Worker \cup {None}]
    BY HistoryGrows, TypeFacts DEF OnePass
  <1>1. CASE pass' = pass /\ Outside
    <2>1. item[e] = "running" /\ holder[e] = v
      BY <1>0, <1>1
    <2>2. ASSUME NEW d \in Event, Enqueues(d) PROVE item'[e] = item[e] /\ holder' = holder
      BY <1>0, <2>1, <2>2 DEF Enqueues, Open
    <2>3. ASSUME NEW d \in Event, Outlives(d) PROVE item'[e] = item[e] /\ holder' = holder
      BY <1>0, <2>3 DEF Outlives
    <2>4. ASSUME NEW d \in Event, Reannounces(d) PROVE item'[e] = item[e] /\ holder' = holder
      BY <1>0, <2>1, <2>4 DEF Reannounces, Open
    <2> QED
      BY <1>1, <2>1, <2>2, <2>3, <2>4 DEF Outside, vars, itemVars
  <1>2. ASSUME NEW w \in Worker, NEW r \in PassRow, PassStep(w), ComesTo(w, r)
        PROVE  item'[e] = "running" /\ holder'[e] = v
    <2>0. pass'[w] = r /\ \A u \in Worker \ {w} : pass'[u] = pass[u]
      BY <1>2 DEF ComesTo, Becomes
    <2>1. ASSUME NEW d \in Event, Claims(w, d) PROVE item'[e] = "running" /\ holder'[e] = v
      <3>1. item[d] = "queued" /\ item' = [item EXCEPT ![d] = "running"] /\ holder' = [holder EXCEPT ![d] = w]
        BY <2>1 DEF Claims
      <3>2. pass'[w].event = d
        BY <2>1, ClaimsFacts DEF Becomes
      <3> QED
        BY <1>0, <2>0, <3>1, <3>2
    <2>2. CASE GoesOn(w)
      BY <1>0, <1>2, <2>0, <2>2, GoesOnFacts
    <2>3. CASE Ending(w)
      <3>1. /\ r = Idle /\ holder' = holder
            /\ \A d \in Event \ {pass[w].event} : item'[d] = item[d]
        BY <2>0, <2>3, EndingFacts DEF Becomes
      <3>2. v # w /\ pass[v].event = e
        BY <2>0, <3>1, IdleFacts, DiscoveryAssumption
      <3>3. pass[w].event # e
        BY <1>0, <3>2
      <3> QED
        BY <1>0, <3>1, <3>2, <3>3
    <2> QED
      BY <1>2, <2>1, <2>2, <2>3, PassCases
  <1> QED
    BY <1>1, <1>2, MoveCases

\* What a pass of an event has to know.
NewsOK(r, e, known, rows) ==
    /\ \A s, u \in r.new : Base(s) = Base(u) => s = u
    /\ \A p \in known : rows[p].origin = e =>
          /\ r.step = "asked" => p \in r.shown
          /\ \A s \in r.new : Base(s) # Base(rows[p].slug)
          /\ r.step = "naming" => Base(r.slug) # Base(rows[p].slug)
    /\ r.step = "naming" => \A s \in r.new : Base(s) # Base(r.slug)

LEMMA NewsIs ==
    /\ ProposalsAreNew <=> \A e \in Event \ outlived, w \in Worker :
                              pass[w].event = e => NewsOK(pass[w], e, Known, table)
    /\ ProposalsAreNew' <=> \A e \in Event \ outlived', w \in Worker :
                              pass'[w].event = e => NewsOK(pass'[w], e, Known', table')
  BY DEF ProposalsAreNew, NewsOK, TopicOf

LEMMA NewsStep ==
    ASSUME TypeInv, EdgeBeforeEvidence, OnePass, ProposalsAreNew, [Next]_vars
    PROVE  ProposalsAreNew'
  <1> SUFFICES ASSUME NEW e \in Event, e \notin outlived', NEW v \in Worker, pass'[v].event = e
               PROVE  NewsOK(pass'[v], e, Known', table')
    BY NewsIs
  <1>0. /\ e \notin outlived
        /\ \A u \in Worker : pass[u].event = e => holder[e] = u
        /\ pass[v].event = e => NewsOK(pass[v], e, Known, table)
    BY HistoryGrows, NewsIs DEF OnePass
  <1>t. /\ Known \subseteq Known'
        /\ \A p \in Known : table'[p].slug = table[p].slug /\ table'[p].origin = table[p].origin
    BY TableStep
  <1>n. ASSUME NEW p \in Known', p \notin Known, pass[v].event = e, table'[p].origin = e
        PROVE  /\ Creates(v) /\ pass[v].step = "naming" /\ table'[p].slug = pass[v].slug
               /\ pass'[v].step = "linking" /\ pass'[v].new = pass[v].new
    BY <1>0, <1>n, NewProcess DEF ComesTo, Becomes
  <1>1. CASE pass'[v] = pass[v]
    <2>1. NewsOK(pass[v], e, Known, table)
      BY <1>0, <1>1
    <2>2. \A p \in Known' : table'[p].origin = e => p \in Known
      BY <1>1, <1>n
    <2> QED
      BY <1>1, <1>t, <2>1, <2>2 DEF NewsOK
  <1>2. ASSUME NEW r \in PassRow, PassStep(v), ComesTo(v, r) PROVE NewsOK(r, e, Known', table')
    <2>0. pass'[v] = r
      BY <1>2 DEF ComesTo, Becomes
    <2>1. ASSUME NEW d \in Event, Claims(v, d) PROVE NewsOK(r, e, Known', table')
      <3>1. /\ r.shown = Known /\ r.new = {} /\ r.step = "asked"
        BY <2>0, <2>1, ClaimsFacts DEF Becomes
      <3>2. Known' = Known
        BY <2>1 DEF Claims, graphVars, Known
      <3> QED
        BY <3>1, <3>2 DEF NewsOK
    <2>2. CASE Answers(v)
      <3>1. /\ pass[v].step = "asked" /\ r.event = pass[v].event /\ r.step = "looping"
            /\ \A s, u \in r.new : Base(s) = Base(u) => s = u
            /\ \A s \in r.new, p \in pass[v].shown : Base(s) # Base(table[p].slug)
        <4>1. PICK q \in PassRow :
                /\ Becomes(v, q) /\ q.event = pass[v].event /\ q.step = "looping"
                /\ \A s, u \in q.new : Base(s) = Base(u) => s = u
                /\ \A s \in q.new, p \in pass[v].shown : Base(s) # TopicOf(p)
          BY <2>2, AnswersFacts
        <4>2. q = r /\ pass[v].step = "asked"
          BY <2>0, <2>2, <4>1 DEF Becomes, Answers
        <4> QED
          BY <4>1, <4>2 DEF TopicOf
      <3>2. NewsOK(pass[v], e, Known, table)
        BY <1>0, <2>0, <3>1
      <3>3. Known' = Known /\ table' = table
        BY <2>2 DEF Answers, graphVars, Known
      <3>4. \A p \in Known : table[p].origin = e => p \in pass[v].shown
        BY <3>1, <3>2 DEF NewsOK
      <3> QED
        BY <3>1, <3>3, <3>4 DEF NewsOK
    <2>3. CASE Names(v)
      <3>1. PICK s \in pass[v].new :
              /\ r.event = pass[v].event /\ r.step = "naming"
              /\ Base(r.slug) = Base(s) /\ r.new = pass[v].new \ {s}
        BY <2>0, <2>3, NamesFacts DEF Becomes
      <3>2. NewsOK(pass[v], e, Known, table)
        BY <1>0, <2>0, <3>1
      <3>3. Known' = Known /\ table' = table
        BY <2>3 DEF Names, OnlyPass, graphVars, Known
      <3>4. /\ \A u \in r.new : Base(u) # Base(s)
            /\ \A p \in Known : table[p].origin = e =>
                  Base(s) # Base(table[p].slug) /\ \A u \in r.new : Base(u) # Base(table[p].slug)
            /\ \A u, x \in r.new : Base(u) = Base(x) => u = x
        BY <3>1, <3>2 DEF NewsOK
      <3> QED
        BY <3>1, <3>3, <3>4 DEF NewsOK
    <2>4. CASE Creates(v)
      <3>1. /\ r.event = pass[v].event /\ r.step = "linking" /\ r.new = pass[v].new
            /\ pass[v].step = "naming"
        <4>1. PICK q \in PassRow : /\ Becomes(v, q) /\ q.event = pass[v].event
                                    /\ q.step = "linking" /\ q.new = pass[v].new
          BY <2>4, CreatesFacts
        <4>2. q = r /\ pass[v].step = "naming"
          BY <2>0, <2>4, <4>1 DEF Becomes, Creates
        <4> QED
          BY <4>1, <4>2
      <3>2. NewsOK(pass[v], e, Known, table)
        BY <1>0, <2>0, <3>1
      <3>3. ASSUME NEW p \in Known', table'[p].origin = e, NEW s \in r.new
            PROVE  Base(s) # Base(table'[p].slug)
        <4>1. CASE p \in Known
          BY <1>t, <3>1, <3>2, <3>3, <4>1 DEF NewsOK
        <4>2. CASE p \notin Known
          <5>1. table'[p].slug = pass[v].slug
            BY <1>n, <2>0, <3>1, <3>3, <4>2
          <5> QED
            BY <3>1, <3>2, <5>1 DEF NewsOK
        <4> QED
          BY <4>1, <4>2
      <3> QED
        BY <3>1, <3>2, <3>3 DEF NewsOK
    <2>5. CASE Affects(v) \/ LinkReads(v) \/ Unchanged(v) \/ UpdateReads(v)
               \/ Relates(v) \/ Evidences(v) \/ Applies(v)
      <3>1. r.event = pass[v].event /\ r.new = pass[v].new /\ r.step \notin {"asked", "naming"}
        <4>1. Linking(v)
          BY <2>5, Zenon DEF Linking
        <4>2. PICK s \in PassRow : /\ Becomes(v, s) /\ s.event = pass[v].event /\ s.new = pass[v].new
                                    /\ s.step \notin {"asked", "naming"}
          BY <4>1, LinkingFacts, Zenon
        <4>3. s = r
          BY <2>0, <4>2, Zenon DEF Becomes
        <4> QED
          BY <4>2, <4>3
      <3>2. NewsOK(pass[v], e, Known, table)
        <4>1. pass[v].event = e
          BY <2>0, <3>1
        <4> QED
          BY <1>0, <4>1
      <3>3. \A p \in Known' : table'[p].origin = e => p \in Known
        BY <1>n, <2>0, <3>1, <2>5
           DEF Affects, LinkReads, Unchanged, UpdateReads, Relates, Evidences, Applies
      <3> QED
        BY <1>t, <3>1, <3>2, <3>3 DEF NewsOK
    <2>6. CASE Ending(v)
      <3>1. r = Idle
        BY <2>0, <2>6, EndingFacts DEF Becomes
      <3> QED
        BY <2>0, <3>1, IdleFacts, DiscoveryAssumption
    <2> QED
      BY <1>2, <2>1, <2>2, <2>3, <2>4, <2>5, <2>6 DEF PassStep, Quiet, Writing
  <1>3. \/ pass'[v] = pass[v]
        \/ \E r \in PassRow : PassStep(v) /\ ComesTo(v, r) /\ pass'[v] = r
    BY MoveCases DEF ComesTo, Becomes
  <1> QED
    BY <1>1, <1>2, <1>3

LEMMA TwinsStep ==
    ASSUME TypeInv, ProposalsAreNew, TwinsAreOfTwoEvents, [Next]_vars
    PROVE  TwinsAreOfTwoEvents'
  <1> DEFINE Topic(p) == Base(table'[p].slug)
  <1>1. ASSUME NEW p \in Known', NEW q \in Known', p \notin Known, p # q,
               Topic(p) = Topic(q), table'[p].origin = table'[q].origin
        PROVE  table'[p].origin \in outlived'
    <2>1. PICK w \in Worker :
              /\ pass[w].step = "naming" /\ table'[p].origin = pass[w].event
              /\ table'[p].slug = pass[w].slug /\ pass[w].event \in Event
              /\ Known' = Known \cup {p}
      BY <1>1, NewProcess
    <2>2. q \in Known /\ table'[q].slug = table[q].slug /\ table'[q].origin = table[q].origin
      BY <1>1, <2>1, TableStep
    <2>3. pass[w].event \in outlived
      <3>1. PICK e \in Event : pass[w].event = e
        BY <2>1
      <3>2. Base(pass[w].slug) = Base(table[q].slug) /\ table[q].origin = e
        BY <1>1, <2>1, <2>2, <3>1
      <3>3. e \notin outlived => NewsOK(pass[w], e, Known, table)
        BY <3>1, NewsIs
      <3> QED
        BY <2>1, <2>2, <3>1, <3>2, <3>3 DEF NewsOK
    <2> QED
      BY <2>1, <2>3, HistoryGrows
  <1>2. ASSUME NEW p \in Known, NEW q \in Known, p # q,
               Topic(p) = Topic(q), table'[p].origin = table'[q].origin
        PROVE  table'[p].origin \in outlived'
    BY <1>2, TableStep, HistoryGrows DEF TwinsAreOfTwoEvents, TopicOf
  <1> QED
    BY <1>1, <1>2 DEF TwinsAreOfTwoEvents, TopicOf

-----------------------------------------------------------------------------
(* One current edge.                                                       *)

LEMMA UnseenStep ==
    ASSUME TypeInv, EdgeBeforeEvidence, OnePass, UnseenEdge, [Next]_vars
    PROVE  UnseenEdge'
  <1> SUFFICES ASSUME NEW e \in Event, e \notin outlived', NEW p \in Process, NEW v \in Worker,
                      pass'[v].event = e, pass'[v].at = p, pass'[v].step = "relating", pass'[v].saw = 0
               PROVE  edges'[e][p] = <<>>
    BY DEF UnseenEdge
  <1>0. /\ e \notin outlived
        /\ \A u \in Worker : pass[u].event = e => holder[e] = u
    BY HistoryGrows DEF OnePass
  <1>1. CASE pass'[v] = pass[v]
    <2>1. edges[e][p] = <<>> /\ pass[v].event = e
      BY <1>0, <1>1 DEF UnseenEdge
    <2>2. ASSUME NEW w \in Worker, Relates(w), pass[w].event = e PROVE FALSE
      <3>1. w = v
        BY <1>0, <2>1, <2>2
      <3>2. pass'[w].step = "evidencing"
        BY <2>2, RelatesFacts DEF Becomes
      <3> QED
        BY <3>1, <3>2
    <2> QED
      BY <2>1, <2>2, GraphStep
  <1>2. ASSUME NEW r \in PassRow, ComesTo(v, r) PROVE edges'[e][p] = <<>>
    <2>1. pass'[v] = r
      BY <1>2 DEF ComesTo, Becomes
    <2>2. LinkReads(v) /\ pass[v].at = p /\ CurrentEdge(v) = 0 /\ pass[v].event = e
      BY <1>2, <2>1, IdleFacts DEF ComesTo
    <2>3. edges[e][p] \in Seq(Nat) /\ \A i \in DOMAIN edges[e][p] : edges[e][p][i] > 0
      BY TypeFacts DEF TypeInv, EdgesAreNumbered
    <2>4. edges[e][p] # <<>> => 1 \in DOMAIN edges[e][p]
      BY <2>3
    <2>5. edges[e][p] = <<>>
      BY <2>2, <2>3, <2>4 DEF CurrentEdge, EdgeOf
    <2> QED
      BY <2>2, <2>5 DEF LinkReads, OnlyPass, graphVars
  <1>3. pass'[v] = pass[v] \/ \E r \in PassRow : ComesTo(v, r)
    BY MoveCases DEF ComesTo, Becomes
  <1> QED
    BY <1>1, <1>2, <1>3

LEMMA OneEdgeStep ==
    ASSUME TypeInv, EdgeBeforeEvidence, UnseenEdge, OneEdgePerPair, [Next]_vars
    PROVE  OneEdgePerPair'
  <1> SUFFICES ASSUME NEW e \in Event, NEW p \in Process, Len(edges'[e][p]) > 1
               PROVE  e \in outlived'
    BY DEF OneEdgePerPair
  <1>1. CASE edges'[e][p] = edges[e][p]
    BY <1>1, HistoryGrows DEF OneEdgePerPair
  <1>2. ASSUME NEW w \in Worker, Relates(w), pass[w].event = e, pass[w].at = p
        PROVE  e \in outlived'
    <2>1. CASE pass[w].saw # 0
      <3>1. Len(edges'[e][p]) = Len(edges[e][p])
        BY <1>2, <2>1, RelatesWrites
      <3> QED
        BY <3>1, HistoryGrows DEF OneEdgePerPair
    <2>2. CASE pass[w].saw = 0
      <3>1. Len(edges'[e][p]) = Len(edges[e][p]) + 1
        BY <1>2, <2>2, RelatesWrites
      <3>2. edges[e][p] # <<>>
        BY <3>1
      <3>3. e \in outlived
        BY <1>2, <2>2, <3>2 DEF UnseenEdge, Relates
      <3> QED
        BY <3>3, HistoryGrows
    <2> QED
      BY <2>1, <2>2
  <1> QED
    BY <1>1, <1>2, GraphStep

-----------------------------------------------------------------------------
(* One plan, and what is tried again.                                      *)

LEMMA OnePlanStep ==
    ASSUME TypeInv, OnePass, OnePlan, [Next]_vars
    PROVE  OnePlan'
  <1> SUFFICES ASSUME NEW e \in Event, e \notin broken', e \notin outlived', e \notin again',
                      e \notin repeated', e \in logged'
               PROVE  /\ item'[e] \in {"running", "done"}
                      /\ \A v \in Worker : pass'[v].event = e => pass'[v].step # "asked"
    BY DEF OnePlan, Smooth
  <1> DEFINE Goal == /\ item'[e] \in {"running", "done"}
                     /\ \A v \in Worker : pass'[v].event = e => pass'[v].step # "asked"
  <1>0. /\ e \notin outlived /\ e \notin broken /\ e \notin again /\ e \notin repeated
        /\ \A u \in Worker : pass[u].event = e => holder[e] = u /\ item[e] = "running"
        /\ e \in logged => /\ item[e] \in {"running", "done"}
                           /\ \A v \in Worker : pass[v].event = e => pass[v].step # "asked"
        /\ item \in [Event -> {"none", "queued", "running", "done", "dead"}]
    BY HistoryGrows, TypeFacts DEF OnePass, OnePlan, Smooth
  <1>1. CASE Outside
    <2>1. pass' = pass /\ e \in logged
      BY <1>1, OutsideFacts
    <2>2. ASSUME NEW d \in Event, Enqueues(d) PROVE item'[e] = item[e]
      BY <1>0, <2>1, <2>2 DEF Enqueues, Seen
    <2>3. ASSUME NEW d \in Event, Outlives(d) PROVE item'[e] = item[e]
      BY <1>0, <2>3 DEF Outlives
    <2>5. ASSUME NEW d \in Event, Reannounces(d) PROVE item'[e] = item[e]
      BY <1>0, <2>5 DEF Reannounces
    <2>4. item'[e] = item[e]
      BY <1>1, <2>2, <2>3, <2>5 DEF Outside, vars, itemVars
    <2> QED
      BY <1>0, <2>1, <2>4
  <1>2. ASSUME NEW w \in Worker, NEW r \in PassRow, PassStep(w), ComesTo(w, r) PROVE Goal
    <2>0. pass'[w] = r /\ \A v \in Worker \ {w} : pass'[v] = pass[v]
      BY <1>2 DEF ComesTo, Becomes
    <2>1. ASSUME NEW d \in Event, Claims(w, d) PROVE Goal
      <3>1. /\ item[d] = "queued" /\ item' = [item EXCEPT ![d] = "running"] /\ logged' = logged
            /\ pass'[w].event = d
        BY <2>1, ClaimsFacts DEF Claims, Becomes
      <3>2. d # e
        BY <1>0, <3>1
      <3>3. item'[e] = item[e]
        BY <1>0, <3>1, <3>2
      <3> QED
        BY <1>0, <2>0, <3>1, <3>2, <3>3
    <2>2. CASE GoesOn(w)
      <3>1. item' = item /\ r.step # "asked" /\ r.event = pass[w].event
        BY <1>2, <2>2, GoesOnFacts
      <3>2. CASE e \in logged
        BY <1>0, <2>0, <3>1, <3>2
      <3>3. CASE e \notin logged
        <4>1. pass[w].event = e
          BY <2>2, <3>3, QuietFacts
             DEF GoesOn, Answers, Recorded, Writing, Creates, Relates, Evidences, Applies
        <4>2. \A v \in Worker : pass'[v].event = e => v = w
          BY <1>0, <2>0, <3>1, <4>1
        <4> QED
          BY <1>0, <2>0, <3>1, <4>1, <4>2
      <3> QED
        BY <3>2, <3>3
    <2>3. CASE Ending(w)
      <3>1. /\ r = Idle /\ logged' = logged
            /\ \A d \in Event \ {pass[w].event} : item'[d] = item[d]
            /\ \/ pass[w].event \in broken'
               \/ Finishes(w)
               \/ pass[w].step = "asked"
        BY <2>0, <2>3, EndingFacts DEF Becomes
      <3>2. \A v \in Worker : pass'[v].event = e => pass'[v].step # "asked"
        BY <1>0, <2>0, <3>1, IdleFacts
      <3>3. item'[e] \in {"running", "done"}
        <4>1. CASE pass[w].event # e
          BY <1>0, <3>1, <4>1
        <4>2. CASE pass[w].event = e
          <5>1. Finishes(w)
            BY <1>0, <3>1, <4>2
          <5> QED
            BY <1>0, <4>2, <5>1 DEF Finishes
        <4> QED
          BY <4>1, <4>2
      <3> QED
        BY <3>2, <3>3
    <2> QED
      BY <1>2, <2>1, <2>2, <2>3, PassCases
  <1>3. Goal
    BY <1>1, <1>2, MoveCases
  <1> QED
    BY <1>3

LEMMA RepeatsStep ==
    ASSUME TypeInv, EdgeBeforeEvidence, LinksToCome, RepeatsAreAccounted, [Next]_vars
    PROVE  RepeatsAreAccounted'
  <1> SUFFICES ASSUME NEW e \in Event, NEW p \in Process, links'[e][p] > 1
               PROVE  e \in broken' \cup outlived' \cup again' \cup repeated'
    BY DEF RepeatsAreAccounted
  <1>1. CASE links'[e][p] = links[e][p]
    BY <1>1, HistoryGrows DEF RepeatsAreAccounted
  <1>2. ASSUME NEW w \in Worker, Evidences(w), pass[w].event = e, pass[w].at = p
        PROVE  e \in broken' \cup outlived' \cup again' \cup repeated'
    <2>1. links'[e][p] = links[e][p] + 1 /\ links[e][p] \in Nat
      BY <1>2, EvidencesWrites, EvidenceGrows
    <2>2. links[e][p] # 0
      BY <2>1
    <2>3. e \notin Smooth
      BY <1>2, <2>2 DEF LinksToCome, Evidences
    <2> QED
      BY <2>3, HistoryGrows DEF Smooth
  <1> QED
    BY <1>1, <1>2, GraphStep

LEMMA TriedStep ==
    ASSUME TypeInv, EdgeBeforeEvidence, OnePass, ShortPassIsTriedAgain, [Next]_vars
    PROVE  ShortPassIsTriedAgain'
  <1> SUFFICES ASSUME NEW e \in Event, e \in short', e \notin outlived', e \notin refused'
               PROVE  item'[e] \in Open \/ (item'[e] = "dead" /\ tries'[e] >= MaxTries)
    BY TypeStep DEF ShortPassIsTriedAgain, TypeOK
  <1> DEFINE Goal == item'[e] \in Open \/ (item'[e] = "dead" /\ tries'[e] >= MaxTries)
  <1>0. /\ e \notin outlived /\ e \notin refused
        /\ \A u \in Worker : pass[u].event = e => holder[e] = u /\ item[e] = "running"
        /\ e \in short => item[e] \in Open \/ (item[e] = "dead" /\ tries[e] >= MaxTries)
        /\ item \in [Event -> {"none", "queued", "running", "done", "dead"}]
        /\ tries \in [Event -> Nat] /\ MaxTries \in Nat
    BY HistoryGrows, TypeFacts, DiscoveryAssumption DEF OnePass, ShortPassIsTriedAgain
  <1>s. e \in short /\ item'[e] = item[e] /\ tries'[e] = tries[e] => Goal
    BY <1>0
  <1>o. item'[e] \in {"queued", "running"} => Goal
    BY DEF Open
  <1>1. CASE Outside
    <2>1. e \in short
      BY <1>1, OutsideFacts
    <2>2. ASSUME NEW d \in Event, Enqueues(d) PROVE Goal
      <3>1. item' = [item EXCEPT ![d] = "queued"] /\ tries' = [tries EXCEPT ![d] = 0]
        BY <2>2 DEF Enqueues
      <3>2. d = e => item'[e] = "queued"
        BY <1>0, <3>1
      <3>3. d # e => item'[e] = item[e] /\ tries'[e] = tries[e]
        BY <1>0, <3>1
      <3> QED
        BY <1>o, <1>s, <2>1, <3>2, <3>3
    <2>4. ASSUME NEW d \in Event, Reannounces(d) PROVE Goal
      <3>1. item' = [item EXCEPT ![d] = "queued"] /\ tries' = [tries EXCEPT ![d] = 0]
        BY <2>4 DEF Reannounces
      <3>2. d = e => item'[e] = "queued"
        BY <1>0, <3>1
      <3>3. d # e => item'[e] = item[e] /\ tries'[e] = tries[e]
        BY <1>0, <3>1
      <3> QED
        BY <1>o, <1>s, <2>1, <3>2, <3>3
    <2>3. ASSUME NEW d \in Event, Outlives(d) PROVE Goal
      <3>1. item' = [item EXCEPT ![d] = "queued"] /\ tries' = tries /\ d \in outlived'
        BY <2>3 DEF Outlives
      <3>2. item'[e] = item[e]
        BY <1>0, <3>1
      <3> QED
        BY <1>s, <2>1, <3>1, <3>2
    <2> QED
      BY <1>1, <1>s, <2>1, <2>2, <2>3, <2>4 DEF Outside, vars, itemVars
  <1>2. ASSUME NEW w \in Worker, NEW r \in PassRow, PassStep(w), ComesTo(w, r) PROVE Goal
    <2>1. ASSUME NEW d \in Event, Claims(w, d) PROVE Goal
      <3>1. /\ item' = [item EXCEPT ![d] = "running"] /\ tries' = [tries EXCEPT ![d] = @ + 1]
            /\ short' = short
        BY <2>1 DEF Claims, histVars
      <3>2. d = e => item'[e] = "running"
        BY <1>0, <3>1
      <3>3. d # e => item'[e] = item[e] /\ tries'[e] = tries[e]
        BY <1>0, <3>1
      <3> QED
        BY <1>o, <1>s, <3>1, <3>2, <3>3
    <2>2. CASE GoesOn(w)
      BY <1>2, <1>s, <2>2, GoesOnFacts
    <2>3. CASE Ending(w)
      <3>1. /\ tries' = tries
            /\ \A d \in Event \ {pass[w].event} : item'[d] = item[d] /\ (d \in short' => d \in short)
        BY <2>3, EndingFacts
      <3>2. CASE pass[w].event # e
        BY <1>s, <3>1, <3>2
      <3>3. CASE pass[w].event = e
        <4>1. ~Declines(w)
          BY <3>3 DEF Declines
        <4>2. ~Finishes(w)
          BY <3>3 DEF Finishes
        <4>3. CASE Failing(w)
          <5>1. item'[e] = AfterFailure(e)
            BY <1>0, <3>3, <4>3, FailingFacts DEF Raises
          <5>2. AfterFailure(e) = "queued" \/ (AfterFailure(e) = "dead" /\ tries[e] >= MaxTries)
            BY <1>0 DEF AfterFailure
          <5> QED
            BY <1>o, <3>1, <5>1, <5>2
        <4>4. CASE Stops(w)
          <5>1. holder[e] = w /\ item[e] = "running"
            BY <1>0, <3>3
          <5>2. item'[e] = "queued"
            BY <1>0, <3>3, <4>4, <5>1 DEF Stops
          <5> QED
            BY <1>o, <5>2
        <4> QED
          BY <2>3, <4>1, <4>2, <4>3, <4>4 DEF Ending
      <3> QED
        BY <3>2, <3>3
    <2> QED
      BY <1>2, <2>1, <2>2, <2>3, PassCases
  <1>3. Goal
    BY <1>1, <1>2, MoveCases
  <1> QED
    BY <1>3

\* A pass has something to link that has no evidence from its event.
ComingOK(r, e, count) ==
    /\ \A a \in r.affected : count[e][a[1]] = 0 /\ a[1] # r.at
    /\ \A a, b \in r.affected : a[1] = b[1] => a = b
    /\ \A p \in Process :
          r.at = p /\ r.step \in {"linking", "relating", "evidencing"} => count[e][p] = 0

LEMMA ComingIs ==
    /\ LinksToCome <=> \A e \in Smooth, w \in Worker :
                          pass[w].event = e => ComingOK(pass[w], e, links)
    /\ LinksToCome' <=> \A e \in Smooth', w \in Worker :
                          pass'[w].event = e => ComingOK(pass'[w], e, links')
  BY DEF LinksToCome, ComingOK

LEMMA ComingStep ==
    ASSUME TypeInv, EdgeBeforeEvidence, WrittenIsLogged, OnePass, OnePlan, LinksToCome, [Next]_vars
    PROVE  LinksToCome'
  <1> SUFFICES ASSUME NEW e \in Event, e \notin outlived', e \notin broken', e \notin again',
                      e \notin repeated', NEW v \in Worker, pass'[v].event = e
               PROVE  ComingOK(pass'[v], e, links')
    BY ComingIs DEF Smooth
  <1>0. /\ e \notin outlived /\ e \notin broken /\ e \in Smooth
        /\ \A u \in Worker : pass[u].event = e => holder[e] = u
        /\ pass[v].event = e => ComingOK(pass[v], e, links)
        /\ \A a \in pass[v].affected : a[1] \in Process
    BY HistoryGrows, ComingIs, RowFacts DEF OnePass, Smooth
  <1>n. \A p \in Process : p # None
    BY DiscoveryAssumption
  <1>l. ASSUME pass[v].event = e, ~Evidences(v) PROVE \A p \in Process : links'[e][p] = links[e][p]
    BY <1>0, <1>l, GraphStep
  <1>1. CASE pass'[v] = pass[v]
    <2>1. ~Evidences(v)
      <3>1. Evidences(v) => pass[v].step = "evidencing" /\ pass'[v].step # "evidencing"
        BY EvidencesFacts DEF Evidences, Becomes
      <3> QED
        BY <1>1, <3>1
    <2>2. \A p \in Process : links'[e][p] = links[e][p]
      BY <1>1, <1>l, <2>1
    <2>3. \A a \in pass[v].affected : a[1] \in Process
      BY <1>0
    <2>4. ComingOK(pass[v], e, links)
      BY <1>0, <1>1
    <2> QED
      BY <1>1, <2>2, <2>3, <2>4 DEF ComingOK
  <1>2. ASSUME NEW r \in PassRow, PassStep(v), ComesTo(v, r) PROVE ComingOK(r, e, links')
    <2>0. pass'[v] = r /\ r.event = e /\ \A a \in r.affected : a[1] \in Process
      <3>1. pass'[v] = r /\ r.event = e /\ r.affected \subseteq Entries(Process)
        BY <1>2 DEF ComesTo, Becomes, PassRow
      <3>2. \A a \in Entries(Process) : a[1] \in Process
        BY DEF Entries
      <3> QED
        BY <3>1, <3>2
    <2>k. ASSUME ComingOK(r, e, links), pass[v].event = e, ~Evidences(v) PROVE ComingOK(r, e, links')
      BY <1>l, <2>0, <2>k DEF ComingOK
    <2>1. ASSUME NEW d \in Event, Claims(v, d) PROVE ComingOK(r, e, links')
      <3>1. r.affected = {} /\ r.step = "asked"
        BY <2>0, <2>1, ClaimsFacts DEF Becomes
      <3> QED
        BY <3>1 DEF ComingOK
    <2>2. CASE Answers(v)
      <3>1. /\ pass[v].step = "asked" /\ pass[v].event = e /\ r.step = "looping" /\ r.at = pass[v].at
            /\ \A a, b \in r.affected : a[1] = b[1] => a = b
        <4>1. PICK q \in PassRow :
                /\ Becomes(v, q) /\ q.event = pass[v].event /\ q.step = "looping"
                /\ q.at = pass[v].at
                /\ pass[v].event \notin repeated' =>
                      \A a, b \in q.affected : a[1] = b[1] => a = b
          BY <2>2, AnswersFacts
        <4>2. q = r /\ pass[v].step = "asked"
          BY <2>0, <2>2, <4>1 DEF Becomes, Answers
        <4> QED
          BY <2>0, <4>1, <4>2
      <3>2. e \notin logged /\ r.at = None
        BY <1>0, <3>1 DEF OnePlan, TypeInv, PassesAreShaped, RowOK
      <3>3. \A p \in Process : links[e][p] = 0
        BY <3>2 DEF WrittenIsLogged
      <3>4. links' = links
        BY <2>2 DEF Answers, graphVars
      <3> QED
        BY <1>n, <2>0, <3>1, <3>2, <3>3, <3>4 DEF ComingOK
    <2>3. CASE Names(v)
      <3>1. /\ pass[v].event = e /\ r.step = "naming" /\ r.at = pass[v].at
            /\ r.affected = pass[v].affected /\ links' = links
        <4>1. PICK q \in PassRow :
                /\ Becomes(v, q) /\ q.event = pass[v].event /\ q.at = pass[v].at
                /\ q.affected = pass[v].affected /\ q.step = "naming"
          BY <2>3, NamesFacts
        <4>2. q = r /\ links' = links
          BY <2>0, <2>3, <4>1 DEF Becomes, Names, OnlyPass, graphVars
        <4> QED
          BY <2>0, <4>1, <4>2
      <3> QED
        BY <1>0, <3>1 DEF ComingOK
    <2>4. CASE Creates(v)
      <3>1. PICK p \in Process \ Known :
              /\ pass[v].event = e /\ r.step = "linking" /\ r.at = p
              /\ r.affected = pass[v].affected
        BY <2>0, <2>4, CreatesFacts DEF Becomes
      <3>2. /\ links[e][p] = 0
            /\ \A a \in pass[v].affected : a[1] \in Known
        BY DEF TypeInv, UnknownIsBlank, PassesAreShaped, RowOK
      <3>3. links' = links
        BY <2>4 DEF Creates
      <3> QED
        BY <1>0, <3>1, <3>2, <3>3 DEF ComingOK
    <2>5. CASE Affects(v)
      <3>1. PICK a \in pass[v].affected :
              /\ pass[v].event = e /\ r.step = "linking" /\ r.at = a[1]
              /\ r.affected = pass[v].affected \ {a}
        BY <2>0, <2>5, AffectsFacts DEF Becomes
      <3>2. links' = links
        BY <2>5 DEF Affects, OnlyPass, graphVars
      <3>3. ComingOK(pass[v], e, links)
        BY <1>0, <3>1
      <3> QED
        BY <3>1, <3>2, <3>3 DEF ComingOK
    <2>6. CASE LinkReads(v) \/ Relates(v)
      <3>1. /\ pass[v].event = e /\ pass[v].step \in {"linking", "relating"}
            /\ r.step \in {"relating", "evidencing"} /\ r.at = pass[v].at
            /\ r.affected = pass[v].affected
        BY <2>0, <2>6, LinkReadsFacts, RelatesFacts DEF Becomes, LinkReads, Relates
      <3>2. links' = links
        BY <2>6 DEF LinkReads, Relates, OnlyPass, graphVars
      <3>3. ComingOK(pass[v], e, links)
        BY <1>0, <3>1
      <3> QED
        BY <3>1, <3>2, <3>3 DEF ComingOK
    <2>7. CASE Evidences(v)
      <3>1. /\ pass[v].event = e /\ pass[v].at \in Process /\ r.affected = pass[v].affected
            /\ r.step \in {"updating", "looping"} /\ r.at \in {pass[v].at, None}
        <4>1. pass[v].at \in Process
          BY <2>7, RowFacts DEF Evidences, Placed
        <4> QED
          BY <2>0, <2>7, <4>1, EvidencesFacts DEF Becomes
      <3>2. \A q \in Process : q # pass[v].at => links'[e][q] = links[e][q]
        <4>1. PICK p \in Process : pass[v].at = p
          BY <3>1
        <4> QED
          BY <2>7, <3>1, <4>1, EvidencesWrites
      <3>3. ComingOK(pass[v], e, links)
        BY <1>0, <3>1
      <3> QED
        BY <1>n, <2>0, <3>1, <3>2, <3>3 DEF ComingOK
    <2>8. CASE Unchanged(v) \/ Applies(v) \/ UpdateReads(v)
      <3>1. /\ pass[v].event = e /\ r.affected = pass[v].affected
            /\ r.step \in {"looping", "applying"} /\ r.at \in {pass[v].at, None}
        BY <2>0, <2>8, LoopsFacts, UpdateReadsFacts DEF Becomes, Unchanged, Applies
      <3>2. links' = links
        BY <2>8 DEF Unchanged, Applies, UpdateReads, OnlyPass, graphVars
      <3>3. ComingOK(pass[v], e, links)
        BY <1>0, <3>1
      <3> QED
        BY <1>n, <2>0, <3>1, <3>2, <3>3 DEF ComingOK
    <2>9. CASE Ending(v)
      <3>1. r = Idle
        BY <2>0, <2>9, EndingFacts DEF Becomes
      <3> QED
        BY <2>0, <3>1, IdleFacts, DiscoveryAssumption
    <2> QED
      BY <1>2, <2>1, <2>2, <2>3, <2>4, <2>5, <2>6, <2>7, <2>8, <2>9 DEF PassStep, Quiet, Writing
  <1>3. \/ pass'[v] = pass[v]
        \/ \E r \in PassRow : PassStep(v) /\ ComesTo(v, r) /\ pass'[v] = r
    BY MoveCases DEF ComesTo, Becomes
  <1> QED
    BY <1>1, <1>2, <1>3

-----------------------------------------------------------------------------
(* The invariant.                                                          *)

LEMMA InitHolds == Init => IInv
  <1> SUFFICES ASSUME Init PROVE IInv
    OBVIOUS
  <1>1. /\ Known = {} /\ broken = {} /\ outlived = {} /\ again = {} /\ repeated = {} /\ logged = {} /\ short = {}
        /\ \A w \in Worker : pass[w] = Idle
        /\ \A e \in Event, p \in Process : edges[e][p] = <<>> /\ links[e][p] = 0
        /\ \A p \in Process : table[p] = NoProcess /\ journal[p] = <<>>
    BY DEF Init, Known, NoProcess
  <1>n. None \notin Event /\ None \notin Process
    BY DiscoveryAssumption
  <1>2. TypeOK
    BY DEF Init, TypeOK, NoProcess, Idle, Step
  <1>3. PassesAreShaped
    BY <1>1, IdleIsOK DEF PassesAreShaped
  <1>4. UnknownIsBlank /\ EdgesAreNumbered
    BY <1>1, FS_EmptySet DEF UnknownIsBlank, EdgesAreNumbered
  <1>5. EvidenceCovers
    <2>1. ASSUME NEW e \in Event, NEW p \in Process
          PROVE  Cardinality({i \in DOMAIN journal[p] : journal[p][i] = e})
                    + Cardinality(Changing(e, p)) <= links[e][p]
      <3>1. {i \in DOMAIN journal[p] : journal[p][i] = e} = {}
        BY <1>1
      <3>2. Changing(e, p) = {}
        BY <1>1, IdleFacts DEF Changing
      <3>3. Cardinality({i \in DOMAIN journal[p] : journal[p][i] = e}) = 0
        BY <3>1, FS_EmptySet, Zenon
      <3>4. Cardinality(Changing(e, p)) = 0
        BY <3>2, FS_EmptySet, Zenon
      <3>5. links[e][p] = 0
        BY <1>1
      <3> QED
        BY <3>3, <3>4, <3>5
    <2> QED
      BY <2>1 DEF EvidenceCovers, Moves
  <1>6. /\ EdgeBeforeEvidence /\ WrittenIsLogged /\ CreatedIsEvidenced
        /\ OnePass /\ ProposalsAreNew /\ TwinsAreOfTwoEvents
        /\ UnseenEdge /\ OneEdgePerPair
    BY <1>1, <1>n, IdleFacts
       DEF EdgeBeforeEvidence, WrittenIsLogged, CreatedIsEvidenced, OnePass, ProposalsAreNew,
           TwinsAreOfTwoEvents, UnseenEdge, OneEdgePerPair, NoProcess
  <1>7. OnePlan /\ LinksToCome /\ RepeatsAreAccounted /\ ShortPassIsTriedAgain
    BY <1>1, <1>n, IdleFacts
       DEF OnePlan, LinksToCome, RepeatsAreAccounted, ShortPassIsTriedAgain, Smooth
  <1>8. RevisionPerChange
    BY <1>1 DEF RevisionPerChange
  <1> QED
    BY <1>2, <1>3, <1>4, <1>5, <1>6, <1>7, <1>8
       DEF IInv, TypeInv, EvidenceInv, TopicInv, EdgeInv, PlanInv

LEMMA StepHolds == IInv /\ [Next]_vars => IInv'
  <1> SUFFICES ASSUME IInv, [Next]_vars PROVE IInv'
    OBVIOUS
  <1>1. /\ TypeInv /\ RevisionPerChange
        /\ EvidenceCovers /\ EdgeBeforeEvidence /\ WrittenIsLogged /\ CreatedIsEvidenced
        /\ OnePass /\ ProposalsAreNew /\ TwinsAreOfTwoEvents
        /\ UnseenEdge /\ OneEdgePerPair
        /\ OnePlan /\ LinksToCome /\ RepeatsAreAccounted /\ ShortPassIsTriedAgain
    BY DEF IInv, EvidenceInv, TopicInv, EdgeInv, PlanInv
  <1>2. TypeInv' /\ RevisionPerChange'
    BY <1>1, TypeInvStep, RevisionStep
  <1>3. EvidenceInv'
    BY <1>1, CoverStep, EdgeBeforeStep, WrittenStep, CreatedStep DEF EvidenceInv
  <1>4. TopicInv'
    BY <1>1, OnePassStep, NewsStep, TwinsStep DEF TopicInv
  <1>5. EdgeInv'
    BY <1>1, UnseenStep, OneEdgeStep DEF EdgeInv
  <1>6. PlanInv'
    BY <1>1, OnePlanStep, ComingStep, RepeatsStep, TriedStep DEF PlanInv
  <1> QED
    BY <1>2, <1>3, <1>4, <1>5, <1>6 DEF IInv

LEMMA InvHolds == Spec => []IInv
  BY InitHolds, StepHolds, PTL DEF Spec

\* Changes have links behind them, and links an edge.
LEMMA LinksBehindChanges ==
    ASSUME IInv, NEW e \in Event, NEW p \in Process
    PROVE  /\ Moves(e, p) \in Nat /\ links[e][p] \in Nat /\ Moves(e, p) <= links[e][p]
           /\ links[e][p] > 0 => edges[e][p] # <<>>
  <1>1. TypeInv /\ EvidenceCovers /\ EdgeBeforeEvidence
    BY DEF IInv, EvidenceInv
  <1>2. /\ Moves(e, p) + Cardinality(Changing(e, p)) <= links[e][p]
        /\ links[e][p] \in Nat /\ journal[p] \in Seq(Event)
    BY <1>1, TypeFacts DEF EvidenceCovers
  <1>3. Moves(e, p) \in Nat /\ Cardinality(Changing(e, p)) \in Nat
    BY <1>2, ChangingIsFinite, OccurrencesAfterAppend DEF Moves, Occurs
  <1> QED
    BY <1>1, <1>2, <1>3 DEF EdgeBeforeEvidence

-----------------------------------------------------------------------------
(* What the project checks on a small instance holds of every one.         *)

\* What discovery wrote hangs together, for any number of events, Processes and
\* workers and whatever is killed, outlived or refused: each revision of a Process has
\* its journal entry (apply_update, process_persistence.py), every change an evidence
\* link and an edge from its event, and a created Process the evidence of the event it
\* came from, once its pass is through (run, process_stage.py).
THEOREM ChangesAreWholeHolds == Spec => []ChangesAreWhole
  <1>1. IInv => ChangesAreWhole
    <2> SUFFICES ASSUME IInv PROVE ChangesAreWhole
      OBVIOUS
    <2>1. ChangesAreEvidenced
      BY LinksBehindChanges DEF ChangesAreEvidenced
    <2> QED
      BY <2>1 DEF ChangesAreWhole, IInv, TypeInv, EvidenceInv
  <1> QED
    BY <1>1, InvHolds, PTL

\* The sweep, which takes a recorded run for proof that an event is done, loses
\* nothing by it (run_stage, run of process_stage.py; _pending_event_ids of
\* runner.py): an event without one has written nothing, a pass that stopped half-way
\* is tried again as long as there are attempts, and what counts twice as evidence has
\* a broken or an outlived pass behind it, a second announcement, or an answer that
\* named the Process twice.
THEOREM BrokenPassIsRepairedHolds == Spec => []BrokenPassIsRepaired
  <1>1. IInv => BrokenPassIsRepaired
    <2> SUFFICES ASSUME IInv PROVE BrokenPassIsRepaired
      OBVIOUS
    <2>1. SweptLeftNothing
      <3>1. ASSUME NEW e \in Event \ logged, NEW p \in Process
            PROVE  /\ edges[e][p] = <<>> /\ links[e][p] = 0
                   /\ Moves(e, p) = 0 /\ table[p].origin # e
        <4>1. edges[e][p] = <<>> /\ links[e][p] = 0 /\ table[p].origin # e
          BY DEF IInv, EvidenceInv, WrittenIsLogged
        <4>2. Moves(e, p) \in Nat /\ Moves(e, p) <= links[e][p]
          BY LinksBehindChanges
        <4> QED
          BY <4>1, <4>2
      <3> QED
        BY <3>1 DEF SweptLeftNothing
    <2> QED
      BY <2>1 DEF BrokenPassIsRepaired, IInv, PlanInv
  <1> QED
    BY <1>1, InvHolds, PTL

\* Two Processes on one topic come of two events and two current edges between one
\* pair of two passes at once, whatever slug _unique_slug finds free
\* (process_persistence.py) and whichever revision relate meets (graph_writer.py).
THEOREM OneNodePerTopicHolds == Spec => []OneNodePerTopic
  <1>1. IInv => OneNodePerTopic
    BY DEF OneNodePerTopic, IInv, TopicInv, EdgeInv
  <1> QED
    BY <1>1, InvHolds, PTL
=============================================================================
