-------------------------- MODULE AssetLayerProofs --------------------------
(***************************************************************************)
(* Proofs about CapabilityLayer and AssetLayer: identities are shared but  *)
(* for overlapping passes, what the rows say the edges say, and what was   *)
(* begun is done, pending or cost a failure.                               *)
(***************************************************************************)
EXTENDS AssetLayer, FiniteSetTheorems, FunctionTheorems, WellFoundedInduction, TLAPS

-----------------------------------------------------------------------------
(* The invariant of the capability layer.                                   *)

Steps == {"idle", "asked", "named", "looked", "written", "mapping", "resolving", "missing",
          "named anew", "inserted", "resolved", "replacing", "wiring", "converging"}
Offered == [name : BottleneckName, binding : BOOLEAN, relief : BOOLEAN]
BottleneckRows == [id : Nat, rev : Nat, of : Process, name : BottleneckName, binding : BOOLEAN]
CapabilityRows == [id : Nat, name : CapabilityName, slug : CapabilityName \X Nat]
RequirementRows == [id : Nat, rev : Nat, bottleneck : Nat, of : Process, leaves : SUBSET Nat]
Bases == [id : Nat, rev : Nat] \cup BottleneckRows \cup RequirementRows
PassRows ==
    [step : Steps, of : Process \cup {0}, saw : Nat, candidates : Seq(Offered), index : Nat,
     next : Nat, basis : Bases, binding : Nat, tree : Seq(CapabilityName), resolved : Seq(Nat),
     slug : {<<>>} \cup (CapabilityName \X Nat), todo : Seq(Nat)]

\* Rows are numbered in the order they came, and a number is one row.
Numbered(rows) ==
    /\ IsFiniteSet(rows)
    /\ \A r \in rows : r.id \in 1..Cardinality(rows)
    /\ \A q, r \in rows : q.id = r.id => q = r

Ids(rows) == {r.id : r \in rows}

RowShapes ==
    /\ stateNo \in [Process -> Nat] /\ assessed \in [Process -> Int] /\ lastSaw \in [Process -> Int]
    /\ raced \in BOOLEAN
    /\ bottlenecks \subseteq BottleneckRows /\ capabilities \subseteq CapabilityRows
    /\ requirements \subseteq RequirementRows
    /\ Numbered(bottlenecks) /\ Numbered(capabilities) /\ Numbered(requirements)
PassShapes ==
    /\ pass \in [Worker -> PassRows]
    /\ passes \in Nat /\ late \in Nat /\ kills \in Nat
    /\ IsFiniteSet(designated)

\* What an edge or a row names is there.
EdgesJoinRows ==
    /\ embedded \subseteq Ids(capabilities)
    /\ creates \subseteq Process \X Ids(bottlenecks)
    /\ requires \subseteq Ids(bottlenecks) \X Ids(capabilities)
    /\ influences \subseteq Process \X Process
    /\ designated \subseteq Ids(bottlenecks)
    /\ \A r \in requirements : r.leaves \subseteq Ids(capabilities)
    /\ \A r \in requirements : \E b \in bottlenecks : b.id = r.bottleneck /\ b.of = r.of

BeforeTree == {"asked", "named", "looked", "written", "mapping"}
Naming == {"named", "looked", "written"}
Resolving == {"resolving", "missing", "named anew", "inserted"}
Mapping == {"mapping", "resolved", "replacing", "wiring", "converging"} \cup Resolving

\* What a pass holds, by how far it is.
HoldsIn(a, bs, cs, qs, edges) ==
    /\ a.step # "idle" => a.of \in Process
    /\ a.step = "idle" => a = NoPass
    /\ a.step = "asked" => a.binding = 0
    /\ a.step \in BeforeTree => a.resolved = <<>>
    /\ a.step \in Naming =>
          /\ a.next \in 1..Len(a.candidates)
          /\ a.index = 0 => a.binding = 0
    /\ a.step \in {"named", "looked"} => (a.binding # 0 => a.index < a.next)
    /\ a.step = "written" => (a.binding # 0 => a.index <= a.next)
    /\ a.step = "looked" /\ a.basis # NoRow =>
          /\ a.basis \in BottleneckRows
          /\ a.basis.of = a.of /\ a.basis.name = a.candidates[a.next].name
    /\ a.step = "written" => \E b \in bs : b.id = a.basis.id /\ b.of = a.of
    /\ a.binding # 0 => \E b \in bs : b.id = a.binding /\ b.of = a.of
    /\ a.step \in Mapping => a.binding # 0
    /\ a.step \in Resolving => Len(a.resolved) < Len(a.tree)
    /\ \A i \in DOMAIN a.resolved : a.resolved[i] \in Ids(cs)
    /\ a.step \in {"resolved", "replacing", "wiring", "converging"} => a.resolved # <<>>
    /\ a.step = "named anew" => a.slug \in {a.tree[Len(a.resolved) + 1]} \X Nat
    /\ a.step = "inserted" =>
          \E c \in cs : c.id = a.basis.id /\ c.name = a.tree[Len(a.resolved) + 1]
    /\ a.step = "replacing" /\ a.basis # NoRow =>
          a.basis \in RequirementRows /\ a.basis.bottleneck = a.binding
    /\ a.step \in {"wiring", "converging"} =>
          /\ a.todo # <<>> /\ \A i \in DOMAIN a.todo : a.todo[i] \in Ids(cs)
          /\ \E r \in qs : r.bottleneck = a.binding
    /\ a.step = "wiring" =>
          /\ a.basis \in RequirementRows /\ a.basis.bottleneck = a.binding
          /\ \A c \in a.basis.leaves : c \in Leaves(a.todo) \/ <<a.binding, c>> \in edges
Holds(a) == HoldsIn(a, bottlenecks, capabilities, requirements, requires)
PassesHold == \A w \in Worker : Holds(pass[w])

\* Passes at work: each but one began while another one was.
AtWork == {w \in Worker : pass[w].step # "idle"}
FewAtWork == Cardinality(AtWork) <= 1 + late

\* Until a State is recorded during a pass, what was read is what there is.
ReadIsCurrent ==
    ~raced => /\ \A w \in Worker : pass[w].step # "idle" => pass[w].saw = stateNo[pass[w].of]
              /\ \A p \in Process : lastSaw[p] >= 0 => assessed[p] = lastSaw[p]

\* Of the rows of one name, and the passes that found none and will write one.
Named(p, n) == {b \in bottlenecks : b.of = p /\ b.name = n}
NamingAnew(p, n) ==
    {w \in Worker : /\ pass[w].step = "looked" /\ pass[w].basis = NoRow
                    /\ pass[w].of = p /\ pass[w].candidates[pass[w].next].name = n}
FewNamed == \A p \in Process, n \in BottleneckName :
    Cardinality(Named(p, n)) + Cardinality(NamingAnew(p, n)) <= 1 + late

\* Of the Capabilities of one ability that can be found by it, and the passes that
\* found none and will add one.
Same(pair) == {c \in capabilities : c.id \in embedded /\ c.name \in {pair[1], pair[2]}}
Adding(pair) ==
    {w \in Worker : /\ pass[w].step \in {"missing", "named anew", "inserted"}
                    /\ Wanted(w) \in {pair[1], pair[2]}}
Abilities == Near \cup {<<n, n>> : n \in CapabilityName}
FewSame == \A pair \in Abilities : Cardinality(Same(pair)) + Cardinality(Adding(pair)) <= 1 + late

\* Of the trees of one Bottleneck, and the passes that found none and will store one.
Storing(b) ==
    {w \in Worker : pass[w].step = "replacing" /\ pass[w].basis = NoRow /\ pass[w].binding = b}
FewTrees == \A b \in Nat :
    Cardinality(CurrentRequirement(b)) + Cardinality(Storing(b)) <= 1 + late

\* The trees whose pass ended before it had wired them.
Orphans ==
    {r \in requirements :
        /\ ~(\A c \in r.leaves : <<r.bottleneck, c>> \in requires)
        /\ ~(\E w \in Worker : pass[w].step = "wiring" /\ pass[w].basis = r)}
OrphansCostAKill == Cardinality(Orphans) <= kills

\* The binding Bottlenecks whose pass ended before they had a tree.
Unmapped ==
    {b \in designated : /\ \A r \in requirements : r.bottleneck # b
                        /\ \A w \in Worker : pass[w].binding # b}
UnmappedCostAKill == Cardinality(Unmapped) <= kills

CapInv ==
    /\ RowShapes /\ PassShapes /\ EdgesJoinRows /\ PassesHold /\ FewAtWork /\ ReadIsCurrent
    /\ FewNamed /\ FewSame /\ FewTrees /\ OrphansCostAKill /\ UnmappedCostAKill
    /\ InfluencesConverge

-----------------------------------------------------------------------------
(* The invariant of the asset layer.                                        *)

SearchSteps == {"idle", "asked", "proposed", "recorded", "absent", "found", "linked", "estimating"}
OfferKeys == {Key(offer) : offer \in Offers}
Keys == {<<>>} \cup OfferKeys
CandidateRows == [id : Nat, of : Nat, asset : Nat, noted : BOOLEAN]
SearchRows ==
    [step : SearchSteps, of : Nat, proposals : Seq(Offers), next : Nat, candidate : Nat, key : Keys,
     asset : Nat]

AssetShapes ==
    /\ search \in [Worker -> SearchRows] /\ candidates \subseteq CandidateRows
    /\ Numbered(assets) /\ Numbered(candidates)
    /\ \A a \in assets : a.key \in OfferKeys
    /\ searches \in Nat /\ lateSearch \in Nat /\ lost \in Nat
    /\ IsFiniteSet(material)
    /\ material \subseteq expressed /\ exposures \subseteq expressed
    /\ expressed \subseteq Ids(capabilities) \X Ids(assets)

AtOffer == {"proposed", "recorded", "absent", "found", "linked", "estimating"}
Come == {"linked", "estimating"}

SearchHoldsIn(s, cs, rows, as, edges) ==
    /\ s.step # "idle" => s.of \in Ids(cs)
    /\ s.step \in AtOffer => s.next \in 1..Len(s.proposals)
    /\ s.step \in {"idle", "asked", "proposed"} => s.candidate = 0
    /\ s.step = "idle" => s = NoSearch
    /\ s.step \in {"recorded", "absent", "found"} =>
          \E row \in rows : row.id = s.candidate /\ row.of = s.of /\ row.asset = 0
    /\ s.step \in {"recorded", "absent"} => s.key \in OfferKeys
    /\ s.step = "absent" => s.key[1] # "name"
    /\ s.step \in {"found", "linked", "estimating"} => s.asset \in Ids(as)
    /\ s.step \in Come =>
          \E row \in rows : row.id = s.candidate /\ row.of = s.of /\ row.asset = s.asset
    /\ s.step = "estimating" => <<s.of, s.asset>> \in edges
SearchHolds(s) == SearchHoldsIn(s, capabilities, candidates, assets, expressed)
SearchesHold == \A w \in Worker : SearchHolds(search[w])

\* A candidate is in one pass's hand.
OneHand == \A v, w \in Worker :
    v # w /\ search[w].candidate # 0 => search[v].candidate # search[w].candidate

Searching == {w \in Worker : search[w].step # "idle"}
FewSearching == Cardinality(Searching) <= 1 + lateSearch

Creating(key) == {w \in Worker : search[w].step = "absent" /\ search[w].key = key}
Keyed(key) == {a \in assets : a.key = key}
FewKeyed == \A key \in OfferKeys : Cardinality(Keyed(key)) + Cardinality(Creating(key)) <= 1 + lateSearch

\* Every expression was a candidate.
ExpressedWasCandidate ==
    \A edge \in expressed : \E row \in candidates : row.of = edge[1] /\ row.asset = edge[2]

\* The material Assets whose estimate a pass did not come to.
Unexposed ==
    {edge \in material \ declined :
        /\ edge \notin exposures
        /\ \A w \in Worker : search[w].step = "estimating" => <<search[w].of, search[w].asset>> # edge}
UnexposedCostAPass == Cardinality(Unexposed) <= lost

AssetInv ==
    /\ AssetShapes /\ SearchesHold /\ OneHand /\ FewSearching /\ FewKeyed /\ ExpressedWasCandidate
    /\ UnexposedCostAPass /\ CandidateIsAccounted /\ ResolvedIsExpressed

IInv == CapInv /\ AssetInv

-----------------------------------------------------------------------------
(* Lemmas on finite sets and on numbered rows.                              *)

LEMMA Fewer ==
    ASSUME NEW S, NEW T, IsFiniteSet(S), T \subseteq S
    PROVE  IsFiniteSet(T) /\ Cardinality(T) <= Cardinality(S) /\ Cardinality(T) \in Nat
  BY FS_Subset, FS_CardinalityType

LEMMA OneMore ==
    ASSUME NEW S, NEW T, NEW x, IsFiniteSet(S), T \subseteq S \cup {x}
    PROVE  IsFiniteSet(T) /\ Cardinality(T) <= Cardinality(S) + 1
  <1>1. /\ IsFiniteSet(S \cup {x}) /\ Cardinality(S) \in Nat
        /\ Cardinality(S \cup {x}) = Cardinality(S) \/ Cardinality(S \cup {x}) = Cardinality(S) + 1
    BY FS_AddElement, FS_CardinalityType
  <1> QED
    BY <1>1, Fewer, FS_CardinalityType

LEMMA OneLess ==
    ASSUME NEW S, NEW T, NEW x \in S, IsFiniteSet(S), T \subseteq S \ {x}
    PROVE  IsFiniteSet(T) /\ Cardinality(T) <= Cardinality(S) - 1
  <1>1. IsFiniteSet(S \ {x}) /\ Cardinality(S \ {x}) = Cardinality(S) - 1 /\ Cardinality(S) \in Nat
    BY FS_RemoveElement, FS_CardinalityType
  <1> QED
    BY <1>1, Fewer

LEMMA NumberedAdds ==
    ASSUME NEW rows, Numbered(rows), NEW row, row.id = Fresh(rows)
    PROVE  /\ Numbered(rows \cup {row}) /\ row \notin rows
           /\ row.id \in Nat \ {0} /\ \A r \in rows : r.id # row.id
  <1>1. Cardinality(rows) \in Nat /\ IsFiniteSet(rows)
    BY FS_CardinalityType DEF Numbered
  <1>2. /\ \A r \in rows : r.id \in 1..Cardinality(rows)
        /\ row.id = Cardinality(rows) + 1
    BY DEF Numbered, Fresh
  <1>3. \A r \in rows : r.id # row.id
    BY <1>1, <1>2
  <1>4. row \notin rows
    BY <1>3
  <1>5. IsFiniteSet(rows \cup {row}) /\ Cardinality(rows \cup {row}) = Cardinality(rows) + 1
    BY <1>1, <1>4, FS_AddElement
  <1>6. \A r \in rows \cup {row} : r.id \in 1..Cardinality(rows \cup {row})
    BY <1>1, <1>2, <1>5
  <1>7. \A q, r \in rows \cup {row} : q.id = r.id => q = r
    BY <1>3 DEF Numbered
  <1>8. Numbered(rows \cup {row})
    BY <1>5, <1>6, <1>7 DEF Numbered
  <1>9. row.id \in Nat \ {0}
    BY <1>1, <1>2
  <1> QED
    BY <1>3, <1>4, <1>8, <1>9

LEMMA NumberedReplaces ==
    ASSUME NEW rows, Numbered(rows), NEW old \in rows, NEW row, row.id = old.id
    PROVE  Numbered((rows \ {old}) \cup {row})
  <1>1. Cardinality(rows) \in Nat /\ IsFiniteSet(rows)
    BY FS_CardinalityType DEF Numbered
  <1>2. \A r \in rows \ {old} : r.id # row.id
    BY DEF Numbered
  <1>3. row \notin rows \ {old}
    BY <1>2
  <1>4. IsFiniteSet(rows \ {old}) /\ Cardinality(rows \ {old}) = Cardinality(rows) - 1
    BY <1>1, FS_RemoveElement
  <1>5. /\ IsFiniteSet((rows \ {old}) \cup {row})
        /\ Cardinality((rows \ {old}) \cup {row}) = Cardinality(rows)
    BY <1>1, <1>3, <1>4, FS_AddElement
  <1>6. \A r \in (rows \ {old}) \cup {row} : r.id \in 1..Cardinality(rows)
    BY DEF Numbered
  <1> QED
    BY <1>2, <1>5, <1>6 DEF Numbered

LEMMA NumberedIds ==
    ASSUME NEW rows, Numbered(rows)
    PROVE  \A r \in rows : r.id \in Nat \ {0}
  <1>1. Cardinality(rows) \in Nat
    BY FS_CardinalityType DEF Numbered
  <1> QED
    BY <1>1 DEF Numbered

LEMMA HeadAndTail ==
    ASSUME NEW S, NEW s \in Seq(S), s # <<>>
    PROVE  /\ Head(s) \in S /\ Tail(s) \in Seq(S) /\ Len(s) \in Nat \ {0}
           /\ Len(s) # 1 => Len(s) > 1 /\ Tail(s) # <<>>
           /\ Leaves(s) = {Head(s)} \cup Leaves(Tail(s))
           /\ Len(s) = 1 => Leaves(s) = {Head(s)}
           /\ DOMAIN s = 1..Len(s) /\ Leaves(s) \subseteq S
  <1>1. Len(s) \in Nat \ {0} /\ DOMAIN s = 1..Len(s) /\ Head(s) = s[1]
    OBVIOUS
  <1>2. /\ Tail(s) \in Seq(S) /\ Len(Tail(s)) = Len(s) - 1 /\ DOMAIN Tail(s) = 1..(Len(s) - 1)
        /\ \A i \in 1..(Len(s) - 1) : Tail(s)[i] = s[i + 1]
    BY <1>1
  <1>3. Leaves(s) \subseteq S /\ Head(s) \in S /\ Head(s) \in Leaves(s)
    BY <1>1 DEF Leaves
  <1>4. Leaves(Tail(s)) \subseteq Leaves(s)
    BY <1>1, <1>2 DEF Leaves
  <1>5. Leaves(s) \subseteq {Head(s)} \cup Leaves(Tail(s))
    <2> SUFFICES ASSUME NEW i \in 1..Len(s), i # 1 PROVE s[i] \in Leaves(Tail(s))
      BY <1>1 DEF Leaves
    <2>1. i - 1 \in 1..(Len(s) - 1) /\ (i - 1) + 1 = i
      BY <1>1
    <2>2. Tail(s)[i - 1] = s[i]
      BY <1>2, <2>1
    <2> QED
      BY <1>2, <2>1, <2>2 DEF Leaves
  <1>6. Len(s) = 1 => Leaves(s) = {Head(s)}
    BY <1>1 DEF Leaves
  <1>7. Len(s) # 1 => Len(s) > 1 /\ Tail(s) # <<>>
    BY <1>1, <1>2
  <1> QED
    BY <1>1, <1>2, <1>3, <1>4, <1>5, <1>6, <1>7

\* There is a rest, and what holds of the members of a sequence holds of it.
LEMMA RestFacts ==
    ASSUME NEW s \in Seq(Nat), Len(s) > 1, NEW ids, \A i \in DOMAIN s : s[i] \in ids
    PROVE  Tail(s) # <<>> /\ \A i \in DOMAIN Tail(s) : Tail(s)[i] \in ids
  <1>1. Len(s) \in Nat /\ DOMAIN s = 1..Len(s)
    OBVIOUS
  <1>2. /\ Tail(s) \in Seq(Nat) /\ Len(Tail(s)) = Len(s) - 1 /\ DOMAIN Tail(s) = 1..(Len(s) - 1)
        /\ \A i \in 1..(Len(s) - 1) : Tail(s)[i] = s[i + 1]
    BY <1>1
  <1>3. \A i \in 1..(Len(s) - 1) : i + 1 \in 1..Len(s)
    BY <1>1
  <1> QED
    BY <1>1, <1>2, <1>3

-----------------------------------------------------------------------------
(* What each action of a pass makes of it.                                  *)

Becomes(w, r) ==
    /\ r \in PassRows /\ pass' \in [Worker -> PassRows]
    /\ pass'[w] = r /\ \A v \in Worker \ {w} : pass'[v] = pass[v]

SameOffer(r, a) ==
    /\ r.of = a.of /\ r.saw = a.saw /\ r.candidates = a.candidates /\ r.index = a.index
    /\ r.next = a.next
SameTree(r, a) == r.tree = a.tree /\ r.resolved = a.resolved

LEMMA MovesFacts ==
    ASSUME PassShapes, NEW w \in Worker, NEW r \in PassRows, Moves(w, r)
    PROVE  Becomes(w, r)
  BY DEF PassShapes, Moves, Becomes

LEMMA NoPassFacts ==
    /\ NoPass \in PassRows /\ NoPass.step = "idle" /\ NoPass.of = 0 /\ NoPass.binding = 0
    /\ NoPass.resolved = <<>> /\ NoPass.basis = NoRow /\ NoPass.index = 0 /\ NoPass.todo = <<>>
  BY DEF NoPass, NoRow, PassRows, Bases, Steps

LEMMA EndsFacts ==
    ASSUME PassShapes, NEW w \in Worker, Moves(w, NoPass)
    PROVE  Becomes(w, NoPass)
  BY NoPassFacts, MovesFacts

LEMMA StartsFacts ==
    ASSUME RowShapes, PassShapes, PassesHold, NEW w \in Worker, NEW p \in Process, Starts(w, p)
    PROVE  \E r \in PassRows :
              /\ Becomes(w, r) /\ r.step = "asked" /\ r.of = p /\ r.saw = stateNo[p]
              /\ r.binding = 0 /\ r.resolved = <<>>
  <1> DEFINE r == [pass[w] EXCEPT !.step = "asked", !.of = p, !.saw = stateNo[p]]
  <1>1. pass[w] = NoPass /\ pass[w] \in PassRows /\ stateNo[p] \in Nat
    BY DEF Starts, PassesHold, Holds, HoldsIn, PassShapes, RowShapes
  <1>2. /\ r \in PassRows /\ r.step = "asked" /\ r.of = p /\ r.saw = stateNo[p]
        /\ r.binding = pass[w].binding /\ r.resolved = pass[w].resolved
    BY <1>1 DEF PassRows, Steps
  <1>3. Becomes(w, r)
    BY <1>2, MovesFacts DEF Starts
  <1> QED
    BY <1>1, <1>2, <1>3, NoPassFacts

\* An answer that names Bottlenecks, or the end.
LEMMA IdentifiesFacts ==
    ASSUME RowShapes, PassShapes, PassesHold, CapabilityAssumption, NEW w \in Worker, Identifies(w)
    PROVE  /\ pass[w].step = "asked" /\ pass[w].binding = 0 /\ pass[w].resolved = <<>>
           /\ \/ Becomes(w, NoPass)
              \/ \E r \in PassRows :
                    /\ Becomes(w, r) /\ r.step = "named" /\ r.of = pass[w].of /\ r.saw = pass[w].saw
                    /\ r.next = 1 /\ r.next \in 1..Len(r.candidates) /\ r.binding = 0 /\ r.resolved = <<>>
  <1> DEFINE a == pass[w]
  <1>1. a \in PassRows /\ a.step = "asked" /\ a.binding = 0 /\ a.resolved = <<>>
    BY DEF Identifies, PassShapes, PassesHold, Holds, HoldsIn, BeforeTree
  <1>2. PICK answer \in Identifications :
            IF answer.candidates = <<>> THEN Moves(w, NoPass)
            ELSE Moves(w, [pass[w] EXCEPT !.step = "named", !.next = 1, !.index = answer.index,
                                          !.candidates = answer.candidates])
    BY DEF Identifies
  <1>3. answer.index \in Nat /\ answer.candidates \in Seq(Offered)
    BY CapabilityAssumption DEF CapabilityAssumption, Offered
  <1>4. CASE answer.candidates = <<>>
    BY <1>1, <1>2, <1>4, EndsFacts
  <1>5. CASE answer.candidates # <<>>
    <2> DEFINE r == [pass[w] EXCEPT !.step = "named", !.next = 1, !.index = answer.index,
                                    !.candidates = answer.candidates]
    <2>1. /\ r \in PassRows /\ r.step = "named" /\ r.of = a.of /\ r.saw = a.saw /\ r.next = 1
          /\ r.candidates = answer.candidates /\ r.binding = a.binding /\ r.resolved = a.resolved
      BY <1>1, <1>3 DEF PassRows, Steps
    <2>2. Becomes(w, r)
      BY <1>2, <1>5, <2>1, MovesFacts
    <2>3. Len(answer.candidates) \in Nat \ {0}
      BY <1>3, <1>5
    <2>4. r.next \in 1..Len(r.candidates)
      BY <2>1, <2>3
    <2> QED
      BY <1>1, <2>1, <2>2, <2>4
  <1> QED
    BY <1>1, <1>4, <1>5

LEMMA LooksForBottleneckFacts ==
    ASSUME RowShapes, PassShapes, PassesHold, NEW w \in Worker, LooksForBottleneck(w)
    PROVE  /\ pass[w].step = "named"
           /\ \E r \in PassRows :
                 /\ Becomes(w, r) /\ r.step = "looked" /\ SameOffer(r, pass[w]) /\ SameTree(r, pass[w])
                 /\ r.binding = pass[w].binding
                 /\ \/ r.basis = NoRow /\ ByName(r.of, r.candidates[r.next].name) = {}
                    \/ r.basis \in ByName(r.of, r.candidates[r.next].name)
  <1> DEFINE a == pass[w]
             rows == ByName(a.of, a.candidates[a.next].name)
             r == [a EXCEPT !.step = "looked", !.basis = One(rows)]
  <1>1. a \in PassRows /\ a.step = "named" /\ Moves(w, r)
    BY DEF LooksForBottleneck, PassShapes
  <1>2. \/ One(rows) = NoRow /\ rows = {}
        \/ One(rows) \in rows
    BY DEF One
  <1>3. rows \subseteq BottleneckRows
    BY DEF ByName, RowShapes
  <1>4. One(rows) \in Bases
    BY <1>2, <1>3 DEF Bases, NoRow
  <1>5. /\ r \in PassRows /\ r.step = "looked" /\ SameOffer(r, a) /\ SameTree(r, a)
        /\ r.binding = a.binding /\ r.basis = One(rows)
    BY <1>1, <1>4 DEF PassRows, Steps, SameOffer, SameTree
  <1>6. Becomes(w, r)
    BY <1>1, <1>5, MovesFacts
  <1> QED
    BY <1>1, <1>2, <1>5, <1>6 DEF SameOffer

\* The row a pass writes: of the name it looked for, and with the identity of what it
\* found.
LEMMA BottleneckRowFacts ==
    ASSUME RowShapes, PassesHold, NEW a \in PassRows, Holds(a), a.step = "looked"
    PROVE  /\ BottleneckRow(a) \in BottleneckRows
           /\ BottleneckRow(a).of = a.of /\ BottleneckRow(a).name = a.candidates[a.next].name
           /\ BottleneckRow(a).id = Identity(a.basis, bottlenecks)
           /\ BottleneckRow(a).rev = a.basis.rev + 1
  <1>1. a.of \in Process /\ a.candidates[a.next] \in Offered /\ a.basis \in Bases
    BY DEF Holds, HoldsIn, Naming, PassRows
  <1>2. a.basis.id \in Nat /\ a.basis.rev \in Nat
    BY <1>1 DEF Bases, BottleneckRows, RequirementRows
  <1>3. Cardinality(bottlenecks) \in Nat
    BY FS_CardinalityType DEF RowShapes, Numbered
  <1>4. Identity(a.basis, bottlenecks) \in Nat
    BY <1>2, <1>3 DEF Identity, Fresh
  <1> QED
    BY <1>1, <1>2, <1>4 DEF BottleneckRow, NextRevision, BottleneckRows, Offered

LEMMA WritesBottleneckFacts ==
    ASSUME RowShapes, PassShapes, PassesHold, NEW w \in Worker, WritesBottleneck(w)
    PROVE  LET a == pass[w]
               row == BottleneckRow(a)
           IN  /\ a.step = "looked" /\ row \in BottleneckRows /\ row.of = a.of
               /\ row.name = a.candidates[a.next].name
               /\ \E r \in PassRows :
                     /\ Becomes(w, r) /\ r.step = "written" /\ SameOffer(r, a) /\ SameTree(r, a)
                     /\ r.basis = row
                     /\ r.binding = IF a.index = a.next THEN row.id ELSE a.binding
  <1> DEFINE a == pass[w]
             row == BottleneckRow(a)
             r == [a EXCEPT !.step = "written", !.basis = row,
                            !.binding = IF Designated(a) THEN row.id ELSE a.binding]
  <1>1. a \in PassRows /\ a.step = "looked" /\ Moves(w, r) /\ Holds(a)
    BY DEF WritesBottleneck, PassShapes, PassesHold
  <1>2. /\ row \in BottleneckRows /\ row.of = a.of /\ row.name = a.candidates[a.next].name
    BY <1>1, BottleneckRowFacts
  <1> HIDE DEF row
  <1>3. row \in Bases /\ row.id \in Nat
    BY <1>2 DEF Bases, BottleneckRows
  <1>4. (IF Designated(a) THEN row.id ELSE a.binding) \in Nat
    BY <1>1, <1>3 DEF PassRows
  <1>5. /\ r \in PassRows /\ r.step = "written" /\ SameOffer(r, a) /\ SameTree(r, a)
        /\ r.basis = row /\ r.binding = IF a.index = a.next THEN row.id ELSE a.binding
    BY <1>1, <1>3, <1>4 DEF PassRows, Steps, SameOffer, SameTree, Designated
  <1>6. Becomes(w, r)
    BY <1>1, <1>5, MovesFacts
  <1> QED
    BY <1>1, <1>2, <1>5, <1>6 DEF row

LEMMA LinksBottleneckFacts ==
    ASSUME RowShapes, PassShapes, PassesHold, NEW w \in Worker, LinksBottleneck(w)
    PROVE  LET a == pass[w] IN
           /\ a.step = "written"
           /\ \/ \E r \in PassRows :
                    /\ Becomes(w, r) /\ r.step = "named" /\ r.of = a.of /\ r.saw = a.saw
                    /\ r.candidates = a.candidates /\ r.index = a.index
                    /\ r.next = a.next + 1 /\ a.next < Len(a.candidates)
                    /\ r.binding = a.binding /\ r.resolved = a.resolved
              \/ \E r \in PassRows :
                    /\ Becomes(w, r) /\ r.step = "mapping" /\ SameOffer(r, a) /\ SameTree(r, a)
                    /\ r.binding = a.binding /\ a.binding # 0
              \/ a.binding = 0 /\ Becomes(w, NoPass)
  <1> DEFINE a == pass[w]
  <1>1. a \in PassRows /\ a.step = "written" /\ NoRow \in Bases
    BY DEF LinksBottleneck, PassShapes, NoRow, Bases
  <1>2. CASE a.next < Len(a.candidates)
    <2> DEFINE r == [a EXCEPT !.step = "named", !.next = a.next + 1, !.basis = NoRow]
    <2>1. Moves(w, r)
      BY <1>2 DEF LinksBottleneck
    <2>2. a.next + 1 \in Nat
      BY <1>1 DEF PassRows
    <2>3. /\ r \in PassRows /\ r.step = "named" /\ r.of = a.of /\ r.saw = a.saw
          /\ r.candidates = a.candidates /\ r.index = a.index /\ r.next = a.next + 1
          /\ r.binding = a.binding /\ r.resolved = a.resolved
      BY <1>1, <2>2 DEF PassRows, Steps
    <2>4. Becomes(w, r)
      BY <2>1, <2>3, MovesFacts
    <2> QED
      BY <1>1, <1>2, <2>3, <2>4
  <1>3. CASE ~(a.next < Len(a.candidates)) /\ a.binding # 0
    <2> DEFINE r == [a EXCEPT !.step = "mapping", !.basis = NoRow]
    <2>1. Moves(w, r)
      BY <1>3 DEF LinksBottleneck
    <2>2. /\ r \in PassRows /\ r.step = "mapping" /\ SameOffer(r, a) /\ SameTree(r, a)
          /\ r.binding = a.binding
      BY <1>1 DEF PassRows, Steps, SameOffer, SameTree
    <2>3. Becomes(w, r)
      BY <2>1, <2>2, MovesFacts
    <2> QED
      BY <1>1, <1>3, <2>2, <2>3
  <1>4. CASE ~(a.next < Len(a.candidates)) /\ a.binding = 0
    BY <1>1, <1>4, EndsFacts DEF LinksBottleneck
  <1> QED
    BY <1>2, <1>3, <1>4

LEMMA MapsFacts ==
    ASSUME RowShapes, PassShapes, PassesHold, CapabilityAssumption, NEW w \in Worker, Maps(w)
    PROVE  /\ pass[w].step = "mapping" /\ pass[w].resolved = <<>>
           /\ \E r \in PassRows :
                 /\ Becomes(w, r) /\ r.step = "resolving" /\ SameOffer(r, pass[w])
                 /\ r.tree # <<>> /\ r.resolved = <<>> /\ r.binding = pass[w].binding
  <1> DEFINE a == pass[w]
  <1>1. a \in PassRows /\ a.step = "mapping" /\ a.resolved = <<>>
    BY DEF Maps, PassShapes, PassesHold, Holds, HoldsIn, BeforeTree
  <1>2. PICK tree \in Trees : Moves(w, [a EXCEPT !.step = "resolving", !.tree = tree])
    BY DEF Maps
  <1>3. tree \in Seq(CapabilityName) /\ tree # <<>>
    BY CapabilityAssumption DEF CapabilityAssumption
  <1> DEFINE r == [a EXCEPT !.step = "resolving", !.tree = tree]
  <1>4. /\ r \in PassRows /\ r.step = "resolving" /\ SameOffer(r, a) /\ r.tree = tree
        /\ r.resolved = a.resolved /\ r.binding = a.binding
    BY <1>1, <1>3 DEF PassRows, Steps, SameOffer
  <1>5. Becomes(w, r)
    BY <1>2, <1>4, MovesFacts
  <1> QED
    BY <1>1, <1>3, <1>4, <1>5

\* Another Capability of the tree has its node.
LEMMA ResolvedFacts ==
    ASSUME PassShapes, PassesHold, NEW w \in Worker, NEW id \in Nat,
           pass[w].step \in Resolving, Resolved(w, id)
    PROVE  \E r \in PassRows :
              /\ Becomes(w, r) /\ SameOffer(r, pass[w]) /\ r.binding = pass[w].binding
              /\ r.tree = pass[w].tree /\ r.resolved = Append(pass[w].resolved, id)
              /\ \/ r.step = "resolved"
                 \/ r.step = "resolving" /\ Len(r.resolved) < Len(r.tree)
  <1> DEFINE a == pass[w]
             found == Append(a.resolved, id)
             step == IF Len(found) = Len(a.tree) THEN "resolved" ELSE "resolving"
             r == [a EXCEPT !.step = step, !.resolved = found, !.slug = <<>>]
  <1>1. a \in PassRows /\ Len(a.resolved) < Len(a.tree) /\ Moves(w, r)
    BY DEF Resolved, PassShapes, PassesHold, Holds, HoldsIn
  <1>2. a.resolved \in Seq(Nat) /\ a.tree \in Seq(CapabilityName)
    BY <1>1 DEF PassRows
  <1>3. found \in Seq(Nat) /\ Len(found) = Len(a.resolved) + 1
    BY <1>2
  <1>4. step \in Steps /\ (step = "resolved" \/ (step = "resolving" /\ Len(found) < Len(a.tree)))
    BY <1>1, <1>2, <1>3 DEF Steps
  <1> HIDE DEF found, step
  <1>5. /\ r \in PassRows /\ r.step = step /\ SameOffer(r, a) /\ r.binding = a.binding
        /\ r.tree = a.tree /\ r.resolved = found
    BY <1>1, <1>3, <1>4 DEF PassRows, SameOffer
  <1>6. Becomes(w, r)
    BY <1>1, <1>5, MovesFacts
  <1> QED
    BY <1>4, <1>5, <1>6 DEF found

LEMMA LooksUpFacts ==
    ASSUME RowShapes, PassShapes, PassesHold, NEW w \in Worker, LooksUp(w)
    PROVE  /\ pass[w].step = "resolving"
           /\ \/ /\ Matches(Wanted(w)) = {}
                 /\ \E r \in PassRows :
                       /\ Becomes(w, r) /\ r.step = "missing" /\ SameOffer(r, pass[w])
                       /\ SameTree(r, pass[w]) /\ r.binding = pass[w].binding
              \/ \E c \in capabilities : \E r \in PassRows :
                    /\ Becomes(w, r) /\ SameOffer(r, pass[w]) /\ r.binding = pass[w].binding
                    /\ r.tree = pass[w].tree /\ r.resolved = Append(pass[w].resolved, c.id)
                    /\ \/ r.step = "resolved"
                       \/ r.step = "resolving" /\ Len(r.resolved) < Len(r.tree)
  <1> DEFINE a == pass[w]
  <1>1. a \in PassRows /\ a.step = "resolving"
    BY DEF LooksUp, PassShapes
  <1>2. CASE Matches(Wanted(w)) = {}
    <2> DEFINE r == [a EXCEPT !.step = "missing"]
    <2>1. Moves(w, r)
      BY <1>2 DEF LooksUp
    <2>2. /\ r \in PassRows /\ r.step = "missing" /\ SameOffer(r, a) /\ SameTree(r, a)
          /\ r.binding = a.binding
      BY <1>1 DEF PassRows, Steps, SameOffer, SameTree
    <2>3. Becomes(w, r)
      BY <2>1, <2>2, MovesFacts
    <2> QED
      BY <1>1, <1>2, <2>2, <2>3
  <1>3. CASE Matches(Wanted(w)) # {}
    <2>1. PICK c \in Matches(Wanted(w)) : Resolved(w, c.id)
      BY <1>3 DEF LooksUp
    <2>2. c \in capabilities /\ c.id \in Nat
      BY <1>1 DEF Matches, RowShapes, CapabilityRows
    <2>3. a.step \in Resolving
      BY <1>1 DEF Resolving
    <2> QED
      BY <1>1, <2>1, <2>2, <2>3, ResolvedFacts
  <1> QED
    BY <1>2, <1>3

-----------------------------------------------------------------------------
(* A free slug.                                                             *)

\* A set of natural numbers has a least member.
LEMMA LeastMember ==
    ASSUME NEW S \in SUBSET Nat, S # {}
    PROVE  \E x \in S : \A y \in S : x <= y
  <1>1. PICK x \in S : \A y \in S : ~ (<<y, x>> \in OpToRel(<, Nat))
    BY NatLessThanWellFounded, WFMin, Zenon
  <1>2. ASSUME NEW y \in Nat, NEW z \in Nat, y < z PROVE <<y, z>> \in OpToRel(<, Nat)
    BY <1>2, Zenon DEF OpToRel
  <1>3. \A y \in S : ~(y < x)
    BY <1>1, <1>2, Zenon
  <1> QED
    BY <1>3

\* Of one more numbers than there are slugs, one is free, and so there is a least free one.
LEMMA FreeSlug ==
    ASSUME IsFiniteSet(Slugs), NEW name \in CapabilityName
    PROVE  UniqueSlug(name) \in {name} \X Nat
  <1> DEFINE c == Cardinality(Slugs)
             Numbers == 1..(c + 1)
             Free == {n \in Numbers : <<name, n>> \notin Slugs}
             Good(k) == <<name, k>> \notin Slugs /\ \A j \in 1..(k - 1) : <<name, j>> \in Slugs
  <1>1. c \in Nat
    BY FS_CardinalityType
  <1>2. Free # {}
    <2> SUFFICES ASSUME Free = {} PROVE FALSE
      OBVIOUS
    <2> DEFINE slug == [n \in Numbers |-> <<name, n>>]
    <2>1. slug \in [Numbers -> Slugs] /\ \A m, n \in Numbers : slug[m] = slug[n] => m = n
      OBVIOUS
    <2>2. slug \in Injection(Numbers, Slugs)
      BY <2>1, Fun_IsInj
    <2>3. Cardinality(Numbers) <= Cardinality(Slugs)
      BY <2>2, FS_Injection
    <2>4. Cardinality(Numbers) = c + 1
      <3>1. Cardinality(1..(c + 1)) = IF 1 > c + 1 THEN 0 ELSE (c + 1) - 1 + 1
        BY <1>1, FS_Interval
      <3> QED
        BY <1>1, <3>1
    <2> QED
      BY <1>1, <2>3, <2>4
  <1>3. Free \in SUBSET Nat
    BY <1>1
  <1>4. PICK n \in Free : \A m \in Free : n <= m
    BY <1>2, <1>3, LeastMember
  <1>5. n \in Numbers /\ Good(n)
    <2>1. ASSUME NEW j \in 1..(n - 1) PROVE <<name, j>> \in Slugs
      BY <1>1, <1>4
    <2> QED
      BY <1>4, <2>1
  <1> DEFINE least == CHOOSE k \in Numbers : Good(k)
  <1>6. UniqueSlug(name) = <<name, least>>
    BY DEF UniqueSlug
  <1> HIDE DEF Good
  <1>7. least \in Numbers
    BY <1>5, Zenon
  <1> HIDE DEF least
  <1>8. least \in Nat
    BY <1>1, <1>7
  <1> QED
    BY <1>6, <1>8

LEMMA SlugsAreFinite ==
    ASSUME RowShapes
    PROVE  IsFiniteSet(Slugs)
  <1>1. IsFiniteSet(capabilities)
    BY DEF RowShapes, Numbered
  <1> DEFINE slug == [c \in capabilities |-> c.slug]
  <1>2. slug \in [capabilities -> Slugs] /\ \A t \in Slugs : \E c \in capabilities : slug[c] = t
    BY DEF Slugs
  <1>3. slug \in Surjection(capabilities, Slugs)
    BY <1>2, Fun_IsSurj
  <1> QED
    BY <1>1, <1>3, FS_Surjection

LEMMA WantedFacts ==
    ASSUME PassShapes, PassesHold, NEW w \in Worker, pass[w].step \in Resolving
    PROVE  Wanted(w) \in CapabilityName
  <1>1. pass[w] \in PassRows /\ Len(pass[w].resolved) < Len(pass[w].tree)
    BY DEF PassShapes, PassesHold, Holds, HoldsIn
  <1>2. pass[w].tree \in Seq(CapabilityName) /\ pass[w].resolved \in Seq(Nat)
    BY <1>1 DEF PassRows
  <1>3. Len(pass[w].resolved) + 1 \in 1..Len(pass[w].tree)
    BY <1>1, <1>2
  <1> QED
    BY <1>2, <1>3 DEF Wanted

LEMMA ReadsSlugsFacts ==
    ASSUME RowShapes, PassShapes, PassesHold, NEW w \in Worker, ReadsSlugs(w)
    PROVE  /\ pass[w].step = "missing"
           /\ \E r \in PassRows :
                 /\ Becomes(w, r) /\ r.step = "named anew" /\ SameOffer(r, pass[w])
                 /\ SameTree(r, pass[w]) /\ r.binding = pass[w].binding
                 /\ r.slug \in {Wanted(w)} \X Nat
  <1> DEFINE a == pass[w]
             slug == UniqueSlug(Wanted(w))
             r == [a EXCEPT !.step = "named anew", !.slug = slug]
  <1>1. a \in PassRows /\ a.step = "missing" /\ Moves(w, r)
    BY DEF ReadsSlugs, PassShapes
  <1>2. Wanted(w) \in CapabilityName
    BY <1>1, WantedFacts DEF Resolving
  <1>3. slug \in {Wanted(w)} \X Nat
    BY <1>2, SlugsAreFinite, FreeSlug
  <1> HIDE DEF slug
  <1>4. slug \in CapabilityName \X Nat
    BY <1>2, <1>3
  <1>5. /\ r \in PassRows /\ r.step = "named anew" /\ SameOffer(r, a) /\ SameTree(r, a)
        /\ r.binding = a.binding /\ r.slug = slug
    BY <1>1, <1>4 DEF PassRows, Steps, SameOffer, SameTree
  <1>6. Becomes(w, r)
    BY <1>1, <1>5, MovesFacts
  <1> QED
    BY <1>1, <1>3, <1>5, <1>6

-----------------------------------------------------------------------------
(* The node of a Capability and the tree of a Bottleneck.                   *)

LEMMA InsertsFacts ==
    ASSUME RowShapes, PassShapes, PassesHold, NEW w \in Worker, Inserts(w)
    PROVE  LET row == CapabilityRow(Fresh(capabilities), pass[w].slug) IN
           /\ pass[w].step = "named anew"
           /\ row \in CapabilityRows /\ row.id = Fresh(capabilities) /\ row.name = Wanted(w)
           /\ capabilities' = capabilities \cup {row}
           /\ \E r \in PassRows :
                 /\ Becomes(w, r) /\ r.step = "inserted" /\ SameOffer(r, pass[w])
                 /\ SameTree(r, pass[w]) /\ r.binding = pass[w].binding
                 /\ r.basis.id = row.id
  <1> DEFINE a == pass[w]
             id == Fresh(capabilities)
             row == CapabilityRow(id, a.slug)
             r == [a EXCEPT !.step = "inserted", !.basis = [id |-> id, rev |-> 1]]
  <1>1. /\ a \in PassRows /\ a.step = "named anew" /\ Moves(w, r)
        /\ a.slug \in {Wanted(w)} \X Nat
    BY DEF Inserts, PassShapes, PassesHold, Holds, HoldsIn, Wanted
  <1>2. Wanted(w) \in CapabilityName
    BY <1>1, WantedFacts DEF Resolving
  <1>3. Cardinality(capabilities) \in Nat
    BY FS_CardinalityType DEF RowShapes, Numbered
  <1>4. id \in Nat
    BY <1>3 DEF Fresh
  <1>5. capabilities' = capabilities \cup {row}
    BY DEF Inserts
  <1> HIDE DEF id
  <1>6. row \in CapabilityRows /\ row.id = id /\ row.name = Wanted(w)
    BY <1>1, <1>2, <1>4 DEF CapabilityRow, CapabilityRows
  <1>7. [id |-> id, rev |-> 1] \in Bases
    BY <1>4 DEF Bases
  <1>8. /\ r \in PassRows /\ r.step = "inserted" /\ SameOffer(r, a) /\ SameTree(r, a)
        /\ r.binding = a.binding /\ r.basis = [id |-> id, rev |-> 1]
    BY <1>1, <1>7 DEF PassRows, Steps, SameOffer, SameTree
  <1>9. Becomes(w, r)
    BY <1>1, <1>8, MovesFacts
  <1>10. r.basis.id = id
    BY <1>8
  <1> QED
    BY <1>1, <1>5, <1>6, <1>8, <1>9, <1>10 DEF id

LEMMA EmbedsFacts ==
    ASSUME RowShapes, PassShapes, PassesHold, NEW w \in Worker, Embeds(w)
    PROVE  /\ pass[w].step = "inserted" /\ embedded' = embedded \cup {pass[w].basis.id}
           /\ \E c \in capabilities :
                 /\ c.id = pass[w].basis.id /\ c.name = Wanted(w)
                 /\ \E r \in PassRows :
                       /\ Becomes(w, r) /\ SameOffer(r, pass[w]) /\ r.binding = pass[w].binding
                       /\ r.tree = pass[w].tree /\ r.resolved = Append(pass[w].resolved, c.id)
                       /\ \/ r.step = "resolved"
                          \/ r.step = "resolving" /\ Len(r.resolved) < Len(r.tree)
  <1>1. /\ pass[w].step = "inserted" /\ embedded' = embedded \cup {pass[w].basis.id}
        /\ Resolved(w, pass[w].basis.id)
    BY DEF Embeds
  <1>2. PICK c \in capabilities : c.id = pass[w].basis.id /\ c.name = Wanted(w)
    BY <1>1 DEF PassesHold, Holds, HoldsIn, Wanted
  <1>3. c.id \in Nat /\ pass[w].step \in Resolving
    BY <1>1 DEF RowShapes, CapabilityRows, Resolving
  <1> QED
    BY <1>1, <1>2, <1>3, ResolvedFacts

LEMMA LooksForRequirementFacts ==
    ASSUME RowShapes, PassShapes, PassesHold, NEW w \in Worker, LooksForRequirement(w)
    PROVE  /\ pass[w].step = "resolved"
           /\ \E r \in PassRows :
                 /\ Becomes(w, r) /\ r.step = "replacing" /\ SameOffer(r, pass[w])
                 /\ SameTree(r, pass[w]) /\ r.binding = pass[w].binding
                 /\ \/ r.basis = NoRow /\ CurrentRequirement(r.binding) = {}
                    \/ r.basis \in CurrentRequirement(r.binding)
  <1> DEFINE a == pass[w]
             rows == CurrentRequirement(a.binding)
             r == [a EXCEPT !.step = "replacing", !.basis = One(rows)]
  <1>1. a \in PassRows /\ a.step = "resolved" /\ Moves(w, r)
    BY DEF LooksForRequirement, PassShapes
  <1>2. \/ One(rows) = NoRow /\ rows = {}
        \/ One(rows) \in rows
    BY DEF One
  <1>3. rows \subseteq RequirementRows
    BY DEF CurrentRequirement, RowShapes
  <1>4. One(rows) \in Bases
    BY <1>2, <1>3 DEF Bases, NoRow
  <1>5. /\ r \in PassRows /\ r.step = "replacing" /\ SameOffer(r, a) /\ SameTree(r, a)
        /\ r.binding = a.binding /\ r.basis = One(rows)
    BY <1>1, <1>4 DEF PassRows, Steps, SameOffer, SameTree
  <1>6. Becomes(w, r)
    BY <1>1, <1>5, MovesFacts
  <1> QED
    BY <1>1, <1>2, <1>5, <1>6

LEMMA RequirementRowFacts ==
    ASSUME RowShapes, NEW a \in PassRows, Holds(a), a.step = "replacing"
    PROVE  /\ RequirementRow(a) \in RequirementRows
           /\ RequirementRow(a).of = a.of /\ RequirementRow(a).bottleneck = a.binding
           /\ RequirementRow(a).id = Identity(a.basis, requirements)
           /\ RequirementRow(a).rev = a.basis.rev + 1
           /\ RequirementRow(a).leaves = Leaves(a.resolved)
  <1>1. a.of \in Process /\ a.resolved \in Seq(Nat) /\ a.basis \in Bases /\ a.binding \in Nat
    BY DEF Holds, HoldsIn, PassRows
  <1>2. a.basis.id \in Nat /\ a.basis.rev \in Nat
    BY <1>1 DEF Bases, BottleneckRows, RequirementRows
  <1>3. Cardinality(requirements) \in Nat
    BY FS_CardinalityType DEF RowShapes, Numbered
  <1>4. Identity(a.basis, requirements) \in Nat
    BY <1>2, <1>3 DEF Identity, Fresh
  <1>5. Leaves(a.resolved) \in SUBSET Nat
    BY <1>1 DEF Leaves
  <1> QED
    BY <1>1, <1>2, <1>4, <1>5 DEF RequirementRow, NextRevision, RequirementRows

LEMMA StoresRequirementFacts ==
    ASSUME RowShapes, PassShapes, PassesHold, NEW w \in Worker, StoresRequirement(w)
    PROVE  LET a == pass[w]
               row == RequirementRow(a)
           IN  /\ a.step = "replacing" /\ row \in RequirementRows
               /\ row.of = a.of /\ row.bottleneck = a.binding /\ row.leaves = Leaves(a.resolved)
               /\ row.id = Identity(a.basis, requirements) /\ row.rev = a.basis.rev + 1
               /\ requirements' = Closed(a.basis, requirements) \cup {row}
               /\ \E r \in PassRows :
                     /\ Becomes(w, r) /\ r.step = "wiring" /\ SameOffer(r, a) /\ SameTree(r, a)
                     /\ r.basis = row /\ r.binding = a.binding /\ r.todo = a.resolved
  <1> DEFINE a == pass[w]
             row == RequirementRow(a)
             r == [a EXCEPT !.step = "wiring", !.basis = row, !.todo = a.resolved]
  <1>1. /\ a \in PassRows /\ a.step = "replacing" /\ Moves(w, r) /\ Holds(a)
        /\ requirements' = Closed(a.basis, requirements) \cup {row}
    BY DEF StoresRequirement, PassShapes, PassesHold, ToWire
  <1>2. /\ row \in RequirementRows /\ row.of = a.of /\ row.bottleneck = a.binding
        /\ row.leaves = Leaves(a.resolved)
        /\ row.id = Identity(a.basis, requirements) /\ row.rev = a.basis.rev + 1
    BY <1>1, RequirementRowFacts
  <1> HIDE DEF row
  <1>3. row \in Bases /\ a.resolved \in Seq(Nat)
    BY <1>1, <1>2 DEF Bases, PassRows
  <1>4. /\ r \in PassRows /\ r.step = "wiring" /\ SameOffer(r, a) /\ SameTree(r, a)
        /\ r.basis = row /\ r.binding = a.binding /\ r.todo = a.resolved
    BY <1>1, <1>3 DEF PassRows, Steps, SameOffer, SameTree
  <1>5. Becomes(w, r)
    BY <1>1, <1>4, MovesFacts
  <1> QED
    BY <1>1, <1>2, <1>4, <1>5 DEF row

LEMMA WiresFacts ==
    ASSUME RowShapes, PassShapes, PassesHold, NEW w \in Worker, Wires(w)
    PROVE  LET a == pass[w] IN
           /\ a.step = "wiring" /\ a.todo \in Seq(Nat) /\ a.todo # <<>>
           /\ requires' = requires \cup {<<a.binding, Head(a.todo)>>}
           /\ \E r \in PassRows :
                 /\ Becomes(w, r) /\ SameOffer(r, a) /\ SameTree(r, a) /\ r.binding = a.binding
                 /\ \/ r.step = "converging" /\ r.todo = a.resolved /\ Len(a.todo) = 1
                    \/ /\ r.step = "wiring" /\ r.basis = a.basis /\ r.todo = Tail(a.todo)
                       /\ Len(a.todo) > 1
  <1> DEFINE a == pass[w]
  <1>1. /\ a \in PassRows /\ a.step = "wiring" /\ NoRow \in Bases /\ a.todo # <<>>
        /\ requires' = requires \cup {<<a.binding, Head(a.todo)>>}
    BY DEF Wires, PassShapes, NoRow, Bases, PassesHold, Holds, HoldsIn
  <1>2. a.todo \in Seq(Nat) /\ a.resolved \in Seq(Nat)
    BY <1>1 DEF PassRows
  <1>3. Tail(a.todo) \in Seq(Nat) /\ (Len(a.todo) # 1 => Len(a.todo) > 1)
    BY <1>1, <1>2, HeadAndTail
  <1>4. CASE Len(a.todo) = 1
    <2> DEFINE r == [a EXCEPT !.step = "converging", !.basis = NoRow, !.todo = a.resolved]
    <2>1. Moves(w, r)
      BY <1>4 DEF Wires
    <2>2. /\ r \in PassRows /\ r.step = "converging" /\ SameOffer(r, a) /\ SameTree(r, a)
          /\ r.binding = a.binding /\ r.todo = a.resolved
      BY <1>1, <1>2 DEF PassRows, Steps, SameOffer, SameTree
    <2>3. Becomes(w, r)
      BY <2>1, <2>2, MovesFacts
    <2> QED
      BY <1>1, <1>2, <1>4, <2>2, <2>3
  <1>5. CASE Len(a.todo) # 1
    <2> DEFINE rest == Tail(a.todo)
               r == [a EXCEPT !.todo = rest]
    <2>1. Moves(w, r) /\ rest \in Seq(Nat)
      BY <1>3, <1>5 DEF Wires
    <2> HIDE DEF rest
    <2>2. /\ r \in PassRows /\ r.step = "wiring" /\ SameOffer(r, a) /\ SameTree(r, a)
          /\ r.binding = a.binding /\ r.basis = a.basis /\ r.todo = rest
      BY <1>1, <2>1 DEF PassRows, SameOffer, SameTree
    <2>3. Becomes(w, r)
      BY <2>1, <2>2, MovesFacts
    <2> QED
      BY <1>1, <1>2, <1>3, <1>5, <2>2, <2>3 DEF rest
  <1> QED
    BY <1>4, <1>5

LEMMA AssessesFacts ==
    ASSUME RowShapes, PassShapes, PassesHold, NEW w \in Worker, Assesses(w)
    PROVE  LET a == pass[w] IN
           /\ a.step = "converging" /\ a.todo \in Seq(Nat) /\ a.todo # <<>>
           /\ \/ influences' = influences
              \/ \E pair \in Confluence(Head(a.todo)) : influences' = influences \cup {pair}
           /\ \/ Becomes(w, NoPass)
              \/ \E r \in PassRows :
                    /\ Becomes(w, r) /\ SameOffer(r, a) /\ SameTree(r, a) /\ r.binding = a.binding
                    /\ r.step = "converging" /\ r.todo = Tail(a.todo) /\ Len(a.todo) > 1
  <1> DEFINE a == pass[w]
  <1>1. /\ a \in PassRows /\ a.step = "converging" /\ a.todo # <<>>
        /\ \/ influences' = influences
           \/ \E pair \in Confluence(Head(a.todo)) : influences' = influences \cup {pair}
    BY DEF Assesses, PassShapes, PassesHold, Holds, HoldsIn
  <1>2. a.todo \in Seq(Nat)
    BY <1>1 DEF PassRows
  <1>3. Tail(a.todo) \in Seq(Nat) /\ (Len(a.todo) # 1 => Len(a.todo) > 1)
    BY <1>1, <1>2, HeadAndTail
  <1>4. CASE Len(a.todo) = 1
    <2>1. Becomes(w, NoPass)
      BY <1>4, EndsFacts DEF Assesses
    <2> QED
      BY <1>1, <1>2, <2>1
  <1>5. CASE Len(a.todo) # 1
    <2> DEFINE rest == Tail(a.todo)
               r == [a EXCEPT !.todo = rest]
    <2>1. Moves(w, r) /\ rest \in Seq(Nat)
      BY <1>3, <1>5 DEF Assesses
    <2> HIDE DEF rest
    <2>2. /\ r \in PassRows /\ r.step = "converging" /\ SameOffer(r, a) /\ SameTree(r, a)
          /\ r.binding = a.binding /\ r.todo = rest
      BY <1>1, <2>1 DEF PassRows, SameOffer, SameTree
    <2>3. Becomes(w, r)
      BY <2>1, <2>2, MovesFacts
    <2> QED
      BY <1>1, <1>2, <1>3, <1>5, <2>2, <2>3 DEF rest
  <1> QED
    BY <1>4, <1>5

LEMMA PassEndsFacts ==
    ASSUME PassShapes, NEW w \in Worker, PassEnds(w)
    PROVE  Becomes(w, NoPass) /\ pass[w].step # "idle"
  BY EndsFacts DEF PassEnds

-----------------------------------------------------------------------------
(* What is written stays, in its newest revision.                           *)

LEMMA RevisionFacts ==
    ASSUME NEW rows, Numbered(rows), NEW basis, Stands(basis, rows),
           NEW row, row.id = Identity(basis, rows)
    PROVE  /\ Numbered(Closed(basis, rows) \cup {row})
           /\ \/ /\ basis = NoRow /\ Closed(basis, rows) = rows /\ row \notin rows
                 /\ row.id = Fresh(rows) /\ \A r \in rows : r.id # row.id
              \/ basis # NoRow /\ basis \in rows /\ row.id = basis.id
  <1>1. NoRow \notin rows
    BY NumberedIds DEF NoRow
  <1>2. CASE basis = NoRow
    <2>1. Closed(basis, rows) = rows /\ row.id = Fresh(rows)
      BY <1>1, <1>2 DEF Closed, Identity
    <2>2. Numbered(rows \cup {row}) /\ row \notin rows /\ \A r \in rows : r.id # row.id
      BY <2>1, NumberedAdds
    <2> QED
      BY <1>2, <2>1, <2>2
  <1>3. CASE basis # NoRow
    <2>1. basis \in rows /\ row.id = basis.id /\ Closed(basis, rows) = rows \ {basis}
      BY <1>3 DEF Stands, Identity, Closed
    <2>2. Numbered((rows \ {basis}) \cup {row})
      BY <2>1, NumberedReplaces
    <2> QED
      BY <1>3, <2>1, <2>2
  <1> QED
    BY <1>2, <1>3

LEMMA BottlenecksAfterWrite ==
    ASSUME RowShapes, PassShapes, PassesHold, NEW w \in Worker, WritesBottleneck(w)
    PROVE  LET a == pass[w]
               row == BottleneckRow(a)
           IN  /\ bottlenecks' \subseteq BottleneckRows /\ Numbered(bottlenecks') /\ row \in bottlenecks'
               /\ \/ /\ a.basis = NoRow /\ bottlenecks' = bottlenecks \cup {row}
                     /\ row \notin bottlenecks
                  \/ /\ a.basis # NoRow /\ a.basis \in bottlenecks
                     /\ row.id = a.basis.id /\ row.of = a.basis.of /\ row.name = a.basis.name
                     /\ row.rev = a.basis.rev + 1
                     /\ bottlenecks' = (bottlenecks \ {a.basis}) \cup {row}
  <1> DEFINE a == pass[w]
             row == BottleneckRow(a)
  <1>1. /\ a \in PassRows /\ Holds(a) /\ a.step = "looked" /\ Stands(a.basis, bottlenecks)
        /\ bottlenecks' = Closed(a.basis, bottlenecks) \cup {row}
    BY DEF WritesBottleneck, PassesHold, PassShapes
  <1>2. /\ row \in BottleneckRows /\ row.of = a.of /\ row.name = a.candidates[a.next].name
        /\ row.id = Identity(a.basis, bottlenecks) /\ row.rev = a.basis.rev + 1
    BY <1>1, BottleneckRowFacts
  <1> HIDE DEF row
  <1>3. Numbered(bottlenecks)
    BY DEF RowShapes
  <1>4. /\ Numbered(Closed(a.basis, bottlenecks) \cup {row})
        /\ \/ a.basis = NoRow /\ Closed(a.basis, bottlenecks) = bottlenecks /\ row \notin bottlenecks
           \/ a.basis # NoRow /\ a.basis \in bottlenecks /\ row.id = a.basis.id
    BY <1>1, <1>2, <1>3, RevisionFacts
  <1>5. a.basis # NoRow => row.of = a.basis.of /\ row.name = a.basis.name
    BY <1>1, <1>2 DEF Holds, HoldsIn
  <1>6. Closed(a.basis, bottlenecks) = bottlenecks \ {a.basis}
    BY DEF Closed
  <1>7. bottlenecks' \subseteq BottleneckRows /\ row \in bottlenecks'
    BY <1>1, <1>2, <1>6 DEF RowShapes
  <1> QED
    BY <1>1, <1>2, <1>4, <1>5, <1>6, <1>7 DEF row

LEMMA RequirementsAfterStore ==
    ASSUME RowShapes, PassShapes, PassesHold, EdgesJoinRows, NEW w \in Worker, StoresRequirement(w)
    PROVE  LET a == pass[w]
               row == RequirementRow(a)
           IN  /\ requirements' \subseteq RequirementRows /\ Numbered(requirements')
               /\ row \in requirements'
               /\ \/ /\ a.basis = NoRow /\ requirements' = requirements \cup {row}
                     /\ row \notin requirements
                  \/ /\ a.basis # NoRow /\ a.basis \in requirements
                     /\ row.bottleneck = a.basis.bottleneck /\ row.of = a.basis.of
                     /\ row.id = a.basis.id /\ row.rev = a.basis.rev + 1
                     /\ requirements' = (requirements \ {a.basis}) \cup {row}
  <1> DEFINE a == pass[w]
             row == RequirementRow(a)
  <1>1. /\ a.step = "replacing" /\ row \in RequirementRows
        /\ row.of = a.of /\ row.bottleneck = a.binding
        /\ row.id = Identity(a.basis, requirements) /\ row.rev = a.basis.rev + 1
        /\ requirements' = Closed(a.basis, requirements) \cup {row}
    BY StoresRequirementFacts
  <1>2. Stands(a.basis, requirements) /\ Holds(a)
    BY DEF StoresRequirement, PassesHold
  <1> HIDE DEF row
  <1>3. Numbered(requirements)
    BY DEF RowShapes
  <1>4. /\ Numbered(Closed(a.basis, requirements) \cup {row})
        /\ \/ a.basis = NoRow /\ Closed(a.basis, requirements) = requirements /\ row \notin requirements
           \/ a.basis # NoRow /\ a.basis \in requirements /\ row.id = a.basis.id
    BY <1>1, <1>2, <1>3, RevisionFacts
  <1>5. ASSUME a.basis # NoRow PROVE row.bottleneck = a.basis.bottleneck /\ row.of = a.basis.of
    <2>1. a.basis \in requirements /\ a.basis.bottleneck = a.binding /\ a.binding # 0
      BY <1>1, <1>2, <1>4, <1>5 DEF Holds, HoldsIn, Mapping
    <2>2. PICK b \in bottlenecks : b.id = a.binding /\ b.of = a.of
      BY <1>2, <2>1 DEF Holds, HoldsIn
    <2>3. PICK c \in bottlenecks : c.id = a.basis.bottleneck /\ c.of = a.basis.of
      BY <2>1 DEF EdgesJoinRows
    <2>4. b = c
      BY <2>1, <2>2, <2>3 DEF RowShapes, Numbered
    <2> QED
      BY <1>1, <2>1, <2>2, <2>3, <2>4
  <1>6. Closed(a.basis, requirements) = requirements \ {a.basis}
    BY DEF Closed
  <1>7. requirements' \subseteq RequirementRows /\ row \in requirements'
    BY <1>1, <1>6 DEF RowShapes
  <1> QED
    BY <1>1, <1>4, <1>5, <1>6, <1>7 DEF row

BottlenecksStay ==
    \A b \in bottlenecks : \E c \in bottlenecks' : c.id = b.id /\ c.of = b.of /\ c.name = b.name
RequirementsStay ==
    \A r \in requirements : \E q \in requirements' : q.bottleneck = r.bottleneck /\ q.of = r.of
Grows ==
    /\ BottlenecksStay /\ RequirementsStay
    /\ capabilities \subseteq capabilities' /\ requires \subseteq requires'
    /\ embedded \subseteq embedded' /\ designated \subseteq designated'

LEMMA MoverFacts ==
    ASSUME RowShapes, PassShapes, PassesHold, CapabilityAssumption, NEW w \in Worker, CapStep(w)
    PROVE  /\ \E r \in PassRows : Becomes(w, r)
           /\ pass[w].step # "idle" \/ \E p \in Process : Starts(w, p)
  <1>1. CASE \E p \in Process : Starts(w, p)
    BY <1>1, StartsFacts
  <1>2. CASE Identifies(w)
    <2>1. \E r \in PassRows : Becomes(w, r)
      BY <1>2, IdentifiesFacts, NoPassFacts
    <2> QED
      BY <1>2, <2>1, IdentifiesFacts
  <1>3. CASE LooksForBottleneck(w)
    BY <1>3, LooksForBottleneckFacts
  <1>4. CASE WritesBottleneck(w)
    BY <1>4, WritesBottleneckFacts
  <1>5. CASE LinksBottleneck(w)
    <2>1. \E r \in PassRows : Becomes(w, r)
      BY <1>5, LinksBottleneckFacts, NoPassFacts
    <2> QED
      BY <1>5, <2>1, LinksBottleneckFacts
  <1>6. CASE Maps(w)
    BY <1>6, MapsFacts
  <1>7. CASE LooksUp(w)
    <2>1. \E r \in PassRows : Becomes(w, r)
      BY <1>7, LooksUpFacts
    <2> QED
      BY <1>7, <2>1, LooksUpFacts
  <1>8. CASE ReadsSlugs(w)
    BY <1>8, ReadsSlugsFacts
  <1>9. CASE Inserts(w)
    BY <1>9, InsertsFacts
  <1>10. CASE Embeds(w)
    BY <1>10, EmbedsFacts
  <1>11. CASE LooksForRequirement(w)
    BY <1>11, LooksForRequirementFacts
  <1>12. CASE StoresRequirement(w)
    BY <1>12, StoresRequirementFacts
  <1>13. CASE Wires(w)
    BY <1>13, WiresFacts
  <1>14. CASE Assesses(w)
    <2>1. \E r \in PassRows : Becomes(w, r)
      BY <1>14, AssessesFacts, NoPassFacts
    <2> QED
      BY <1>14, <2>1, AssessesFacts
  <1>15. CASE PassEnds(w)
    BY <1>15, PassEndsFacts, NoPassFacts
  <1> QED
    BY <1>1, <1>2, <1>3, <1>4, <1>5, <1>6, <1>7, <1>8, <1>9, <1>10, <1>11, <1>12, <1>13, <1>14,
       <1>15 DEF CapStep

SameRows == UNCHANGED <<bottlenecks, capabilities, requirements>>
SameEdges == UNCHANGED <<requires, embedded, designated>>

\* What a step may change of what the graph holds.
LEMMA WhoWrites ==
    ASSUME NEW w \in Worker, CapStep(w)
    PROVE  /\ SameRows \/ WritesBottleneck(w) \/ Inserts(w) \/ StoresRequirement(w)
           /\ SameEdges \/ WritesBottleneck(w) \/ Embeds(w) \/ Wires(w)
  BY DEF CapStep, SameRows, SameEdges, Starts, Identifies, LooksForBottleneck, WritesBottleneck,
         LinksBottleneck, Maps, LooksUp, ReadsSlugs, Inserts, Embeds, LooksForRequirement,
         StoresRequirement, Wires, Assesses, PassEnds, nodeVars, edgeVars, historyVars

LEMMA StepGrows ==
    ASSUME RowShapes, PassShapes, PassesHold, EdgesJoinRows, NEW w \in Worker, CapStep(w)
    PROVE  Grows
  <1>1. SameRows => BottlenecksStay /\ RequirementsStay /\ capabilities \subseteq capabilities'
    BY DEF SameRows, BottlenecksStay, RequirementsStay
  <1>2. ASSUME WritesBottleneck(w)
        PROVE  BottlenecksStay /\ RequirementsStay /\ capabilities \subseteq capabilities'
    <2>1. UNCHANGED <<capabilities, requirements>>
      BY <1>2 DEF WritesBottleneck
    <2> DEFINE a == pass[w]
               row == BottleneckRow(a)
    <2>2. \/ bottlenecks' = bottlenecks \cup {row}
          \/ /\ row.id = a.basis.id /\ row.of = a.basis.of /\ row.name = a.basis.name
             /\ bottlenecks' = (bottlenecks \ {a.basis}) \cup {row}
      BY <1>2, BottlenecksAfterWrite
    <2> HIDE DEF row
    <2>3. BottlenecksStay
      BY <2>2 DEF BottlenecksStay
    <2> QED
      BY <2>1, <2>3 DEF RequirementsStay
  <1>3. ASSUME Inserts(w)
        PROVE  BottlenecksStay /\ RequirementsStay /\ capabilities \subseteq capabilities'
    BY <1>3 DEF Inserts, BottlenecksStay, RequirementsStay
  <1>4. ASSUME StoresRequirement(w)
        PROVE  BottlenecksStay /\ RequirementsStay /\ capabilities \subseteq capabilities'
    <2>1. UNCHANGED <<capabilities, bottlenecks>>
      BY <1>4 DEF StoresRequirement
    <2> DEFINE a == pass[w]
               row == RequirementRow(a)
    <2>2. \/ requirements' = requirements \cup {row}
          \/ /\ row.bottleneck = a.basis.bottleneck /\ row.of = a.basis.of
             /\ requirements' = (requirements \ {a.basis}) \cup {row}
      BY <1>4, RequirementsAfterStore
    <2> HIDE DEF row
    <2>3. RequirementsStay
      BY <2>2 DEF RequirementsStay
    <2> QED
      BY <2>1, <2>3 DEF BottlenecksStay
  <1>5. requires \subseteq requires' /\ embedded \subseteq embedded' /\ designated \subseteq designated'
    BY WhoWrites DEF SameEdges, WritesBottleneck, Embeds, Wires, edgeVars, nodeVars, historyVars
  <1> QED
    BY <1>1, <1>2, <1>3, <1>4, <1>5, WhoWrites DEF Grows

LEMMA StateGrows ==
    ASSUME NEW p \in Process, RecordsState(p)
    PROVE  Grows
  BY DEF RecordsState, Grows, BottlenecksStay, RequirementsStay, edgeVars, nodeVars, historyVars

\* What a pass holds is not taken from it by another one.
LEMMA HoldsOn ==
    ASSUME NEW a, Holds(a), Grows
    PROVE  Holds(a)'
  <1>1. Ids(capabilities) \subseteq Ids(capabilities)'
    BY DEF Grows, Ids
  <1>2. (a.step = "written" => \E b \in bottlenecks : b.id = a.basis.id /\ b.of = a.of)'
    <2>1. ASSUME a.step = "written" PROVE \E b \in bottlenecks' : b.id = a.basis.id /\ b.of = a.of
      <3>1. PICK b \in bottlenecks : b.id = a.basis.id /\ b.of = a.of
        BY <2>1 DEF Holds, HoldsIn
      <3> QED
        BY <3>1 DEF Grows, BottlenecksStay
    <2> QED
      BY <2>1
  <1>3. (a.binding # 0 => \E b \in bottlenecks : b.id = a.binding /\ b.of = a.of)'
    <2>1. ASSUME a.binding # 0 PROVE \E b \in bottlenecks' : b.id = a.binding /\ b.of = a.of
      <3>1. PICK b \in bottlenecks : b.id = a.binding /\ b.of = a.of
        BY <2>1 DEF Holds, HoldsIn
      <3> QED
        BY <3>1 DEF Grows, BottlenecksStay
    <2> QED
      BY <2>1
  <1>4. (\A i \in DOMAIN a.resolved : a.resolved[i] \in Ids(capabilities))'
    BY <1>1 DEF Holds, HoldsIn
  <1>5. (a.step = "inserted" =>
          \E c \in capabilities : c.id = a.basis.id /\ c.name = a.tree[Len(a.resolved) + 1])'
    BY DEF Holds, HoldsIn, Grows
  <1>6. (a.step \in {"wiring", "converging"} =>
          /\ a.todo # <<>> /\ \A i \in DOMAIN a.todo : a.todo[i] \in Ids(capabilities)
          /\ \E r \in requirements : r.bottleneck = a.binding)'
    BY <1>1 DEF Holds, HoldsIn, Grows, RequirementsStay
  <1>7. (a.step = "wiring" =>
          /\ a.basis \in RequirementRows /\ a.basis.bottleneck = a.binding
          /\ \A c \in a.basis.leaves : c \in Leaves(a.todo) \/ <<a.binding, c>> \in requires)'
    <2>1. a.step = "wiring" =>
            /\ a.basis \in RequirementRows /\ a.basis.bottleneck = a.binding
            /\ \A c \in a.basis.leaves : c \in Leaves(a.todo) \/ <<a.binding, c>> \in requires
      BY DEF Holds, HoldsIn
    <2>2. requires \subseteq requires'
      BY DEF Grows
    <2> QED
      BY <2>1, <2>2
  <1> QED
    BY <1>2, <1>3, <1>4, <1>5, <1>6, <1>7 DEF Holds, HoldsIn

-----------------------------------------------------------------------------
(* The invariant of the capability layer is kept, part by part.             *)

CapBase == RowShapes /\ PassShapes /\ EdgesJoinRows /\ PassesHold

LEMMA RowShapesStep ==
    ASSUME CapBase, NEW w \in Worker, CapStep(w)
    PROVE  RowShapes'
  <1> USE DEF CapBase
  <1>1. ASSUME SameRows
        PROVE  /\ bottlenecks' \subseteq BottleneckRows /\ capabilities' \subseteq CapabilityRows
               /\ requirements' \subseteq RequirementRows
               /\ Numbered(bottlenecks') /\ Numbered(capabilities') /\ Numbered(requirements')
    BY <1>1 DEF SameRows, RowShapes
  <1>2. ASSUME WritesBottleneck(w)
        PROVE  /\ bottlenecks' \subseteq BottleneckRows /\ capabilities' \subseteq CapabilityRows
               /\ requirements' \subseteq RequirementRows
               /\ Numbered(bottlenecks') /\ Numbered(capabilities') /\ Numbered(requirements')
    <2>1. bottlenecks' \subseteq BottleneckRows /\ Numbered(bottlenecks')
      BY <1>2, BottlenecksAfterWrite
    <2>2. capabilities' = capabilities /\ requirements' = requirements
      BY <1>2 DEF WritesBottleneck
    <2> QED
      BY <2>1, <2>2 DEF RowShapes
  <1>3. ASSUME Inserts(w)
        PROVE  /\ bottlenecks' \subseteq BottleneckRows /\ capabilities' \subseteq CapabilityRows
               /\ requirements' \subseteq RequirementRows
               /\ Numbered(bottlenecks') /\ Numbered(capabilities') /\ Numbered(requirements')
    <2> DEFINE row == CapabilityRow(Fresh(capabilities), pass[w].slug)
    <2>1. row \in CapabilityRows /\ row.id = Fresh(capabilities) /\ capabilities' = capabilities \cup {row}
      BY <1>3, InsertsFacts
    <2>2. bottlenecks' = bottlenecks /\ requirements' = requirements
      BY <1>3 DEF Inserts
    <2> HIDE DEF row
    <2>3. Numbered(capabilities \cup {row})
      BY <2>1, NumberedAdds DEF RowShapes
    <2> QED
      BY <2>1, <2>2, <2>3 DEF RowShapes
  <1>4. ASSUME StoresRequirement(w)
        PROVE  /\ bottlenecks' \subseteq BottleneckRows /\ capabilities' \subseteq CapabilityRows
               /\ requirements' \subseteq RequirementRows
               /\ Numbered(bottlenecks') /\ Numbered(capabilities') /\ Numbered(requirements')
    <2>1. requirements' \subseteq RequirementRows /\ Numbered(requirements')
      BY <1>4, RequirementsAfterStore
    <2>2. bottlenecks' = bottlenecks /\ capabilities' = capabilities
      BY <1>4 DEF StoresRequirement
    <2> QED
      BY <2>1, <2>2 DEF RowShapes
  <1>5. stateNo' = stateNo /\ raced' = raced
    BY DEF CapStep, Starts, Identifies, LooksForBottleneck, WritesBottleneck, LinksBottleneck, Maps,
           LooksUp, ReadsSlugs, Inserts, Embeds, LooksForRequirement, StoresRequirement, Wires,
           Assesses, PassEnds, stateVars
  <1>6. \/ assessed' = assessed /\ lastSaw' = lastSaw
        \/ WritesBottleneck(w)
    BY DEF CapStep, Starts, Identifies, LooksForBottleneck, LinksBottleneck, Maps, LooksUp, ReadsSlugs,
           Inserts, Embeds, LooksForRequirement, StoresRequirement, Wires, Assesses, PassEnds, stateVars
  <1>7. assessed' \in [Process -> Int] /\ lastSaw' \in [Process -> Int]
    <2>1. ASSUME WritesBottleneck(w) PROVE assessed' \in [Process -> Int] /\ lastSaw' \in [Process -> Int]
      <3> DEFINE a == pass[w]
      <3>1. a \in PassRows /\ a.step = "looked" /\ Holds(a)
        BY <2>1 DEF WritesBottleneck, PassShapes, PassesHold
      <3>2. a.of \in Process /\ a.saw \in Nat
        BY <3>1 DEF Holds, HoldsIn, PassRows
      <3>3. /\ assessed' = [assessed EXCEPT ![a.of] = stateNo[a.of]]
            /\ lastSaw' = [lastSaw EXCEPT ![a.of] = a.saw]
        BY <2>1 DEF WritesBottleneck
      <3>4. stateNo[a.of] \in Nat
        BY <3>2 DEF RowShapes
      <3> HIDE DEF a
      <3> QED
        BY <3>2, <3>3, <3>4 DEF RowShapes
    <2> QED
      BY <1>6, <2>1 DEF RowShapes
  <1>8. /\ bottlenecks' \subseteq BottleneckRows /\ capabilities' \subseteq CapabilityRows
        /\ requirements' \subseteq RequirementRows
        /\ Numbered(bottlenecks') /\ Numbered(capabilities') /\ Numbered(requirements')
    BY <1>1, <1>2, <1>3, <1>4, WhoWrites
  <1>9. Numbered(bottlenecks)' /\ Numbered(capabilities)' /\ Numbered(requirements)'
    BY <1>8 DEF Numbered
  <1>10. stateNo' \in [Process -> Nat] /\ raced' \in BOOLEAN
    BY <1>5 DEF RowShapes
  <1> QED
    BY <1>7, <1>8, <1>9, <1>10 DEF RowShapes

LEMMA PassShapesStep ==
    ASSUME CapBase, CapabilityAssumption, NEW w \in Worker, CapStep(w)
    PROVE  PassShapes'
  <1> USE DEF CapBase
  <1>1. pass' \in [Worker -> PassRows]
    BY MoverFacts DEF Becomes
  <1>2. \/ UNCHANGED <<passes, late>>
        \/ passes' = passes + 1 /\ (late' = late + 1 \/ late' = late)
    BY DEF CapStep, Starts, Identifies, LooksForBottleneck, WritesBottleneck, LinksBottleneck, Maps,
           LooksUp, ReadsSlugs, Inserts, Embeds, LooksForRequirement, StoresRequirement, Wires,
           Assesses, PassEnds, historyVars
  <1>3. kills' = kills \/ kills' = kills + 1
    BY DEF CapStep, Starts, Identifies, LooksForBottleneck, WritesBottleneck, LinksBottleneck, Maps,
           LooksUp, ReadsSlugs, Inserts, Embeds, LooksForRequirement, StoresRequirement, Wires,
           Assesses, PassEnds, historyVars
  <1>4. designated' = designated \/ designated' = designated \cup {BottleneckRow(pass[w]).id}
    BY WhoWrites DEF SameEdges, WritesBottleneck, Embeds, Wires, historyVars
  <1>5. IsFiniteSet(designated')
    BY <1>4, FS_AddElement DEF PassShapes
  <1> QED
    BY <1>1, <1>2, <1>3, <1>5 DEF PassShapes

LEMMA EdgesJoinRowsStep ==
    ASSUME CapBase, NEW w \in Worker, CapStep(w)
    PROVE  EdgesJoinRows'
  <1> USE DEF CapBase
  <1>1. Grows
    BY StepGrows
  <1>2. Ids(bottlenecks) \subseteq Ids(bottlenecks') /\ Ids(capabilities) \subseteq Ids(capabilities')
    BY <1>1 DEF Grows, BottlenecksStay, Ids
  <1>3. embedded' \subseteq Ids(capabilities')
    <2>1. embedded' = embedded \/ Embeds(w)
      BY WhoWrites DEF SameEdges, WritesBottleneck, Wires, nodeVars
    <2>2. ASSUME Embeds(w) PROVE embedded' \subseteq Ids(capabilities)
      BY <2>2, EmbedsFacts DEF EdgesJoinRows, Ids
    <2> QED
      BY <1>2, <2>1, <2>2 DEF EdgesJoinRows
  <1>4. creates' \subseteq Process \X Ids(bottlenecks')
    <2>1. creates' = creates \/ LinksBottleneck(w)
      BY DEF CapStep, Starts, Identifies, LooksForBottleneck, WritesBottleneck, Maps, LooksUp,
             ReadsSlugs, Inserts, Embeds, LooksForRequirement, StoresRequirement, Wires, Assesses,
             PassEnds, edgeVars
    <2>2. ASSUME LinksBottleneck(w) PROVE creates' \subseteq Process \X Ids(bottlenecks)
      <3> DEFINE a == pass[w]
      <3>1. a.step = "written" /\ Holds(a) /\ creates' = creates \cup {<<a.of, a.basis.id>>}
        BY <2>2 DEF LinksBottleneck, PassesHold
      <3>2. a.of \in Process /\ a.basis.id \in Ids(bottlenecks)
        BY <3>1 DEF Holds, HoldsIn, Ids
      <3> QED
        BY <3>1, <3>2 DEF EdgesJoinRows
    <2> QED
      BY <1>2, <2>1, <2>2 DEF EdgesJoinRows
  <1>5. requires' \subseteq Ids(bottlenecks') \X Ids(capabilities')
    <2>1. requires' = requires \/ Wires(w)
      BY WhoWrites DEF SameEdges, WritesBottleneck, Embeds, edgeVars
    <2>2. ASSUME Wires(w) PROVE requires' \subseteq Ids(bottlenecks) \X Ids(capabilities)
      <3> DEFINE a == pass[w]
      <3>1. /\ a.step = "wiring" /\ Holds(a) /\ a.todo \in Seq(Nat) /\ a.todo # <<>>
            /\ requires' = requires \cup {<<a.binding, Head(a.todo)>>}
        BY <2>2, WiresFacts DEF PassesHold
      <3>2. \A i \in DOMAIN a.todo : a.todo[i] \in Ids(capabilities)
        BY <3>1 DEF Holds, HoldsIn
      <3>3. Head(a.todo) \in Ids(capabilities)
        BY <3>1, <3>2, HeadAndTail DEF Leaves
      <3>4. a.binding \in Ids(bottlenecks)
        BY <3>1 DEF Holds, HoldsIn, Mapping, Ids
      <3> QED
        BY <3>1, <3>3, <3>4 DEF EdgesJoinRows
    <2> QED
      BY <1>2, <2>1, <2>2 DEF EdgesJoinRows
  <1>6. influences' \subseteq Process \X Process
    <2>1. influences' = influences \/ Assesses(w)
      BY DEF CapStep, Starts, Identifies, LooksForBottleneck, WritesBottleneck, LinksBottleneck, Maps,
             LooksUp, ReadsSlugs, Inserts, Embeds, LooksForRequirement, StoresRequirement, Wires,
             PassEnds, edgeVars
    <2>2. ASSUME NEW c PROVE Confluence(c) \subseteq Process \X Process
      BY DEF Confluence, OfferedPairs, Upstream, RowShapes, RequirementRows
    <2>3. Assesses(w) => influences' \subseteq Process \X Process
      BY <2>2, AssessesFacts DEF EdgesJoinRows
    <2> QED
      BY <2>1, <2>3 DEF EdgesJoinRows
  <1>7. designated' \subseteq Ids(bottlenecks')
    <2>1. designated' = designated \/ WritesBottleneck(w)
      BY WhoWrites DEF SameEdges, Embeds, Wires, historyVars
    <2>2. ASSUME WritesBottleneck(w) PROVE designated' \subseteq Ids(bottlenecks')
      <3>1. BottleneckRow(pass[w]) \in bottlenecks'
        BY <2>2, BottlenecksAfterWrite
      <3>2. \/ designated' = designated
            \/ designated' = designated \cup {BottleneckRow(pass[w]).id}
        BY <2>2 DEF WritesBottleneck
      <3> QED
        BY <1>2, <3>1, <3>2 DEF EdgesJoinRows, Ids
    <2> QED
      BY <1>2, <2>1, <2>2 DEF EdgesJoinRows
  <1>8. /\ \A r \in requirements' : r.leaves \subseteq Ids(capabilities')
        /\ \A r \in requirements' : \E b \in bottlenecks' : b.id = r.bottleneck /\ b.of = r.of
    <2>1. ASSUME NEW r \in requirements, r \in requirements'
          PROVE  /\ r.leaves \subseteq Ids(capabilities')
                 /\ \E b \in bottlenecks' : b.id = r.bottleneck /\ b.of = r.of
      <3>1. PICK b \in bottlenecks : b.id = r.bottleneck /\ b.of = r.of
        BY DEF EdgesJoinRows
      <3> QED
        BY <1>1, <1>2, <3>1 DEF EdgesJoinRows, Grows, BottlenecksStay
    <2>2. ASSUME NEW r \in requirements', r \notin requirements
          PROVE  /\ r.leaves \subseteq Ids(capabilities')
                 /\ \E b \in bottlenecks' : b.id = r.bottleneck /\ b.of = r.of
      <3> DEFINE a == pass[w]
      <3>1. StoresRequirement(w)
        BY <2>2, WhoWrites DEF SameRows, WritesBottleneck, Inserts
      <3>2. /\ a.step = "replacing" /\ requirements' = Closed(a.basis, requirements) \cup {RequirementRow(a)}
            /\ RequirementRow(a).of = a.of /\ RequirementRow(a).bottleneck = a.binding
            /\ RequirementRow(a).leaves = Leaves(a.resolved)
        BY <3>1, StoresRequirementFacts
      <3>3. r = RequirementRow(a) /\ Holds(a)
        BY <2>2, <3>2 DEF Closed, PassesHold
      <3>4. Leaves(a.resolved) \subseteq Ids(capabilities)
        BY <3>3 DEF Holds, HoldsIn, Leaves
      <3>5. \E b \in bottlenecks : b.id = a.binding /\ b.of = a.of
        BY <3>2, <3>3 DEF Holds, HoldsIn, Mapping
      <3>6. UNCHANGED <<bottlenecks, capabilities>>
        BY <3>1 DEF StoresRequirement
      <3> QED
        BY <3>2, <3>3, <3>4, <3>5, <3>6
    <2> QED
      BY <2>1, <2>2
  <1>9. Ids(bottlenecks') = Ids(bottlenecks)' /\ Ids(capabilities') = Ids(capabilities)'
    BY DEF Ids
  <1> QED
    BY <1>3, <1>4, <1>5, <1>6, <1>7, <1>8, <1>9 DEF EdgesJoinRows

LEMMA HoldsResolved ==
    ASSUME NEW a \in PassRows, NEW r, Holds(a), a.step \in Resolving, NEW c \in capabilities,
           SameOffer(r, a), r.binding = a.binding, r.resolved = Append(a.resolved, c.id), Grows,
           a.binding # 0 => \E b \in bottlenecks' : b.id = a.binding /\ b.of = a.of,
           \/ r.step = "resolved"
           \/ r.step = "resolving" /\ Len(r.resolved) < Len(r.tree)
    PROVE  Holds(r)'
  <1>1. a.resolved \in Seq(Nat)
    BY DEF PassRows
  <1>2. Ids(capabilities)' = Ids(capabilities') /\ Ids(capabilities) \subseteq Ids(capabilities')
    BY DEF Grows, Ids
  <1>3. c.id \in Ids(capabilities')
    BY <1>2 DEF Ids
  <1>4. \A i \in DOMAIN a.resolved : a.resolved[i] \in Ids(capabilities')
    BY <1>2 DEF Holds, HoldsIn
  <1>5. /\ DOMAIN r.resolved = 1..(Len(a.resolved) + 1) /\ DOMAIN a.resolved = 1..Len(a.resolved)
        /\ Len(a.resolved) \in Nat /\ Len(r.resolved) = Len(a.resolved) + 1
        /\ \A i \in 1..(Len(a.resolved) + 1) :
              r.resolved[i] = IF i = Len(a.resolved) + 1 THEN c.id ELSE a.resolved[i]
    BY <1>1
  <1>6. \A i \in DOMAIN r.resolved : r.resolved[i] \in Ids(capabilities')
    BY <1>3, <1>4, <1>5
  <1>7. r.resolved # <<>>
    BY <1>5
  <1>8. a.of \in Process /\ a.binding # 0
    BY DEF Holds, HoldsIn, Resolving, Mapping
  <1> QED
    BY <1>2, <1>6, <1>7, <1>8 DEF Holds, HoldsIn, BeforeTree, Naming, Mapping, Resolving, SameOffer

\* What is left of a pass when it went on or ended holds.
LEMMA HoldsGoesOn ==
    ASSUME CapBase, CapabilityAssumption, NEW w \in Worker, CapStep(w), NEW r, r = pass'[w]
    PROVE  Holds(r)'
  <1> USE DEF CapBase
  <1> DEFINE a == pass[w]
  <1>0. /\ Holds(a) /\ a \in PassRows /\ Grows /\ Ids(capabilities)' = Ids(capabilities')
        /\ Ids(capabilities) \subseteq Ids(capabilities')
    BY StepGrows DEF PassesHold, PassShapes, Grows, Ids
  <1>b. a.binding # 0 => \E b \in bottlenecks' : b.id = a.binding /\ b.of = a.of
    <2>1. a.binding # 0 => \E b \in bottlenecks : b.id = a.binding /\ b.of = a.of
      BY <1>0 DEF Holds, HoldsIn
    <2> QED
      BY <1>0, <2>1 DEF Grows, BottlenecksStay
  <1>r. \A i \in DOMAIN a.resolved : a.resolved[i] \in Ids(capabilities')
    BY <1>0 DEF Holds, HoldsIn
  <1>n. ASSUME Becomes(w, NoPass) PROVE Holds(r)'
    <2>1. r = NoPass
      BY <1>n DEF Becomes
    <2>2. r.step = "idle" /\ r.binding = 0 /\ r.resolved = <<>>
      BY <2>1, NoPassFacts
    <2> QED
      BY <2>1, <2>2 DEF Holds, HoldsIn, BeforeTree, Naming, Mapping, Resolving
  <1> HIDE DEF a
  <1>1. CASE \E p \in Process : Starts(w, p)
    <2>1. r.step = "asked" /\ r.of \in Process /\ r.binding = 0 /\ r.resolved = <<>>
      BY <1>1, StartsFacts DEF Becomes
    <2> QED
      BY <2>1 DEF Holds, HoldsIn, BeforeTree, Naming, Mapping, Resolving
  <1>2. CASE Identifies(w)
    <2>1. CASE Becomes(w, NoPass)
      BY <1>n, <2>1
    <2>2. CASE ~Becomes(w, NoPass)
      <3>1. /\ r.step = "named" /\ r.of = a.of /\ r.next \in 1..Len(r.candidates) /\ r.binding = 0
            /\ r.resolved = <<>> /\ a.step = "asked"
        BY <1>2, <2>2, IdentifiesFacts DEF Becomes, a
      <3>2. a.of \in Process
        BY <1>0, <3>1 DEF Holds, HoldsIn
      <3> QED
        BY <3>1, <3>2 DEF Holds, HoldsIn, BeforeTree, Naming, Mapping, Resolving
    <2> QED
      BY <2>1, <2>2
  <1>3. CASE LooksForBottleneck(w)
    <2>1. /\ a.step = "named" /\ r.step = "looked" /\ SameOffer(r, a) /\ SameTree(r, a)
          /\ r.binding = a.binding
          /\ \/ r.basis = NoRow
             \/ r.basis \in ByName(r.of, r.candidates[r.next].name)
      BY <1>3, LooksForBottleneckFacts DEF Becomes, a
    <2>2. r.basis # NoRow =>
            r.basis \in BottleneckRows /\ r.basis.of = r.of /\ r.basis.name = r.candidates[r.next].name
      BY <2>1 DEF ByName, RowShapes
    <2> QED
      BY <1>0, <1>b, <2>1, <2>2 DEF Holds, HoldsIn, BeforeTree, Naming, Mapping, Resolving, SameOffer, SameTree
  <1>4. CASE WritesBottleneck(w)
    <2> DEFINE row == BottleneckRow(a)
    <2>1. /\ a.step = "looked" /\ r.step = "written" /\ SameOffer(r, a) /\ SameTree(r, a)
          /\ r.basis = row /\ r.binding = IF a.index = a.next THEN row.id ELSE a.binding
          /\ row.of = a.of
      BY <1>4, WritesBottleneckFacts DEF Becomes, a
    <2>2. row \in bottlenecks'
      BY <1>4, BottlenecksAfterWrite DEF a
    <2> HIDE DEF row
    <2>3. r.binding # 0 => \E b \in bottlenecks' : b.id = r.binding /\ b.of = r.of
      BY <1>b, <2>1, <2>2 DEF SameOffer
    <2>4. r.step = "written" => \E b \in bottlenecks' : b.id = r.basis.id /\ b.of = r.of
      BY <2>1, <2>2 DEF SameOffer
    <2>5. a.next \in 1..Len(a.candidates) /\ (a.index = 0 => a.binding = 0) /\ a.of \in Process /\ a.resolved = <<>>
      BY <1>0, <2>1 DEF Holds, HoldsIn, Naming, BeforeTree
    <2>6. a.next # 0
      BY <2>5
    <2>7. r.binding # 0 => r.index <= r.next
      <3>1. a.index \in Nat /\ a.next \in Nat
        BY <1>0 DEF PassRows
      <3>2. a.binding # 0 => a.index < a.next
        BY <1>0, <2>1 DEF Holds, HoldsIn
      <3> QED
        BY <2>1, <3>1, <3>2 DEF SameOffer
    <2> QED
      BY <2>1, <2>3, <2>4, <2>5, <2>6, <2>7 DEF Holds, HoldsIn, BeforeTree, Naming, Mapping, Resolving, SameOffer, SameTree
  <1>5. CASE LinksBottleneck(w)
    <2>1. CASE Becomes(w, NoPass)
      BY <1>n, <2>1
    <2>2. CASE r.step = "named" /\ ~Becomes(w, NoPass)
      <3>1. /\ a.step = "written" /\ r.of = a.of
            /\ r.candidates = a.candidates /\ r.index = a.index
            /\ r.next = a.next + 1 /\ a.next < Len(a.candidates)
            /\ r.binding = a.binding /\ r.resolved = a.resolved
        BY <1>5, <2>2, LinksBottleneckFacts DEF Becomes, a
      <3>2. a.next \in Nat /\ a.index \in Nat /\ a.candidates \in Seq(Offered) /\ Len(a.candidates) \in Nat
        BY <1>0 DEF PassRows
      <3>3. r.next \in 1..Len(r.candidates)
        BY <3>1, <3>2
      <3>4. a.binding # 0 => a.index < a.next + 1
        BY <1>0, <3>1, <3>2 DEF Holds, HoldsIn, Naming
      <3> QED
        BY <1>0, <1>b, <2>2, <3>1, <3>3, <3>4 DEF Holds, HoldsIn, BeforeTree, Naming, Mapping, Resolving
    <2>3. CASE r.step # "named" /\ ~Becomes(w, NoPass)
      <3>1. /\ a.step = "written" /\ r.step = "mapping" /\ SameOffer(r, a) /\ SameTree(r, a)
            /\ r.binding = a.binding /\ a.binding # 0
        BY <1>5, <2>3, LinksBottleneckFacts DEF Becomes, a
      <3> QED
        BY <1>0, <1>b, <3>1 DEF Holds, HoldsIn, BeforeTree, Naming, Mapping, Resolving, SameOffer, SameTree
    <2> QED
      BY <2>1, <2>2, <2>3
  <1>6. CASE Maps(w)
    <2>1. /\ a.step = "mapping" /\ r.step = "resolving" /\ SameOffer(r, a) /\ r.tree # <<>>
          /\ r.resolved = <<>> /\ r.binding = a.binding /\ r \in PassRows
      BY <1>6, MapsFacts DEF Becomes, a
    <2>2. Len(r.resolved) < Len(r.tree)
      <3>1. r.tree \in Seq(CapabilityName)
        BY <2>1 DEF PassRows
      <3> QED
        BY <2>1, <3>1
    <2> QED
      BY <1>0, <1>b, <2>1, <2>2 DEF Holds, HoldsIn, BeforeTree, Naming, Mapping, Resolving, SameOffer
  <1>7. CASE LooksUp(w)
    <2>1. CASE r.step = "missing"
      <3>1. /\ a.step = "resolving" /\ SameOffer(r, a) /\ SameTree(r, a) /\ r.binding = a.binding
        BY <1>7, <2>1, LooksUpFacts DEF Becomes, a
      <3> QED
        BY <1>0, <1>b, <1>r, <2>1, <3>1 DEF Holds, HoldsIn, BeforeTree, Naming, Mapping, Resolving, SameOffer, SameTree
    <2>2. CASE r.step # "missing"
      <3>1. PICK c \in capabilities :
              /\ a.step = "resolving" /\ SameOffer(r, a) /\ r.binding = a.binding
              /\ r.resolved = Append(a.resolved, c.id)
              /\ \/ r.step = "resolved"
                 \/ r.step = "resolving" /\ Len(r.resolved) < Len(r.tree)
        BY <1>7, <2>2, LooksUpFacts DEF Becomes, a
      <3> QED
        BY <1>0, <1>b, <3>1, HoldsResolved DEF Resolving
    <2> QED
      BY <2>1, <2>2
  <1>8. CASE ReadsSlugs(w)
    <2>1. /\ a.step = "missing" /\ r.step = "named anew" /\ SameOffer(r, a)
          /\ SameTree(r, a) /\ r.binding = a.binding
          /\ r.slug \in {Wanted(w)} \X Nat
      <3>1. PICK q \in PassRows :
                /\ Becomes(w, q) /\ q.step = "named anew" /\ SameOffer(q, a)
                /\ SameTree(q, a) /\ q.binding = a.binding /\ q.slug \in {Wanted(w)} \X Nat
        BY <1>8, ReadsSlugsFacts DEF a
      <3>2. q = r
        BY <3>1 DEF Becomes
      <3> QED
        BY <1>8, <3>1, <3>2, ReadsSlugsFacts DEF a
    <2>2. r.slug \in {r.tree[Len(r.resolved) + 1]} \X Nat
      BY <2>1 DEF Wanted, SameTree, a
    <2>3. /\ r.of = a.of /\ r.resolved = a.resolved /\ r.tree = a.tree
          /\ a.of \in Process /\ a.binding # 0 /\ Len(a.resolved) < Len(a.tree)
      BY <1>0, <2>1 DEF Holds, HoldsIn, Mapping, Resolving, SameOffer, SameTree
    <2> QED
      BY <1>0, <1>b, <1>r, <2>1, <2>2, <2>3 DEF Holds, HoldsIn, BeforeTree, Naming, Mapping, Resolving
  <1>9. CASE Inserts(w)
    <2> DEFINE row == CapabilityRow(Fresh(capabilities), a.slug)
    <2>1. /\ a.step = "named anew" /\ r.step = "inserted" /\ SameOffer(r, a)
          /\ SameTree(r, a) /\ r.binding = a.binding /\ r.basis.id = row.id
          /\ row.name = Wanted(w) /\ row \in capabilities'
      BY <1>9, InsertsFacts DEF Becomes, a
    <2> HIDE DEF row
    <2>2. \E c \in capabilities' : c.id = r.basis.id /\ c.name = r.tree[Len(r.resolved) + 1]
      BY <2>1 DEF Wanted, SameTree, a
    <2>3. /\ r.of = a.of /\ r.resolved = a.resolved /\ r.tree = a.tree
          /\ a.of \in Process /\ a.binding # 0 /\ Len(a.resolved) < Len(a.tree)
      BY <1>0, <2>1 DEF Holds, HoldsIn, Mapping, Resolving, SameOffer, SameTree
    <2> QED
      BY <1>0, <1>b, <1>r, <2>1, <2>2, <2>3 DEF Holds, HoldsIn, BeforeTree, Naming, Mapping, Resolving
  <1>10. CASE Embeds(w)
    <2>1. PICK c \in capabilities :
              /\ a.step = "inserted" /\ SameOffer(r, a) /\ r.binding = a.binding
              /\ r.resolved = Append(a.resolved, c.id)
              /\ \/ r.step = "resolved"
                 \/ r.step = "resolving" /\ Len(r.resolved) < Len(r.tree)
      BY <1>10, EmbedsFacts DEF Becomes, a
    <2> QED
      BY <1>0, <1>b, <2>1, HoldsResolved DEF Resolving
  <1>11. CASE LooksForRequirement(w)
    <2>1. /\ a.step = "resolved" /\ r.step = "replacing" /\ SameOffer(r, a)
          /\ SameTree(r, a) /\ r.binding = a.binding
          /\ r.basis = NoRow \/ r.basis \in CurrentRequirement(r.binding)
      BY <1>11, LooksForRequirementFacts DEF Becomes, a
    <2>2. r.basis # NoRow => r.basis \in RequirementRows /\ r.basis.bottleneck = r.binding
      BY <2>1 DEF CurrentRequirement, RowShapes
    <2> QED
      BY <1>0, <1>b, <1>r, <2>1, <2>2 DEF Holds, HoldsIn, BeforeTree, Naming, Mapping, Resolving, SameOffer, SameTree
  <1>12. CASE StoresRequirement(w)
    <2> DEFINE row == RequirementRow(a)
    <2>1. /\ a.step = "replacing" /\ row \in RequirementRows
          /\ row.bottleneck = a.binding /\ row.leaves = Leaves(a.resolved) /\ row \in requirements'
          /\ r.step = "wiring" /\ SameOffer(r, a) /\ SameTree(r, a)
          /\ r.basis = row /\ r.binding = a.binding /\ r.todo = a.resolved
      BY <1>12, StoresRequirementFacts DEF Becomes, a
    <2> HIDE DEF row
    <2>2. r.resolved = a.resolved /\ a.resolved # <<>>
      BY <1>0, <2>1 DEF Holds, HoldsIn, SameTree
    <2> QED
      BY <1>0, <1>b, <1>r, <2>1, <2>2 DEF Holds, HoldsIn, BeforeTree, Naming, Mapping, Resolving, SameOffer
  <1>13. CASE Wires(w)
    <2>1. /\ a.step = "wiring" /\ a.todo \in Seq(Nat) /\ a.todo # <<>>
          /\ SameOffer(r, a) /\ SameTree(r, a) /\ r.binding = a.binding
          /\ requires' = requires \cup {<<a.binding, Head(a.todo)>>}
          /\ \/ r.step = "converging" /\ r.todo = a.resolved
             \/ r.step = "wiring" /\ r.basis = a.basis /\ r.todo = Tail(a.todo) /\ Len(a.todo) > 1
      BY <1>13, WiresFacts DEF Becomes, a
    <2>2. PICK q \in requirements' : q.bottleneck = a.binding
      BY <1>0, <2>1 DEF Holds, HoldsIn, Grows, RequirementsStay
    <2>3. a.resolved # <<>> /\ \A i \in DOMAIN a.todo : a.todo[i] \in Ids(capabilities')
      BY <1>0, <2>1 DEF Holds, HoldsIn
    <2>4. CASE r.step = "converging"
      BY <1>0, <1>b, <1>r, <2>1, <2>2, <2>3, <2>4 DEF Holds, HoldsIn, BeforeTree, Naming, Mapping, Resolving, SameOffer, SameTree
    <2>5. CASE r.step # "converging"
      <3>1. r.step = "wiring" /\ r.basis = a.basis /\ r.todo = Tail(a.todo) /\ Len(a.todo) > 1
        BY <2>1, <2>5
      <3>2. Leaves(a.todo) = {Head(a.todo)} \cup Leaves(Tail(a.todo))
        BY <2>1, HeadAndTail
      <3>3. r.todo # <<>> /\ \A i \in DOMAIN r.todo : r.todo[i] \in Ids(capabilities')
        BY <2>1, <2>3, <3>1, RestFacts
      <3>4. \A c \in a.basis.leaves : c \in Leaves(a.todo) \/ <<a.binding, c>> \in requires
        BY <1>0, <2>1 DEF Holds, HoldsIn
      <3>5. \A c \in r.basis.leaves : c \in Leaves(r.todo) \/ <<r.binding, c>> \in requires'
        BY <2>1, <3>1, <3>2, <3>4
      <3> QED
        BY <1>0, <1>b, <1>r, <2>1, <2>2, <3>1, <3>3, <3>5 DEF Holds, HoldsIn, BeforeTree, Naming, Mapping, Resolving, SameOffer, SameTree
    <2> QED
      BY <2>4, <2>5
  <1>14. CASE Assesses(w)
    <2>1. CASE Becomes(w, NoPass)
      BY <1>n, <2>1
    <2>2. CASE ~Becomes(w, NoPass)
      <3>1. /\ a.step = "converging" /\ a.todo \in Seq(Nat) /\ a.todo # <<>> /\ Len(a.todo) > 1
            /\ SameOffer(r, a) /\ SameTree(r, a) /\ r.binding = a.binding
            /\ r.step = "converging" /\ r.todo = Tail(a.todo)
        BY <1>14, <2>2, AssessesFacts DEF Becomes, a
      <3>2. \A i \in DOMAIN a.todo : a.todo[i] \in Ids(capabilities')
        BY <1>0, <3>1 DEF Holds, HoldsIn
      <3>3. r.todo # <<>> /\ \A i \in DOMAIN r.todo : r.todo[i] \in Ids(capabilities')
        BY <3>1, <3>2, RestFacts
      <3>4. PICK q \in requirements' : q.bottleneck = a.binding
        BY <1>0, <3>1 DEF Holds, HoldsIn, Grows, RequirementsStay
      <3> QED
        BY <1>0, <1>b, <1>r, <3>1, <3>3, <3>4 DEF Holds, HoldsIn, BeforeTree, Naming, Mapping, Resolving, SameOffer, SameTree
    <2> QED
      BY <2>1, <2>2
  <1>15. CASE PassEnds(w)
    BY <1>15, <1>n, PassEndsFacts
  <1> QED
    BY <1>1, <1>2, <1>3, <1>4, <1>5, <1>6, <1>7, <1>8, <1>9, <1>10, <1>11, <1>12, <1>13, <1>14,
       <1>15 DEF CapStep

LEMMA PassesHoldStep ==
    ASSUME CapBase, CapabilityAssumption, NEW w \in Worker, CapStep(w)
    PROVE  PassesHold'
  <1>1. \A v \in Worker \ {w} : pass'[v] = pass[v]
    BY MoverFacts DEF Becomes, CapBase
  <1>2. ASSUME NEW v \in Worker PROVE Holds(pass[v])'
    <2>1. PICK r : r = pass'[v]
      OBVIOUS
    <2>2. CASE v = w
      <3>1. Holds(r)'
        BY <2>1, <2>2, HoldsGoesOn
      <3> QED
        BY <2>1, <3>1 DEF Holds
    <2>3. CASE v # w
      <3>1. Holds(r)
        BY <1>1, <2>1, <2>3 DEF CapBase, PassesHold
      <3>2. Holds(r)'
        BY <3>1, StepGrows, HoldsOn DEF CapBase
      <3> QED
        BY <2>1, <3>2 DEF Holds
    <2> QED
      BY <2>2, <2>3
  <1> QED
    BY <1>2 DEF PassesHold

LEMMA CapBaseStep ==
    ASSUME CapBase, CapabilityAssumption, NEW w \in Worker, CapStep(w)
    PROVE  CapBase'
  BY RowShapesStep, PassShapesStep, EdgesJoinRowsStep, PassesHoldStep DEF CapBase

\* Passes at work are workers, and what is counted among them is finite.
LEMMA WorkersAreFew ==
    ASSUME CapabilityAssumption, NEW S \in SUBSET Worker
    PROVE  IsFiniteSet(S) /\ Cardinality(S) \in Nat
  BY FS_Subset, FS_CardinalityType DEF CapabilityAssumption

LEMMA LateGrows ==
    ASSUME PassShapes, NEW w \in Worker, CapStep(w)
    PROVE  late' \in Nat /\ late <= late'
  <1>1. late' = late \/ late' = late + 1
    BY DEF CapStep, Starts, Identifies, LooksForBottleneck, WritesBottleneck, LinksBottleneck, Maps,
           LooksUp, ReadsSlugs, Inserts, Embeds, LooksForRequirement, StoresRequirement, Wires,
           Assesses, PassEnds, historyVars
  <1> QED
    BY <1>1 DEF PassShapes

LEMMA FewAtWorkStep ==
    ASSUME CapBase, CapabilityAssumption, FewAtWork, NEW w \in Worker, CapStep(w)
    PROVE  FewAtWork'
  <1> DEFINE Now == {v \in Worker : pass'[v].step # "idle"}
  <1>0. /\ AtWork' = Now /\ \A v \in Worker \ {w} : pass'[v] = pass[v]
        /\ late' \in Nat /\ late <= late' /\ late \in Nat
    BY MoverFacts, LateGrows DEF AtWork, Becomes, CapBase, PassShapes
  <1>1. CASE pass[w].step # "idle"
    <2>1. Now \subseteq AtWork
      BY <1>0, <1>1 DEF AtWork
    <2>2. Cardinality(Now) <= Cardinality(AtWork) /\ Cardinality(Now) \in Nat /\ Cardinality(AtWork) \in Nat
      BY <2>1, WorkersAreFew, Fewer DEF AtWork
    <2> HIDE DEF Now
    <2> QED
      BY <1>0, <2>2 DEF FewAtWork
  <1>2. CASE pass[w].step = "idle"
    <2>1. PICK p \in Process : Starts(w, p)
      BY <1>2, MoverFacts DEF CapBase
    <2>2. Now \subseteq AtWork \cup {w}
      BY <1>0 DEF AtWork
    <2>3. /\ Cardinality(Now) <= Cardinality(AtWork) + 1 /\ Cardinality(Now) \in Nat
          /\ Cardinality(AtWork) \in Nat
      BY <2>2, WorkersAreFew, OneMore DEF AtWork
    <2>4. CASE \E v \in Worker \ {w} : pass[v].step # "idle"
      <3>1. late' = late + 1
        BY <2>1, <2>4 DEF Starts
      <3> HIDE DEF Now
      <3> QED
        BY <1>0, <2>3, <3>1 DEF FewAtWork
    <2>5. CASE \A v \in Worker \ {w} : pass[v].step = "idle"
      <3>1. Now \subseteq {w}
        BY <1>0, <2>5
      <3>2. IsFiniteSet({w}) /\ Cardinality({w}) = 1
        BY FS_Singleton
      <3>3. Cardinality(Now) <= 1
        BY <3>1, <3>2, Fewer
      <3> HIDE DEF Now
      <3> QED
        BY <1>0, <2>3, <3>3 DEF FewAtWork
    <2> QED
      BY <2>4, <2>5
  <1> QED
    BY <1>1, <1>2

\* A pass goes on with the Process it read, unless it starts.
LEMMA SameReading ==
    ASSUME CapBase, CapabilityAssumption, NEW w \in Worker, CapStep(w),
           ~\E p \in Process : Starts(w, p)
    PROVE  \/ Becomes(w, NoPass)
           \/ \E r \in PassRows : Becomes(w, r) /\ r.of = pass[w].of /\ r.saw = pass[w].saw
  <1> USE DEF CapBase
  <1>1. CASE Identifies(w)
    BY <1>1, IdentifiesFacts
  <1>2. CASE LooksForBottleneck(w)
    BY <1>2, LooksForBottleneckFacts DEF SameOffer
  <1>3. CASE WritesBottleneck(w)
    BY <1>3, WritesBottleneckFacts DEF SameOffer
  <1>4. CASE LinksBottleneck(w)
    BY <1>4, LinksBottleneckFacts DEF SameOffer
  <1>5. CASE Maps(w)
    BY <1>5, MapsFacts DEF SameOffer
  <1>6. CASE LooksUp(w)
    BY <1>6, LooksUpFacts DEF SameOffer
  <1>7. CASE ReadsSlugs(w)
    BY <1>7, ReadsSlugsFacts DEF SameOffer
  <1>8. CASE Inserts(w)
    BY <1>8, InsertsFacts DEF SameOffer
  <1>9. CASE Embeds(w)
    BY <1>9, EmbedsFacts DEF SameOffer
  <1>10. CASE LooksForRequirement(w)
    BY <1>10, LooksForRequirementFacts DEF SameOffer
  <1>11. CASE StoresRequirement(w)
    BY <1>11, StoresRequirementFacts DEF SameOffer
  <1>12. CASE Wires(w)
    BY <1>12, WiresFacts DEF SameOffer
  <1>13. CASE Assesses(w)
    BY <1>13, AssessesFacts DEF SameOffer
  <1>14. CASE PassEnds(w)
    BY <1>14, PassEndsFacts
  <1> QED
    BY <1>1, <1>2, <1>3, <1>4, <1>5, <1>6, <1>7, <1>8, <1>9, <1>10, <1>11, <1>12, <1>13, <1>14
       DEF CapStep

LEMMA ReadIsCurrentStep ==
    ASSUME CapBase, CapabilityAssumption, ReadIsCurrent, NEW w \in Worker, CapStep(w)
    PROVE  ReadIsCurrent'
  <1>1. stateNo' = stateNo /\ raced' = raced
    BY DEF CapStep, Starts, Identifies, LooksForBottleneck, WritesBottleneck, LinksBottleneck, Maps,
           LooksUp, ReadsSlugs, Inserts, Embeds, LooksForRequirement, StoresRequirement, Wires,
           Assesses, PassEnds, stateVars
  <1> SUFFICES ASSUME ~raced
               PROVE  /\ \A v \in Worker : pass'[v].step # "idle" => pass'[v].saw = stateNo[pass'[v].of]
                      /\ \A p \in Process : lastSaw'[p] >= 0 => assessed'[p] = lastSaw'[p]
    BY <1>1 DEF ReadIsCurrent
  <1>2. pass'[w].step # "idle" => pass'[w].saw = stateNo[pass'[w].of]
    <2>1. CASE \E p \in Process : Starts(w, p)
      BY <2>1, StartsFacts DEF Becomes, CapBase
    <2>2. CASE ~\E p \in Process : Starts(w, p)
      <3>1. pass[w].step # "idle"
        BY <2>2, MoverFacts DEF CapBase
      <3>2. pass'[w].step = "idle" \/ (pass'[w].of = pass[w].of /\ pass'[w].saw = pass[w].saw)
        BY <2>2, SameReading, NoPassFacts DEF Becomes
      <3> QED
        BY <3>1, <3>2 DEF ReadIsCurrent
    <2> QED
      BY <2>1, <2>2
  <1>3. \A v \in Worker : pass'[v].step # "idle" => pass'[v].saw = stateNo[pass'[v].of]
    <2>1. \A v \in Worker \ {w} : pass'[v] = pass[v]
      BY MoverFacts DEF Becomes, CapBase
    <2> QED
      BY <1>2, <2>1 DEF ReadIsCurrent
  <1>4. \A p \in Process : lastSaw'[p] >= 0 => assessed'[p] = lastSaw'[p]
    <2>1. \/ assessed' = assessed /\ lastSaw' = lastSaw
          \/ WritesBottleneck(w)
      BY DEF CapStep, Starts, Identifies, LooksForBottleneck, LinksBottleneck, Maps, LooksUp,
             ReadsSlugs, Inserts, Embeds, LooksForRequirement, StoresRequirement, Wires, Assesses,
             PassEnds, stateVars
    <2>2. ASSUME WritesBottleneck(w)
          PROVE  \A p \in Process : lastSaw'[p] >= 0 => assessed'[p] = lastSaw'[p]
      <3> DEFINE a == pass[w]
      <3>1. /\ a.step = "looked" /\ assessed' = [assessed EXCEPT ![a.of] = stateNo[a.of]]
            /\ lastSaw' = [lastSaw EXCEPT ![a.of] = a.saw]
        BY <2>2 DEF WritesBottleneck
      <3>2. a.saw = stateNo[a.of]
        BY <3>1 DEF ReadIsCurrent
      <3> HIDE DEF a
      <3> QED
        BY <3>1, <3>2 DEF ReadIsCurrent, CapBase, RowShapes
    <2> QED
      BY <2>1, <2>2 DEF ReadIsCurrent
  <1> QED
    BY <1>3, <1>4

\* Which action brings a pass to a step.
LEMMA StageFacts ==
    ASSUME CapBase, CapabilityAssumption, NEW w \in Worker, CapStep(w), NEW r, r = pass'[w]
    PROVE  /\ r.step = "looked" => LooksForBottleneck(w)
           /\ r.step = "missing" => LooksUp(w)
           /\ r.step = "named anew" => ReadsSlugs(w)
           /\ r.step = "inserted" => Inserts(w)
           /\ r.step = "replacing" => LooksForRequirement(w)
  <1> USE DEF CapBase
  <1> DEFINE Other == r.step \notin {"looked", "missing", "named anew", "inserted", "replacing"}
  <1>1. ASSUME \E p \in Process : Starts(w, p) PROVE Other
    BY <1>1, StartsFacts DEF Becomes
  <1>2. ASSUME Identifies(w) PROVE Other
    BY <1>2, IdentifiesFacts, NoPassFacts DEF Becomes
  <1>3. ASSUME LooksForBottleneck(w) PROVE r.step = "looked"
    BY <1>3, LooksForBottleneckFacts DEF Becomes
  <1>4. ASSUME WritesBottleneck(w) PROVE Other
    BY <1>4, WritesBottleneckFacts DEF Becomes
  <1>5. ASSUME LinksBottleneck(w) PROVE Other
    BY <1>5, LinksBottleneckFacts, NoPassFacts DEF Becomes
  <1>6. ASSUME Maps(w) PROVE Other
    BY <1>6, MapsFacts DEF Becomes
  <1>7. ASSUME LooksUp(w) PROVE r.step \in {"missing", "resolving", "resolved"}
    BY <1>7, LooksUpFacts DEF Becomes
  <1>8. ASSUME ReadsSlugs(w) PROVE r.step = "named anew"
    BY <1>8, ReadsSlugsFacts DEF Becomes
  <1>9. ASSUME Inserts(w) PROVE r.step = "inserted"
    BY <1>9, InsertsFacts DEF Becomes
  <1>10. ASSUME Embeds(w) PROVE Other
    BY <1>10, EmbedsFacts DEF Becomes
  <1>11. ASSUME LooksForRequirement(w) PROVE r.step = "replacing"
    BY <1>11, LooksForRequirementFacts DEF Becomes
  <1>12. ASSUME StoresRequirement(w) PROVE Other
    BY <1>12, StoresRequirementFacts DEF Becomes
  <1>13. ASSUME Wires(w) PROVE Other
    BY <1>13, WiresFacts DEF Becomes
  <1>14. ASSUME Assesses(w) PROVE Other
    BY <1>14, AssessesFacts, NoPassFacts DEF Becomes
  <1>15. ASSUME PassEnds(w) PROVE Other
    BY <1>15, PassEndsFacts, NoPassFacts DEF Becomes
  <1> QED
    BY <1>1, <1>2, <1>3, <1>4, <1>5, <1>6, <1>7, <1>8, <1>9, <1>10, <1>11, <1>12, <1>13, <1>14,
       <1>15 DEF CapStep

LEMMA FewNamedStep ==
    ASSUME CapBase, CapabilityAssumption, FewAtWork, FewNamed, NEW w \in Worker, CapStep(w)
    PROVE  FewNamed'
  <1> SUFFICES ASSUME NEW p \in Process, NEW n \in BottleneckName
               PROVE  Cardinality(Named(p, n))' + Cardinality(NamingAnew(p, n))' <= 1 + late'
    BY DEF FewNamed
  <1> DEFINE a == pass[w]
             N == Named(p, n)
             M == NamingAnew(p, n)
             N2 == {b \in bottlenecks' : b.of = p /\ b.name = n}
             M2 == {v \in Worker : /\ pass'[v].step = "looked" /\ pass'[v].basis = NoRow
                                   /\ pass'[v].of = p /\ pass'[v].candidates[pass'[v].next].name = n}
  <1>1. /\ Cardinality(Named(p, n))' = Cardinality(N2)
        /\ Cardinality(NamingAnew(p, n))' = Cardinality(M2)
    BY DEF Named, NamingAnew
  <1>2. CapBase' /\ FewAtWork'
    BY CapBaseStep, FewAtWorkStep
  <1>3. /\ IsFiniteSet(N) /\ Cardinality(N) \in Nat /\ IsFiniteSet(N2) /\ Cardinality(N2) \in Nat
        /\ IsFiniteSet(M) /\ Cardinality(M) \in Nat /\ IsFiniteSet(M2) /\ Cardinality(M2) \in Nat
    <2>1. IsFiniteSet(bottlenecks) /\ IsFiniteSet(bottlenecks')
      BY <1>2 DEF CapBase, RowShapes, Numbered
    <2>2. N \subseteq bottlenecks /\ N2 \subseteq bottlenecks'
      BY DEF Named
    <2>3. M \in SUBSET Worker /\ M2 \in SUBSET Worker
      BY DEF NamingAnew
    <2> QED
      BY <2>1, <2>2, <2>3, Fewer, WorkersAreFew
  <1>4. late \in Nat /\ late' \in Nat /\ late <= late' /\ Cardinality(N) + Cardinality(M) <= 1 + late
    BY LateGrows DEF CapBase, PassShapes, FewNamed
  <1>5. \A v \in Worker \ {w} : pass'[v] = pass[v]
    BY MoverFacts DEF CapBase, Becomes
  <1>6. CASE LooksForBottleneck(w)
    <2>1. PICK r \in PassRows :
              /\ Becomes(w, r) /\ r.step = "looked"
              /\ \/ r.basis = NoRow /\ ByName(r.of, r.candidates[r.next].name) = {}
                 \/ r.basis \in ByName(r.of, r.candidates[r.next].name)
      BY <1>6, LooksForBottleneckFacts DEF CapBase
    <2>2. N2 = N
      BY <1>6 DEF LooksForBottleneck, nodeVars, Named
    <2>3. CASE w \in M2
      <3>1. r.basis = NoRow /\ r.of = p /\ r.candidates[r.next].name = n
        BY <2>1, <2>3 DEF Becomes
      <3>2. ByName(p, n) = {}
        <4>1. NoRow \notin ByName(p, n)
          BY NumberedIds DEF ByName, NoRow, CapBase, RowShapes
        <4> QED
          BY <2>1, <3>1, <4>1
      <3>3. N2 = {}
        BY <2>2, <3>2 DEF ByName, Named
      <3>4. M2 \subseteq AtWork' /\ IsFiniteSet(AtWork') /\ Cardinality(AtWork') \in Nat
        <4>1. AtWork' \in SUBSET Worker
          BY DEF AtWork
        <4>2. M2 \subseteq AtWork'
          BY DEF AtWork
        <4> QED
          BY <4>1, <4>2, WorkersAreFew
      <3>5. Cardinality(M2) <= Cardinality(AtWork') /\ Cardinality(N2) = 0
        BY <3>3, <3>4, Fewer, FS_EmptySet
      <3>6. Cardinality(AtWork') <= 1 + late'
        BY <1>2 DEF FewAtWork
      <3> HIDE DEF N2, M2
      <3> QED
        BY <1>1, <1>3, <1>4, <3>4, <3>5, <3>6
    <2>4. CASE w \notin M2
      <3>1. M2 \subseteq M
        BY <1>5, <2>4 DEF NamingAnew
      <3>2. Cardinality(M2) <= Cardinality(M)
        BY <1>3, <3>1, Fewer
      <3> HIDE DEF N2, M2, N, M
      <3> QED
        BY <1>1, <1>3, <1>4, <2>2, <3>2
    <2> QED
      BY <2>3, <2>4
  <1>7. CASE ~LooksForBottleneck(w)
    <2>1. pass'[w].step # "looked"
      BY <1>7, StageFacts
    <2>2. M2 \subseteq M \ {w}
      BY <1>5, <2>1 DEF NamingAnew
    <2>3. Cardinality(M2) <= Cardinality(M)
      BY <1>3, <2>2, Fewer
    <2>4. CASE bottlenecks' = bottlenecks
      <3>1. N2 = N
        BY <2>4 DEF Named
      <3> HIDE DEF N2, M2, N, M
      <3> QED
        BY <1>1, <1>3, <1>4, <2>3, <3>1
    <2>5. CASE WritesBottleneck(w)
      <3> DEFINE row == BottleneckRow(a)
      <3>1. /\ a.step = "looked" /\ row.of = a.of /\ row.name = a.candidates[a.next].name
        BY <2>5, WritesBottleneckFacts DEF CapBase
      <3>2. \/ a.basis = NoRow /\ bottlenecks' = bottlenecks \cup {row}
            \/ /\ a.basis # NoRow /\ a.basis \in bottlenecks
               /\ row.of = a.basis.of /\ row.name = a.basis.name
               /\ bottlenecks' = (bottlenecks \ {a.basis}) \cup {row}
        BY <2>5, BottlenecksAfterWrite DEF CapBase
      <3> HIDE DEF row
      <3>3. CASE ~(row.of = p /\ row.name = n)
        <4>1. N2 \subseteq N
          BY <3>2, <3>3 DEF Named
        <4>2. Cardinality(N2) <= Cardinality(N)
          BY <1>3, <4>1, Fewer
        <4> HIDE DEF N2, M2, N, M
        <4> QED
          BY <1>1, <1>3, <1>4, <2>3, <4>2
      <3>4. CASE row.of = p /\ row.name = n /\ a.basis = NoRow
        <4>1. w \in M /\ N2 \subseteq N \cup {row}
          BY <3>1, <3>2, <3>4 DEF NamingAnew, Named
        <4>2. Cardinality(N2) <= Cardinality(N) + 1 /\ Cardinality(M2) <= Cardinality(M) - 1
          BY <1>3, <2>2, <4>1, OneMore, OneLess
        <4> HIDE DEF N2, M2, N, M
        <4> QED
          BY <1>1, <1>3, <1>4, <4>2
      <3>5. CASE row.of = p /\ row.name = n /\ a.basis # NoRow
        <4>1. a.basis \in N /\ N2 \subseteq (N \ {a.basis}) \cup {row}
          BY <3>1, <3>2, <3>5 DEF Named
        <4>2. IsFiniteSet(N \ {a.basis}) /\ Cardinality(N \ {a.basis}) <= Cardinality(N) - 1
          BY <1>3, <4>1, OneLess
        <4>3. Cardinality(N2) <= Cardinality(N \ {a.basis}) + 1 /\ Cardinality(N \ {a.basis}) \in Nat
          BY <4>1, <4>2, OneMore, FS_CardinalityType
        <4> HIDE DEF N2, M2, N, M
        <4> QED
          BY <1>1, <1>3, <1>4, <2>3, <4>2, <4>3
      <3> QED
        BY <3>3, <3>4, <3>5
    <2> QED
      BY <2>4, <2>5, WhoWrites DEF SameRows, Inserts, StoresRequirement
  <1> QED
    BY <1>6, <1>7

\* Nothing that can be found by a name or by the meaning of it: nothing of the ability.
LEMMA NothingMatches ==
    ASSUME CapBase, CapabilityAssumption, NEW pair \in Abilities, NEW name \in {pair[1], pair[2]},
           Matches(name) = {}
    PROVE  Same(pair) = {}
  <1> SUFFICES ASSUME NEW c \in capabilities, c.id \in embedded, c.name \in {pair[1], pair[2]}
               PROVE  FALSE
    BY DEF Same
  <1>1. ~(c.name = name \/ <<name, c.name>> \in Near)
    BY DEF Matches
  <1>2. CASE pair \in Near
    <2>1. pair = <<pair[1], pair[2]>> /\ <<pair[2], pair[1]>> \in Near
      BY <1>2 DEF CapabilityAssumption
    <2> QED
      BY <1>1, <1>2, <2>1
  <1>3. CASE pair \in {<<n, n>> : n \in CapabilityName}
    BY <1>1, <1>3
  <1> QED
    BY <1>2, <1>3 DEF Abilities

LEMMA FewSameStep ==
    ASSUME CapBase, CapabilityAssumption, FewAtWork, FewSame, NEW w \in Worker, CapStep(w)
    PROVE  FewSame'
  <1> SUFFICES ASSUME NEW pair \in Abilities
               PROVE  Cardinality(Same(pair))' + Cardinality(Adding(pair))' <= 1 + late'
    BY DEF FewSame, Abilities
  <1> DEFINE a == pass[w]
             Of(row) == row.tree[Len(row.resolved) + 1] \in {pair[1], pair[2]}
             Adds(row) == row.step \in {"missing", "named anew", "inserted"} /\ Of(row)
             N == Same(pair)
             M == Adding(pair)
             N2 == {c \in capabilities' : c.id \in embedded' /\ c.name \in {pair[1], pair[2]}}
             M2 == {v \in Worker : Adds(pass'[v])}
  <1>1. /\ Cardinality(Same(pair))' = Cardinality(N2)
        /\ Cardinality(Adding(pair))' = Cardinality(M2)
    BY DEF Same, Adding, Wanted
  <1>m. M = {v \in Worker : Adds(pass[v])}
    BY DEF Adding, Wanted
  <1>2. CapBase' /\ FewAtWork'
    BY CapBaseStep, FewAtWorkStep
  <1>3. /\ IsFiniteSet(N) /\ Cardinality(N) \in Nat /\ IsFiniteSet(N2) /\ Cardinality(N2) \in Nat
        /\ IsFiniteSet(M) /\ Cardinality(M) \in Nat /\ IsFiniteSet(M2) /\ Cardinality(M2) \in Nat
    <2>1. IsFiniteSet(capabilities) /\ IsFiniteSet(capabilities')
      BY <1>2 DEF CapBase, RowShapes, Numbered
    <2>2. N \subseteq capabilities /\ N2 \subseteq capabilities'
      BY DEF Same
    <2>3. M \in SUBSET Worker /\ M2 \in SUBSET Worker
      BY DEF Adding
    <2> QED
      BY <2>1, <2>2, <2>3, Fewer, WorkersAreFew
  <1>4. late \in Nat /\ late' \in Nat /\ late <= late' /\ Cardinality(N) + Cardinality(M) <= 1 + late
    BY LateGrows DEF CapBase, PassShapes, FewSame
  <1>5. \A v \in Worker \ {w} : pass'[v] = pass[v]
    BY MoverFacts DEF CapBase, Becomes
  <1> HIDE DEF Of
  \* A row that is not embedded is not counted.
  <1>6. ~Embeds(w) => N2 \subseteq N
    <2>1. ASSUME ~Embeds(w) PROVE embedded' = embedded
      BY <2>1, WhoWrites DEF SameEdges, WritesBottleneck, Wires, nodeVars
    <2>2. capabilities' = capabilities \/ Inserts(w)
      BY WhoWrites DEF SameRows, WritesBottleneck, StoresRequirement
    <2>3. ASSUME Inserts(w), ~Embeds(w) PROVE N2 \subseteq N
      <3> DEFINE row == CapabilityRow(Fresh(capabilities), pass[w].slug)
      <3>1. row.id = Fresh(capabilities) /\ capabilities' = capabilities \cup {row}
        BY <2>3, InsertsFacts DEF CapBase
      <3> HIDE DEF row
      <3>2. \A c \in capabilities : c.id # row.id
        BY <3>1, NumberedAdds DEF CapBase, RowShapes
      <3>3. row.id \notin embedded
        BY <3>2 DEF CapBase, EdgesJoinRows, Ids
      <3> QED
        BY <2>1, <2>3, <3>1, <3>3 DEF Same
    <2> QED
      BY <2>1, <2>2, <2>3 DEF Same
  <1>7. CASE LooksUp(w) /\ Adds(pass'[w])
    <2>1. PICK r \in PassRows :
              /\ Becomes(w, r) /\ r.step = "missing" /\ SameTree(r, a) /\ Matches(Wanted(w)) = {}
      BY <1>7, LooksUpFacts DEF CapBase, Becomes
    <2>2. Of(a) /\ Wanted(w) \in {pair[1], pair[2]}
      BY <1>7, <2>1 DEF Becomes, SameTree, Of, Wanted
    <2>3. N = {}
      BY <2>1, <2>2, NothingMatches
    <2>4. N2 = {}
      BY <1>6, <1>7, <2>3 DEF LooksUp, Embeds
    <2>5. M2 \subseteq AtWork' /\ IsFiniteSet(AtWork') /\ Cardinality(AtWork') \in Nat
      <3>1. AtWork' \in SUBSET Worker
        BY DEF AtWork
      <3>2. M2 \subseteq AtWork'
        BY DEF AtWork
      <3> QED
        BY <3>1, <3>2, WorkersAreFew
    <2>6. Cardinality(M2) <= Cardinality(AtWork') /\ Cardinality(N2) = 0
      BY <2>4, <2>5, Fewer, FS_EmptySet
    <2>7. Cardinality(AtWork') <= 1 + late'
      BY <1>2 DEF FewAtWork
    <2> HIDE DEF N2, M2
    <2> QED
      BY <1>1, <1>3, <1>4, <2>5, <2>6, <2>7
  <1>8. CASE Embeds(w)
    <2>1. PICK c \in capabilities :
              /\ a.step = "inserted" /\ embedded' = embedded \cup {c.id} /\ c.name = Wanted(w)
      BY <1>8, EmbedsFacts DEF CapBase
    <2>2. ~Adds(pass'[w])
      BY <1>8, <2>1, StageFacts DEF LooksUp, ReadsSlugs, Inserts
    <2>3. M2 \subseteq M \ {w} /\ capabilities' = capabilities
      BY <1>5, <1>m, <1>8, <2>2 DEF Embeds
    <2>4. \A d \in capabilities : d.id = c.id => d = c
      BY DEF CapBase, RowShapes, Numbered
    <2>5. CASE c.name \in {pair[1], pair[2]}
      <3>1. w \in M
        BY <2>1, <2>5 DEF Adding
      <3>2. N2 \subseteq N \cup {c}
        BY <2>1, <2>3, <2>4 DEF Same
      <3>3. Cardinality(N2) <= Cardinality(N) + 1 /\ Cardinality(M2) <= Cardinality(M) - 1
        BY <1>3, <2>3, <3>1, <3>2, OneMore, OneLess
      <3> HIDE DEF N2, M2, N, M
      <3> QED
        BY <1>1, <1>3, <1>4, <3>3
    <2>6. CASE c.name \notin {pair[1], pair[2]}
      <3>1. N2 \subseteq N /\ M2 \subseteq M
        BY <2>1, <2>3, <2>4, <2>6 DEF Same
      <3>2. Cardinality(N2) <= Cardinality(N) /\ Cardinality(M2) <= Cardinality(M)
        BY <1>3, <3>1, Fewer
      <3> HIDE DEF N2, M2, N, M
      <3> QED
        BY <1>1, <1>3, <1>4, <3>2
    <2> QED
      BY <2>5, <2>6
  <1>9. CASE ~Embeds(w) /\ ~(LooksUp(w) /\ Adds(pass'[w]))
    <2>1. Adds(pass'[w]) => Adds(a)
      <3>1. ASSUME ReadsSlugs(w), Of(pass'[w]) PROVE Adds(a)
        BY <3>1, ReadsSlugsFacts DEF CapBase, Becomes, SameTree, Of
      <3>2. ASSUME Inserts(w), Of(pass'[w]) PROVE Adds(a)
        BY <3>2, InsertsFacts DEF CapBase, Becomes, SameTree, Of
      <3> QED
        BY <1>9, <3>1, <3>2, StageFacts
    <2>2. M2 \subseteq M
      BY <1>5, <1>m, <2>1
    <2>3. Cardinality(N2) <= Cardinality(N) /\ Cardinality(M2) <= Cardinality(M)
      BY <1>3, <1>6, <1>9, <2>2, Fewer
    <2> HIDE DEF N2, M2, N, M
    <2> QED
      BY <1>1, <1>3, <1>4, <2>3
  <1> QED
    BY <1>7, <1>8, <1>9

LEMMA FewTreesStep ==
    ASSUME CapBase, CapabilityAssumption, FewAtWork, FewTrees, NEW w \in Worker, CapStep(w)
    PROVE  FewTrees'
  <1> SUFFICES ASSUME NEW b \in Nat
               PROVE  Cardinality(CurrentRequirement(b))' + Cardinality(Storing(b))' <= 1 + late'
    BY DEF FewTrees
  <1> DEFINE a == pass[w]
             N == CurrentRequirement(b)
             M == Storing(b)
             N2 == {r \in requirements' : r.bottleneck = b}
             M2 == {v \in Worker : /\ pass'[v].step = "replacing" /\ pass'[v].basis = NoRow
                                   /\ pass'[v].binding = b}
  <1>1. /\ Cardinality(CurrentRequirement(b))' = Cardinality(N2)
        /\ Cardinality(Storing(b))' = Cardinality(M2)
    BY DEF CurrentRequirement, Storing
  <1>2. CapBase' /\ FewAtWork'
    BY CapBaseStep, FewAtWorkStep
  <1>3. /\ IsFiniteSet(N) /\ Cardinality(N) \in Nat /\ IsFiniteSet(N2) /\ Cardinality(N2) \in Nat
        /\ IsFiniteSet(M) /\ Cardinality(M) \in Nat /\ IsFiniteSet(M2) /\ Cardinality(M2) \in Nat
    <2>1. IsFiniteSet(requirements) /\ IsFiniteSet(requirements')
      BY <1>2 DEF CapBase, RowShapes, Numbered
    <2>2. N \subseteq requirements /\ N2 \subseteq requirements'
      BY DEF CurrentRequirement
    <2>3. M \in SUBSET Worker /\ M2 \in SUBSET Worker
      BY DEF Storing
    <2> QED
      BY <2>1, <2>2, <2>3, Fewer, WorkersAreFew
  <1>4. late \in Nat /\ late' \in Nat /\ late <= late' /\ Cardinality(N) + Cardinality(M) <= 1 + late
    BY LateGrows DEF CapBase, PassShapes, FewTrees
  <1>5. \A v \in Worker \ {w} : pass'[v] = pass[v]
    BY MoverFacts DEF CapBase, Becomes
  <1>6. CASE LooksForRequirement(w)
    <2>1. PICK r \in PassRows :
              /\ Becomes(w, r) /\ r.step = "replacing"
              /\ \/ r.basis = NoRow /\ CurrentRequirement(r.binding) = {}
                 \/ r.basis \in CurrentRequirement(r.binding)
      BY <1>6, LooksForRequirementFacts DEF CapBase
    <2>2. N2 = N
      BY <1>6 DEF LooksForRequirement, nodeVars, CurrentRequirement
    <2>3. CASE w \in M2
      <3>1. r.basis = NoRow /\ r.binding = b
        BY <2>1, <2>3 DEF Becomes
      <3>2. CurrentRequirement(b) = {}
        <4>1. NoRow \notin CurrentRequirement(b)
          BY NumberedIds DEF CurrentRequirement, NoRow, CapBase, RowShapes
        <4> QED
          BY <2>1, <3>1, <4>1
      <3>3. N2 = {}
        BY <2>2, <3>2
      <3>4. M2 \subseteq AtWork' /\ IsFiniteSet(AtWork') /\ Cardinality(AtWork') \in Nat
        <4>1. AtWork' \in SUBSET Worker
          BY DEF AtWork
        <4>2. M2 \subseteq AtWork'
          BY DEF AtWork
        <4> QED
          BY <4>1, <4>2, WorkersAreFew
      <3>5. Cardinality(M2) <= Cardinality(AtWork') /\ Cardinality(N2) = 0
        BY <3>3, <3>4, Fewer, FS_EmptySet
      <3>6. Cardinality(AtWork') <= 1 + late'
        BY <1>2 DEF FewAtWork
      <3> HIDE DEF N2, M2
      <3> QED
        BY <1>1, <1>3, <1>4, <3>4, <3>5, <3>6
    <2>4. CASE w \notin M2
      <3>1. M2 \subseteq M
        BY <1>5, <2>4 DEF Storing
      <3>2. Cardinality(M2) <= Cardinality(M)
        BY <1>3, <3>1, Fewer
      <3> HIDE DEF N2, M2, N, M
      <3> QED
        BY <1>1, <1>3, <1>4, <2>2, <3>2
    <2> QED
      BY <2>3, <2>4
  <1>7. CASE ~LooksForRequirement(w)
    <2>1. pass'[w].step # "replacing"
      BY <1>7, StageFacts
    <2>2. M2 \subseteq M \ {w}
      BY <1>5, <2>1 DEF Storing
    <2>3. Cardinality(M2) <= Cardinality(M)
      BY <1>3, <2>2, Fewer
    <2>4. CASE requirements' = requirements
      <3>1. N2 = N
        BY <2>4 DEF CurrentRequirement
      <3> HIDE DEF N2, M2, N, M
      <3> QED
        BY <1>1, <1>3, <1>4, <2>3, <3>1
    <2>5. CASE StoresRequirement(w)
      <3> DEFINE row == RequirementRow(a)
      <3>1. a.step = "replacing" /\ row.bottleneck = a.binding
        BY <2>5, StoresRequirementFacts DEF CapBase
      <3>2. \/ a.basis = NoRow /\ requirements' = requirements \cup {row}
            \/ /\ a.basis # NoRow /\ a.basis \in requirements
               /\ row.bottleneck = a.basis.bottleneck
               /\ requirements' = (requirements \ {a.basis}) \cup {row}
        BY <2>5, RequirementsAfterStore DEF CapBase
      <3> HIDE DEF row
      <3>3. CASE row.bottleneck # b
        <4>1. N2 \subseteq N
          BY <3>2, <3>3 DEF CurrentRequirement
        <4>2. Cardinality(N2) <= Cardinality(N)
          BY <1>3, <4>1, Fewer
        <4> HIDE DEF N2, M2, N, M
        <4> QED
          BY <1>1, <1>3, <1>4, <2>3, <4>2
      <3>4. CASE row.bottleneck = b /\ a.basis = NoRow
        <4>1. w \in M /\ N2 \subseteq N \cup {row}
          BY <3>1, <3>2, <3>4 DEF Storing, CurrentRequirement
        <4>2. Cardinality(N2) <= Cardinality(N) + 1 /\ Cardinality(M2) <= Cardinality(M) - 1
          BY <1>3, <2>2, <4>1, OneMore, OneLess
        <4> HIDE DEF N2, M2, N, M
        <4> QED
          BY <1>1, <1>3, <1>4, <4>2
      <3>5. CASE row.bottleneck = b /\ a.basis # NoRow
        <4>1. a.basis \in N /\ N2 \subseteq (N \ {a.basis}) \cup {row}
          BY <3>1, <3>2, <3>5 DEF CurrentRequirement
        <4>2. IsFiniteSet(N \ {a.basis}) /\ Cardinality(N \ {a.basis}) <= Cardinality(N) - 1
          BY <1>3, <4>1, OneLess
        <4>3. Cardinality(N2) <= Cardinality(N \ {a.basis}) + 1 /\ Cardinality(N \ {a.basis}) \in Nat
          BY <4>1, <4>2, OneMore, FS_CardinalityType
        <4> HIDE DEF N2, M2, N, M
        <4> QED
          BY <1>1, <1>3, <1>4, <2>3, <4>2, <4>3
      <3> QED
        BY <3>3, <3>4, <3>5
    <2> QED
      BY <2>4, <2>5, WhoWrites DEF SameRows, WritesBottleneck, Inserts
  <1> QED
    BY <1>6, <1>7

LEMMA OrphansStep ==
    ASSUME CapBase, CapabilityAssumption, OrphansCostAKill, NEW w \in Worker, CapStep(w)
    PROVE  OrphansCostAKill'
  <1> DEFINE a == pass[w]
             Wired(r, edges) == \A c \in r.leaves : <<r.bottleneck, c>> \in edges
             N == Orphans
             N2 == {r \in requirements' :
                      /\ ~Wired(r, requires')
                      /\ ~(\E v \in Worker : pass'[v].step = "wiring" /\ pass'[v].basis = r)}
  <1>1. Cardinality(Orphans)' = Cardinality(N2)
    BY DEF Orphans
  <1>2. N = {r \in requirements :
               /\ ~Wired(r, requires)
               /\ ~(\E v \in Worker : pass[v].step = "wiring" /\ pass[v].basis = r)}
    BY DEF Orphans
  <1>3. IsFiniteSet(N) /\ Cardinality(N) \in Nat /\ kills \in Nat /\ Cardinality(N) <= kills
    <2>1. N \subseteq requirements /\ IsFiniteSet(requirements)
      BY DEF Orphans, CapBase, RowShapes, Numbered
    <2> QED
      BY <2>1, Fewer DEF OrphansCostAKill, CapBase, PassShapes
  <1>4. \A v \in Worker \ {w} : pass'[v] = pass[v]
    BY MoverFacts DEF CapBase, Becomes
  <1>5. \A r : Wired(r, requires) => Wired(r, requires')
    BY StepGrows DEF CapBase, Grows
  <1> HIDE DEF Wired
  <1>6. ASSUME PassEnds(w) PROVE N2 \subseteq N \cup {a.basis} /\ requirements' = requirements
    <2>1. requirements' = requirements
      BY <1>6 DEF PassEnds, nodeVars
    <2>2. ASSUME NEW r \in N2, r # a.basis PROVE r \in N
      <3>1. r \in requirements /\ ~Wired(r, requires)
        BY <1>5, <2>1
      <3>2. ~(\E v \in Worker : pass[v].step = "wiring" /\ pass[v].basis = r)
        BY <1>4, <2>2
      <3> QED
        BY <1>2, <3>1, <3>2
    <2> QED
      BY <2>1, <2>2
  <1>7. CASE PassEnds(w) /\ a.step = "wiring"
    <2>1. kills' = kills + 1
      BY <1>7 DEF PassEnds
    <2>2. Cardinality(N2) <= Cardinality(N) + 1 /\ IsFiniteSet(N2)
      <3>1. IsFiniteSet(N) /\ N2 \subseteq N \cup {a.basis}
        BY <1>3, <1>6, <1>7
      <3> HIDE DEF N, N2
      <3> QED
        BY <3>1, OneMore
    <2>3. Cardinality(N2) \in Nat
      BY <2>2, FS_CardinalityType
    <2> HIDE DEF N, N2
    <2> QED
      BY <1>1, <1>3, <2>1, <2>2, <2>3 DEF OrphansCostAKill
  <1>8. CASE ~(PassEnds(w) /\ a.step = "wiring")
    <2>1. N2 \subseteq N
      <3>1. CASE requirements' = requirements /\ a.step # "wiring"
        BY <1>2, <1>4, <1>5, <3>1
      <3>2. CASE StoresRequirement(w)
        <4> DEFINE row == RequirementRow(a)
        <4>1. /\ a.step = "replacing" /\ pass'[w].step = "wiring" /\ pass'[w].basis = row
              /\ requirements' = Closed(a.basis, requirements) \cup {row}
          BY <3>2, StoresRequirementFacts DEF CapBase, Becomes
        <4> HIDE DEF row
        <4>2. row \notin N2 /\ N2 \subseteq requirements
          BY <4>1 DEF Closed
        <4> QED
          BY <1>2, <1>4, <1>5, <4>1, <4>2
      <3>3. CASE Wires(w)
        <4>1. /\ a.step = "wiring" /\ a.todo \in Seq(Nat) /\ a.todo # <<>> /\ requirements' = requirements
              /\ requires' = requires \cup {<<a.binding, Head(a.todo)>>}
              /\ \/ pass'[w].step = "converging" /\ Len(a.todo) = 1
                 \/ pass'[w].step = "wiring" /\ pass'[w].basis = a.basis
          BY <3>3, WiresFacts DEF CapBase, Becomes, Wires, nodeVars
        <4>2. CASE pass'[w].step = "wiring"
          BY <1>2, <1>4, <1>5, <4>1, <4>2
        <4>3. CASE pass'[w].step # "wiring"
          <5>1. /\ a.basis.bottleneck = a.binding
                /\ \A c \in a.basis.leaves : c \in Leaves(a.todo) \/ <<a.binding, c>> \in requires
            BY <4>1 DEF CapBase, PassesHold, Holds, HoldsIn
          <5>2. Leaves(a.todo) = {Head(a.todo)}
            BY <4>1, <4>3, HeadAndTail
          <5>3. Wired(a.basis, requires')
            BY <4>1, <5>1, <5>2 DEF Wired
          <5> QED
            BY <1>2, <1>4, <1>5, <4>1, <4>3, <5>3
        <4> QED
          BY <4>2, <4>3
      <3>4. requirements' = requirements \/ StoresRequirement(w)
        BY WhoWrites DEF SameRows, WritesBottleneck, Inserts
      <3>5. a.step = "wiring" => Wires(w) \/ PassEnds(w)
        BY DEF CapStep, Starts, Identifies, LooksForBottleneck, WritesBottleneck, LinksBottleneck, Maps,
               LooksUp, ReadsSlugs, Inserts, Embeds, LooksForRequirement, StoresRequirement, Assesses
      <3> QED
        BY <1>8, <3>1, <3>2, <3>3, <3>4, <3>5
    <2>2. kills' = kills \/ kills' = kills + 1
      BY DEF CapStep, Starts, Identifies, LooksForBottleneck, WritesBottleneck, LinksBottleneck, Maps,
             LooksUp, ReadsSlugs, Inserts, Embeds, LooksForRequirement, StoresRequirement, Wires,
             Assesses, PassEnds, historyVars
    <2>3. Cardinality(N2) <= Cardinality(N) /\ Cardinality(N2) \in Nat
      BY <1>3, <2>1, Fewer
    <2> HIDE DEF N, N2
    <2> QED
      BY <1>1, <1>3, <2>2, <2>3 DEF OrphansCostAKill
  <1> QED
    BY <1>7, <1>8

\* A pass that goes on keeps the binding Bottleneck it has.
LEMMA BindingStays ==
    ASSUME CapBase, CapabilityAssumption, NEW w \in Worker, CapStep(w), ~PassEnds(w),
           pass[w].binding # 0
    PROVE  pass'[w].binding = pass[w].binding \/ (Assesses(w) /\ pass[w].step = "converging")
  <1> USE DEF CapBase
  <1>0. pass[w].step # "idle" /\ pass[w].step # "asked" /\ Holds(pass[w]) /\ pass[w] \in PassRows
    BY NoPassFacts DEF PassesHold, Holds, HoldsIn, PassShapes
  <1>1. CASE \E p \in Process : Starts(w, p)
    BY <1>0, <1>1 DEF Starts
  <1>2. CASE Identifies(w)
    BY <1>0, <1>2 DEF Identifies
  <1>3. CASE LooksForBottleneck(w)
    BY <1>3, LooksForBottleneckFacts DEF Becomes
  <1>4. CASE WritesBottleneck(w)
    <2>1. /\ pass[w].step = "looked"
          /\ pass'[w].binding =
                IF pass[w].index = pass[w].next THEN BottleneckRow(pass[w]).id ELSE pass[w].binding
      BY <1>4, WritesBottleneckFacts DEF Becomes
    <2>2. pass[w].index < pass[w].next /\ pass[w].index \in Nat /\ pass[w].next \in Nat
      BY <1>0, <2>1 DEF Holds, HoldsIn, PassRows
    <2>3. pass[w].index # pass[w].next
      BY <2>2
    <2> QED
      BY <2>1, <2>3
  <1>5. CASE LinksBottleneck(w)
    BY <1>5, LinksBottleneckFacts DEF Becomes
  <1>6. CASE Maps(w)
    BY <1>6, MapsFacts DEF Becomes
  <1>7. CASE LooksUp(w)
    BY <1>7, LooksUpFacts DEF Becomes
  <1>8. CASE ReadsSlugs(w)
    BY <1>8, ReadsSlugsFacts DEF Becomes
  <1>9. CASE Inserts(w)
    BY <1>9, InsertsFacts DEF Becomes
  <1>10. CASE Embeds(w)
    BY <1>10, EmbedsFacts DEF Becomes
  <1>11. CASE LooksForRequirement(w)
    BY <1>11, LooksForRequirementFacts DEF Becomes
  <1>12. CASE StoresRequirement(w)
    BY <1>12, StoresRequirementFacts DEF Becomes
  <1>13. CASE Wires(w)
    BY <1>13, WiresFacts DEF Becomes
  <1>14. CASE Assesses(w)
    BY <1>14 DEF Assesses
  <1> QED
    BY <1>1, <1>2, <1>3, <1>4, <1>5, <1>6, <1>7, <1>8, <1>9, <1>10, <1>11, <1>12, <1>13, <1>14
       DEF CapStep

LEMMA UnmappedStep ==
    ASSUME CapBase, CapabilityAssumption, UnmappedCostAKill, NEW w \in Worker, CapStep(w)
    PROVE  UnmappedCostAKill'
  <1> DEFINE a == pass[w]
             Treed(b, rows) == \E r \in rows : r.bottleneck = b
             N == Unmapped
             N2 == {b \in designated' : /\ ~Treed(b, requirements')
                                        /\ \A v \in Worker : pass'[v].binding # b}
  <1>1. Cardinality(Unmapped)' = Cardinality(N2)
    BY DEF Unmapped
  <1>2. N = {b \in designated : ~Treed(b, requirements) /\ \A v \in Worker : pass[v].binding # b}
    BY DEF Unmapped
  <1>3. IsFiniteSet(N) /\ Cardinality(N) \in Nat /\ kills \in Nat /\ Cardinality(N) <= kills
    <2>1. N \subseteq designated /\ IsFiniteSet(designated)
      BY DEF Unmapped, CapBase, PassShapes
    <2> QED
      BY <2>1, Fewer DEF UnmappedCostAKill, CapBase, PassShapes
  <1>4. \A v \in Worker \ {w} : pass'[v] = pass[v]
    BY MoverFacts DEF CapBase, Becomes
  <1>5. \A b : Treed(b, requirements) => Treed(b, requirements')
    BY StepGrows DEF CapBase, Grows, RequirementsStay
  <1> HIDE DEF Treed
  <1>6. 0 \notin designated'
    <2>1. Numbered(bottlenecks') /\ designated' \subseteq {r.id : r \in bottlenecks'}
      BY CapBaseStep DEF CapBase, EdgesJoinRows, Ids, RowShapes, Numbered
    <2>2. \A r \in bottlenecks' : r.id \in Nat \ {0}
      BY <2>1, NumberedIds
    <2> QED
      BY <2>1, <2>2
  <1>7. a.step = "converging" => Treed(a.binding, requirements)
    BY DEF CapBase, PassesHold, Holds, HoldsIn, Treed
  <1>8. CASE PassEnds(w) /\ kills' # kills
    <2>1. kills' = kills + 1 /\ designated' = designated
      BY <1>8 DEF PassEnds
    <2>2. N2 \subseteq N \cup {a.binding}
      BY <1>2, <1>4, <1>5, <2>1
    <2>3. Cardinality(N2) <= Cardinality(N) + 1 /\ IsFiniteSet(N2)
      BY <1>3, <2>2, OneMore
    <2>4. Cardinality(N2) \in Nat
      BY <2>3, FS_CardinalityType
    <2> HIDE DEF N, N2
    <2> QED
      BY <1>1, <1>3, <2>1, <2>3, <2>4 DEF UnmappedCostAKill
  <1>9. CASE ~(PassEnds(w) /\ kills' # kills)
    <2>1. a.binding = 0 \/ Treed(a.binding, requirements) \/ pass'[w].binding = a.binding
      <3>1. ASSUME PassEnds(w), a.step # "converging" PROVE a.binding = 0
        <4>1. /\ a \in PassRows /\ Holds(a) /\ kills' = kills /\ kills \in Nat
              /\ a.step = "asked" \/ (a.step \in {"named", "looked"} /\ a.next = 1)
          BY <1>9, <3>1 DEF PassEnds, CapBase, PassesHold, PassShapes
        <4>2. CASE a.step = "asked"
          BY <4>1, <4>2 DEF Holds, HoldsIn
        <4>3. CASE a.step \in {"named", "looked"} /\ a.next = 1
          <5>1. a.index \in Nat /\ (a.binding # 0 => a.index < 1) /\ (a.index = 0 => a.binding = 0)
            BY <4>1, <4>3 DEF Holds, HoldsIn, Naming, PassRows
          <5> QED
            BY <5>1
        <4> QED
          BY <4>1, <4>2, <4>3
      <3> QED
        BY <1>7, <3>1, BindingStays
    <2>2. \A b \in designated' : b \in designated \/ b = pass'[w].binding
      <3>1. designated' = designated \/ WritesBottleneck(w)
        BY WhoWrites DEF SameEdges, Embeds, Wires, historyVars
      <3>2. ASSUME WritesBottleneck(w)
            PROVE  \A b \in designated' : b \in designated \/ b = pass'[w].binding
        <4> DEFINE row == BottleneckRow(a)
        <4>1. designated' = IF a.index = a.next THEN designated \cup {row.id} ELSE designated
          BY <3>2 DEF WritesBottleneck
        <4>2. pass'[w].binding = IF a.index = a.next THEN row.id ELSE a.binding
          BY <3>2, WritesBottleneckFacts DEF CapBase, Becomes
        <4> HIDE DEF row
        <4> QED
          BY <4>1, <4>2
      <3> QED
        BY <3>1, <3>2
    <2>3. N2 \subseteq N
      BY <1>2, <1>4, <1>5, <1>6, <2>1, <2>2
    <2>4. kills' = kills \/ kills' = kills + 1
      BY DEF CapStep, Starts, Identifies, LooksForBottleneck, WritesBottleneck, LinksBottleneck, Maps,
             LooksUp, ReadsSlugs, Inserts, Embeds, LooksForRequirement, StoresRequirement, Wires,
             Assesses, PassEnds, historyVars
    <2>5. Cardinality(N2) <= Cardinality(N) /\ Cardinality(N2) \in Nat
      BY <1>3, <2>3, Fewer
    <2> HIDE DEF N, N2
    <2> QED
      BY <1>1, <1>3, <2>4, <2>5 DEF UnmappedCostAKill
  <1> QED
    BY <1>8, <1>9

LEMMA InfluencesConvergeStep ==
    ASSUME CapBase, InfluencesConverge, NEW w \in Worker, CapStep(w)
    PROVE  InfluencesConverge'
  <1> DEFINE Meets(q, c, rows, edges) == \E r \in rows : r.of = q /\ <<r.bottleneck, c.id>> \in edges
             Joined(pair, cs, rows, edges) ==
                /\ pair[1] # pair[2]
                /\ \E c \in cs : Meets(pair[1], c, rows, edges) /\ Meets(pair[2], c, rows, edges)
  <1>1. \A pair \in influences : Joined(pair, capabilities, requirements, requires)
    BY DEF InfluencesConverge
  <1>2. Grows
    BY StepGrows DEF CapBase
  <1>3. ASSUME NEW pair, Joined(pair, capabilities, requirements, requires)
        PROVE  Joined(pair, capabilities', requirements', requires')
    BY <1>2, <1>3 DEF Grows, RequirementsStay
  <1>4. ASSUME NEW pair \in influences', pair \notin influences
        PROVE  Joined(pair, capabilities, requirements, requires)
    <2> DEFINE a == pass[w]
    <2>1. Assesses(w)
      BY <1>4 DEF CapStep, Starts, Identifies, LooksForBottleneck, WritesBottleneck, LinksBottleneck,
             Maps, LooksUp, ReadsSlugs, Inserts, Embeds, LooksForRequirement, StoresRequirement,
             Wires, PassEnds, edgeVars
    <2>2. /\ a.step = "converging" /\ a.todo \in Seq(Nat) /\ a.todo # <<>>
          /\ pair \in Confluence(Head(a.todo))
      BY <1>4, <2>1, AssessesFacts DEF CapBase
    <2>3. \A i \in DOMAIN a.todo : a.todo[i] \in Ids(capabilities)
      BY <2>2 DEF CapBase, PassesHold, Holds, HoldsIn
    <2>4. Head(a.todo) \in Ids(capabilities)
      BY <2>2, <2>3, HeadAndTail DEF Leaves
    <2>5. PICK c \in capabilities : c.id = Head(a.todo)
      BY <2>4 DEF Ids
    <2>6. pair[1] \in Upstream(c.id) /\ pair[2] \in Upstream(c.id) /\ pair[1] # pair[2]
      BY <2>2, <2>5 DEF Confluence, OfferedPairs
    <2>7. Meets(pair[1], c, requirements, requires) /\ Meets(pair[2], c, requirements, requires)
      BY <2>6 DEF Upstream
    <2> QED
      BY <2>6, <2>7
  <1>5. \A pair \in influences' : Joined(pair, capabilities', requirements', requires')
    BY <1>1, <1>3, <1>4
  <1> QED
    BY <1>5 DEF InfluencesConverge

LEMMA StateStep ==
    ASSUME CapInv, NEW p \in Process, RecordsState(p)
    PROVE  CapInv'
  <1> DEFINE Unmoved == UNCHANGED <<assessed, lastSaw, edgeVars, nodeVars, historyVars, pass>>
  <1>1. Unmoved /\ stateNo' = [stateNo EXCEPT ![p] = @ + 1]
    BY DEF RecordsState
  <1>2. raced' = (raced \/ \E w \in Worker : pass[w].of = p)
    BY DEF RecordsState
  <1>3. RowShapes'
    <2>1. stateNo \in [Process -> Nat] /\ stateNo[p] \in Nat
      BY DEF CapInv, RowShapes
    <2>2. stateNo' \in [Process -> Nat] /\ raced' \in BOOLEAN
      BY <1>1, <1>2, <2>1
    <2>3. Numbered(bottlenecks)' /\ Numbered(capabilities)' /\ Numbered(requirements)'
      BY <1>1 DEF CapInv, RowShapes, Numbered, nodeVars
    <2> QED
      BY <1>1, <2>2, <2>3 DEF CapInv, RowShapes, nodeVars
  <1>4. PassShapes' /\ FewAtWork'
    BY <1>1 DEF CapInv, PassShapes, FewAtWork, AtWork, historyVars
  <1>5. EdgesJoinRows'
    BY <1>1 DEF CapInv, EdgesJoinRows, Ids, edgeVars, nodeVars, historyVars
  <1>6. PassesHold'
    BY <1>1 DEF CapInv, PassesHold, Holds, edgeVars, nodeVars
  <1>7. ReadIsCurrent'
    <2> SUFFICES ASSUME ~raced'
                 PROVE  /\ \A w \in Worker : pass[w].step # "idle" => pass[w].saw = stateNo'[pass[w].of]
                        /\ \A q \in Process : lastSaw[q] >= 0 => assessed[q] = lastSaw[q]
      BY <1>1 DEF ReadIsCurrent
    <2>1. ~raced /\ \A w \in Worker : pass[w].of # p
      BY <1>2
    <2>2. ASSUME NEW w \in Worker, pass[w].step # "idle" PROVE pass[w].saw = stateNo'[pass[w].of]
      <3>1. pass[w].of \in Process \ {p} /\ pass[w].saw = stateNo[pass[w].of]
        BY <2>1, <2>2 DEF CapInv, PassesHold, Holds, HoldsIn, ReadIsCurrent
      <3> QED
        BY <1>1, <3>1 DEF CapInv, RowShapes
    <2> QED
      BY <2>1, <2>2 DEF CapInv, ReadIsCurrent
  <1>8. FewNamed' /\ FewTrees'
    BY <1>1 DEF CapInv, FewNamed, Named, NamingAnew, FewTrees, CurrentRequirement, Storing, nodeVars,
                historyVars
  <1>9. FewSame'
    BY <1>1 DEF CapInv, FewSame, Same, Adding, Wanted, Abilities, nodeVars, historyVars
  <1>10. OrphansCostAKill' /\ UnmappedCostAKill'
    BY <1>1 DEF CapInv, OrphansCostAKill, Orphans, UnmappedCostAKill, Unmapped, edgeVars, nodeVars,
                historyVars
  <1>11. InfluencesConverge'
    BY <1>1 DEF CapInv, InfluencesConverge, edgeVars, nodeVars
  <1> QED
    BY <1>3, <1>4, <1>5, <1>6, <1>7, <1>8, <1>9, <1>10, <1>11 DEF CapInv

LEMMA CapInvInit ==
    ASSUME CapInit, CapabilityAssumption
    PROVE  CapInv
  <1>0. \A w \in Worker : pass[w] = NoPass
    BY DEF CapInit
  <1>1. IsFiniteSet({}) /\ Cardinality({}) = 0
    BY FS_EmptySet
  <1>2. RowShapes
    <2>1. /\ stateNo \in [Process -> Nat] /\ assessed \in [Process -> Int] /\ lastSaw \in [Process -> Int]
          /\ raced \in BOOLEAN /\ bottlenecks = {} /\ capabilities = {} /\ requirements = {}
      <3>1. stateNo \in [Process -> Nat]
        BY DEF CapInit
      <3>2. [p \in Process |-> -1] \in [Process -> Int]
        OBVIOUS
      <3>3. assessed \in [Process -> Int] /\ lastSaw \in [Process -> Int]
        BY <3>2 DEF CapInit
      <3>4. raced \in BOOLEAN /\ bottlenecks = {} /\ capabilities = {} /\ requirements = {}
        BY DEF CapInit
      <3> QED
        BY <3>1, <3>3, <3>4
    <2>2. Numbered({})
      BY <1>1 DEF Numbered
    <2> QED
      BY <2>1, <2>2 DEF RowShapes
  <1>3. PassShapes
    BY <1>1, NoPassFacts DEF CapInit, PassShapes
  <1>4. EdgesJoinRows
    BY DEF CapInit, EdgesJoinRows
  <1>5. PassesHold
    <2>1. \A i \in DOMAIN NoPass.resolved : FALSE
      BY NoPassFacts
    <2>2. PICK a : a = NoPass
      OBVIOUS
    <2>3. Holds(a)
      BY <2>1, <2>2, NoPassFacts DEF Holds, HoldsIn, BeforeTree, Naming, Mapping, Resolving
    <2> QED
      BY <1>0, <2>2, <2>3 DEF PassesHold
  <1>6. FewAtWork
    <2>1. AtWork = {}
      BY <1>0, NoPassFacts DEF AtWork
    <2> QED
      BY <1>1, <2>1 DEF CapInit, FewAtWork
  <1>7. ReadIsCurrent
    BY <1>0, NoPassFacts DEF CapInit, ReadIsCurrent
  <1>8. FewNamed
    <2> SUFFICES ASSUME NEW p \in Process, NEW n \in BottleneckName
                 PROVE  Cardinality(Named(p, n)) + Cardinality(NamingAnew(p, n)) <= 1 + late
      BY DEF FewNamed
    <2>1. Named(p, n) = {} /\ NamingAnew(p, n) = {} /\ late = 0
      BY <1>0, NoPassFacts DEF CapInit, Named, NamingAnew
    <2> HIDE DEF Named, NamingAnew
    <2> QED
      BY <1>1, <2>1
  <1>9. FewSame
    <2> SUFFICES ASSUME NEW pair \in Abilities
                 PROVE  Cardinality(Same(pair)) + Cardinality(Adding(pair)) <= 1 + late
      BY DEF FewSame
    <2>1. Same(pair) = {} /\ Adding(pair) = {} /\ late = 0
      BY <1>0, NoPassFacts DEF CapInit, Same, Adding
    <2> HIDE DEF Same, Adding
    <2> QED
      BY <1>1, <2>1
  <1>10. FewTrees
    <2> SUFFICES ASSUME NEW b \in Nat
                 PROVE  Cardinality(CurrentRequirement(b)) + Cardinality(Storing(b)) <= 1 + late
      BY DEF FewTrees
    <2>1. CurrentRequirement(b) = {} /\ Storing(b) = {} /\ late = 0
      BY <1>0, NoPassFacts DEF CapInit, CurrentRequirement, Storing
    <2> HIDE DEF CurrentRequirement, Storing
    <2> QED
      BY <1>1, <2>1
  <1>11. OrphansCostAKill /\ UnmappedCostAKill
    <2>1. Orphans = {} /\ Unmapped = {}
      BY DEF CapInit, Orphans, Unmapped
    <2> QED
      BY <1>1, <2>1 DEF CapInit, OrphansCostAKill, UnmappedCostAKill
  <1>12. InfluencesConverge
    BY DEF CapInit, InfluencesConverge
  <1> QED
    BY <1>2, <1>3, <1>4, <1>5, <1>6, <1>7, <1>8, <1>9, <1>10, <1>11, <1>12 DEF CapInv

LEMMA CapInvStep ==
    ASSUME CapInv, CapabilityAssumption, CapNext
    PROVE  CapInv'
  <1>1. CASE \E p \in Process : RecordsState(p)
    BY <1>1, StateStep
  <1>2. CASE \E w \in Worker : CapStep(w)
    <2>1. PICK w \in Worker : CapStep(w)
      BY <1>2
    <2>2. CapBase
      BY DEF CapInv, CapBase
    <2> QED
      BY <2>1, <2>2, CapBaseStep, FewAtWorkStep, ReadIsCurrentStep, FewNamedStep, FewSameStep,
         FewTreesStep, OrphansStep, UnmappedStep, InfluencesConvergeStep DEF CapInv, CapBase
  <1> QED
    BY <1>1, <1>2 DEF CapNext

-----------------------------------------------------------------------------
(* What each action of a search makes of it.                                *)

Turned(w, s) ==
    /\ s \in SearchRows /\ search' \in [Worker -> SearchRows]
    /\ search'[w] = s /\ \A v \in Worker \ {w} : search'[v] = search[v]

SameOffers(t, s) == t.of = s.of /\ t.proposals = s.proposals /\ t.next = s.next

LEMMA TurnsFacts ==
    ASSUME AssetShapes, NEW w \in Worker, NEW s \in SearchRows, Turns(w, s)
    PROVE  Turned(w, s)
  BY DEF AssetShapes, Turns, Turned

LEMMA NoSearchFacts ==
    /\ NoSearch \in SearchRows /\ NoSearch.step = "idle" /\ NoSearch.candidate = 0
  BY DEF NoSearch, SearchRows, SearchSteps, Keys

LEMMA DoneFacts ==
    ASSUME AssetShapes, NEW w \in Worker, Done(w)
    PROVE  Turned(w, NoSearch)
  BY NoSearchFacts, TurnsFacts DEF Done

LEMMA NextProposalFacts ==
    ASSUME AssetShapes, SearchesHold, NEW w \in Worker, NextProposal(w),
           search[w].step \in AtOffer
    PROVE  \/ Turned(w, NoSearch)
           \/ \E s \in SearchRows :
                 /\ Turned(w, s) /\ s.step = "proposed" /\ s.of = search[w].of
                 /\ s.next \in 1..Len(s.proposals) /\ s.candidate = 0
  <1> DEFINE t == search[w]
  <1>1. t \in SearchRows /\ t.next \in 1..Len(t.proposals)
    BY DEF AssetShapes, SearchesHold, SearchHolds, SearchHoldsIn
  <1>2. CASE t.next = Len(t.proposals)
    BY <1>2, DoneFacts DEF NextProposal
  <1>3. CASE t.next # Len(t.proposals)
    <2> DEFINE s == [t EXCEPT !.step = "proposed", !.next = t.next + 1, !.candidate = 0,
                              !.key = <<>>, !.asset = 0]
    <2>1. Turns(w, s)
      BY <1>3 DEF NextProposal
    <2>2. t.next + 1 \in Nat /\ t.next + 1 \in 1..Len(t.proposals)
      <3>1. t.proposals \in Seq(Offers)
        BY <1>1 DEF SearchRows
      <3>2. Len(t.proposals) \in Nat
        BY <3>1
      <3> QED
        BY <1>1, <1>3, <3>2
    <2>3. <<>> \in Keys /\ "proposed" \in SearchSteps
      BY DEF Keys, SearchSteps
    <2>4. /\ s \in SearchRows /\ s.step = "proposed" /\ s.of = t.of
          /\ s.next = t.next + 1 /\ s.proposals = t.proposals /\ s.candidate = 0
      BY <1>1, <2>2, <2>3 DEF SearchRows
    <2>5. Turned(w, s)
      BY <2>1, <2>4, TurnsFacts
    <2> QED
      BY <2>2, <2>4, <2>5
  <1> QED
    BY <1>2, <1>3

LEMMA SearchesFacts ==
    ASSUME CapInv, AssetShapes, SearchesHold, NEW w \in Worker, NEW c \in capabilities, Searches(w, c.id)
    PROVE  /\ search[w].step = "idle"
           /\ \E s \in SearchRows :
                 Turned(w, s) /\ s.step = "asked" /\ s.of = c.id /\ s.candidate = 0
  <1> DEFINE s == [search[w] EXCEPT !.step = "asked", !.of = c.id]
  <1>1. search[w].step = "idle" /\ search[w] = NoSearch /\ Turns(w, s)
    BY DEF Searches, SearchesHold, SearchHolds, SearchHoldsIn
  <1>2. c.id \in Nat /\ search[w] \in SearchRows
    BY DEF CapInv, RowShapes, CapabilityRows, AssetShapes
  <1>3. s \in SearchRows /\ s.step = "asked" /\ s.of = c.id /\ s.candidate = search[w].candidate
    BY <1>2 DEF SearchRows, SearchSteps
  <1>4. Turned(w, s)
    BY <1>1, <1>3, TurnsFacts
  <1> QED
    BY <1>1, <1>3, <1>4, NoSearchFacts

LEMMA DiscoversFacts ==
    ASSUME AssetShapes, SearchesHold, AssetAssumption, NEW w \in Worker, Discovers(w)
    PROVE  /\ search[w].step = "asked"
           /\ \/ Turned(w, NoSearch)
              \/ \E s \in SearchRows :
                    /\ Turned(w, s) /\ s.step = "proposed" /\ s.of = search[w].of
                    /\ s.next \in 1..Len(s.proposals) /\ s.candidate = 0
  <1> DEFINE t == search[w]
  <1>1. t \in SearchRows /\ t.step = "asked" /\ t.candidate = 0
    BY DEF Discovers, AssetShapes, SearchesHold, SearchHolds, SearchHoldsIn
  <1>2. PICK answer \in Discoveries :
            IF answer = <<>> THEN Done(w)
            ELSE Turns(w, [search[w] EXCEPT !.step = "proposed", !.proposals = answer, !.next = 1])
    BY DEF Discovers
  <1>3. answer \in Seq(Offers)
    BY AssetAssumption DEF AssetAssumption
  <1>4. CASE answer = <<>>
    BY <1>1, <1>2, <1>4, DoneFacts
  <1>5. CASE answer # <<>>
    <2> DEFINE s == [t EXCEPT !.step = "proposed", !.proposals = answer, !.next = 1]
    <2>1. /\ s \in SearchRows /\ s.step = "proposed" /\ s.of = t.of /\ s.next = 1
          /\ s.proposals = answer /\ s.candidate = t.candidate
      BY <1>1, <1>3 DEF SearchRows, SearchSteps
    <2>2. Turned(w, s)
      BY <1>2, <1>5, <2>1, TurnsFacts
    <2>3. Len(answer) \in Nat \ {0}
      BY <1>3, <1>5
    <2>4. s.next \in 1..Len(s.proposals)
      BY <2>1, <2>3
    <2> QED
      BY <1>1, <2>1, <2>2, <2>4
  <1> QED
    BY <1>4, <1>5

LEMMA ProposalFacts ==
    ASSUME AssetShapes, SearchesHold, NEW w \in Worker, search[w].step \in AtOffer
    PROVE  Proposal(w) \in Offers /\ Key(Proposal(w)) \in OfferKeys
  <1>1. search[w] \in SearchRows /\ search[w].next \in 1..Len(search[w].proposals)
    BY DEF AssetShapes, SearchesHold, SearchHolds, SearchHoldsIn
  <1>2. search[w].proposals \in Seq(Offers)
    BY <1>1 DEF SearchRows
  <1>3. Proposal(w) \in Offers
    BY <1>1, <1>2 DEF Proposal
  <1> QED
    BY <1>3 DEF OfferKeys

LEMMA RecordsCandidateFacts ==
    ASSUME AssetShapes, SearchesHold, CapInv, NEW w \in Worker, RecordsCandidate(w)
    PROVE  LET row == Candidate(Fresh(candidates), search[w].of) IN
           /\ search[w].step = "proposed" /\ search[w].candidate = 0
           /\ row \in CandidateRows /\ row.id = Fresh(candidates) /\ row.of = search[w].of
           /\ row.asset = 0 /\ candidates' = candidates \cup {row}
           /\ \E s \in SearchRows :
                 /\ Turned(w, s) /\ s.step = "recorded" /\ SameOffers(s, search[w])
                 /\ s.candidate = row.id /\ s.key \in OfferKeys
  <1> DEFINE t == search[w]
             id == Fresh(candidates)
             row == Candidate(id, t.of)
             key == Key(Proposal(w))
             s == [t EXCEPT !.step = "recorded", !.candidate = row.id, !.key = key]
  <1>1. /\ t \in SearchRows /\ t.step = "proposed" /\ t.candidate = 0 /\ Turns(w, s)
        /\ candidates' = candidates \cup {row} /\ t.of \in Nat
    BY DEF RecordsCandidate, AssetShapes, SearchesHold, SearchHolds, SearchHoldsIn, SearchRows
  <1>2. Cardinality(candidates) \in Nat
    BY FS_CardinalityType DEF AssetShapes, Numbered
  <1>3. id \in Nat
    BY <1>2 DEF Fresh
  <1>4. key \in OfferKeys /\ key \in Keys
    BY <1>1, ProposalFacts DEF AtOffer, Keys
  <1> HIDE DEF id, key
  <1>5. row \in CandidateRows /\ row.id = id /\ row.of = t.of /\ row.asset = 0
    BY <1>1, <1>3 DEF Candidate, CandidateRows
  <1> HIDE DEF row
  <1>6. /\ s \in SearchRows /\ s.step = "recorded" /\ SameOffers(s, t)
        /\ s.candidate = row.id /\ s.key = key
    BY <1>1, <1>3, <1>4, <1>5 DEF SearchRows, SearchSteps, SameOffers
  <1>7. Turned(w, s)
    BY <1>1, <1>6, TurnsFacts
  <1> QED
    BY <1>1, <1>4, <1>5, <1>6, <1>7 DEF row, id

LEMMA LooksForAssetFacts ==
    ASSUME AssetShapes, SearchesHold, NEW w \in Worker, LooksForAsset(w)
    PROVE  LET t == search[w] IN
           /\ t.step = "recorded" /\ t.key \in OfferKeys
           /\ \/ /\ Keyed(t.key) = {} /\ t.key[1] # "name"
                 /\ \E s \in SearchRows :
                       /\ Turned(w, s) /\ s.step = "absent" /\ SameOffers(s, t)
                       /\ s.candidate = t.candidate /\ s.key = t.key
              \/ \E s \in SearchRows :
                    /\ Turned(w, s) /\ s.step = "found" /\ SameOffers(s, t)
                    /\ s.candidate = t.candidate /\ s.asset \in Ids(assets)
  <1> DEFINE t == search[w]
  <1>1. t \in SearchRows /\ t.step = "recorded" /\ t.key \in OfferKeys
    BY DEF LooksForAsset, AssetShapes, SearchesHold, SearchHolds, SearchHoldsIn
  <1>2. CASE Found(t.key) = {}
    <2> DEFINE s == [t EXCEPT !.step = "absent"]
    <2>1. Turns(w, s) /\ t.key[1] # "name"
      BY <1>2 DEF LooksForAsset
    <2>2. /\ s \in SearchRows /\ s.step = "absent" /\ SameOffers(s, t)
          /\ s.candidate = t.candidate /\ s.key = t.key
      BY <1>1 DEF SearchRows, SearchSteps, SameOffers
    <2>3. Turned(w, s)
      BY <2>1, <2>2, TurnsFacts
    <2>4. Keyed(t.key) = {}
      BY <1>2, <2>1 DEF Found, Keyed
    <2> QED
      BY <1>1, <2>1, <2>2, <2>3, <2>4
  <1>3. CASE Found(t.key) # {}
    <2> DEFINE asset == One(Found(t.key)).id
               s == [t EXCEPT !.step = "found", !.asset = asset]
    <2>1. Turns(w, s)
      BY <1>3 DEF LooksForAsset
    <2>2. One(Found(t.key)) \in assets
      BY <1>3 DEF One, Found
    <2>3. asset \in Ids(assets) /\ asset \in Nat
      BY <2>2, NumberedIds DEF Ids, AssetShapes
    <2> HIDE DEF asset
    <2>4. /\ s \in SearchRows /\ s.step = "found" /\ SameOffers(s, t)
          /\ s.candidate = t.candidate /\ s.asset = asset
      BY <1>1, <2>3 DEF SearchRows, SearchSteps, SameOffers
    <2>5. Turned(w, s)
      BY <2>1, <2>4, TurnsFacts
    <2> QED
      BY <1>1, <2>3, <2>4, <2>5
  <1> QED
    BY <1>2, <1>3

LEMMA CreatesAssetFacts ==
    ASSUME AssetShapes, SearchesHold, NEW w \in Worker, CreatesAsset(w)
    PROVE  LET t == search[w]
               row == AssetRow(Fresh(assets), t.key, Proposal(w))
           IN  /\ t.step = "absent" /\ t.key \in OfferKeys
               /\ row.id = Fresh(assets) /\ row.key = t.key /\ assets' = assets \cup {row}
               /\ \E s \in SearchRows :
                     /\ Turned(w, s) /\ s.step = "found" /\ SameOffers(s, t)
                     /\ s.candidate = t.candidate /\ s.asset = row.id
  <1> DEFINE t == search[w]
             row == AssetRow(Fresh(assets), t.key, Proposal(w))
             s == [t EXCEPT !.step = "found", !.asset = row.id]
  <1>1. /\ t \in SearchRows /\ t.step = "absent" /\ t.key \in OfferKeys /\ Turns(w, s)
        /\ assets' = assets \cup {row}
    BY DEF CreatesAsset, AssetShapes, SearchesHold, SearchHolds, SearchHoldsIn
  <1>2. Cardinality(assets) \in Nat
    BY FS_CardinalityType DEF AssetShapes, Numbered
  <1>3. row.id = Fresh(assets) /\ row.key = t.key
    BY DEF AssetRow
  <1>4. row.id \in Nat
    BY <1>2, <1>3 DEF Fresh
  <1> HIDE DEF row
  <1>5. /\ s \in SearchRows /\ s.step = "found" /\ SameOffers(s, t)
        /\ s.candidate = t.candidate /\ s.asset = row.id
    BY <1>1, <1>4 DEF SearchRows, SearchSteps, SameOffers
  <1>6. Turned(w, s)
    BY <1>1, <1>5, TurnsFacts
  <1> QED
    BY <1>1, <1>3, <1>5, <1>6 DEF row

\* The row a candidate becomes, in the place of the one it was.
LEMMA UpdatedFacts ==
    ASSUME AssetShapes, NEW asset \in Nat, NEW row \in candidates
    PROVE  LET new == Tells(row, asset) IN
           /\ Updated(row.id, asset) = (candidates \ {row}) \cup {new}
           /\ new \in CandidateRows /\ new.id = row.id /\ new.of = row.of
           /\ asset = 0 => new.asset = row.asset /\ new.noted = TRUE
           /\ asset # 0 => new.asset = asset
           /\ Numbered(Updated(row.id, asset)) /\ Updated(row.id, asset) \subseteq CandidateRows
  <1> DEFINE new == Tells(row, asset)
  <1>1. row \in CandidateRows /\ \A q \in candidates : q.id = row.id => q = row
    BY DEF AssetShapes, Numbered
  <1>2. /\ new \in CandidateRows /\ new.id = row.id /\ new.of = row.of
        /\ asset = 0 => new.asset = row.asset /\ new.noted = TRUE
        /\ asset # 0 => new.asset = asset
    BY <1>1 DEF Tells, CandidateRows
  <1>3. Updated(row.id, asset) = (candidates \ {row}) \cup {new}
    <2> HIDE DEF new
    <2>1. ASSUME NEW q \in candidates
          PROVE  (IF q.id = row.id THEN Tells(q, asset) ELSE q) = IF q = row THEN new ELSE q
      BY <1>1 DEF new
    <2>2. Updated(row.id, asset) = {IF q = row THEN new ELSE q : q \in candidates}
      BY <2>1 DEF Updated
    <2> QED
      BY <2>2
  <1> HIDE DEF new
  <1>4. Numbered((candidates \ {row}) \cup {new})
    BY <1>2, NumberedReplaces DEF AssetShapes
  <1>5. Updated(row.id, asset) \subseteq CandidateRows
    BY <1>2, <1>3 DEF AssetShapes
  <1> QED
    BY <1>2, <1>3, <1>4, <1>5 DEF new

LEMMA NotesUnresolvedFacts ==
    ASSUME AssetShapes, SearchesHold, NEW w \in Worker, NotesUnresolved(w)
    PROVE  LET t == search[w] IN
           /\ t.step = "recorded"
           /\ \E row \in candidates :
                 /\ row.id = t.candidate /\ row.of = t.of /\ row.asset = 0
                 /\ candidates' = (candidates \ {row}) \cup {Tells(row, 0)}
                 /\ Tells(row, 0) \in CandidateRows /\ Tells(row, 0).id = row.id
                 /\ Tells(row, 0).of = row.of /\ Tells(row, 0).asset = 0 /\ Tells(row, 0).noted = TRUE
                 /\ Numbered(candidates') /\ candidates' \subseteq CandidateRows
           /\ \/ Turned(w, NoSearch)
              \/ \E s \in SearchRows :
                    /\ Turned(w, s) /\ s.step = "proposed" /\ s.of = t.of
                    /\ s.next \in 1..Len(s.proposals) /\ s.candidate = 0
  <1> DEFINE t == search[w]
  <1>1. t.step = "recorded" /\ candidates' = Updated(t.candidate, 0) /\ NextProposal(w)
    BY DEF NotesUnresolved
  <1>2. PICK row \in candidates : row.id = t.candidate /\ row.of = t.of /\ row.asset = 0
    BY <1>1 DEF SearchesHold, SearchHolds, SearchHoldsIn
  <1>3. /\ candidates' = (candidates \ {row}) \cup {Tells(row, 0)}
        /\ Tells(row, 0) \in CandidateRows /\ Tells(row, 0).id = row.id
        /\ Tells(row, 0).of = row.of /\ Tells(row, 0).asset = 0 /\ Tells(row, 0).noted = TRUE
        /\ Numbered(candidates') /\ candidates' \subseteq CandidateRows
    <2> DEFINE new == Tells(row, 0)
               rows == Updated(row.id, 0)
    <2>1. /\ rows = (candidates \ {row}) \cup {new}
          /\ new \in CandidateRows /\ new.id = row.id /\ new.of = row.of
          /\ new.asset = 0 /\ new.noted = TRUE
          /\ Numbered(rows) /\ rows \subseteq CandidateRows
      <3>1. 0 \in Nat
        OBVIOUS
      <3> HIDE DEF new, rows
      <3> QED
        BY <1>2, <3>1, UpdatedFacts DEF new, rows
    <2> HIDE DEF new, rows
    <2>2. candidates' = rows
      BY <1>1, <1>2 DEF rows
    <2> QED
      BY <2>1, <2>2 DEF new
  <1>4. \/ Turned(w, NoSearch)
        \/ \E s \in SearchRows :
              /\ Turned(w, s) /\ s.step = "proposed" /\ s.of = t.of
              /\ s.next \in 1..Len(s.proposals) /\ s.candidate = 0
    BY <1>1, NextProposalFacts DEF AtOffer
  <1> QED
    BY <1>1, <1>2, <1>3, <1>4

LEMMA LinksCandidateFacts ==
    ASSUME AssetShapes, SearchesHold, NEW w \in Worker, LinksCandidate(w)
    PROVE  LET t == search[w] IN
           /\ t.step = "found" /\ t.asset \in Ids(assets) /\ t.asset # 0
           /\ \E row \in candidates :
                 /\ row.id = t.candidate /\ row.of = t.of /\ row.asset = 0
                 /\ candidates' = (candidates \ {row}) \cup {Tells(row, t.asset)}
                 /\ Tells(row, t.asset) \in CandidateRows /\ Tells(row, t.asset).id = row.id
                 /\ Tells(row, t.asset).of = row.of /\ Tells(row, t.asset).asset = t.asset
                 /\ Numbered(candidates') /\ candidates' \subseteq CandidateRows
           /\ \E s \in SearchRows :
                 /\ Turned(w, s) /\ s.step = "linked" /\ SameOffers(s, t)
                 /\ s.candidate = t.candidate /\ s.asset = t.asset
  <1> DEFINE t == search[w]
             s == [t EXCEPT !.step = "linked"]
  <1>1. /\ t \in SearchRows /\ t.step = "found" /\ t.asset \in Ids(assets) /\ Turns(w, s)
        /\ candidates' = Updated(t.candidate, t.asset)
    BY DEF LinksCandidate, AssetShapes, SearchesHold, SearchHolds, SearchHoldsIn
  <1>2. t.asset \in Nat \ {0}
    BY <1>1, NumberedIds DEF Ids, AssetShapes
  <1>3. PICK row \in candidates : row.id = t.candidate /\ row.of = t.of /\ row.asset = 0
    BY <1>1 DEF SearchesHold, SearchHolds, SearchHoldsIn
  <1>4. /\ candidates' = (candidates \ {row}) \cup {Tells(row, t.asset)}
        /\ Tells(row, t.asset) \in CandidateRows /\ Tells(row, t.asset).id = row.id
        /\ Tells(row, t.asset).of = row.of /\ Tells(row, t.asset).asset = t.asset
        /\ Numbered(candidates') /\ candidates' \subseteq CandidateRows
    <2> DEFINE new == Tells(row, t.asset)
               rows == Updated(row.id, t.asset)
    <2>1. /\ rows = (candidates \ {row}) \cup {new}
          /\ new \in CandidateRows /\ new.id = row.id /\ new.of = row.of
          /\ new.asset = t.asset
          /\ Numbered(rows) /\ rows \subseteq CandidateRows
      <3>1. t.asset \in Nat
        BY <1>2
      <3> HIDE DEF new, rows
      <3> QED
        BY <1>2, <1>3, <3>1, UpdatedFacts DEF new, rows
    <2> HIDE DEF new, rows
    <2>2. candidates' = rows
      BY <1>1, <1>3 DEF rows
    <2> QED
      BY <2>1, <2>2 DEF new
  <1>5. /\ s \in SearchRows /\ s.step = "linked" /\ SameOffers(s, t)
        /\ s.candidate = t.candidate /\ s.asset = t.asset
    BY <1>1 DEF SearchRows, SearchSteps, SameOffers
  <1>6. Turned(w, s)
    BY <1>1, <1>5, TurnsFacts
  <1> QED
    BY <1>1, <1>2, <1>3, <1>4, <1>5, <1>6

LEMMA ExpressesFacts ==
    ASSUME AssetShapes, SearchesHold, NEW w \in Worker, Expresses(w)
    PROVE  LET t == search[w]
               edge == <<t.of, t.asset>>
           IN  /\ t.step = "linked" /\ expressed' = expressed \cup {edge}
               /\ \/ /\ material' = material \cup {edge}
                     /\ \E s \in SearchRows :
                           /\ Turned(w, s) /\ s.step = "estimating" /\ SameOffers(s, t)
                           /\ s.candidate = t.candidate /\ s.asset = t.asset
                  \/ material' = material /\ Turned(w, NoSearch)
                  \/ /\ material' = material
                     /\ \E s \in SearchRows :
                           /\ Turned(w, s) /\ s.step = "proposed" /\ s.of = t.of
                           /\ s.next \in 1..Len(s.proposals) /\ s.candidate = 0
  <1> DEFINE t == search[w]
             edge == <<t.of, t.asset>>
  <1>1. t \in SearchRows /\ t.step = "linked" /\ expressed' = expressed \cup {edge}
    BY DEF Expresses, AssetShapes, Expression
  <1>2. CASE Proposal(w).material
    <2> DEFINE s == [t EXCEPT !.step = "estimating"]
    <2>1. Turns(w, s) /\ material' = material \cup {edge}
      BY <1>2 DEF Expresses
    <2>2. /\ s \in SearchRows /\ s.step = "estimating" /\ SameOffers(s, t)
          /\ s.candidate = t.candidate /\ s.asset = t.asset
      BY <1>1 DEF SearchRows, SearchSteps, SameOffers
    <2>3. Turned(w, s)
      BY <2>1, <2>2, TurnsFacts
    <2> QED
      BY <1>1, <2>1, <2>2, <2>3
  <1>3. CASE ~Proposal(w).material
    <2>1. NextProposal(w) /\ material' = material
      BY <1>3 DEF Expresses
    <2>2. \/ Turned(w, NoSearch)
          \/ \E s \in SearchRows :
                /\ Turned(w, s) /\ s.step = "proposed" /\ s.of = t.of
                /\ s.next \in 1..Len(s.proposals) /\ s.candidate = 0
      BY <1>1, <2>1, NextProposalFacts DEF AtOffer
    <2> QED
      BY <1>1, <2>1, <2>2
  <1> QED
    BY <1>2, <1>3

-----------------------------------------------------------------------------
(* The invariant of the asset layer is kept, part by part.                  *)

AssetBase == CapInv /\ AssetShapes /\ SearchesHold /\ OneHand

\* Who takes a pass to its next proposal has one.
LEMMA GoesOnFacts ==
    ASSUME AssetBase, NEW w \in Worker, Estimates(w) \/ Declines(w)
    PROVE  /\ search[w].step = "estimating"
           /\ \/ Turned(w, NoSearch)
              \/ \E s \in SearchRows :
                    /\ Turned(w, s) /\ s.step = "proposed" /\ s.of = search[w].of
                    /\ s.next \in 1..Len(s.proposals) /\ s.candidate = 0
  <1>1. search[w].step = "estimating" /\ NextProposal(w)
    BY DEF Estimates, Declines
  <1>2. search[w].step \in AtOffer
    BY <1>1 DEF AtOffer
  <1> QED
    BY <1>1, <1>2, NextProposalFacts DEF AssetBase

LEMMA SearchEndsFacts ==
    ASSUME AssetBase, NEW w \in Worker, SearchEnds(w)
    PROVE  search[w].step # "idle" /\ Turned(w, NoSearch)
  BY DoneFacts DEF SearchEnds, AssetBase

LEMMA SearcherFacts ==
    ASSUME AssetBase, AssetAssumption, NEW w \in Worker, AssetStep(w)
    PROVE  /\ \E s \in SearchRows : Turned(w, s)
           /\ search[w].step # "idle" \/ \E c \in capabilities : Searches(w, c.id)
  <1> USE DEF AssetBase
  <1>1. CASE \E c \in capabilities : Searches(w, c.id)
    BY <1>1, SearchesFacts
  <1>2. CASE Discovers(w)
    <2>1. \E s \in SearchRows : Turned(w, s)
      BY <1>2, DiscoversFacts, NoSearchFacts
    <2> QED
      BY <1>2, <2>1, DiscoversFacts
  <1>3. CASE RecordsCandidate(w)
    BY <1>3, RecordsCandidateFacts
  <1>4. CASE LooksForAsset(w)
    BY <1>4, LooksForAssetFacts
  <1>5. CASE CreatesAsset(w)
    BY <1>5, CreatesAssetFacts
  <1>6. CASE NotesUnresolved(w)
    <2>1. \E s \in SearchRows : Turned(w, s)
      BY <1>6, NotesUnresolvedFacts, NoSearchFacts
    <2> QED
      BY <1>6, <2>1, NotesUnresolvedFacts
  <1>7. CASE LinksCandidate(w)
    BY <1>7, LinksCandidateFacts
  <1>8. CASE Expresses(w)
    <2>1. \E s \in SearchRows : Turned(w, s)
      BY <1>8, ExpressesFacts, NoSearchFacts
    <2> QED
      BY <1>8, <2>1, ExpressesFacts
  <1>9. CASE Estimates(w) \/ Declines(w)
    <2>1. \E s \in SearchRows : Turned(w, s)
      BY <1>9, GoesOnFacts, NoSearchFacts
    <2> QED
      BY <1>9, <2>1, GoesOnFacts
  <1>10. CASE SearchEnds(w)
    BY <1>10, SearchEndsFacts, NoSearchFacts
  <1> QED
    BY <1>1, <1>2, <1>3, <1>4, <1>5, <1>6, <1>7, <1>8, <1>9, <1>10 DEF AssetStep

\* What a step may change of the tables and edges.
LEMMA WhoRecords ==
    ASSUME NEW w \in Worker, AssetStep(w)
    PROVE  /\ capVars' = capVars
           /\ candidates' = candidates \/ RecordsCandidate(w) \/ NotesUnresolved(w) \/ LinksCandidate(w)
           /\ assets' = assets \/ CreatesAsset(w)
           /\ expressed' = expressed \/ Expresses(w)
           /\ material' = material \/ Expresses(w)
           /\ exposures' = exposures \/ Estimates(w)
           /\ declined' = declined \/ Declines(w)
           /\ lost' = lost \/ (SearchEnds(w) /\ lost' = lost + 1)
           /\ lateSearch' = lateSearch \/ lateSearch' = lateSearch + 1
           /\ searches' = searches \/ searches' = searches + 1
  BY DEF AssetStep, Searches, Discovers, RecordsCandidate, LooksForAsset, CreatesAsset, NotesUnresolved,
         LinksCandidate, Expresses, Estimates, Declines, SearchEnds

\* Other rows than the one in hand stay, and rows are still rows.
LEMMA RowsStay ==
    ASSUME AssetBase, NEW w \in Worker, AssetStep(w)
    PROVE  /\ \A row \in candidates : row.id = search[w].candidate \/ row \in candidates'
           /\ Numbered(candidates') /\ candidates' \subseteq CandidateRows
  <1> USE DEF AssetBase
  <1>1. ASSUME candidates' = candidates
        PROVE  /\ \A row \in candidates : row.id = search[w].candidate \/ row \in candidates'
               /\ Numbered(candidates') /\ candidates' \subseteq CandidateRows
    BY <1>1 DEF AssetShapes
  <1>2. ASSUME RecordsCandidate(w)
        PROVE  /\ \A row \in candidates : row.id = search[w].candidate \/ row \in candidates'
               /\ Numbered(candidates') /\ candidates' \subseteq CandidateRows
    <2> DEFINE row == Candidate(Fresh(candidates), search[w].of)
    <2>1. /\ row \in CandidateRows /\ row.id = Fresh(candidates)
          /\ candidates' = candidates \cup {row}
      BY <1>2, RecordsCandidateFacts
    <2> HIDE DEF row
    <2>2. Numbered(candidates \cup {row})
      BY <2>1, NumberedAdds DEF AssetShapes
    <2> QED
      BY <2>1, <2>2 DEF AssetShapes
  <1>3. ASSUME NotesUnresolved(w)
        PROVE  /\ \A row \in candidates : row.id = search[w].candidate \/ row \in candidates'
               /\ Numbered(candidates') /\ candidates' \subseteq CandidateRows
    <2>1. PICK row \in candidates :
              /\ row.id = search[w].candidate
              /\ candidates' = (candidates \ {row}) \cup {Tells(row, 0)}
              /\ Numbered(candidates') /\ candidates' \subseteq CandidateRows
      BY <1>3, NotesUnresolvedFacts
    <2> QED
      BY <2>1
  <1>4. ASSUME LinksCandidate(w)
        PROVE  /\ \A row \in candidates : row.id = search[w].candidate \/ row \in candidates'
               /\ Numbered(candidates') /\ candidates' \subseteq CandidateRows
    <2>1. PICK row \in candidates :
              /\ row.id = search[w].candidate
              /\ candidates' = (candidates \ {row}) \cup {Tells(row, search[w].asset)}
              /\ Numbered(candidates') /\ candidates' \subseteq CandidateRows
      BY <1>4, LinksCandidateFacts
    <2> QED
      BY <2>1
  <1> QED
    BY <1>1, <1>2, <1>3, <1>4, WhoRecords

LEMMA AssetsStay ==
    ASSUME AssetBase, NEW w \in Worker, AssetStep(w)
    PROVE  /\ assets \subseteq assets' /\ Numbered(assets') /\ \A a \in assets' : a.key \in OfferKeys
           /\ Ids(assets) \subseteq Ids(assets') /\ expressed \subseteq expressed'
  <1> USE DEF AssetBase
  <1>1. ASSUME CreatesAsset(w)
        PROVE  assets \subseteq assets' /\ Numbered(assets') /\ \A a \in assets' : a.key \in OfferKeys
    <2> DEFINE row == AssetRow(Fresh(assets), search[w].key, Proposal(w))
    <2>1. /\ row.id = Fresh(assets) /\ row.key = search[w].key /\ search[w].key \in OfferKeys
          /\ assets' = assets \cup {row}
      BY <1>1, CreatesAssetFacts
    <2> HIDE DEF row
    <2>2. Numbered(assets \cup {row})
      BY <2>1, NumberedAdds DEF AssetShapes
    <2> QED
      BY <2>1, <2>2 DEF AssetShapes
  <1>2. assets \subseteq assets' /\ Numbered(assets') /\ \A a \in assets' : a.key \in OfferKeys
    BY <1>1, WhoRecords DEF AssetShapes
  <1>3. expressed \subseteq expressed'
    BY WhoRecords, ExpressesFacts
  <1> QED
    BY <1>2, <1>3 DEF Ids

LEMMA AssetShapesStep ==
    ASSUME AssetBase, AssetAssumption, NEW w \in Worker, AssetStep(w)
    PROVE  AssetShapes'
  <1> USE DEF AssetBase
  <1>1. search' \in [Worker -> SearchRows]
    BY SearcherFacts DEF Turned
  <1>2. Numbered(candidates)' /\ candidates' \subseteq CandidateRows
    BY RowsStay DEF Numbered
  <1>3. Numbered(assets)' /\ \A a \in assets' : a.key \in OfferKeys
    BY AssetsStay DEF Numbered
  <1>4. searches' \in Nat /\ lateSearch' \in Nat /\ lost' \in Nat
    BY WhoRecords DEF AssetShapes
  <1>5. /\ IsFiniteSet(material') /\ material' \subseteq expressed'
        /\ expressed' \subseteq Ids(capabilities) \X Ids(assets')
    <2>1. CASE Expresses(w)
      <3> DEFINE edge == <<search[w].of, search[w].asset>>
      <3>1. /\ search[w].step = "linked" /\ expressed' = expressed \cup {edge}
            /\ material' = material \/ material' = material \cup {edge}
        BY <2>1, ExpressesFacts
      <3>2. search[w].of \in Ids(capabilities) /\ search[w].asset \in Ids(assets)
        BY <3>1 DEF SearchesHold, SearchHolds, SearchHoldsIn
      <3>3. edge \in Ids(capabilities) \X Ids(assets')
        BY <3>2, AssetsStay
      <3> HIDE DEF edge
      <3>4. IsFiniteSet(material \cup {edge})
        BY FS_AddElement DEF AssetShapes
      <3>5. expressed \subseteq Ids(capabilities) \X Ids(assets')
        BY AssetsStay DEF AssetShapes
      <3> QED
        BY <3>1, <3>3, <3>4, <3>5 DEF AssetShapes
    <2>2. CASE ~Expresses(w)
      <3>1. material' = material /\ expressed' = expressed
        BY <2>2, WhoRecords
      <3> QED
        BY <3>1, AssetsStay DEF AssetShapes
    <2> QED
      BY <2>1, <2>2
  <1>6. exposures' \subseteq expressed'
    <2>1. ASSUME Estimates(w) PROVE exposures' \subseteq expressed'
      <3>1. /\ search[w].step = "estimating"
            /\ exposures' = exposures \cup {<<search[w].of, search[w].asset>>}
        BY <2>1 DEF Estimates
      <3>2. <<search[w].of, search[w].asset>> \in expressed
        BY <3>1 DEF SearchesHold, SearchHolds, SearchHoldsIn
      <3> QED
        BY <3>1, <3>2, AssetsStay DEF AssetShapes
    <2> QED
      BY <2>1, WhoRecords, AssetsStay DEF AssetShapes
  <1>7. Ids(assets)' = Ids(assets') /\ Ids(capabilities)' = Ids(capabilities)
    BY WhoRecords DEF Ids, capVars, nodeVars
  <1> QED
    BY <1>1, <1>2, <1>3, <1>4, <1>5, <1>6, <1>7 DEF AssetShapes

\* What a search holds is not taken from it by another one.
LEMMA SearchHoldsOn ==
    ASSUME NEW s, SearchHolds(s), Ids(capabilities) \subseteq Ids(capabilities'),
           Ids(assets) \subseteq Ids(assets'), expressed \subseteq expressed',
           s.candidate # 0 => \A row \in candidates : row.id = s.candidate => row \in candidates',
           \A row \in candidates : row.id # 0
    PROVE  SearchHolds(s)'
  <1>1. s.step \in {"recorded", "absent", "found"} =>
          \E row \in candidates' : row.id = s.candidate /\ row.of = s.of /\ row.asset = 0
    BY DEF SearchHolds, SearchHoldsIn
  <1>2. s.step \in Come =>
          \E row \in candidates' : row.id = s.candidate /\ row.of = s.of /\ row.asset = s.asset
    BY DEF SearchHolds, SearchHoldsIn, Come
  <1>3. Ids(capabilities)' = Ids(capabilities') /\ Ids(assets)' = Ids(assets')
    BY DEF Ids
  <1> QED
    BY <1>1, <1>2, <1>3 DEF SearchHolds, SearchHoldsIn

LEMMA SearchHoldsGoesOn ==
    ASSUME AssetBase, AssetAssumption, NEW w \in Worker, AssetStep(w), NEW s, s = search'[w]
    PROVE  SearchHolds(s)'
  <1> USE DEF AssetBase
  <1> DEFINE t == search[w]
  <1>0. /\ SearchHolds(t) /\ t \in SearchRows /\ Ids(capabilities)' = Ids(capabilities)
        /\ Ids(assets)' = Ids(assets') /\ Ids(assets) \subseteq Ids(assets')
        /\ expressed \subseteq expressed'
    BY WhoRecords, AssetsStay DEF SearchesHold, AssetShapes, Ids, capVars, nodeVars
  <1>o. t.step # "idle" => t.of \in Ids(capabilities)
    BY <1>0 DEF SearchHolds, SearchHoldsIn
  <1>n. ASSUME Turned(w, NoSearch) PROVE SearchHolds(s)'
    <2>1. s = NoSearch
      BY <1>n DEF Turned
    <2> QED
      BY <2>1, NoSearchFacts DEF SearchHolds, SearchHoldsIn, AtOffer, Come
  <1>p. ASSUME NEW q \in SearchRows, Turned(w, q), q.step = "proposed", q.of \in Ids(capabilities),
               q.next \in 1..Len(q.proposals), q.candidate = 0
        PROVE  SearchHolds(s)'
    <2>1. s = q
      BY <1>p DEF Turned
    <2> QED
      BY <1>0, <1>p, <2>1 DEF SearchHolds, SearchHoldsIn, AtOffer, Come
  <1>1. CASE \E c \in capabilities : Searches(w, c.id)
    <2>1. PICK c \in capabilities : s.step = "asked" /\ s.of = c.id /\ s.candidate = 0
      BY <1>1, SearchesFacts DEF Turned
    <2>2. c.id \in Ids(capabilities)
      BY DEF Ids
    <2> QED
      BY <1>0, <2>1, <2>2 DEF SearchHolds, SearchHoldsIn, AtOffer, Come
  <1>2. CASE Discovers(w)
    BY <1>2, <1>o, <1>n, <1>p, DiscoversFacts
  <1>3. CASE RecordsCandidate(w)
    <2> DEFINE row == Candidate(Fresh(candidates), t.of)
    <2>1. /\ t.step = "proposed" /\ row.of = t.of /\ row.asset = 0 /\ row \in candidates'
          /\ s.step = "recorded" /\ SameOffers(s, t) /\ s.candidate = row.id /\ s.key \in OfferKeys
      BY <1>3, RecordsCandidateFacts DEF Turned
    <2> HIDE DEF row
    <2>2. s.next \in 1..Len(s.proposals)
      BY <1>0, <2>1 DEF SearchHolds, SearchHoldsIn, AtOffer, SameOffers
    <2> QED
      BY <1>0, <1>o, <2>1, <2>2 DEF SearchHolds, SearchHoldsIn, AtOffer, Come, SameOffers
  <1>4. CASE LooksForAsset(w)
    <2>1. t.step = "recorded" /\ t.key \in OfferKeys /\ candidates' = candidates
      BY <1>4, LooksForAssetFacts DEF LooksForAsset
    <2>2. PICK row \in candidates : row.id = t.candidate /\ row.of = t.of /\ row.asset = 0
      BY <1>0, <2>1 DEF SearchHolds, SearchHoldsIn
    <2>3. t.next \in 1..Len(t.proposals)
      BY <1>0, <2>1 DEF SearchHolds, SearchHoldsIn, AtOffer
    <2>4. CASE s.step = "absent"
      <3>1. SameOffers(s, t) /\ s.candidate = t.candidate /\ s.key = t.key /\ t.key[1] # "name"
        BY <1>4, <2>4, LooksForAssetFacts DEF Turned
      <3> QED
        BY <1>0, <1>o, <2>1, <2>2, <2>3, <2>4, <3>1 DEF SearchHolds, SearchHoldsIn, AtOffer, Come, SameOffers
    <2>5. CASE s.step # "absent"
      <3>1. s.step = "found" /\ SameOffers(s, t) /\ s.candidate = t.candidate /\ s.asset \in Ids(assets)
        BY <1>4, <2>5, LooksForAssetFacts DEF Turned
      <3> QED
        BY <1>0, <1>o, <2>1, <2>2, <2>3, <3>1 DEF SearchHolds, SearchHoldsIn, AtOffer, Come, SameOffers
    <2> QED
      BY <2>4, <2>5
  <1>5. CASE CreatesAsset(w)
    <2> DEFINE new == AssetRow(Fresh(assets), t.key, Proposal(w))
    <2>1. /\ t.step = "absent" /\ new \in assets' /\ candidates' = candidates
          /\ s.step = "found" /\ SameOffers(s, t) /\ s.candidate = t.candidate /\ s.asset = new.id
      BY <1>5, CreatesAssetFacts DEF Turned, CreatesAsset
    <2> HIDE DEF new
    <2>2. PICK row \in candidates : row.id = t.candidate /\ row.of = t.of /\ row.asset = 0
      BY <1>0, <2>1 DEF SearchHolds, SearchHoldsIn
    <2>3. t.next \in 1..Len(t.proposals)
      BY <1>0, <2>1 DEF SearchHolds, SearchHoldsIn, AtOffer
    <2>4. s.asset \in Ids(assets')
      BY <2>1 DEF Ids
    <2> QED
      BY <1>0, <1>o, <2>1, <2>2, <2>3, <2>4 DEF SearchHolds, SearchHoldsIn, AtOffer, Come, SameOffers
  <1>6. CASE NotesUnresolved(w)
    <2>1. /\ t.step = "recorded"
          /\ \/ Turned(w, NoSearch)
             \/ \E q \in SearchRows :
                   /\ Turned(w, q) /\ q.step = "proposed" /\ q.of = t.of
                   /\ q.next \in 1..Len(q.proposals) /\ q.candidate = 0
      BY <1>6, NotesUnresolvedFacts
    <2> QED
      BY <1>o, <1>n, <1>p, <2>1
  <1>7. CASE LinksCandidate(w)
    <2>1. PICK row \in candidates :
              row.id = t.candidate /\ row.of = t.of
              /\ candidates' = (candidates \ {row}) \cup {Tells(row, t.asset)}
              /\ Tells(row, t.asset).id = row.id
              /\ Tells(row, t.asset).of = row.of /\ Tells(row, t.asset).asset = t.asset
      BY <1>7, LinksCandidateFacts
    <2>2. /\ t.step = "found" /\ t.asset \in Ids(assets) /\ s.step = "linked" /\ SameOffers(s, t)
          /\ s.candidate = t.candidate /\ s.asset = t.asset
      BY <1>7, LinksCandidateFacts DEF Turned
    <2>3. t.next \in 1..Len(t.proposals)
      BY <1>0, <2>2 DEF SearchHolds, SearchHoldsIn, AtOffer
    <2>4. \E q \in candidates' : q.id = s.candidate /\ q.of = s.of /\ q.asset = s.asset
      BY <2>1, <2>2 DEF SameOffers
    <2> QED
      BY <1>0, <1>o, <2>2, <2>3, <2>4 DEF SearchHolds, SearchHoldsIn, AtOffer, Come, SameOffers
  <1>8. CASE Expresses(w)
    <2>1. /\ t.step = "linked" /\ expressed' = expressed \cup {<<t.of, t.asset>>}
          /\ \/ s.step = "estimating" /\ SameOffers(s, t) /\ s.candidate = t.candidate /\ s.asset = t.asset
             \/ Turned(w, NoSearch)
             \/ \E q \in SearchRows :
                   /\ Turned(w, q) /\ q.step = "proposed" /\ q.of = t.of
                   /\ q.next \in 1..Len(q.proposals) /\ q.candidate = 0
      BY <1>8, ExpressesFacts DEF Turned
    <2>2. CASE s.step = "estimating" /\ SameOffers(s, t) /\ s.candidate = t.candidate /\ s.asset = t.asset
      <3>1. PICK row \in candidates : row.id = t.candidate /\ row.of = t.of /\ row.asset = t.asset
        BY <1>0, <2>1 DEF SearchHolds, SearchHoldsIn, Come
      <3>2. t.next \in 1..Len(t.proposals) /\ t.asset \in Ids(assets) /\ candidates' = candidates
        BY <1>0, <1>8, <2>1 DEF SearchHolds, SearchHoldsIn, AtOffer, Expresses
      <3> QED
        BY <1>0, <1>o, <2>1, <2>2, <3>1, <3>2 DEF SearchHolds, SearchHoldsIn, AtOffer, Come, SameOffers
    <2> QED
      BY <1>o, <1>n, <1>p, <2>1, <2>2
  <1>9. CASE Estimates(w) \/ Declines(w)
    BY <1>9, <1>o, <1>n, <1>p, GoesOnFacts
  <1>10. CASE SearchEnds(w)
    BY <1>10, <1>n, SearchEndsFacts
  <1> QED
    BY <1>1, <1>2, <1>3, <1>4, <1>5, <1>6, <1>7, <1>8, <1>9, <1>10 DEF AssetStep

LEMMA HandFacts ==
    ASSUME AssetBase, NEW w \in Worker, NEW v \in Worker \ {w}
    PROVE  /\ search[v].candidate # 0 => search[v].candidate # search[w].candidate
           /\ \A row \in candidates : row.id # 0
  BY NumberedIds DEF AssetBase, OneHand, AssetShapes

LEMMA SearchesHoldStep ==
    ASSUME AssetBase, AssetAssumption, NEW w \in Worker, AssetStep(w)
    PROVE  SearchesHold'
  <1>1. \A v \in Worker \ {w} : search'[v] = search[v]
    BY SearcherFacts DEF Turned
  <1>2. ASSUME NEW v \in Worker PROVE SearchHolds(search[v])'
    <2>1. PICK s : s = search'[v]
      OBVIOUS
    <2>2. CASE v = w
      <3>1. SearchHolds(s)'
        BY <2>1, <2>2, SearchHoldsGoesOn
      <3> QED
        BY <2>1, <3>1 DEF SearchHolds
    <2>3. CASE v # w
      <3>1. SearchHolds(s) /\ s = search[v]
        BY <1>1, <2>1, <2>3 DEF AssetBase, SearchesHold
      <3>2. /\ s.candidate # 0 => \A row \in candidates : row.id = s.candidate => row \in candidates'
            /\ \A row \in candidates : row.id # 0
        BY <2>3, <3>1, HandFacts, RowsStay
      <3>3. Ids(capabilities) \subseteq Ids(capabilities')
        BY WhoRecords DEF capVars, nodeVars, Ids
      <3>4. SearchHolds(s)'
        BY <3>1, <3>2, <3>3, AssetsStay, SearchHoldsOn
      <3> QED
        BY <2>1, <3>4 DEF SearchHolds
    <2> QED
      BY <2>2, <2>3
  <1> QED
    BY <1>2 DEF SearchesHold

LEMMA AssetBaseFacts ==
    ASSUME AssetBase, AssetAssumption, NEW w \in Worker, AssetStep(w)
    PROVE  /\ \A v \in Worker \ {w} : search'[v] = search[v]
           /\ lateSearch \in Nat /\ lateSearch' \in Nat /\ lateSearch <= lateSearch'
           /\ lost \in Nat /\ lost' \in Nat /\ lost <= lost'
  <1>1. lateSearch \in Nat /\ lost \in Nat
    BY DEF AssetBase, AssetShapes
  <1>2. lateSearch' = lateSearch \/ lateSearch' = lateSearch + 1
    BY WhoRecords
  <1>3. lost' = lost \/ lost' = lost + 1
    BY WhoRecords
  <1> QED
    BY <1>1, <1>2, <1>3, SearcherFacts DEF Turned

\* A hand takes a new row, keeps the one it has, or lets it go.
LEMMA HandMoves ==
    ASSUME AssetBase, AssetAssumption, NEW w \in Worker, AssetStep(w)
    PROVE  \/ search'[w].candidate = search[w].candidate
           \/ search'[w].candidate = 0
           \/ /\ RecordsCandidate(w) /\ search[w].candidate = 0
              /\ search'[w].candidate = Fresh(candidates)
  <1> USE DEF AssetBase
  <1>1. CASE \E c \in capabilities : Searches(w, c.id)
    BY <1>1, SearchesFacts DEF Turned
  <1>2. CASE Discovers(w)
    BY <1>2, DiscoversFacts, NoSearchFacts DEF Turned
  <1>3. CASE RecordsCandidate(w)
    BY <1>3, RecordsCandidateFacts DEF Turned
  <1>4. CASE LooksForAsset(w)
    BY <1>4, LooksForAssetFacts DEF Turned
  <1>5. CASE CreatesAsset(w)
    BY <1>5, CreatesAssetFacts DEF Turned
  <1>6. CASE NotesUnresolved(w)
    BY <1>6, NotesUnresolvedFacts, NoSearchFacts DEF Turned
  <1>7. CASE LinksCandidate(w)
    BY <1>7, LinksCandidateFacts DEF Turned
  <1>8. CASE Expresses(w)
    BY <1>8, ExpressesFacts, NoSearchFacts DEF Turned
  <1>9. CASE Estimates(w) \/ Declines(w)
    BY <1>9, GoesOnFacts, NoSearchFacts DEF Turned
  <1>10. CASE SearchEnds(w)
    BY <1>10, SearchEndsFacts, NoSearchFacts DEF Turned
  <1> QED
    BY <1>1, <1>2, <1>3, <1>4, <1>5, <1>6, <1>7, <1>8, <1>9, <1>10 DEF AssetStep

\* What is in a hand is a row.
LEMMA HandNamesRow ==
    ASSUME AssetBase, NEW v \in Worker, search[v].candidate # 0
    PROVE  \E row \in candidates : row.id = search[v].candidate
  <1>1. SearchHolds(search[v]) /\ search[v].step \in SearchSteps
    BY DEF AssetBase, AssetShapes, SearchesHold, SearchRows
  <1> QED
    BY <1>1 DEF SearchHolds, SearchHoldsIn, SearchSteps, Come

LEMMA OneHandStep ==
    ASSUME AssetBase, AssetAssumption, NEW w \in Worker, AssetStep(w)
    PROVE  OneHand'
  <1> DEFINE hand == search'[w].candidate
  <1>1. \A v \in Worker \ {w} : search'[v] = search[v]
    BY AssetBaseFacts
  <1>2. \A v \in Worker \ {w} : hand # 0 => search[v].candidate # hand
    <2> SUFFICES ASSUME NEW v \in Worker \ {w}, hand # 0, search[v].candidate = hand PROVE FALSE
      OBVIOUS
    <2>1. CASE hand = search[w].candidate
      BY <2>1 DEF AssetBase, OneHand
    <2>2. CASE hand = Fresh(candidates)
      <3>1. PICK row \in candidates : row.id = hand
        BY HandNamesRow
      <3>2. PICK new : new = Candidate(Fresh(candidates), 0)
        OBVIOUS
      <3>3. new.id = Fresh(candidates)
        BY <3>2 DEF Candidate
      <3>4. \A r \in candidates : r.id # new.id
        BY <3>3, NumberedAdds DEF AssetBase, AssetShapes
      <3> QED
        BY <2>2, <3>1, <3>3, <3>4
    <2> QED
      BY <2>1, <2>2, HandMoves
  <1> HIDE DEF hand
  <1>3. ASSUME NEW u \in Worker, NEW v \in Worker, u # v, search'[v].candidate # 0
        PROVE  search'[u].candidate # search'[v].candidate
    <2>1. CASE u = w
      BY <1>1, <1>2, <1>3, <2>1 DEF hand
    <2>2. CASE v = w
      BY <1>1, <1>2, <1>3, <2>2 DEF hand
    <2>3. CASE u # w /\ v # w
      BY <1>1, <1>3, <2>3 DEF AssetBase, OneHand
    <2> QED
      BY <2>1, <2>2, <2>3
  <1> QED
    BY <1>3 DEF OneHand

LEMMA FewSearchingStep ==
    ASSUME AssetBase, CapabilityAssumption, AssetAssumption, FewSearching, NEW w \in Worker, AssetStep(w)
    PROVE  FewSearching'
  <1> DEFINE Now == {v \in Worker : search'[v].step # "idle"}
  <1>0. /\ Searching' = Now /\ \A v \in Worker \ {w} : search'[v] = search[v]
        /\ lateSearch' \in Nat /\ lateSearch <= lateSearch' /\ lateSearch \in Nat
    BY AssetBaseFacts DEF Searching
  <1>1. CASE search[w].step # "idle"
    <2>1. Now \subseteq Searching
      BY <1>0, <1>1 DEF Searching
    <2>2. /\ Cardinality(Now) <= Cardinality(Searching) /\ Cardinality(Now) \in Nat
          /\ Cardinality(Searching) \in Nat
      BY <2>1, WorkersAreFew, Fewer DEF Searching
    <2> HIDE DEF Now
    <2> QED
      BY <1>0, <2>2 DEF FewSearching
  <1>2. CASE search[w].step = "idle"
    <2>1. PICK c \in capabilities : Searches(w, c.id)
      BY <1>2, SearcherFacts
    <2>2. Now \subseteq Searching \cup {w}
      BY <1>0 DEF Searching
    <2>3. /\ Cardinality(Now) <= Cardinality(Searching) + 1 /\ Cardinality(Now) \in Nat
          /\ Cardinality(Searching) \in Nat
      BY <2>2, WorkersAreFew, OneMore DEF Searching
    <2>4. CASE \E v \in Worker \ {w} : search[v].step # "idle"
      <3>1. lateSearch' = lateSearch + 1
        BY <2>1, <2>4 DEF Searches
      <3> HIDE DEF Now
      <3> QED
        BY <1>0, <2>3, <3>1 DEF FewSearching
    <2>5. CASE \A v \in Worker \ {w} : search[v].step = "idle"
      <3>1. Now \subseteq {w}
        BY <1>0, <2>5
      <3>2. IsFiniteSet({w}) /\ Cardinality({w}) = 1
        BY FS_Singleton
      <3>3. Cardinality(Now) <= 1
        BY <3>1, <3>2, Fewer
      <3> HIDE DEF Now
      <3> QED
        BY <1>0, <2>3, <3>3 DEF FewSearching
    <2> QED
      BY <2>4, <2>5
  <1> QED
    BY <1>1, <1>2

\* Which step leads to which stage.
LEMMA SearchStages ==
    ASSUME AssetBase, AssetAssumption, NEW w \in Worker, AssetStep(w)
    PROVE  search'[w].step = "absent" => LooksForAsset(w)
  <1> USE DEF AssetBase
  <1>1. CASE \E c \in capabilities : Searches(w, c.id)
    BY <1>1, SearchesFacts DEF Turned
  <1>2. CASE Discovers(w)
    BY <1>2, DiscoversFacts, NoSearchFacts DEF Turned
  <1>3. CASE RecordsCandidate(w)
    BY <1>3, RecordsCandidateFacts DEF Turned
  <1>5. CASE CreatesAsset(w)
    BY <1>5, CreatesAssetFacts DEF Turned
  <1>6. CASE NotesUnresolved(w)
    BY <1>6, NotesUnresolvedFacts, NoSearchFacts DEF Turned
  <1>7. CASE LinksCandidate(w)
    BY <1>7, LinksCandidateFacts DEF Turned
  <1>8. CASE Expresses(w)
    BY <1>8, ExpressesFacts, NoSearchFacts DEF Turned
  <1>9. CASE Estimates(w) \/ Declines(w)
    BY <1>9, GoesOnFacts, NoSearchFacts DEF Turned
  <1>10. CASE SearchEnds(w)
    BY <1>10, SearchEndsFacts, NoSearchFacts DEF Turned
  <1> QED
    BY <1>1, <1>2, <1>3, <1>5, <1>6, <1>7, <1>8, <1>9, <1>10 DEF AssetStep

LEMMA FewKeyedStep ==
    ASSUME AssetBase, CapabilityAssumption, AssetAssumption, FewSearching, FewKeyed,
           NEW w \in Worker, AssetStep(w)
    PROVE  FewKeyed'
  <1> SUFFICES ASSUME NEW key \in OfferKeys
               PROVE  Cardinality(Keyed(key))' + Cardinality(Creating(key))' <= 1 + lateSearch'
    BY DEF FewKeyed
  <1> DEFINE t == search[w]
             N == Keyed(key)
             M == Creating(key)
             N2 == {a \in assets' : a.key = key}
             M2 == {v \in Worker : search'[v].step = "absent" /\ search'[v].key = key}
  <1>1. /\ Cardinality(Keyed(key))' = Cardinality(N2)
        /\ Cardinality(Creating(key))' = Cardinality(M2)
    BY DEF Keyed, Creating
  <1>2. AssetShapes' /\ FewSearching'
    BY AssetShapesStep, FewSearchingStep
  <1>3. /\ IsFiniteSet(N) /\ Cardinality(N) \in Nat /\ IsFiniteSet(N2) /\ Cardinality(N2) \in Nat
        /\ IsFiniteSet(M) /\ Cardinality(M) \in Nat /\ IsFiniteSet(M2) /\ Cardinality(M2) \in Nat
    <2>1. IsFiniteSet(assets) /\ IsFiniteSet(assets')
      BY <1>2 DEF AssetBase, AssetShapes, Numbered
    <2>2. N \subseteq assets /\ N2 \subseteq assets'
      BY DEF Keyed
    <2>3. M \in SUBSET Worker /\ M2 \in SUBSET Worker
      BY DEF Creating
    <2> QED
      BY <2>1, <2>2, <2>3, Fewer, WorkersAreFew
  <1>4. /\ lateSearch \in Nat /\ lateSearch' \in Nat /\ lateSearch <= lateSearch'
        /\ Cardinality(N) + Cardinality(M) <= 1 + lateSearch
    BY AssetBaseFacts DEF FewKeyed
  <1>5. \A v \in Worker \ {w} : search'[v] = search[v]
    BY AssetBaseFacts
  <1>6. CASE w \in M2
    <2>1. LooksForAsset(w) /\ search'[w].step = "absent" /\ search'[w].key = key
      BY <1>6, SearchStages
    <2>2. Keyed(key) = {}
      BY <2>1, LooksForAssetFacts DEF AssetBase, Turned
    <2>3. N2 = {}
      BY <2>1, <2>2 DEF LooksForAsset, Keyed
    <2>4. M2 \subseteq Searching' /\ IsFiniteSet(Searching') /\ Cardinality(Searching') \in Nat
      <3>1. Searching' \in SUBSET Worker
        BY DEF Searching
      <3>2. M2 \subseteq Searching'
        BY DEF Searching
      <3> QED
        BY <3>1, <3>2, WorkersAreFew
    <2>5. Cardinality(M2) <= Cardinality(Searching') /\ Cardinality(N2) = 0
      BY <2>3, <2>4, Fewer, FS_EmptySet
    <2>6. Cardinality(Searching') <= 1 + lateSearch'
      BY <1>2 DEF FewSearching
    <2> HIDE DEF N2, M2
    <2> QED
      BY <1>1, <1>3, <1>4, <2>4, <2>5, <2>6
  <1>7. CASE w \notin M2
    <2>1. M2 \subseteq M \ {w}
      BY <1>5, <1>7 DEF Creating
    <2>2. Cardinality(M2) <= Cardinality(M)
      BY <1>3, <2>1, Fewer
    <2>3. CASE assets' = assets
      <3>1. N2 = N
        BY <2>3 DEF Keyed
      <3> HIDE DEF N2, M2, N, M
      <3> QED
        BY <1>1, <1>3, <1>4, <2>2, <3>1
    <2>4. CASE CreatesAsset(w)
      <3> DEFINE row == AssetRow(Fresh(assets), t.key, Proposal(w))
      <3>1. t.step = "absent" /\ row.key = t.key /\ assets' = assets \cup {row}
        BY <2>4, CreatesAssetFacts DEF AssetBase
      <3> HIDE DEF row
      <3>2. CASE t.key # key
        <4>1. N2 = N
          BY <3>1, <3>2 DEF Keyed
        <4> HIDE DEF N2, M2, N, M
        <4> QED
          BY <1>1, <1>3, <1>4, <2>2, <4>1
      <3>3. CASE t.key = key
        <4>1. w \in M /\ N2 \subseteq N \cup {row}
          BY <3>1, <3>3 DEF Creating, Keyed
        <4>2. Cardinality(N2) <= Cardinality(N) + 1 /\ Cardinality(M2) <= Cardinality(M) - 1
          BY <1>3, <2>1, <4>1, OneMore, OneLess
        <4> HIDE DEF N2, M2, N, M
        <4> QED
          BY <1>1, <1>3, <1>4, <4>2
      <3> QED
        BY <3>2, <3>3
    <2> QED
      BY <2>3, <2>4, WhoRecords
  <1> QED
    BY <1>6, <1>7

\* A candidate that has an Asset stays as it is, and a row is an old one, a new one or
\* the one in hand.
LEMMA RowsCome ==
    ASSUME AssetBase, NEW w \in Worker, AssetStep(w)
    PROVE  /\ \A row \in candidates : row.asset = 0 \/ row \in candidates'
           /\ \A row \in candidates' :
                 \/ row \in candidates
                 \/ row.id = search[w].candidate
                 \/ RecordsCandidate(w) /\ row.id = Fresh(candidates)
  <1> USE DEF AssetBase
  <1> DEFINE Good == /\ \A row \in candidates : row.asset = 0 \/ row \in candidates'
                     /\ \A row \in candidates' :
                           \/ row \in candidates
                           \/ row.id = search[w].candidate
                           \/ RecordsCandidate(w) /\ row.id = Fresh(candidates)
  <1>1. ASSUME candidates' = candidates PROVE Good
    BY <1>1
  <1>2. ASSUME RecordsCandidate(w) PROVE Good
    <2> DEFINE row == Candidate(Fresh(candidates), search[w].of)
    <2>1. row.id = Fresh(candidates) /\ candidates' = candidates \cup {row}
      BY <1>2, RecordsCandidateFacts
    <2> HIDE DEF row
    <2> QED
      BY <1>2, <2>1
  <1>3. ASSUME NotesUnresolved(w) PROVE Good
    <2>1. PICK row \in candidates :
              /\ row.id = search[w].candidate /\ row.asset = 0
              /\ candidates' = (candidates \ {row}) \cup {Tells(row, 0)}
              /\ Tells(row, 0).id = row.id
      BY <1>3, NotesUnresolvedFacts
    <2> QED
      BY <2>1
  <1>4. ASSUME LinksCandidate(w) PROVE Good
    <2>1. PICK row \in candidates :
              /\ row.id = search[w].candidate /\ row.asset = 0
              /\ candidates' = (candidates \ {row}) \cup {Tells(row, search[w].asset)}
              /\ Tells(row, search[w].asset).id = row.id
      BY <1>4, LinksCandidateFacts
    <2> QED
      BY <2>1
  <1> QED
    BY <1>1, <1>2, <1>3, <1>4, WhoRecords

LEMMA ExpressedWasCandidateStep ==
    ASSUME AssetBase, ExpressedWasCandidate, NEW w \in Worker, AssetStep(w)
    PROVE  ExpressedWasCandidate'
  <1> USE DEF AssetBase
  <1>1. ASSUME NEW edge \in expressed
        PROVE  \E row \in candidates' : row.of = edge[1] /\ row.asset = edge[2]
    <2>1. PICK row \in candidates : row.of = edge[1] /\ row.asset = edge[2]
      BY DEF ExpressedWasCandidate
    <2>2. edge[2] # 0
      BY NumberedIds DEF AssetShapes, Ids
    <2> QED
      BY <2>1, <2>2, RowsCome
  <1>2. ASSUME NEW edge \in expressed', edge \notin expressed
        PROVE  \E row \in candidates' : row.of = edge[1] /\ row.asset = edge[2]
    <2>1. Expresses(w) /\ candidates' = candidates
      BY <1>2, WhoRecords DEF Expresses
    <2>2. search[w].step = "linked" /\ edge = <<search[w].of, search[w].asset>>
      BY <1>2, <2>1, ExpressesFacts
    <2>3. \E row \in candidates : row.of = search[w].of /\ row.asset = search[w].asset
      BY <2>2 DEF SearchesHold, SearchHolds, SearchHoldsIn, Come
    <2> QED
      BY <2>1, <2>2, <2>3
  <1> QED
    BY <1>1, <1>2 DEF ExpressedWasCandidate

LEMMA UnexposedStep ==
    ASSUME AssetBase, AssetAssumption, UnexposedCostAPass, NEW w \in Worker, AssetStep(w)
    PROVE  UnexposedCostAPass'
  <1> USE DEF AssetBase
  <1> DEFINE t == search[w]
             mine == <<t.of, t.asset>>
             N == Unexposed
             N2 == {edge \in material' \ declined' :
                      /\ edge \notin exposures'
                      /\ \A v \in Worker :
                            search'[v].step = "estimating" => <<search'[v].of, search'[v].asset>> # edge}
  <1>1. Cardinality(Unexposed)' = Cardinality(N2)
    BY DEF Unexposed
  <1>2. N = {edge \in material \ declined :
               /\ edge \notin exposures
               /\ \A v \in Worker : search[v].step = "estimating" => <<search[v].of, search[v].asset>> # edge}
    BY DEF Unexposed
  <1>3. IsFiniteSet(N) /\ Cardinality(N) \in Nat /\ lost \in Nat /\ Cardinality(N) <= lost
    <2>1. N \subseteq material /\ IsFiniteSet(material) /\ lost \in Nat
      BY DEF Unexposed, AssetShapes
    <2> QED
      BY <2>1, Fewer DEF UnexposedCostAPass
  <1>4. /\ \A v \in Worker \ {w} : search'[v] = search[v]
        /\ lost' \in Nat /\ lost <= lost'
    BY AssetBaseFacts
  <1>5. exposures \subseteq exposures' /\ declined \subseteq declined'
    BY WhoRecords DEF Estimates, Declines
  <1>6. \A edge \in material' : \/ edge \in material
                                \/ /\ search'[w].step = "estimating"
                                   /\ edge = <<search'[w].of, search'[w].asset>>
    <2>1. ASSUME Expresses(w)
          PROVE  \A edge \in material' : \/ edge \in material
                                         \/ /\ search'[w].step = "estimating"
                                            /\ edge = <<search'[w].of, search'[w].asset>>
      <3>1. \/ material' = material
            \/ /\ material' = material \cup {mine} /\ search'[w].step = "estimating"
               /\ search'[w].of = t.of /\ search'[w].asset = t.asset
        BY <2>1, ExpressesFacts DEF Turned, SameOffers
      <3> QED
        BY <3>1
    <2> QED
      BY <2>1, WhoRecords
  <1>7. \A edge \in N2 : edge \in N \/ (t.step = "estimating" /\ edge = mine)
    BY <1>2, <1>4, <1>5, <1>6
  <1>8. CASE t.step = "estimating" /\ mine \in N2
    <2>1. mine \notin exposures' /\ mine \notin declined'
      BY <1>8
    <2>2. ~Estimates(w) /\ ~Declines(w)
      BY <2>1 DEF Estimates, Declines
    <2>3. SearchEnds(w)
      BY <1>8, <2>2 DEF AssetStep, Searches, Discovers, RecordsCandidate, LooksForAsset, CreatesAsset,
                        NotesUnresolved, LinksCandidate, Expresses
    <2>4. lost' = lost + 1
      BY <1>8, <2>3 DEF SearchEnds
    <2>5. N2 \subseteq N \cup {mine}
      BY <1>7
    <2>6. Cardinality(N2) <= Cardinality(N) + 1 /\ IsFiniteSet(N2)
      BY <1>3, <2>5, OneMore
    <2>7. Cardinality(N2) \in Nat
      BY <2>6, FS_CardinalityType
    <2> HIDE DEF N, N2
    <2> QED
      BY <1>1, <1>3, <2>4, <2>6, <2>7 DEF UnexposedCostAPass
  <1>9. CASE ~(t.step = "estimating" /\ mine \in N2)
    <2>1. N2 \subseteq N
      BY <1>7, <1>9
    <2>2. Cardinality(N2) <= Cardinality(N) /\ Cardinality(N2) \in Nat
      BY <1>3, <2>1, Fewer
    <2> HIDE DEF N, N2
    <2> QED
      BY <1>1, <1>3, <1>4, <2>2 DEF UnexposedCostAPass
  <1> QED
    BY <1>8, <1>9

\* A candidate that a hand lets go is noted or expressed, but for a pass that ended.
LEMMA LetGo ==
    ASSUME AssetBase, AssetAssumption, NEW w \in Worker, AssetStep(w), ~SearchEnds(w),
           search[w].candidate # 0, search'[w].candidate # search[w].candidate,
           NEW row \in candidates', row.id = search[w].candidate
    PROVE  \/ row.asset = 0 /\ row.noted
           \/ row.asset # 0 /\ <<row.of, row.asset>> \in expressed'
  <1> USE DEF AssetBase
  <1> DEFINE t == search[w]
  <1>1. CASE NotesUnresolved(w)
    <2>1. PICK old \in candidates :
              /\ old.id = t.candidate
              /\ candidates' = (candidates \ {old}) \cup {Tells(old, 0)}
              /\ Tells(old, 0).id = old.id
              /\ Tells(old, 0).asset = 0 /\ Tells(old, 0).noted = TRUE
      BY <1>1, NotesUnresolvedFacts
    <2>2. row = Tells(old, 0)
      BY <2>1 DEF AssetShapes, Numbered
    <2> QED
      BY <2>1, <2>2
  <1>2. CASE Expresses(w) \/ Estimates(w) \/ Declines(w)
    <2>1. t.step \in Come /\ candidates' = candidates
      BY <1>2 DEF Expresses, Estimates, Declines, Come
    <2>2. row.of = t.of /\ row.asset = t.asset
      <3>1. PICK q \in candidates : q.id = t.candidate /\ q.of = t.of /\ q.asset = t.asset
        BY <2>1 DEF SearchesHold, SearchHolds, SearchHoldsIn
      <3>2. q = row
        BY <2>1, <3>1 DEF AssetShapes, Numbered
      <3> QED
        BY <3>1, <3>2
    <2>3. t.asset # 0
      <3>1. t.asset \in Ids(assets)
        BY <2>1 DEF SearchesHold, SearchHolds, SearchHoldsIn, Come
      <3>2. \A a \in assets : a.id # 0
        BY NumberedIds DEF AssetShapes
      <3> QED
        BY <3>1, <3>2 DEF Ids
    <2>4. <<t.of, t.asset>> \in expressed'
      <3>1. CASE Expresses(w)
        BY <3>1, ExpressesFacts
      <3>2. CASE Estimates(w) \/ Declines(w)
        <4>1. t.step = "estimating" /\ expressed' = expressed
          BY <3>2 DEF Estimates, Declines
        <4> QED
          BY <4>1 DEF SearchesHold, SearchHolds, SearchHoldsIn
      <3> QED
        BY <1>2, <3>1, <3>2
    <2> QED
      BY <2>2, <2>3, <2>4
  <1>3. CASE LooksForAsset(w)
    BY <1>3, LooksForAssetFacts DEF Turned
  <1>4. CASE CreatesAsset(w)
    BY <1>4, CreatesAssetFacts DEF Turned
  <1>5. CASE LinksCandidate(w)
    BY <1>5, LinksCandidateFacts DEF Turned
  <1>6. CASE (\E c \in capabilities : Searches(w, c.id)) \/ Discovers(w) \/ RecordsCandidate(w)
    <2>1. t.step \in {"idle", "asked", "proposed"}
      BY <1>6 DEF Searches, Discovers, RecordsCandidate
    <2> QED
      BY <2>1 DEF SearchesHold, SearchHolds, SearchHoldsIn
  <1> QED
    BY <1>1, <1>2, <1>3, <1>4, <1>5, <1>6 DEF AssetStep

\* A row in nobody's hand was in nobody's, is done with, or was lost in this step.
LEMMA LooseRows ==
    ASSUME AssetBase, AssetAssumption, NEW w \in Worker, AssetStep(w),
           NEW row \in candidates', \A v \in Worker : search'[v].candidate # row.id
    PROVE  \/ row \in candidates /\ \A v \in Worker : search[v].candidate # row.id
           \/ row.asset = 0 /\ row.noted
           \/ row.asset # 0 /\ <<row.of, row.asset>> \in expressed'
           \/ lost' = lost + 1 /\ row \in candidates /\ row.id = search[w].candidate
  <1> USE DEF AssetBase
  <1>1. CASE row.id = search[w].candidate
    <2>1. row.id # 0
      BY RowsStay, NumberedIds
    <2>2. CASE SearchEnds(w)
      <3>1. search[w].step \notin {"asked", "proposed"}
        BY <1>1, <2>1 DEF SearchesHold, SearchHolds, SearchHoldsIn
      <3>2. lost' = lost + 1 /\ candidates' = candidates
        BY <2>2, <3>1 DEF SearchEnds
      <3> QED
        BY <1>1, <3>2
    <2>3. CASE ~SearchEnds(w)
      BY <1>1, <2>1, <2>3, LetGo
    <2> QED
      BY <2>2, <2>3
  <1>2. CASE row.id # search[w].candidate
    <2>1. row \in candidates
      <3>1. CASE RecordsCandidate(w) /\ row.id = Fresh(candidates)
        BY <3>1, RecordsCandidateFacts DEF Turned
      <3> QED
        BY <1>2, <3>1, RowsCome
    <2>2. \A v \in Worker : search[v].candidate # row.id
      BY <1>2, AssetBaseFacts
    <2> QED
      BY <2>1, <2>2
  <1> QED
    BY <1>1, <1>2

\* The rows of a pass that ended are one at most.
LEMMA LostRow ==
    ASSUME AssetBase, NEW S \in SUBSET candidates, NEW w \in Worker,
           \A row \in S : row.id = search[w].candidate
    PROVE  S = {} \/ \E row \in candidates : S = {row}
  BY DEF AssetBase, AssetShapes, Numbered

LEMMA CandidateIsAccountedStep ==
    ASSUME AssetBase, AssetAssumption, CandidateIsAccounted, NEW w \in Worker, AssetStep(w)
    PROVE  CandidateIsAccounted'
  <1> DEFINE N == {row \in candidates :
                      /\ row.asset = 0 /\ ~row.noted
                      /\ \A v \in Worker : search[v].candidate # row.id}
             N2 == {row \in candidates' :
                      /\ row.asset = 0 /\ ~row.noted
                      /\ \A v \in Worker : search'[v].candidate # row.id}
             Gone == {row \in N2 : row.id = search[w].candidate /\ row \in candidates}
  <1>1. /\ CandidateIsAccounted <=> Cardinality(N) <= lost
        /\ CandidateIsAccounted' <=> Cardinality(N2) <= lost'
    BY DEF CandidateIsAccounted
  <1>2. IsFiniteSet(N) /\ Cardinality(N) \in Nat /\ lost \in Nat /\ Cardinality(N) <= lost
    <2>1. IsFiniteSet(candidates) /\ N \subseteq candidates
      BY DEF AssetBase, AssetShapes, Numbered
    <2> HIDE DEF N
    <2> QED
      BY <1>1, <2>1, Fewer, AssetBaseFacts
  <1>3. lost' \in Nat /\ lost <= lost'
    BY AssetBaseFacts
  <1>4. expressed \subseteq expressed'
    BY AssetsStay
  <1>5. ASSUME NEW row \in N2 PROVE row \in N \/ (row \in Gone /\ lost' = lost + 1)
    <2>1. row \in candidates' /\ \A v \in Worker : search'[v].candidate # row.id
      OBVIOUS
    <2>2. \/ row \in candidates /\ \A v \in Worker : search[v].candidate # row.id
          \/ row.asset = 0 /\ row.noted
          \/ row.asset # 0 /\ <<row.of, row.asset>> \in expressed'
          \/ lost' = lost + 1 /\ row \in candidates /\ row.id = search[w].candidate
      BY <2>1, LooseRows
    <2> QED
      BY <1>4, <2>2
  <1>6. CASE Gone = {} \/ lost' # lost + 1
    <2>1. N2 \subseteq N
      BY <1>5, <1>6
    <2>2. Cardinality(N2) <= Cardinality(N) /\ Cardinality(N2) \in Nat
      BY <1>2, <2>1, Fewer
    <2> HIDE DEF N, N2
    <2> QED
      BY <1>1, <1>2, <1>3, <2>2
  <1>7. CASE Gone # {} /\ lost' = lost + 1
    <2>1. Gone \in SUBSET candidates /\ \A row \in Gone : row.id = search[w].candidate
      OBVIOUS
    <2>2. PICK row \in candidates : Gone = {row}
      <3> HIDE DEF Gone
      <3> QED
        BY <1>7, <2>1, LostRow
    <2>3. N2 \subseteq N \cup {row}
      BY <1>5, <2>2
    <2>4. IsFiniteSet(N2) /\ Cardinality(N2) <= Cardinality(N) + 1
      BY <1>2, <2>3, OneMore
    <2>5. Cardinality(N2) \in Nat
      BY <2>4, FS_CardinalityType
    <2> HIDE DEF N, N2, Gone
    <2> QED
      BY <1>1, <1>2, <1>7, <2>4, <2>5
  <1> QED
    BY <1>6, <1>7

LEMMA ResolvedIsExpressedStep ==
    ASSUME AssetBase, AssetAssumption, ResolvedIsExpressed, NEW w \in Worker, AssetStep(w)
    PROVE  ResolvedIsExpressed'
  <1> DEFINE N == {row \in candidates :
                      /\ row.asset # 0 /\ <<row.of, row.asset>> \notin expressed
                      /\ \A v \in Worker : search[v].candidate # row.id}
             N2 == {row \in candidates' :
                      /\ row.asset # 0 /\ <<row.of, row.asset>> \notin expressed'
                      /\ \A v \in Worker : search'[v].candidate # row.id}
             Gone == {row \in N2 : row.id = search[w].candidate /\ row \in candidates}
  <1>1. /\ ResolvedIsExpressed <=> Cardinality(N) <= lost
        /\ ResolvedIsExpressed' <=> Cardinality(N2) <= lost'
    BY DEF ResolvedIsExpressed
  <1>2. IsFiniteSet(N) /\ Cardinality(N) \in Nat /\ lost \in Nat /\ Cardinality(N) <= lost
    <2>1. IsFiniteSet(candidates) /\ N \subseteq candidates
      BY DEF AssetBase, AssetShapes, Numbered
    <2> HIDE DEF N
    <2> QED
      BY <1>1, <2>1, Fewer, AssetBaseFacts
  <1>3. lost' \in Nat /\ lost <= lost'
    BY AssetBaseFacts
  <1>4. expressed \subseteq expressed'
    BY AssetsStay
  <1>5. ASSUME NEW row \in N2 PROVE row \in N \/ (row \in Gone /\ lost' = lost + 1)
    <2>1. row \in candidates' /\ \A v \in Worker : search'[v].candidate # row.id
      OBVIOUS
    <2>2. \/ row \in candidates /\ \A v \in Worker : search[v].candidate # row.id
          \/ row.asset = 0 /\ row.noted
          \/ row.asset # 0 /\ <<row.of, row.asset>> \in expressed'
          \/ lost' = lost + 1 /\ row \in candidates /\ row.id = search[w].candidate
      BY <2>1, LooseRows
    <2> QED
      BY <1>4, <2>2
  <1>6. CASE Gone = {} \/ lost' # lost + 1
    <2>1. N2 \subseteq N
      BY <1>5, <1>6
    <2>2. Cardinality(N2) <= Cardinality(N) /\ Cardinality(N2) \in Nat
      BY <1>2, <2>1, Fewer
    <2> HIDE DEF N, N2
    <2> QED
      BY <1>1, <1>2, <1>3, <2>2
  <1>7. CASE Gone # {} /\ lost' = lost + 1
    <2>1. Gone \in SUBSET candidates /\ \A row \in Gone : row.id = search[w].candidate
      OBVIOUS
    <2>2. PICK row \in candidates : Gone = {row}
      <3> HIDE DEF Gone
      <3> QED
        BY <1>7, <2>1, LostRow
    <2>3. N2 \subseteq N \cup {row}
      BY <1>5, <2>2
    <2>4. IsFiniteSet(N2) /\ Cardinality(N2) <= Cardinality(N) + 1
      BY <1>2, <2>3, OneMore
    <2>5. Cardinality(N2) \in Nat
      BY <2>4, FS_CardinalityType
    <2> HIDE DEF N, N2, Gone
    <2> QED
      BY <1>1, <1>2, <1>7, <2>4, <2>5
  <1> QED
    BY <1>6, <1>7

LEMMA AssetInvStep ==
    ASSUME IInv, CapabilityAssumption, AssetAssumption, NEW w \in Worker, AssetStep(w)
    PROVE  IInv'
  <1>1. AssetBase
    BY DEF IInv, AssetInv, AssetBase
  <1>2. CapInv'
    <2>1. /\ capVars' = capVars /\ CapInv
      BY WhoRecords DEF IInv
    <2>2. /\ RowShapes' = RowShapes /\ PassShapes' = PassShapes /\ EdgesJoinRows' = EdgesJoinRows
          /\ PassesHold' = PassesHold /\ FewAtWork' = FewAtWork /\ ReadIsCurrent' = ReadIsCurrent
      BY <2>1 DEF capVars, stateVars, edgeVars, nodeVars, historyVars, RowShapes, PassShapes,
                  EdgesJoinRows, PassesHold, Holds, FewAtWork, AtWork, ReadIsCurrent, Ids, Numbered
    <2>3. FewNamed' = FewNamed /\ FewSame' = FewSame /\ FewTrees' = FewTrees
      BY <2>1 DEF capVars, stateVars, edgeVars, nodeVars, historyVars, FewNamed, Named, NamingAnew,
                  FewSame, Same, Adding, Wanted, Abilities, FewTrees, CurrentRequirement, Storing
    <2>4. /\ OrphansCostAKill' = OrphansCostAKill /\ UnmappedCostAKill' = UnmappedCostAKill
          /\ InfluencesConverge' = InfluencesConverge
      BY <2>1 DEF capVars, stateVars, edgeVars, nodeVars, historyVars, OrphansCostAKill, Orphans,
                  UnmappedCostAKill, Unmapped, InfluencesConverge
    <2> QED
      BY <2>1, <2>2, <2>3, <2>4 DEF CapInv
  <1>3. AssetShapes' /\ SearchesHold' /\ OneHand'
    BY <1>1, AssetShapesStep, SearchesHoldStep, OneHandStep
  <1>4. FewSearching' /\ FewKeyed'
    BY <1>1, FewSearchingStep, FewKeyedStep DEF IInv, AssetInv
  <1>5. ExpressedWasCandidate' /\ UnexposedCostAPass'
    BY <1>1, ExpressedWasCandidateStep, UnexposedStep DEF IInv, AssetInv
  <1>6. CandidateIsAccounted' /\ ResolvedIsExpressed'
    BY <1>1, CandidateIsAccountedStep, ResolvedIsExpressedStep DEF IInv, AssetInv
  <1> QED
    BY <1>2, <1>3, <1>4, <1>5, <1>6 DEF IInv, AssetInv

\* A search is not disturbed by the capability layer, whose nodes stay.
LEMMA AssetInvStays ==
    ASSUME IInv, CapabilityAssumption, CapNext, UNCHANGED assetVars
    PROVE  AssetInv'
  <1>1. Ids(capabilities) \subseteq Ids(capabilities')
    <2>1. CASE \E p \in Process : RecordsState(p)
      BY <2>1 DEF RecordsState, nodeVars
    <2>2. CASE \E w \in Worker : CapStep(w)
      <3>1. CapBase
        BY DEF IInv, CapInv, CapBase
      <3> QED
        BY <2>2, <3>1, StepGrows DEF CapBase, Grows, Ids
    <2> QED
      BY <2>1, <2>2 DEF CapNext
  <1>2. /\ Ids(capabilities)' = Ids(capabilities') /\ Ids(assets)' = Ids(assets)
        /\ assets' = assets /\ candidates' = candidates /\ expressed' = expressed
        /\ search' = search /\ lost' = lost
    BY DEF assetVars, Ids
  <1>3. AssetShapes'
    BY <1>1, <1>2 DEF IInv, AssetInv, AssetShapes, assetVars, Numbered
  <1>4. SearchesHold'
    <2>1. ASSUME NEW w \in Worker PROVE SearchHolds(search[w])'
      <3>1. PICK s : s = search[w]
        OBVIOUS
      <3>2. SearchHolds(s) /\ \A row \in candidates : row.id # 0
        BY <3>1, NumberedIds DEF IInv, AssetInv, SearchesHold, AssetShapes
      <3>3. SearchHolds(s)'
        BY <1>1, <1>2, <3>2, SearchHoldsOn
      <3> QED
        BY <1>2, <3>1, <3>3 DEF SearchHolds
    <2> QED
      BY <2>1 DEF SearchesHold
  <1>5. OneHand' /\ FewSearching' /\ FewKeyed' /\ ExpressedWasCandidate' /\ UnexposedCostAPass'
    BY DEF IInv, AssetInv, OneHand, FewSearching, Searching, FewKeyed, Keyed, Creating,
           ExpressedWasCandidate, UnexposedCostAPass, Unexposed, assetVars
  <1>6. CandidateIsAccounted' /\ ResolvedIsExpressed'
    BY DEF IInv, AssetInv, CandidateIsAccounted, ResolvedIsExpressed, assetVars
  <1> QED
    BY <1>3, <1>4, <1>5, <1>6 DEF AssetInv

LEMMA IInvInit ==
    ASSUME Init, CapabilityAssumption
    PROVE  IInv
  <1>0. \A w \in Worker : search[w] = NoSearch
    BY DEF Init
  <1>1. IsFiniteSet({}) /\ Cardinality({}) = 0
    BY FS_EmptySet
  <1>2. CapInv
    BY CapInvInit DEF Init
  <1>3. AssetShapes
    <2>1. Numbered({})
      BY <1>1 DEF Numbered
    <2> QED
      BY <1>1, <2>1, NoSearchFacts DEF Init, AssetShapes
  <1>4. SearchesHold
    <2>1. PICK s : s = NoSearch
      OBVIOUS
    <2>2. SearchHolds(s)
      BY <2>1, NoSearchFacts DEF SearchHolds, SearchHoldsIn, AtOffer, Come
    <2> QED
      BY <1>0, <2>1, <2>2 DEF SearchesHold
  <1>5. OneHand
    BY <1>0, NoSearchFacts DEF OneHand
  <1>6. FewSearching
    <2>1. Searching = {}
      BY <1>0, NoSearchFacts DEF Searching
    <2> QED
      BY <1>1, <2>1 DEF Init, FewSearching
  <1>7. FewKeyed
    <2> SUFFICES ASSUME NEW key \in OfferKeys
                 PROVE  Cardinality(Keyed(key)) + Cardinality(Creating(key)) <= 1 + lateSearch
      BY DEF FewKeyed
    <2>1. Keyed(key) = {} /\ Creating(key) = {} /\ lateSearch = 0
      BY <1>0, NoSearchFacts DEF Init, Keyed, Creating
    <2> HIDE DEF Keyed, Creating
    <2> QED
      BY <1>1, <2>1
  <1>8. ExpressedWasCandidate
    BY DEF Init, ExpressedWasCandidate
  <1>9. UnexposedCostAPass
    <2>1. Unexposed = {}
      BY DEF Init, Unexposed
    <2> QED
      BY <1>1, <2>1 DEF Init, UnexposedCostAPass
  <1>10. CandidateIsAccounted /\ ResolvedIsExpressed
    <2>1. \A S : candidates = {} /\ S \subseteq candidates => S = {}
      OBVIOUS
    <2>2. candidates = {} /\ lost = 0
      BY DEF Init
    <2>3. {row \in candidates : /\ row.asset = 0 /\ ~row.noted
                                /\ \A w \in Worker : search[w].candidate # row.id} = {}
      BY <2>2
    <2>4. {row \in candidates : /\ row.asset # 0 /\ <<row.of, row.asset>> \notin expressed
                                /\ \A w \in Worker : search[w].candidate # row.id} = {}
      BY <2>2
    <2> QED
      BY <1>1, <2>2, <2>3, <2>4 DEF CandidateIsAccounted, ResolvedIsExpressed
  <1> QED
    BY <1>2, <1>3, <1>4, <1>5, <1>6, <1>7, <1>8, <1>9, <1>10 DEF IInv, AssetInv

-----------------------------------------------------------------------------
(* What the invariant says of the properties.                               *)

LEMMA ReferenceKeys ==
    ASSUME AssetAssumption, NEW key \in OfferKeys, key[1] = "reference"
    PROVE  key[2] \in Universe
  <1>1. PICK offer \in Offers : key = Key(offer)
    BY DEF OfferKeys
  <1>2. offer.class # "reference"
    BY AssetAssumption DEF AssetAssumption, AssetClass
  <1>3. key = <<"reference", Reference(offer)>> /\ Reference(offer) # "unknown"
    BY <1>1, <1>2 DEF Key
  <1>4. Reference(offer) \in Universe
    BY <1>3 DEF Reference, Lookup, Universe
  <1> QED
    BY <1>3, <1>4

LEMMA TypesHold ==
    ASSUME IInv, AssetAssumption
    PROVE  TypeOK
  <1> USE DEF IInv, CapInv, AssetInv
  <1>1. /\ stateNo \in [Process -> Nat] /\ {assessed, lastSaw} \subseteq [Process -> Int]
        /\ bottlenecks \subseteq [id : Nat, rev : Nat, of : Process, name : BottleneckName,
                                  binding : BOOLEAN]
        /\ capabilities \subseteq [id : Nat, name : CapabilityName, slug : CapabilityName \X Nat]
        /\ requirements \subseteq [id : Nat, rev : Nat, bottleneck : Nat, of : Process,
                                   leaves : SUBSET Nat]
    BY DEF RowShapes, BottleneckRows, CapabilityRows, RequirementRows
  <1>2. /\ embedded \subseteq {c.id : c \in capabilities}
        /\ creates \subseteq Process \X {b.id : b \in bottlenecks}
        /\ requires \subseteq {b.id : b \in bottlenecks} \X {c.id : c \in capabilities}
        /\ influences \subseteq Process \X Process
        /\ \A r \in requirements : r.leaves \subseteq {c.id : c \in capabilities}
    BY DEF EdgesJoinRows, Ids
  <1>3. /\ expressed \subseteq {c.id : c \in capabilities} \X {a.id : a \in assets}
        /\ exposures \subseteq expressed
    BY DEF AssetShapes, Ids
  <1>4. \A a \in assets : a.key[1] = "reference" => a.key[2] \in Universe
    BY ReferenceKeys DEF AssetShapes
  <1>5. {passes, late, kills, searches, lateSearch, lost} \subseteq Nat
    BY DEF PassShapes, AssetShapes
  <1> QED
    BY <1>1, <1>2, <1>3, <1>4, <1>5 DEF TypeOK

LEMMA AbilitiesAreOne ==
    ASSUME IInv
    PROVE  OneCapabilityPerAbility
  <1> SUFFICES ASSUME NEW pair \in Near \cup {<<n, n>> : n \in CapabilityName}
               PROVE  Cardinality({c \in capabilities : c.name \in {pair[1], pair[2]}})
                        <= 1 + late + Cardinality(
                             {c \in {d \in capabilities : d.name \in {pair[1], pair[2]}} : c.id \notin embedded})
    BY DEF OneCapabilityPerAbility
  <1> DEFINE same == {c \in capabilities : c.name \in {pair[1], pair[2]}}
             bare == {c \in same : c.id \notin embedded}
             found == Same(pair)
             adding == Adding(pair)
  <1>1. same = found \cup bare
    BY DEF Same
  <1>2. IsFiniteSet(capabilities) /\ found \subseteq capabilities /\ bare \subseteq capabilities
    BY DEF IInv, CapInv, RowShapes, Numbered, Same
  <1>3. Cardinality(found) + Cardinality(adding) <= 1 + late /\ late \in Nat
    BY DEF IInv, CapInv, FewSame, Abilities, PassShapes
  <1>4. Cardinality(adding) \in Nat
    BY <1>3, WorkersAreFew, CapabilityAssumption DEF Adding
  <1> HIDE DEF same, bare, found, adding
  <1>5. IsFiniteSet(found) /\ IsFiniteSet(bare)
    BY <1>2, FS_Subset
  <1>6. Cardinality(found \cup bare) <= Cardinality(found) + Cardinality(bare)
    <2>1. Cardinality(found \cup bare)
            = Cardinality(found) + Cardinality(bare) - Cardinality(found \cap bare)
      BY <1>5, FS_Union
    <2>2. IsFiniteSet(found \cap bare)
      BY <1>5, FS_Intersection
    <2>3. Cardinality(found \cap bare) \in Nat /\ Cardinality(found) \in Nat /\ Cardinality(bare) \in Nat
      BY <1>5, <2>2, FS_CardinalityType
    <2> QED
      BY <2>1, <2>3
  <1>7. Cardinality(found) \in Nat /\ Cardinality(bare) \in Nat /\ Cardinality(same) \in Nat
    <2>1. IsFiniteSet(same)
      BY <1>1, <1>5, FS_Union
    <2> QED
      BY <1>5, <2>1, FS_CardinalityType
  <1>8. Cardinality(same) <= 1 + late + Cardinality(bare)
    BY <1>1, <1>3, <1>4, <1>6, <1>7
  <1> QED
    BY <1>8 DEF same, bare

LEMMA IdentitiesAreOne ==
    ASSUME IInv
    PROVE  OneBottleneckPerName /\ OneTreePerBottleneck /\ OneAssetPerInstrument
  <1> USE DEF IInv, CapInv, AssetInv
  <1>1. OneBottleneckPerName
    <2> SUFFICES ASSUME NEW p \in Process, NEW n \in BottleneckName
                 PROVE  Cardinality(Named(p, n)) <= 1 + late
      BY DEF OneBottleneckPerName, Named
    <2>1. NamingAnew(p, n) \in SUBSET Worker
      BY DEF NamingAnew
    <2>2. Cardinality(NamingAnew(p, n)) \in Nat
      BY <2>1, WorkersAreFew, CapabilityAssumption
    <2>3. IsFiniteSet(bottlenecks) /\ Named(p, n) \subseteq bottlenecks
      BY DEF RowShapes, Numbered, Named
    <2>4. Cardinality(Named(p, n)) \in Nat
      BY <2>3, Fewer
    <2>5. Cardinality(Named(p, n)) + Cardinality(NamingAnew(p, n)) <= 1 + late /\ late \in Nat
      BY DEF FewNamed, PassShapes
    <2> QED
      BY <2>2, <2>4, <2>5
  <1>2. OneTreePerBottleneck
    <2> SUFFICES ASSUME NEW b \in bottlenecks
                 PROVE  Cardinality(CurrentRequirement(b.id)) <= 1 + late
      BY DEF OneTreePerBottleneck, CurrentRequirement
    <2>0. b.id \in Nat
      BY DEF RowShapes, BottleneckRows
    <2>1. Storing(b.id) \in SUBSET Worker
      BY DEF Storing
    <2>2. Cardinality(Storing(b.id)) \in Nat
      BY <2>1, WorkersAreFew, CapabilityAssumption
    <2>3. IsFiniteSet(requirements) /\ CurrentRequirement(b.id) \subseteq requirements
      BY DEF RowShapes, Numbered, CurrentRequirement
    <2>4. Cardinality(CurrentRequirement(b.id)) \in Nat
      BY <2>3, Fewer
    <2>5. Cardinality(CurrentRequirement(b.id)) + Cardinality(Storing(b.id)) <= 1 + late /\ late \in Nat
      BY <2>0 DEF FewTrees, PassShapes
    <2> QED
      BY <2>2, <2>4, <2>5
  <1>3. OneAssetPerInstrument
    <2> SUFFICES ASSUME NEW a \in assets
                 PROVE  Cardinality(Keyed(a.key)) <= 1 + lateSearch
      BY DEF OneAssetPerInstrument, Keyed
    <2>0. a.key \in OfferKeys
      BY DEF AssetShapes
    <2>1. Creating(a.key) \in SUBSET Worker
      BY DEF Creating
    <2>2. Cardinality(Creating(a.key)) \in Nat
      BY <2>1, WorkersAreFew, CapabilityAssumption
    <2>3. IsFiniteSet(assets) /\ Keyed(a.key) \subseteq assets
      BY DEF AssetShapes, Numbered, Keyed
    <2>4. Cardinality(Keyed(a.key)) \in Nat
      BY <2>3, Fewer
    <2>5. /\ Cardinality(Keyed(a.key)) + Cardinality(Creating(a.key)) <= 1 + lateSearch
          /\ lateSearch \in Nat
      BY <2>0 DEF FewKeyed, AssetShapes
    <2> QED
      BY <2>2, <2>4, <2>5
  <1> QED
    BY <1>1, <1>2, <1>3

LEMMA TreesAreWired ==
    ASSUME IInv
    PROVE  TreeIsWired
  <1> USE DEF IInv, CapInv
  <1> DEFINE Loose == {r \in requirements :
                 /\ ~(\A c \in r.leaves : <<r.bottleneck, c>> \in requires)
                 /\ ~(\E w \in Worker : pass[w].step = "wiring" /\ pass[w].binding = r.bottleneck)}
  <1>1. ASSUME NEW r \in Loose PROVE r \in Orphans
    <2>1. ASSUME NEW w \in Worker, pass[w].step = "wiring", pass[w].basis = r PROVE FALSE
      <3>1. pass[w].basis.bottleneck = pass[w].binding
        BY <2>1 DEF PassesHold, Holds, HoldsIn
      <3> QED
        BY <2>1, <3>1
    <2> QED
      BY <2>1 DEF Orphans
  <1>2. Loose \subseteq Orphans
    BY <1>1
  <1>3. IsFiniteSet(requirements) /\ Orphans \subseteq requirements
    BY DEF RowShapes, Numbered, Orphans
  <1> HIDE DEF Loose
  <1>4. IsFiniteSet(Orphans) /\ Cardinality(Orphans) \in Nat
    BY <1>3, Fewer
  <1>5. Cardinality(Loose) <= Cardinality(Orphans) /\ Cardinality(Loose) \in Nat
    BY <1>2, <1>4, Fewer
  <1>6. Cardinality(Orphans) <= kills /\ kills \in Nat
    BY DEF OrphansCostAKill, PassShapes
  <1>7. Cardinality(Loose) <= kills
    BY <1>4, <1>5, <1>6
  <1> QED
    BY <1>7 DEF Loose, TreeIsWired

LEMMA WorkStands ==
    ASSUME IInv
    PROVE  WorkIsNotDropped
  <1> USE DEF IInv, CapInv, AssetInv
  <1>1. UnassessedStateIsPending
    <2> SUFFICES ASSUME NEW p \in Process, lastSaw[p] >= 0, lastSaw[p] < stateNo[p], ~raced
                 PROVE  Pending(p)
      BY DEF UnassessedStateIsPending
    <2>1. stateNo[p] \in Nat /\ lastSaw[p] \in Int /\ assessed[p] = lastSaw[p]
      BY DEF RowShapes, ReadIsCurrent
    <2> QED
      BY <2>1 DEF Pending
  <1>2. UnresolvedStaysPending
    <2> SUFFICES ASSUME NEW b \in bottlenecks, NEW c \in capabilities, b.binding,
                        <<b.id, c.id>> \in requires,
                        \A row \in candidates : row.of = c.id => row.asset = 0
                 PROVE  c.id \in PendingCapabilities
      BY DEF UnresolvedStaysPending
    <2>1. c.id \notin Expressed
      <3> SUFFICES ASSUME NEW edge \in expressed, edge[1] = c.id PROVE FALSE
        BY DEF Expressed
      <3>1. PICK row \in candidates : row.of = edge[1] /\ row.asset = edge[2]
        BY DEF ExpressedWasCandidate
      <3>2. edge[2] \in Ids(assets)
        BY DEF AssetShapes
      <3>3. edge[2] # 0
        BY <3>2, NumberedIds DEF Ids, AssetShapes
      <3> QED
        BY <3>1, <3>3
    <2>2. PICK e : e = <<b.id, c.id>>
      OBVIOUS
    <2>3. e \in requires /\ e[1] = b.id /\ e[2] = c.id
      BY <2>2
    <2> QED
      BY <2>1, <2>3 DEF PendingCapabilities
  <1>3. UnmappedCostsAFailure
    BY DEF UnmappedCostAKill, Unmapped, UnmappedCostsAFailure
  <1>4. UnexposedCostsAFailure
    <2> DEFINE bare == {edge \in material \ declined :
                          /\ edge \notin exposures
                          /\ \A w \in Worker : <<search[w].of, search[w].asset>> # edge}
    <2>1. bare \subseteq Unexposed /\ Unexposed \subseteq material /\ IsFiniteSet(material)
      BY DEF Unexposed, AssetShapes
    <2> HIDE DEF bare
    <2>2. IsFiniteSet(Unexposed) /\ Cardinality(Unexposed) \in Nat
      BY <2>1, Fewer
    <2>3. Cardinality(bare) <= Cardinality(Unexposed) /\ Cardinality(bare) \in Nat
      BY <2>1, <2>2, Fewer
    <2>4. Cardinality(Unexposed) <= lost /\ lost \in Nat
      BY DEF UnexposedCostAPass, AssetShapes
    <2>5. Cardinality(bare) <= lost
      BY <2>2, <2>3, <2>4
    <2>6. \A edge \in material : edge[1] \notin PendingCapabilities
      BY DEF AssetShapes, PendingCapabilities, Expressed
    <2> QED
      BY <2>5, <2>6 DEF UnexposedCostsAFailure, bare
  <1> QED
    BY <1>1, <1>2, <1>3, <1>4 DEF WorkIsNotDropped

LEMMA RevisionsFollow ==
    ASSUME IInv, IInv', CapabilityAssumption, CapNext
    PROVE  /\ \A b \in bottlenecks : b \in bottlenecks' \/
                 \E c \in bottlenecks' :
                     c.id = b.id /\ c.rev = b.rev + 1 /\ c.of = b.of /\ c.name = b.name
           /\ \A r \in requirements : r \in requirements' \/
                 \E q \in requirements' :
                     q.id = r.id /\ q.rev = r.rev + 1 /\ q.bottleneck = r.bottleneck
           /\ \A q, r \in requirements' : q.id = r.id => q = r
           /\ \A b, c \in bottlenecks' : b.id = c.id => b = c
  <1> USE DEF IInv, CapInv
  <1>1. /\ \A q, r \in requirements' : q.id = r.id => q = r
        /\ \A b, c \in bottlenecks' : b.id = c.id => b = c
    BY DEF RowShapes, Numbered
  <1>2. CASE \E p \in Process : RecordsState(p)
    BY <1>1, <1>2 DEF RecordsState, nodeVars
  <1>3. CASE \E w \in Worker : CapStep(w)
    <2>1. PICK w \in Worker : CapStep(w)
      BY <1>3
    <2> DEFINE a == pass[w]
    <2>2. ASSUME NEW b \in bottlenecks
          PROVE  b \in bottlenecks' \/
                 \E c \in bottlenecks' :
                     c.id = b.id /\ c.rev = b.rev + 1 /\ c.of = b.of /\ c.name = b.name
      <3>1. CASE bottlenecks' = bottlenecks
        BY <3>1
      <3>2. CASE WritesBottleneck(w)
        <4> DEFINE row == BottleneckRow(a)
        <4>1. \/ bottlenecks' = bottlenecks \cup {row}
              \/ /\ row.id = a.basis.id /\ row.of = a.basis.of /\ row.name = a.basis.name
                 /\ row.rev = a.basis.rev + 1
                 /\ bottlenecks' = (bottlenecks \ {a.basis}) \cup {row}
          BY <3>2, BottlenecksAfterWrite
        <4> HIDE DEF row
        <4> QED
          BY <4>1
      <3> QED
        BY <2>1, <3>1, <3>2, WhoWrites DEF SameRows, Inserts, StoresRequirement
    <2>3. ASSUME NEW r \in requirements
          PROVE  r \in requirements' \/
                 \E q \in requirements' :
                     q.id = r.id /\ q.rev = r.rev + 1 /\ q.bottleneck = r.bottleneck
      <3>1. CASE requirements' = requirements
        BY <3>1
      <3>2. CASE StoresRequirement(w)
        <4> DEFINE row == RequirementRow(a)
        <4>1. \/ requirements' = requirements \cup {row}
              \/ /\ row.id = a.basis.id /\ row.rev = a.basis.rev + 1
                 /\ row.bottleneck = a.basis.bottleneck
                 /\ requirements' = (requirements \ {a.basis}) \cup {row}
          BY <3>2, RequirementsAfterStore
        <4> HIDE DEF row
        <4> QED
          BY <4>1
      <3> QED
        BY <2>1, <3>1, <3>2, WhoWrites DEF SameRows, Inserts, WritesBottleneck
    <2> QED
      BY <1>1, <2>2, <2>3
  <1> QED
    BY <1>2, <1>3 DEF CapNext

-----------------------------------------------------------------------------
(* The theorems.                                                            *)

LEMMA InvNext ==
    ASSUME IInv, [Next]_vars
    PROVE  IInv'
  <1>1. CASE CapNext /\ UNCHANGED assetVars
    <2>1. CapInv'
      BY <1>1, CapInvStep, CapabilityAssumption DEF IInv
    <2>2. AssetInv'
      BY <1>1, AssetInvStays, CapabilityAssumption
    <2> QED
      BY <2>1, <2>2 DEF IInv
  <1>2. CASE \E w \in Worker : AssetStep(w)
    BY <1>2, AssetInvStep, CapabilityAssumption, AssetAssumption
  <1>3. CASE UNCHANGED vars
    <2>1. UNCHANGED <<stateVars, edgeVars, nodeVars, historyVars, pass>> /\ UNCHANGED assetVars
      BY <1>3 DEF vars, capVars
    <2>2. /\ RowShapes' /\ PassShapes' /\ EdgesJoinRows' /\ PassesHold' /\ FewAtWork' /\ ReadIsCurrent'
      BY <2>1 DEF stateVars, edgeVars, nodeVars, historyVars, RowShapes, PassShapes, IInv, CapInv,
                  EdgesJoinRows, PassesHold, Holds, FewAtWork, AtWork, ReadIsCurrent, Ids, Numbered
    <2>3. FewNamed' /\ FewSame' /\ FewTrees'
      BY <2>1 DEF stateVars, edgeVars, nodeVars, historyVars, FewNamed, Named, NamingAnew, IInv, CapInv,
                  FewSame, Same, Adding, Wanted, Abilities, FewTrees, CurrentRequirement, Storing
    <2>4. OrphansCostAKill' /\ UnmappedCostAKill' /\ InfluencesConverge'
      BY <2>1 DEF stateVars, edgeVars, nodeVars, historyVars, OrphansCostAKill, Orphans, IInv, CapInv,
                  UnmappedCostAKill, Unmapped, InfluencesConverge
    <2>5. AssetShapes' /\ SearchesHold'
      BY <2>1 DEF nodeVars, assetVars, IInv, AssetInv, AssetShapes, Numbered, Ids, SearchesHold,
                  SearchHolds
    <2>6. /\ OneHand' /\ FewSearching' /\ FewKeyed' /\ ExpressedWasCandidate' /\ UnexposedCostAPass'
          /\ CandidateIsAccounted' /\ ResolvedIsExpressed'
      BY <2>1 DEF IInv, AssetInv, OneHand, FewSearching, Searching, FewKeyed, Keyed, Creating,
                  ExpressedWasCandidate, UnexposedCostAPass, Unexposed, CandidateIsAccounted,
                  ResolvedIsExpressed, assetVars
    <2> QED
      BY <2>2, <2>3, <2>4, <2>5, <2>6 DEF IInv, CapInv, AssetInv
  <1> QED
    BY <1>1, <1>2, <1>3 DEF Next

LEMMA InvHolds == Spec => []IInv
  <1>1. Init => IInv
    BY IInvInit, CapabilityAssumption
  <1>2. IInv /\ [Next]_vars => IInv'
    BY InvNext
  <1> QED
    BY <1>1, <1>2, PTL DEF Spec

\* A Bottleneck of a Process, an ability, the tree of a Bottleneck and an instrument are
\* one row each, but for one more per pass that began while another one was at work and,
\* of an ability, per Capability that never got its embedding: what each pass looks up
\* without a lock before it writes (capability_persistence.py, asset_persistence.py).
THEOREM OneRowPerIdentityHolds == Spec => []OneRowPerIdentity
  <1>1. IInv => OneRowPerIdentity
    BY TypesHold, AbilitiesAreOne, IdentitiesAreOne, AssetAssumption DEF OneRowPerIdentity
  <1> QED
    BY <1>1, InvHolds, PTL

\* The tree of a Bottleneck is in the graph, a resolved candidate is expressed and two
\* Processes influence each other through a Capability both require, but for one tree or
\* candidate per pass that ended between its two transactions.
THEOREM GraphIsWiredHolds == Spec => []GraphIsWired
  <1>1. IInv => GraphIsWired
    BY TreesAreWired DEF GraphIsWired, IInv, CapInv, AssetInv
  <1> QED
    BY <1>1, InvHolds, PTL

\* What the finders go by is enough: a State to be assessed, a candidate and a Capability
\* without an Asset are done, pending or in a pass's hand, and a mapping, a candidate or
\* an exposure is missing only at the cost of a pass that ended after its first effect.
THEOREM WorkIsNotDroppedHolds == Spec => []WorkIsNotDropped
  <1>1. IInv => WorkIsNotDropped
    BY WorkStands
  <1> QED
    BY <1>1, InvHolds, PTL

\* A write of a Bottleneck or of a requirement puts the next revision of a row in the
\* place of the one it read, of the same identity: of two passes that read one revision
\* one fails on the primary key (BottleneckWriter, CapabilityWriter).
THEOREM RevisionPerWriteHolds == Spec => RevisionPerWrite
  <1> DEFINE Follows ==
               /\ \A b \in bottlenecks : b \in bottlenecks' \/
                     \E c \in bottlenecks' :
                         c.id = b.id /\ c.rev = b.rev + 1 /\ c.of = b.of /\ c.name = b.name
               /\ \A r \in requirements : r \in requirements' \/
                     \E q \in requirements' :
                         q.id = r.id /\ q.rev = r.rev + 1 /\ q.bottleneck = r.bottleneck
               /\ \A q, r \in requirements' : q.id = r.id => q = r
               /\ \A b, c \in bottlenecks' : b.id = c.id => b = c
  <1>1. IInv /\ IInv' /\ [Next]_vars => [Follows]_capVars
    <2> SUFFICES ASSUME IInv, IInv', Next PROVE Follows \/ UNCHANGED capVars
      BY DEF vars
    <2>1. CASE CapNext
      BY <2>1, RevisionsFollow, CapabilityAssumption
    <2>2. CASE \E w \in Worker : AssetStep(w)
      BY <2>2, WhoRecords
    <2> QED
      BY <2>1, <2>2 DEF Next
  <1>2. Spec => [][Follows]_capVars
    BY <1>1, InvHolds, PTL DEF Spec
  <1> QED
    BY <1>2 DEF RevisionPerWrite
=============================================================================
