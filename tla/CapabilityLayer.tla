--------------------------- MODULE CapabilityLayer ---------------------------
(***************************************************************************)
(* From a Process to the Capabilities its binding constraint requires      *)
(* (agents, capability_stage.py, capability_persistence.py and the agents  *)
(* they ask).                                                              *)
(*                                                                         *)
(* A pass names Bottlenecks, maps the binding one to a tree of shared      *)
(* Capabilities, wires the tree into the graph and asks how independent    *)
(* the Processes behind each Capability are.  Every look-up and every      *)
(* write is an action; what a transaction reads before it writes is read   *)
(* without a lock.  Passes overlap when one outlives its lease.            *)
(***************************************************************************)
EXTENDS Integers, Sequences, FiniteSets

CONSTANTS
    Process, BottleneckName, CapabilityName,
    Near,             \* pairs of names described within CAPABILITY_MATCH_DISTANCE
    Identifications,  \* what the identification agent may answer
    Trees,            \* the Capabilities of the trees the mapping agent may answer
    Worker,
    MaxStates, MaxPasses  \* bounds: States recorded per Process, passes begun

ASSUME CapabilityAssumption ==
    /\ Near \subseteq CapabilityName \X CapabilityName
    /\ \A pair \in Near : <<pair[2], pair[1]>> \in Near    \* a distance is symmetric
    /\ IsFiniteSet(Worker)
    /\ \A a \in Identifications :
          /\ a.index \in Nat
          /\ a.candidates \in Seq([name : BottleneckName, binding : BOOLEAN, relief : BOOLEAN])
    /\ Trees \subseteq Seq(CapabilityName) \ {<<>>}
    /\ MaxStates \in Nat /\ MaxPasses \in Nat

VARIABLES
    stateNo,       \* how many States of each Process have been recorded
    assessed,      \* after which State its newest Bottleneck row was created; -1: none
    bottlenecks,   \* current revisions
    capabilities, embedded,  \* the Capabilities; those that have an embedding
    requirements,  \* current revisions, with the Capabilities of the tree
    creates, requires, influences,  \* the current edges
    pass,          \* what each worker is doing
    passes,        \* passes begun
    late,          \* history: passes begun while another one ran
    kills,         \* history: passes that ended after their first effect
    lastSaw,       \* history: the State the last writer of a Bottleneck had read
    raced,         \* history: a State was recorded while a pass ran
    designated     \* history: the Bottlenecks a pass took for the binding one

stateVars == <<stateNo, assessed, lastSaw, raced>>
edgeVars == <<creates, requires, influences>>
nodeVars == <<bottlenecks, capabilities, embedded, requirements>>
historyVars == <<passes, late, kills, designated>>
capVars == <<stateVars, edgeVars, nodeVars, historyVars, pass>>

NoRow == [id |-> 0, rev |-> 0]
NoPass == [step |-> "idle", of |-> 0, saw |-> 0, candidates |-> <<>>, index |-> 0,
           next |-> 0, basis |-> NoRow, binding |-> 0, tree |-> <<>>, resolved |-> <<>>,
           slug |-> <<>>, todo |-> <<>>]

CapInit ==
    /\ stateNo = [p \in Process |-> 0]
    /\ assessed = [p \in Process |-> -1]
    /\ lastSaw = [p \in Process |-> -1]
    /\ raced = FALSE
    /\ bottlenecks = {} /\ capabilities = {} /\ embedded = {} /\ requirements = {}
    /\ creates = {} /\ requires = {} /\ influences = {}
    /\ pass = [w \in Worker |-> NoPass]
    /\ passes = 0 /\ late = 0 /\ kills = 0 /\ designated = {}

Moves(w, row) == pass' = [pass EXCEPT ![w] = row]

-----------------------------------------------------------------------------
(* The finder and the start of a pass.                                      *)

\* A State was recorded after the newest Bottleneck row.
Pending(p) == stateNo[p] > 0 /\ assessed[p] < stateNo[p]

RecordsState(p) ==
    /\ stateNo[p] < MaxStates
    /\ stateNo' = [stateNo EXCEPT ![p] = @ + 1]
    /\ raced' = (raced \/ \E w \in Worker : pass[w].of = p)
    /\ UNCHANGED <<assessed, lastSaw, edgeVars, nodeVars, historyVars, pass>>

\* The State and the evidence are read; a pass is run for the finder or an event.
Starts(w, p) ==
    /\ pass[w].step = "idle"
    /\ passes < MaxPasses
    /\ passes' = passes + 1
    /\ late' = IF \E v \in Worker \ {w} : pass[v].step # "idle" THEN late + 1 ELSE late
    /\ Moves(w, [pass[w] EXCEPT !.step = "asked", !.of = p, !.saw = stateNo[p]])
    /\ UNCHANGED <<stateVars, edgeVars, nodeVars, kills, designated>>

\* The schema's validator, with 0 for no index.
IndexIsConsistent(answer) ==
    answer.index # 0 => /\ answer.index \in DOMAIN answer.candidates
                        /\ answer.candidates[answer.index].binding

\* BindingClarityEvaluator: what would relieve a binding constraint is stated.
BindingIsWatchable(answer) ==
    \A i \in DOMAIN answer.candidates :
        answer.candidates[i].binding => answer.candidates[i].relief

\* An answer that fails the validator or the evaluator ends the pass (PassEnds).
Identifies(w) ==
    /\ pass[w].step = "asked"
    /\ \E answer \in {a \in Identifications : IndexIsConsistent(a) /\ BindingIsWatchable(a)} :
          IF answer.candidates = <<>>
            THEN Moves(w, NoPass)
            ELSE Moves(w, [pass[w] EXCEPT !.step = "named", !.next = 1, !.index = answer.index,
                                          !.candidates = answer.candidates])
    /\ UNCHANGED <<stateVars, edgeVars, nodeVars, historyVars>>

-----------------------------------------------------------------------------
(* BottleneckWriter.                                                        *)

ByName(p, name) == {b \in bottlenecks : b.of = p /\ b.name = name}

Fresh(rows) == Cardinality(rows) + 1

\* One row at most, or the query raises.
One(rows) == IF rows = {} THEN NoRow ELSE CHOOSE r \in rows : TRUE

LooksForBottleneck(w) ==
    LET rows == ByName(pass[w].of, pass[w].candidates[pass[w].next].name)
    IN  /\ pass[w].step = "named"
        /\ Cardinality(rows) <= 1
        /\ Moves(w, [pass[w] EXCEPT !.step = "looked", !.basis = One(rows)])
        /\ UNCHANGED <<stateVars, edgeVars, nodeVars, historyVars>>

\* The primary key has the revision: a row written since the look-up raises.
Stands(basis, rows) == basis = NoRow \/ basis \in rows

Closed(basis, rows) == rows \ {basis}

\* A node keeps its identity through its revisions.
Identity(basis, rows) == IF basis = NoRow THEN Fresh(rows) ELSE basis.id

\* Mutant: the new revision carries the old number.
SameRevision(basis) == IF basis = NoRow THEN 1 ELSE basis.rev

NextRevision(basis) == basis.rev + 1

Designated(a) == a.index = a.next

BottleneckRow(a) ==
    LET c == a.candidates[a.next]
    IN  [id |-> Identity(a.basis, bottlenecks), rev |-> NextRevision(a.basis), of |-> a.of,
         name |-> c.name, binding |-> c.binding]

WritesBottleneck(w) ==
    LET a == pass[w]
        row == BottleneckRow(a)
    IN  /\ a.step = "looked" /\ Stands(a.basis, bottlenecks)
        /\ bottlenecks' = Closed(a.basis, bottlenecks) \cup {row}
        /\ assessed' = [assessed EXCEPT ![a.of] = stateNo[a.of]]
        /\ lastSaw' = [lastSaw EXCEPT ![a.of] = a.saw]
        /\ designated' = IF a.index = a.next THEN designated \cup {row.id} ELSE designated
        /\ Moves(w, [a EXCEPT !.step = "written", !.basis = row,
                              !.binding = IF Designated(a) THEN row.id ELSE a.binding])
        /\ UNCHANGED <<stateNo, raced, capabilities, embedded, requirements, edgeVars,
                       passes, late, kills>>

\* The CREATES edge; then the next candidate, or the binding one is mapped.
LinksBottleneck(w) ==
    LET a == pass[w]
        more == a.next < Len(a.candidates)
    IN  /\ a.step = "written"
        /\ creates' = creates \cup {<<a.of, a.basis.id>>}
        /\ IF more THEN Moves(w, [a EXCEPT !.step = "named", !.next = a.next + 1, !.basis = NoRow])
           ELSE IF a.binding # 0 THEN Moves(w, [a EXCEPT !.step = "mapping", !.basis = NoRow])
           ELSE Moves(w, NoPass)
        /\ UNCHANGED <<stateVars, requires, influences, nodeVars, historyVars>>

-----------------------------------------------------------------------------
(* CapabilityWriter.                                                        *)

Maps(w) ==
    /\ pass[w].step = "mapping"
    /\ \E tree \in Trees : Moves(w, [pass[w] EXCEPT !.step = "resolving", !.tree = tree])
    /\ UNCHANGED <<stateVars, edgeVars, nodeVars, historyVars>>

Wanted(w) == pass[w].tree[Len(pass[w].resolved) + 1]

\* Mutant: only the name is compared, never the meaning.
ExactOnly(name) == {c \in capabilities : c.slug = <<name, 1>>}

\* The slug decides; when no Capability has it, the embedding.
Matches(name) ==
    LET bySlug == {c \in capabilities : c.slug = <<name, 1>>}
    IN  IF bySlug # {} THEN bySlug
        ELSE {c \in capabilities : c.id \in embedded /\
                 (c.name = name \/ <<name, c.name>> \in Near)}

Resolved(w, id) ==
    LET found == Append(pass[w].resolved, id)
    IN  Moves(w, [pass[w] EXCEPT
                     !.step = IF Len(found) = Len(pass[w].tree) THEN "resolved" ELSE "resolving",
                     !.resolved = found, !.slug = <<>>])

LooksUp(w) ==
    /\ pass[w].step = "resolving"
    /\ IF Matches(Wanted(w)) = {} THEN Moves(w, [pass[w] EXCEPT !.step = "missing"])
       ELSE \E c \in Matches(Wanted(w)) : Resolved(w, c.id)
    /\ UNCHANGED <<stateVars, edgeVars, nodeVars, historyVars>>

Slugs == {c.slug : c \in capabilities}

UniqueSlug(name) ==
    <<name, CHOOSE k \in 1..(Cardinality(Slugs) + 1) :
        <<name, k>> \notin Slugs /\ \A j \in 1..(k - 1) : <<name, j>> \in Slugs>>

ReadsSlugs(w) ==
    /\ pass[w].step = "missing"
    /\ Moves(w, [pass[w] EXCEPT !.step = "named anew", !.slug = UniqueSlug(Wanted(w))])
    /\ UNCHANGED <<stateVars, edgeVars, nodeVars, historyVars>>

CapabilityRow(id, slug) == [id |-> id, name |-> slug[1], slug |-> slug]

\* Nodes are unique by type and slug: a slug taken since raises.
Inserts(w) ==
    LET slug == pass[w].slug
    IN  /\ pass[w].step = "named anew" /\ slug \notin Slugs
        /\ capabilities' = capabilities \cup {CapabilityRow(Fresh(capabilities), slug)}
        /\ Moves(w, [pass[w] EXCEPT !.step = "inserted",
                                    !.basis = [id |-> Fresh(capabilities), rev |-> 1]])
        /\ UNCHANGED <<stateVars, bottlenecks, embedded, requirements, edgeVars, historyVars>>

\* The embedding is stored in a transaction of its own.
Embeds(w) ==
    /\ pass[w].step = "inserted"
    /\ embedded' = embedded \cup {pass[w].basis.id}
    /\ Resolved(w, pass[w].basis.id)
    /\ UNCHANGED <<stateVars, bottlenecks, capabilities, requirements, edgeVars, historyVars>>

CurrentRequirement(bottleneck) == {r \in requirements : r.bottleneck = bottleneck}

LooksForRequirement(w) ==
    LET rows == CurrentRequirement(pass[w].binding)
    IN  /\ pass[w].step = "resolved"
        /\ Cardinality(rows) <= 1
        /\ Moves(w, [pass[w] EXCEPT !.step = "replacing", !.basis = One(rows)])
        /\ UNCHANGED <<stateVars, edgeVars, nodeVars, historyVars>>

Leaves(resolved) == {resolved[i] : i \in DOMAIN resolved}

\* Mutant: one edge is written.
FirstOnly(a) == <<Head(a.resolved)>>

ToWire(a) == a.resolved

RequirementRow(a) ==
    [id |-> Identity(a.basis, requirements), rev |-> NextRevision(a.basis),
     bottleneck |-> a.binding, of |-> a.of, leaves |-> Leaves(a.resolved)]

StoresRequirement(w) ==
    LET a == pass[w]
        row == RequirementRow(a)
    IN  /\ a.step = "replacing" /\ Stands(a.basis, requirements)
        /\ requirements' = Closed(a.basis, requirements) \cup {row}
        /\ Moves(w, [a EXCEPT !.step = "wiring", !.basis = row, !.todo = ToWire(a)])
        /\ UNCHANGED <<stateVars, bottlenecks, capabilities, embedded, edgeVars, historyVars>>

\* A REQUIRES edge per resolved Capability; those of an earlier tree stay.
Wires(w) ==
    LET a == pass[w]
    IN  /\ a.step = "wiring"
        /\ requires' = requires \cup {<<a.binding, Head(a.todo)>>}
        /\ IF Len(a.todo) = 1
             THEN Moves(w, [a EXCEPT !.step = "converging", !.basis = NoRow, !.todo = a.resolved])
             ELSE Moves(w, [a EXCEPT !.todo = Tail(a.todo)])
        /\ UNCHANGED <<stateVars, creates, influences, nodeVars, historyVars>>

-----------------------------------------------------------------------------
(* Confluence.                                                              *)

\* Mutant: every Process with a requirement is upstream.
AnyRequirement(capability) == {r.of : r \in requirements}

Upstream(capability) ==
    {r.of : r \in {q \in requirements : <<q.bottleneck, capability>> \in requires}}

OfferedPairs(capability) == Upstream(capability) \X Upstream(capability)

\* A single Process is no confluence; a Process is not related to itself.
Confluence(capability) ==
    IF Cardinality(Upstream(capability)) < 2 THEN {}
    ELSE {pair \in OfferedPairs(capability) : pair[1] # pair[2]}

Assesses(w) ==
    LET a == pass[w]
    IN  /\ a.step = "converging"
        /\ \/ influences' = influences
           \/ \E pair \in Confluence(Head(a.todo)) : influences' = influences \cup {pair}
        /\ IF Len(a.todo) = 1 THEN Moves(w, NoPass)
           ELSE Moves(w, [a EXCEPT !.todo = Tail(a.todo)])
        /\ UNCHANGED <<stateVars, creates, requires, nodeVars, historyVars>>

\* A refusal, a rejected answer, a query that finds two rows, a broken key, a kill.
PassEnds(w) ==
    /\ pass[w].step # "idle"
    /\ Moves(w, NoPass)
    /\ kills' = IF pass[w].step \in {"asked", "converging"} \/
                   (pass[w].step \in {"named", "looked"} /\ pass[w].next = 1)
                  THEN kills ELSE kills + 1
    /\ UNCHANGED <<stateVars, edgeVars, nodeVars, passes, late, designated>>

CapStep(w) ==
    \/ \E p \in Process : Starts(w, p)
    \/ Identifies(w) \/ LooksForBottleneck(w) \/ WritesBottleneck(w) \/ LinksBottleneck(w)
    \/ Maps(w) \/ LooksUp(w) \/ ReadsSlugs(w) \/ Inserts(w) \/ Embeds(w)
    \/ LooksForRequirement(w) \/ StoresRequirement(w) \/ Wires(w) \/ Assesses(w)
    \/ PassEnds(w)

CapNext == (\E p \in Process : RecordsState(p)) \/ (\E w \in Worker : CapStep(w))

-----------------------------------------------------------------------------
(* Properties.                                                              *)

\* A Process is pending again when a State was recorded that the last assessment had not
\* read, unless the State came while a pass was at work: the finder goes by when the
\* newest Bottleneck row was created, not by what had been read for it.
UnassessedStateIsPending ==
    \A p \in Process :
        lastSaw[p] >= 0 /\ lastSaw[p] < stateNo[p] /\ ~raced => Pending(p)

\* A constraint keeps its identity under its name: a Process has two Bottlenecks of one
\* name only after two passes looked for it at the same time.
OneBottleneckPerName ==
    \A p \in Process, n \in BottleneckName :
        Cardinality({b \in bottlenecks : b.of = p /\ b.name = n}) <= 1 + late

\* Capabilities are shared nodes: one ability is two Capabilities only when two passes
\* looked for it at the same time, or when the first never got its embedding.
OneCapabilityPerAbility ==
    \A pair \in Near \cup {<<n, n>> : n \in CapabilityName} :
        LET same == {c \in capabilities : c.name \in {pair[1], pair[2]}}
        IN  Cardinality(same) <= 1 + late + Cardinality({c \in same : c.id \notin embedded})

\* A Bottleneck has one requirement in force, unless two passes stored its first one at
\* the same time.
OneTreePerBottleneck ==
    \A b \in bottlenecks :
        Cardinality({r \in requirements : r.bottleneck = b.id}) <= 1 + late

\* What a tree in force requires is in the graph, where confluence and the discovery of
\* Assets look for it, unless a pass is about to wire it or was killed before it did.
TreeIsWired ==
    Cardinality({r \in requirements :
        /\ ~(\A c \in r.leaves : <<r.bottleneck, c>> \in requires)
        /\ ~(\E w \in Worker : pass[w].step = "wiring" /\ pass[w].binding = r.bottleneck)})
    <= kills

\* A Bottleneck that was taken for the binding one has a tree, or its pass is at work,
\* or failed: nothing tries the mapping again before the Process has a new State.
UnmappedCostsAFailure ==
    Cardinality({b \in designated :
        /\ \A r \in requirements : r.bottleneck # b
        /\ \A w \in Worker : pass[w].binding # b})
    <= kills

\* A Process influences another one only when both require one Capability.
InfluencesConverge ==
    \A pair \in influences :
        /\ pair[1] # pair[2]
        /\ \E c \in capabilities : \A i \in 1..2 :
              \E r \in requirements : r.of = pair[i] /\ <<r.bottleneck, c.id>> \in requires

\* A current revision of a Bottleneck or a requirement gives way to the next revision of
\* itself and to nothing else, whatever passes do at the same time.
RevisionPerWrite ==
    [][/\ \A b \in bottlenecks : b \in bottlenecks' \/
             \E c \in bottlenecks' :
                 c.id = b.id /\ c.rev = b.rev + 1 /\ c.of = b.of /\ c.name = b.name
       /\ \A r \in requirements : r \in requirements' \/
             \E q \in requirements' :
                 q.id = r.id /\ q.rev = r.rev + 1 /\ q.bottleneck = r.bottleneck
       /\ \A q, r \in requirements' : q.id = r.id => q = r
       /\ \A b, c \in bottlenecks' : b.id = c.id => b = c]_capVars

\* capability_stage.py:474, "Processes reaching this Capability through their
\* Bottlenecks": the tree in force of a Bottleneck of the Process names it.
UpstreamStillRequires ==
    \A c \in capabilities : \A p \in Upstream(c.id) :
        \E r \in requirements : r.of = p /\ c.id \in r.leaves
=============================================================================
