----------------------------- MODULE AssetLayer -----------------------------
(***************************************************************************)
(* From a Capability to the Assets that express it (agents,                *)
(* asset_stage.py, asset_persistence.py, reference_universe.py), on top of *)
(* the graph the capability layer has written.                             *)
(*                                                                         *)
(* A proposal is recorded as a candidate, resolved to an Asset by its      *)
(* reference instrument, its ticker or its name, linked to the Capability  *)
(* and, when it is material, given an exposure.  Looking for an Asset and  *)
(* creating it are two transactions, and nothing in the database keeps two *)
(* Assets of one instrument apart.                                         *)
(***************************************************************************)
EXTENDS CapabilityLayer

CONSTANTS
    Alias, Instrument(_),  \* the names and codes of the reference universe, what each is of
    Discoveries,           \* what the discovery agent may answer
    MaxAssetPasses         \* bound: passes begun

\* What may be proposed: of the class the code needs only to tell non-equities from others.
AssetClass == {"common_stock", "etf", "commodity", "currency", "bond", "index"}

\* The names that answers offer are not looked into.
Offers == UNION {{answer[i] : i \in DOMAIN answer} : answer \in Discoveries}

ASSUME AssetAssumption ==
    /\ MaxAssetPasses \in Nat
    /\ Discoveries \subseteq Seq(Offers)
    /\ \A offer \in Offers : offer.class \in AssetClass /\ offer.material \in BOOLEAN

VARIABLES
    assets,      \* current revisions
    candidates,  \* the recorded proposals
    expressed,   \* the EXPRESSED_BY edges
    exposures,   \* <<Capability, Asset>> with an exposure
    search,      \* what each worker is doing
    searches,    \* passes begun
    lateSearch,  \* history: passes begun while another one ran
    lost,        \* history: passes that ended after their first effect
    material,    \* history: <<Capability, Asset>> that were called material
    declined     \* history: of these, the estimates that came to nothing

assetVars == <<assets, candidates, expressed, exposures, search, searches, lateSearch,
               lost, material, declined>>
vars == <<capVars, assetVars>>

NoSearch == [step |-> "idle", of |-> 0, proposals |-> <<>>, next |-> 0, candidate |-> 0,
             key |-> <<>>, asset |-> 0]

Init ==
    /\ CapInit
    /\ assets = {} /\ candidates = {} /\ expressed = {} /\ exposures = {}
    /\ search = [w \in Worker |-> NoSearch]
    /\ searches = 0 /\ lateSearch = 0 /\ lost = 0 /\ material = {} /\ declined = {}

Turns(w, row) == search' = [search EXCEPT ![w] = row]
Done(w) == Turns(w, NoSearch)

-----------------------------------------------------------------------------
(* The finder and the start of a pass.                                      *)

Expressed == {edge[1] : edge \in expressed}

\* A binding Bottleneck requires it and no Asset expresses it yet.
PendingCapabilities ==
    {edge[2] : edge \in {e \in requires :
        e[2] \notin Expressed /\ \E b \in bottlenecks : b.id = e[1] /\ b.binding}}

Searches(w, c) ==
    /\ search[w].step = "idle"
    /\ searches < MaxAssetPasses
    /\ searches' = searches + 1
    /\ lateSearch' = IF \E v \in Worker \ {w} : search[v].step # "idle"
                       THEN lateSearch + 1 ELSE lateSearch
    /\ Turns(w, [search[w] EXCEPT !.step = "asked", !.of = c])
    /\ UNCHANGED <<capVars, assets, candidates, expressed, exposures, lost, material, declined>>

\* The evaluators of this agent advise; the answer passes.
Discovers(w) ==
    /\ search[w].step = "asked"
    /\ \E answer \in Discoveries :
          IF answer = <<>> THEN Done(w)
          ELSE Turns(w, [search[w] EXCEPT !.step = "proposed", !.proposals = answer, !.next = 1])
    /\ UNCHANGED <<capVars, assets, candidates, expressed, exposures, searches, lateSearch,
                   lost, material, declined>>

-----------------------------------------------------------------------------
(* AssetWriter.                                                             *)

Proposal(w) == search[w].proposals[search[w].next]

NonEquity == {"commodity", "currency"}

Universe == {Instrument(alias) : alias \in Alias}

\* Exact matches of the normalised alias only.
Lookup(alias) == IF alias \in Alias THEN Instrument(alias) ELSE "unknown"

\* The ticker decides before the name.
Reference(proposal) ==
    IF Lookup(proposal.ticker) # "unknown" THEN Lookup(proposal.ticker)
                                           ELSE Lookup(proposal.name)

\* By what a proposal is looked for.
Key(proposal) ==
    IF proposal.class \in NonEquity
      THEN IF Reference(proposal) = "unknown" THEN <<"unknown">>
           ELSE <<"reference", Reference(proposal)>>
      ELSE IF proposal.ticker = "none" THEN <<"name", proposal.name>>
           ELSE <<proposal.class, proposal.ticker>>

Candidate(id, c) == [id |-> id, of |-> c, asset |-> 0, noted |-> FALSE]

RecordsCandidate(w) ==
    LET row == Candidate(Fresh(candidates), search[w].of)
    IN  /\ search[w].step = "proposed"
        /\ candidates' = candidates \cup {row}
        /\ Turns(w, [search[w] EXCEPT !.step = "recorded", !.candidate = row.id,
                                      !.key = Key(Proposal(w))])
        /\ UNCHANGED <<capVars, assets, expressed, exposures, searches, lateSearch, lost,
                       material, declined>>

\* By its key, or, with no identifier in the proposal, by its name.
Found(key) ==
    IF key[1] = "name" THEN {a \in assets : a.name = key[2]} ELSE {a \in assets : a.key = key}

LooksForAsset(w) ==
    LET key == search[w].key
    IN  /\ search[w].step = "recorded" /\ key[1] # "unknown"
        /\ Cardinality(Found(key)) <= 1
        /\ Found(key) # {} \/ key[1] # "name"
        /\ IF Found(key) = {} THEN Turns(w, [search[w] EXCEPT !.step = "absent"])
           ELSE Turns(w, [search[w] EXCEPT !.step = "found", !.asset = One(Found(key)).id])
        /\ UNCHANGED <<capVars, assets, candidates, expressed, exposures, searches,
                       lateSearch, lost, material, declined>>

\* A reference instrument brings its own name.
AssetRow(id, key, proposal) ==
    [id |-> id, key |-> key,
     name |-> IF key[1] = "reference" THEN key[2] ELSE proposal.name]

CreatesAsset(w) ==
    LET row == AssetRow(Fresh(assets), search[w].key, Proposal(w))
    IN  /\ search[w].step = "absent"
        /\ assets' = assets \cup {row}
        /\ Turns(w, [search[w] EXCEPT !.step = "found", !.asset = row.id])
        /\ UNCHANGED <<capVars, candidates, expressed, exposures, searches, lateSearch, lost,
                       material, declined>>

\* Mutant: the candidate is not told what it came to.
Forgets(row, asset) == row

\* The candidate names its Asset; without one (0) its note says why.
Tells(row, asset) ==
    IF asset = 0 THEN [row EXCEPT !.noted = TRUE] ELSE [row EXCEPT !.asset = asset]

Updated(id, asset) ==
    {IF row.id = id THEN Tells(row, asset) ELSE row : row \in candidates}

\* The next proposal, or the end.
NextProposal(w) ==
    IF search[w].next = Len(search[w].proposals) THEN Done(w)
    ELSE Turns(w, [search[w] EXCEPT !.step = "proposed", !.next = search[w].next + 1,
                                    !.candidate = 0, !.key = <<>>, !.asset = 0])

\* Neither in the reference universe nor known by its name: the note says so.
NotesUnresolved(w) ==
    LET key == search[w].key
    IN  /\ search[w].step = "recorded"
        /\ key[1] \in {"unknown", "name"} /\ Found(key) = {}
        /\ candidates' = Updated(search[w].candidate, 0)
        /\ NextProposal(w)
        /\ UNCHANGED <<capVars, assets, expressed, exposures, searches, lateSearch, lost,
                       material, declined>>

LinksCandidate(w) ==
    /\ search[w].step = "found"
    /\ candidates' = Updated(search[w].candidate, search[w].asset)
    /\ Turns(w, [search[w] EXCEPT !.step = "linked"])
    /\ UNCHANGED <<capVars, assets, expressed, exposures, searches, lateSearch, lost,
                   material, declined>>

Expression(w, edge) == {edge}

\* Material or not, the Asset is linked; a material one is estimated.
Expresses(w) ==
    LET edge == <<search[w].of, search[w].asset>>
    IN  /\ search[w].step = "linked"
        /\ expressed' = expressed \cup Expression(w, edge)
        /\ IF Proposal(w).material
             THEN /\ Turns(w, [search[w] EXCEPT !.step = "estimating"]) /\ material' = material \cup {edge}
             ELSE /\ NextProposal(w) /\ UNCHANGED material
        /\ UNCHANGED <<capVars, assets, candidates, exposures, searches, lateSearch, lost,
                       declined>>

-----------------------------------------------------------------------------
(* Exposure.                                                                *)

Estimates(w) ==
    /\ search[w].step = "estimating"
    /\ exposures' = exposures \cup {<<search[w].of, search[w].asset>>}
    /\ NextProposal(w)
    /\ UNCHANGED <<capVars, assets, candidates, expressed, searches, lateSearch, lost,
                   material, declined>>

\* A refusal, an answer without an exposure, or one with a share of revenue, for which
\* the stage never supplies a figure: on with the next proposal.
Declines(w) ==
    /\ search[w].step = "estimating"
    /\ declined' = declined \cup {<<search[w].of, search[w].asset>>}
    /\ NextProposal(w)
    /\ UNCHANGED <<capVars, assets, candidates, expressed, exposures, searches, lateSearch,
                   lost, material>>

\* A refusal of the discovery, a look-up that finds two rows, or a kill.
SearchEnds(w) ==
    /\ search[w].step # "idle"
    /\ Done(w)
    /\ lost' = IF search[w].step = "asked" \/
                  (search[w].step = "proposed" /\ search[w].next = 1)
                 THEN lost ELSE lost + 1
    /\ UNCHANGED <<capVars, assets, candidates, expressed, exposures, searches, lateSearch,
                   material, declined>>

AssetStep(w) ==
    \/ \E c \in capabilities : Searches(w, c.id)
    \/ Discovers(w) \/ RecordsCandidate(w) \/ LooksForAsset(w) \/ CreatesAsset(w)
    \/ NotesUnresolved(w) \/ LinksCandidate(w) \/ Expresses(w) \/ Estimates(w) \/ Declines(w)
    \/ SearchEnds(w)

Next ==
    \/ CapNext /\ UNCHANGED assetVars
    \/ \E w \in Worker : AssetStep(w)

Spec == Init /\ [][Next]_vars

-----------------------------------------------------------------------------
(* Properties.                                                              *)

TypeOK ==
    /\ stateNo \in [Process -> Nat] /\ {assessed, lastSaw} \subseteq [Process -> Int]
    /\ bottlenecks \subseteq [id : Nat, rev : Nat, of : Process, name : BottleneckName,
                              binding : BOOLEAN]
    /\ capabilities \subseteq [id : Nat, name : CapabilityName, slug : CapabilityName \X Nat]
    /\ requirements \subseteq [id : Nat, rev : Nat, bottleneck : Nat, of : Process,
                               leaves : SUBSET Nat]
    /\ embedded \subseteq {c.id : c \in capabilities}
    /\ creates \subseteq Process \X {b.id : b \in bottlenecks}
    /\ requires \subseteq {b.id : b \in bottlenecks} \X {c.id : c \in capabilities}
    /\ influences \subseteq Process \X Process
    /\ \A r \in requirements : r.leaves \subseteq {c.id : c \in capabilities}
    /\ expressed \subseteq {c.id : c \in capabilities} \X {a.id : a \in assets}
    /\ exposures \subseteq expressed
    /\ \A a \in assets : a.key[1] = "reference" => a.key[2] \in Universe
    /\ {passes, late, kills, searches, lateSearch, lost} \subseteq Nat

\* An instrument reached from two Capabilities is one Asset, unless two passes looked for
\* it at the same time.
OneAssetPerInstrument ==
    \A a \in assets : Cardinality({b \in assets : b.key = a.key}) <= 1 + lateSearch

\* Every proposal has become an Asset or has a note why not, unless a pass is at work on
\* it or ended in between: a kill, or a look-up that found two Assets.
CandidateIsAccounted ==
    Cardinality({row \in candidates :
        /\ row.asset = 0 /\ ~row.noted
        /\ \A w \in Worker : search[w].candidate # row.id}) <= lost

\* What a proposal became expresses its Capability, unless the pass is about to link it
\* or ended in between.
ResolvedIsExpressed ==
    Cardinality({row \in candidates :
        /\ row.asset # 0 /\ <<row.of, row.asset>> \notin expressed
        /\ \A w \in Worker : search[w].candidate # row.id}) <= lost

\* A material Asset without an exposure costs a declined estimate or a pass that ended:
\* its Capability is expressed, so no finder comes back for it.
UnexposedCostsAFailure ==
    /\ Cardinality({edge \in material \ declined :
          /\ edge \notin exposures
          /\ \A w \in Worker : <<search[w].of, search[w].asset>> # edge}) <= lost
    /\ \A edge \in material : edge[1] \notin PendingCapabilities

\* A Capability without an Asset stays on the finder's list as long as a binding
\* Bottleneck requires it, however many proposals came to nothing.
UnresolvedStaysPending ==
    \A b \in bottlenecks, c \in capabilities :
        b.binding /\ <<b.id, c.id>> \in requires /\ (\A row \in candidates :
            row.of = c.id => row.asset = 0)
        => c.id \in PendingCapabilities

\* asset_agents.py:231, "kept as Candidates but are not promoted to Assets".
IncidentalIsNoExpression == expressed = material

(* One row per bottleneck, ability, requirement tree and instrument, but for
   passes that overlapped. *)
OneRowPerIdentity ==
    /\ TypeOK
    /\ OneBottleneckPerName
    /\ OneCapabilityPerAbility
    /\ OneTreePerBottleneck
    /\ OneAssetPerInstrument

(* What the rows say, the edges say: leaves of a tree are required, a resolved
   candidate is expressed, and Processes influence each other through a capability
   both need. *)
GraphIsWired ==
    /\ TreeIsWired
    /\ ResolvedIsExpressed
    /\ InfluencesConverge

(* Work is done, pending or accounted for: states still to be assessed, candidates
   found, capabilities without an asset, and the mappings and exposures that a
   failure cost. *)
WorkIsNotDropped ==
    /\ UnassessedStateIsPending
    /\ CandidateIsAccounted
    /\ UnresolvedStaysPending
    /\ UnmappedCostsAFailure
    /\ UnexposedCostsAFailure
=============================================================================
