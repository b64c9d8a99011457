-------------------------- MODULE EventResolution --------------------------
(***************************************************************************)
(* From claims to events to discovery (agents, event_stage.py,             *)
(* event_persistence.py, process_stage.py).  A pass shows the unclustered  *)
(* claims to an agent, stores each cluster it proposes as an event or as   *)
(* the next revision of one, and releases what clears the propagation      *)
(* gate.  A release reaches process discovery as a domain event, or        *)
(* through the finder of the reconciler's sweep.                           *)
(*                                                                         *)
(* How many independent sources a cluster has is what SourceSets says      *)
(* assess_independence may return.  Queue and outbox are reduced to one    *)
(* item per event; Orchestration has them in full.                         *)
(***************************************************************************)
EXTENDS SourceSets

CONSTANTS
    Claim, Event, Worker,
    DocOf,        \* the document each claim was extracted from
    MinSources,   \* PropagationPolicy.min_independent_sources
    MaxStops,     \* bound: passes ended by a kill or an exception
    MaxOverlaps,  \* bound: passes begun while another one runs
    MaxSloppy     \* bound: proposals that use a claim twice

ASSUME EventAssumption ==
    /\ DocOf \in [Claim -> Doc]
    /\ None \notin Event
    /\ MinSources \in Nat \ {0}
    /\ MaxStops \in Nat /\ MaxOverlaps \in Nat /\ MaxSloppy \in Nat

VARIABLES
    arrived,   \* claims extracted and committed
    cluster,   \* the claims linked to each event
    table,     \* the current revision of each event; rev 0: no such event
    stage,     \* how far each worker's pass is
    answer,    \* what the agent was shown, and what it has not used yet
    work,      \* the proposal a pass is storing
    releases,  \* the events a pass has released and not announced
    outbox,    \* announced releases the dispatcher has not read
    item,      \* the discovery item of each event
    loaded,    \* the revision a running discovery has read; 0: none has
    seenRev,   \* the revision the last recorded discovery run was about; 0: none
    released,  \* history: the latest released revision; 0: none
    missed,    \* history: events with a release that was dropped or refused
               \* since discovery last read them
    stops, overlaps, sloppy \* history: what the bounds count

passVars  == <<stage, answer, work, releases>>
storeVars == <<cluster, table>>
findVars  == <<outbox, item, loaded, seenRev>>
countVars == <<stops, overlaps, sloppy>>
eventVars == <<arrived, storeVars, passVars, findVars, released, missed, countVars>>

NoRow    == [rev |-> 0, sources |-> 0, major |-> FALSE, marked |-> FALSE]
NoAnswer == [shown |-> {}, rest |-> {}, known |-> {}]
NoWork   == [into |-> None, claims |-> {}, rev |-> 0, sources |-> 0, major |-> FALSE]

DocsOf(C) == {DocOf[c] : c \in C}
Known == {e \in Event : table[e].rev > 0}

EventInit ==
    /\ arrived = {}
    /\ cluster = [e \in Event |-> {}]
    /\ table = [e \in Event |-> NoRow]
    /\ stage = [w \in Worker |-> "idle"]
    /\ answer = [w \in Worker |-> NoAnswer]
    /\ work = [w \in Worker |-> NoWork]
    /\ releases = [w \in Worker |-> {}]
    /\ outbox = {}
    /\ item = [e \in Event |-> "none"]
    /\ loaded = [e \in Event |-> 0]
    /\ seenRev = [e \in Event |-> 0]
    /\ released = [e \in Event |-> 0]
    /\ missed = {}
    /\ stops = 0 /\ overlaps = 0 /\ sloppy = 0

Arrives(c) ==
    /\ c \notin arrived
    /\ arrived' = arrived \cup {c}
    /\ UNCHANGED <<storeVars, passVars, findVars, released, missed, countVars>>

-----------------------------------------------------------------------------
(* A pass of EventResolutionStage.run, over one session after another.     *)

Unclustered == arrived \ UNION {cluster[e] : e \in Event}

\* The pass reads the unclustered claims and the events near them, and asks the
\* agent.
Starts(w) ==
    LET others == {v \in Worker \ {w} : stage[v] # "idle"}
    IN  /\ stage[w] = "idle"
        /\ Unclustered # {}
        /\ others # {} => overlaps < MaxOverlaps
        /\ overlaps' = IF others = {} THEN overlaps ELSE overlaps + 1
        /\ stage' = [stage EXCEPT ![w] = "asked"]
        /\ answer' = [answer EXCEPT ![w] =
               [shown |-> Unclustered, rest |-> Unclustered, known |-> Known]]
        /\ UNCHANGED <<arrived, storeVars, work, releases, findVars, released,
                       missed, stops, sloppy>>

\* The next cluster of the answer is C: claims it has not used yet, or some that it
\* has, which ClusterPartitionEvaluator reports and run stores all the same.
Proposes(w, C) ==
    LET again == ~(C \subseteq answer[w].rest)
    IN  /\ C \in SUBSET answer[w].shown \ {{}}
        /\ again => sloppy < MaxSloppy
        /\ sloppy' = IF again THEN sloppy + 1 ELSE sloppy
        /\ answer' = [answer EXCEPT ![w].rest = @ \ C]

\* A cluster that is news: EventWriter._create stores a fresh event, its first
\* revision and its claims.
Creates(w) ==
    /\ stage[w] = "asked"
    /\ \E C \in SUBSET answer[w].shown, e \in Event \ Known, m \in BOOLEAN :
          /\ Proposes(w, C)
          /\ \E n \in Counts(DocsOf(C)) :
                /\ table' = [table EXCEPT ![e] =
                       [rev |-> 1, sources |-> n, major |-> m, marked |-> FALSE]]
                /\ work' = [work EXCEPT ![w] =
                       [into |-> e, claims |-> C, rev |-> 1, sources |-> n, major |-> m]]
          /\ cluster' = [cluster EXCEPT ![e] = C]
    /\ stage' = [stage EXCEPT ![w] = "stored"]
    /\ UNCHANGED <<arrived, releases, findVars, released, missed, stops, overlaps>>

\* A cluster that extends an event the agent was shown: EventWriter._extend reads
\* the current revision ...
Reads(w) ==
    /\ stage[w] = "asked"
    /\ \E C \in SUBSET answer[w].shown, e \in answer[w].known :
          /\ Proposes(w, C)
          /\ work' = [work EXCEPT ![w] =
                 [NoWork EXCEPT !.into = e, !.claims = C, !.rev = table[e].rev + 1]]
    /\ stage' = [stage EXCEPT ![w] = "extending"]
    /\ UNCHANGED <<arrived, storeVars, releases, findVars, released, missed,
                   stops, overlaps>>

\* Mutant: only the claims of the proposal are counted.
ProposedOnly(w) == work[w].claims

\* The whole cluster is counted again, not just what is new.
Evidence(w) == cluster[work[w].into] \cup work[w].claims

\* Mutant: the new revision keeps the mark of the one before.
KeepsMark(e) == table[e].marked

\* A new revision has yet to be propagated.
MarkOf(e) == FALSE

\* ... and writes the next one if no other pass has: (event_id, revision) is the
\* primary key.
Unwritten(w) == table[work[w].into].rev = work[w].rev - 1

Extends(w) ==
    LET e == work[w].into
    IN  /\ stage[w] = "extending"
        /\ Unwritten(w)
        /\ \E n \in Counts(DocsOf(Evidence(w))), m \in BOOLEAN :
              /\ table' = [table EXCEPT ![e] =
                     [rev |-> work[w].rev, sources |-> n, major |-> m, marked |-> MarkOf(e)]]
              /\ work' = [work EXCEPT ![w] = [@ EXCEPT !.sources = n, !.major = m]]
        /\ cluster' = [cluster EXCEPT ![e] = @ \cup work[w].claims]
        /\ stage' = [stage EXCEPT ![w] = "stored"]
        /\ UNCHANGED <<arrived, answer, releases, findVars, released, missed, countVars>>

\* PropagationPolicy.decide: whatever else it asks for, one source is enough only
\* for a cluster of high materiality.
ClearsGate(sources, major) == sources >= MinSources \/ major

\* mark_propagated marks the revision that is current by now.
Marks(w) ==
    LET e == work[w].into
    IN  /\ stage[w] = "stored"
        /\ ClearsGate(work[w].sources, work[w].major)
        /\ table' = [table EXCEPT ![e].marked = TRUE]
        /\ released' = [released EXCEPT ![e] = table[e].rev]
        /\ releases' = [releases EXCEPT ![w] = @ \cup {e}]
        /\ work' = [work EXCEPT ![w] = NoWork]
        /\ stage' = [stage EXCEPT ![w] = "asked"]
        /\ UNCHANGED <<arrived, cluster, answer, findVars, missed, countVars>>

\* The policy holds the event back, or its significance was never scored.
Holds(w) ==
    /\ stage[w] = "stored"
    /\ work' = [work EXCEPT ![w] = NoWork]
    /\ stage' = [stage EXCEPT ![w] = "asked"]
    /\ UNCHANGED <<arrived, storeVars, answer, releases, findVars, released,
                   missed, countVars>>

\* Mutant: a release is announced only for a new event.
FinishesNewOnly(w) ==
    /\ stage[w] = "asked"
    /\ outbox' = outbox \cup {e \in releases[w] : table[e].rev = 1}
    /\ releases' = [releases EXCEPT ![w] = {}]
    /\ answer' = [answer EXCEPT ![w] = NoAnswer]
    /\ stage' = [stage EXCEPT ![w] = "idle"]
    /\ UNCHANGED <<arrived, storeVars, work, item, loaded, seenRev, released,
                   missed, countVars>>

\* The agent refused, or its answer has no further cluster: what was released is
\* announced with the completion of the item.
Finishes(w) ==
    /\ stage[w] = "asked"
    /\ outbox' = outbox \cup releases[w]
    /\ releases' = [releases EXCEPT ![w] = {}]
    /\ answer' = [answer EXCEPT ![w] = NoAnswer]
    /\ stage' = [stage EXCEPT ![w] = "idle"]
    /\ UNCHANGED <<arrived, storeVars, work, item, loaded, seenRev, released,
                   missed, countVars>>

\* The pass ends early, by a kill or by an exception such as the conflict of two
\* writers; what it stored stays, what it would have announced is gone.
Stops(w) ==
    /\ stage[w] # "idle"
    /\ \/ stage[w] = "extending" /\ ~Unwritten(w) /\ stops' = stops
       \/ stops < MaxStops /\ stops' = stops + 1
    /\ missed' = missed \cup releases[w]
    /\ releases' = [releases EXCEPT ![w] = {}]
    /\ answer' = [answer EXCEPT ![w] = NoAnswer]
    /\ work' = [work EXCEPT ![w] = NoWork]
    /\ stage' = [stage EXCEPT ![w] = "idle"]
    /\ UNCHANGED <<arrived, storeVars, findVars, released, overlaps, sloppy>>

-----------------------------------------------------------------------------
(* Process discovery, from the announcement to the agent-run log.          *)

\* The dispatcher schedules the event's discovery; an open item makes it a
\* duplicate, even one that has read the event already.
Dispatches(e) ==
    /\ e \in outbox
    /\ outbox' = outbox \ {e}
    /\ item' = [item EXCEPT ![e] = IF @ = "none" THEN "due" ELSE @]
    /\ missed' = IF item[e] \in {"read", "logged"} THEN missed \cup {e} ELSE missed
    /\ UNCHANGED <<arrived, storeVars, passVars, loaded, seenRev, released, countVars>>

\* ProcessDiscoveryStage._pending_event_ids: the current revision is propagated and
\* no run about the event, whatever its revision, is in the log.
Pending(e) == table[e].marked /\ seenRev[e] = 0

Sweeps(e) ==
    /\ Pending(e) /\ item[e] = "none"
    /\ item' = [item EXCEPT ![e] = "due"]
    /\ UNCHANGED <<arrived, storeVars, passVars, outbox, loaded, seenRev,
                   released, missed, countVars>>

\* A worker claims the item and loads the event as it is now.
Loads(e) ==
    /\ item[e] = "due"
    /\ item' = [item EXCEPT ![e] = "read"]
    /\ loaded' = [loaded EXCEPT ![e] = table[e].rev]
    /\ missed' = missed \ {e}
    /\ UNCHANGED <<arrived, storeVars, passVars, outbox, seenRev, released, countVars>>

\* The agent answered; the run is in the log before its effects are written.
Records(e) ==
    /\ item[e] = "read"
    /\ item' = [item EXCEPT ![e] = "logged"]
    /\ seenRev' = [seenRev EXCEPT ![e] = loaded[e]]
    /\ loaded' = [loaded EXCEPT ![e] = 0]
    /\ UNCHANGED <<arrived, storeVars, passVars, outbox, released,
                   missed, countVars>>

\* The agent refused: the handler returns, and its item is settled.
Declines(e) ==
    /\ item[e] = "read"
    /\ item' = [item EXCEPT ![e] = "none"]
    /\ missed' = missed \cup {e}
    /\ loaded' = [loaded EXCEPT ![e] = 0]
    /\ UNCHANGED <<arrived, storeVars, passVars, outbox, seenRev,
                   released, countVars>>

Completes(e) ==
    /\ item[e] = "logged"
    /\ item' = [item EXCEPT ![e] = "none"]
    /\ UNCHANGED <<arrived, storeVars, passVars, outbox, loaded, seenRev,
                   released, missed, countVars>>

\* The worker died or the handler raised: the queue runs the item again.
Retries(e) ==
    /\ item[e] \in {"read", "logged"}
    /\ item' = [item EXCEPT ![e] = "due"]
    /\ loaded' = [loaded EXCEPT ![e] = 0]
    /\ UNCHANGED <<arrived, storeVars, passVars, outbox, seenRev,
                   released, missed, countVars>>

EventNext ==
    \/ \E c \in Claim : Arrives(c)
    \/ \E w \in Worker :
          \/ Starts(w)
          \/ Creates(w)
          \/ Reads(w)
          \/ Extends(w)
          \/ Marks(w)
          \/ Holds(w)
          \/ Finishes(w)
          \/ Stops(w)
    \/ \E e \in Event :
          \/ Dispatches(e)
          \/ Sweeps(e)
          \/ Loads(e)
          \/ Records(e)
          \/ Declines(e)
          \/ Completes(e)
          \/ Retries(e)

EventSpec == EventInit /\ [][EventNext]_eventVars

-----------------------------------------------------------------------------
(* Properties.                                                             *)

Stages == {"idle", "asked", "extending", "stored"}

RowTypeOK ==
    \A e \in Event :
        /\ table[e].rev \in Nat /\ table[e].sources \in Nat
        /\ table[e].major \in BOOLEAN /\ table[e].marked \in BOOLEAN
        /\ cluster[e] \in SUBSET arrived
        /\ table[e].rev = 0 => table[e] = NoRow /\ cluster[e] = {}

PassTypeOK ==
    \A w \in Worker :
        /\ stage[w] \in Stages
        /\ answer[w].rest \subseteq answer[w].shown /\ answer[w].shown \subseteq arrived
        /\ answer[w].known \subseteq Known
        /\ work[w].claims \subseteq answer[w].shown
        /\ work[w].into \in Known \cup {None}
        /\ stage[w] \in {"extending", "stored"} => work[w].into # None
        /\ releases[w] \subseteq Known
        /\ stage[w] = "idle" => releases[w] = {}

FindTypeOK ==
    /\ outbox \subseteq Known /\ missed \subseteq Known
    /\ \A e \in Event :
          /\ item[e] \in {"none", "due", "read", "logged"}
          /\ item[e] # "none" => table[e].rev > 0
          /\ seenRev[e] <= table[e].rev /\ loaded[e] <= table[e].rev
          /\ loaded[e] > 0 <=> item[e] = "read"
          /\ released[e] <= table[e].rev

\* Type invariant: what a pass holds exists, and nothing is ahead of the table.
EventTypeOK == RowTypeOK /\ PassTypeOK /\ FindTypeOK

\* "Two concurrent passes over overlapping Claims would cluster the same occurrence
\* twice" (stages.py:98): while passes are single-flighted and the agent partitions
\* what it is shown, a claim supports one event.
ClusteredOnce ==
    overlaps = 0 /\ sloppy = 0 =>
        \A d, e \in Event : d # e => cluster[d] \cap cluster[e] = {}

\* An event's source count is one of the whole cluster stored with it, however many
\* passes extend it at once.
CountMatchesEvidence ==
    \A e \in Known : table[e].sources \in Counts(DocsOf(cluster[e]))

\* Only what clears the gate is handed downstream, revision by revision, as long as
\* passes are single-flighted.
MarkedPassedGate ==
    overlaps = 0 => \A e \in Event :
        table[e].marked => ClearsGate(table[e].sources, table[e].major)

\* "Only Events that cleared the significance gate reach here" (stages.py:113): an
\* event that discovery works on, or has, was released at this revision or before.
OnlyReleasedAreDiscovered ==
    \A e \in Event : item[e] # "none" \/ seenRev[e] > 0 => released[e] > 0

\* Discovery will still read revision released[e] of e, or has it before it.
OnItsWay(e) ==
    \/ e \in outbox
    \/ \E w \in Worker : e \in releases[w]
    \/ item[e] = "due"
    \/ item[e] = "read" /\ loaded[e] >= released[e]
    \/ Pending(e)

\* A released revision is discovered or on its way, unless its announcement met a
\* discovery that had read an older one, died with its pass, or was refused.
OnlyMissedReleasesAreLost ==
    \A e \in Event \ missed : released[e] > seenRev[e] => OnItsWay(e)

\* "A dropped domain event costs latency rather than correctness" (pipeline.py:203).
ReleaseNeverGap ==
    \A e \in Event : released[e] > seenRev[e] => OnItsWay(e)

(* A claim is evidence of one event, and the stored source count is one the
   grouping of the event's own documents can give. *)
EvidenceIsCountedOnce ==
    /\ EventTypeOK
    /\ ClusteredOnce
    /\ CountMatchesEvidence

(* Nothing passes the propagation gate early: a mark stands on a revision that
   clears it, and discovery sees released events only. *)
GateHolds ==
    /\ MarkedPassedGate
    /\ OnlyReleasedAreDiscovered
=============================================================================
