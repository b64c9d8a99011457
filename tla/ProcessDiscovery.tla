-------------------------- MODULE ProcessDiscovery --------------------------
(***************************************************************************)
(* From released events to Processes (agents, process_stage.py,            *)
(* process_persistence.py, graph_writer.py).  A pass shows the event and   *)
(* the existing Processes to an agent, records the run, and then stores    *)
(* what the agent said one transaction after another: a Process for each   *)
(* proposal, an edge, an evidence link, and a revision for each Process    *)
(* whose beliefs a second agent finds changed.                             *)
(*                                                                         *)
(* The queue is reduced to one item per event, with its budget of attempts *)
(* and its lease; WorkQueue has it in full.  Every event is released; one  *)
(* that is extended may be released, and announced, again.  The agent is   *)
(* taken to be attentive: it proposes a development once, and none it was  *)
(* shown as a Process.  Nothing keeps it from naming a Process twice.      *)
(***************************************************************************)
EXTENDS Naturals, Sequences, FiniteSets

CONSTANTS
    Event, Process, Worker,
    Proposal,     \* slugs an agent may propose, <<base, number>>; 1: no suffix
    None,
    MaxTries,     \* WorkItem.max_attempts
    MaxStops,     \* bound: workers killed in a pass
    MaxOutlives,  \* bound: leases outlived by a worker that goes on
    MaxRefusals,  \* bound: refused or malformed answers
    MaxReleases,  \* bound: announcements of an event that was discovered before
    MaxEntries    \* bound: entries of one answer on Processes it was shown

ASSUME DiscoveryAssumption ==
    /\ \A s \in Proposal : s = <<s[1], s[2]>> /\ s[2] \in Nat \ {0}
    /\ None \notin Event \cup Process
    /\ IsFiniteSet(Worker)
    /\ MaxTries \in Nat \ {0}
    /\ MaxStops \in Nat /\ MaxOutlives \in Nat /\ MaxRefusals \in Nat
    /\ MaxReleases \in Nat /\ MaxEntries \in Nat \ {0}

VARIABLES
    item,     \* the work item of each event
    tries,    \* its attempts
    holder,   \* the worker whose claim it carries
    logged,   \* events with a recorded discovery run
    table,    \* the current revision of each Process; rev 0: no such Process
    journal,  \* the BELIEF_CHANGE entries of each Process: the events behind them
    edges,    \* AFFECTS edges of an event and a Process: the current revision of each
    links,    \* evidence links of an event and a Process
    pass,     \* what each worker is doing
    short,    \* history: events whose last pass ended before its plan was done
    broken,   \* history: events any pass of which ended so
    outlived, \* history: events given to a second worker while the first went on
    refused,  \* history: events with a refused answer
    again,    \* history: events announced again after a recorded run
    repeated, \* history: events an answer on which named a Process twice
    stops, outlives, refusals, releases \* history: what the bounds count

itemVars  == <<item, tries, holder>>
graphVars == <<table, journal, edges, links>>
histVars  == <<short, broken, outlived, refused, again, repeated>>
countVars == <<stops, outlives, refusals, releases>>
vars == <<itemVars, logged, graphVars, pass, histVars, countVars>>

Base(s) == s[1]
Bases == {Base(s) : s \in Proposal}
NoProcess == [rev |-> 0, slug |-> None, origin |-> None, status |-> "candidate"]
Idle == [event |-> None, step |-> "idle", shown |-> {}, new |-> {}, affected |-> {},
         at |-> None, slug |-> None, saw |-> 0, why |-> "new"]

Known == {p \in Process : table[p].rev > 0}
Taken == {table[p].slug : p \in Known}
TopicOf(p) == Base(table[p].slug)

Init ==
    /\ item = [e \in Event |-> "none"]
    /\ tries = [e \in Event |-> 0]
    /\ holder = [e \in Event |-> None]
    /\ logged = {}
    /\ table = [p \in Process |-> NoProcess]
    /\ journal = [p \in Process |-> <<>>]
    /\ edges = [e \in Event |-> [p \in Process |-> <<>>]]
    /\ links = [e \in Event |-> [p \in Process |-> 0]]
    /\ pass = [w \in Worker |-> Idle]
    /\ short = {} /\ broken = {} /\ outlived = {} /\ refused = {}
    /\ again = {} /\ repeated = {}
    /\ stops = 0 /\ outlives = 0 /\ refusals = 0 /\ releases = 0

-----------------------------------------------------------------------------
(* The item of an event.                                                    *)

Open == {"queued", "running"}

\* What the finder takes for proof that discovery has seen an event.
Seen == logged

\* The sweep enqueues the released events that _pending_event_ids returns; the
\* dispatcher does the same for the first announcement of one.
Enqueues(e) ==
    /\ item[e] \notin Open
    /\ e \notin Seen
    /\ item' = [item EXCEPT ![e] = "queued"]
    /\ tries' = [tries EXCEPT ![e] = 0]
    /\ UNCHANGED <<holder, logged, graphVars, pass, histVars, countVars>>

\* Resolution extends the event, or the sweep was first: the dispatcher hands on an
\* announcement without asking the log, unless the event has an open item.
Reannounces(e) ==
    /\ item[e] \notin Open
    /\ e \in logged /\ releases < MaxReleases
    /\ releases' = releases + 1
    /\ again' = again \cup {e}
    /\ item' = [item EXCEPT ![e] = "queued"]
    /\ tries' = [tries EXCEPT ![e] = 0]
    /\ UNCHANGED <<holder, logged, graphVars, pass, short, broken, outlived, refused,
                   repeated, stops, outlives, refusals>>

\* Mutant: only Processes that have been reviewed or moved are shown.
ActiveOnly == {p \in Known : table[p].status = "active"}

\* Every live Process is shown, candidates included.
Candidates == Known

\* A worker claims the item; run reads the event and the candidates.
Claims(w, e) ==
    /\ pass[w].step = "idle" /\ item[e] = "queued"
    /\ item' = [item EXCEPT ![e] = "running"]
    /\ tries' = [tries EXCEPT ![e] = @ + 1]
    /\ holder' = [holder EXCEPT ![e] = w]
    /\ pass' = [pass EXCEPT ![w] = [Idle EXCEPT !.event = e, !.step = "asked",
                                                !.shown = Candidates]]
    /\ UNCHANGED <<logged, graphVars, histVars, countVars>>

\* The lease runs out under a worker that goes on; the item is reclaimed.
Outlives(e) ==
    /\ item[e] = "running" /\ outlives < MaxOutlives
    /\ pass[holder[e]].event = e
    /\ outlives' = outlives + 1
    /\ outlived' = outlived \cup {e}
    /\ item' = [item EXCEPT ![e] = "queued"]
    /\ UNCHANGED <<tries, holder, logged, graphVars, pass, short, broken, refused,
                   again, repeated, stops, refusals, releases>>

\* A pass that ended before its plan was done.
EndsShort(w) ==
    LET e == pass[w].event
    IN  /\ pass' = [pass EXCEPT ![w] = Idle]
        /\ short' = IF pass[w].step = "asked" THEN short ELSE short \cup {e}
        /\ broken' = IF pass[w].step = "asked" THEN broken ELSE broken \cup {e}
        /\ UNCHANGED <<logged, graphVars, outlived, refused, again, repeated,
                       outlives, refusals, releases>>

\* The worker is killed; what it holds is reclaimed when the lease runs out.
Stops(w) ==
    /\ pass[w].step # "idle" /\ stops < MaxStops
    /\ stops' = stops + 1
    /\ LET e == pass[w].event
       IN  item' = IF item[e] = "running" /\ holder[e] = w
                   THEN [item EXCEPT ![e] = "queued"] ELSE item
    /\ EndsShort(w)
    /\ UNCHANGED <<tries, holder>>

\* Mutant: the last attempt is not made.
OneTooFew(e) == IF tries[e] < MaxTries - 1 THEN "queued" ELSE "dead"

AfterFailure(e) == IF tries[e] < MaxTries THEN "queued" ELSE "dead"

\* The handler raises; WorkQueue.fail reschedules the item or gives it up.
Raises(w) ==
    /\ LET e == pass[w].event
       IN  item' = [item EXCEPT ![e] = AfterFailure(e)]
    /\ EndsShort(w)
    /\ UNCHANGED <<tries, holder, stops>>

-----------------------------------------------------------------------------
(* A pass of ProcessDiscoveryStage.run.                                     *)

\* The rest of a pass: no more than these change.
Goes(w, step) == pass' = [pass EXCEPT ![w].step = step]
Loops(w) == pass' = [pass EXCEPT ![w].step = "looping", ![w].at = None, ![w].slug = None,
                                 ![w].saw = 0, ![w].why = "new"]
OnlyPass == UNCHANGED <<itemVars, logged, graphVars, histVars>>

\* The agent refuses or its answer is malformed: the outcome is skipped, the item
\* succeeds, and no run is recorded.
Declines(w) ==
    /\ pass[w].step = "asked" /\ refusals < MaxRefusals
    /\ refusals' = refusals + 1
    /\ refused' = refused \cup {pass[w].event}
    /\ item' = [item EXCEPT ![pass[w].event] = "done"]
    /\ pass' = [pass EXCEPT ![w] = Idle]
    /\ UNCHANGED <<tries, holder, logged, graphVars, short, broken, outlived,
                   again, repeated, stops, outlives, releases>>

Recorded(w) == logged \cup {pass[w].event}

\* An entry on a Process the agent was shown: whether the event changes it or merely
\* bears on it; the number tells apart entries that say the same.
Entries(shown) == shown \X {"changes", "bears"} \X (1..MaxEntries)

\* The answer: proposals of developments the agent was not shown, and entries on some
\* of those it was shown, with nothing to keep two of them from naming one Process.
Answers(w) ==
    /\ pass[w].step = "asked"
    /\ \E new \in SUBSET Proposal, named \in SUBSET Entries(pass[w].shown) :
          /\ \A s, u \in new : Base(s) = Base(u) => s = u
          /\ \A s \in new, p \in pass[w].shown : Base(s) # TopicOf(p)
          /\ Cardinality(named) <= MaxEntries
          /\ \A a \in named : \A n \in 1..a[3] : <<a[1], a[2], n>> \in named
          /\ repeated' = IF \A a, b \in named : a[1] = b[1] => a = b
                         THEN repeated ELSE repeated \cup {pass[w].event}
          /\ pass' = [pass EXCEPT ![w].step = "looping", ![w].new = new,
                                  ![w].affected = named]
    /\ logged' = Recorded(w)
    /\ UNCHANGED <<itemVars, graphVars, short, broken, outlived, refused, again,
                   countVars>>

\* _unique_slug, over the slugs of one session: the proposal, or its base with the
\* least free number from 2.
UniqueSlug(s) ==
    IF s \notin Taken THEN s
    ELSE CHOOSE u \in {Base(s)} \X (2..(Cardinality(Known) + 2)) :
            /\ u \notin Taken
            /\ \A k \in 2..(u[2] - 1) : <<Base(s), k>> \in Taken

Names(w) ==
    /\ pass[w].step = "looping"
    /\ \E s \in pass[w].new :
          pass' = [pass EXCEPT ![w].step = "naming", ![w].why = "new",
                               ![w].slug = UniqueSlug(s), ![w].new = @ \ {s}]
    /\ OnlyPass /\ UNCHANGED countVars

\* ProcessWriter.create: the node, the first revision and two journal entries, in
\* another session than the one that looked for the slug.
Creates(w) ==
    /\ pass[w].step = "naming" /\ pass[w].slug \notin Taken
    /\ \E p \in Process \ Known :
          /\ table' = [table EXCEPT ![p] = [rev |-> 1, slug |-> pass[w].slug,
                          origin |-> pass[w].event, status |-> "candidate"]]
          /\ pass' = [pass EXCEPT ![w].step = "linking", ![w].at = p,
                                  ![w].slug = None]
    /\ UNCHANGED <<itemVars, logged, journal, edges, links, histVars, countVars>>

\* The slug was taken in between: the unique constraint on nodes raises.
SlugRaises(w) ==
    /\ pass[w].step = "naming" /\ pass[w].slug \in Taken
    /\ Raises(w)

\* The next Process the event bears on.
Affects(w) ==
    /\ pass[w].step = "looping" /\ pass[w].new = {}
    /\ \E a \in pass[w].affected :
          pass' = [pass EXCEPT ![w].step = "linking", ![w].at = a[1], ![w].why = a[2],
                               ![w].affected = @ \ {a}]
    /\ OnlyPass /\ UNCHANGED countVars

EdgeOf(w) == edges[pass[w].event][pass[w].at]

\* _current_edge: the revision of the edge between the two; 0: there is none.
CurrentEdge(w) == IF EdgeOf(w) = <<>> THEN 0 ELSE EdgeOf(w)[1]

\* GraphWriter.relate reads the current edge ...
LinkReads(w) ==
    /\ pass[w].step = "linking" /\ Len(EdgeOf(w)) < 2
    /\ pass' = [pass EXCEPT ![w].step = "relating",
                            ![w].saw = CurrentEdge(w)]
    /\ OnlyPass /\ UNCHANGED countVars

\* ... which raises when there are two, ...
LinkRaises(w) ==
    /\ pass[w].step = "linking" /\ Len(EdgeOf(w)) > 1
    /\ Raises(w)

\* The next revision of the current edge.
Revised(edge) == [edge EXCEPT ![1] = @ + 1]

\* ... inserts the first edge or the next revision, ...
Relates(w) ==
    LET e == pass[w].event
        p == pass[w].at
    IN  /\ pass[w].step = "relating"
        /\ pass[w].saw > 0 => EdgeOf(w)[1] = pass[w].saw
        /\ edges' = [edges EXCEPT ![e][p] =
              IF pass[w].saw = 0 THEN Append(@, 1) ELSE Revised(@)]
        /\ Goes(w, "evidencing")
        /\ UNCHANGED <<itemVars, logged, table, journal, links, histVars, countVars>>

\* ... or meets a revision another pass has written.
RelateRaises(w) ==
    /\ pass[w].step = "relating" /\ pass[w].saw > 0
    /\ EdgeOf(w)[1] # pass[w].saw
    /\ Raises(w)

\* Mutant: only a new Process gets evidence.
FirstOnly(w) == IF pass[w].why = "new" THEN 1 ELSE 0

\* An evidence link for every Process of the answer.
NewLinks(w) == 1

\* GraphWriter.add_evidence; then the update of a Process that changes.
Evidences(w) ==
    LET e == pass[w].event
        p == pass[w].at
    IN  /\ pass[w].step = "evidencing"
        /\ links' = [links EXCEPT ![e][p] = @ + NewLinks(w)]
        /\ IF pass[w].why = "changes" THEN Goes(w, "updating") ELSE Loops(w)
        /\ UNCHANGED <<itemVars, logged, table, journal, edges, histVars, countVars>>

\* The update agent refuses, or finds that nothing has changed, which leaves an
\* EVIDENCE_ADDED entry and no revision.
Unchanged(w) ==
    /\ pass[w].step = "updating"
    /\ Loops(w)
    /\ OnlyPass /\ UNCHANGED countVars

\* ProcessWriter.apply_update reads the current revision ...
UpdateReads(w) ==
    /\ pass[w].step = "updating"
    /\ pass' = [pass EXCEPT ![w].step = "applying", ![w].saw = table[pass[w].at].rev]
    /\ OnlyPass /\ UNCHANGED countVars

\* The primary key takes one row per revision.
Unwritten(w) == table[pass[w].at].rev = pass[w].saw

\* ... closes it, and writes the next one with its journal entry, ...
Applies(w) ==
    LET p == pass[w].at
    IN  /\ pass[w].step = "applying" /\ Unwritten(w)
        /\ table' = [table EXCEPT ![p].rev = pass[w].saw + 1, ![p].status = "active"]
        /\ journal' = [journal EXCEPT ![p] = Append(@, pass[w].event)]
        /\ Loops(w)
        /\ UNCHANGED <<itemVars, logged, edges, links, histVars, countVars>>

\* ... or meets a revision another event has written.
UpdateRaises(w) ==
    /\ pass[w].step = "applying" /\ ~Unwritten(w)
    /\ Raises(w)

\* The handler returns; the item succeeds, found by its id alone.
Finishes(w) ==
    LET e == pass[w].event
    IN  /\ pass[w].step = "looping"
        /\ pass[w].new = {} /\ pass[w].affected = {}
        /\ item' = [item EXCEPT ![e] = "done"]
        /\ short' = short \ {e}
        /\ pass' = [pass EXCEPT ![w] = Idle]
        /\ UNCHANGED <<tries, holder, logged, graphVars, broken, outlived, refused,
                       again, repeated, countVars>>

Next ==
    \/ \E e \in Event : Enqueues(e) \/ Reannounces(e) \/ Outlives(e)
    \/ \E w \in Worker, e \in Event : Claims(w, e)
    \/ \E w \in Worker :
          \/ Declines(w) \/ Answers(w)
          \/ Names(w) \/ Creates(w) \/ SlugRaises(w) \/ Affects(w)
          \/ LinkReads(w) \/ LinkRaises(w) \/ Relates(w) \/ RelateRaises(w)
          \/ Evidences(w) \/ Unchanged(w)
          \/ UpdateReads(w) \/ Applies(w) \/ UpdateRaises(w)
          \/ Finishes(w) \/ Stops(w)

Spec == Init /\ [][Next]_vars

-----------------------------------------------------------------------------
(* Properties.                                                              *)

Step == {"idle", "asked", "looping", "naming", "linking", "relating", "evidencing",
         "updating", "applying"}
Slug == Bases \X (Nat \ {0})

TypeOK ==
    /\ item \in [Event -> {"none", "queued", "running", "done", "dead"}]
    /\ tries \in [Event -> Nat]
    /\ holder \in [Event -> Worker \cup {None}]
    /\ logged \subseteq Event
    /\ table \in [Process -> [rev : Nat, slug : Slug \cup {None}, origin : Event \cup {None},
                              status : {"candidate", "active"}]]
    /\ journal \in [Process -> Seq(Event)]
    /\ edges \in [Event -> [Process -> Seq(Nat)]]
    /\ links \in [Event -> [Process -> Nat]]
    /\ pass \in [Worker -> [event : Event \cup {None}, step : Step,
                            shown : SUBSET Process, new : SUBSET Proposal,
                            affected : SUBSET Entries(Process),
                            at : Process \cup {None}, slug : Slug \cup {None},
                            saw : Nat, why : {"new", "changes", "bears"}]]
    /\ short \subseteq Event /\ broken \subseteq Event
    /\ outlived \subseteq Event /\ refused \subseteq Event
    /\ again \subseteq Event /\ repeated \subseteq Event
    /\ stops \in Nat /\ outlives \in Nat /\ refusals \in Nat /\ releases \in Nat

\* How often an event changed a Process.
Moves(e, p) == Cardinality({i \in DOMAIN journal[p] : journal[p][i] = e})

\* What the finder returns has left nothing behind: the run is recorded before the
\* first effect, so a sweep never repeats a pass that stored something.
SweptLeftNothing ==
    \A e \in Event \ logged, p \in Process :
        /\ edges[e][p] = <<>> /\ links[e][p] = 0
        /\ Moves(e, p) = 0 /\ table[p].origin # e

\* Every revision after the first has its own entry in the journal, whoever wrote
\* them and however their transactions overlapped: no update is lost.
RevisionPerChange ==
    \A p \in Known : table[p].rev = 1 + Len(journal[p])

\* An event that changed a Process is linked to it as evidence, and by an edge, at
\* least as often as it changed it; a kill between the transactions included.
ChangesAreEvidenced ==
    \A e \in Event, p \in Process :
        Moves(e, p) <= links[e][p] /\ (links[e][p] > 0 => edges[e][p] # <<>>)

\* An event's evidence counts twice for a Process only if a pass of it was broken off
\* or overlapped another, it was announced again after it had been discovered, or the
\* answer named the Process twice.
RepeatsAreAccounted ==
    \A e \in Event, p \in Process :
        links[e][p] > 1 => e \in broken \cup outlived \cup again \cup repeated

\* Two Processes about one development come from two events, or from passes of one
\* that overlapped: a retry is shown what the first attempt created.
TwinsAreOfTwoEvents ==
    \A p, q \in Known :
        /\ p # q /\ TopicOf(p) = TopicOf(q) /\ table[p].origin = table[q].origin
        => table[p].origin \in outlived

\* A pass that ended before its plan was done is tried again, unless the attempts
\* are spent, its lease was outlived, or the agent refused the second time.
ShortPassIsTriedAgain ==
    \A e \in short \ (outlived \cup refused) :
        \/ item[e] \in Open
        \/ item[e] = "dead" /\ tries[e] >= MaxTries

\* A second current edge, after which every relate of the pair raises, takes two
\* passes of one event at once.
OneEdgePerPair ==
    \A e \in Event, p \in Process : Len(edges[e][p]) > 1 => e \in outlived

\* A Process has the event it came from as evidence, unless the pass that created it
\* is still at it or was broken off.
CreatedIsEvidenced ==
    \A p \in Known :
        LET e == table[p].origin
        IN  \/ links[e][p] > 0
            \/ e \in broken
            \/ \E w \in Worker : pass[w].event = e /\ pass[w].at = p

(* What discovery wrote hangs together: a revision per journalled change, and
   evidence behind every change and every created Process. *)
ChangesAreWhole ==
    /\ TypeOK
    /\ RevisionPerChange
    /\ ChangesAreEvidenced
    /\ CreatedIsEvidenced

(* A pass that stopped half-way is tried again until its attempts are used up, the
   sweep repeats no pass that has written, and evidence that counts twice comes of a
   broken or outlived pass, a second announcement, or an answer that repeats itself. *)
BrokenPassIsRepaired ==
    /\ SweptLeftNothing
    /\ ShortPassIsTriedAgain
    /\ RepeatsAreAccounted

(* Two Processes on one topic come of two events, and two current edges between
   one pair of an outlived pass. *)
OneNodePerTopic ==
    /\ TwinsAreOfTwoEvents
    /\ OneEdgePerPair
=============================================================================
