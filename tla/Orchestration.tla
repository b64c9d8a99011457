--------------------------- MODULE Orchestration ---------------------------
(***************************************************************************)
(* The event path and the backstop around the queue: the outbox, the       *)
(* dispatcher, the worker's handler call and the reconciler (runner.py,    *)
(* events.py, pipeline.py), composed with WorkQueue.                       *)
(*                                                                         *)
(* What a stage works on is abstracted to one version number per key:      *)
(* input is the ontology state the stage reads, output the input its last  *)
(* committed effect was computed from, and stale what the stage's pending  *)
(* finder says, which asks what Asks names.  An event is abstracted to the *)
(* keys it schedules.                                                      *)
(***************************************************************************)
EXTENDS WorkQueue

CONSTANTS
    Dispatcher, Reconciler,  \* the two producers
    Root,         \* keys fed by ingestion: resolve_events, which has no finder
    Successor,    \* the keys scheduled by the event a key's stage emits
    Asks,         \* what the finder of a covered stage asks: is what it reads recorded
                  \* after its last effect ("newer"), has it had no effect yet ("first"),
                  \* has it had none and does a binding Bottleneck require it ("bound")
    MaxArrivals,  \* bound: changes made by ingestion
    MaxSkips,     \* bound: handler runs refused or failed without an exception
    MaxKills      \* bound: how often a producer process is killed

\* The keys of the stages build_orchestrator registers a finder for.
Covered == Key \ Root

ASSUME OrchestrationAssumption ==
    /\ Producer = {Dispatcher, Reconciler} /\ Dispatcher # Reconciler
    /\ Root \subseteq Key
    /\ Successor \in [Key -> SUBSET Covered]
    /\ \A k \in Key : k \notin Successor[k]
    /\ Asks \in [Covered -> {"newer", "first", "bound"}]
    /\ MaxArrivals \in Nat /\ MaxSkips \in Nat /\ MaxKills \in Nat

VARIABLES
    pending,   \* keys named by undispatched events the dispatcher has not read
    batch,     \* keys named by the events of the dispatcher's current pass
    todo,      \* keys each producer has still to enqueue in its current pass
    input, output, stale,
    phase,     \* how far each worker's handler is
    seen,      \* the input version the handler read
    owing,     \* keys with an effect whose event is not staged yet
    unpublished, \* root keys ingestion changed and has not announced
    arrivals,  \* history: changes made by ingestion so far
    raced,     \* history: keys changed behind a handler that had read already,
               \* until an effect is computed from their latest input
    skips, kills \* history: what MaxSkips and MaxKills bound

stageVars == <<input, output, stale, owing, raced, unpublished, arrivals, skips>>
passVars  == <<pending, batch, todo, kills>>
runVars   == <<phase, seen>>
ovars == <<vars, passVars, stageVars, runVars>>

KeyOf(w) == rows[holds[w]].key

OInit ==
    /\ Init
    /\ pending = {} /\ batch = {}
    /\ todo = [p \in Producer |-> {}]
    /\ input = [k \in Key |-> 0]
    /\ output = [k \in Key |-> 0]
    /\ stale = [k \in Key |-> FALSE]
    /\ phase = [w \in Worker |-> "idle"]
    /\ seen = [w \in Worker |-> 0]
    /\ owing = {} /\ raced = {} /\ unpublished = {}
    /\ arrivals = 0 /\ skips = 0 /\ kills = 0

-----------------------------------------------------------------------------
(* Ingestion: the change is committed first, the event published in a      *)
(* transaction of its own.                                                 *)

\* The keys that a worker executes and whose input it has read already.
BehindReaders ==
    {k \in Key : \E w \in Worker : phase[w] \notin {"idle", "claimed"} /\ KeyOf(w) = k}

Arrives(k) ==
    /\ arrivals < MaxArrivals
    /\ arrivals' = arrivals + 1
    /\ input' = [input EXCEPT ![k] = @ + 1]
    /\ stale' = [stale EXCEPT ![k] = TRUE]
    /\ raced' = raced \cup ({k} \cap BehindReaders)
    /\ unpublished' = unpublished \cup {k}
    /\ UNCHANGED <<vars, passVars, runVars, output, owing, skips>>

Publishes(k) ==
    /\ k \in unpublished
    /\ unpublished' = unpublished \ {k}
    /\ pending' = pending \cup {k}
    /\ UNCHANGED <<vars, batch, todo, kills, runVars,
                   input, output, stale, owing, raced, arrivals, skips>>

-----------------------------------------------------------------------------
(* Producers.  A pass lists the keys it will enqueue and then works        *)
(* through the list, one enqueue after the other.                          *)

Free(p) == p \notin raised /\ calling[p] = None /\ todo[p] = {}

DispatchReads ==
    /\ Free(Dispatcher) /\ batch = {}
    /\ pending # {}
    /\ batch' = pending
    /\ pending' = {}
    /\ todo' = [todo EXCEPT ![Dispatcher] = pending]
    /\ UNCHANGED <<vars, kills, stageVars, runVars>>

DispatchMarks ==
    /\ Free(Dispatcher)
    /\ batch # {}
    /\ batch' = {}
    /\ UNCHANGED <<vars, pending, todo, kills, stageVars, runVars>>

\* The finders are asked, and what they report is enqueued one by one.
Sweeps ==
    /\ Free(Reconciler)
    /\ \E k \in Covered : stale[k]
    /\ todo' = [todo EXCEPT ![Reconciler] = {k \in Covered : stale[k]}]
    /\ UNCHANGED <<vars, pending, batch, kills, stageVars, runVars>>

LooksFree(p, k) ==
    /\ k \in todo[p]
    /\ EnqueueLooks(p, k)
    /\ UNCHANGED <<passVars, stageVars, runVars>>

FindsOpen(p, k) ==
    /\ k \in todo[p]
    /\ p \notin raised /\ calling[p] = None
    /\ ~KeyIsFree(k)
    /\ todo' = [todo EXCEPT ![p] = @ \ {k}]
    /\ UNCHANGED <<vars, pending, batch, kills, stageVars, runVars>>

Inserts(p, i) ==
    /\ EnqueueInserts(p, i)
    /\ todo' = [todo EXCEPT ![p] = @ \ {calling[p]}]
    /\ UNCHANGED <<pending, batch, kills, stageVars, runVars>>

\* Mutant: the events are marked dispatched as they are read.
PassLostForGood(p) ==
    /\ todo' = [todo EXCEPT ![p] = {}]
    /\ batch' = IF p = Dispatcher THEN {} ELSE batch
    /\ UNCHANGED pending

\* A pass that ends early leaves its events pending.
PassLost(p) ==
    /\ todo' = [todo EXCEPT ![p] = {}]
    /\ batch' = IF p = Dispatcher THEN {} ELSE batch
    /\ pending' = IF p = Dispatcher THEN pending \cup batch ELSE pending

InsertRaises(p) ==
    /\ EnqueueRaises(p)
    /\ PassLost(p)
    /\ UNCHANGED <<kills, stageVars, runVars>>

\* The process is killed inside a pass.  An enqueue that has looked and not
\* inserted has committed nothing, so a kill there is one before the look.
ProducerDies(p) ==
    /\ p \notin raised /\ calling[p] = None
    /\ todo[p] # {} \/ (p = Dispatcher /\ batch # {})
    /\ kills < MaxKills
    /\ kills' = kills + 1
    /\ PassLost(p)
    /\ UNCHANGED <<vars, stageVars, runVars>>

ProducerRestarts(p) ==
    /\ RestartProducer(p)
    /\ UNCHANGED <<passVars, stageVars, runVars>>

-----------------------------------------------------------------------------
(* Workers.                                                                *)

Takes(w, i) ==
    /\ Claims(w, i)
    /\ phase' = [phase EXCEPT ![w] = "claimed"]
    /\ UNCHANGED <<passVars, stageVars, seen>>

TakeRaises(w, i) ==
    /\ ClaimRaises(w, i)
    /\ UNCHANGED <<passVars, stageVars, runVars>>

\* The handler loads its subject and evidence, then waits for the model.
Reads(w) ==
    /\ phase[w] = "claimed"
    /\ phase' = [phase EXCEPT ![w] = "read"]
    /\ seen' = [seen EXCEPT ![w] = input[KeyOf(w)]]
    /\ UNCHANGED <<vars, passVars, stageVars>>

\* Event resolution assigns Claims to Events and never takes one away; the other
\* stages record a revision that is current from then on, whatever it was read from.
Effect(k, v) == IF k \in Root /\ output[k] > v THEN output[k] ELSE v

\* What the finder of s says when what s reads has just changed; required are the
\* keys a binding Bottleneck requires then.
Reports(s, required) ==
    /\ Asks[s] = "newer" \/ output[s] = 0
    /\ Asks[s] = "bound" => s \in required

\* The handler commits its effect in transactions of its own.  A finder compares
\* when rows were recorded, or asks whether there are any: the effect answers it for
\* every change so far, those the handler never read included.
Writes(w) ==
    LET k == KeyOf(w) IN
    /\ phase[w] = "read"
    /\ k \in Root => seen[w] > output[k]
    /\ phase' = [phase EXCEPT ![w] = "written"]
    /\ output' = [output EXCEPT ![k] = Effect(k, seen[w])]
    /\ \E required \in SUBSET {s \in Successor[k] : Asks[s] = "bound"} :
          stale' = [s \in Key |-> IF s \in Successor[k] THEN Reports(s, required)
                                  ELSE s # k /\ stale[s]]
    /\ input' = [s \in Key |-> IF s \in Successor[k] THEN input[s] + 1 ELSE input[s]]
    /\ owing' = owing \cup {k}
    /\ raced' = (IF seen[w] = input[k] THEN raced \ {k} ELSE raced \cup {k})
                   \cup (Successor[k] \cap BehindReaders)
    /\ UNCHANGED <<vars, passVars, seen, unpublished, arrivals, skips>>

\* No unclustered Claim is left: event resolution returns no events.
NothingToDo(w) ==
    /\ phase[w] = "read"
    /\ KeyOf(w) \in Root /\ seen[w] <= output[KeyOf(w)]
    /\ phase' = [phase EXCEPT ![w] = "skipped"]
    /\ UNCHANGED <<vars, passVars, seen, stageVars>>

\* The model's answer is refused or invalid: the handler logs it, records no
\* effect and returns no events.
Skips(w) ==
    /\ phase[w] = "read"
    /\ skips < MaxSkips
    /\ skips' = skips + 1
    /\ phase' = [phase EXCEPT ![w] = "skipped"]
    /\ UNCHANGED <<vars, passVars, seen, input, output, stale, owing, raced, unpublished, arrivals>>

\* The handler's locals go with the call.
Forgets(w) ==
    /\ phase' = [phase EXCEPT ![w] = "idle"]
    /\ seen' = [seen EXCEPT ![w] = 0]

EventsStaged(k) ==
    /\ pending' = pending \cup Successor[k]
    /\ owing' = owing \ {k}

\* _complete: the item is done and its events are staged, in one transaction.
Finishes(w) ==
    /\ phase[w] \in {"written", "skipped"}
    /\ Completes(w)
    /\ IF phase[w] = "written"
       THEN EventsStaged(KeyOf(w))
       ELSE UNCHANGED <<pending, owing>>
    /\ Forgets(w)
    /\ UNCHANGED <<batch, todo, kills, input, output, stale, raced,
                   unpublished, arrivals, skips>>

\* Mutant: a handler that raises puts its item back, uncounted.
GivesUpAndRequeues(w) ==
    /\ phase[w] \in {"claimed", "read", "written"}
    /\ rows' = [rows EXCEPT ![holds[w]].status = "pending"]
    /\ holds' = [holds EXCEPT ![w] = None]
    /\ Forgets(w)
    /\ UNCHANGED <<calling, raised, up, crashes, slips, passVars, stageVars>>

\* The handler raises, before or after the transactions of its effect.
GivesUp(w) ==
    /\ phase[w] \in {"claimed", "read", "written"}
    /\ Fails(w)
    /\ Forgets(w)
    /\ UNCHANGED <<passVars, stageVars>>

Dies(w) ==
    /\ Crash(w)
    /\ Forgets(w)
    /\ UNCHANGED <<passVars, stageVars>>

WorkerRestarts(w) ==
    /\ RestartWorker(w)
    /\ UNCHANGED <<passVars, stageVars, runVars>>

TimePasses(i) ==
    /\ BackoffElapses(i) \/ LeaseExpires(i)
    /\ UNCHANGED <<passVars, stageVars, runVars>>

ONext ==
    \/ \E k \in Root : Arrives(k) \/ Publishes(k)
    \/ DispatchReads
    \/ DispatchMarks
    \/ Sweeps
    \/ \E p \in Producer :
          \/ \E k \in Key : LooksFree(p, k) \/ FindsOpen(p, k)
          \/ \E i \in Item : Inserts(p, i)
          \/ InsertRaises(p)
          \/ ProducerDies(p)
          \/ ProducerRestarts(p)
    \/ \E w \in Worker :
          \/ \E i \in Item : Takes(w, i) \/ TakeRaises(w, i)
          \/ Reads(w)
          \/ Writes(w)
          \/ NothingToDo(w)
          \/ Skips(w)
          \/ Finishes(w)
          \/ GivesUp(w)
          \/ Dies(w)
          \/ WorkerRestarts(w)
    \/ \E i \in Item : TimePasses(i)

OSpec == OInit /\ [][ONext]_ovars

\* Every process runs in a loop: the dispatcher reads, enqueues and marks, the
\* reconciler sweeps, a worker claims, runs and finishes; ended processes are
\* started again, ingestion publishes what it committed, time passes.
OFairness ==
    /\ WF_ovars(DispatchReads) /\ WF_ovars(DispatchMarks) /\ WF_ovars(Sweeps)
    /\ \A k \in Root : WF_ovars(Publishes(k))
    /\ \A p \in Producer :
          /\ WF_ovars(\/ \E k \in Key : LooksFree(p, k) \/ FindsOpen(p, k)
                      \/ \E i \in Item : Inserts(p, i)
                      \/ InsertRaises(p))
          /\ WF_ovars(ProducerRestarts(p))
    /\ \A w \in Worker :
          /\ WF_ovars(\E i \in Item : Takes(w, i) \/ TakeRaises(w, i))
          /\ WF_ovars(Reads(w) \/ Writes(w) \/ NothingToDo(w) \/ Skips(w)
                      \/ Finishes(w) \/ GivesUp(w))
          /\ WF_ovars(WorkerRestarts(w))
    /\ \A i \in Item : WF_ovars(TimePasses(i))

FairOSpec == OSpec /\ OFairness

-----------------------------------------------------------------------------
(* Properties.                                                             *)

Phases == {"idle", "claimed", "read", "written", "skipped"}

PassTypeOK ==
    /\ pending \in SUBSET Key /\ batch \in SUBSET Key
    /\ todo \in [Producer -> SUBSET Key]
    /\ kills \in 0 .. MaxKills
    /\ \A p \in Producer : calling[p] = None \/ calling[p] \in todo[p]
    /\ todo[Dispatcher] \subseteq batch
    /\ \A p \in raised : todo[p] = {}

StageTypeOK ==
    /\ input \in [Key -> Nat] /\ output \in [Key -> Nat]
    /\ stale \in [Key -> BOOLEAN]
    /\ owing \in SUBSET Key /\ raced \in SUBSET Key /\ unpublished \in SUBSET Root
    /\ arrivals \in 0 .. MaxArrivals /\ skips \in 0 .. MaxSkips

HandlerTypeOK ==
    /\ phase \in [Worker -> Phases] /\ seen \in [Worker -> Nat]
    /\ \A w \in Worker : phase[w] = "idle" <=> holds[w] = None

\* Type invariant of the composition: a worker's handler is running exactly when
\* it holds an item, a producer waits for an insert only inside its pass, and the
\* dispatcher's remaining keys are among those of its batch.
OTypeOK == PassTypeOK /\ StageTypeOK /\ HandlerTypeOK

\* Some item of key k will be run again, or is dead and waits for a human.
HasItem(k) ==
    \E i \in Item : rows[i].key = k /\ rows[i].status \in Unsettled \cup {"dead"}

\* Something will still make a stage look at key k, or a human must.
InMotion(k) ==
    \/ k \in unpublished \cup pending \cup batch
    \/ k \in Covered /\ stale[k]
    \/ HasItem(k)
    \/ \E j \in owing : HasItem(j) /\ k \in Successor[j]

\* The sweep answers for every change of a key whose finder compares times, and for
\* the first one of a key whose finder asks whether the stage ever ran.
Swept(k) ==
    /\ k \in Covered
    /\ \/ Asks[k] = "newer"
       \/ Asks[k] = "first" /\ output[k] = 0

\* The events answer for the others, as long as no handler skips one and no lease is
\* outlived: those of ingestion always, those of a handler if it is not event
\* resolution, which has nothing to announce when it is run again.
Announced(k) ==
    /\ skips = 0
    /\ k \in Root \/ (slips = 0 /\ \A r \in Root : k \notin Successor[r])

\* No change falls through: through kills of workers and producers, lost passes,
\* races of the two producers and failing handlers, a key behind its input is in
\* motion if the sweep or the events answer for it, unless the change came after the
\* running handler had read its input.
OnlyRacedChangesAreLost ==
    \A k \in Key :
        /\ input[k] > output[k]
        /\ k \notin raced
        /\ Swept(k) \/ Announced(k)
        => InMotion(k)

\* An effect whose events are not staged belongs to an item that will run again or
\* is dead: completing and staging are one transaction.  Event resolution is left
\* out: it finds nothing to do when it is run again.
EffectsAreAnnounced ==
    slips = 0 /\ skips = 0 => \A k \in owing \ Root : HasItem(k)

\* The composition runs the queue as WorkQueue specifies it.
ImplementsWorkQueue == Spec

ItemsUsedUp == \A i \in Item : rows[i].status # "absent"

\* At-least-once delivery: an event the dispatcher has yet to read leads to an open
\* item of every key it schedules, although passes are lost to kills and to races
\* with the reconciler.
EventReachesQueue ==
    \A k \in Key : k \in pending ~> (~KeyIsFree(k) \/ ItemsUsedUp)

\* The backstop: a covered key its finder reports leads to an open item, or the
\* report is withdrawn by an effect.
SweepReachesQueue ==
    \A k \in Covered : stale[k] ~> (~stale[k] \/ ~KeyIsFree(k) \/ ItemsUsedUp)

-----------------------------------------------------------------------------
(* What the docs say of the composition and the code does not do.          *)

\* "A dropped event is a delay, never a gap" (docs/orchestration.md:83): a stage
\* with a finder that is behind its input is in motion.
CoveredNeverGap == \A k \in Covered : input[k] > output[k] => InMotion(k)

\* "A stage cannot complete without its successor being scheduled"
\* (docs/orchestration.md:79), for event resolution too.
NoEffectUnannounced == skips = 0 => \A k \in owing : HasItem(k)

(* A change is either carried onward by an item, or was raced in a way the queue
   does not see; and effects without an announcement cost a skip or a slip. *)
ChangesAreCarried ==
    /\ OnlyRacedChangesAreLost
    /\ EffectsAreAnnounced

(* Both ways into the queue end there: a pending event through the dispatcher,
   a stale subject through the reconciler's sweep. *)
ChangesReachQueue ==
    /\ EventReachesQueue
    /\ SweepReachesQueue
=============================================================================
