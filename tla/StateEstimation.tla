-------------------------- MODULE StateEstimation --------------------------
(***************************************************************************)
(* The State of one Process (agents, state_stage.py, state_persistence.py, *)
(* state_agents.py).  A pass reads the Process and its evidence, has it    *)
(* classified if it has no Archetype, reads the State it had, asks an      *)
(* agent, and appends the State it is given if the move is permitted.      *)
(* Meanwhile discovery links evidence and writes revisions of the Process, *)
(* as ProcessDiscovery models.                                             *)
(*                                                                         *)
(* Passes of one Process overlap only when one outlives its lease.  Time   *)
(* advances with every commit, so no two rows are recorded at once.        *)
(***************************************************************************)
EXTENDS Archetypes, FiniteSets

CONSTANTS
    Worker, Feature, None,
    Machines,     \* the State machine of each Archetype
    MaxClock,     \* bound: commits
    MaxUpdates,   \* bound: revisions written by discovery
    MaxOverlaps,  \* bound: passes begun while another one runs
    MaxRedates    \* bound: events that are dated earlier by a later revision

Archetype == DOMAIN Machines
Label == UNION {States(Machines[a]) : a \in Archetype}

ASSUME StateAssumption ==
    /\ \A a \in Archetype : WellFormed(Machines[a])
    /\ \A a, b \in Archetype :
          States(Machines[a]) \cap States(Machines[b]) # {} => a = b
    /\ None \notin Archetype \cup Label
    /\ MaxClock \in Nat /\ MaxUpdates \in Nat
    /\ MaxOverlaps \in Nat /\ MaxRedates \in Nat

VARIABLES
    clock,     \* now
    evidence,  \* when the events linked to the Process occurred
    process,   \* its current revision
    beliefAt,  \* when its last CREATED or BELIEF_CHANGE entry was recorded
    beliefs,   \* how many BELIEF_CHANGE entries it has
    states,    \* its States, in the order of recording
    update,    \* the revision discovery has read and not written; 0: none
    pass,      \* what each worker is doing
    updates, overlaps, redates, \* history: what the bounds count
    undated    \* history: a pass began when no evidence was linked

worldVars == <<clock, evidence>>
rowVars   == <<process, beliefAt, beliefs, states>>
countVars == <<updates, overlaps, redates, undated>>
vars == <<worldVars, rowVars, update, pass, countVars>>

Idle == [step |-> "idle", asOf |-> 0, archetype |-> None, saw |-> 0, prior |-> None,
         measured |-> {}]

Init ==
    /\ clock = 1
    /\ evidence = {}
    /\ process = [rev |-> 1, archetype |-> None, created |-> 1]
    /\ beliefAt = 1 /\ beliefs = 0
    /\ states = <<>>
    /\ update = [saw |-> 0, archetype |-> None]
    /\ pass = [w \in Worker |-> Idle]
    /\ updates = 0 /\ overlaps = 0 /\ redates = 0
    /\ undated = FALSE

Commits == clock < MaxClock /\ clock' = clock + 1

-----------------------------------------------------------------------------
(* What discovery does to the Process.                                      *)

\* An event is linked, dated when it occurred or is expected to.
Links ==
    /\ Commits
    /\ \E t \in 0..(clock + 1) : evidence' = evidence \cup {t}
    /\ UNCHANGED <<rowVars, update, pass, countVars>>

\* A later revision of a linked event is dated earlier.
Redates ==
    /\ redates < MaxRedates /\ Commits
    /\ redates' = redates + 1
    /\ \E t \in evidence, u \in 0..clock :
          u < t /\ evidence' = (evidence \ {t}) \cup {u}
    /\ UNCHANGED <<rowVars, update, pass, updates, overlaps, undated>>

\* apply_update reads the current revision ...
UpdateReads ==
    /\ update.saw = 0 /\ updates < MaxUpdates
    /\ updates' = updates + 1
    /\ update' = [saw |-> process.rev, archetype |-> process.archetype]
    /\ UNCHANGED <<worldVars, rowVars, pass, overlaps, redates, undated>>

\* The primary key takes one row per revision.
Unwritten(saw) == process.rev = saw

\* The next revision of the Process, with its BELIEF_CHANGE entry.
Revises(saw, archetype) ==
    /\ Unwritten(saw) /\ Commits
    /\ process' = [rev |-> saw + 1, archetype |-> archetype, created |-> clock']
    /\ beliefAt' = clock' /\ beliefs' = beliefs + 1

\* ... copies it into the next one, or meets one another writer has written.
UpdateWrites ==
    /\ update.saw > 0
    /\ Revises(update.saw, update.archetype)
    /\ update' = [saw |-> 0, archetype |-> None]
    /\ UNCHANGED <<evidence, states, pass, countVars>>

UpdateRaises ==
    /\ update.saw > 0 /\ ~Unwritten(update.saw)
    /\ update' = [saw |-> 0, archetype |-> None]
    /\ UNCHANGED <<worldVars, rowVars, pass, countVars>>

-----------------------------------------------------------------------------
(* A pass of ProcessStateStage.run.                                         *)

\* Mutant: the oldest evidence dates the estimate.
Oldest ==
    IF evidence = {} THEN process.created
    ELSE CHOOSE t \in evidence : \A u \in evidence : t <= u

\* _as_of: the newest evidence; a Process without any is dated by its row.
AsOf ==
    IF evidence = {} THEN process.created
    ELSE CHOOSE t \in evidence : \A u \in evidence : u <= t

\* Mutant: every pass classifies.
Always == TRUE

NeedsArchetype == process.archetype = None

\* The pass reads the Process, its evidence, and the date of the newest.
Starts(w) ==
    LET others == \E v \in Worker \ {w} : pass[v].step # "idle"
    IN  /\ pass[w].step = "idle"
        /\ others => overlaps < MaxOverlaps
        /\ overlaps' = IF others THEN overlaps + 1 ELSE overlaps
        /\ undated' = (undated \/ evidence = {})
        /\ pass' = [pass EXCEPT ![w] = [Idle EXCEPT !.asOf = AsOf,
              !.archetype = process.archetype,
              !.step = IF NeedsArchetype THEN "classifying" ELSE "classified"]]
        /\ UNCHANGED <<worldVars, rowVars, update, updates, redates>>

\* A refusal, a rejected estimate, an exception or a kill.
Ends(w) ==
    /\ pass[w].step # "idle"
    /\ pass' = [pass EXCEPT ![w] = Idle]
    /\ UNCHANGED <<worldVars, rowVars, update, countVars>>

\* The agent names an Archetype; apply_archetype reads the current revision ...
ClassifyReads(w) ==
    /\ pass[w].step = "classifying"
    /\ \E a \in Archetype :
          pass' = [pass EXCEPT ![w].step = "applying", ![w].archetype = a,
                               ![w].saw = process.rev]
    /\ UNCHANGED <<worldVars, rowVars, update, countVars>>

\* ... and writes the next one; the pass ends (Ends) if another writer has.
Classifies(w) ==
    /\ pass[w].step = "applying"
    /\ Revises(pass[w].saw, pass[w].archetype)
    /\ pass' = [pass EXCEPT ![w].step = "classified", ![w].saw = 0]
    /\ UNCHANGED <<evidence, states, update, countVars>>

\* The latest of n States is the last by the date observed, then by recording.
IsLatest(i) ==
    \A j \in DOMAIN states :
        \/ states[j].observed < states[i].observed
        \/ states[j].observed = states[i].observed /\ j <= i
Latest == CHOOSE i \in DOMAIN states : IsLatest(i)

\* The latest State counts as a prior if it belongs to this Archetype.
PriorUnder(a) ==
    IF states = <<>> THEN None
    ELSE IF states[Latest].archetype = a THEN states[Latest].label ELSE None

LatestFeatures == IF states = <<>> THEN {} ELSE states[Latest].features

\* The pass reads the prior State and the features of the latest one, which it will
\* call measured, and asks the agent.
Asks(w) ==
    /\ pass[w].step = "classified"
    /\ pass' = [pass EXCEPT ![w].step = "asked", ![w].prior = PriorUnder(pass[w].archetype),
                            ![w].measured = LatestFeatures]
    /\ UNCHANGED <<worldVars, rowVars, update, countVars>>

\* Mutant: any State of the vocabulary will do.
AnyLabel(m, prior, label) == label \in States(m)

\* StateTransitionEvaluator: the prior again, or a move the machine allows.
Permitted(m, prior, label) ==
    /\ label \in States(m)
    /\ prior # None => label = prior \/ CanTransition(m, prior, label)

\* A feature the agent was given a value for is stored as measured.
MeasuredOf(answer, measured) == answer \cap measured

\* An estimate passes, and record_state appends it; a State may not be dated after
\* it is recorded.
\* A major move also marks the current revision for review in place: create sets
\* that mark, every revision copies it and nothing takes it back, so the row stays
\* as it is.
Records(w) ==
    LET a == pass[w].archetype
    IN  /\ pass[w].step = "asked" /\ Commits
        /\ pass[w].asOf <= clock'
        /\ \E label \in Label, answer \in SUBSET Feature :
              /\ Permitted(Machines[a], pass[w].prior, label)
              /\ states' = Append(states,
                    [archetype |-> a, label |-> label, observed |-> pass[w].asOf,
                     recorded |-> clock', features |-> answer,
                     measured |-> MeasuredOf(answer, pass[w].measured),
                     previous |-> PriorUnder(a)])
        /\ pass' = [pass EXCEPT ![w] = Idle]
        /\ UNCHANGED <<evidence, process, beliefAt, beliefs, update, countVars>>

Next ==
    \/ Links \/ Redates \/ UpdateReads \/ UpdateWrites \/ UpdateRaises
    \/ \E w \in Worker :
          Starts(w) \/ Ends(w) \/ ClassifyReads(w) \/ Classifies(w) \/ Asks(w) \/ Records(w)

Spec == Init /\ [][Next]_vars

-----------------------------------------------------------------------------
(* Properties.                                                              *)

TypeOK ==
    /\ clock \in Nat /\ evidence \subseteq Nat
    /\ process \in [rev : Nat, archetype : Archetype \cup {None}, created : Nat]
    /\ beliefAt \in Nat /\ beliefs \in Nat
    /\ states \in Seq([archetype : Archetype, label : Label, observed : Nat,
                       recorded : Nat, features : SUBSET Feature,
                       measured : SUBSET Feature, previous : Label \cup {None}])
    /\ update \in [saw : Nat, archetype : Archetype \cup {None}]
    /\ pass \in [Worker -> [step : {"idle", "classifying", "applying", "classified", "asked"},
                            asOf : Nat, archetype : Archetype \cup {None}, saw : Nat,
                            prior : Label \cup {None}, measured : SUBSET Feature]]
    /\ updates \in Nat /\ overlaps \in Nat /\ redates \in Nat
    /\ undated \in BOOLEAN

\* Discovery and classification write revisions of one row from what they read before:
\* each revision has its own entry in the journal, so neither undoes the other.
RevisionPerBelief == process.rev = 1 + beliefs

\* A Process is classified once, and an update that read it before it was classified
\* does not undo that, unless two passes overlapped.
ArchetypeStands ==
    [][process.archetype # None /\ overlaps = 0
          => process'.archetype = process.archetype]_vars

\* A move from one State to the next that the machine of its Archetype allows.
FollowsItsPrior(s) ==
    s.previous # None =>
        s.label \in {s.previous} \cup Targets(Machines[s.archetype], s.previous)

\* A State follows the one before it by a move the machine allows, although the prior
\* was read before the agent was asked and again when the State was stored; and the
\* machines of the ontology lead to each of their States.
StepsArePermitted ==
    /\ MachinesHold
    /\ overlaps = 0 => \A i \in DOMAIN states : FollowsItsPrior(states[i])

\* The State everything downstream reads is the one estimated last, unless passes
\* overlapped, a pass began before any evidence was linked and dated the State by the
\* row, or an event was dated earlier afterwards.
LatestIsLastRecorded ==
    overlaps = 0 /\ redates = 0 /\ ~undated /\ states # <<>> => Latest = Len(states)

\* A feature stored as measured was in a State recorded before.
MeasuredWasRecorded ==
    \A i \in DOMAIN states : \A f \in states[i].measured :
        \E j \in 1..(i - 1) : f \in states[j].features

\* state_persistence.py:163, "a feature the agent was given a measurement for is
\* measured, everything else is estimated": nothing measures a feature, so none is.
NoEstimateIsMeasured == \A i \in DOMAIN states : states[i].measured = {}

(* What estimation reads is what was recorded: a revision per belief, the latest
   state is the last one recorded, and a measured feature was recorded before. *)
BeliefsAreRecorded ==
    /\ TypeOK
    /\ RevisionPerBelief
    /\ LatestIsLastRecorded
    /\ MeasuredWasRecorded
=============================================================================
