----------------------------- MODULE Archetypes -----------------------------
(***************************************************************************)
(* Process Archetypes and their State machines (ontology, archetypes.py)   *)
(* and the size of a move between two States (agents, state_agents.py).    *)
(* A machine is a record: the States in developmental order, the moves it  *)
(* allows, and whether it is a cycle.                                      *)
(***************************************************************************)
EXTENDS Naturals, Sequences

States(m) == {m.sequence[i] : i \in DOMAIN m.sequence}

\* StateMachine.__post_init__: no move enters or leaves the sequence.
WellFormed(m) ==
    /\ \A i, j \in DOMAIN m.sequence : m.sequence[i] = m.sequence[j] => i = j
    /\ DOMAIN m.transitions \subseteq States(m)
    /\ \A s \in DOMAIN m.transitions : m.transitions[s] \subseteq States(m)

\* The place of a State in developmental order, from 1.
Ordinal(m, s) == CHOOSE i \in DOMAIN m.sequence : m.sequence[i] = s

Targets(m, s) == IF s \in DOMAIN m.transitions THEN m.transitions[s] ELSE {}
CanTransition(m, s, t) == t \in Targets(m, s)
TerminalStates(m) == {s \in States(m) : Targets(m, s) = {}}

\* adjacent_states up to a distance: a cycle wraps, a sequence ends.
Adjacent(m, s, distance) ==
    LET n == Len(m.sequence)
        i == Ordinal(m, s)
        At(k) == m.sequence[1 + ((k - 1) % n)]
    IN  {t \in States(m) \ {s} :
            \E d \in 1..distance :
                IF m.cyclical THEN t = At(i + d) \/ t = At(i + n - (d % n))
                ELSE Ordinal(m, t) = i + d \/ Ordinal(m, t) + d = i}

\* classify_transition: how far a move goes, and whether it goes back.
NoMove == [changed |-> FALSE, steps |-> 0, backwards |-> FALSE]

Significance(m, s, t) ==
    LET i == Ordinal(m, s)
        j == Ordinal(m, t)
    IN  IF s = t THEN NoMove
        ELSE [changed |-> TRUE, steps |-> IF i < j THEN j - i ELSE i - j,
              backwards |-> j < i]

\* A major move goes back before a human.
Major(move) == move.backwards \/ move.steps > 1

\* _linear: one step forward along the sequence, and what is allowed besides.
Linear(sequence, extra) ==
    [s \in {sequence[i] : i \in DOMAIN sequence} |->
        {sequence[i + 1] : i \in {k \in 1..(Len(sequence) - 1) : sequence[k] = s}}
        \cup {e[2] : e \in {x \in extra : x[1] = s}}]

Machine(sequence, extra, cyclical) ==
    [sequence |-> sequence, transitions |-> Linear(sequence, extra), cyclical |-> cyclical]

SCurve == <<"discovery", "early_adoption", "acceleration", "infrastructure_expansion",
            "saturation", "maturity">>
Commodity == <<"weak_demand", "demand_recovery", "inventory_draw", "supply_tightness",
               "price_acceleration", "supply_response", "oversupply", "downcycle">>
IndustrialBottleneck == <<"constraint_emerging", "constraint_binding", "response_mobilization",
                "buildout", "capacity_delivery", "constraint_relieved">>
Regulatory == <<"announced", "enacted", "rulemaking", "implementation",
                "compliance_buildout", "enforcement", "normalization">>
Disruption == <<"trigger", "experimentation", "behavior_shift", "substitution",
                "incumbent_response", "reallocation", "new_equilibrium">>

STATE_MACHINES ==
    [infrastructure_s_curve |-> Machine(SCurve, {<<"acceleration", "saturation">>}, FALSE),
     commodity_supply_cycle |-> Machine(Commodity, {<<"downcycle", "weak_demand">>}, TRUE),
     industrial_bottleneck |-> Machine(IndustrialBottleneck,
         {<<"buildout", "capacity_delivery">>, <<"buildout", "response_mobilization">>}, FALSE),
     regulatory_implementation |-> Machine(Regulatory,
         {<<"implementation", "compliance_buildout">>, <<"implementation", "rulemaking">>}, FALSE),
     business_model_disruption |-> Machine(Disruption, {}, FALSE)]

-----------------------------------------------------------------------------
\* What a Process may come to, from the first State on.
Reached(m) ==
    LET after[n \in 1..Len(m.sequence)] ==
            IF n = 1 THEN {m.sequence[1]} ELSE after[n - 1] \cup UNION {Targets(m, s) : s \in after[n - 1]}
    IN after[Len(m.sequence)]

\* Every State is come to, a machine ends unless it is a cycle, a move goes no
\* further than the State after the next, and neighbours are neighbours of each
\* other, around the end of a cycle too (archetypes.py:123-164).
MachineHolds(m) ==
    /\ WellFormed(m)
    /\ Reached(m) = States(m)
    /\ TerminalStates(m) = {} <=> m.cyclical
    /\ \A s \in States(m) :
          /\ Targets(m, s) \subseteq Adjacent(m, s, 2)
          /\ \A t \in States(m) : \A d \in 1..Len(m.sequence) : t \in Adjacent(m, s, d) <=> s \in Adjacent(m, t, d)
          \* The move that closes a cycle counts as a reversal.
          /\ \A t \in Targets(m, s) :
                Major(Significance(m, s, t)) <=> t # s /\ (Ordinal(m, t) # Ordinal(m, s) + 1)

MachinesThatFail == {a \in DOMAIN STATE_MACHINES : ~MachineHolds(STATE_MACHINES[a])}
\* The five machines of the ontology hold together.
MachinesHold == MachinesThatFail = {}
=============================================================================
