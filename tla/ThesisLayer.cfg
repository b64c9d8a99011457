SPECIFICATION Spec
CONSTANTS
    Event = {1, 2, 3, 4, 5}
    Against <- MCAgainst
    Documents <- MCDocuments
    Publishers <- MCPublishers
    Sources <- MCSources
    DateOf <- MCDateOf
    FirstMoment = 5
    MaxEvents = 3
    Severity = {1, 2}
    Assumption = {a1, a2}
    Worker = {w1, w2}
    Caller = {c1, c2}
    MaxStates = 1
    MaxCritiques = 2
    MaxCalls = 2
SYMMETRY MCSymmetry
CONSTRAINTS OneIrregularity Apart FewPasses TwoAtWork
CHECK_DEADLOCK FALSE
INVARIANTS CritiqueStands ScoresFollowTheCritic WorldsAreIndependent
