SPECIFICATION Spec
CONSTANTS
    None = None
    grid = grid
    Event = {e1, e2}
    Process = {p1, p2}
    Worker = {w1, w2}
    Proposal <- MCProposal
    MaxTries = 2
    MaxStops = 1
    MaxOutlives = 1
    MaxRefusals = 1
    MaxReleases = 1
    MaxEntries = 2
SYMMETRY MCSymmetry
CONSTRAINT TwoIrregularities
CHECK_DEADLOCK FALSE
INVARIANTS ChangesAreWhole BrokenPassIsRepaired OneNodePerTopic
