SPECIFICATION Spec
CONSTANTS
    None = None
    line = line
    cycle = cycle
    Worker = {w1, w2}
    Feature = {f1}
    Machines <- MCMachines
    MaxClock = 6
    MaxUpdates = 1
    MaxOverlaps = 1
    MaxRedates = 1
SYMMETRY MCSymmetry
CONSTRAINT OneIrregularity
CHECK_DEADLOCK FALSE
INVARIANTS BeliefsAreRecorded StepsArePermitted
PROPERTY ArchetypeStands
