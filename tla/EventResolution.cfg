SPECIFICATION MCSpec
CONSTANTS
    None = None
    wire = wire
    update = update
    copy = copy
    own = own
    anon1 = anon1
    anon2 = anon2
    empty = empty
    agency = agency
    outlet = outlet
    c1 = c1
    c2 = c2
    c3 = c3
    e1 = e1
    e2 = e2
    w1 = w1
    w2 = w2
    Doc = {wire, update, copy, own, anon1, anon2, empty}
    PublisherOf <- MCPublisherOf
    Alike <- MCAlike
    Claim = {c1, c2, c3}
    Event = {e1, e2}
    Worker = {w1, w2}
    DocOf <- MCDocOf
    MinSources = 2
    MaxStops = 1
    MaxOverlaps = 1
    MaxSloppy = 1
SYMMETRY MCSymmetry
CONSTRAINT FewClaimsWhenIrregular
CHECK_DEADLOCK FALSE
INVARIANTS GroupsAreSound EvidenceIsCountedOnce GateHolds OnlyMissedReleasesAreLost
PROPERTY ImplementsIndependentSources
