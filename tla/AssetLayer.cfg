SPECIFICATION Spec
CONSTANTS
    Process = {p1, p2}
    BottleneckName = {"b1", "b2"}
    CapabilityName = {"cA", "cB", "cC"}
    Near <- MCNear
    Identifications <- MCIdentifications
    Trees <- MCTrees
    Worker = {w1, w2}
    MaxStates = 1
    MaxPasses = 2
    Alias <- MCAlias
    Instrument <- MCInstrument
    Discoveries <- MCDiscoveries
    MaxAssetPasses = 2
SYMMETRY MCSymmetry
CONSTRAINTS OneIrregularity Apart Settled
CHECK_DEADLOCK FALSE
INVARIANTS OneRowPerIdentity GraphIsWired WorkIsNotDropped
PROPERTY RevisionPerWrite
