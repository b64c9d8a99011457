SPECIFICATION ReadsSpec
CONSTANTS
    TypeOf <- MCTypeOf
    SampleGraphs <- MCSampleGraphs
    FirstEdges <- MCFirstEdges
    Asserted <- MCAsserted
    Questions <- MCQuestions
    MaxClock = 3
    MaxWrites = 2
    FirstLog <- MCFirstLog
    Changes <- MCChanges
    AlertWindow = 1
    EvidenceWindow = 1
    TickDays = 60
    MaxChanges = 2
    Principal <- MCPrincipal
    Call = {one, two}
    AskedFor <- MCAskedFor
    Notes <- MCNotes
    MaxItems = 2
CONSTRAINT Apart
SYMMETRY MCSymmetry
CHECK_DEADLOCK FALSE
INVARIANTS GraphIsReadWhole FeedsAnswerForTheirMoment
PROPERTY WatchIsAnswered
