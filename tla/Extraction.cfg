SPECIFICATION Spec
CONSTANTS
    Ingester = {"feed", "files"}
    Content = {"article", "summary", "blank"}
    Kind = {"html", "text", "image"}
    Readable = {"html", "text"}
    TextOf <- MCTexts
    Source <- MCSource
    Limit = 2
    MaxKills = 1
    MaxOutages = 1
    MaxRuns = 2
    Extractor = {"x1", "x2"}
    Proposals <- MCProposals
    Misdated <- MCMisdated
    MaxAttempts = 2
    MaxExtractions = 2
CONSTRAINT Settled
CHECK_DEADLOCK FALSE
INVARIANTS DocumentsAreStoredOnce QuotesAreGrounded ExtractionRunsAreWhole
PROPERTY IntakeEnds
