\* What the analysis makes of a run, from its rows to the moments shown: two
\* files or commands, batches of two candidates.
SPECIFICATION ContentSpec
CONSTANTS
    None = None
    Refused = Refused
    MaxExitCode = 255
    MaxNodes = 100
    MaxEdges = 200
    FingerprintBytes = 300
    GraphBytes = 300
    MaxSupport = 4
    MaxSummaries = 12
    MaxRelations = 16
    MaxExcerpts = 1
    InputBytes = 100
    MaxExpanded = 64
    MaxCitations = 32
    MaxCandidates = 7
    MaxFacts = 64
    MaxSelected = 1
    FileChanges <- MCFiles
    Commands <- MCCommands
    Seals <- MCSeals
    Proposals <- MCProposals
    MaxItems = 2
    MaxBatch = 2
    MaxWork = 3
INVARIANTS
    DocumentsAreAccepted
    AnswersAreJudged
    ShownMomentsAreTrue
    NothingBetterIsHidden
    TruncationIsAdmitted
CHECK_DEADLOCK FALSE
