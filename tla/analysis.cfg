CONSTANTS
    p1 = p1
    p2 = p2
    MaxAttempts = 2
    RequestIds = {id1}
    NoId = NoId
    Replies = {"completed", "transport_error"}
    MaxRuns = 2
    Providers = {p1, p2}
    NoProvider = NoProvider
    Clients = {c1}
    Kinds = {"rich", "unreadable"}
    Listing = 2
    GenerationBatch = 2
    MaxLate = 1
    Replacements <- TwoProviders
    MaxRevisions = 3
    MaxGenerations = 2
    MaxStops = 1
SPECIFICATION Spec
INVARIANTS ResultsHaveTheirSources OnlyLostAnswersAreBoughtAgain
    SecretStaysWithItsProvider AnswersCanBeRecorded
PROPERTIES KeepsCallPromise RunsAreAnalysed
