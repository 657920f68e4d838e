CONSTANTS
    MaxReceipts = 3
    Sessions = {s1}
    Workspaces = {w1}
    Hooks = {"UserPromptSubmit", "PostToolBatch", "Stop", "StopFailure", "SessionEnd"}
    ClockSteps = {0, 1}
    Delay <- EvensDelayed
    IdOrders <- BothOrders
    MaxFailures = 0
    MaxCrashes = 0
    LifecycleBatch = 2
    NormalizationBatch = 2
    BaselineBatch = 2
    ReconciliationBatch = 4
    FinalizationBatch = 2
    RecoveryBatch = 4
    ClassificationBatch = 2
SPECIFICATION Safety
INVARIANTS FinalizationsReadable VerdictAnswersLastStop NoSourceEventAfterSeal EventsFollowResolution

