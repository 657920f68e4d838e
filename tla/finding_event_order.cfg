CONSTANTS
    MaxReceipts = 2
    Sessions = {s1}
    Workspaces = {w1}
    Hooks = {"UserPromptSubmit", "PreToolUse"}
    ClockSteps = {0, 1}
    Delay <- NoDelay
    IdOrders <- AnyOrder
    MaxFailures = 0
    MaxCrashes = 0
    LifecycleBatch = 2
    NormalizationBatch = 2
    BaselineBatch = 2
    ReconciliationBatch = 2
    FinalizationBatch = 2
    RecoveryBatch = 4
    ClassificationBatch = 2
SPECIFICATION Safety
INVARIANTS EventsFollowProcessingOrder
