CONSTANTS
    MaxReceipts = 3
    Sessions = {s1}
    Workspaces = {w1}
    Hooks = {"UserPromptSubmit", "Stop"}
    ClockSteps = {1}
    Delay <- NoDelay
    IdOrders <- InsertionOrder
    MaxFailures = 1
    MaxCrashes = 1
    LifecycleBatch = 2
    NormalizationBatch = 2
    BaselineBatch = 2
    ReconciliationBatch = 1
    FinalizationBatch = 2
    RecoveryBatch = 4
    ClassificationBatch = 2
SPECIFICATION Spec
INVARIANTS CapturingHasNoStop PreflightStillCurrent SealedOnce
PROPERTIES EveryReceiptResolved EveryStopGetsAVerdict EvidenceOnlyGrows

