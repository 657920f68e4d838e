\* A session is resumed, ended and resumed again with the same payload.
SPECIFICATION LocalSpec
CONSTANTS
    Parts = {"delivery"}
    Providers = {p1}
    NoProvider = NoProvider
    Clients = {c1}
    Replacements <- OffOrOn
    MaxRevisions = 1
    MaxInstances = 1
    MaxCommands = 0
    MaxFaults = 2
    MaxReceipts = 3
    Sessions = {"s1"}
    Workspaces = {"w1"}
    Hooks = {"SessionStart", "SessionEnd"}
    ClockSteps = {1}
    Delay <- NoDelay
    IdOrders <- InsertionOrder
    MaxFailures = 0
    Payloads <- SessionPayloads
    MaxFirings = 3
    MaxLost = 0
    ReplayRuns = {run1}
    Questions = {q1}
    Unanswered = Unanswered
    MaxActions = 0
    MaxTries = 1
    MaxViews = 1
    MaxConnections = 0
    MaxDrops = 0
    MaxEvents = 0
INVARIANTS ResumedSessionIsActive
CHECK_DEADLOCK FALSE
