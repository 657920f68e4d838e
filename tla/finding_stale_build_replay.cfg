\* One view, one answer: a slow build replay arrives after a newer one.
SPECIFICATION LocalSpec
CONSTANTS
    Parts = {"viewer"}
    Providers = {p1}
    NoProvider = NoProvider
    Clients = {c1}
    Replacements <- OffOrOn
    MaxRevisions = 1
    MaxInstances = 1
    MaxCommands = 0
    MaxFaults = 2
    MaxReceipts = 3
    Sessions = {"s1"}
    Workspaces = {"w1"}
    Hooks = {"SessionStart", "SessionEnd"}
    ClockSteps = {1}
    Delay <- NoDelay
    IdOrders <- InsertionOrder
    MaxFailures = 0
    Payloads <- SessionPayloads
    MaxFirings = 3
    MaxLost = 0
    ReplayRuns = {run1}
    Questions = {q1}
    Unanswered = Unanswered
    MaxActions = 1
    MaxTries = 1
    MaxViews = 1
    MaxConnections = 1
    MaxDrops = 0
    MaxEvents = 2
PROPERTIES BuildReplayStaysNewest
CHECK_DEADLOCK FALSE
