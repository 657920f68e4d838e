\* The settings service, the installed runtime, hook delivery and the viewer.
SPECIFICATION LocalSpec
CONSTANTS
    Parts = {"settings", "runtime", "delivery", "viewer"}
    Providers = {p1, p2}
    NoProvider = NoProvider
    Clients = {c1, c2}
    Replacements <- OffOrOn
    MaxRevisions = 4
    MaxInstances = 2
    MaxCommands = 4
    MaxFaults = 2
    MaxReceipts = 3
    Sessions = {"s1"}
    Workspaces = {"w1"}
    Hooks = {"SessionStart", "SessionEnd", "UserPromptSubmit", "PreToolUse"}
    ClockSteps = {0}
    Delay <- NoDelay
    IdOrders <- InsertionOrder
    MaxFailures = 0
    Payloads <- MixedPayloads
    MaxFirings = 3
    MaxLost = 2
    ReplayRuns = {run1, run2}
    Questions = {q1, q2}
    Unanswered = Unanswered
    MaxActions = 2
    MaxTries = 2
    MaxViews = 2
    MaxConnections = 2
    MaxDrops = 1
    MaxEvents = 4
SYMMETRY Symmetry
INVARIANTS OneDaemonServes HooksHaveTheirLauncher AcceptedIsJournalled ShownTogether
PROPERTIES UpdatesAreNotLost AnswersStayShown KeepsAnswerPromise
CHECK_DEADLOCK FALSE
