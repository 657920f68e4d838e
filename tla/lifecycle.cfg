CONSTANTS
    MaxReceipts = 4
    Sessions = {s1}
    Workspaces = {w1, w2}
    Hooks = {"SessionStart", "UserPromptSubmit", "PostToolBatch", "Stop", "StopFailure", "SessionEnd"}
    ClockSteps = {0}
    Delay <- EvensDelayed
    IdOrders <- BothOrders
    MaxFailures = 1
SPECIFICATION LifecycleSafety
SYMMETRY Symmetry
INVARIANTS CapturesNewestRun EndedCapturesNothing OneStopApplies
PROPERTIES TerminalIsFinal ActivityFollowsCapture KeepsRunPromise
CHECK_DEADLOCK FALSE
