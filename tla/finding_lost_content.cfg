CONSTANTS
    r1 = r1
    r2 = r2
    manifest = manifest
    derived = derived
    report = report
    Runs = {r1, r2}
    Contents = {manifest}
    RunOf <- OneOwner
    KindOf <- OneStage
    Requests = {q1}
    None = None
    CollectionBatch = 2
    MaxRows = 2
    MaxFailures = 0
    MaxCrashes = 1
SPECIFICATION Safety
INVARIANTS ReferencedContentExists
CHECK_DEADLOCK FALSE
