CONSTANTS
    r1 = r1
    r2 = r2
    manifest = manifest
    derived = derived
    report = report
    Runs = {r1, r2}
    Contents = {manifest, derived, report}
    RunOf <- Owner
    KindOf <- Stage
    Requests = {q1, q2}
    None = None
    CollectionBatch = 2
    MaxRows = 5
    MaxFailures = 1
    MaxCrashes = 1
SPECIFICATION Spec
INVARIANTS OnlyOverlapLosesContent PutKeepsItsRow OneRowPerContent StrayObjectsHaveACause
PROPERTIES ReferencesEndWithTheirRun WantedContentIsKept
CHECK_DEADLOCK FALSE
