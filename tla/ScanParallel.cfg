SPECIFICATION ScanSpec
CONSTANTS
    b1 = b1
    p1 = p1
    p2 = p2
    Blueprints = {b1}
    ScanPods = {p1, p2}
    MaxParallelTasks = 1
    MaxVersions = 2
    MaxDisturbances = 0
INVARIANTS
    ParallelTasksLimited
CONSTANTS
    Walk <- PlainWalk
    Accepted <- PlainMedia
CHECK_DEADLOCK FALSE
