SPECIFICATION Spec
CONSTANTS
    Unlimited = Unlimited
    MaxSlices = 1
    MaxCount = 1
    FailingJobs = {}
    MaxLag = 1
    MaxFaults = 0
    MaxRestarts = 1
    MaxResyncs = 1
    MaxRevisits = 1
INVARIANTS
    TypeOK
    StagesInOrder
    WaitsOnlyForPods
PROPERTIES
    ImplementsProgress
CHECK_DEADLOCK FALSE
