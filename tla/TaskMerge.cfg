SPECIFICATION CountedSpec
CONSTANTS
    Unlimited = Unlimited
    MaxSlices = 2
    MaxCount = 1
    FailingJobs = {}
    MaxLag = 2
    MaxFaults = 0
    MaxRestarts = 0
    MaxResyncs = 0
    MaxRevisits = 0
INVARIANTS
    MergeAfterAllSlices
CHECK_DEADLOCK FALSE
