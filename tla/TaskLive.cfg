SPECIFICATION FairCountedSpec
CONSTANTS
    Unlimited = Unlimited
    MaxSlices = 2
    MaxCount = 1
    FailingJobs = {}
    MaxLag = 1
    MaxFaults = 1
    MaxRestarts = 0
    MaxResyncs = 0
    MaxRevisits = 0
INVARIANTS
    BookingsBackedByJobs
    FailureRetried
    WInv
PROPERTIES
    EventuallyReady
    CompletionRecorded
    StepsImplementProgress
CHECK_DEADLOCK FALSE
