SPECIFICATION CountedSpec
CONSTANTS
    Unlimited = Unlimited
    MaxSlices = 3
    MaxCount = 2
    FailingJobs = {"slice"}
    MaxLag = 2
    MaxFaults = 0
    MaxRestarts = 0
    MaxResyncs = 0
    MaxRevisits = 0
INVARIANTS
    ConcurrencyLimit
    ListsDisjoint
    BookingsBackedByJobs
    SlotsUsed
    IInv
PROPERTIES
    StatusOnlyGrows
CHECK_DEADLOCK FALSE
