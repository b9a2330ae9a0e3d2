SPECIFICATION BpSpec
CONSTANTS
    Settings <- Suspensions
    MaxLag = 2
    MaxStatuses = 2
    MaxFaults = 0
    MaxRestarts = 0
INVARIANTS
    SuspendedAsShown
CHECK_DEADLOCK FALSE
