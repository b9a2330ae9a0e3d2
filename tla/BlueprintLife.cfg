SPECIFICATION BpFairSpec
CONSTANTS
    Settings <- Schedules
    MaxLag = 2
    MaxStatuses = 2
    MaxFaults = 2
    MaxRestarts = 2
INVARIANTS
    BpTypeOK
    ScanHasRights
    FollowsOnceQuiet
    BpInv
PROPERTIES
    NeverOlder
    CronJobFollows
CHECK_DEADLOCK FALSE
