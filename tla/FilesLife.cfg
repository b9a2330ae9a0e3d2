SPECIFICATION FilesSpec
CONSTANTS
    MaxSlices = 3
    Width = 1
    MaxCount = 2
    Unlimited = Unlimited
    FailingPods = {"split", "count", "slice", "merge", "cleanup"}
    MaxRepeats = 1
    MaxIgnored = 1
INVARIANTS
    FilesTypeOK
    SourceRemovedAfterMerge
    SlicesHaveInput
    NothingLeftBehind
    FilesInv
CHECK_DEADLOCK FALSE
