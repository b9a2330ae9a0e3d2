SPECIFICATION LongSpec
CONSTANTS
    MaxSlices = 11
    Width = 2
    MaxCount = 1
    Unlimited = Unlimited
    FailingPods = {}
    MaxRepeats = 0
    MaxIgnored = 0
INVARIANTS
    MergedTogetherAgain
CHECK_DEADLOCK FALSE
