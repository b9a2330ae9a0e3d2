SPECIFICATION SpecsSpec
CONSTANTS
    None = None
    MaxEdits = 1
    Templates <- SomeTemplates
    Customised <- MergeCustomised
INVARIANTS
    LabelsMerged
