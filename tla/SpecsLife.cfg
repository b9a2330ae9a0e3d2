SPECIFICATION SpecsSpec
CONSTANTS
    None = None
    MaxEdits = 2
    Templates <- SomeTemplates
    Customised <- MergeCustomised
INVARIANTS
    AdmittedWhenComplete
    DefinitionStable
    CommandRuns
