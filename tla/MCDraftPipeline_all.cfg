CONSTANTS
    Fields <- MCFields
    MaxTries = 2
    MaxAttempts = 3
    MaxFixes = 2
SPECIFICATION Spec
INVARIANTS
    CardIsTheJudgedOne
    ReworkHeedsTheReport
    RequestsAreBounded
