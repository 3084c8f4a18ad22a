CONSTANTS
    r1 = r1
    r2 = r2
    r3 = r3
    k = k
    NoKey = NoKey
    Jobs = {r1}
    Keys = {}
    KeyOf <- OneRequest
    MaxTries = 2
    MaxRounds = 2
SPECIFICATION FairSpec
INVARIANTS
    PublishedCardIsTheWorkflows
    VerdictIsHumans
    VerdictIsOnVisibleCard
    RestingRowAgrees
PROPERTIES
    VisibleCardIsFinal
    ImplementsLifecycle
    StartedComesToRest
