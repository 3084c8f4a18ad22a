CONSTANTS
    r1 = r1
    NoKey = NoKey
    Jobs = {r1}
    Keys = {}
    KeyOf <- OneRequest
    MaxTries = 2
    MaxRounds = 2
SPECIFICATION FairSpec
INVARIANTS
    VerdictShowsItsCard
    StageIsShown
    OnlyTheLastDraftShows
    DraftsAreCounted
PROPERTIES
    ImplementsLifecycle
    StartedComesToRest
