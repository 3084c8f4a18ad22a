CONSTANTS
    r1 = r1
    r2 = r2
    r3 = r3
    k = k
    NoKey = NoKey
    Jobs = {r1, r2, r3}
    Keys = {k}
    KeyOf <- SharedKey
    MaxTries = 1
    MaxRounds = 1
SYMMETRY SameKey
SPECIFICATION Spec
INVARIANTS
    OneJobPerKey
    StrandedOnlyByItsCreator
