CONSTANTS
    c1 = c1
    c2 = c2
    c3 = c3
    g1 = g1
    Chunks = {c1, c2, c3}
    Ghosts = {g1}
    Mentions <- NoMentions
    Masked = Masked
    Ruled = {c2}
    Lookalikes = {c3}
    TopK = 3
    Limit = 0
    MaxAttempts = 2
    MaxFixes = 1
SPECIFICATION Spec
INVARIANTS
    ResultCitesItsContext
