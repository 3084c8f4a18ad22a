CONSTANTS
    d1 = d1
    d2 = d2
    c1 = c1
    Contents = {c1}
    ContentOf <- OneFile
    Batch = 1
    Docs = {d1, d2}
    MaxTries = 2
    MaxChunks = 2
SPECIFICATION FairSpec
INVARIANTS
    ChunksAreOneWholeAttempt
    IndexedMeansChunked
    CompletedIsSettled
    OneDocPerContent
    AnsweredHasDocument
PROPERTIES
    ParsingComesToRest
