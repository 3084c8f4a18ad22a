CONSTANTS
    Size = 6
    Overlap = 2
    Documents <- MCDocuments
    Asked <- MCAsked
    MaxText = 8
    MaxLines = 4
    MaxLine = 7
    TopKs = {1, 2, 3}
    RRF = 60
    Header = 2
    MaxChars = 18
SPECIFICATION RSpec
INVARIANTS
    RubbishIsCutOff
