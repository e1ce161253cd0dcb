SPECIFICATION MCReasmSpec
CONSTANTS
    StartSeq = 0
    GapTimeout = 2
    MaxSeq = 3
INVARIANTS
    NoneParkedAtEnd
