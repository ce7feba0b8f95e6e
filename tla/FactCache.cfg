SPECIFICATION TimedSpec
CONSTANTS
    k1 = k1
    k2 = k2
    a = a
    b = b
    c = c
    r = r
    Topics <- MCTopics
    Texts <- MCTexts
    SimilarTexts <- MCSimilarTexts
    HardTexts <- MCHardTexts
    Readers <- MCReaders
    MaxRuns = 2
    MaxFacts = 3
INVARIANT CachedRunsAreWhole
PROPERTY CatchesUp
CHECK_DEADLOCK FALSE
