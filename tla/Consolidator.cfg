SPECIFICATION FairSpec
CONSTANTS
    a = a
    b = b
    f = f
    Topics <- MCTopics
    Texts <- MCTexts
    MinTurns = 1
    MaxTurns = 2
    MaxConcurrent = 1
    MaxPosts = 3
    MaxRestarts = 2
INVARIANT SlotsAccountedFor
INVARIANT OneRunPerTopic
INVARIANT RunsHaveNews
INVARIANT TornRunIsRedone
PROPERTY ImplementsDistiller
PROPERTY RunsEnd
CHECK_DEADLOCK FALSE
