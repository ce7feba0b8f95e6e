SPECIFICATION AnsweredSpec
CONSTANTS
    s1 = s1
    r1 = r1
    Turns <- MCTurns
    Streaming <- MCStreaming
    MaxCalls = 2
    MaxAsks = 2
INVARIANT ExecutedWasApproved
INVARIANT TableIsWhatIsAwaited
INVARIANT WaitIsAnswerable
PROPERTY ImplementsApproval
PROPERTY TurnEnds
CHECK_DEADLOCK FALSE
