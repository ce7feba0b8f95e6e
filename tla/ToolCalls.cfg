SPECIFICATION LiveSpec
CONSTANTS
    s = s
    u = u
    s1 = s1
    u1 = u1
    u2 = u2
    get = get
    apply = apply
    Turns <- MCTurns
    Workers <- MCWorkers
    Owner <- MCOwner
    StaticAdmins <- MCStaticAdmins
    ToolsetTools <- MCToolsetTools
    AddedTools <- MCAddedTools
    SkipTools <- MCSkipTools
    Params <- MCParams
    Mutations <- MCMutations
    LoopWindow = 4
    LoopThreshold = 3
    MaxTurns = 2
INVARIANT MutationsByAdmins
INVARIANT OvershootIsBounded
PROPERTY CallsEnd
CHECK_DEADLOCK FALSE
