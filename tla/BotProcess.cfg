SPECIFICATION LiveSpec
CONSTANTS
    plain = plain
    secret = secret
    Clusters <- MCClusters
    Encrypted <- MCEncrypted
    MaxMessages = 3
    RestartAfter = 2
    ExitAfter = 4
    WedgeThreshold = 3
INVARIANT OrphansHaveACause
PROPERTY SilenceIsCured
PROPERTY StoppedProcessEnds
CHECK_DEADLOCK FALSE
