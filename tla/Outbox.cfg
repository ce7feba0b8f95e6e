SPECIFICATION LiveSpec
CONSTANTS
    u1 = u1
    u2 = u2
    report = report
    tool = tool
    command = command
    Uploads <- MCUploads
    Earlier <- MCEarlier
    NameOf <- MCNameOf
    Sends <- MCSends
    Tools <- MCTools
    TTL = 1
    MaxTime = 2
    MaxTries = 2
INVARIANT KeptApart
INVARIANT VanishesByOthers
PROPERTY CallsEnd
CHECK_DEADLOCK FALSE
