SPECIFICATION Spec
CONSTANTS
    MaxMessages = 3
    BatchMax = 3
INVARIANT DispatchedOnce
CHECK_DEADLOCK FALSE
