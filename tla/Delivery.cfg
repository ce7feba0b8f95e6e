SPECIFICATION DeliverySpec
CONSTANTS
    Texts <- MCTexts
    MaxLength = 6
    Limit = 3
INVARIANT ShownOnce
INVARIANT ShownWhole
CHECK_DEADLOCK FALSE
