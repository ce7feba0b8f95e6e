SPECIFICATION Spec
CONSTANTS
    b1 = b1
    b2 = b2
    c1 = c1
    g1 = g1
    Turns <- MCTurns
    Kind <- MCKind
INVARIANTS ClearedStaysCleared BatchesDoNotOverwrite HistoryIsWholeTurns
CHECK_DEADLOCK FALSE
