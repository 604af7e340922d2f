SPECIFICATION Spec
CONSTANTS
    p1 = p1
    p2 = p2
    w1 = w1
    w2 = w2
    w3 = w3
    Processes = {p1}
    Writes = {w1, w2, w3}
    Events <- MCEvents
    Filters <- MCFilters
    None = None
INVARIANT WrittenCanBeQueried
CHECK_DEADLOCK FALSE
