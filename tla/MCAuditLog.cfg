SPECIFICATION Spec
CONSTANTS
    p1 = p1
    p2 = p2
    w1 = w1
    w2 = w2
    w3 = w3
    Processes = {p1, p2}
    Writes = {w1, w2, w3}
    Events <- MCEvents
    Filters <- MCFilters
    None = None
INVARIANTS
    OnlyTornLinesBreakTheLog
    WrittenIsRead
    LatestMatchesAreReturned
PROPERTY ReadersSeeAStore
CHECK_DEADLOCK FALSE
