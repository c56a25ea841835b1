SPECIFICATION HistorySpec
CONSTANTS
    w1 = w1
    w2 = w2
    Workers = {w1, w2}
    None = None
    RetryLimit = 5
    MaxPending = 1
    Faults = {}
INVARIANT RetriesAreBounded
