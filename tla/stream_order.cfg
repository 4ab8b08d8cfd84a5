\* Two threads emit at the same time.
CONSTANTS
    Conns = {c1}
    Producers = {p1, p2}
    Flushers = {f1}
    Cap = 2
    MaxBatch = 2
    MaxSeq = 2
    Unsendable = {}
    Overlap = FALSE
    NoConn = NoConn
SPECIFICATION Spec
INVARIANT MonotonicSeq
CHECK_DEADLOCK FALSE
