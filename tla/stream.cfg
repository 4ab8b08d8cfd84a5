\* A stream connection that may stop reading or leave, observations from two
\* threads, a queue and a batch of two: three observations overflow either, and
\* the second of them cannot be encoded.
CONSTANTS
    Conns = {c1}
    Producers = {p1, p2}
    Flushers = {f1}
    Cap = 2
    MaxBatch = 2
    MaxSeq = 3
    Unsendable = {2}
    Overlap = FALSE
    NoConn = NoConn
SPECIFICATION Spec
INVARIANT TypeOK
INVARIANT Accounted
PROPERTY FifoPerConnection
PROPERTY Flushed
PROPERTY OrphanQueueRemoved
CHECK_DEADLOCK FALSE
