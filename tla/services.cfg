CONSTANTS
    ca = ca
    cb = cb
    pb = pb
    jb = jb
    s1 = s1
    ConsumerIds = {ca, cb}
    Requestings <- OneOrTwo
    SizeOf <- Two
    ConsumerLimit = 2
    Probes = {pb}
    PublishingJobs = {jb}
    Publishers = {t1, t2}
    Sessions = {s1}
    NoSession = NoSession
    Readers = {ca}
    LastEvent = 2
    DrainLimit = 1
    NoItem = NoItem
    TopCommands = {k1, k2}
    MaxTops = 2
    MaxSamples = 1
    SlowThreads = TRUE
    MaxAgents = 2
    Dispositions = {"default", "ignored", "called"}
    MaxDepth = 4
    CaseIds = {d1, d2}
    Paths = {f}
    Connections = {k1, k2}
    MaxSections = 1
    MemoryClients = {"view", "cli"}
    ViewClient = "view"
    MaxSnapshots = 3
    RunIds = {"run"}
    WorkIds = {"work"}
    RecentLimit = 1
    LastSeq = 2
    MaxAge = 2
    CountedIds = {"w1"}
    Adders = {t1, t2}
    BufferSize = 1
    MaxAdded = 2
    MaxClears = 1
    NobodyHolds = NobodyHolds
SPECIFICATION Spec
INVARIANT TypesOK
INVARIANT RecordsSound
INVARIANT TopStoppable
INVARIANT StopUndoes
INVARIANT ExportsKept
INVARIANT MemorySound
PROPERTY ReaderPromise
 
CHECK_DEADLOCK FALSE
