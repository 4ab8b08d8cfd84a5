CONSTANTS
    a1 = a1
    a2 = a2
    p1 = p1
    p2 = p2
    Callers = {1, 2}
    MaxCommands = 2
    Frames <- LogAndObservation
    MaxSignals = 2
    StreamLimit = 1
    SlowAgent = TRUE
    RunSignals = 2
    StubbornScript = TRUE
    Attaches = {a1, a2}
    Processes = {p1, p2}
    Targetings <- OneOrTwoProcesses
    Debugger = {a2}
    Cleaners = {k}
    MaxAttempts = 1
    ViewOrder <- WatchAndStack
    Requests = {"w1", "w2"}
    Layouts <- SameOrOther
    PatternOf <- SamePattern
    Resets <- OwnAndAll
    FrameLimit = 1
    Fetchers = {"f1", "f2"}
    LogWorkers = {"l1"}
    MaxConns = 3
    MaxHides = 1
    Reporters = {"t1", "t2"}
    MaxEntries = 4
    ActivityLimit = 2
    MaxLines = 2
    LateFile = TRUE
    Methods = {"pep768", "gdb", "lldb"}
    MaxWaits = 2
    Tables = {"watch", "trace", "stack", "monitor"}
    Starts = {"x1", "x2"}
    Patternings <- OneOrTwoPatterns
    MaxRows = 2
    MaxShown = 3
    Pids = {"p"}
    MaxSelects = 2
    MaxConnects = 2
    Tabs = {"dashboard", "watch"}
    MaxTabMessages = 2
    Refreshers = {u1, u2}
    MaxPresses = 3
    MaxMeddling = 2
    NoRefresher = NoRefresher
    Askers = {q1, q2}
    Pollers = {y1, y2}
    Rows = {"r1"}
    MaxChanges = 2
    MaxVisits = 1
    NoPoller = NoPoller
SPECIFICATION Spec
INVARIANT TypesOK
INVARIANT StreamDemultiplexed
INVARIANT NothingRunsOn
INVARIANT ChildLookedAfter
INVARIANT AttachSound
INVARIANT TUISound
PROPERTY SignalEnds
PROPERTY CommandsReturn
CHECK_DEADLOCK FALSE
