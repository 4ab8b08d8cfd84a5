\* Two threads call a function with at most two wrappers; three monitors and one
\* watch on one slot; one monitor that two connections stop; traced calls of at
\* most four events, four deep; three levels of one logger; a reset and a stop of one
\* thing, or one of them of two.
CONSTANTS
    CallThreads = {t1, t2}
    Scenes <- FewWrappers
    Free = Free
    AsyncTasks = {t1, t2}
    Layers = 2
    Failing = {2}
    MaxValues = 2
    MaxOps = 3
    Monitors = {m1, m2, m3}
    Watches = {w1}
    StopAll = TRUE
    Body = Body
    NoWrap = NoWrap
    TimedMonitors = {m1}
    Stoppers = {k1, k2}
    Limits = {0, 1}
    MaxReports = 2
    Unheld = Unheld
    Root = root
    UserCodes = {f, g}
    StdCodes = {s}
    Wrapper = wrapper
    Features <- OneFeature
    DepthLimit = 4
    EventLimit = 4
    Loggers = {"lg"}
    Levels = {"info", "debug", "error"}
    LevelClients = {"cli", "view"}
    WatchRuns = {"w1", "w2"}
    Goods = {"mon", "sampler", "levels"}
    OwnerOf <- SomeOwners
    DetachOnly = {"top", "logger"}
    Contextual = {"mon", "sampler"}
    Matched = {"mon"}
    Situations <- SomeSituations
SPECIFICATION Spec
INVARIANT TypesOK
INVARIANT OutcomesKept
INVARIANT LimitOvershoot
INVARIANT EndsUndo
INVARIANT DirectCalleesListed
PROPERTY NobodyStuck
CHECK_DEADLOCK FALSE
