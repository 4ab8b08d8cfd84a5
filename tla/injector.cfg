\* Two command threads, three probes, an attribute that patterns name, a cached
\* module global and a global that the application binds later.
CONSTANTS
    Threads = {t1, t2}
    Probes = {p1, p2, p3}
    Places = {canon, alias, late}
    ModuleGlobals = {canon, alias, late}
    Late = {late}
    Targets = {canon, alias}
    ReadOnly = {}
    Exclusive = TRUE
    Orig = Orig
    NoFn = NoFn
SYMMETRY Interchangeable
SPECIFICATION Spec
INVARIANT TypeOK
INVARIANT OriginalRestored
INVARIANT LiveProbeSeesCalls
INVARIANT NoDeadLink
INVARIANT UnwrapTerminates
PROPERTY ObserversIndependent
CHECK_DEADLOCK FALSE
