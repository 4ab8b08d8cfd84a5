\* Two command threads without the serialisation of Spec.
CONSTANTS
    Threads = {t1, t2}
    Probes = {p1, p2}
    Places = {canon, alias}
    ModuleGlobals = {canon, alias}
    Late = {}
    Targets = {canon}
    ReadOnly = {}
    Exclusive = FALSE
    Orig = Orig
    NoFn = NoFn
SYMMETRY Interchangeable
SPECIFICATION Spec
INVARIANT OriginalRestored
CHECK_DEADLOCK FALSE
