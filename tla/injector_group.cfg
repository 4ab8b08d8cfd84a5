\* One command thread; canon is a method (a class attribute, which no alias scan
\* sees) and alias a module global that holds it; patterns name both.
CONSTANTS
    Threads = {t1}
    Probes = {p1, p2, p3}
    Places = {canon, alias}
    ModuleGlobals = {alias}
    Late = {}
    Targets = {canon, alias}
    ReadOnly = {}
    Exclusive = TRUE
    Orig = Orig
    NoFn = NoFn
SYMMETRY Interchangeable
SPECIFICATION Spec
INVARIANT OriginalRestored
CHECK_DEADLOCK FALSE
