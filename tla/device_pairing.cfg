SPECIFICATION Spec
CONSTANTS
    h1 = h1  h2 = h2
    t1 = t1  t2 = t2  t3 = t3
    Requests = {h1, h2}
    Tokens = {t1, t2, t3}
    Overlaps = {TRUE, FALSE}
    Faults = {"register", "registry", "save", "sync", "restart"}
    MaxCodes = 3
INVARIANTS CodeUsedOnce DecisionsStandInMemory DecisionsSurvive TokensAreManaged
SYMMETRY Interchangeable
CHECK_DEADLOCK FALSE
