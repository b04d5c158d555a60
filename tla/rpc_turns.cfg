SPECIFICATION Spec
CONSTANTS
    p1 = p1
    p2 = p2
    c1 = c1
    c2 = c2
    Prompts = {p1, p2}
    Callers = {c1, c2}
    NoTurn = NoTurn
    Overlap = TRUE
INVARIANTS LiveTurnCanBeStopped RemovalIsAttributed
PROPERTIES RemovalStopsTheTurns
SYMMETRY Interchangeable
