SPECIFICATION FairSpec
CONSTANTS
    m1 = m1  m2 = m2
    plain = plain  gated = gated
    Messages = {m1, m2}
    NoMessage = NoMessage
    Sops = {plain, gated}
    Key <- OwnKeys
    Match <- BothOrOne
    Gated <- OnlyB
    Cooling <- OnlyB
    Policy <- ParallelAndCoalesce
    MaxConcurrent <- OneEach
    MaxPending <- OneEach
    MaxTotal = 2
    WindowCap = 3
    Faults = {"claim", "save", "activate", "retain", "connection", "crash"}
    MaxFaults = 2
    Copies = 3
INVARIANTS AckedIsSettled StartedOnce AllOrNothing NoClaimLeaks
PROPERTIES IsBatched EveryMessageIsAcked
CHECK_DEADLOCK FALSE
