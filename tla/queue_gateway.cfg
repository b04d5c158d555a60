SPECIFICATION Spec
CONSTANTS
    t1 = t1  t2 = t2  t3 = t3  t4 = t4
    s1 = s1  s2 = s2  s3 = s3  s4 = s4
    NoSlot = NoSlot
    Nobody = Nobody
    Tasks <- FourTasks
    Slots <- TwoSlots
    MaxDepth = 2
    Sweeps = FALSE
    Drops = TRUE
INVARIANTS
    TypeOK
    MutualExclusion
    DepthWithinBound
PROPERTIES
    IsMutex
