SPECIFICATION FairSpec
CONSTANTS
    t1 = t1  t2 = t2  t3 = t3  t4 = t4
    s1 = s1  s2 = s2  s3 = s3  s4 = s4
    NoSlot = NoSlot
    Nobody = Nobody
    Tasks <- ThreeTasks
    Slots <- ThreeSlots
    MaxDepth = 2
    Sweeps = TRUE
    Drops = FALSE
INVARIANTS
    CountIsExact
PROPERTIES
    RefusedOnlyWhenFull
    IdleSlotIsRemoved
