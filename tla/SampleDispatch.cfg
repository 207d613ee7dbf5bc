SPECIFICATION FairSampleSpec
CONSTANTS
    Gens = {g1, g2, g3}
    Slow = {g1}
    Slots = 2
    Retain = 1
    MayEnd = TRUE
    g1 = g1
    g2 = g2
    g3 = g3
INVARIANTS
    LedgerExact
PROPERTIES
    StalledUntilTimely
    TurnsWhileSlotsLast
