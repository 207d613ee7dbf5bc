SPECIFICATION FairSpec
CONSTANTS
    Gens = {g1, g2}
    Retain = 2
    MayEnd = TRUE
    JobCap = 2
    StallAfter = 1
    g1 = g1
    g2 = g2
INVARIANTS
    BuildingMeansOneBuild
    ForgetComesLast
PROPERTY
    EveryoneBuilt
