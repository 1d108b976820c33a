SPECIFICATION Spec
CONSTANTS
    Bodies <- MCBodies
    BuildsA <- MCBuildsA
    BuildsB <- MCBuildsB
    Thresh = 62
    QuickRatio <- MCQuickRatio
    Ratio <- MCRatio
INVARIANTS ClassesPartition ClassesAreRight MissesByQuickRatio
CHECK_DEADLOCK FALSE
