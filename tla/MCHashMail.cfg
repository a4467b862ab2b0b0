\* One id that is created and torn down again and again, two callers.
CONSTANTS
    Id = {i1}
    Stream = {s1, s2}
    Handler = {h1, h2}
    Capacity = 1
    MaxPending = 1
    StaleTimer = TRUE
    MayStop = TRUE
SPECIFICATION FairSpec
INVARIANTS OneUserPerEnd TornDownOnce
PROPERTIES IdleIsRemoved TearDownReleases
CHECK_DEADLOCK FALSE
