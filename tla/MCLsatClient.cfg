CONSTANTS
    Hash = {h1, h2, h3}
    MayCrash = TRUE
    MayFail = TRUE
    MayExpire = TRUE
SPECIFICATION FairSpec
INVARIANTS PayOnce Remembered
PROPERTY PaidIsPickedUp
\* With a broken token file the client is stuck.
CHECK_DEADLOCK FALSE
