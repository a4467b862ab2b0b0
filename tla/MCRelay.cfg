\* Two circuits of one process.
CONSTANTS
    Hash = {h1, h2}
    Process = {p1}
    CltvExpiry = 4
    CltvDeltaAlpha = 3
    MaxLag = 1
    MaxHeight = 5
    LndMayFail = TRUE
SPECIFICATION FairSpec
INVARIANTS GracefulExit AtomicSwap
PROPERTIES RecoveryWindow ImplementsSwap CircuitEnds DrainEnds
CHECK_DEADLOCK FALSE
