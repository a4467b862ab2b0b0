CONSTANTS
    None = None
    Word <- MCWord
    Req = {r1, r2}
    Hash = {h1}
    Ip = {a1}
    Path <- MCPath
    Services <- MCServices
    Quotes <- MCQuotes
    Extra <- MCExtra
    Hour = 0
    MaxTime = 1
    MaxCaveats = 1
    CountWidth = 4
    MayFail = TRUE
SPECIFICATION Spec
INVARIANT LimitsApply
SYMMETRY Symmetry
CHECK_DEADLOCK FALSE
