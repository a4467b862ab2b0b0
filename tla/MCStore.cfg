CONSTANTS
    None = None
    Proc = {c1, c2}
    Key = {k1, k2}
    NumRetries = 2
SPECIFICATION Spec
INVARIANTS AtMostOneKey ConnUsesStoredKey
SYMMETRY Symmetry
CHECK_DEADLOCK FALSE
