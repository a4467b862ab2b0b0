\* One invoice with a hash, two concurrent calls, every fault.
CONSTANTS
    Invoice = {i1}
    NoHash = {}
    Call = {c1, c2}
    WantState = {"SETTLED"}
    StreamFault = {"eof", "err", "badHash"}
    DbMayFail = TRUE
SPECIFICATION Spec
INVARIANTS VerifiedIsPaid NoLostWakeup  PaidHasSettledAt
PROPERTIES  ImplementsChecker
SYMMETRY SymmetricCalls
