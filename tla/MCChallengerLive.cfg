CONSTANTS
    Invoice = {i1}
    NoHash = {}
    Call = {c1}
    WantState = {"SETTLED"}
    StreamFault = {"eof", "badHash"}
    DbMayFail = FALSE
SPECIFICATION FairSpec
PROPERTIES CallReturns StopReturns FaultStopsServing
