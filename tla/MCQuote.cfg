\* The parameters are the ones of NewRelay; RoutingFeePPM and RoutingBudgetBeta
\* are given in thousandths, so that products fit TLC's integers.
CONSTANTS
    Prices = {5, 10, 8001}
    Amounts = {0, 12345, 1000000001}
    Expiries = {0, 300, 3600, 700000}
    Fees = {0, 1501}
    Cltvs = {0, 100, 1715, 1716}
    Steps = {300, 3300}
    MinAmountMsat = 10000
    MaxAmountMsat = 1000000000
    ExpiryBuffer = 300
    MaxExpiry = 604800
    MinFeeBudgetMsat = 1000
    RoutingBudgetAlpha = 1000
    RoutingBudgetBeta = 1500
    RoutingFeeBaseMsat = 1000
    RoutingFeePPM = 1
    CltvDeltaAlpha = 42
    CltvDeltaBeta = 42
    MaxCltvExpiry = 1800
    MinCltvExpiry = 200
    Million = 1000
    Width = 1073741824
    MaxLag = 300
    MaxTime = 3600
SPECIFICATION Spec
INVARIANTS  RouteFits
 
CHECK_DEADLOCK FALSE
