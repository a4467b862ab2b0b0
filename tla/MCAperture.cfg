CONSTANTS
    Configs = {{s1}, {s1, s2}}
    MaxPairs = 3
    V3 = TRUE
SPECIFICATION FairSpec
 
PROPERTIES ForeignCertKept StopTerminates ServerErrorEndsRun
CHECK_DEADLOCK FALSE
