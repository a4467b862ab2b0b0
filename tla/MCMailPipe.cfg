CONSTANTS
    FrameLen = {1, 3, 5}
    BufSize = 2
    CopySize = 4
    MaxMsg = 3
    MayClose = TRUE
SPECIFICATION FairSpec
PROPERTIES ImplementsMailbox 
CHECK_DEADLOCK FALSE
