SPECIFICATION FairSpec
CONSTANTS
    d1 = d1
    Me = Me
    NoDevice = NoDevice
    Dispatch <- OneDispatch
    Submits = {"offer", "own"}
    PromptFrames = TRUE
    MaxSession = 1
    MaxFaults = 1
    MaxStops = 0
CONSTRAINTS FewFrames CloudIsQuiet
INVARIANT LaunchedOnce
PROPERTY ReceiptArrives
CHECK_DEADLOCK FALSE
