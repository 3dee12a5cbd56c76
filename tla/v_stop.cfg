SPECIFICATION FairSpec
CONSTANTS
    d1 = d1
    Me = Me
    NoDevice = NoDevice
    Dispatch <- OneDispatch
    Submits = {"offer"}
    PromptFrames = TRUE
    MaxSession = 1
    MaxFaults = 1
    MaxStops = 1
CONSTRAINT FewFrames
PROPERTY StopReachesRun
CHECK_DEADLOCK FALSE
