SPECIFICATION FairSpec
CONSTANTS
    d1 = d1
    d2 = d2
    pc = pc
    NoDevice = NoDevice
    Dispatch <- OneDispatch
    Device <- OneComputer
    Paired <- OneComputer
    Kinds = {"chat"}
    Ingresses = {"mobile", "browser"}
    MaxSession = 1
    MaxEvictions = 0
INVARIANT NoLostWakeup
PROPERTIES PlacementResolves ReceiptSettles
CHECK_DEADLOCK FALSE
