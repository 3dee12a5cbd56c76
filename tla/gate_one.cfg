SPECIFICATION Spec
CONSTANTS
    d1 = d1
    d2 = d2
    pc = pc
    NoDevice = NoDevice
    Dispatch <- OneDispatch
    Device <- OneComputer
    Paired <- OneComputer
    Kinds = {"chat", "agent"}
    Ingresses = {"desktop", "mobile", "browser", "cloud"}
    MaxSession = 2
    MaxEvictions = 1
INVARIANTS TypeOK PlacementInv NoSplitPlacement CloudStartsOnce AcceptedPayloadIsGone NoLeakedSlot
PROPERTIES EndedChatStaysEnded NeverRerouted ImplementsHandoff
CHECK_DEADLOCK FALSE
