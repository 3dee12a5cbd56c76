SPECIFICATION Spec
CONSTANTS
    d1 = d1
    d2 = d2
    pc = pc
    NoDevice = NoDevice
    Dispatch <- TwoDispatches
    Device <- OneComputer
    Paired <- OneComputer
    Kinds = {"agent"}
    Ingresses = {"mobile"}
    MaxSession = 1
    MaxEvictions = 0
SYMMETRY DispatchSymmetry
CONSTRAINTS FirstMinutes SteadyComputer NobodyStops PortableWork
INVARIANT CloudStartsOnce
CHECK_DEADLOCK FALSE
