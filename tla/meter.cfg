SPECIFICATION Spec
CONSTANTS
    q1 = q1
    q2 = q2
    Request <- TwoRequests
    MaxCalls = 2
    Slots = 1
    Budget = 2
    MaxRequests = 2
    Charges = {2}
    MaxEvictions = 1
CONSTRAINT SecondIsPlain
INVARIANTS TypeOK OneExecution BooksBalance KeptResultIsFinal CancelReachesCall AdmissionIsHeld BilledForOneCall
CHECK_DEADLOCK FALSE
