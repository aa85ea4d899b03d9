CONSTANTS
    toggle = toggle
    stop = stop
    Callers = {toggle, stop}
    MaxWorkers = 2
    MaxCalls = 2
    Faults = {"netsh", "stop"}
SPECIFICATION FairSpec
CHECK_DEADLOCK FALSE
INVARIANTS
    TypeOK
    LastAnswerIsTrue
PROPERTIES
    EveryCallReturns
