CONSTANTS
    gui = gui
    tool = tool
    Clients = {gui, tool}
    Gui = {gui}
    NoClient = NoClient
    Handles = {1, 2, 3}
    Bits = 2
    Cidrs <- MCCidrs
    MaxStarts = 2
    Faults = {"start", "create", "wait", "query", "tool", "crash"}
SPECIFICATION FairSpec
CHECK_DEADLOCK FALSE
INVARIANTS
    TypeOK
    OneOwner
    StopTakesOnlyParked
    ServedIsVerified
    RoutesFollow
PROPERTIES
    StopEndsLoop
    LineIsAnswered
