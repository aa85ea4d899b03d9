CONSTANTS
    wifi = wifi
    cell = cell
    NoNet = NoNet
    Networks = {wifi, cell}
    MaxSessions = 1
    MaxLink = 1
    MaxPending = 2
    MaxCores = 2
    Faults = {"unbound"}
SYMMETRY MCSymmetry
CHECK_DEADLOCK FALSE
SPECIFICATION Spec
INVARIANTS
    TypeOK
    RegistryAgrees
    CoreAgrees
    StoppedIsEmpty
