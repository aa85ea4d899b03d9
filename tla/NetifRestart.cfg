CONSTANTS
    wifi = wifi
    cell = cell
    NoNet = NoNet
    Networks = {wifi, cell}
    MaxSessions = 2
    MaxLink = 1
    MaxPending = 2
    MaxCores = 1
    Faults = {}
SPECIFICATION Spec
INVARIANTS
    RegistryAgrees
