CONSTANTS
    t1 = t1
    t2 = t2
    t3 = t3
    Tasks = {t1, t2, t3}
    Devices = {"android", "windowsTun", "windowsProxy"}
    MaxStarts = 3
    Events = {"toggle"}
    Faults = {"engine", "denied", "establish", "noDaemon", "daemonError"}
    Booted = FALSE
SPECIFICATION Spec
SYMMETRY Symmetry
INVARIANTS
    TypeOK
    ConnectedIsReal
    ErrorIsRolledBack
    DisconnectedIsClean
    TunIsOwn
    AbortedStopIsOff
