CONSTANTS
    t1 = t1
    t2 = t2
    Tasks = {t1, t2}
    Devices = {"android"}
    MaxStarts = 2
    Events = {"wifi", "toggle"}
    Faults = {"engine", "denied", "revoke"}
    Booted = FALSE
SPECIFICATION FairSpec
PROPERTIES
    BusyEnds
