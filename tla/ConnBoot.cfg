CONSTANTS
    t1 = t1
    Tasks = {t1}
    Devices = {"android"}
    MaxStarts = 2
    Events = {}
    Faults = {}
    Booted = TRUE
SPECIFICATION Spec
INVARIANTS
    LiveTunnelIsRouted
