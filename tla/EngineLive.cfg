CONSTANTS
    c1 = c1
    c2 = c2
    Callers = {c1, c2}
    NoCaller = NoCaller
    MaxSessions = 2
    MaxBytes = 0
    MaxTime = 0
    PerSec = 1
    Faults = {"panic", "slowClose"}
SPECIFICATION FairSpec
PROPERTIES
    StopReturnsUnlessStuck
    MeterForgetsSession
