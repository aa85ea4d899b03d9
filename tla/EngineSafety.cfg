CONSTANTS
    c1 = c1
    c2 = c2
    Callers = {c1, c2}
    NoCaller = NoCaller
    MaxSessions = 2
    MaxBytes = 2
    MaxTime = 2
    PerSec = 2
    Faults = {"panic", "slowClose"}
SPECIFICATION Spec
SYMMETRY Symmetry
INVARIANTS
    TypeOK
    RunningIsTrue
    QuietAgreement
    ErrorHasMessage
    OneTunnel
    MeterHasOwner
PROPERTIES
    MeterSteps
    RefinesLifecycle
