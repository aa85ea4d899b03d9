CONSTANTS
    t1 = t1
    t2 = t2
    NoRow = NoRow
    Tasks = {t1, t2}
    Moves = {"patch", "toggle", "fail", "throw", "crash", "reboot"}
    MaxChanges = 3
    MaxStarts = 3
SPECIFICATION Spec
CHECK_DEADLOCK FALSE
INVARIANTS
    TypeOK
    BootFlagFollows
    
    ChoicesAreKept
    KillSwitchIsShown
