CONSTANTS
    t1 = t1
    t2 = t2
    NoRow = NoRow
    Tasks = {t1, t2}
    Moves = {"patch", "toggle"}
    MaxChanges = 2
    MaxStarts = 1
SPECIFICATION Spec
CHECK_DEADLOCK FALSE
INVARIANTS
    MemoryIsSaved
