CONSTANTS
    Modes = {"service"}
    MaxTokens = 3
    Faults = {"mkdir", "reclaim", "remove", "write", "scm", "kill"}
SPECIFICATION Spec
INVARIANTS
    TypeOK
    TokenAgrees
    ClientAgrees
    ChecksRelease
