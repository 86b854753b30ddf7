SPECIFICATION Spec
CONSTANTS
    Procs = {p1, p2}
    Keys = {a, b}
    EmptyKey = EmptyKey
    MAX_HASH_ELEM = 3
    ROW_SPAN = 6
    INITIAL_SEM = 3
    SEM_VALUE_MAX = 0
    MAX_NODES = 20
    KillsSleepers = FALSE
    MaxRef = 2
    MaxCount = 0
    MaxDebt = 0
SYMMETRY Symmetry
VIEW View
CHECK_DEADLOCK FALSE
INVARIANTS
    SameNameSameSemaphore
