SPECIFICATION Spec
CONSTANTS
    Procs = {p1, p2, p3}
    Keys = {a}
    EmptyKey = EmptyKey
    MAX_HASH_ELEM = 2
    ROW_SPAN = 6
    INITIAL_SEM = 2
    SEM_VALUE_MAX = 1
    MAX_NODES = 20
    KillsSleepers = FALSE
    MaxRef = 3
    MaxCount = 2
    MaxDebt = 2
SYMMETRY Symmetry
VIEW View
CHECK_DEADLOCK FALSE
INVARIANTS
    BlockedListHoldsSleepers
    FsNeverStuck
PROPERTIES
    SlotsAreSemaphores
