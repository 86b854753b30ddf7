SPECIFICATION ConsoleSpec
CONSTANTS
    Clients = {c1, c2}
    MAX_CON = 2
    Procs = {0, 1}
    MAX_SEM = 1
    Names = {a}
    UNNAMED = UNNAMED
    Keys = {a, UNNAMED}
    EmptyKey = EmptyKey
    MAX_HASH_ELEM = 1
    ROW_SPAN = 6
    INITIAL_SEM = 1
    SEM_VALUE_MAX = 0
    MAX_NODES = 20
    KillsSleepers = FALSE
    MaxRef = 2
    MaxCount = 1
    MaxDebt = 1
SYMMETRY Symmetry
VIEW View
CHECK_DEADLOCK FALSE
INVARIANTS
    LinuxTypeOK
    EachCallInOnePlace
    DestroysAreLawful
    ConnectionsAreDistinct
