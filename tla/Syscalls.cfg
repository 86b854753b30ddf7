SPECIFICATION SysSpec
CONSTANTS
    Procs = {p1, p2}
    Keys = {a}
    EmptyKey = EmptyKey
    MAX_HASH_ELEM = 2
    ROW_SPAN = 6
    INITIAL_SEM = 2
    SEM_VALUE_MAX = 0
    MAX_NODES = 20
    KillsSleepers = TRUE
    MaxRef = 2
    MaxCount = 1
    MaxDebt = 1
SYMMETRY Symmetry
VIEW View
CHECK_DEADLOCK FALSE
PROPERTIES
    FailuresSetErrno
    CallsKeepHandle
    GrantedIsReported
