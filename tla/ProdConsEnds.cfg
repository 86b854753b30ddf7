SPECIFICATION PcInitSpec
CONSTANTS
    Parent = parent
    Child = child
    Procs = {parent, child}
    ITEMS = 6
    Keys = {}
    EmptyKey = EmptyKey
    MAX_HASH_ELEM = 2
    ROW_SPAN = 6
    INITIAL_SEM = 2
    SEM_VALUE_MAX = 35000
    MAX_NODES = 20
    KillsSleepers = FALSE
    MaxRef = 2
    MaxCount = 100
    MaxDebt = 2
CHECK_DEADLOCK FALSE
PROPERTIES
    EndsAndCleansUp
