SPECIFICATION ProdConsSpec
CONSTANTS
    Clients = {p1, k1}
    Producers = {p1}
    Consumers = {k1}
    sem_prod = sem_prod
    sem_cons = sem_cons
    CAPACITY = 1
    INPUT = 1
    MAX_CON = 2
    Procs = {0, 1}
    Keys = {sem_prod, sem_cons}
    EmptyKey = EmptyKey
    MAX_HASH_ELEM = 4
    ROW_SPAN = 6
    INITIAL_SEM = 4
    SEM_VALUE_MAX = 1
    MAX_NODES = 20
    KillsSleepers = FALSE
    MaxRef = 10
    MaxCount = 10
    MaxDebt = 10
CHECK_DEADLOCK FALSE
PROPERTIES
    EveryCharacterIsServed
