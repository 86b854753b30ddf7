SPECIFICATION Spec
CONSTANTS
    INITIAL_SEM = 8
    MAX_LISTS = 17
INVARIANTS
    SlotsOwnPairs
    StalePointersAreHarmless
    ListsSuffice
