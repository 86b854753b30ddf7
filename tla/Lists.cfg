SPECIFICATION Spec
CONSTANTS
    MAX_LISTS = 2
    MAX_NODES = 3
    Values = {1, 2, 3}
VIEW View
INVARIANTS
    NodesArePartitioned
    NodesOwnElements
PROPERTIES
    ListsAreSequences
    CursorSurvivesDelete
