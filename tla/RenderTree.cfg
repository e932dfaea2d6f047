CONSTANTS
    view = view
    a = a
    b = b
    c = c
    none = none
    Nodes <- MCNodes
    Root <- view
    DisplayLists <- MCDisplayLists
    None <- none
    Programs <- MCPrograms
    Spare <- MCSpare
SPECIFICATION Spec
INVARIANTS
    MarksStopAtBoundary
    BoundariesAreAbove
    NothingLeftBehind
    PaintsCleanTree
    ParentsFollow
