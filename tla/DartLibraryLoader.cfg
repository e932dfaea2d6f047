SPECIFICATION Spec
CONSTANTS
    Libraries = {mainlib, liba, libb}
    MainLibrary = mainlib
    Part = part
    Addresses = {p1, p2, p3, p4}
    AsksForLost = FALSE
CHECK_DEADLOCK FALSE
INVARIANTS
    WaitsForEveryJob
    MainComesLast
    PendingKnowsEveryJob
PROPERTY
    MainIsCalled
