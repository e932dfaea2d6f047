CONSTANTS
    label = label
    button = button
    k1 = k1
    k2 = k2
    none = none
    container = container
    app = app
    x = x
    y = y
    NoKey = none
    Widgets <- MCWidgets
    MaxChildren = 3
    MaxSyncs = 2
    MaxRebuilds = 1
    Programs <- MCPrograms
    Components <- MCComponents
    Container = container
    MaxTimers = 4
    MaxPrograms = 4
    MaxEntries = 2
    MaxOverlays = 2
    FullProgress = 3
SPECIFICATION PartsSpec
CHECK_DEADLOCK FALSE
INVARIANTS
    ChildrenInOrder
    NodesAreReused
    BuiltOnce
    NoneForgotten
    ActiveTimersRun
    ProgramHasItsBundle
    OnlyCoveredPagesAreLeftOut
PROPERTIES
    DirtyComponentsGetBuilt
    NeverGoesBack
    PagesAreAStack
    PoppedPagesLeave
