CONSTANTS
    label = label
    button = button
    k1 = k1
    k2 = k2
    none = none
    NoKey = none
    Widgets <- MCWidgets
    MaxChildren = 3
    MaxSyncs = 1
    MaxRebuilds = 2
    Programs <- MCRebuildsAlone
SPECIFICATION Spec
CHECK_DEADLOCK FALSE
INVARIANT SlotsAreSiblings
