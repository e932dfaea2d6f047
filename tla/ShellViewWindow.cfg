SPECIFICATION SafeSpec
CONSTANTS
    Windows = {w1, w2}
    NoWindow = no_window
    Sizes <- MCSizes
    EmptySize = empty
    MaxTasks <- MCMaxTasks
    MaxMessages <- MCMaxMessages
CHECK_DEADLOCK FALSE
INVARIANT
    SurfaceIsCreated
