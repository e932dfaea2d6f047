SPECIFICATION SafeSpec
CONSTANTS
    Windows = {w1}
    NoWindow = no_window
    Sizes <- MCSizes
    EmptySize = empty
    MaxTasks = 2
    MaxMessages <- MCMaxMessages
CHECK_DEADLOCK FALSE
INVARIANT
    ContextExistsAtDestroy
