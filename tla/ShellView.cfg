SPECIFICATION Spec
CONSTANTS
    Windows = {w1, w2}
    NoWindow = no_window
    Sizes <- MCSizes
    EmptySize = empty
    MaxTasks <- MCMaxTasks
    MaxMessages <- MCMaxMessages
CHECK_DEADLOCK FALSE
INVARIANTS
    TypeOK
    OneFrameTask
    SurfaceNewsLeadToWindow
    ScheduledUpdateIsRequested
    RunsWhenVisible
    GLObjectsNeedSurface
PROPERTIES
    FramesKeepComing
    AnimatorIsFrameScheduler
