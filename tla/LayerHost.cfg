SPECIFICATION Spec
CONSTANTS
    Sizes <- MCSizes
    EmptySize = empty
    IdSpace <- MCIdSpace
    Textures = {t1, t2, t3, t4}
    MaxHeld <- MCMaxHeld
INVARIANTS
    TypeOK
    TasksMatchState
    TextureHasOneOwner
    FrameFitsSurface
    OneLiveSurface
    EmbedderShowsCurrentSurface
PROPERTY
    IsFrameScheduler
