SPECIFICATION Spec
CONSTANTS
    Tickers = {t1, t2}
    NoTicker = no_ticker
    Nodes = {n1, n2}
    Ids <- MCIds
INVARIANTS
    CallbacksAreScheduled
    NoStrayTick
    NoTickForgotten
    DirtyIsScheduled
PROPERTY
    TickersTick
