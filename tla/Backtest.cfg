SPECIFICATION AllSpec
CONSTANTS
    Bars <- MCBars
    SignalLists <- MCSignalLists
    MaxBars = 4
    Capitals = {0}
    MinCapital = 1
    Commission <- MCThird
    Slippage <- MCThird
    Candles <- MCCandles
    MaxCandles = 6
    Fast = 1
    Slow = 2
    SignalSpan = 2
    ShortSpan = 2
    MediumSpan = 3
    LongSpan = 4
    RsiSpan = 2
    AtrSpan = 1
    MinSpread <- MCFifth
    BandSquare = 1
    Grid = 5
    MinCandles = 3
    Hints = {"momentum", "trend_following"}
    Responses <- MCResponses
INVARIANTS
    BooksReconcile
    StopsHold
    TradesAreSound
    ReportIsTrue
    SignalsAreMeant
CHECK_DEADLOCK FALSE
