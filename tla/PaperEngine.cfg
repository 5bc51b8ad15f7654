CONSTANTS
    BTC = btc
    ETH = eth
    Symbols = {btc, eth}
    Capital = 7
    Scale = 10
    Slippage = 1
    Commission = 1
    Borrow = 2
    Funding = 1
    Cent = 9
    Orders <- MCOrders
    Bars <- MCBars
    MaxCalls = 5
    MaxTime = 2
SPECIFICATION Spec
INVARIANTS
    CashReconciles
    CarryIsExact
PROPERTIES
    FilledOrUndone
    StopsHold
CHECK_DEADLOCK FALSE
