\* One import at a time; one hook call may be cut short between statements.
SPECIFICATION Spec
CONSTANTS
    t1 = t1
    t2 = t2
    t3 = t3
    t4 = t4
    t5 = t5
    A = A
    B = B
    X = X
    Y = Y
    c1 = c1
    None = None
    Worker = {w1}
    Trade = {t1, t2, t3, t4, t5}
    Chain = {c1, c2, c3}
    Instrument = {A, B}
    Legs <- MCLegs
    ExecutedAt <- MCExecutedAt
    MaxFailures = 1
    StockRows <- MCStockRows
    StrategyOf <- MCStrategyOf
INVARIANTS LotBalance OpenPositionHasOpenLot PositionMirrorsLedger RealizedPnLBalances
PROPERTIES FifoOrder ImplementsInventory
CHECK_DEADLOCK FALSE
