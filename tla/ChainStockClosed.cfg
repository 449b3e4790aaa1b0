\* An order closing shares and an option: internal/repository/interfaces.go:153.
SPECIFICATION Spec
CONSTANTS
    t1 = t1
    t2 = t2
    t3 = t3
    t4 = t4
    t5 = t5
    t6 = t6
    t7 = t7
    A = A
    B = B
    Share = Share
    None = None
    Error = Error
    Worker = {w1}
    Trade = {t5, t6}
    Instrument = {A, B, Share}
    Shares = {Share}
    Legs <- MCLegs
    ExecutedAt <- MCExecutedAt
    Symbol <- MCSymbol
    MaxFailures = 0
    MaxScans = 0
INVARIANTS StockChainNeverClosed
CHECK_DEADLOCK FALSE
