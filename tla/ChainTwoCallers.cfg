\* Two callers at a time: two imports, or an import beside a scan begun first.
SPECIFICATION ContractSpec
CONSTANTS
    t1 = t1
    t2 = t2
    t3 = t3
    t4 = t4
    t5 = t5
    t6 = t6
    t7 = t7
    A = A
    B = B
    Share = Share
    None = None
    Error = Error
    Worker = {w1, w2}
    Trade = {t1, t2, t3, t4}
    Instrument = {A, B, Share}
    Shares = {Share}
    Legs <- MCLegs
    ExecutedAt <- MCExecutedAt
    Symbol <- MCSymbol
    MaxFailures = 0
    MaxScans = 1
INVARIANTS LinkSequenceDense OneChainPerTrade
CHECK_DEADLOCK FALSE
