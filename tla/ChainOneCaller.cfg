\* One caller at a time: trades imported in any order, two DetectChains passes,
\* one call cut short.
SPECIFICATION Spec
CONSTANTS
    t1 = t1
    t2 = t2
    t3 = t3
    t4 = t4
    t5 = t5
    t6 = t6
    t7 = t7
    A = A
    B = B
    Share = Share
    None = None
    Error = Error
    Worker = {w1}
    Trade = {t1, t2, t3, t4, t5, t6, t7}
    Instrument = {A, B, Share}
    Shares = {Share}
    Legs <- MCLegs
    ExecutedAt <- MCExecutedAt
    Symbol <- MCSymbol
    MaxFailures = 1
    MaxScans = 2
INVARIANTS TypeOK ClosedChainHasNoOpenBalance FlatChainIsClosed
PROPERTIES ClosedChainIsFinal
CHECK_DEADLOCK FALSE
