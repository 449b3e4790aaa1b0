\* Two requests for exports that overlap, one after the other or at once, one failure.
SPECIFICATION FairSpec
CONSTANTS
    t1 = t1
    t1part = t1part
    t1late = t1late
    t2 = t2
    bad = bad
    A = A
    B = B
    X = X
    None = None
    Error = Error
    Worker = {w1, w2}
    Trade = {t1, t1part, t1late, t2, bad}
    Instrument = {A, B, X}
    TradeId <- MCTradeId
    Rows <- MCRows
    Underlying <- MCUnderlying
    ExecutedAt <- MCExecutedAt
    File <- Exports
    MaxImports = 2
    MaxFailures = 1
INVARIANTS ImportedIsComplete NothingDropped FillsBookedOnce LotsFollowChains
PROPERTIES HookCalledAsAssumed RequestsReturn
CHECK_DEADLOCK FALSE
