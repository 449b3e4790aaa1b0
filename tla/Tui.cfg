\* One user, answers in any order, every call may fail.
SPECIFICATION FairSpec
CONSTANTS
    a1 = a1
    a2 = a2
    c1 = c1
    c2 = c2
    c3 = c3
    c4 = c4
    t1 = t1
    t2 = t2
    t3 = t3
    i1 = i1
    i2 = i2
    None = None
    AccountIds <- MCAccountIds
    InitialAccounts <- MCInitialAccounts
    Inputs <- MCInputs
    Names = {"nick"}
    Symbols = {"", "SPY"}
    Books <- MCBooks
    Chains <- MCChains
    Legs <- MCLegs
    MaxTradePageSize = 1
    MaxCommands = 3
INVARIANTS TypeOK FormsAwaitTheirAnswer LoadedForSelection DetailFitsUnlessLate RowsMatchCursor RenameHitsPicked
PROPERTIES LoadingEnds FormsReturn
CHECK_DEADLOCK FALSE
