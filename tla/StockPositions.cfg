\* One import at a time, trades of two symbols in any order, one call cut short.
SPECIFICATION Spec
CONSTANTS
    x1 = x1
    x2 = x2
    x3 = x3
    y1 = y1
    y2 = y2
    y3 = y3
    X = X
    Y = Y
    None = None
    Worker = {w1}
    Trade = {x1, x2, x3, y1, y2, y3}
    Chain = {X, Y}
    Fills <- MCFills
    ChainOf <- MCChainOf
    MaxFailures = 1
INVARIANTS TypeOK ClosedIffFlat BooksBalance AverageWithinFills OkBooksAll
CHECK_DEADLOCK FALSE
