\* Histories of three entries, two imports of any range of dates.
SPECIFICATION Spec
CONSTANTS
    Account = "account"
    Entries <- MCEntries
    Headings <- MCHeadings
    MaxEntries = 3
    MaxTime = 3
    MaxImports = 2
INVARIANTS  EveryFillBookedOnce OneTradePerOrder
CHECK_DEADLOCK FALSE
