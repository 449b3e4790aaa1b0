\* Two imports at a time: what every interleaving of their statements keeps.
SPECIFICATION Spec
CONSTANTS
    t1 = t1
    t2 = t2
    t3 = t3
    t4 = t4
    t5 = t5
    A = A
    B = B
    None = None
    Worker = {w1, w2}
    Trade = {t1, t2, t3, t4}
    Chain = {c1, c2}
    Instrument = {A, B}
    Legs <- MCLegs
    ExecutedAt <- MCExecutedAt
    MaxFailures = 1
INVARIANTS TypeOK LotWithinBounds SuccessIsComplete
SYMMETRY WorkersAndChains
CHECK_DEADLOCK FALSE
