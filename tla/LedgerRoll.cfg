\* A roll inside one chain: docs/phase2.md:345.
SPECIFICATION Spec
CONSTANTS
    t1 = t1
    t2 = t2
    t3 = t3
    t4 = t4
    t5 = t5
    A = A
    B = B
    None = None
    Worker = {w1}
    Trade = {t2, t3}
    Chain = {c1}
    Instrument = {A, B}
    Legs <- MCLegs
    ExecutedAt <- MCExecutedAt
    MaxFailures = 0
INVARIANTS ClosedPositionHasNoOpenLot
CHECK_DEADLOCK FALSE
