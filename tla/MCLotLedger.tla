---------------------------- MODULE MCLotLedger ----------------------------
(* Scenarios for LotLedger: five trades over two option instruments.        *)
EXTENDS LotLedger, TLC

CONSTANTS t1, t2, t3, t4, t5, A, B

Tx(inst, effect, cash, qty, price) ==
    [inst |-> inst, effect |-> effect, cash |-> cash, qty |-> qty, price |-> price]

Sto(inst, qty, price) == Tx(inst, "opening", 1, qty, price)
Bto(inst, qty, price) == Tx(inst, "opening", -1, qty, price)
Btc(inst, qty, price) == Tx(inst, "closing", -1, qty, price)
Expire(inst, qty) == Tx(inst, "closing", 0, qty, 0)

\* t1 sells two A and buys a B (a spread), t2 sells one more A, t3 rolls one A
\* into a B, t4 buys back two A, t5 lets one A and the B expire.
MCLegs == [t \in Trade |->
    CASE t = t1 -> <<Sto(A, 2, 3), Bto(B, 1, 1)>>
      [] t = t2 -> <<Sto(A, 1, 5)>>
      [] t = t3 -> <<Btc(A, 1, 2), Sto(B, 1, 4)>>
      [] t = t4 -> <<Btc(A, 2, 1)>>
      [] OTHER -> <<Expire(A, 1), Expire(B, 1)>>]

MCExecutedAt == [t \in Trade |->
    CASE t = t1 -> 1 [] t = t2 -> 2 [] t = t3 -> 2 [] t = t4 -> 3 [] OTHER -> 4]

\* Workers and chains are interchangeable in every action and invariant.
WorkersAndChains == Permutations(Worker) \cup Permutations(Chain)

=============================================================================
