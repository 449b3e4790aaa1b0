-------------------------- MODULE MCChainDetection --------------------------
(* Scenarios for ChainDetection: trades in two options A and B and in        *)
(* shares of one underlying.                                              *)
EXTENDS ChainDetection

CONSTANTS t1, t2, t3, t4, t5, t6, t7, A, B, Share

Tx(inst, effect, qty) == [inst |-> inst, effect |-> effect, qty |-> qty]

\* t1 opens two A, t2 rolls an A into a B, t3 closes a B, t4 an A and a B,
\* t5 buys a share, t6 sells the share and closes a B in one order, t7 buys a
\* share and closes a B in one order.
MCLegs == [t \in Trade |->
    CASE t = t1 -> <<Tx(A, "opening", 2)>>
      [] t = t2 -> <<Tx(A, "closing", 1), Tx(B, "opening", 1)>>
      [] t = t3 -> <<Tx(B, "closing", 1)>>
      [] t = t4 -> <<Tx(A, "closing", 1), Tx(B, "closing", 1)>>
      [] t = t5 -> <<Tx(Share, "opening", 1)>>
      [] t = t6 -> <<Tx(Share, "closing", 1), Tx(B, "closing", 1)>>
      [] OTHER -> <<Tx(B, "closing", 1), Tx(Share, "opening", 1)>>]

MCExecutedAt == [t \in Trade |->
    CASE t = t1 -> 1 [] t = t2 -> 2 [] t = t3 -> 3 [] t = t4 -> 3
      [] t = t5 -> 1 [] t = t6 -> 4 [] OTHER -> 2]

MCSymbol == [t \in Trade |-> "SPY"]

=============================================================================
