-------------------------- MODULE MCStockPosition --------------------------
(* Scenarios for StockPosition: X is bought and sold, Y is sold short,       *)
(* covered and bought; trades are imported in any order.                     *)
EXTENDS StockPosition

CONSTANTS x1, x2, x3, y1, y2, y3, X, Y

Tx(action, qty, price, fees, at) ==
    [action |-> action, qty |-> qty, price |-> price, fees |-> fees, at |-> at]

MCFills == [t \in Trade |->
    CASE t = x1 -> <<Tx("BTO", 2, 10, 7, 1)>>
      [] t = x2 -> <<Tx("STC", 1, 13, 1, 2), Tx("other", 1, 0, 0, 2),
                       Tx("STC", 1, 16, 0, 5)>>
      [] t = x3 -> <<Tx("BTO", 1, 14, 0, 4), Tx("BTO", 2, 11, 5, 3)>>
      [] t = y1 -> <<Tx("STO", 2, 20, 1, 1), Tx("STO", 1, 23, 3, 1)>>
      [] t = y2 -> <<Tx("BTC", 1, 18, 1, 2), Tx("BTC", 2, 25, 0, 3)>>
      [] OTHER -> <<Tx("BTO", 3, 24, 1, 4), Tx("STC", 2, 22, 0, 5)>>]

MCChainOf == [t \in Trade |-> IF t \in {x1, x2, x3} THEN X ELSE Y]

=============================================================================
