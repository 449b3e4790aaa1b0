---------------------------- MODULE MCAnalytics ----------------------------
(* The scenarios of MCLotLedger beside a share position closed at a profit   *)
(* and one that is open.                                                    *)
EXTENDS MCLotLedger, Analytics

CONSTANTS X, Y, c1

MCStockRows == (X :> [pnl |-> 7, closedAt |-> 2]) @@ (Y :> [pnl |-> -2, closedAt |-> 0])

MCStrategyOf == [c \in Chain \cup {X, Y} |->
    IF c \in {X, Y} THEN "stock" ELSE IF c = c1 THEN "vertical" ELSE "single"]

=============================================================================
