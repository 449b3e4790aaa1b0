------------------------------- MODULE MCTui -------------------------------
(* Two accounts at most: a1 exists, a2 may be created or exist too.  The     *)
(* books of a1 hold an option, a stock and a closed position, those of a2 a  *)
(* future.                                                                   *)
EXTENDS Tui

CONSTANTS a1, a2, c1, c2, c3, c4, t1, t2, t3, i1, i2

MCAccountIds == <<a1, a2>>
MCInitialAccounts == <<[id |-> a1, broker |-> "tastytrade", number |-> "1", name |-> ""]>>
MCInputs == {[broker |-> "tastytrade", number |-> "1", name |-> ""],
             [broker |-> "other", number |-> "2", name |-> ""]}

Pos(account, chain, open, stock, rank) ==
    [account |-> account, chain |-> chain, open |-> open, stock |-> stock, rank |-> rank]
MCBooks ==
    (a1 :> [positions |-> <<Pos(a1, c2, TRUE, TRUE, 3), Pos(a1, c1, TRUE, FALSE, 2), Pos(a1, c3, FALSE, FALSE, 2)>>,
            trades |-> <<[id |-> t1, symbol |-> "SPY"], [id |-> t2, symbol |-> "QQQ"]>>])
 @@ (a2 :> [positions |-> <<Pos(a2, c4, TRUE, FALSE, 1)>>,
            trades |-> <<[id |-> t3, symbol |-> "SPY"]>>])

Leg(action, instrument, qty) == [action |-> action, instrument |-> instrument, qty |-> qty]
MCLegs == (t1 :> <<Leg("STO", i1, 1), Leg("BTO", i2, 1)>>)
       @@ (t2 :> <<Leg("BTC", i1, 1)>>) @@ (t3 :> <<Leg("BUY", i1, 2)>>)
MCChains == (c1 :> [account |-> a1, original |-> t1, links |-> <<>>])
         @@ (c2 :> [account |-> a1, original |-> t2, links |-> <<>>])
         @@ (c3 :> [account |-> a1, original |-> t1, links |-> <<t2>>])
         @@ (c4 :> [account |-> a2, original |-> t3, links |-> <<>>])

=============================================================================
