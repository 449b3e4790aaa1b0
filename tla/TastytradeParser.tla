-------------------------- MODULE TastytradeParser --------------------------
(* Package internal/broker/tastytrade: a transaction history export, one row *)
(* per fill, becomes normalized transactions.  A row is a record of the      *)
(* columns the parser reads; "flaw" names the first column that does not     *)
(* parse as a date, a number or an option contract.                          *)
EXTENDS BrokerUtil

Broker == "tastytrade"

\* Rows that are left out without an error.
Skipped(row) ==
    \/ row.flaw = "columns"
    \/ row.type = "Money Movement"
    \/ row.action = ""

NoAction == <<"", "">>

\* Action and position effect.  Futures carry a bare BUY or SELL, which the sub
\* type turns around when it says so.
MapAction(row) ==
    CASE row.action = "BUY_TO_OPEN" -> <<"BTO", "opening">>
      [] row.action = "SELL_TO_OPEN" -> <<"STO", "opening">>
      [] row.action = "BUY_TO_CLOSE" -> <<"BTC", "closing">>
      [] row.action = "SELL_TO_CLOSE" -> <<"STC", "closing">>
      [] row.action = "BUY" /\ row.sub = "Buy to Close" -> <<"BTC", "closing">>
      [] row.action = "BUY" /\ row.sub # "Buy to Close" -> <<"BUY", "opening">>
      [] row.action = "SELL" /\ row.sub = "Sell to Open" -> <<"STO", "opening">>
      [] row.action = "SELL" /\ row.sub # "Sell to Open" -> <<"SELL", "closing">>
      [] OTHER -> NoAction

InstrumentTypes == {"Equity", "Future", "Equity Option", "Future Option"}

\* Contract size of an option; 0 for what is not an option.  A future option
\* without one counts as one.
Multiplier(row) ==
    CASE row.inst = "Equity Option" -> 100
      [] row.inst = "Future Option" -> IF row.mult = 0 THEN 1 ELSE row.mult
      [] OTHER -> 0


\* Average prices are dollars per contract, transactions hold dollars per share.
FillPrice(row) ==
    IF Multiplier(row) = 0 THEN Absolute(row.price)
    ELSE Absolute(row.price) \div Multiplier(row)

\* Both columns are costs, written as negative numbers; "--" was read as 0.
Fees(row) == -(row.commissions + row.fees)

Unreadable(row) ==
    \/ row.flaw \in {"date", "quantity", "price", "fees"}
    \/ MapAction(row) = NoAction
    \/ row.inst \notin InstrumentTypes
    \/ row.flaw = "contract" /\ Multiplier(row) # 0

\* Mutated form of GroupKey.
GroupKeyOfRow(row, account) ==
    <<Broker, account, row.at, row.action, row.symbol>>

\* The order number, or for a row without one (expiration, reinvestment) a key
\* of its second, action and symbol.
GroupKey(row, account) ==
    IF row.order # "" THEN <<row.order>>
    ELSE <<Broker, account, row.at, row.action, row.symbol>>

ParseRow(row, account, counts) ==
    LET key == GroupKey(row, account)
        act == MapAction(row)
    IN  [trade |-> HashKey(<<<<Broker, account>>, key>>),
         id |-> HashKey(<<<<Broker, account>>, key, <<SeenUnder(counts, key)>>>>),
         on |-> row.symbol, action |-> act[1], effect |-> act[2],
         qty |-> Absolute(row.qty), price |-> FillPrice(row),
         mult |-> Multiplier(row), fees |-> Fees(row), at |-> row.at]

ReadRow(st, row) ==
    IF Skipped(row) THEN st
    ELSE [st EXCEPT !.txs = Append(@, ParseRow(row, st.account, st.counts)),
                    !.counts = Counted(@, GroupKey(row, st.account)),
                    !.failed = @ \/ Unreadable(row)]

\* The first row that does not parse ends the whole file with an error.
Parse(rows, account) ==
    LET st == FoldLeft(ReadRow, [account |-> account, txs |-> <<>>,
                                 counts |-> <<>>, failed |-> FALSE], rows)
    IN  IF st.failed THEN ParseFailed ELSE Parsed(st.txs)

=============================================================================
