---------------------------- MODULE SchwabParser ----------------------------
(* Package internal/broker/schwab: an account trade history export.  The     *)
(* first row of an order carries its time, the rows of its other legs none.  *)
EXTENDS BrokerUtil, FiniteSets

Broker == "schwab"

NoAction == <<"", "">>

MapAction(row) ==
    CASE row.side = "BUY" /\ row.effect = "TO OPEN" -> <<"BTO", "opening">>
      [] row.side = "SELL" /\ row.effect = "TO OPEN" -> <<"STO", "opening">>
      [] row.side = "BUY" /\ row.effect = "TO CLOSE" -> <<"BTC", "closing">>
      [] row.side = "SELL" /\ row.effect = "TO CLOSE" -> <<"STC", "closing">>
      [] OTHER -> NoAction

Options == {"CALL", "PUT"}

\* Instrument symbols are records: the product family (FuturesRoot), the
\* underlying contract (UnderlyingSymbol) and the whole description.
IsFuture(row) == row.symbol.root # ""

TreasuryRoots == {"/ZB", "/ZN"}

\* Prices in tick notation count 64ths of a point for treasury futures and
\* 32nds for the others.  Prices here are in 64ths.
ParsePrice(row) ==
    64 * row.price.whole
      + row.price.ticks * (IF row.symbol.root \in TreasuryRoots THEN 1 ELSE 2)

Multiplier(row) ==
    CASE row.type \notin Options -> 0
      [] row.type \in Options /\ ~IsFuture(row) -> 100
      [] row.type \in Options /\ row.symbol.root \in TreasuryRoots -> 1000
      [] OTHER -> 1

\* The underlying of an option, the description itself for anything else.
InstrumentSymbol(row) ==
    IF row.type \in Options THEN row.symbol.underlying ELSE row.symbol.text

Types == {"ETF", "STOCK", "FUTURE"} \cup Options

Unreadable(row) ==
    \/ MapAction(row) = NoAction
    \/ row.flaw \in {"qty", "price"}
    \/ row.type \notin Types
    \/ row.type \notin {"ETF", "STOCK"} /\ row.flaw = "contract"

\* An order is keyed by its time, its spread and its first symbol; orders that
\* agree on all three are told apart by a number counted through the file.
GroupKey(group) ==
    <<group.time, group.spread, group.rows[1].symbol.underlying>>

ParseLeg(row, account, group, seq, leg) ==
    LET act == MapAction(row)
    IN  [trade |-> HashKey(<<<<Broker, account>>, GroupKey(group), <<seq>>>>),
         id |-> HashKey(<<<<Broker, account>>, GroupKey(group), <<seq>>, <<leg>>>>),
         on |-> InstrumentSymbol(row), action |-> act[1], effect |-> act[2],
         qty |-> Absolute(row.qty), price |-> Absolute(ParsePrice(row)),
         mult |-> Multiplier(row), fees |-> 0, at |-> group.time]

ParseGroup(group, account, seq) ==
    [i \in DOMAIN group.rows |->
        ParseLeg(group.rows[i], account, group, seq, i - 1)]

\* Rows before the first order have no time, which does not parse.
GroupFailed(group) ==
    \/ group.flaw = "time"
    \/ \E i \in DOMAIN group.rows : Unreadable(group.rows[i])

NoGroup == [time |-> 0, spread |-> "", flaw |-> "time", rows |-> <<>>]

\* Mutated form of GroupSeq.
GroupSeqInFile(st) == Cardinality(DOMAIN st.counts)

\* Number of the group among those read with its key.
GroupSeq(st) == SeenUnder(st.counts, GroupKey(st.group))

Flush(st) ==
    IF st.group.rows = <<>> THEN st
    ELSE [st EXCEPT !.txs = @ \o ParseGroup(st.group, st.account, GroupSeq(st)),
                    !.counts = Counted(@, GroupKey(st.group)),
                    !.failed = @ \/ GroupFailed(st.group),
                    !.group.rows = <<>>]

\* A row with a time ends the order before it and starts one.
ReadRow(st, row) ==
    CASE row.flaw = "blank" -> st
      [] row.flaw = "columns" -> [st EXCEPT !.failed = TRUE]
      [] row.flaw \notin {"blank", "columns"} /\ row.first ->
            [Flush(st) EXCEPT !.group = [time |-> row.at, spread |-> row.spread,
                                         flaw |-> row.flaw, rows |-> <<row>>]]
      [] OTHER -> [st EXCEPT !.group.rows = Append(@, row)]

\* A title line may be missing; any other first line is refused, and so is a
\* header with other columns.  The first error ends the whole file.
Parse(heading, rows, account) ==
    LET st == Flush(FoldLeft(ReadRow,
                  [account |-> account, group |-> NoGroup, txs |-> <<>>,
                   counts |-> <<>>, failed |-> FALSE], rows))
    IN  IF heading \notin {"title and header", "header"} \/ st.failed
        THEN ParseFailed ELSE Parsed(st.txs)

=============================================================================
