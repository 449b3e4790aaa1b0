----------------------------- MODULE Analytics -----------------------------
(***************************************************************************)
(* Two reports of AnalyticsService over the tables of PositionService.      *)
(* What the account has realized comes from lot_closings, which options and *)
(* futures have (LotLedger); win rate, closed positions and P&L by strategy *)
(* come from positions, where shares have rows too.  A report is one or two *)
(* read-only SQL queries over the rows dated from..to.                      *)
(***************************************************************************)
EXTENDS LotLedger

CONSTANTS
    StockRows,   \* rows of positions that belong to shares, by stock chain;
                 \* StockPosition models how they come about
    StrategyOf   \* StrategyOf[c]: chains.strategy_type of c, also of stock chains

\* Any of the rows of positions; closedAt is 0 while closed_at is NULL.
ASSUME StockAssumption ==
    /\ DOMAIN StockRows \cap Chain = {}
    /\ \A c \in DOMAIN StockRows : StockRows[c] \in [pnl: Int, closedAt: Nat]

-----------------------------------------------------------------------------
(* The tables as the queries read them.                                     *)

\* Options and futures as LotLedger writes them, and shares.
PositionsTable ==
    [c \in DOMAIN positions \cup DOMAIN StockRows |->
        IF c \in DOMAIN positions
        THEN [pnl |-> positions[c].pnl, closedAt |-> positions[c].closedAt]
        ELSE StockRows[c]]
PnLOfPosition == [c \in DOMAIN PositionsTable |-> PositionsTable[c].pnl]
PositionPnL(S) == SumFunctionOnSet(PnLOfPosition, S)

\* lot_closings of the period; closed_at is the execution time of the trade.
\* Mutated form: the end of the period is left out.
ClosingsBefore(from, to) ==
    {j \in 1..Len(closings) : ExecutedAt[closings[j].trade] \in from..(to - 1)}
ClosingsIn(from, to) ==
    {j \in 1..Len(closings) : ExecutedAt[closings[j].trade] \in from..to}

\* WHERE closed_at IS NOT NULL AND closed_at >= from AND closed_at <= to.
PositionsClosedIn(from, to) ==
    {c \in DOMAIN PositionsTable :
        PositionsTable[c].closedAt # 0 /\ PositionsTable[c].closedAt \in from..to}

\* The same rows joined with chains: <<position, strategy type>>.
StrategiesClosedIn(from, to) ==
    {<<c, StrategyOf[c]>> : c \in {c \in DOMAIN PositionsTable \cap DOMAIN StrategyOf :
        PositionsTable[c].closedAt # 0 /\ PositionsTable[c].closedAt \in from..to}}

-----------------------------------------------------------------------------
(* The reports.                                                             *)

Winners(S) == {c \in S : PositionsTable[c].pnl > 0}

\* The win rate is wins of closed; 0 of nothing.
GetPnLSummary(from, to) ==
    LET closed == PositionsClosedIn(from, to)
    IN [realized |-> SumFunctionOnSet(PnLOfClosing, ClosingsIn(from, to)),
        wins |-> Cardinality(Winners(closed)),
        closed |-> Cardinality(closed)]

\* One record per strategy that has a closed position.
GetStrategyPerformance(from, to) ==
    LET rows == StrategiesClosedIn(from, to)
        of(s) == {row[1] : row \in {row \in rows : row[2] = s}}
    IN [s \in {row[2] : row \in rows} |->
          [count |-> Cardinality(of(s)),
           wins |-> Cardinality(Winners(of(s))),
           total |-> PositionPnL(of(s))]]

\* The handlers: a request names both ends of the period, in order.
InvalidArgument == "InvalidArgument"

ValidPeriod(from, to) == from # None /\ to # None /\ ~(to < from)

GetAccountSummary(from, to) ==
    IF ValidPeriod(from, to) THEN GetPnLSummary(from, to) ELSE InvalidArgument

StrategyPerformance(from, to) ==
    IF ValidPeriod(from, to) THEN GetStrategyPerformance(from, to) ELSE InvalidArgument

-----------------------------------------------------------------------------
(* Properties.                                                              *)

\* The last time there is, and so a period that holds everything.
Ever == Max(Range(ExecutedAt) \cup {StockRows[c].closedAt : c \in DOMAIN StockRows})

\* The money that transaction k of trade t moved into the account, and that the
\* contracts still held have cost or brought in.  A closing that found no lot is
\* not booked.
Money(t, k) ==
    LET leg == Legs[t][k]
    IN IF leg.effect = "closing" /\ ClosingsOfLeg(t, k) = {} THEN 0
       ELSE leg.cash * leg.price * leg.qty
MoneyOf(t) == SumFunction([k \in 1..Len(Legs[t]) |-> Money(t, k)])
PremiumHeld == SumFunction([i \in 1..Len(lots) |->
    LotCashFlowSign(lots[i]) * lots[i].price * Abs(lots[i].rem)])

\* When every trade handed over was booked whole, the money its transactions
\* moved is what the account summary reports as realized plus the premium of
\* what is held: over partial closings, lots of several trades and expirations,
\* a profit is reported once, in full and with its sign.  Shares are the part
\* the summary leaves out (lot_closings have none) and the strategies include.
RealizedPnLBalances ==
    (\A t \in DOMAIN outcome : outcome[t] = "ok") =>
    LET realized == GetAccountSummary(0, Ever).realized
        stats == StrategyPerformance(0, Ever)
        open == {c \in DOMAIN PositionsTable : PositionsTable[c].closedAt = 0}
    IN /\ SumFunction([t \in DOMAIN outcome |-> MoneyOf(t)]) = realized + PremiumHeld
       /\ SumFunction([s \in DOMAIN stats |-> stats[s].total]) + PositionPnL(open)
            = realized + PositionPnL(DOMAIN StockRows)

=============================================================================
