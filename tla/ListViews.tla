----------------------------- MODULE ListViews -----------------------------
(***************************************************************************)
(* The positions, history, trades and analytics views: what a LoadMsg, an   *)
(* answer and the view's own keys do to screen.  Table indices start at 1.  *)
(***************************************************************************)
EXTENDS TuiState

\* A load is one command whatever the number of accounts it asks.
LoadCommand(view, state) == Command(view, accountIDs(state), None)

\* Details asked for until now belong to a list that is going away.
MarkLate(commands) ==
    [n \in DOMAIN commands |-> [commands[n] EXCEPT !.late = @ \/ commands[n].kind = "detail"]]

\* Mutated form: an error leaves the view loading.
AnsweredStillLoading(ans, rows) ==
    IF ans.ok THEN [screen EXCEPT !.loading = FALSE, !.shown = rows]
    ELSE [screen EXCEPT !.err = TRUE]
Answered(ans, rows) ==
    IF ans.ok THEN [screen EXCEPT !.loading = FALSE, !.shown = rows]
    ELSE [screen EXCEPT !.loading = FALSE, !.err = TRUE]

-----------------------------------------------------------------------------
(* PositionsView.                                                           *)

\* Futures first, then by symbol; rank is the place of the symbol.
posDisplayOrder(positions) ==
    InOrderBy(DOMAIN positions, [k \in DOMAIN positions |-> positions[k].rank])

legSign(action) == IF action \in {"BTO", "BUY", "ASSIGNMENT"} THEN 1 ELSE -1

\* One row per instrument whose events do not cancel.
computeOpenLegs(events) ==
    LET legs == FlattenSeq([k \in DOMAIN events |-> events[k].legs])
        net_(i) == FoldLeft(LAMBDA q, leg : IF leg.instrument = i
                                            THEN q + legSign(leg.action) * leg.qty ELSE q, 0, legs)
    IN {i \in {legs[k].instrument : k \in DOMAIN legs} : net_(i) # 0}

\* Rows below position idx: a header, a separator and the open legs, or "Loading...".
\* Mutated form: the separator is forgotten.
DetailRowsNoSeparator(idx) ==
    IF idx \in DOMAIN screen.chains
    THEN 1 + Cardinality(computeOpenLegs(screen.chains[idx].detail.events))
    ELSE IF idx \in screen.fetching THEN 1 ELSE 0
DetailRows(idx) ==
    IF idx \in DOMAIN screen.chains
    THEN 2 + Cardinality(computeOpenLegs(screen.chains[idx].detail.events))
    ELSE IF idx \in screen.fetching THEN 1 ELSE 0

\* The row a position is looked for at: after the positions displayed before it
\* and their detail rows.
visualRowOf(idx) ==
    LET order == posDisplayOrder(screen.shown)
        place == CHOOSE k \in DOMAIN order : order[k] = idx
    IN SumFunctionOnSet([k \in DOMAIN order |-> 1 + DetailRows(order[k])], 1..(place - 1))

\* The positions at a cursor: none on a detail row.
positionIdxAtCursor(cursor) == {idx \in DOMAIN screen.shown : visualRowOf(idx) = cursor}

\* The rows of the table: a position's own row is its index, a detail row is 0.
\* Stock positions get no detail rows here.
buildPositionsTable ==
    LET order == posDisplayOrder(screen.shown)
        detail(idx) == IF screen.shown[idx].stock THEN 0
                       ELSE IF idx \in DOMAIN screen.chains
                       THEN Len(<<"header", "separator">>)
                              + Cardinality(computeOpenLegs(screen.chains[idx].detail.events))
                       ELSE IF idx \in screen.fetching THEN 1 ELSE 0
    IN FlattenSeq([k \in DOMAIN order |-> <<order[k]>> \o [r \in 1..detail(order[k]) |-> 0]])

PositionsLoad(state) == <<LoadCommand("positions", state)>>

PositionsAnswer(ids, failing) ==
    LoadEach(ids, failing, [a \in ToSet(ids) |-> ListPositions(a, "OPEN")])

\* Mutated form: details of the previous list are kept.
PositionsLoadedKeepsDetails(ans) == Answered(ans, IF ans.ok THEN ans.value ELSE <<>>)
PositionsLoaded(ans) ==
    IF ~ans.ok THEN Answered(ans, <<>>)
    ELSE [Answered(ans, ans.value) EXCEPT !.chains = [i \in {} |-> None], !.fetching = {}]

\* A detail is filed under the index it was asked for.
WithDetail(cmd, detail) ==
    [i \in DOMAIN screen.chains \cup {cmd.arg.idx} |->
       IF i = cmd.arg.idx THEN [detail |-> detail, late |-> cmd.late] ELSE screen.chains[i]]

\* reached: the call got to the server and its answer back.
ChainDetailLoaded(cmd, reached) ==
    LET ans == GetChain(cmd.arg.account, cmd.arg.chain)
    IN [screen EXCEPT !.fetching = @ \ {cmd.arg.idx},
                      !.chains = IF reached /\ ans.ok THEN WithDetail(cmd, ans.value) ELSE @]

FetchDetail(idx) ==
    Command("detail", <<>>, [idx |-> idx, account |-> screen.shown[idx].account,
                             chain |-> screen.shown[idx].chain])

Expandable(idx) == ~screen.shown[idx].stock

WithoutDetail(idx) ==
    [screen EXCEPT !.chains = [i \in DOMAIN @ \ {idx} |-> @[i]], !.fetching = @ \ {idx}]

\* Enter collapses a detail, cancels a running load or starts one.
PositionsEnter ==
    \E cursor \in 0..(Len(buildPositionsTable) - 1) : \E idx \in positionIdxAtCursor(cursor) :
        /\ Expandable(idx)
        /\ IF idx \in DOMAIN screen.chains \cup screen.fetching
           THEN screen' = WithoutDetail(idx) /\ RunNone
           ELSE screen' = [screen EXCEPT !.fetching = @ \cup {idx}] /\ Run(<<FetchDetail(idx)>>)

\* "e" expands every position that is neither expanded nor on its way.
PositionsExpandAll ==
    LET todo == {idx \in DOMAIN screen.shown :
                   Expandable(idx) /\ idx \notin DOMAIN screen.chains \cup screen.fetching}
        order == InOrder(todo)
    IN /\ todo # {}
       /\ screen' = [screen EXCEPT !.fetching = @ \cup todo]
       /\ Run([k \in DOMAIN order |-> FetchDetail(order[k])])

PositionsEsc ==
    /\ DOMAIN screen.chains \cup screen.fetching # {}
    /\ screen' = [screen EXCEPT !.chains = [i \in {} |-> None], !.fetching = {}]
    /\ RunNone

PositionsKey ==
    /\ activeView = "positions" /\ ~screen.loading /\ ~screen.err
    /\ PositionsEnter \/ PositionsExpandAll \/ PositionsEsc
    /\ UNCHANGED <<phase, activeView, selected, accounts, filter, form, import, db>>

-----------------------------------------------------------------------------
(* HistoryView and AnalyticsView: read only.                                *)

HistoryLoad(state) == <<LoadCommand("history", state)>>
HistoryAnswer(ids, failing) ==
    LoadEach(ids, failing, [a \in ToSet(ids) |-> ListPositions(a, "CLOSED")])
HistoryLoaded(ans) == Answered(ans, ans.value)

AnalyticsLoad(state) == <<LoadCommand("analytics", state)>>
\* A row per account, whether its summary failed or not.
AnalyticsAnswer(ids, failing) ==
    Ok([k \in DOMAIN ids |-> [account |-> ids[k], failed |-> ids[k] \in failing]])
AnalyticsLoaded(ans) == Answered(ans, ans.value)

-----------------------------------------------------------------------------
(* TradesView.                                                              *)

TradesLoad(state) == <<Command("trades", accountIDs(state), filter.symbol)>>
TradesAnswer(ids, symbol, failing) ==
    LoadEach(ids, failing, [a \in ToSet(ids) |-> ListTrades(a, symbol)])
TradesLoaded(ans) ==
    IF ans.ok THEN [Answered(ans, ans.value) EXCEPT !.expanded = {}] ELSE Answered(ans, <<>>)

\* Each expanded trade adds a header, a separator and its transactions.
TradeRow(k) ==
    FoldLeft(LAMBDA row, i : row + 1 + (IF i \in screen.expanded
                                        THEN 2 + Len(Legs[screen.shown[i].id]) ELSE 0),
             0, [i \in 1..(k - 1) |-> i])
tradeIdxAtCursor(cursor) == {k \in DOMAIN screen.shown : TradeRow(k) = cursor}

TradesEnter ==
    /\ ~screen.loading /\ ~screen.err
    /\ \E cursor \in 0..(TradeRow(Len(screen.shown) + 1) - 1) : \E k \in tradeIdxAtCursor(cursor) :
          screen' = [screen EXCEPT !.expanded = IF k \in @ THEN @ \ {k} ELSE @ \cup {k}]
    /\ RunNone /\ UNCHANGED filter

TradesExpandAll ==
    /\ ~screen.loading /\ ~screen.err
    /\ screen' = [screen EXCEPT !.expanded = DOMAIN screen.shown]
    /\ RunNone /\ UNCHANGED filter

TradesEsc ==
    /\ screen.expanded # {}
    /\ screen' = [screen EXCEPT !.expanded = {}]
    /\ RunNone /\ UNCHANGED filter

OpenFilter ==
    /\ filter' = [filter EXCEPT !.open = TRUE]
    /\ RunNone /\ UNCHANGED screen

\* A filter is applied by another load; the table stays until it answers.
ApplyFilter ==
    \E symbol \in Symbols :
        /\ filter' = [symbol |-> symbol, open |-> FALSE]
        /\ screen' = [screen EXCEPT !.loading = TRUE, !.for = selected]
        /\ Run(<<Command("trades", accountIDs(State), symbol)>>)

CancelFilter ==
    /\ filter' = [filter EXCEPT !.open = FALSE]
    /\ RunNone /\ UNCHANGED screen

TradesKey ==
    /\ activeView = "trades"
    /\ ~ZeroViews
    /\ IF filter.open THEN ApplyFilter \/ CancelFilter
       ELSE TradesEnter \/ TradesExpandAll \/ TradesEsc \/ OpenFilter
    /\ UNCHANGED <<phase, activeView, selected, accounts, form, import, db>>

=============================================================================
