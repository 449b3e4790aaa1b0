--------------------------- MODULE ImportPipeline ---------------------------
(***************************************************************************)
(* ImportService.Import and the services it drives.  An import drops the    *)
(* transactions already stored, groups the rest by trade, oldest first,     *)
(* and takes each trade through five stages of separate statements: trade   *)
(* row, transaction rows, chain (ChainDetection), position hook             *)
(* (LotLedger), result counters.  A trade that fails is reported and the    *)
(* next one is taken; nothing is rolled back.                               *)
(*                                                                          *)
(* A member of Trade is a trade as one export presents it: two exports of   *)
(* overlapping periods may present the same broker order, with the same     *)
(* deterministic ids, once with some of its fills and once with all.        *)
(***************************************************************************)
EXTENDS Integers, Sequences, FiniteSets, FiniteSetsExt

CONSTANTS
    Worker,       \* concurrent Import requests
    Trade,        \* trades as presented by an export
    TradeId,      \* TradeId[g]: the id the parser derives for g
    Rows,         \* Rows[g]: its transactions in the order of the file
    Instrument,
    Underlying,   \* Underlying[i]: symbol of instrument i
    ExecutedAt,
    File,         \* the exports: sets of trades
    None, Error,
    MaxImports,   \* bound: requests made
    MaxFailures   \* bound: statements that fail and requests cut short

ASSUME TradeAssumption == IsFiniteSet(Trade) /\ ExecutedAt \in [Trade -> Nat]
ASSUME FileAssumption ==
    /\ File \subseteq SUBSET Trade
    /\ \A f \in File : \A g, h \in f : TradeId[g] = TradeId[h] => g = h
ASSUME RowsAssumption ==
    /\ Rows \in [Trade -> Seq([inst: Instrument, effect: {"opening", "closing"},
                              cash: {-1, 0, 1}, qty: Nat \ {0}, price: Nat])]
    /\ \A g \in Trade : /\ Rows[g] # <<>>
                        /\ \A k \in 1..Len(Rows[g]) :
                              Rows[g][k].effect = "opening" => Rows[g][k].cash # 0
ASSUME BoundAssumption == MaxFailures \in Nat

VARIABLES
    tradeRows,                       \* trades
    txRows,                          \* transactions: {<<trade, leg>>}
    chains, links, call, failures,   \* ChainDetection, and failures outside the hook
    lots, closings, positions, hook, outcome, hookFailures,   \* LotLedger
    imp,                             \* local state and result of each request
    imports                          \* requests so far

chainVars == <<chains, links, call>>
ledgerVars == <<lots, closings, positions, hook, outcome, hookFailures>>
vars == <<tradeRows, txRows, chainVars, failures, ledgerVars, imp, imports>>

-----------------------------------------------------------------------------
(* Closing legs are written, chained and booked before opening legs.        *)

Rank(effect) == CASE effect = "closing" -> 0 [] effect = "opening" -> 1 [] OTHER -> 2

\* In the order of the file among rows of one rank.
Before(g, j, k) ==
    LET rank(i) == Rank(Rows[g][i].effect)
    IN rank(j) < rank(k) \/ (rank(j) = rank(k) /\ j < k)
RowsBefore(g, k) == {j \in 1..Len(Rows[g]) : Before(g, j, k)}

\* The row of the file that comes i-th.
ClosingFirst == [g \in Trade |-> [i \in 1..Len(Rows[g]) |->
    CHOOSE k \in 1..Len(Rows[g]) : Cardinality(RowsBefore(g, k)) = i - 1]]

Legs == [g \in Trade |-> [i \in 1..Len(Rows[g]) |-> Rows[g][ClosingFirst[g][i]]]]
ChainLegs == [g \in Trade |-> [k \in 1..Len(Rows[g]) |->
    [inst |-> Legs[g][k].inst, qty |-> Legs[g][k].qty, effect |-> Legs[g][k].effect]]]
Symbol == [g \in Trade |-> Underlying[Rows[g][1].inst]]

\* Option and futures trades only: trades in shares take another path through
\* the position hook.
Chains == INSTANCE ChainDetection WITH
    Shares <- {}, Legs <- ChainLegs, scans <- 0, MaxScans <- 0
Ledger == INSTANCE LotLedger WITH
    Chain <- Chains!ChainId, failures <- hookFailures

ASSUME NoneAssumption == None \notin Trade \cup Chains!ChainId \cup Ledger!PositionRow

\* BrokerTxID: the trade's id and the place of the row among the trade's rows.
TxKey(g, k) == <<TradeId[g], ClosingFirst[g][k]>>
StoredKeys == {TxKey(row[1], row[2]) : row \in txRows}
KeysOf(g) == {<<TradeId[g], k>> : k \in 1..Len(Rows[g])}

AllSameUnderlying(g) ==
    \A j, k \in 1..Len(Rows[g]) : Underlying[Rows[g][j].inst] = Underlying[Rows[g][k].inst]

Earliest(S) == {g \in S : \A h \in S : ExecutedAt[g] <= ExecutedAt[h]}

ImportPC == {"idle", "upsert", "next", "rows", "chain", "hook"}
IdleImport == [pc |-> "idle", file |-> {}, todo |-> {}, cur |-> None, row |-> 0,
               imported |-> {}, failed |-> {}, skipped |-> 0]

-----------------------------------------------------------------------------
(* The request.                                                             *)

\* One query tells which transactions are stored; the others are grouped.
\* Mutated form: a trade counts as seen when any of its transactions is stored.
TodoSeenOnce(f) == {g \in f : KeysOf(g) \cap StoredKeys = {}}
Todo(f) == {g \in f : ~(KeysOf(g) \subseteq StoredKeys)}

Import(w, f) ==
    /\ imp[w].pc = "idle"
    /\ imports < MaxImports
    /\ imports' = imports + 1
    /\ LET todo == Todo(f)
       IN imp' = [imp EXCEPT ![w] =
             [IdleImport EXCEPT !.pc = IF todo = {} THEN "idle" ELSE "upsert",
                                !.file = f, !.todo = todo,
                                !.skipped = Cardinality((UNION {KeysOf(g) : g \in f})
                                                        \cap StoredKeys)]]
    /\ UNCHANGED <<tradeRows, txRows, chainVars, failures, ledgerVars>>

\* INSERT OR IGNORE of the instruments; nothing else reads them here.
UpsertInstruments(w) ==
    /\ imp[w].pc = "upsert"
    /\ imp' = [imp EXCEPT ![w].pc = "next"]
    /\ UNCHANGED <<tradeRows, txRows, chainVars, failures, ledgerVars, imports>>

\* The result of trade g, and on to the next one.
Imported(w, g) == imp' = [imp EXCEPT ![w] =
    [imp[w] EXCEPT !.pc = "next", !.cur = None, !.row = 0, !.todo = @ \ {g},
                   !.imported = @ \cup {g}]]

\* Mutated form: the failed trade is not taken off the list.
FailedKept(w, g) == imp' = [imp EXCEPT ![w] =
    [imp[w] EXCEPT !.pc = "next", !.cur = None, !.row = 0, !.failed = @ \cup {g}]]
Failed(w, g) == imp' = [imp EXCEPT ![w] =
    [imp[w] EXCEPT !.pc = "next", !.cur = None, !.row = 0, !.todo = @ \ {g},
                   !.failed = @ \cup {g}]]

MixedUnderlying(w) ==
    /\ imp[w].pc = "next"
    /\ \E g \in Earliest(imp[w].todo) : ~AllSameUnderlying(g) /\ Failed(w, g)
    /\ UNCHANGED <<tradeRows, txRows, chainVars, failures, ledgerVars, imports>>

\* The primary key of trades.
\* Mutated form: INSERT OR IGNORE.
TradeNeverStored(g) == FALSE
TradeStored(g) == \E h \in tradeRows : TradeId[h] = TradeId[g]

CreateTrade(w) ==
    /\ imp[w].pc = "next"
    /\ \E g \in Earliest(imp[w].todo) :
          /\ AllSameUnderlying(g)
          /\ ~TradeStored(g)
          /\ tradeRows' = tradeRows \cup {g}
          /\ imp' = [imp EXCEPT ![w].pc = "rows", ![w].cur = g, ![w].row = 1]
    /\ UNCHANGED <<txRows, chainVars, failures, ledgerVars, imports>>

DuplicateTrade(w) ==
    /\ imp[w].pc = "next"
    /\ \E g \in Earliest(imp[w].todo) :
          AllSameUnderlying(g) /\ TradeStored(g) /\ Failed(w, g)
    /\ UNCHANGED <<tradeRows, txRows, chainVars, failures, ledgerVars, imports>>

\* Its UNIQUE key cannot be taken: the key contains the id of the trade whose
\* row this request has just created.
CreateTransaction(w) ==
    LET g == imp[w].cur
    IN /\ imp[w].pc = "rows"
       /\ imp[w].row <= Len(Rows[g])
       /\ txRows' = txRows \cup {<<g, imp[w].row>>}
       /\ imp' = [imp EXCEPT ![w].row = @ + 1]
       /\ UNCHANGED <<tradeRows, chainVars, failures, ledgerVars, imports>>

CallChainer(w) ==
    LET g == imp[w].cur
    IN /\ imp[w].pc = "rows"
       /\ imp[w].row > Len(Rows[g])
       /\ imp' = [imp EXCEPT ![w].pc = "chain"]
       /\ Chains!ProcessTrade(w, g)
       /\ UNCHANGED <<tradeRows, txRows, ledgerVars, imports>>

ChainFailed(w) ==
    /\ imp[w].pc = "chain"
    /\ call[w].pc = "idle"
    /\ call[w].answer = Error
    /\ Failed(w, imp[w].cur)
    /\ UNCHANGED <<tradeRows, txRows, chainVars, failures, ledgerVars, imports>>

RunHook(w, c) ==
    /\ imp[w].pc = "chain"
    /\ call[w].pc = "idle"
    /\ call[w].answer # Error
    /\ imp' = [imp EXCEPT ![w].pc = "hook"]
    /\ Ledger!ProcessTrade(w, imp[w].cur, c)
    /\ UNCHANGED <<tradeRows, txRows, chainVars, failures, imports>>

\* Mutated forms: the hook gets the chain created last, or none when the trade
\* also closes.
CallHookLastChain(w) ==
    RunHook(w, IF Ledger!Opens(imp[w].cur) THEN Len(chains) ELSE None)
CallHookUnchained(w) ==
    RunHook(w, IF Ledger!Closes(imp[w].cur) THEN None ELSE call[w].answer)

\* The hook gets the chain the chain service answered; only opening legs read it.
CallHook(w) ==
    RunHook(w, IF Ledger!Opens(imp[w].cur) THEN call[w].answer ELSE None)

\* Mutated form: the trade counts as imported whatever the hook answered.
HookAnswerIgnored(w) ==
    /\ imp[w].pc = "hook"
    /\ hook[w].pc = "idle"
    /\ Imported(w, imp[w].cur)
    /\ UNCHANGED <<tradeRows, txRows, chainVars, failures, ledgerVars, imports>>
HookReturned(w) ==
    LET g == imp[w].cur
    IN /\ imp[w].pc = "hook"
       /\ hook[w].pc = "idle"
       /\ IF outcome[g] = "ok" THEN Imported(w, g) ELSE Failed(w, g)
       /\ UNCHANGED <<tradeRows, txRows, chainVars, failures, ledgerVars, imports>>

Return(w) ==
    /\ imp[w].pc = "next"
    /\ imp[w].todo = {}
    /\ imp' = [imp EXCEPT ![w].pc = "idle"]
    /\ UNCHANGED <<tradeRows, txRows, chainVars, failures, ledgerVars, imports>>

-----------------------------------------------------------------------------
(* Failures.                                                                *)

MayFail == failures + hookFailures < MaxFailures

\* A statement of the importer returns an error: before the first trade it ends
\* the request, later it fails the trade.
StatementFails(w) ==
    /\ MayFail
    /\ failures' = failures + 1
    /\ \/ /\ imp[w].pc = "upsert"
          /\ imp' = [imp EXCEPT ![w] = IdleImport]
       \/ /\ imp[w].pc = "next"
          /\ \E g \in Earliest(imp[w].todo) : AllSameUnderlying(g) /\ Failed(w, g)
       \/ /\ imp[w].pc = "rows"
          /\ imp[w].row <= Len(Rows[imp[w].cur])
          /\ Failed(w, imp[w].cur)
    /\ UNCHANGED <<tradeRows, txRows, chainVars, ledgerVars, imports>>

\* A statement of a service returns an error: its call ends, the importer goes on.
ChainStatementFails(w) ==
    /\ MayFail
    /\ Chains!CutShort(w)
    /\ UNCHANGED <<tradeRows, ledgerVars, imp, imports>>

HookStatementFails(w) ==
    /\ MayFail
    /\ Ledger!CutShort(w)
    /\ UNCHANGED <<tradeRows, txRows, chainVars, failures, imp, imports>>

\* The process dies, or the server is stopped before the request is answered.
\* (All requests at once: several of these in a row.)
RequestDies(w) ==
    /\ MayFail
    /\ imp[w].pc # "idle"
    /\ imp' = [imp EXCEPT ![w] = IdleImport]
    /\ call' = [call EXCEPT ![w] = Chains!IdleJob]
    /\ IF hook[w].pc = "idle"
       THEN failures' = failures + 1 /\ UNCHANGED ledgerVars
       ELSE Ledger!CutShort(w) /\ UNCHANGED failures
    /\ UNCHANGED <<tradeRows, txRows, chains, links, imports>>

-----------------------------------------------------------------------------
ImportStep(w) ==
    \/ UpsertInstruments(w)
    \/ MixedUnderlying(w)
    \/ CreateTrade(w)
    \/ DuplicateTrade(w)
    \/ CreateTransaction(w)
    \/ CallChainer(w)
    \/ ChainFailed(w)
    \/ CallHook(w)
    \/ HookReturned(w)
    \/ Return(w)

Step(w) ==
    \/ ImportStep(w)
    \/ Chains!ChainStep(w) /\ UNCHANGED <<tradeRows, ledgerVars, imp, imports>>
    \/ Ledger!HookStep(w) /\ UNCHANGED <<tradeRows, txRows, chainVars, failures, imp, imports>>

Init ==
    /\ tradeRows = {}
    /\ Chains!Init
    /\ Ledger!Init
    /\ imp = [w \in Worker |-> IdleImport]
    /\ imports = 0

Next ==
    \E w \in Worker :
        \/ \E f \in File : Import(w, f)
        \/ Step(w)
        \/ StatementFails(w)
        \/ ChainStatementFails(w)
        \/ HookStatementFails(w)
        \/ RequestDies(w)

Spec == Init /\ [][Next]_vars

\* A request runs on a goroutine of its own and waits for nothing but the
\* database, which every statement releases.
FairSpec == Spec /\ \A w \in Worker : WF_vars(Step(w))

-----------------------------------------------------------------------------
(* Properties.                                                              *)

\* A trade reported as imported is all there: its transactions are stored, its
\* position hook succeeded, and, when it opens something, one chain owns it and
\* holds all its lots.
ImportedIsComplete ==
    \A w \in Worker : \A g \in imp[w].imported :
        /\ \A k \in 1..Len(Rows[g]) : <<g, k>> \in txRows
        /\ outcome[g] = "ok"
        /\ Ledger!Opens(g) => Cardinality(Chains!Owners(g)) = 1

\* The row of the export that row (trade, leg) of the table was made from.
FillOf(row) == Legs[row[1]][row[2]]

\* Every export that has a k-th row in this order has the same fill there.
SamePlace(g, k) ==
    \A h \in Trade : TradeId[h] = TradeId[g] /\ k <= Len(Rows[h]) => Rows[h][k] = Rows[g][k]

\* When a request returns, every fill of its file that has one place in all
\* exports is stored under its own key, or its trade is reported as failed.
\* A fill whose place another export gives to another fill is left out: it may
\* pass for the one stored there (tastytrade/parser.go:169).
NothingDropped ==
    \A w \in Worker :
        imp[w].pc = "idle" =>
        \A g \in imp[w].file \ imp[w].failed : \A k \in 1..Len(Rows[g]) :
            SamePlace(g, k) =>
                \E row \in txRows : /\ TxKey(row[1], row[2]) = <<TradeId[g], k>>
                                   /\ FillOf(row) = Rows[g][k]

\* However often and by however many requests the rows of an order are
\* presented, the ledger holds no more lots of it than rows that open are stored.
RowsOfId(id, effect) ==
    {key \in StoredKeys : key[1] = id /\
        \E g \in tradeRows : TradeId[g] = id /\ Rows[g][key[2]].effect = effect}
FillsBookedOnce ==
    \A id \in {TradeId[g] : g \in Trade} :
        Cardinality({i \in 1..Len(lots) : TradeId[lots[i].trade] = id})
            <= Cardinality(RowsOfId(id, "opening"))

\* Chain service and position service agree: a lot, and the position it made,
\* belong to the chain that owns the trade.
LotsFollowChains ==
    /\ \A i \in 1..Len(lots) : Chains!Owners(lots[i].trade) = {lots[i].chain}
    /\ \A c \in DOMAIN positions : positions[c].trade \in Chains!TradesOf(c)

\* The importer calls the position hook as LotLedger assumes: once per trade,
\* with a chain for whatever opens, a fresh one unless the trade also closes.
HookCalledAsAssumed == Ledger!Spec

\* Every import request returns.
RequestsReturn == \A w \in Worker : imp[w].pc # "idle" ~> imp[w].pc = "idle"

=============================================================================
