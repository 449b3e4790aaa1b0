--------------------------- MODULE TrackerServer ---------------------------
(***************************************************************************)
(* What the gRPC handlers and the repositories behind them answer to the    *)
(* terminal UI.  The accounts table is passed in as db, in the order of     *)
(* creation; positions, trades and chains are the constants Books and       *)
(* Chains, since nothing the UI does to them is visible to these reads.     *)
(***************************************************************************)
EXTENDS Integers, Sequences, FiniteSets, SequencesExt, Ascending

CONSTANTS
    Books,            \* Books[a]: [positions, trades] of account a, oldest first
    Chains,           \* Chains[c]: [account, original, links]; links are trades in sequence order
    Legs,             \* Legs[t]: the transactions of trade t, [action, instrument, qty]
    MaxTradePageSize  \* cap on the trades of one answer; 500 in the code

\* Ids are not empty.
ASSUME BooksAssumption ==
    \A a \in DOMAIN Books :
        /\ a # "" /\ Books[a].positions \in Seq(ToSet(Books[a].positions))
        /\ \A p \in ToSet(Books[a].positions) : p.rank \in Int   \* place of its symbol

\* A chain is a list of trades, a trade a list of transactions.
ASSUME ChainsAssumption ==
    /\ \A c \in DOMAIN Chains : /\ Chains[c].original \in DOMAIN Legs
                               /\ Chains[c].links \in Seq(DOMAIN Legs)
    /\ \A t \in DOMAIN Legs : Legs[t] \in Seq(ToSet(Legs[t]))

Ok(v) == [ok |-> TRUE, value |-> v]
Error(code) == [ok |-> FALSE, value |-> code]

toGRPCError(err) ==
    Error(CASE err = "ErrNotFound" -> "NotFound"
            [] err = "ErrDuplicate" -> "AlreadyExists"
            [] OTHER -> "Internal")

-----------------------------------------------------------------------------
(* Accounts: rows [id, broker, number, name].                               *)

GetByID(db, id) == SelectSeq(db, LAMBDA a : a.id = id)

\* The primary key and UNIQUE (broker, account_number).
UniqueConstraint(db, row) ==
    \E a \in ToSet(db) : a.id = row.id \/ <<a.broker, a.number>> = <<row.broker, row.number>>

\* An answer together with the accounts table it leaves.
CreateAccount(db, row) ==
    IF row.broker = "" \/ row.number = ""
    THEN [db |-> db, answer |-> Error("InvalidArgument")]
    ELSE IF UniqueConstraint(db, row)
    THEN [db |-> db, answer |-> toGRPCError("ErrDuplicate")]
    ELSE [db |-> Append(db, row), answer |-> Ok(row)]

UpdateName(db, id, name) ==
    [k \in DOMAIN db |-> IF db[k].id = id THEN [db[k] EXCEPT !.name = name] ELSE db[k]]

UpdateAccount(db, id, name) ==
    IF id = "" THEN [db |-> db, answer |-> Error("InvalidArgument")]
    ELSE IF GetByID(db, id) = <<>> THEN [db |-> db, answer |-> toGRPCError("ErrNotFound")]
    ELSE [db |-> UpdateName(db, id, name),
          answer |-> Ok([Head(GetByID(db, id)) EXCEPT !.name = name])]

ListAccounts(db) == Ok(db)

-----------------------------------------------------------------------------
(* Positions, trades and chains.                                            *)

\* status OPEN and CLOSED select on closed_at.
PositionsWith(account, open) ==
    LET all == Books[account].positions
        rows == InOrder({k \in DOMAIN all : all[k].open = open})
    IN [n \in DOMAIN rows |-> all[rows[n]]]
ListPositions(account, status) ==
    IF account = "" THEN Error("InvalidArgument")
    ELSE Ok(PositionsWith(account, status = "OPEN"))

\* Newest first, cut at limit; no symbol means every symbol.
ListByAccount(account, symbol, limit) ==
    LET matching == SelectSeq(Reverse(Books[account].trades),
                              LAMBDA t : symbol = "" \/ t.symbol = symbol)
    IN IF Len(matching) <= limit THEN matching ELSE SubSeq(matching, 1, limit)
ListTrades(account, symbol) ==
    IF account = "" THEN Error("InvalidArgument")
    ELSE Ok(ListByAccount(account, symbol, MaxTradePageSize))

BuildChainEvent(trade) == [trade |-> trade, legs |-> Legs[trade]]

\* A chain is answered only to the account it belongs to.
GetChainDetail(account, chain) ==
    IF chain \notin DOMAIN Chains THEN toGRPCError("ErrNotFound")
    ELSE IF Chains[chain].account # account THEN toGRPCError("ErrNotFound")
    ELSE LET trades == <<Chains[chain].original>> \o Chains[chain].links
         IN Ok([id |-> chain, events |-> [k \in DOMAIN trades |-> BuildChainEvent(trades[k])]])
GetChain(account, chain) ==
    IF account = "" \/ chain = "" THEN Error("InvalidArgument") ELSE GetChainDetail(account, chain)

\* The checks before an upload is parsed and imported.
ImportTransactions(account, broker) ==
    IF account = "" \/ broker = "BROKER_UNSPECIFIED"
    THEN Error("InvalidArgument") ELSE Ok(account)

=============================================================================
