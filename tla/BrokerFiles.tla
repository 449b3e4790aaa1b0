----------------------------- MODULE BrokerFiles -----------------------------
(* An account at a broker, and its exports imported again and again.  The    *)
(* broker appends to the account's history; an import takes the rows of some *)
(* range of dates, newest first, parses them with the broker's parser and    *)
(* books the transactions whose identifiers are new (ImportService.Import    *)
(* drops the others; ImportPipeline models what becomes of the fresh ones).  *)
EXTENDS Integers, SequencesExt

CONSTANTS
    Account,
    Entries,        \* broker -> what may be appended: sequences of rows (one
                    \* row for Tastytrade, the legs of an order for Schwab)
    Headings,       \* how a Schwab file may begin
    MaxEntries,     \* bound on the entries of a history
    MaxTime,        \* bound on the clock
    MaxImports      \* bound on the imports

Tastytrade == INSTANCE TastytradeParser
Schwab == INSTANCE SchwabParser

VARIABLES
    broker,         \* the broker of the account
    history,        \* the entries, oldest first
    clock,          \* the second in which the broker executes
    book,           \* transactions stored: [tx, fill]
    imports,        \* imports so far
    seen            \* for each import that went through, the fills in its file

vars == <<broker, history, clock, book, imports, seen>>

-----------------------------------------------------------------------------
(* Files.                                                                    *)

Row(ref) == [history[ref[1]].rows[ref[2]] EXCEPT !.at = history[ref[1]].at]

RowsOf(e) == [i \in DOMAIN history[e].rows |-> <<e, i>>]

\* The rows of the entries executed from first to last, newest entry first.
Export(first, last) ==
    LET dated == SelectSeq([e \in DOMAIN history |-> e],
                           LAMBDA e : history[e].at \in first..last)
    IN  FlattenSeq([i \in DOMAIN dated |-> RowsOf(Reverse(dated)[i])])

ParseFile(heading, refs) ==
    LET rows == [i \in DOMAIN refs |-> Row(refs[i])]
    IN  IF broker = "tastytrade" THEN Tastytrade!Parse(rows, Account)
        ELSE Schwab!Parse(heading, rows, Account)

\* The rows that report a fill: contracts moved, and the row says in which
\* action.  A Tastytrade row that lacks columns, or that moves contracts without
\* an action as an assignment's removal does, reports none; the parser leaves
\* it out knowingly (tastytrade/parser.go:51, docs/phase2.md:241).
IsFill(ref) == Row(ref).fill # 0 /\ Row(ref).told

Fills(refs) == SelectSeq(refs, IsFill)

AllFills ==
    {ref \in UNION {ToSet(RowsOf(e)) : e \in DOMAIN history} : IsFill(ref)}

\* Tastytrade's expirations and reinvestments belong to no order.
Ordered(ref) == broker = "tastytrade" => Row(ref).order # ""

\* The fills of one order: of one entry at Schwab, of one number at Tastytrade,
\* where a row without a number stands alone.
SameOrder(a, b) ==
    IF broker = "tastytrade" /\ Ordered(a) THEN Row(a).order = Row(b).order
    ELSE IF broker = "tastytrade" THEN a = b ELSE a[1] = b[1]

-----------------------------------------------------------------------------
(* Actions.                                                                  *)

Init ==
    /\ broker \in DOMAIN Entries
    /\ history = <<>> /\ clock = 1
    /\ book = {} /\ imports = 0 /\ seen = {}

Execute(rows) ==
    /\ Len(history) < MaxEntries
    /\ history' = Append(history, [at |-> clock, rows |-> rows])
    /\ UNCHANGED <<broker, clock, book, imports, seen>>

Tick ==
    /\ clock < MaxTime
    /\ history # <<>> /\ Last(history).at = clock
    /\ clock' = clock + 1
    /\ UNCHANGED <<broker, history, book, imports, seen>>

\* Transactions with an identifier that is already stored are skipped.
FilterFresh(txs) == {i \in DOMAIN txs : \A b \in book : b.tx.id # txs[i].id}

\* An import of the seconds from first to last, all of them past.  A file that
\* does not parse is refused as a whole.
Import(heading, first, last) ==
    LET refs == Export(first, last)
        result == ParseFile(heading, refs)
    IN  /\ imports < MaxImports
        /\ last < clock
        /\ imports' = imports + 1
        /\ book' = book \cup {[tx |-> result.txs[i], fill |-> Fills(refs)[i]] :
                                i \in FilterFresh(result.txs)}
        /\ seen' = IF result.failed THEN seen ELSE seen \cup {ToSet(Fills(refs))}
        /\ UNCHANGED <<broker, history, clock>>

Next ==
    \/ \E rows \in Entries[broker] : Execute(rows)
    \/ Tick
    \/ \E heading \in Headings, last \in 1..MaxTime :
          \E first \in 1..last : Import(heading, first, last)

Spec == Init /\ [][Next]_vars

-----------------------------------------------------------------------------
(* Properties.                                                               *)

\* An order some import saw a part of only, or that was filled further since.
Cut(fill) ==
    LET order == {f \in AllFills : SameOrder(fill, f)}
    IN  \E s \in seen : s \cap order \notin {{}, order}

\* Imports may overlap and repeat: every fill that was in an imported file is
\* stored exactly once, under one identifier, if no import caught its order
\* half filled ("enabling idempotent re-imports", tastytrade/parser.go:57).
\* Tastytrade's identifiers number the rows of an order as the file lists them,
\* newest first, so a fill that comes later renumbers the earlier ones.
EveryFillBookedOnce ==
    \A fill \in UNION seen :
        Cut(fill) \/ Cardinality({b \in book : b.fill = fill}) = 1

\* Fills are stored under one trade exactly when they belong to one order,
\* whichever imports brought them: "All legs in a group share the same TradeID"
\* (schwab/parser.go:59), "the same order always produces the same TradeID"
\* (tastytrade/parser.go:55).  Rows without an order number are left out: those
\* that agree in second, action and symbol share a trade, although each should
\* become its own (tastytrade/parser.go:158).
OneTradePerOrder ==
    \A a, b \in book :
        Ordered(a.fill) =>
            ((a.tx.trade = b.tx.trade) <=> SameOrder(a.fill, b.fill))

\* A file becomes an error when a row that is not left out cannot be read, and
\* otherwise one transaction per fill it reports, in order, on the side and for
\* the money the broker knows: a wrong multiplier or sign would misstate every
\* profit, and a row left out by mistake would lose contracts.
Signed(tx) == IF tx.action \in {"BTO", "BTC", "BUY"} THEN tx.qty ELSE -tx.qty

Readable(refs) == \A i \in DOMAIN refs : Row(refs[i]).readable


=============================================================================
