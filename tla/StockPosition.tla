--------------------------- MODULE StockPosition ---------------------------
(***************************************************************************)
(* The stock half of PositionService.ProcessTrade: one position row per     *)
(* stock chain, kept at weighted average cost.  Each fill of a trade is one *)
(* read of the row and one later write of the whole row, outside any SQL    *)
(* transaction.                                                             *)
(*                                                                          *)
(* Amounts are integers in units of the last decimal place that             *)
(* decimal.Div keeps; DivRound rounds as it does.                           *)
(***************************************************************************)
EXTENDS Integers, Sequences, FiniteSets, Functions

CONSTANTS
    Worker,       \* concurrent Import calls
    Trade,        \* trade ids
    Chain,        \* stock chain ids, one per symbol
    Fills,        \* Fills[t]: the transactions of trade t
    ChainOf,      \* ChainOf[t]: the stock chain the chain service answered
    None,         \* "no row"
    MaxFailures   \* bound: how many hook calls may end between two statements

\* The actions of the switch in processEquityTrade; BUY and SELL are handled as
\* BTO and STC, "other" stands for those it skips.
StockAction == {"BTO", "STC", "STO", "BTC", "other"}
Fill == [action: StockAction, qty: Nat, price: Nat, fees: Nat, at: Nat]

ASSUME FillsAssumption == Fills \in [Trade -> Seq(Fill)]
ASSUME ChainAssumption == ChainOf \in [Trade -> Chain]
ASSUME BoundAssumption == MaxFailures \in Nat

VARIABLES
    positions,  \* stock positions, keyed by chain_id
    hook,       \* local state of each running ProcessTrade call
    outcome,    \* trades handed to the hook: "running", "ok" or "failed"
    failures,   \* hook calls cut short so far
    booked      \* history: the fills written to positions, in order

vars == <<positions, hook, outcome, failures, booked>>

\* net_quantity, avg_cost_per_share, realized_pnl, opened_at, closed_at # NULL.
Row == [net: Int, avg: Int, pnl: Int, opened: Nat, closed: BOOLEAN]
ASSUME NoneAssumption == None \notin Row

\* todo: the fills still to process; cur: the one in hand; pos: the row read for it.
IdleJob == [pc |-> "idle", trade |-> None, todo |-> {}, cur |-> 0, pos |-> None]
Job == [pc: {"idle", "fill", "write"}, trade: Trade \cup {None}, todo: SUBSET Nat,
        cur: Nat, pos: Row \cup {None}]

CurrentFill(w) == Fills[hook[w].trade][hook[w].cur]

-----------------------------------------------------------------------------
(* The arithmetic of one fill.                                              *)

Magnitude(n) == IF n < 0 THEN -n ELSE n

\* Division rounded to the nearest unit, halves away from zero.
DivRound(a, b) ==
    LET q == (2 * Magnitude(a) + Magnitude(b)) \div (2 * Magnitude(b))
    IN IF (a < 0) = (b < 0) THEN q ELSE -q

\* equityBuy: fees raise the cost of the shares.
BuyPrice(f) == f.price + DivRound(f.fees, f.qty)
\* Mutated form: the fees are left out of the average.
BuyAverageNoFees(row, f) ==
    DivRound(row.net * row.avg + f.qty * f.price - f.fees, row.net + f.qty)
BuyAverage(row, f) ==
    DivRound(row.net * row.avg + f.qty * f.price + f.fees, row.net + f.qty)

\* equityShortOpen: fees reduce the proceeds; the average is over magnitudes.
ShortPrice(f) == f.price - DivRound(f.fees, f.qty)
\* Mutated form: divided by the quantity of the fill.
ShortAverageOfFill(row, f) ==
    DivRound(Magnitude(row.net) * row.avg + f.qty * f.price - f.fees, f.qty)
ShortAverage(row, f) ==
    DivRound(Magnitude(row.net) * row.avg + f.qty * f.price - f.fees,
             Magnitude(row.net) + f.qty)

\* Mutated form: the opening date is not set.
NewRowUndated(net, avg, f) ==
    [net |-> net, avg |-> avg, pnl |-> 0, opened |-> None, closed |-> FALSE]
NewRow(net, avg, f) ==
    [net |-> net, avg |-> avg, pnl |-> 0, opened |-> f.at, closed |-> FALSE]

\* A closed row is opened again: it keeps its realized P&L.
\* Mutated form: the closing stamp stays.
ReopenStamped(row, net, avg, f) == [row EXCEPT !.net = net, !.avg = avg, !.opened = f.at]
Reopen(row, net, avg, f) ==
    [row EXCEPT !.net = net, !.avg = avg, !.opened = f.at, !.closed = FALSE]

EquityBuy(row, f) ==
    IF row = None THEN NewRow(f.qty, BuyPrice(f), f)
    ELSE IF row.closed THEN Reopen(row, f.qty, BuyPrice(f), f)
    ELSE [row EXCEPT !.net = @ + f.qty, !.avg = BuyAverage(row, f)]

EquityShortOpen(row, f) ==
    IF row = None THEN NewRow(-f.qty, ShortPrice(f), f)
    ELSE IF row.closed THEN Reopen(row, -f.qty, ShortPrice(f), f)
    ELSE [row EXCEPT !.net = -(Magnitude(@) + f.qty), !.avg = ShortAverage(row, f)]

EquitySell(row, f) ==
    [row EXCEPT !.net = @ - f.qty,
                !.pnl = @ + f.qty * f.price - f.fees - f.qty * row.avg,
                !.closed = @ \/ row.net = f.qty]

EquityShortCover(row, f) ==
    [row EXCEPT !.net = @ + f.qty,
                !.pnl = @ + f.qty * row.avg - f.qty * f.price - f.fees,
                !.closed = @ \/ row.net = -f.qty]

AfterFill(row, f) ==
    CASE f.action = "BTO" -> EquityBuy(row, f)
      [] f.action = "STC" -> EquitySell(row, f)
      [] f.action = "STO" -> EquityShortOpen(row, f)
      [] OTHER -> EquityShortCover(row, f)

Held(row) == IF row = None THEN 0 ELSE row.net

\* The errors of the four branches; a missing row holds nothing.
Rejected(row, f) ==
    \/ f.action # "STC" /\ f.qty = 0
    \/ f.action = "STC" /\ (row = None \/ f.qty > Held(row))
    \/ f.action = "BTC" /\ (Held(row) >= 0 \/ f.qty > -Held(row))

\* Buying exactly what is short divides by zero, which decimal.Div answers with
\* a panic: nothing recovers it and the server process ends.
DividesByZero(row, f) ==
    f.action = "BTO" /\ Held(row) < 0 /\ row.net + f.qty = 0

-----------------------------------------------------------------------------
EndCall(w, result) ==
    /\ outcome' = [outcome EXCEPT ![hook[w].trade] = result]
    /\ hook' = [hook EXCEPT ![w] = IdleJob]

ProcessTrade(w, t) ==
    /\ hook[w].pc = "idle"
    /\ t \notin DOMAIN outcome
    /\ hook' = [hook EXCEPT ![w] = [IdleJob EXCEPT !.pc = "fill", !.trade = t,
                                                   !.todo = DOMAIN Fills[t]]]
    /\ outcome' = [u \in DOMAIN outcome \cup {t} |->
                     IF u = t THEN "running" ELSE outcome[u]]
    /\ UNCHANGED <<positions, failures, booked>>

\* Fills are sorted by time; sort.Slice leaves the order of equal times open.
EarliestOf(t, S) == {k \in S : \A j \in S : Fills[t][k].at <= Fills[t][j].at}

GetPositionByChainID(c) == IF c \in DOMAIN positions THEN positions[c] ELSE None

Skip(job, k) == [job EXCEPT !.todo = @ \ {k}]
Read(job, k) == [job EXCEPT !.pc = "write", !.cur = k,
                            !.pos = GetPositionByChainID(ChainOf[job.trade])]

\* The row is read; a fill of an unhandled action is skipped.
NextFill(w) ==
    /\ hook[w].pc = "fill"
    /\ \E k \in EarliestOf(hook[w].trade, hook[w].todo) :
          hook' = [hook EXCEPT ![w] =
              IF Fills[hook[w].trade][k].action = "other" THEN Skip(hook[w], k) ELSE Read(hook[w], k)]
    /\ UNCHANGED <<positions, outcome, failures, booked>>

\* The fill is written: on to the next one.
Booked(w) ==
    /\ booked' = Append(booked, [trade |-> hook[w].trade, fill |-> hook[w].cur])
    /\ hook' = [hook EXCEPT ![w] = [Skip(hook[w], hook[w].cur) EXCEPT !.pc = "fill",
                                                                !.cur = 0, !.pos = None]]
    /\ UNCHANGED outcome

\* INSERT under the unique index on chain_id.
CreatePosition(w, c, row) ==
    IF c \in DOMAIN positions
    THEN EndCall(w, "failed") /\ UNCHANGED <<positions, booked>>
    ELSE /\ positions' = [d \in DOMAIN positions \cup {c} |->
                            IF d = c THEN row ELSE positions[d]]
         /\ Booked(w)

\* UPDATE of every mutable column; opened_at is not among them.
UpdatePosition(w, c, row) ==
    /\ positions' = [positions EXCEPT ![c] = [row EXCEPT !.opened = positions[c].opened]]
    /\ Booked(w)

WriteFill(w) ==
    LET job == hook[w]
        c == ChainOf[job.trade]
        f == CurrentFill(w)
    IN /\ job.pc = "write"
       /\ ~Rejected(job.pos, f)
       /\ ~DividesByZero(job.pos, f)
       /\ IF job.pos = None THEN CreatePosition(w, c, AfterFill(None, f))
          ELSE UpdatePosition(w, c, AfterFill(job.pos, f))
       /\ UNCHANGED failures

\* The call ends with an error; fills already written stay.
RejectFill(w) ==
    /\ hook[w].pc = "write"
    /\ Rejected(hook[w].pos, CurrentFill(w))
    /\ EndCall(w, "failed")
    /\ UNCHANGED <<positions, failures, booked>>

\* Every call of the process ends with it.
Panic(w) ==
    /\ hook[w].pc = "write"
    /\ ~Rejected(hook[w].pos, CurrentFill(w))
    /\ DividesByZero(hook[w].pos, CurrentFill(w))
    /\ hook' = [v \in Worker |-> IdleJob]
    /\ outcome' = [t \in DOMAIN outcome |->
                     IF outcome[t] = "running" THEN "failed" ELSE outcome[t]]
    /\ UNCHANGED <<positions, failures, booked>>

\* Mutated form: the loop ends after the first fill.
FinishEarly(w) ==
    /\ hook[w].pc = "fill"
    /\ hook[w].todo # DOMAIN Fills[hook[w].trade]
    /\ EndCall(w, "ok")
    /\ UNCHANGED <<positions, failures, booked>>
Finish(w) ==
    /\ hook[w].pc = "fill"
    /\ hook[w].todo = {}
    /\ EndCall(w, "ok")
    /\ UNCHANGED <<positions, failures, booked>>

\* The call ends before its next statement; nothing is undone.
CutShort(w) ==
    /\ hook[w].pc # "idle"
    /\ failures < MaxFailures
    /\ failures' = failures + 1
    /\ EndCall(w, "failed")
    /\ UNCHANGED <<positions, booked>>

HookStep(w) == NextFill(w) \/ WriteFill(w) \/ RejectFill(w) \/ Panic(w) \/ Finish(w)

Init ==
    /\ positions = [c \in {} |-> None]
    /\ hook = [w \in Worker |-> IdleJob]
    /\ outcome = [t \in {} |-> None]
    /\ failures = 0
    /\ booked = <<>>

Next ==
    \E w \in Worker :
        \/ \E t \in Trade : ProcessTrade(w, t)
        \/ HookStep(w)
        \/ CutShort(w)

Spec == Init /\ [][Next]_vars

-----------------------------------------------------------------------------
(* Properties.                                                              *)

TypeOK ==
    /\ DOMAIN positions \subseteq Chain
    /\ positions \in [DOMAIN positions -> Row]
    /\ hook \in [Worker -> Job]
    /\ DOMAIN outcome \subseteq Trade
    /\ outcome \in [DOMAIN outcome -> {"running", "ok", "failed"}]
    /\ failures \in 0..MaxFailures
    /\ booked \in Seq([trade: Trade, fill: Nat])

\* A position is stamped closed exactly when no share is held or owed: the
\* opening branches, the closing ones and the whole-row write of stale copies
\* all keep the two columns together.
ClosedIffFlat == \A c \in DOMAIN positions : positions[c].closed <=> positions[c].net = 0

FillNo(n) == Fills[booked[n].trade][booked[n].fill]
BookedOf(c) == {n \in 1..Len(booked) : ChainOf[booked[n].trade] = c}
Signed(f) == IF f.action \in {"BTO", "BTC"} THEN f.qty ELSE -f.qty
Cash(f) == -Signed(f) * f.price - f.fees
Opens(f) == f.action \in {"BTO", "STO"}
SignedOf == [n \in 1..Len(booked) |-> Signed(FillNo(n))]
CashOf == [n \in 1..Len(booked) |-> Cash(FillNo(n))]
NetAfter(c, n) == SumFunctionOnSet(SignedOf, {m \in BookedOf(c) : m <= n})
HeldAfter(c) == [n \in 1..Len(booked) |-> Magnitude(NetAfter(c, n))]
NetBefore(c, n) == NetAfter(c, n) - Signed(FillNo(n))

\* The opening fills of the other side that c's row met.  The service does not
\* refuse them: a purchase is netted against the short, a short sale adds the
\* long to itself.
Crossings(c) == {n \in BookedOf(c) : Opens(FillNo(n)) /\ Signed(FillNo(n)) * NetBefore(c, n) < 0}
ShortSaleMetLong(c) == \E n \in Crossings(c) : FillNo(n).action = "STO"

\* The books balance, unless a short sale met a long holding: the shares of a
\* position are the signed sum of the fills written to it, and realized P&L
\* less the shares held at average cost is the cash that went in and out, over
\* any sequence of purchases, short sales, partial sales, covers and
\* reopenings.  Each opening fill may round away half a unit per share then
\* held.
BooksBalance ==
    \A c \in DOMAIN positions :
        LET opening == {n \in BookedOf(c) : Opens(FillNo(n))}
            drift == positions[c].pnl - positions[c].net * positions[c].avg
                       - SumFunctionOnSet(CashOf, BookedOf(c))
        IN ~ShortSaleMetLong(c) =>
             /\ positions[c].net = SumFunctionOnSet(SignedOf, BookedOf(c))
             /\ 2 * Magnitude(drift) <= SumFunctionOnSet(HeldAfter(c), opening)

\* The fills that opened what is held now.
SinceFlat(c) ==
    {n \in BookedOf(c) : Opens(FillNo(n)) /\
        \A m \in BookedOf(c) : m >= n /\ m # Len(booked) => NetAfter(c, m) # 0}

\* The average cost of an open position lies between the cheapest and the
\* dearest price of the fills that opened it, fees included.
AverageWithinFills ==
    \A c \in DOMAIN positions :
        ~positions[c].closed /\ Crossings(c) = {} =>
        LET fills == {FillNo(n) : n \in SinceFlat(c)}
            long == positions[c].net > 0
        IN /\ \E f \in fills : positions[c].avg >= f.price - (IF long THEN 0 ELSE f.fees)
           /\ \E f \in fills : positions[c].avg <= f.price + (IF long THEN f.fees ELSE 0)

\* No fill is written twice, and a trade reported as processed has all of its
\* fills written.
OkBooksAll ==
    /\ \A m, n \in 1..Len(booked) : booked[m] = booked[n] => m = n
    /\ \A t \in DOMAIN outcome : outcome[t] = "ok" =>
          \A k \in DOMAIN Fills[t] :
              Fills[t][k].action = "other" \/ \E n \in 1..Len(booked) : booked[n] = [trade |-> t, fill |-> k]

=============================================================================
