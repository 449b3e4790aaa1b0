----------------------------- MODULE LotLedger -----------------------------
(***************************************************************************)
(* The lot ledger of trade-tracker: the option and futures half of          *)
(* PositionService.ProcessTrade and the position repository it writes       *)
(* through.  Opening legs append a lot and upsert the position row of the   *)
(* chain; closing legs match the open lots of the instrument first-in       *)
(* first-out, append a lot_closings row per lot consumed and accumulate the *)
(* position's realized P&L.                                                 *)
(*                                                                          *)
(* The database has one connection, so one SQL statement, or one explicit   *)
(* SQL transaction, is atomic and is one action here; the statements of     *)
(* different import calls interleave, and a call may end between any two of *)
(* them (the process dies, the request's context is cancelled, a statement  *)
(* fails).  hook[w] is what the Go call running on behalf of import worker  *)
(* w holds in local variables.                                              *)
(***************************************************************************)
EXTENDS Integers, Sequences, FiniteSets, FiniteSetsExt, Functions

CONSTANTS
    Worker,       \* concurrent Import calls
    Trade,        \* trade ids
    Chain,        \* chain ids
    Instrument,   \* instrument ids
    Legs,         \* Legs[t]: the transactions of trade t, closing legs first
    ExecutedAt,   \* ExecutedAt[t]: execution time of trade t
    None,         \* "no row", "no chain"
    MaxFailures   \* bound: how many hook calls may end between two statements

\* A transaction: cash is CashFlowSign(action), +1 for sells, -1 for buys and
\* 0 for assignment, exercise and expiration.
Leg == [inst: Instrument, effect: {"opening", "closing"}, cash: {-1, 0, 1},
        qty: Nat \ {0}, price: Nat]

ASSUME LegsAssumption ==
    /\ Legs \in [Trade -> Seq(Leg)]
    /\ \A t \in Trade : \A k \in 1..Len(Legs[t]) :
          Legs[t][k].effect = "opening" => Legs[t][k].cash # 0
ASSUME TimeAssumption == ExecutedAt \in [Trade -> Nat]
ASSUME BoundAssumption == MaxFailures \in Nat

VARIABLES
    lots,       \* position_lots, in insertion order
    closings,   \* lot_closings, in insertion order
    positions,  \* positions, keyed by their chain_id (unique index of migration 010)
    hook,       \* local state of each running ProcessTrade call
    outcome,    \* trades handed to the hook: "running", "ok" or "failed"
    failures    \* hook calls cut short so far

ledgerVars == <<lots, closings, positions>>
hookVars == <<hook, outcome, failures>>
vars == <<lots, closings, positions, hook, outcome, failures>>

LotRow == [trade: Trade, inst: Instrument, open: Int, rem: Int, price: Nat,
           at: Nat, closed: BOOLEAN, chain: Chain]
ClosingRow == [lot: Nat, trade: Trade, leg: Nat, qty: Nat, pnl: Int]
\* closedAt stands for the time in closed_at; 0 while that is NULL.
PositionRow == [trade: Trade, cost: Int, pnl: Int, closed: BOOLEAN, closedAt: Nat]

ASSUME NoneAssumption == None \notin Trade \cup Chain \cup PositionRow

\* Where a call stands: "leg" between legs, "find", "insert" and "accumulate"
\* inside processOpening, "match" and "close" inside processClosing.
HookPC == {"idle", "leg", "find", "insert", "accumulate", "match", "close"}

\* A lot as the call read it: its row and the remaining quantity at that time.
Snapshot == [lot: Nat, rem: Int]

Job == [pc: HookPC, trade: Trade \cup {None}, chain: Chain \cup {None}, leg: Nat,
        todo: SUBSET Snapshot, cur: Snapshot \cup {None}, left: Nat,
        pos: PositionRow \cup {None}]

IdleJob == [pc |-> "idle", trade |-> None, chain |-> None, leg |-> 0,
            todo |-> {}, cur |-> None, left |-> 0, pos |-> None]

-----------------------------------------------------------------------------
(* Helpers.                                                                 *)

Abs(n) == IF n < 0 THEN -n ELSE n

\* Mutated forms: a closing takes all it needs from the first lot, or all the
\* lot has.
CloseQtyUnclamped(left, rem) == left
CloseQtyWholeLot(left, rem) == Abs(rem)

\* What a lot with rem left contributes to a closing that still needs left.
CloseQty(left, rem) == IF left >= Abs(rem) THEN Abs(rem) ELSE left

CurrentLeg(w) == Legs[hook[w].trade][hook[w].leg]

\* Sells open short lots (negative quantity), buys open long ones.
LotSignedQty(leg) == IF leg.cash > 0 THEN -leg.qty ELSE leg.qty
LotCashFlowSign(lot) == IF lot.open > 0 THEN -1 ELSE 1

\* Mutated form: every lot is taken for a long one.
LotDirectionLong(lot) == 1
LotDirection(lot) == IF lot.open < 0 THEN -1 ELSE 1

\* Mutated form: the cash-flow sign is forgotten.
LegCostBasisUnsigned(leg) == leg.price * leg.qty
LegCostBasis(leg) == leg.cash * leg.price * leg.qty

\* closeCF + openCF of q contracts of lot closed by leg (fees: FeeProration).
RealizedPnL(leg, lot, q) ==
    leg.cash * leg.price * q + LotCashFlowSign(lot) * lot.price * q

\* The rows ListOpenLotsByInstrument returns: remaining_quantity != '0'.
ListOpenLotsByInstrument(inst) ==
    {i \in 1..Len(lots) : lots[i].inst = inst /\ lots[i].rem # 0}

\* The rows COUNT(*) ... closed_at IS NULL counts for a chain.
UnclosedLots(rows, c) == {i \in 1..Len(rows) : rows[i].chain = c /\ ~rows[i].closed}

GetPositionByChainID(c) == IF c \in DOMAIN positions THEN positions[c] ELSE None

EndCall(w, result) ==
    /\ outcome' = [outcome EXCEPT ![hook[w].trade] = result]
    /\ hook' = [hook EXCEPT ![w] = IdleJob]
    /\ UNCHANGED failures

AfterLeg(job) == [IdleJob EXCEPT !.pc = "leg", !.trade = job.trade,
                                 !.chain = job.chain, !.leg = job.leg + 1]

NextLeg(w) ==
    /\ hook' = [hook EXCEPT ![w] = AfterLeg(hook[w])]
    /\ UNCHANGED <<outcome, failures>>

-----------------------------------------------------------------------------
(* The call and its two ends.                                               *)

\* ImportService runs the hook once for a trade it has persisted and chained.
ProcessTrade(w, t, c) ==
    /\ hook[w].pc = "idle"
    /\ t \notin DOMAIN outcome
    /\ hook' = [hook EXCEPT ![w] = [IdleJob EXCEPT !.pc = "leg", !.trade = t,
                                                   !.chain = c, !.leg = 1]]
    /\ outcome' = [u \in DOMAIN outcome \cup {t} |->
                     IF u = t THEN "running" ELSE outcome[u]]
    /\ UNCHANGED <<lots, closings, positions, failures>>

Finish(w) ==
    /\ hook[w].pc = "leg"
    /\ hook[w].leg > Len(Legs[hook[w].trade])
    /\ EndCall(w, "ok")
    /\ UNCHANGED ledgerVars

\* The call ends before its next statement: the statement returns an error
\* (request cancelled, disk full) or the process dies.  Nothing is undone.
CutShort(w) ==
    /\ hook[w].pc # "idle"
    /\ failures < MaxFailures
    /\ outcome' = [outcome EXCEPT ![hook[w].trade] = "failed"]
    /\ hook' = [hook EXCEPT ![w] = IdleJob]
    /\ failures' = failures + 1
    /\ UNCHANGED ledgerVars

-----------------------------------------------------------------------------
(* processOpening: the lot and the position row are separate statements.    *)

CreateLot(w) ==
    /\ hook[w].pc = "leg"
    /\ hook[w].leg \in 1..Len(Legs[hook[w].trade])
    /\ CurrentLeg(w).effect = "opening"
    /\ lots' = Append(lots, [trade |-> hook[w].trade, inst |-> CurrentLeg(w).inst,
                             open |-> LotSignedQty(CurrentLeg(w)),
                             rem |-> LotSignedQty(CurrentLeg(w)),
                             price |-> CurrentLeg(w).price,
                             at |-> ExecutedAt[hook[w].trade],
                             closed |-> FALSE, chain |-> hook[w].chain])
    /\ hook' = [hook EXCEPT ![w].pc = "find"]
    /\ UNCHANGED <<closings, positions, outcome, failures>>

FindPosition(w) ==
    /\ hook[w].pc = "find"
    /\ hook' = [hook EXCEPT ![w].pos = GetPositionByChainID(hook[w].chain),
                            ![w].pc = IF hook[w].chain \in DOMAIN positions
                                      THEN "accumulate" ELSE "insert"]
    /\ UNCHANGED <<lots, closings, positions, outcome, failures>>

\* Two unique indexes guard the insert: chain_id, and the originating trade.
PositionKeyTaken(w) ==
    \/ hook[w].chain \in DOMAIN positions
    \/ \E c \in DOMAIN positions : positions[c].trade = hook[w].trade

CreatePosition(w) ==
    /\ hook[w].pc = "insert"
    /\ ~PositionKeyTaken(w)
    /\ positions' = [c \in DOMAIN positions \cup {hook[w].chain} |->
                       IF c = hook[w].chain
                       THEN [trade |-> hook[w].trade, pnl |-> 0, closed |-> FALSE, closedAt |-> 0,
                             cost |-> LegCostBasis(CurrentLeg(w))]
                       ELSE positions[c]]
    /\ NextLeg(w)
    /\ UNCHANGED <<lots, closings>>

CreatePositionRejected(w) ==
    /\ hook[w].pc = "insert"
    /\ PositionKeyTaken(w)
    /\ EndCall(w, "failed")
    /\ UNCHANGED ledgerVars

\* UpdatePosition writes back every mutable column of the row read earlier:
\* cost_basis grows by the leg, realized_pnl and closed_at keep what was read.
AccumulateCostBasis(w) ==
    /\ hook[w].pc = "accumulate"
    /\ positions' = [positions EXCEPT ![hook[w].chain] =
                       [hook[w].pos EXCEPT !.cost = @ + LegCostBasis(CurrentLeg(w))]]
    /\ NextLeg(w)
    /\ UNCHANGED <<lots, closings>>

-----------------------------------------------------------------------------
(* processClosing: one snapshot of the open lots, then one lookup and one   *)
(* SQL transaction per lot consumed.                                        *)

ListOpenLots(w) ==
    /\ hook[w].pc = "leg"
    /\ hook[w].leg \in 1..Len(Legs[hook[w].trade])
    /\ CurrentLeg(w).effect = "closing"
    /\ LET open == ListOpenLotsByInstrument(CurrentLeg(w).inst)
       IN IF open = {}
          THEN NextLeg(w)     \* ErrNoOpenLots: logged and skipped
          ELSE /\ hook' = [hook EXCEPT ![w].pc = "match",
                                       ![w].left = CurrentLeg(w).qty,
                                       ![w].todo = {[lot |-> i, rem |-> lots[i].rem] : i \in open}]
               /\ UNCHANGED <<outcome, failures>>
    /\ UNCHANGED ledgerVars

\* Mutated form: ORDER BY opened_at DESC.
LastIn(S) == {s \in S : \A r \in S : lots[s.lot].at >= lots[r.lot].at}

\* Lots are consumed in opened_at order; the order among equal times is
\* whatever the query returned.
FirstIn(S) == {s \in S : \A r \in S : lots[s.lot].at <= lots[r.lot].at}

FindPositionForLot(w) ==
    /\ hook[w].pc = "match"
    /\ hook[w].left # 0
    /\ \E s \in FirstIn(hook[w].todo) :
          hook' = [hook EXCEPT ![w].pc = "close", ![w].cur = s,
                               ![w].pos = GetPositionByChainID(lots[s.lot].chain)]
    /\ UNCHANGED <<lots, closings, positions, outcome, failures>>

\* The remaining quantity is computed from the snapshot, not from the row.
\* Mutated form: an SQL decrement of the row.
NewRemainingOfRow(job, lot, q) == lot.rem - LotDirection(lot) * q
NewRemaining(job, lot, q) == job.cur.rem - LotDirection(lot) * q

\* openCount = 0 inside the transaction that has just updated the lot, rows.
\* Mutated form: the count is taken before the lot is updated.
StampCountedEarly(job, rows, c) == job.pos.closed \/ UnclosedLots(lots, c) = {}
PositionClosed(job, rows, c) == job.pos.closed \/ UnclosedLots(rows, c) = {}

\* The stamp is renewed whenever no lot is left.
ClosingTime(job, rows, c) ==
    IF UnclosedLots(rows, c) = {} THEN ExecutedAt[job.trade] ELSE job.pos.closedAt

\* On to the next lot of the snapshot.
AfterClose(job, q) ==
    [job EXCEPT !.pc = "match", !.cur = None, !.pos = None,
                !.left = job.left - q, !.todo = job.todo \ {job.cur}]

\* CloseAndUpdatePosition, or CloseLot when the lot has no position row: one
\* SQL transaction that appends the closing, stores the remaining quantity
\* computed from the snapshot, and writes the position read just before with
\* the P&L added, stamped closed when no lot of its chain is left unclosed.
CloseLot(w) ==
    /\ hook[w].pc = "close"
    /\ LET job == hook[w]
           i   == job.cur.lot
           q   == CloseQty(job.left, job.cur.rem)
           pnl == RealizedPnL(CurrentLeg(w), lots[i], q)
           rem == NewRemaining(job, lots[i], q)
           c   == lots[i].chain
       IN /\ closings' = Append(closings, [lot |-> i, trade |-> job.trade,
                                           leg |-> job.leg, qty |-> q, pnl |-> pnl])
          /\ lots' = [lots EXCEPT ![i] = [@ EXCEPT !.rem = rem, !.closed = (rem = 0)]]
          /\ positions' =
               IF job.pos = None THEN positions
               ELSE [positions EXCEPT ![c] =
                       [@ EXCEPT !.pnl = job.pos.pnl + pnl,
                                 !.closed = PositionClosed(job, lots', c),
                                 !.closedAt = ClosingTime(job, lots', c)]]
          /\ hook' = [hook EXCEPT ![w] = AfterClose(job, q)]
    /\ UNCHANGED <<outcome, failures>>

ClosingMatched(w) ==
    /\ hook[w].pc = "match"
    /\ hook[w].left = 0
    /\ NextLeg(w)
    /\ UNCHANGED ledgerVars

\* Mutated form: the unmatched rest is ignored.
OverCloseIgnored(w) ==
    /\ hook[w].pc = "match"
    /\ hook[w].left # 0
    /\ hook[w].todo = {}
    /\ NextLeg(w)
    /\ UNCHANGED ledgerVars

\* More was closed than was open: an error, after the partial closings.
OverClose(w) ==
    /\ hook[w].pc = "match"
    /\ hook[w].left # 0
    /\ hook[w].todo = {}
    /\ EndCall(w, "failed")
    /\ UNCHANGED ledgerVars

-----------------------------------------------------------------------------
HookStep(w) ==
    \/ CreateLot(w)
    \/ FindPosition(w)
    \/ CreatePosition(w)
    \/ CreatePositionRejected(w)
    \/ AccumulateCostBasis(w)
    \/ ListOpenLots(w)
    \/ FindPositionForLot(w)
    \/ CloseLot(w)
    \/ ClosingMatched(w)
    \/ OverClose(w)
    \/ Finish(w)

(* The environment: what ImportService and ChainService may ask for.  A     *)
(* trade with opening legs always comes with a chain.  No two opening-only  *)
(* trades share one: each starts its own.  A mixed trade may come with any, *)
(* also with one whose starter is still on its way here in another import.  *)
Opens(t) == \E k \in 1..Len(Legs[t]) : Legs[t][k].effect = "opening"
Closes(t) == \E k \in 1..Len(Legs[t]) : Legs[t][k].effect = "closing"
StartedChains ==
    {lots[i].chain : i \in {i \in 1..Len(lots) : ~Closes(lots[i].trade)}}
    \cup {hook[w].chain : w \in {w \in Worker : hook[w].trade # None /\ ~Closes(hook[w].trade)}}

Call(w) == \E t \in Trade, c \in Chain \cup {None} :
    /\ Opens(t) <=> c # None
    /\ c \in StartedChains => Closes(t)
    /\ ProcessTrade(w, t, c)

Init ==
    /\ lots = <<>>
    /\ closings = <<>>
    /\ positions = [c \in {} |-> None]
    /\ hook = [w \in Worker |-> IdleJob]
    /\ outcome = [t \in {} |-> None]
    /\ failures = 0

Next == \E w \in Worker : Call(w) \/ HookStep(w) \/ CutShort(w)

Spec == Init /\ [][Next]_vars

-----------------------------------------------------------------------------
(* Properties.                                                              *)

TypeOK ==
    /\ lots \in Seq(LotRow)
    /\ closings \in Seq(ClosingRow)
    /\ DOMAIN positions \subseteq Chain
    /\ positions \in [DOMAIN positions -> PositionRow]
    /\ hook \in [Worker -> Job]
    /\ DOMAIN outcome \subseteq Trade
    /\ outcome \in [DOMAIN outcome -> {"running", "ok", "failed"}]
    /\ failures \in 0..MaxFailures

\* A lot never changes side and never grows: the remaining quantity stays
\* between zero and the opened quantity, and closed_at is stamped exactly when
\* nothing remains (the two conditions the closing code and the open-lot count
\* test, position_repo.go:242 and :366, select the same lots).  Holds whatever
\* the interleaving of calls, because each call writes both columns together.
LotWithinBounds ==
    \A i \in 1..Len(lots) :
        /\ lots[i].open > 0 => lots[i].rem \in 0..lots[i].open
        /\ lots[i].open < 0 => lots[i].rem \in lots[i].open..0
        /\ lots[i].closed <=> lots[i].rem = 0

QtyOfClosing == [j \in 1..Len(closings) |-> closings[j].qty]
ClosedQty(S) == SumFunctionOnSet(QtyOfClosing, S)
ClosingsOfLot(i) == {j \in 1..Len(closings) : closings[j].lot = i}
ClosingsOfLeg(t, k) == {j \in 1..Len(closings) : closings[j].trade = t /\ closings[j].leg = k}

\* The quantity a lot has lost is exactly what its lot_closings rows record,
\* also when calls are cut short between statements.
LotBalance ==
    \A i \in 1..Len(lots) :
        Abs(lots[i].open) - Abs(lots[i].rem) = ClosedQty(ClosingsOfLot(i))

\* A position listed as open has an unclosed lot: the row is created and
\* stamped by statements other than the ones that create and close lots.
OpenPositionHasOpenLot ==
    \A c \in DOMAIN positions : ~positions[c].closed => UnclosedLots(lots, c) # {}

\* The documented two states of a position: closed means all its lots are
\* fully closed (docs/phase2.md:345).
ClosedPositionHasNoOpenLot ==
    \A c \in DOMAIN positions : positions[c].closed => UnclosedLots(lots, c) = {}

\* The position row is a faithful cache of the ledger: as long as no call was
\* cut short, between legs, its cost basis is that of the lots of its chain and
\* its realized P&L that of their closings.
LotsOfChain(c) == {i \in 1..Len(lots) : lots[i].chain = c}
CostOfLot == [i \in 1..Len(lots) |-> LotCashFlowSign(lots[i]) * lots[i].price * Abs(lots[i].open)]
PnLOfClosing == [j \in 1..Len(closings) |-> closings[j].pnl]
ClosingsOfChain(c) == {j \in 1..Len(closings) : lots[closings[j].lot].chain = c}
BetweenLegs == \A w \in Worker : hook[w].pc \in {"idle", "leg"}

PositionMirrorsLedger ==
    failures = 0 /\ BetweenLegs =>
    \A c \in Chain :
        IF LotsOfChain(c) = {} THEN c \notin DOMAIN positions
        ELSE /\ c \in DOMAIN positions
             /\ positions[c].cost = SumFunctionOnSet(CostOfLot, LotsOfChain(c))
             /\ positions[c].pnl = SumFunctionOnSet(PnLOfClosing, ClosingsOfChain(c))

\* A trade whose hook reported success was applied whole: one lot per opening
\* leg, listed by a position, and each closing leg either matched in full or,
\* with no lot open, not at all: a lot without a position row, which a call cut
\* between the two inserts leaves, belongs to a trade reported as failed.  No leg
\* ever closes more than its quantity.
SuccessIsComplete ==
    \A t \in DOMAIN outcome :
        LET legs == 1..Len(Legs[t])
            opening == {k \in legs : Legs[t][k].effect = "opening"}
        IN /\ \A k \in legs \ opening : ClosedQty(ClosingsOfLeg(t, k)) <= Legs[t][k].qty
           /\ outcome[t] = "ok" =>
                /\ Cardinality({i \in 1..Len(lots) : lots[i].trade = t}) = Cardinality(opening)
                /\ \A i \in 1..Len(lots) : lots[i].trade = t => lots[i].chain \in DOMAIN positions
                /\ \A k \in legs \ opening :
                      ClosedQty(ClosingsOfLeg(t, k)) \in {0, Legs[t][k].qty}

\* First-in first-out: a step that reduces a lot leaves no older lot of the
\* same instrument open.
FifoOrder ==
    [][\A i, j \in 1..Len(lots) :
          /\ lots'[i].rem # lots[i].rem
          /\ lots[j].inst = lots[i].inst
          /\ lots[j].at < lots[i].at
          => lots[j].rem = 0]_vars

\* The abstract inventory this ledger implements.
LotsOf(inst) == {i \in 1..Len(lots) : lots[i].inst = inst}
QtyHeld == [i \in 1..Len(lots) |-> Abs(lots[i].rem)]
QtyOpened == [i \in 1..Len(lots) |-> Abs(lots[i].open)]
Held == [inst \in Instrument |-> SumFunctionOnSet(QtyHeld, LotsOf(inst))]
Opened == [inst \in Instrument |-> SumFunctionOnSet(QtyOpened, LotsOf(inst))]
Closed == [inst \in Instrument |->
             ClosedQty({j \in 1..Len(closings) : closings[j].lot \in LotsOf(inst)})]

AbstractInventory == INSTANCE Inventory WITH held <- Held, opened <- Opened, closed <- Closed
ImplementsInventory == AbstractInventory!Spec

=============================================================================
