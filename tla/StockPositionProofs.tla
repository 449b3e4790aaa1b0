------------------------ MODULE StockPositionProofs ------------------------
(***************************************************************************)
(* Theorems about StockPosition, for every set of trades and fills and      *)
(* every bound on the failures.  For any number of concurrent imports:      *)
(*   - StockTypeCorrect: the type invariant;                                *)
(*   - StockClosedIffFlat: ClosedIffFlat;                                   *)
(*   - StockOkBooksAll: OkBooksAll.                                         *)
(* For one import at a time, since a row is read in one step and written    *)
(* whole in a later one:                                                    *)
(*   - StockBooksBalance: BooksBalance;                                     *)
(*   - StockAverageWithinFills: AverageWithinFills.                         *)
(***************************************************************************)
EXTENDS StockPosition, SequenceTheorems, SumTheorems, TLAPS

-----------------------------------------------------------------------------
(* Arithmetic.                                                              *)

LEMMA MagnitudeType ==
    ASSUME NEW n \in Int
    PROVE  /\ Magnitude(n) \in Nat
           /\ n # 0 => Magnitude(n) > 0
  BY DEF Magnitude

\* Division by anything but zero gives an integer.
LEMMA DivRoundType ==
    ASSUME NEW a \in Int, NEW b \in Int, b # 0
    PROVE  DivRound(a, b) \in Int
  <1> DEFINE n == 2 * Magnitude(a) + Magnitude(b)
             d == 2 * Magnitude(b)
  <1>1. n \in Int /\ d \in Int /\ d > 0
    BY MagnitudeType
  <1>2. n \div d \in Int
    <2> HIDE DEF n, d
    <2> QED
      BY <1>1
  <1>3. -(n \div d) \in Int
    <2> HIDE DEF n, d
    <2> QED
      BY <1>2
  <1> QED
    BY <1>2, <1>3 DEF DivRound

LEMMA ProductType ==
    ASSUME NEW a \in Int, NEW b \in Int
    PROVE  a * b \in Int
  OBVIOUS

-----------------------------------------------------------------------------
(* One fill: what it writes is a row, closed exactly when it is flat.       *)

FlatRow(row) == row.closed <=> row.net = 0

GoodRow(row) == row \in Row /\ FlatRow(row)

LEMMA NewRowIsGood ==
    ASSUME NEW net \in Int, net # 0, NEW avg \in Int, NEW f \in Fill
    PROVE  GoodRow(NewRow(net, avg, f))
  BY DEF NewRow, GoodRow, FlatRow, Row, Fill

LEMMA ReopenedRowIsGood ==
    ASSUME NEW row \in Row, NEW net \in Int, net # 0, NEW avg \in Int, NEW f \in Fill
    PROVE  GoodRow(Reopen(row, net, avg, f))
  BY DEF Reopen, GoodRow, FlatRow, Row, Fill

LEMMA PricesAreTyped ==
    ASSUME NEW f \in Fill, f.qty # 0
    PROVE  BuyPrice(f) \in Int /\ ShortPrice(f) \in Int
  <1>1. f.qty \in Int /\ f.price \in Int /\ f.fees \in Int
    BY DEF Fill
  <1>2. DivRound(f.fees, f.qty) \in Int
    BY <1>1, DivRoundType
  <1> QED
    BY <1>1, <1>2 DEF BuyPrice, ShortPrice

\* Buying: the new quantity is not zero, or decimal.Div would have panicked.
LEMMA BuyIsGood ==
    ASSUME NEW row, row = None \/ GoodRow(row), NEW f \in Fill,
           f.action = "BTO", ~Rejected(row, f), ~DividesByZero(row, f)
    PROVE  GoodRow(EquityBuy(row, f))
  <1>1. f.qty \in Nat /\ f.price \in Int /\ f.fees \in Int /\ f.qty # 0
    BY DEF Fill, Rejected
  <1>2. BuyPrice(f) \in Int
    BY <1>1, PricesAreTyped
  <1>3. CASE row = None
    BY <1>1, <1>2, <1>3, NewRowIsGood DEF EquityBuy
  <1>4. CASE row # None /\ row.closed
    BY <1>1, <1>2, <1>4, ReopenedRowIsGood DEF EquityBuy, GoodRow
  <1>5. CASE row # None /\ ~row.closed
    <2>1. /\ row \in Row /\ row.net \in Int /\ row.avg \in Int /\ row.pnl \in Int
          /\ row.opened \in Nat /\ row.net # 0
      BY <1>5 DEF GoodRow, FlatRow, Row
    <2>2. row.net + f.qty \in Int /\ row.net + f.qty # 0
      BY <1>1, <1>5, <2>1 DEF DividesByZero, Held
    <2>3. row.net * row.avg \in Int /\ f.qty * f.price \in Int
      BY <1>1, <2>1, ProductType
    <2>4. row.net * row.avg + f.qty * f.price + f.fees \in Int
      BY <1>1, <2>3
    <2>5. BuyAverage(row, f) \in Int
      BY <2>2, <2>4, DivRoundType DEF BuyAverage
    <2>6. EquityBuy(row, f) = [row EXCEPT !.net = row.net + f.qty, !.avg = BuyAverage(row, f)]
      BY <1>5 DEF EquityBuy
    <2> QED
      BY <1>5, <2>1, <2>2, <2>5, <2>6 DEF GoodRow, FlatRow, Row
  <1> QED
    BY <1>3, <1>4, <1>5

LEMMA ShortOpenIsGood ==
    ASSUME NEW row, row = None \/ GoodRow(row), NEW f \in Fill,
           f.action = "STO", ~Rejected(row, f)
    PROVE  GoodRow(EquityShortOpen(row, f))
  <1>1. f.qty \in Nat /\ f.price \in Int /\ f.fees \in Int /\ f.qty # 0
    BY DEF Fill, Rejected
  <1>2. ShortPrice(f) \in Int
    BY <1>1, PricesAreTyped
  <1>3. -f.qty \in Int /\ -f.qty # 0
    BY <1>1
  <1>4. CASE row = None
    BY <1>2, <1>3, <1>4, NewRowIsGood DEF EquityShortOpen
  <1>5. CASE row # None /\ row.closed
    BY <1>2, <1>3, <1>5, ReopenedRowIsGood DEF EquityShortOpen, GoodRow
  <1>6. CASE row # None /\ ~row.closed
    <2>1. /\ row \in Row /\ row.net \in Int /\ row.avg \in Int /\ row.pnl \in Int
          /\ row.opened \in Nat
      BY <1>6 DEF GoodRow, Row
    <2>2. Magnitude(row.net) \in Nat
      BY <2>1, MagnitudeType
    <2>3. /\ Magnitude(row.net) + f.qty \in Int /\ Magnitude(row.net) + f.qty # 0
          /\ -(Magnitude(row.net) + f.qty) \in Int /\ -(Magnitude(row.net) + f.qty) # 0
      BY <1>1, <2>2
    <2>4. Magnitude(row.net) * row.avg \in Int /\ f.qty * f.price \in Int
      BY <1>1, <2>1, <2>2, ProductType
    <2>5. Magnitude(row.net) * row.avg + f.qty * f.price - f.fees \in Int
      BY <1>1, <2>4
    <2>6. ShortAverage(row, f) \in Int
      BY <2>3, <2>5, DivRoundType DEF ShortAverage
    <2>7. EquityShortOpen(row, f) = [row EXCEPT !.net = -(Magnitude(row.net) + f.qty),
                                                !.avg = ShortAverage(row, f)]
      BY <1>6 DEF EquityShortOpen
    <2> QED
      BY <1>6, <2>1, <2>3, <2>6, <2>7 DEF GoodRow, FlatRow, Row
  <1> QED
    BY <1>4, <1>5, <1>6

\* Selling and covering: a rejected quantity never reaches the row.
LEMMA ClosingIsGood ==
    ASSUME NEW row, row = None \/ GoodRow(row), NEW f \in Fill, ~Rejected(row, f)
    PROVE  /\ f.action = "STC" => GoodRow(EquitySell(row, f))
           /\ f.action = "BTC" => GoodRow(EquityShortCover(row, f))
  <1>1. f.qty \in Nat /\ f.price \in Int /\ f.fees \in Int
    BY DEF Fill
  <1>2. f.action \in {"STC", "BTC"} => row # None
    BY DEF Rejected, Held
  <1>3. SUFFICES ASSUME row # None, GoodRow(row) PROVE
          /\ f.action = "STC" => GoodRow(EquitySell(row, f))
          /\ f.action = "BTC" => GoodRow(EquityShortCover(row, f))
    BY <1>2
  <1>4. /\ row \in Row /\ row.net \in Int /\ row.avg \in Int /\ row.pnl \in Int
        /\ row.opened \in Nat /\ row.closed \in BOOLEAN /\ (row.closed <=> row.net = 0)
    BY <1>3 DEF GoodRow, FlatRow, Row
  <1>5. f.qty * f.price \in Int /\ f.qty * row.avg \in Int
    BY <1>1, <1>4, ProductType
  <1>6. ASSUME f.action = "STC" PROVE GoodRow(EquitySell(row, f))
    <2> DEFINE pnl == row.pnl + f.qty * f.price - f.fees - f.qty * row.avg
               closed == row.closed \/ row.net = f.qty
    <2>1. f.qty <= row.net
      BY <1>1, <1>3, <1>4, <1>6 DEF Rejected, Held
    <2>2. row.net - f.qty \in Int /\ closed \in BOOLEAN /\ (closed <=> row.net - f.qty = 0)
      BY <1>1, <1>4, <2>1
    <2>3. pnl \in Int
      BY <1>1, <1>4, <1>5
    <2>4. EquitySell(row, f) = [row EXCEPT !.net = row.net - f.qty, !.pnl = pnl, !.closed = closed]
      BY <1>4 DEF EquitySell
    <2> HIDE DEF pnl, closed
    <2> QED
      BY <1>4, <2>2, <2>3, <2>4 DEF GoodRow, FlatRow, Row
  <1>7. ASSUME f.action = "BTC" PROVE GoodRow(EquityShortCover(row, f))
    <2> DEFINE pnl == row.pnl + f.qty * row.avg - f.qty * f.price - f.fees
               closed == row.closed \/ row.net = -f.qty
    <2>1. f.qty <= -row.net /\ row.net < 0
      BY <1>1, <1>3, <1>4, <1>7 DEF Rejected, Held
    <2>2. row.net + f.qty \in Int /\ closed \in BOOLEAN /\ (closed <=> row.net + f.qty = 0)
      BY <1>1, <1>4, <2>1
    <2>3. pnl \in Int
      BY <1>1, <1>4, <1>5
    <2>4. EquityShortCover(row, f) = [row EXCEPT !.net = row.net + f.qty, !.pnl = pnl, !.closed = closed]
      BY <1>4 DEF EquityShortCover
    <2> HIDE DEF pnl, closed
    <2> QED
      BY <1>4, <2>2, <2>3, <2>4 DEF GoodRow, FlatRow, Row
  <1> QED
    BY <1>6, <1>7

LEMMA AfterFillIsGood ==
    ASSUME NEW row, row = None \/ GoodRow(row), NEW f \in Fill, f.action # "other",
           ~Rejected(row, f), ~DividesByZero(row, f)
    PROVE  GoodRow(AfterFill(row, f))
  <1>1. CASE f.action = "BTO"
    BY <1>1, BuyIsGood DEF AfterFill
  <1>2. CASE f.action = "STC"
    BY <1>2, ClosingIsGood DEF AfterFill
  <1>3. CASE f.action = "STO"
    BY <1>3, ShortOpenIsGood DEF AfterFill
  <1>4. CASE f.action = "BTC"
    BY <1>4, ClosingIsGood DEF AfterFill
  <1> QED
    BY <1>1, <1>2, <1>3, <1>4 DEF Fill, StockAction

-----------------------------------------------------------------------------
(* The inductive invariant.                                                 *)

\* What a call remembers: a trade and fills of it, and a good copy of a row,
\* however stale; a fill that waits to be written is one of the four actions.
JobOK(job) ==
    job.pc # "idle" =>
    /\ job.trade \in Trade
    /\ job.todo \subseteq DOMAIN Fills[job.trade]
    /\ job.pos = None \/ GoodRow(job.pos)
    /\ job.pc = "write" => job.cur \in job.todo /\ Fills[job.trade][job.cur].action # "other"

StockInv ==
    /\ TypeOK
    /\ ClosedIffFlat
    /\ \A w \in Worker : JobOK(hook[w])

LEMMA FillIsFill ==
    ASSUME NEW t \in Trade, NEW k \in DOMAIN Fills[t]
    PROVE  Fills[t][k] \in Fill /\ k \in Nat
  <1>1. Fills[t] \in Seq(Fill)
    BY FillsAssumption
  <1>2. DOMAIN Fills[t] = 1..Len(Fills[t]) /\ Len(Fills[t]) \in Nat
    BY <1>1, LenProperties
  <1>3. Fills[t][k] \in Fill
    BY <1>1, <1>2, ElementOfSeq
  <1> QED
    BY <1>2, <1>3

LEMMA IdleJobOK == IdleJob \in Job /\ JobOK(IdleJob)
  BY DEF IdleJob, Job, JobOK

\* A step of one call leaves what the others remember as it is.
LEMMA LocalStepKeepsInv ==
    ASSUME StockInv, NEW w \in Worker, NEW job \in Job, JobOK(job),
           hook' = [hook EXCEPT ![w] = job], UNCHANGED <<positions, booked>>,
           DOMAIN outcome' \subseteq Trade,
           outcome' \in [DOMAIN outcome' -> {"running", "ok", "failed"}],
           failures' \in 0..MaxFailures
    PROVE  StockInv'
  <1>1. TypeOK'
    BY DEF StockInv, TypeOK
  <1>2. \A v \in Worker : JobOK(hook'[v])
    BY DEF StockInv, TypeOK
  <1>3. ClosedIffFlat'
    BY DEF StockInv, ClosedIffFlat
  <1> QED
    BY <1>1, <1>2, <1>3 DEF StockInv, JobOK

LEMMA EndCallKeepsInv ==
    ASSUME StockInv, NEW w \in Worker, NEW result \in {"ok", "failed"}, EndCall(w, result),
           UNCHANGED <<positions, booked>>, failures' \in 0..MaxFailures
    PROVE  StockInv'
  <1>1. DOMAIN outcome' \subseteq Trade
    BY DEF EndCall, StockInv, TypeOK
  <1>2. outcome' \in [DOMAIN outcome' -> {"running", "ok", "failed"}]
    BY DEF EndCall, StockInv, TypeOK
  <1> QED
    BY <1>1, <1>2, IdleJobOK, LocalStepKeepsInv DEF EndCall

LEMMA ProcessTradeKeepsInv ==
    ASSUME StockInv, NEW w \in Worker, NEW t \in Trade, ProcessTrade(w, t)
    PROVE  StockInv'
  <1> DEFINE job == [IdleJob EXCEPT !.pc = "fill", !.trade = t, !.todo = DOMAIN Fills[t]]
  <1>1. DOMAIN Fills[t] \subseteq Nat
    BY FillIsFill
  <1>2. job \in Job /\ JobOK(job)
    BY <1>1 DEF IdleJob, Job, JobOK
  <1>3. hook' = [hook EXCEPT ![w] = job]
    BY DEF ProcessTrade
  <1>4. /\ DOMAIN outcome' \subseteq Trade
        /\ outcome' \in [DOMAIN outcome' -> {"running", "ok", "failed"}]
    BY DEF ProcessTrade, StockInv, TypeOK
  <1>5. UNCHANGED <<positions, booked>> /\ failures' \in 0..MaxFailures
    BY DEF ProcessTrade, StockInv, TypeOK
  <1> HIDE DEF job
  <1> QED
    BY <1>2, <1>3, <1>4, <1>5, LocalStepKeepsInv

\* The row read is one of the table, so it is a good one.
LEMMA NextFillKeepsInv ==
    ASSUME StockInv, NEW w \in Worker, NextFill(w)
    PROVE  StockInv'
  <1> DEFINE t == hook[w].trade
  <1>1. /\ hook[w] \in Job /\ hook[w].pc = "fill" /\ t \in Trade
        /\ hook[w].todo \subseteq DOMAIN Fills[t]
        /\ hook[w].pos = None \/ GoodRow(hook[w].pos)
    BY DEF NextFill, StockInv, TypeOK, JobOK
  <1>2. PICK k \in EarliestOf(t, hook[w].todo) :
          hook' = [hook EXCEPT ![w] =
              IF Fills[t][k].action = "other" THEN Skip(hook[w], k) ELSE Read(hook[w], k)]
    BY DEF NextFill
  <1>3. k \in hook[w].todo /\ k \in Nat
    BY <1>1, <1>2, FillIsFill DEF EarliestOf
  <1>4. \/ GetPositionByChainID(ChainOf[t]) = None
        \/ GoodRow(GetPositionByChainID(ChainOf[t]))
    BY DEF GetPositionByChainID, GoodRow, FlatRow, StockInv, TypeOK, ClosedIffFlat
  <1>5. Skip(hook[w], k) \in Job /\ JobOK(Skip(hook[w], k))
    BY <1>1 DEF Job, JobOK, Skip
  <1>6. ASSUME Fills[t][k].action # "other"
        PROVE  Read(hook[w], k) \in Job /\ JobOK(Read(hook[w], k))
    BY <1>1, <1>3, <1>4, <1>6 DEF Job, JobOK, GoodRow, Read
  <1>7. /\ DOMAIN outcome' \subseteq Trade
        /\ outcome' \in [DOMAIN outcome' -> {"running", "ok", "failed"}]
        /\ UNCHANGED <<positions, booked>> /\ failures' \in 0..MaxFailures
    BY DEF NextFill, StockInv, TypeOK
  <1>8. CASE Fills[t][k].action = "other"
    BY <1>2, <1>5, <1>7, <1>8, LocalStepKeepsInv
  <1>9. CASE Fills[t][k].action # "other"
    BY <1>2, <1>6, <1>7, <1>9, LocalStepKeepsInv
  <1> QED
    BY <1>8, <1>9

-----------------------------------------------------------------------------
(* Writing a fill.                                                          *)

LEMMA WaitingFill ==
    ASSUME StockInv, NEW w \in Worker, hook[w].pc = "write"
    PROVE  /\ hook[w] \in Job /\ hook[w].trade \in Trade
           /\ ChainOf[hook[w].trade] \in Chain
           /\ hook[w].todo \subseteq DOMAIN Fills[hook[w].trade]
           /\ hook[w].cur \in hook[w].todo /\ hook[w].cur \in Nat
           /\ CurrentFill(w) \in Fill /\ CurrentFill(w).action # "other"
           /\ hook[w].pos = None \/ GoodRow(hook[w].pos)
  <1>1. hook[w] \in Job /\ JobOK(hook[w])
    BY DEF StockInv, TypeOK
  <1>2. hook[w].trade \in Trade /\ hook[w].cur \in DOMAIN Fills[hook[w].trade]
    BY <1>1 DEF JobOK
  <1> QED
    BY <1>1, <1>2, FillIsFill, ChainAssumption DEF JobOK, CurrentFill

LEMMA WrittenJobOK ==
    ASSUME StockInv, NEW w \in Worker, hook[w].pc = "write"
    PROVE  LET job == [Skip(hook[w], hook[w].cur) EXCEPT !.pc = "fill", !.cur = 0, !.pos = None]
           IN  job \in Job /\ JobOK(job)
  BY WaitingFill DEF Job, JobOK, Skip

LEMMA BookedKeepsInv ==
    ASSUME StockInv, NEW w \in Worker, hook[w].pc = "write", Booked(w),
           DOMAIN positions' \subseteq Chain, positions' \in [DOMAIN positions' -> Row],
           ClosedIffFlat', UNCHANGED failures
    PROVE  StockInv'
  <1> DEFINE job == [Skip(hook[w], hook[w].cur) EXCEPT !.pc = "fill", !.cur = 0, !.pos = None]
  <1>1. job \in Job /\ JobOK(job)
    BY WrittenJobOK
  <1>2. hook' = [hook EXCEPT ![w] = job]
    BY DEF Booked
  <1>3. booked' \in Seq([trade: Trade, fill: Nat])
    BY WaitingFill, AppendProperties DEF Booked, StockInv, TypeOK
  <1> HIDE DEF job
  <1>4. TypeOK'
    BY <1>1, <1>2, <1>3 DEF Booked, StockInv, TypeOK
  <1>5. \A v \in Worker : JobOK(hook'[v])
    BY <1>1, <1>2 DEF StockInv, TypeOK
  <1> QED
    BY <1>4, <1>5 DEF StockInv, JobOK

LEMMA WriteFillKeepsInv ==
    ASSUME StockInv, NEW w \in Worker, WriteFill(w)
    PROVE  StockInv'
  <1> DEFINE c == ChainOf[hook[w].trade]
             row == AfterFill(hook[w].pos, CurrentFill(w))
  <1>1. /\ hook[w].pc = "write" /\ UNCHANGED failures
        /\ IF hook[w].pos = None THEN CreatePosition(w, c, row) ELSE UpdatePosition(w, c, row)
    BY DEF WriteFill
  <1>2. GoodRow(row) /\ c \in Chain
    BY WaitingFill, AfterFillIsGood DEF WriteFill
  <1>3. DOMAIN positions \subseteq Chain /\ positions \in [DOMAIN positions -> Row] /\ ClosedIffFlat
    BY DEF StockInv, TypeOK
  <1> HIDE DEF c, row
  <1>4. CASE CreatePosition(w, c, row) /\ c \in DOMAIN positions
    <2>1. EndCall(w, "failed") /\ UNCHANGED <<positions, booked>>
      BY <1>4 DEF CreatePosition
    <2>2. failures' \in 0..MaxFailures
      BY <1>1 DEF StockInv, TypeOK
    <2> QED
      BY <2>1, <2>2, EndCallKeepsInv
  <1>5. CASE CreatePosition(w, c, row) /\ c \notin DOMAIN positions
    <2>1. /\ positions' = [d \in DOMAIN positions \cup {c} |-> IF d = c THEN row ELSE positions[d]]
          /\ Booked(w)
      BY <1>5 DEF CreatePosition
    <2>2. /\ DOMAIN positions' \subseteq Chain /\ positions' \in [DOMAIN positions' -> Row]
          /\ ClosedIffFlat'
      BY <1>2, <1>3, <2>1 DEF GoodRow, FlatRow, ClosedIffFlat
    <2> QED
      BY <1>1, <2>1, <2>2, BookedKeepsInv
  <1>6. CASE UpdatePosition(w, c, row)
    <2> DEFINE stored == [row EXCEPT !.opened = positions[c].opened]
    <2>1. positions' = [positions EXCEPT ![c] = stored] /\ Booked(w)
      BY <1>6 DEF UpdatePosition
    <2>2. ASSUME c \in DOMAIN positions PROVE stored \in Row /\ FlatRow(stored)
      BY <1>2, <1>3, <2>2 DEF GoodRow, FlatRow, Row
    <2> HIDE DEF stored
    <2>3. /\ DOMAIN positions' \subseteq Chain /\ positions' \in [DOMAIN positions' -> Row]
          /\ ClosedIffFlat'
      BY <1>3, <2>1, <2>2 DEF FlatRow, ClosedIffFlat
    <2> QED
      BY <1>1, <2>1, <2>3, BookedKeepsInv
  <1> QED
    BY <1>1, <1>4, <1>5, <1>6

-----------------------------------------------------------------------------
(* Every step keeps the invariant.                                          *)

LEMMA PanicKeepsInv ==
    ASSUME StockInv, NEW w \in Worker, Panic(w)
    PROVE  StockInv'
  <1>1. TypeOK'
    BY IdleJobOK DEF Panic, StockInv, TypeOK
  <1>2. \A v \in Worker : hook'[v] = IdleJob
    BY DEF Panic
  <1>3. ClosedIffFlat'
    BY DEF Panic, StockInv, ClosedIffFlat
  <1> QED
    BY <1>1, <1>2, <1>3, IdleJobOK DEF StockInv, JobOK, IdleJob

LEMMA CutShortKeepsInv ==
    ASSUME StockInv, NEW w \in Worker, CutShort(w)
    PROVE  StockInv'
  <1>1. failures' \in 0..MaxFailures
    BY BoundAssumption DEF CutShort, StockInv, TypeOK
  <1> QED
    BY <1>1, EndCallKeepsInv DEF CutShort

LEMMA NextKeepsInv ==
    ASSUME StockInv, [Next]_vars
    PROVE  StockInv'
  <1>1. CASE UNCHANGED vars
    BY <1>1 DEF vars, StockInv, TypeOK, ClosedIffFlat, JobOK
  <1>2. ASSUME NEW w \in Worker, NEW t \in Trade, ProcessTrade(w, t) PROVE StockInv'
    BY <1>2, ProcessTradeKeepsInv
  <1>3. ASSUME NEW w \in Worker, HookStep(w) PROVE StockInv'
    <2>1. CASE NextFill(w)
      BY <2>1, NextFillKeepsInv
    <2>2. CASE WriteFill(w)
      BY <2>2, WriteFillKeepsInv
    <2>3. CASE RejectFill(w)
      BY <2>3, EndCallKeepsInv DEF RejectFill, StockInv, TypeOK
    <2>4. CASE Panic(w)
      BY <2>4, PanicKeepsInv
    <2>5. CASE Finish(w)
      BY <2>5, EndCallKeepsInv DEF Finish, StockInv, TypeOK
    <2> QED
      BY <1>3, <2>1, <2>2, <2>3, <2>4, <2>5 DEF HookStep
  <1>4. ASSUME NEW w \in Worker, CutShort(w) PROVE StockInv'
    BY <1>4, CutShortKeepsInv
  <1> QED
    BY <1>1, <1>2, <1>3, <1>4 DEF Next

LEMMA InitInv == Init => StockInv
  <1> SUFFICES ASSUME Init PROVE StockInv
    OBVIOUS
  <1>1. TypeOK
    BY IdleJobOK, BoundAssumption DEF Init, TypeOK
  <1> QED
    BY <1>1, IdleJobOK DEF Init, StockInv, ClosedIffFlat

LEMMA StockInvHolds == Spec => []StockInv
  BY InitInv, NextKeepsInv, PTL DEF Spec

\* Every variable keeps its type: in particular the average cost and the
\* realized P&L stay numbers, since no fill that is written divides by zero.
THEOREM StockTypeCorrect == Spec => []TypeOK
  <1>1. StockInv => TypeOK
    BY DEF StockInv
  <1> QED
    BY <1>1, StockInvHolds, PTL

\* A stock position is stamped closed exactly when no share is held or owed,
\* also when concurrent imports write back stale copies of its row.
THEOREM StockClosedIffFlat == Spec => []ClosedIffFlat
  <1>1. StockInv => ClosedIffFlat
    BY DEF StockInv
  <1> QED
    BY <1>1, StockInvHolds, PTL

-----------------------------------------------------------------------------
(* Which fills are written.                                                 *)

Active(w) == hook[w].pc # "idle"

Entry(t, k) == [trade |-> t, fill |-> k]

IsBooked(t, k) == \E n \in 1..Len(booked) : booked[n] = Entry(t, k)

\* A trade is in one call at most, and that call is running; what it has still
\* to do is not written, and what it has done is, or was skipped.
CallsInv ==
    /\ \A w \in Worker : Active(w) =>
          /\ hook[w].trade \in DOMAIN outcome
          /\ outcome[hook[w].trade] = "running"
          /\ \A k \in hook[w].todo : ~IsBooked(hook[w].trade, k)
          /\ \A k \in DOMAIN Fills[hook[w].trade] \ hook[w].todo :
                Fills[hook[w].trade][k].action = "other" \/ IsBooked(hook[w].trade, k)
    /\ \A v, w \in Worker : Active(v) /\ Active(w) /\ hook[v].trade = hook[w].trade => v = w
    /\ \A n \in 1..Len(booked) : booked[n].trade \in DOMAIN outcome

BookInv == OkBooksAll /\ CallsInv

\* A trade reported as processed has all its fills written.
AllWritten(t) == \A k \in DOMAIN Fills[t] : Fills[t][k].action = "other" \/ IsBooked(t, k)

NoneTwice == \A m, n \in 1..Len(booked) : booked[m] = booked[n] => m = n

LEMMA OkBooksAllParts ==
    OkBooksAll <=> NoneTwice /\ \A t \in DOMAIN outcome : outcome[t] = "ok" => AllWritten(t)
  BY DEF OkBooksAll, NoneTwice, AllWritten, IsBooked, Entry

\* The worker that moves keeps its trade and writes nothing.
LEMMA NextFillKeepsBooks ==
    ASSUME StockInv, BookInv, NEW w \in Worker, NextFill(w)
    PROVE  BookInv'
  <1> DEFINE t == hook[w].trade
  <1>1. UNCHANGED <<outcome, booked>> /\ hook \in [Worker -> Job] /\ Active(w)
    BY DEF NextFill, StockInv, TypeOK, Active
  <1>2. PICK k \in EarliestOf(t, hook[w].todo) :
          hook' = [hook EXCEPT ![w] =
              IF Fills[t][k].action = "other" THEN Skip(hook[w], k) ELSE Read(hook[w], k)]
    BY DEF NextFill
  <1>3. /\ hook'[w].trade = t
        /\ hook'[w].todo = IF Fills[t][k].action = "other" THEN hook[w].todo \ {k} ELSE hook[w].todo
        /\ \A v \in Worker : v # w => hook'[v] = hook[v]
    BY <1>1, <1>2 DEF Skip, Read, Job
  <1>4. OkBooksAll'
    BY <1>1 DEF BookInv, OkBooksAll
  <1>5. \A u, k2 : IsBooked(u, k2)' <=> IsBooked(u, k2)
    BY <1>1 DEF IsBooked, Entry
  <1>6. \A v \in Worker : Active(v)' => Active(v)
    BY <1>1, <1>3 DEF Active
  <1> HIDE DEF t
  <1>7. CallsInv'
    <2>1. ASSUME NEW v \in Worker, Active(v)'
          PROVE  /\ hook'[v].trade \in DOMAIN outcome'
                 /\ outcome'[hook'[v].trade] = "running"
                 /\ \A k2 \in hook'[v].todo : ~IsBooked(hook'[v].trade, k2)
                 /\ \A k2 \in DOMAIN Fills[hook'[v].trade] \ hook'[v].todo :
                       Fills[hook'[v].trade][k2].action = "other" \/ IsBooked(hook'[v].trade, k2)
      <3>1. CASE v # w
        BY <1>1, <1>3, <1>6, <2>1, <3>1 DEF BookInv, CallsInv
      <3>2. CASE v = w
        BY <1>1, <1>3, <3>2 DEF BookInv, CallsInv, t
      <3> QED
        BY <3>1, <3>2
    <2>2. \A v, u \in Worker : Active(v)' /\ Active(u)' /\ hook'[v].trade = hook'[u].trade => v = u
      BY <1>1, <1>3, <1>6 DEF BookInv, CallsInv, t
    <2>3. \A n \in 1..Len(booked') : booked'[n].trade \in DOMAIN outcome'
      BY <1>1 DEF BookInv, CallsInv
    <2> QED
      BY <1>5, <2>1, <2>2, <2>3 DEF CallsInv
  <1> QED
    BY <1>4, <1>7 DEF BookInv

\* A trade comes once, so nothing of it is written when its call starts.
LEMMA ProcessTradeKeepsBooks ==
    ASSUME StockInv, BookInv, NEW w \in Worker, NEW t \in Trade, ProcessTrade(w, t)
    PROVE  BookInv'
  <1>1. /\ UNCHANGED booked /\ hook \in [Worker -> Job] /\ t \notin DOMAIN outcome /\ ~Active(w)
        /\ DOMAIN outcome' = DOMAIN outcome \cup {t}
        /\ \A u \in DOMAIN outcome' : outcome'[u] = IF u = t THEN "running" ELSE outcome[u]
    BY DEF ProcessTrade, StockInv, TypeOK, Active
  <1>2. /\ hook'[w].trade = t /\ hook'[w].todo = DOMAIN Fills[t]
        /\ \A v \in Worker : v # w => hook'[v] = hook[v]
    BY <1>1 DEF ProcessTrade, IdleJob
  <1>3. \A u, k : IsBooked(u, k)' <=> IsBooked(u, k)
    BY <1>1 DEF IsBooked, Entry
  <1>4. \A k : ~IsBooked(t, k)
    BY <1>1 DEF BookInv, CallsInv, IsBooked, Entry
  <1>5. OkBooksAll'
    <2>1. NoneTwice'
      BY <1>1, OkBooksAllParts DEF BookInv, NoneTwice
    <2>2. \A u \in DOMAIN outcome' : outcome'[u] = "ok" => AllWritten(u)'
      BY <1>1, <1>3, OkBooksAllParts DEF BookInv, AllWritten
    <2> QED
      BY <2>1, <2>2 DEF OkBooksAll, NoneTwice, AllWritten, IsBooked, Entry
  <1>6. CallsInv'
    <2>1. ASSUME NEW v \in Worker, Active(v)'
          PROVE  /\ hook'[v].trade \in DOMAIN outcome'
                 /\ outcome'[hook'[v].trade] = "running"
                 /\ \A k \in hook'[v].todo : ~IsBooked(hook'[v].trade, k)
                 /\ \A k \in DOMAIN Fills[hook'[v].trade] \ hook'[v].todo :
                       Fills[hook'[v].trade][k].action = "other" \/ IsBooked(hook'[v].trade, k)
      <3>1. CASE v # w
        BY <1>1, <1>2, <2>1, <3>1 DEF BookInv, CallsInv, Active
      <3>2. CASE v = w
        BY <1>1, <1>2, <1>4, <3>2
      <3> QED
        BY <3>1, <3>2
    <2>2. \A v, u \in Worker : Active(v)' /\ Active(u)' /\ hook'[v].trade = hook'[u].trade => v = u
      BY <1>1, <1>2 DEF BookInv, CallsInv, Active
    <2>3. \A n \in 1..Len(booked') : booked'[n].trade \in DOMAIN outcome'
      BY <1>1 DEF BookInv, CallsInv
    <2> QED
      BY <1>3, <2>1, <2>2, <2>3 DEF CallsInv
  <1> QED
    BY <1>5, <1>6 DEF BookInv

\* The call that ends leaves the trades of the others running.
LEMMA EndCallKeepsBooks ==
    ASSUME StockInv, BookInv, NEW w \in Worker, Active(w),
           NEW result \in {"ok", "failed"}, EndCall(w, result), UNCHANGED booked,
           result = "ok" => hook[w].todo = {}
    PROVE  BookInv'
  <1> DEFINE t == hook[w].trade
  <1>1. /\ hook \in [Worker -> Job] /\ t \in DOMAIN outcome
        /\ DOMAIN outcome' = DOMAIN outcome
        /\ \A u \in DOMAIN outcome : outcome'[u] = IF u = t THEN result ELSE outcome[u]
    BY DEF EndCall, StockInv, TypeOK, BookInv, CallsInv
  <1>2. ~Active(w)' /\ \A v \in Worker : v # w => hook'[v] = hook[v]
    BY <1>1 DEF EndCall, IdleJob, Active
  <1>3. \A u, k : IsBooked(u, k)' <=> IsBooked(u, k)
    BY DEF IsBooked, Entry
  <1>4. result = "ok" => AllWritten(t)
    BY DEF BookInv, CallsInv, AllWritten
  <1>5. OkBooksAll'
    <2>1. NoneTwice'
      BY OkBooksAllParts DEF BookInv, NoneTwice
    <2>2. \A u \in DOMAIN outcome' : outcome'[u] = "ok" => AllWritten(u)
      BY <1>1, <1>4, OkBooksAllParts DEF BookInv
    <2>3. \A u \in DOMAIN outcome' : outcome'[u] = "ok" => AllWritten(u)'
      BY <1>3, <2>2 DEF AllWritten
    <2> QED
      BY <2>1, <2>3 DEF OkBooksAll, NoneTwice, AllWritten, IsBooked, Entry
  <1>6. CallsInv'
    <2>1. ASSUME NEW v \in Worker, Active(v)'
          PROVE  /\ hook'[v].trade \in DOMAIN outcome'
                 /\ outcome'[hook'[v].trade] = "running"
                 /\ \A k \in hook'[v].todo : ~IsBooked(hook'[v].trade, k)
                 /\ \A k \in DOMAIN Fills[hook'[v].trade] \ hook'[v].todo :
                       Fills[hook'[v].trade][k].action = "other" \/ IsBooked(hook'[v].trade, k)
      <3>1. v # w /\ hook'[v] = hook[v] /\ Active(v)
        BY <1>2, <2>1 DEF Active
      <3>2. hook[v].trade # t
        BY <3>1 DEF BookInv, CallsInv
      <3> QED
        BY <1>1, <3>1, <3>2 DEF BookInv, CallsInv
    <2>2. \A v, u \in Worker : Active(v)' /\ Active(u)' /\ hook'[v].trade = hook'[u].trade => v = u
      BY <1>2 DEF BookInv, CallsInv, Active
    <2>3. \A n \in 1..Len(booked') : booked'[n].trade \in DOMAIN outcome'
      BY <1>1 DEF BookInv, CallsInv
    <2> QED
      BY <1>3, <2>1, <2>2, <2>3 DEF CallsInv
  <1> QED
    BY <1>5, <1>6 DEF BookInv

LEMMA PanicKeepsBooks ==
    ASSUME StockInv, BookInv, NEW w \in Worker, Panic(w)
    PROVE  BookInv'
  <1>1. /\ UNCHANGED booked /\ DOMAIN outcome' = DOMAIN outcome
        /\ \A u \in DOMAIN outcome : outcome'[u] = "ok" => outcome[u] = "ok"
        /\ \A v \in Worker : ~Active(v)'
    BY DEF Panic, Active, IdleJob
  <1>2. OkBooksAll'
    BY <1>1 DEF BookInv, OkBooksAll
  <1>3. CallsInv'
    BY <1>1 DEF BookInv, CallsInv
  <1> QED
    BY <1>2, <1>3 DEF BookInv

\* What is written was still to be done, so it was not written before.
LEMMA BookedKeepsBooks ==
    ASSUME StockInv, BookInv, NEW w \in Worker, hook[w].pc = "write", Booked(w)
    PROVE  BookInv'
  <1> DEFINE t == hook[w].trade
             cur == hook[w].cur
             N == Len(booked)
             Now(u, k) == \E n \in 1..Len(booked') : booked'[n] = Entry(u, k)
  <1>1. /\ hook \in [Worker -> Job] /\ booked \in Seq([trade: Trade, fill: Nat]) /\ N \in Nat
        /\ cur \in hook[w].todo /\ Active(w) /\ UNCHANGED outcome
    BY WaitingFill, LenProperties DEF StockInv, TypeOK, Active, Booked
  <1>2. /\ hook'[w].trade = t /\ hook'[w].todo = hook[w].todo \ {cur}
        /\ \A v \in Worker : v # w => hook'[v] = hook[v]
    BY <1>1 DEF Booked, Skip, Job
  <1>3. /\ Len(booked') = N + 1 /\ booked'[N + 1] = Entry(t, cur)
        /\ \A n \in 1..N : booked'[n] = booked[n]
    BY <1>1, AppendProperties, WaitingFill DEF Booked, Entry
  <1>4. ~IsBooked(t, cur) /\ t \in DOMAIN outcome /\ outcome[t] = "running"
    BY <1>1 DEF BookInv, CallsInv
  <1> HIDE DEF t, cur, N
  <1>5. \A u, k : Now(u, k) <=> IsBooked(u, k) \/ (u = t /\ k = cur)
    <2>1. \A u, k : Now(u, k) <=> \E n \in 1..(N + 1) : booked'[n] = Entry(u, k)
      BY <1>3
    <2>2. \A u, k : (\E n \in 1..N : booked'[n] = Entry(u, k)) <=> IsBooked(u, k)
      BY <1>3 DEF IsBooked, N
    <2>3. \A u, k : Entry(t, cur) = Entry(u, k) <=> u = t /\ k = cur
      BY DEF Entry
    <2>4. 1..(N + 1) = (1..N) \cup {N + 1}
      BY <1>1
    <2> QED
      BY <1>3, <2>1, <2>2, <2>3, <2>4
  <1>6. OkBooksAll'
    <2>1. NoneTwice'
      <3> SUFFICES ASSUME NEW m \in 1..(N + 1), NEW n \in 1..(N + 1), booked'[m] = booked'[n]
                   PROVE  m = n
        BY <1>3 DEF NoneTwice
      <3>1. \A i \in 1..N : booked[i] # Entry(t, cur)
        BY <1>4 DEF IsBooked, N
      <3>2. CASE m \in 1..N /\ n \in 1..N
        BY <1>3, <3>2, OkBooksAllParts DEF BookInv, NoneTwice, N
      <3>3. CASE m = N + 1 \/ n = N + 1
        BY <1>1, <1>3, <3>1, <3>3
      <3> QED
        BY <1>1, <3>2, <3>3
    <2>2. \A u \in DOMAIN outcome' : outcome'[u] = "ok" => AllWritten(u)
      BY <1>1, OkBooksAllParts DEF BookInv
    <2>3. \A u \in DOMAIN outcome' : outcome'[u] = "ok" => AllWritten(u)'
      BY <1>5, <2>2 DEF AllWritten, IsBooked, Entry
    <2> QED
      BY <2>1, <2>3 DEF OkBooksAll, NoneTwice, AllWritten, IsBooked, Entry
  <1>7. \A v \in Worker : Active(v)' => Active(v)
    BY <1>1, <1>2 DEF Active
  <1>8. CallsInv'
    <2>1. ASSUME NEW v \in Worker, Active(v)'
          PROVE  /\ hook'[v].trade \in DOMAIN outcome'
                 /\ outcome'[hook'[v].trade] = "running"
                 /\ \A k \in hook'[v].todo : ~Now(hook'[v].trade, k)
                 /\ \A k \in DOMAIN Fills[hook'[v].trade] \ hook'[v].todo :
                       Fills[hook'[v].trade][k].action = "other" \/ Now(hook'[v].trade, k)
      <3>1. /\ hook[v].trade \in DOMAIN outcome
            /\ outcome[hook[v].trade] = "running"
            /\ \A k \in hook[v].todo : ~IsBooked(hook[v].trade, k)
            /\ \A k \in DOMAIN Fills[hook[v].trade] \ hook[v].todo :
                  Fills[hook[v].trade][k].action = "other" \/ IsBooked(hook[v].trade, k)
        BY <1>7, <2>1 DEF BookInv, CallsInv
      <3>2. CASE v # w
        <4>1. hook'[v] = hook[v] /\ hook[v].trade # t
          BY <1>1, <1>2, <1>7, <2>1, <3>2 DEF BookInv, CallsInv, t
        <4> QED
          BY <1>1, <1>5, <3>1, <4>1
      <3>3. CASE v = w
        <4>1. hook'[v].trade = t /\ hook'[v].todo = hook[v].todo \ {cur} /\ hook[v].trade = t
          BY <1>2, <3>3 DEF t
        <4> HIDE DEF Now
        <4> QED
          BY <1>1, <1>5, <3>1, <4>1
      <3> QED
        BY <3>2, <3>3
    <2>2. \A v, u \in Worker : Active(v)' /\ Active(u)' /\ hook'[v].trade = hook'[u].trade => v = u
      BY <1>2, <1>7 DEF BookInv, CallsInv, t
    <2>3. \A n \in 1..Len(booked') : booked'[n].trade \in DOMAIN outcome'
      <3> SUFFICES ASSUME NEW n \in 1..(N + 1) PROVE booked'[n].trade \in DOMAIN outcome
        BY <1>1, <1>3
      <3>1. CASE n \in 1..N
        BY <1>3, <3>1 DEF BookInv, CallsInv, N
      <3>2. CASE n = N + 1
        BY <1>3, <1>4, <3>2 DEF Entry
      <3> QED
        BY <1>1, <3>1, <3>2
    <2> QED
      BY <2>1, <2>2, <2>3 DEF CallsInv, IsBooked, Entry
  <1> QED
    BY <1>6, <1>8 DEF BookInv

LEMMA WriteFillKeepsBooks ==
    ASSUME StockInv, BookInv, NEW w \in Worker, WriteFill(w)
    PROVE  BookInv'
  <1>1. hook[w].pc = "write" /\ Active(w)
    BY DEF WriteFill, Active
  <1>2. Booked(w) \/ (EndCall(w, "failed") /\ UNCHANGED booked)
    BY DEF WriteFill, CreatePosition, UpdatePosition
  <1> QED
    BY <1>1, <1>2, BookedKeepsBooks, EndCallKeepsBooks

LEMMA NextKeepsBooks ==
    ASSUME StockInv, BookInv, [Next]_vars
    PROVE  BookInv'
  <1>1. CASE UNCHANGED vars
    BY <1>1 DEF vars, BookInv, OkBooksAll, CallsInv, Active, IsBooked, Entry
  <1>2. ASSUME NEW w \in Worker, NEW t \in Trade, ProcessTrade(w, t) PROVE BookInv'
    BY <1>2, ProcessTradeKeepsBooks
  <1>3. ASSUME NEW w \in Worker, HookStep(w) PROVE BookInv'
    <2>1. CASE NextFill(w)
      BY <2>1, NextFillKeepsBooks
    <2>2. CASE WriteFill(w)
      BY <2>2, WriteFillKeepsBooks
    <2>3. CASE RejectFill(w)
      BY <2>3, EndCallKeepsBooks DEF RejectFill, Active
    <2>4. CASE Panic(w)
      BY <2>4, PanicKeepsBooks
    <2>5. CASE Finish(w)
      BY <2>5, EndCallKeepsBooks DEF Finish, Active
    <2> QED
      BY <1>3, <2>1, <2>2, <2>3, <2>4, <2>5 DEF HookStep
  <1>4. ASSUME NEW w \in Worker, CutShort(w) PROVE BookInv'
    BY <1>4, EndCallKeepsBooks DEF CutShort, Active
  <1> QED
    BY <1>1, <1>2, <1>3, <1>4 DEF Next

LEMMA InitBooks == Init => BookInv
  BY DEF Init, BookInv, OkBooksAll, CallsInv, Active, IdleJob

\* No fill is written twice, and a trade reported as processed has all of its
\* fills written, whichever calls are cut short, rejected or ended by a panic
\* of another one.
THEOREM StockOkBooksAll == Spec => []OkBooksAll
  <1>1. BookInv => OkBooksAll
    BY DEF BookInv
  <1> QED
    BY <1>1, InitBooks, NextKeepsBooks, StockInvHolds, PTL DEF Spec

-----------------------------------------------------------------------------
(* The rounding of decimal.Div.                                             *)

LEMMA DivBounds ==
    ASSUME NEW n \in Int, NEW d \in Int, d > 0
    PROVE  /\ n \div d \in Int
           /\ d * (n \div d) <= n
           /\ n < d * (n \div d) + d
  OBVIOUS

\* Rounding to the nearest unit is off by half a unit at most.
LEMMA DivRoundError ==
    ASSUME NEW a \in Int, NEW b \in Int, b # 0
    PROVE  /\ b * DivRound(a, b) \in Int
           /\ 2 * Magnitude(a - b * DivRound(a, b)) <= Magnitude(b)
  <1> DEFINE A == Magnitude(a)
             B == Magnitude(b)
             q == (2 * A + B) \div (2 * B)
  <1>1. A \in Nat /\ B \in Nat /\ B > 0
    BY MagnitudeType
  <1>2. (a = A /\ a >= 0) \/ (a = -A /\ a < 0)
    BY DEF Magnitude
  <1>3. (b = B /\ b >= 0) \/ (b = -B /\ b < 0)
    BY DEF Magnitude
  <1>4. DivRound(a, b) = IF (a < 0) = (b < 0) THEN q ELSE -q
    BY DEF DivRound
  <1> HIDE DEF A, B
  <1>5. /\ 2 * A + B \in Int /\ 2 * B \in Int /\ 2 * B > 0
    BY <1>1
  <1>6. /\ q \in Int /\ (2 * B) * q <= 2 * A + B /\ 2 * A + B < (2 * B) * q + 2 * B
    BY <1>5, DivBounds
  <1> HIDE DEF q
  <1> DEFINE p == B * q
  <1>7. p \in Int /\ (2 * B) * q = 2 * p
    BY <1>1, <1>6
  <1>8. b * DivRound(a, b) = IF a < 0 THEN -p ELSE p
    <2>1. CASE b = B /\ b >= 0
      BY <1>1, <1>4, <1>6, <2>1
    <2>2. CASE b = -B /\ b < 0
      <3>1. (-B) * q = -p /\ (-B) * (-q) = p
        BY <1>1, <1>6
      <3> QED
        BY <1>4, <2>2, <3>1
    <2> QED
      BY <1>3, <2>1, <2>2
  <1> HIDE DEF p
  <1>9. 2 * (A - p) <= B /\ -B <= 2 * (A - p)
    BY <1>1, <1>6, <1>7
  <1>10. /\ a - b * DivRound(a, b) = A - p \/ a - b * DivRound(a, b) = -(A - p)
         /\ b * DivRound(a, b) \in Int
    BY <1>1, <1>2, <1>7, <1>8
  <1> QED
    BY <1>1, <1>7, <1>9, <1>10 DEF Magnitude, B

\* d is the quotient of a and b, rounded.
Rounded(a, b, d) ==
    d \in Int /\ b * d \in Int /\ 2 * Magnitude(a - b * d) <= Magnitude(b)

LEMMA DivRoundRounds ==
    ASSUME NEW a \in Int, NEW b \in Int, b # 0
    PROVE  Rounded(a, b, DivRound(a, b))
  BY DivRoundError, DivRoundType DEF Rounded

\* A quotient that lies between two integers is rounded to one between them.
LEMMA DivRoundBetween ==
    ASSUME NEW a \in Int, NEW b \in Int, b > 0, NEW m \in Int
    PROVE  /\ b * m <= a => m <= DivRound(a, b)
           /\ a <= b * m => DivRound(a, b) <= m
  <1> DEFINE r == DivRound(a, b)
             e == a - b * r
  <1>1. r \in Int /\ b * r \in Int /\ 2 * Magnitude(e) <= b
    <2>1. b # 0 /\ Magnitude(b) = b
      BY DEF Magnitude
    <2> QED
      BY <2>1, DivRoundError, DivRoundType
  <1> HIDE DEF r
  <1>2. e \in Int /\ 2 * e <= b /\ -b <= 2 * e
    BY <1>1 DEF Magnitude
  <1>3. ASSUME b * m <= a, r < m PROVE FALSE
    <2>1. b * (r + 1) <= b * m
      BY <1>1, <1>3
    <2>2. b * (r + 1) = b * r + b
      BY <1>1
    <2> QED
      BY <1>1, <1>2, <1>3, <2>1, <2>2
  <1>4. ASSUME a <= b * m, m < r PROVE FALSE
    <2>1. b * (m + 1) <= b * r
      BY <1>1, <1>4
    <2>2. b * (m + 1) = b * m + b
      OBVIOUS
    <2> QED
      BY <1>1, <1>2, <1>4, <2>1, <2>2
  <1> QED
    BY <1>1, <1>3, <1>4 DEF r

-----------------------------------------------------------------------------
(* One fill and the books of its row.                                       *)

\* What a row has earned, less what it paid for the shares it holds.
Worth(row) == IF row = None THEN 0 ELSE row.pnl - row.net * row.avg

\* How far the fill is from leaving Worth(row) less the cash it moved alone.
Drift(row, f) == Worth(AfterFill(row, f)) - Worth(row) - Cash(f)

\* The fill adds its shares to the row, and its cash up to the rounding of the
\* average: half a unit per share held after an opening fill, nothing after a
\* closing one.
Balanced(row, f) ==
    LET after == AfterFill(row, f)
    IN /\ after.net = Held(row) + Signed(f)
       /\ Drift(row, f) \in Int
       /\ Opens(f) => 2 * Magnitude(Drift(row, f)) <= Magnitude(after.net)
       /\ ~Opens(f) => Drift(row, f) = 0

\* The two ways an average is made: from the price of one fill ...
\* d: the fees x of q shares at price p, per share.
FirstFill(q, p, x, d) ==
    /\ 2 * Magnitude(x - q * d) <= q
    /\ q * (p + d) = q * p + q * d
    /\ q * (p - d) = q * p - q * d
    /\ q * d \in Int /\ d \in Int /\ q * p \in Int

LEMMA FirstFillRounds ==
    ASSUME NEW q \in Nat, q # 0, NEW p \in Nat, NEW x \in Nat
    PROVE  FirstFill(q, p, x, DivRound(x, q))
  <1> DEFINE d == DivRound(x, q)
  <1>1. q \in Int /\ Magnitude(q) = q /\ x \in Int /\ p \in Int
    BY DEF Magnitude
  <1>2. d \in Int
    BY <1>1, DivRoundType
  <1>3. 2 * Magnitude(x - q * d) <= q
    BY <1>1, DivRoundError
  <1>4. q * d \in Int /\ q * p \in Int
    BY <1>1, <1>2, ProductType
  <1> HIDE DEF d
  <1>5. FirstFill(q, p, x, d)
    BY <1>1, <1>2, <1>3, <1>4 DEF FirstFill
  <1> QED
    BY <1>5 DEF d

\* Opening fills of a row that is flat or not there.
LEMMA NewRowBalances ==
    ASSUME NEW row, row = None \/ GoodRow(row), NEW f \in Fill, Opens(f),
           ~Rejected(row, f), row = None \/ row.closed
    PROVE  Balanced(row, f)
  <1>1. /\ f.qty \in Nat /\ f.qty # 0 /\ f.price \in Nat /\ f.fees \in Nat
        /\ f.action = "BTO" \/ f.action = "STO"
    BY DEF Opens, Fill, Rejected
  <1> DEFINE after == AfterFill(row, f)
  <1>2. PICK q, p, x, d : q = f.qty /\ p = f.price /\ x = f.fees /\ d = DivRound(x, q)
    OBVIOUS
  <1>3. /\ q \in Nat /\ q # 0 /\ p \in Nat /\ x \in Nat
        /\ 2 * Magnitude(x - q * d) <= q
        /\ q * (p + d) = q * p + q * d
        /\ q * (p - d) = q * p - q * d
        /\ q * d \in Int /\ d \in Int /\ q * p \in Int
    <2>1. q \in Nat /\ q # 0 /\ p \in Nat /\ x \in Nat /\ d = DivRound(x, q)
      BY <1>1, <1>2
    <2>2. FirstFill(q, p, x, d)
      BY <2>1, FirstFillRounds
    <2> QED
      BY <2>1, <2>2 DEF FirstFill
  <1>4. PICK worth : worth = Worth(row)
    OBVIOUS
  <1>5. /\ Held(row) = 0 /\ worth \in Int
        /\ worth = IF row = None THEN 0 ELSE row.pnl
        /\ row # None => row \in Row
    <2>1. CASE row = None
      BY <1>4, <2>1 DEF Held, Worth
    <2>2. CASE row # None
      <3>1. /\ row \in Row /\ row.net = 0 /\ row.pnl \in Int /\ row.avg \in Int
            /\ row.net * row.avg = 0
        BY <2>2 DEF GoodRow, FlatRow, Row
      <3> QED
        BY <1>4, <2>2, <3>1 DEF Held, Worth
    <2> QED
      BY <2>1, <2>2
  <1>6. after # None
    <2>1. GoodRow(after)
      BY <1>1, AfterFillIsGood DEF DividesByZero, Held, GoodRow, FlatRow
    <2> QED
      BY <2>1, NoneAssumption DEF GoodRow
  <1>7. CASE f.action = "BTO"
    <2>1. after.net = q /\ after.avg = p + d /\ after.pnl = worth
      <3>1. after = EquityBuy(row, f) /\ BuyPrice(f) = p + d
        BY <1>2, <1>7 DEF AfterFill, BuyPrice
      <3>2. CASE row = None
        BY <1>2, <1>5, <3>1, <3>2 DEF EquityBuy, NewRow
      <3>3. CASE row # None
        <4>1. after = [row EXCEPT !.net = q, !.avg = p + d, !.opened = f.at, !.closed = FALSE]
          BY <1>2, <3>1, <3>3 DEF EquityBuy, Reopen
        <4> QED
          BY <1>5, <3>3, <4>1 DEF Row
      <3> QED
        BY <3>2, <3>3
    <2>2. Worth(after) = worth - (q * p + q * d)
      BY <1>3, <1>6, <2>1 DEF Worth
    <2>3. Signed(f) = q /\ Cash(f) = -(q * p) - x
      BY <1>2, <1>3, <1>7 DEF Signed, Cash
    <2>4. Drift(row, f) = x - q * d
      BY <1>3, <1>4, <1>5, <2>2, <2>3 DEF Drift
    <2>5. Magnitude(after.net) = q
      BY <1>3, <2>1 DEF Magnitude
    <2> QED
      BY <1>3, <1>5, <2>1, <2>3, <2>4, <2>5 DEF Balanced
  <1>8. CASE f.action = "STO"
    <2>1. after.net = -q /\ after.avg = p - d /\ after.pnl = worth
      <3>1. after = EquityShortOpen(row, f) /\ ShortPrice(f) = p - d
        BY <1>2, <1>8 DEF AfterFill, ShortPrice
      <3>2. CASE row = None
        BY <1>2, <1>5, <3>1, <3>2 DEF EquityShortOpen, NewRow
      <3>3. CASE row # None
        <4>1. after = [row EXCEPT !.net = -q, !.avg = p - d, !.opened = f.at, !.closed = FALSE]
          BY <1>2, <3>1, <3>3 DEF EquityShortOpen, Reopen
        <4> QED
          BY <1>5, <3>3, <4>1 DEF Row
      <3> QED
        BY <3>2, <3>3
    <2>2. Worth(after) = worth + (q * p - q * d)
      <3>1. (-q) * (p - d) = -(q * (p - d))
        BY <1>3
      <3> QED
        BY <1>3, <1>5, <1>6, <2>1, <3>1 DEF Worth
    <2>3. Signed(f) = -q /\ Cash(f) = q * p - x
      <3>1. -((-q) * p) = q * p
        BY <1>3
      <3> QED
        BY <1>2, <1>8, <3>1 DEF Signed, Cash
    <2>4. Drift(row, f) = x - q * d
      BY <1>3, <1>4, <1>5, <2>2, <2>3 DEF Drift
    <2>5. Magnitude(after.net) = q
      BY <1>3, <2>1 DEF Magnitude
    <2> QED
      BY <1>3, <1>5, <2>1, <2>3, <2>4, <2>5 DEF Balanced
  <1> QED
    BY <1>1, <1>7, <1>8

\* The numbers of a row that is there, and of a fill.
LEMMA RowNumbers ==
    ASSUME NEW row, row # None, GoodRow(row), NEW f \in Fill
    PROVE  /\ row \in Row /\ row.net \in Int /\ row.avg \in Int /\ row.pnl \in Int
           /\ row.net * row.avg \in Int
           /\ (row.closed <=> row.net = 0)
           /\ f.qty \in Nat /\ f.price \in Nat /\ f.fees \in Nat
           /\ f.qty * f.price \in Int /\ f.qty * row.avg \in Int
           /\ Held(row) = row.net /\ Worth(row) = row.pnl - row.net * row.avg
  <1>1. /\ row \in Row /\ row.net \in Int /\ row.avg \in Int /\ row.pnl \in Int
        /\ (row.closed <=> row.net = 0)
        /\ f.qty \in Nat /\ f.price \in Nat /\ f.fees \in Nat
        /\ Held(row) = row.net /\ Worth(row) = row.pnl - row.net * row.avg
    BY DEF GoodRow, FlatRow, Row, Fill, Held, Worth
  <1> QED
    BY <1>1, ProductType

\* Shares added to an open row: the new average is the old cost and that of the
\* fill over all the shares.
LEMMA AddingBalances ==
    ASSUME NEW row, row # None, GoodRow(row), ~row.closed, NEW f \in Fill, Opens(f),
           ~Rejected(row, f), ~DividesByZero(row, f),
           f.action = "STO" => row.net < 0
    PROVE  Balanced(row, f)
  <1> DEFINE after == AfterFill(row, f)
  <1>1. PICK net, avg, q, p, x, c, g : /\ net = row.net /\ avg = row.avg
                                 /\ q = f.qty /\ p = f.price /\ x = f.fees
                                 /\ c = net * avg /\ g = q * p
    OBVIOUS
  <1>2. /\ row \in Row /\ net \in Int /\ avg \in Int /\ row.pnl \in Int /\ net # 0
        /\ q \in Nat /\ q # 0 /\ p \in Nat /\ x \in Nat /\ c \in Int /\ g \in Int
        /\ Held(row) = net /\ Worth(row) = row.pnl - c
        /\ f.action = "BTO" \/ f.action = "STO"
    BY <1>1, RowNumbers DEF Opens, Rejected
  <1>3. after # None
    <2>1. GoodRow(after)
      BY AfterFillIsGood DEF Opens
    <2> QED
      BY <2>1, NoneAssumption DEF GoodRow
  <1>4. CASE f.action = "BTO"
    <2>1. PICK n, a : n = net + q /\ a = DivRound(c + g + x, n)
      OBVIOUS
    <2>2. n \in Int /\ n # 0
      BY <1>1, <1>2, <1>4, <2>1 DEF DividesByZero
    <2>3. /\ n * a \in Int /\ 2 * Magnitude(c + g + x - n * a) <= Magnitude(n)
          /\ a \in Int
      <3>1. c + g + x \in Int
        BY <1>2
      <3>2. Rounded(c + g + x, n, a)
        BY <2>1, <2>2, <3>1, DivRoundRounds
      <3> QED
        BY <1>2, <2>2, <3>2 DEF Rounded
    <2>4. after.net = n /\ after.avg = a /\ after.pnl = row.pnl
      <3>1. after = [row EXCEPT !.net = n, !.avg = a]
        BY <1>1, <1>4, <2>1 DEF AfterFill, EquityBuy, BuyAverage
      <3> QED
        BY <1>2, <3>1 DEF Row
    <2>5. Worth(after) = row.pnl - n * a
      BY <1>3, <2>4 DEF Worth
    <2>6. Signed(f) = q /\ Cash(f) = -g - x
      BY <1>1, <1>4 DEF Signed, Cash
    <2>7. Drift(row, f) = c + g + x - n * a
      BY <1>2, <2>3, <2>5, <2>6 DEF Drift
    <2> QED
      BY <1>2, <2>1, <2>2, <2>3, <2>4, <2>6, <2>7 DEF Balanced
  <1>5. CASE f.action = "STO"
    <2>1. PICK n, a : n = -net + q /\ a = DivRound(-c + g - x, n)
      OBVIOUS
    <2>2. n \in Int /\ n > 0 /\ Magnitude(net) = -net /\ Magnitude(n) = n /\ Magnitude(-n) = n
      BY <1>1, <1>2, <1>5, <2>1 DEF Magnitude
    <2>3. /\ n * a \in Int /\ 2 * Magnitude(-c + g - x - n * a) <= n
          /\ a \in Int
      <3>1. -c + g - x \in Int
        BY <1>2
      <3>2. Rounded(-c + g - x, n, a)
        BY <2>1, <2>2, <3>1, DivRoundRounds
      <3> QED
        BY <1>2, <2>2, <3>2 DEF Rounded
    <2>4. after.net = -n /\ after.avg = a /\ after.pnl = row.pnl
      <3>1. (-net) * avg = -c
        BY <1>1, <1>2
      <3>2. ShortAverage(row, f) = a
        BY <1>1, <2>1, <2>2, <3>1 DEF ShortAverage
      <3>3. after = [row EXCEPT !.net = -n, !.avg = a]
        BY <1>1, <1>5, <2>1, <2>2, <3>2 DEF AfterFill, EquityShortOpen
      <3> QED
        BY <1>2, <3>3 DEF Row
    <2>5. Worth(after) = row.pnl + n * a
      <3>1. (-n) * a = -(n * a)
        BY <2>2, <2>3
      <3> QED
        BY <1>2, <1>3, <2>3, <2>4, <3>1 DEF Worth
    <2>6. Signed(f) = -q /\ Cash(f) = g - x
      <3>1. -((-q) * p) = g
        BY <1>1, <1>2
      <3> QED
        BY <1>1, <1>5, <3>1 DEF Signed, Cash
    <2>7. Drift(row, f) = -(-c + g - x - n * a)
      BY <1>2, <2>3, <2>5, <2>6 DEF Drift
    <2>8. 2 * Magnitude(Drift(row, f)) <= n /\ Drift(row, f) \in Int
      BY <1>2, <2>2, <2>3, <2>7 DEF Magnitude
    <2> QED
      BY <1>2, <2>1, <2>2, <2>4, <2>6, <2>8 DEF Balanced
  <1> QED
    BY <1>2, <1>4, <1>5

\* Shares sold or covered leave at the average cost: nothing is rounded.
LEMMA ClosingBalances ==
    ASSUME NEW row, row = None \/ GoodRow(row), NEW f \in Fill,
           f.action # "other", ~Opens(f), ~Rejected(row, f), ~DividesByZero(row, f)
    PROVE  row # None /\ Balanced(row, f)
  <1> DEFINE after == AfterFill(row, f)
  <1>1. row # None /\ (f.action = "STC" \/ f.action = "BTC")
    BY DEF Opens, Fill, StockAction, Rejected, Held
  <1>2. PICK net, avg, q, p, x, c, g, s : /\ net = row.net /\ avg = row.avg
                                 /\ q = f.qty /\ p = f.price /\ x = f.fees
                                 /\ c = net * avg /\ g = q * p /\ s = q * avg
    OBVIOUS
  <1>3. /\ row \in Row /\ net \in Int /\ avg \in Int /\ row.pnl \in Int
        /\ q \in Nat /\ p \in Nat /\ x \in Nat /\ c \in Int /\ g \in Int /\ s \in Int
        /\ Held(row) = net /\ Worth(row) = row.pnl - c
    BY <1>1, <1>2, RowNumbers
  <1>4. after # None
    <2>1. GoodRow(after)
      BY AfterFillIsGood
    <2> QED
      BY <2>1, NoneAssumption DEF GoodRow
  <1>5. CASE f.action = "STC"
    <2>1. after.net = net - q /\ after.avg = avg /\ after.pnl = row.pnl + g - x - s
      <3>1. after = [row EXCEPT !.net = net - q, !.pnl = row.pnl + g - x - s,
                                !.closed = row.closed \/ row.net = f.qty]
        BY <1>2, <1>5 DEF AfterFill, EquitySell
      <3> QED
        BY <1>2, <1>3, <3>1 DEF Row
    <2>2. Worth(after) = row.pnl + g - x - s - (c - s)
      <3>1. (net - q) * avg = c - s
        BY <1>2, <1>3
      <3>2. Worth(after) = after.pnl - after.net * after.avg
        BY <1>4 DEF Worth
      <3> HIDE DEF after
      <3> QED
        BY <1>3, <2>1, <3>1, <3>2
    <2>3. Signed(f) = -q /\ Cash(f) = g - x
      <3>1. -((-q) * p) = g
        BY <1>2, <1>3
      <3> QED
        BY <1>2, <1>5, <3>1 DEF Signed, Cash
    <2>4. Drift(row, f) = 0
      BY <1>3, <2>2, <2>3 DEF Drift
    <2> QED
      BY <1>1, <1>3, <2>1, <2>3, <2>4 DEF Balanced
  <1>6. CASE f.action = "BTC"
    <2>1. after.net = net + q /\ after.avg = avg /\ after.pnl = row.pnl + s - g - x
      <3>1. after = [row EXCEPT !.net = net + q, !.pnl = row.pnl + s - g - x,
                                !.closed = row.closed \/ row.net = -f.qty]
        BY <1>2, <1>6 DEF AfterFill, EquityShortCover
      <3> QED
        BY <1>2, <1>3, <3>1 DEF Row
    <2>2. Worth(after) = row.pnl + s - g - x - (c + s)
      <3>1. (net + q) * avg = c + s
        BY <1>2, <1>3
      <3>2. Worth(after) = after.pnl - after.net * after.avg
        BY <1>4 DEF Worth
      <3> HIDE DEF after
      <3> QED
        BY <1>3, <2>1, <3>1, <3>2
    <2>3. Signed(f) = q /\ Cash(f) = -g - x
      BY <1>2, <1>6 DEF Signed, Cash
    <2>4. Drift(row, f) = 0
      BY <1>3, <2>2, <2>3 DEF Drift
    <2> QED
      BY <1>1, <1>3, <2>1, <2>3, <2>4 DEF Balanced
  <1> QED
    BY <1>1, <1>5, <1>6

\* Any fill the service writes, but a short sale into a long holding.
LEMMA FillBalances ==
    ASSUME NEW row, row = None \/ GoodRow(row), NEW f \in Fill,
           f.action # "other", ~Rejected(row, f), ~DividesByZero(row, f),
           f.action = "STO" => Held(row) <= 0
    PROVE  Balanced(row, f)
  <1>1. CASE ~Opens(f)
    BY <1>1, ClosingBalances
  <1>2. CASE Opens(f) /\ (row = None \/ row.closed)
    BY <1>2, NewRowBalances
  <1>3. CASE Opens(f) /\ row # None /\ ~row.closed
    <2>1. f.action = "STO" => row.net < 0
      BY <1>3, RowNumbers
    <2> QED
      BY <1>3, <2>1, AddingBalances
  <1> QED
    BY <1>1, <1>2, <1>3

-----------------------------------------------------------------------------
(* One fill and the average cost of its row.                                *)

LEMMA ProductMonotone ==
    ASSUME NEW k \in Nat, NEW a \in Int, NEW b \in Int, a <= b
    PROVE  k * a <= k * b
  OBVIOUS

LEMMA Distributes ==
    ASSUME NEW k \in Int, NEW m \in Int, NEW a \in Int
    PROVE  (k + m) * a = k * a + m * a
  OBVIOUS

\* a is an integer not below both avg and lo, nor above both avg and hi.
Settles(avg, lo, hi, a) ==
    /\ a \in Int
    /\ avg <= a \/ lo <= a
    /\ a <= avg \/ a <= hi

\* q shares that cost total, between lo and hi each, join m at avg: the
\* rounded average settles between.
LEMMA WeightedAverage ==
    ASSUME NEW m \in Nat, NEW q \in Nat, q # 0, NEW avg \in Int,
           NEW lo \in Int, NEW hi \in Int, NEW total \in Int, q * lo <= total, total <= q * hi
    PROVE  Settles(avg, lo, hi, DivRound(m * avg + total, m + q))
  <1>a. PICK a : a = DivRound(m * avg + total, m + q)
    OBVIOUS
  <1> DEFINE Y == m + q
             X == m * avg + total
  <1>1. Y \in Int /\ Y > 0 /\ X \in Int /\ m * avg \in Int
    BY ProductType
  <1>2. a \in Int /\ a = DivRound(X, Y)
    BY <1>1, <1>a, DivRoundType
  <1>3. \A k \in Int : Y * k = m * k + q * k /\ m * k \in Int /\ q * k \in Int
    BY ProductType, Distributes
  <1>4. \A k \in Int : (Y * k <= X => k <= a) /\ (X <= Y * k => a <= k)
    BY <1>1, <1>2, DivRoundBetween
  <1>5. avg <= lo => q * avg <= q * lo
    BY ProductMonotone
  <1>6. lo <= avg => m * lo <= m * avg
    BY ProductMonotone
  <1>7. hi <= avg => q * hi <= q * avg
    BY ProductMonotone
  <1>8. avg <= hi => m * avg <= m * hi
    BY ProductMonotone
  <1>9. PICK ma, ml, mh, qa, ql, qh :
          /\ ma = m * avg /\ ml = m * lo /\ mh = m * hi
          /\ qa = q * avg /\ ql = q * lo /\ qh = q * hi
    OBVIOUS
  <1>10. ma \in Int /\ ml \in Int /\ mh \in Int /\ qa \in Int /\ ql \in Int /\ qh \in Int
    BY <1>9, ProductType
  <1>11. Y * avg = ma + qa /\ Y * lo = ml + ql /\ Y * hi = mh + qh /\ X = ma + total
    BY <1>3, <1>9
  <1> HIDE DEF X, Y
  <1>12. avg <= a \/ lo <= a
    <2>1. CASE avg <= lo
      BY <1>4, <1>5, <1>9, <1>10, <1>11, <2>1
    <2>2. CASE lo <= avg
      BY <1>4, <1>6, <1>9, <1>10, <1>11, <2>2
    <2> QED
      BY <2>1, <2>2
  <1>13. a <= avg \/ a <= hi
    <2>1. CASE hi <= avg
      BY <1>4, <1>7, <1>9, <1>10, <1>11, <2>1
    <2>2. CASE avg <= hi
      BY <1>4, <1>8, <1>9, <1>10, <1>11, <2>2
    <2> QED
      BY <2>1, <2>2
  <1> QED
    BY <1>2, <1>12, <1>13, <1>a DEF Settles

\* What a share of the fill costs or brings, in a holding of net shares, with its
\* fees and without.
LowPrice(f, net) == f.price - (IF net > 0 THEN 0 ELSE f.fees)
HighPrice(f, net) == f.price + (IF net > 0 THEN f.fees ELSE 0)

Crosses(row, f) == Opens(f) /\ Signed(f) * Held(row) < 0

\* The average of a row the fill leaves open: that of the fill when the row was
\* flat, the old one after a closing fill, one between the two otherwise.  No
\* holding turns into one of the other side.
Averages(row, f) ==
    LET after == AfterFill(row, f)
    IN IF Held(row) = 0
       THEN Opens(f) /\ LowPrice(f, after.net) <= after.avg /\ after.avg <= HighPrice(f, after.net)
       ELSE /\ after.net > 0 <=> Held(row) > 0
            /\ row.avg <= after.avg \/ (Opens(f) /\ LowPrice(f, after.net) <= after.avg)
            /\ after.avg <= row.avg \/ (Opens(f) /\ after.avg <= HighPrice(f, after.net))

LEMMA FirstFillAverages ==
    ASSUME NEW row, row = None \/ GoodRow(row), NEW f \in Fill, Opens(f),
           ~Rejected(row, f), row = None \/ row.closed
    PROVE  Averages(row, f)
  <1> DEFINE after == AfterFill(row, f)
  <1>1. PICK q, p, x, d : q = f.qty /\ p = f.price /\ x = f.fees /\ d = DivRound(x, q)
    OBVIOUS
  <1>2. /\ q \in Nat /\ q # 0 /\ p \in Nat /\ x \in Nat
        /\ f.action = "BTO" \/ f.action = "STO"
    BY <1>1 DEF Opens, Fill, Rejected
  <1>3. d \in Int /\ 0 <= d /\ d <= x
    <2>1. q * 0 <= x /\ q \in Int /\ q > 0
      BY <1>2
    <2>2. x <= q * x
      BY <1>2
    <2>3. x \in Int /\ d \in Int
      BY <1>1, <1>2, DivRoundType
    <2> QED
      BY <1>1, <2>1, <2>2, <2>3, DivRoundBetween
  <1>4. Held(row) = 0
    BY DEF Held, GoodRow, FlatRow
  <1>5. row # None => row \in Row
    BY DEF GoodRow
  <1>6. CASE f.action = "BTO"
    <2>1. after.net = q /\ after.avg = p + d
      <3>1. after = EquityBuy(row, f) /\ BuyPrice(f) = p + d
        BY <1>1, <1>6 DEF AfterFill, BuyPrice
      <3>2. CASE row = None
        BY <1>1, <3>1, <3>2 DEF EquityBuy, NewRow
      <3>3. CASE row # None
        <4>1. after = [row EXCEPT !.net = q, !.avg = p + d, !.opened = f.at, !.closed = FALSE]
          BY <1>1, <3>1, <3>3 DEF EquityBuy, Reopen
        <4> QED
          BY <1>5, <3>3, <4>1 DEF Row
      <3> QED
        BY <3>2, <3>3
    <2> HIDE DEF after
    <2>2. after.net > 0 /\ p <= after.avg /\ after.avg <= p + x
      BY <1>2, <1>3, <2>1
    <2>3. LowPrice(f, after.net) = p /\ HighPrice(f, after.net) = p + x
      BY <1>1, <1>2, <2>2 DEF LowPrice, HighPrice
    <2> QED
      BY <1>4, <2>2, <2>3 DEF Averages, after
  <1>7. CASE f.action = "STO"
    <2>1. after.net = -q /\ after.avg = p - d
      <3>1. after = EquityShortOpen(row, f) /\ ShortPrice(f) = p - d
        BY <1>1, <1>7 DEF AfterFill, ShortPrice
      <3>2. CASE row = None
        BY <1>1, <3>1, <3>2 DEF EquityShortOpen, NewRow
      <3>3. CASE row # None
        <4>1. after = [row EXCEPT !.net = -q, !.avg = p - d, !.opened = f.at, !.closed = FALSE]
          BY <1>1, <3>1, <3>3 DEF EquityShortOpen, Reopen
        <4> QED
          BY <1>5, <3>3, <4>1 DEF Row
      <3> QED
        BY <3>2, <3>3
    <2> HIDE DEF after
    <2>2. ~(after.net > 0) /\ p - x <= after.avg /\ after.avg <= p
      BY <1>2, <1>3, <2>1
    <2>3. LowPrice(f, after.net) = p - x /\ HighPrice(f, after.net) = p
      BY <1>1, <1>2, <2>2 DEF LowPrice, HighPrice
    <2> QED
      BY <1>4, <2>2, <2>3 DEF Averages, after
  <1> QED
    BY <1>2, <1>6, <1>7

LEMMA AddingAverages ==
    ASSUME NEW row, row # None, GoodRow(row), ~row.closed, NEW f \in Fill, Opens(f),
           ~Rejected(row, f), ~DividesByZero(row, f), ~Crosses(row, f)
    PROVE  Averages(row, f)
  <1> DEFINE after == AfterFill(row, f)
  <1>1. PICK net, avg, q, p, x, g : /\ net = row.net /\ avg = row.avg
                                 /\ q = f.qty /\ p = f.price /\ x = f.fees /\ g = q * p
    OBVIOUS
  <1>2. /\ row \in Row /\ net \in Int /\ avg \in Int /\ net # 0
        /\ q \in Nat /\ q # 0 /\ p \in Nat /\ x \in Nat /\ g \in Int
        /\ Held(row) = net
        /\ f.action = "BTO" \/ f.action = "STO"
    BY <1>1, RowNumbers DEF Opens, Rejected
  <1>3. q * (p + x) = g + q * x /\ q * (p - x) = g - q * x /\ q * x \in Int /\ x <= q * x
    BY <1>1, <1>2
  <1>4. CASE f.action = "BTO"
    <2>1. net > 0
      <3>1. ASSUME net < 0 PROVE q * net < 0
        BY <1>2, <3>1
      <3> QED
        BY <1>1, <1>2, <1>4, <3>1 DEF Crosses, Signed
    <2>2. PICK a : a = DivRound(net * avg + (g + x), net + q)
      OBVIOUS
    <2>3. a \in Int /\ (avg <= a \/ p <= a) /\ (a <= avg \/ a <= p + x)
      <3>1. /\ net \in Nat /\ g + x \in Int /\ q * p <= g + x /\ g + x <= q * (p + x)
            /\ p \in Int /\ p + x \in Int
        BY <1>1, <1>2, <1>3, <2>1
      <3>2. Settles(avg, p, p + x, a)
        BY <1>2, <2>2, <3>1, WeightedAverage
      <3> QED
        BY <1>2, <3>2 DEF Settles
    <2>4. after.net = net + q /\ after.avg = a
      <3>1. net * avg + (g + x) = net * avg + g + x
        BY <1>2, ProductType
      <3>2. BuyAverage(row, f) = a
        BY <1>1, <2>2, <3>1 DEF BuyAverage
      <3>3. after = [row EXCEPT !.net = net + q, !.avg = a]
        BY <1>1, <1>4, <3>2 DEF AfterFill, EquityBuy
      <3> QED
        BY <1>2, <3>3 DEF Row
    <2> HIDE DEF after
    <2>5. after.net > 0
      BY <1>2, <2>1, <2>4
    <2>6. LowPrice(f, after.net) = p /\ HighPrice(f, after.net) = p + x
      BY <1>1, <1>2, <2>5 DEF LowPrice, HighPrice
    <2> QED
      BY <1>1, <1>2, <2>1, <2>3, <2>4, <2>5, <2>6 DEF Averages, after
  <1>5. CASE f.action = "STO"
    <2>1. net < 0
      <3>1. ASSUME net > 0 PROVE (-q) * net < 0
        BY <1>2, <3>1
      <3> QED
        BY <1>1, <1>2, <1>5, <3>1 DEF Crosses, Signed
    <2>2. PICK m, a : m = -net /\ a = DivRound(m * avg + (g - x), m + q)
      OBVIOUS
    <2>3. a \in Int /\ (avg <= a \/ p - x <= a) /\ (a <= avg \/ a <= p)
      <3>1. /\ m \in Nat /\ g - x \in Int /\ q * (p - x) <= g - x /\ g - x <= q * p
            /\ p \in Int /\ p - x \in Int
        BY <1>1, <1>2, <1>3, <2>1, <2>2
      <3>2. Settles(avg, p - x, p, a)
        BY <1>2, <2>2, <3>1, WeightedAverage
      <3> QED
        BY <1>2, <3>2 DEF Settles
    <2>4. after.net = -(m + q) /\ after.avg = a
      <3>1. Magnitude(net) = m /\ m * avg + (g - x) = m * avg + g - x
        BY <1>2, <2>1, <2>2, ProductType DEF Magnitude
      <3>2. ShortAverage(row, f) = a
        BY <1>1, <2>2, <3>1 DEF ShortAverage
      <3>3. after = [row EXCEPT !.net = -(m + q), !.avg = a]
        BY <1>1, <1>5, <3>1, <3>2 DEF AfterFill, EquityShortOpen
      <3> QED
        BY <1>2, <3>3 DEF Row
    <2> HIDE DEF after
    <2>5. ~(after.net > 0)
      BY <1>2, <2>1, <2>2, <2>4
    <2>6. LowPrice(f, after.net) = p - x /\ HighPrice(f, after.net) = p
      BY <1>1, <1>2, <2>5 DEF LowPrice, HighPrice
    <2> QED
      BY <1>1, <1>2, <2>1, <2>3, <2>4, <2>5, <2>6 DEF Averages, after
  <1> QED
    BY <1>2, <1>4, <1>5

LEMMA ClosingAverages ==
    ASSUME NEW row, row = None \/ GoodRow(row), NEW f \in Fill,
           f.action # "other", ~Opens(f), ~Rejected(row, f), ~DividesByZero(row, f),
           ~AfterFill(row, f).closed
    PROVE  Averages(row, f)
  <1> DEFINE after == AfterFill(row, f)
  <1>1. row # None /\ (f.action = "STC" \/ f.action = "BTC")
    BY DEF Opens, Fill, StockAction, Rejected, Held
  <1>2. PICK net, avg, q : net = row.net /\ avg = row.avg /\ q = f.qty
    OBVIOUS
  <1>3. /\ row \in Row /\ net \in Int /\ avg \in Int /\ q \in Nat /\ Held(row) = net
    BY <1>1, <1>2, RowNumbers
  <1>4. after.net \in Int /\ after.net # 0
    <2>1. GoodRow(after)
      BY AfterFillIsGood
    <2> HIDE DEF after
    <2>2. ~after.closed
      BY DEF after
    <2> QED
      BY <2>1, <2>2 DEF GoodRow, FlatRow, Row
  <1>5. CASE f.action = "STC"
    <2>1. after = EquitySell(row, f)
      BY <1>5 DEF AfterFill
    <2>2. after.net = net - q /\ after.avg = avg
      BY <1>2, <1>3, <2>1 DEF EquitySell, Row
    <2>3. q <= net
      BY <1>1, <1>2, <1>3, <1>5 DEF Rejected
    <2> HIDE DEF after
    <2>4. net > 0 /\ after.net > 0
      BY <1>3, <1>4, <2>2, <2>3
    <2> QED
      BY <1>2, <1>3, <2>2, <2>4 DEF Averages, after
  <1>6. CASE f.action = "BTC"
    <2>1. after = EquityShortCover(row, f)
      BY <1>6 DEF AfterFill
    <2>2. after.net = net + q /\ after.avg = avg
      BY <1>2, <1>3, <2>1 DEF EquityShortCover, Row
    <2>3. q <= -net /\ net < 0
      BY <1>1, <1>2, <1>3, <1>6 DEF Rejected
    <2> HIDE DEF after
    <2>4. ~(net > 0) /\ ~(after.net > 0)
      BY <1>3, <1>4, <2>2, <2>3
    <2> QED
      BY <1>2, <1>3, <2>2, <2>3, <2>4 DEF Averages, after
  <1> QED
    BY <1>1, <1>5, <1>6

LEMMA FillAverages ==
    ASSUME NEW row, row = None \/ GoodRow(row), NEW f \in Fill,
           f.action # "other", ~Rejected(row, f), ~DividesByZero(row, f),
           ~Crosses(row, f), ~AfterFill(row, f).closed
    PROVE  Averages(row, f)
  <1>1. CASE ~Opens(f)
    BY <1>1, ClosingAverages
  <1>2. CASE Opens(f) /\ (row = None \/ row.closed)
    BY <1>2, FirstFillAverages
  <1>3. CASE Opens(f) /\ row # None /\ ~row.closed
    BY <1>3, AddingAverages
  <1> QED
    BY <1>1, <1>2, <1>3

-----------------------------------------------------------------------------
(* The history, one fill longer.                                            *)

\* What was written are fills of the four actions.
FillsWritten ==
    /\ booked \in Seq([trade: Trade, fill: Nat])
    /\ \A n \in 1..Len(booked) : FillNo(n) \in Fill /\ FillNo(n).action # "other"

NetSum(c) == SumFunctionOnSet(SignedOf, BookedOf(c))
CashSum(c) == SumFunctionOnSet(CashOf, BookedOf(c))
OpeningOf(c) == {n \in BookedOf(c) : Opens(FillNo(n))}
Slack(c) == SumFunctionOnSet(HeldAfter(c), OpeningOf(c))

LEMMA FillNumbers ==
    ASSUME NEW f \in Fill
    PROVE  Signed(f) \in Int /\ Cash(f) \in Int
  <1>1. f.qty \in Nat /\ f.price \in Nat /\ f.fees \in Nat
    BY DEF Fill
  <1>2. Signed(f) \in Int /\ f.price \in Int
    BY <1>1 DEF Signed
  <1>3. Signed(f) * f.price \in Int
    BY <1>2, ProductType
  <1> QED
    BY <1>1, <1>2, <1>3 DEF Cash

LEMMA HistoryTyped ==
    ASSUME FillsWritten
    PROVE  /\ Len(booked) \in Nat
           /\ \A n \in 1..Len(booked) : SignedOf[n] \in Int /\ CashOf[n] \in Int
           /\ \A c : /\ BookedOf(c) \subseteq 1..Len(booked)
                     /\ IsFiniteSet(BookedOf(c))
                     /\ NetSum(c) \in Int /\ CashSum(c) \in Int
           /\ \A c, n : NetAfter(c, n) \in Int
           /\ \A c : \A n \in 1..Len(booked) : HeldAfter(c)[n] \in Nat
           /\ \A c : IsFiniteSet(OpeningOf(c)) /\ Slack(c) \in Nat
  <1>1. Len(booked) \in Nat
    BY LenProperties DEF FillsWritten
  <1>2. \A n \in 1..Len(booked) : SignedOf[n] \in Int /\ CashOf[n] \in Int
    BY FillNumbers DEF FillsWritten, SignedOf, CashOf
  <1>3. \A c : BookedOf(c) \subseteq 1..Len(booked) /\ IsFiniteSet(BookedOf(c))
    <2>1. \A c : BookedOf(c) \subseteq 1..Len(booked)
      BY DEF BookedOf
    <2>2. IsFiniteSet(1..Len(booked))
      BY <1>1, FS_Interval
    <2> QED
      BY <2>1, <2>2, FS_Subset
  <1>4. \A c : NetSum(c) \in Int /\ CashSum(c) \in Int
    <2> TAKE c
    <2>1. \A n \in BookedOf(c) : SignedOf[n] \in Int /\ CashOf[n] \in Int
      BY <1>2, <1>3
    <2> QED
      BY <1>3, <2>1, SumType DEF NetSum, CashSum
  <1>5. \A c, n : NetAfter(c, n) \in Int
    <2> TAKE c, n
    <2> DEFINE upto == {m \in BookedOf(c) : m <= n}
    <2>1. IsFiniteSet(upto) /\ \A m \in upto : SignedOf[m] \in Int
      BY <1>2, <1>3, FS_Subset
    <2> HIDE DEF upto
    <2>2. SumFunctionOnSet(SignedOf, upto) \in Int
      BY <2>1, SumType
    <2> QED
      BY <2>2 DEF NetAfter, upto
  <1>6. \A c : \A n \in 1..Len(booked) : HeldAfter(c)[n] \in Nat
    BY <1>5, MagnitudeType DEF HeldAfter
  <1>7. \A c : IsFiniteSet(OpeningOf(c)) /\ Slack(c) \in Nat
    <2> TAKE c
    <2>1. IsFiniteSet(OpeningOf(c)) /\ OpeningOf(c) \subseteq 1..Len(booked)
      BY <1>3, FS_Subset DEF OpeningOf
    <2> QED
      BY <1>6, <2>1, SumOfNats DEF Slack
  <1> QED
    BY <1>1, <1>2, <1>3, <1>4, <1>5, <1>6, <1>7

\* N: the place of the fill f of chain c in the history.
Writes(N, c, f) ==
    /\ N = Len(booked) + 1 /\ Len(booked') = N
    /\ \A n \in 1..Len(booked) : booked'[n] = booked[n]
    /\ ChainOf[booked'[N].trade] = c
    /\ Fills[booked'[N].trade][booked'[N].fill] = f

LEMMA HistoryGrows ==
    ASSUME FillsWritten, FillsWritten', NEW N, NEW c, NEW f, Writes(N, c, f), f \in Fill
    PROVE  /\ N \in Nat /\ N \notin 1..Len(booked) /\ 1..N = (1..Len(booked)) \cup {N}
           /\ \A n \in 1..Len(booked) : /\ FillNo(n)' = FillNo(n)
                                        /\ SignedOf'[n] = SignedOf[n]
                                        /\ CashOf'[n] = CashOf[n]
           /\ FillNo(N)' = f /\ SignedOf'[N] = Signed(f) /\ CashOf'[N] = Cash(f)
           /\ BookedOf(c)' = BookedOf(c) \cup {N}
           /\ OpeningOf(c)' = OpeningOf(c) \cup (IF Opens(f) THEN {N} ELSE {})
           /\ \A d : d # c => BookedOf(d)' = BookedOf(d) /\ OpeningOf(d)' = OpeningOf(d)
  <1>1. Len(booked) \in Nat
    BY HistoryTyped
  <1>2. N \in Nat /\ N \notin 1..Len(booked) /\ 1..N = (1..Len(booked)) \cup {N}
    BY <1>1 DEF Writes
  <1>3. \A n \in 1..Len(booked) : FillNo(n)' = FillNo(n)
    BY DEF Writes, FillNo
  <1>4. FillNo(N)' = f
    BY DEF Writes, FillNo
  <1>5. Len(booked') = N
    BY DEF Writes
  <1>6. /\ \A n \in 1..Len(booked) : SignedOf'[n] = SignedOf[n] /\ CashOf'[n] = CashOf[n]
        /\ SignedOf'[N] = Signed(f) /\ CashOf'[N] = Cash(f)
    BY <1>2, <1>3, <1>4, <1>5 DEF SignedOf, CashOf
  <1>7. BookedOf(c)' = BookedOf(c) \cup {N}
    BY <1>2, <1>5 DEF BookedOf, Writes
  <1>8. \A d : d # c => BookedOf(d)' = BookedOf(d)
    BY <1>2, <1>5 DEF BookedOf, Writes
  <1>9. \A d : BookedOf(d) \subseteq 1..Len(booked)
    BY DEF BookedOf
  <1>10. OpeningOf(c)' = OpeningOf(c) \cup (IF Opens(f) THEN {N} ELSE {})
    BY <1>2, <1>3, <1>4, <1>7, <1>9 DEF OpeningOf
  <1>11. \A d : d # c => OpeningOf(d)' = OpeningOf(d)
    BY <1>2, <1>3, <1>8, <1>9 DEF OpeningOf
  <1> QED
    BY <1>2, <1>3, <1>4, <1>6, <1>7, <1>8, <1>10, <1>11

\* What the chain held after an earlier fill is what it was.
LEMMA EarlierNetsStay ==
    ASSUME FillsWritten, FillsWritten', NEW N, NEW c, NEW f, Writes(N, c, f), f \in Fill
    PROVE  \A d : \A m \in 1..Len(booked) : NetAfter(d, m)' = NetAfter(d, m)
  <1> TAKE d
  <1> TAKE m \in 1..Len(booked)
  <1> DEFINE upto == {n \in BookedOf(d) : n <= m}
  <1>1. {n \in BookedOf(d)' : n <= m} = upto
    <2>1. ~(N <= m)
      BY HistoryTyped DEF Writes
    <2> QED
      BY <2>1, HistoryGrows
  <1>2. IsFiniteSet(upto) /\ \A n \in upto : SignedOf'[n] = SignedOf[n]
    BY HistoryTyped, HistoryGrows, FS_Subset
  <1>3. NetAfter(d, m)' = SumFunctionOnSet(SignedOf', upto)
    BY <1>1, Zenon DEF NetAfter
  <1> HIDE DEF upto
  <1>4. SumFunctionOnSet(SignedOf', upto) = SumFunctionOnSet(SignedOf, upto)
    BY <1>2, SumEqual
  <1> QED
    BY <1>3, <1>4 DEF NetAfter, upto

\* The sums of the chain take the fill in.
LEMMA SumsGrow ==
    ASSUME FillsWritten, FillsWritten', NEW N, NEW c, NEW f, Writes(N, c, f), f \in Fill
    PROVE  /\ NetSum(c)' = NetSum(c) + Signed(f)
           /\ CashSum(c)' = CashSum(c) + Cash(f)
           /\ NetAfter(c, N)' = NetSum(c)'
           /\ Slack(c)' = Slack(c) + (IF Opens(f) THEN Magnitude(NetSum(c)') ELSE 0)
  <1> DEFINE S == BookedOf(c)
             O == OpeningOf(c)
  <1>1. /\ IsFiniteSet(S) /\ N \notin S /\ S \subseteq 1..Len(booked)
        /\ \A n \in S : /\ SignedOf[n] \in Int /\ CashOf[n] \in Int
                        /\ SignedOf'[n] = SignedOf[n] /\ CashOf'[n] = CashOf[n]
    BY HistoryTyped, HistoryGrows
  <1>2. /\ BookedOf(c)' = S \cup {N}
        /\ SignedOf'[N] = Signed(f) /\ CashOf'[N] = Cash(f)
        /\ Signed(f) \in Int /\ Cash(f) \in Int
    BY HistoryGrows, FillNumbers
  <1>3. NetSum(c)' = NetSum(c) + Signed(f)
    <2>1. NetSum(c)' = SumFunctionOnSet(SignedOf', S \cup {N})
      BY <1>2, Zenon DEF NetSum
    <2>2. SumFunctionOnSet(SignedOf', S) = SumFunctionOnSet(SignedOf, S)
      BY <1>1, SumEqual
    <2>3. SumFunctionOnSet(SignedOf', S \cup {N}) = SumFunctionOnSet(SignedOf', S) + SignedOf'[N]
      BY <1>1, <1>2, SumAdd
    <2> QED
      BY <1>2, <2>1, <2>2, <2>3 DEF NetSum
  <1>4. CashSum(c)' = CashSum(c) + Cash(f)
    <2>1. CashSum(c)' = SumFunctionOnSet(CashOf', S \cup {N})
      BY <1>2, Zenon DEF CashSum
    <2>2. SumFunctionOnSet(CashOf', S) = SumFunctionOnSet(CashOf, S)
      BY <1>1, SumEqual
    <2>3. SumFunctionOnSet(CashOf', S \cup {N}) = SumFunctionOnSet(CashOf', S) + CashOf'[N]
      BY <1>1, <1>2, SumAdd
    <2> QED
      BY <1>2, <2>1, <2>2, <2>3 DEF CashSum
  <1>5. NetAfter(c, N)' = NetSum(c)'
    <2>1. {m \in BookedOf(c)' : m <= N} = BookedOf(c)'
      <3>1. \A m \in 1..N : m <= N
        BY HistoryGrows
      <3>2. BookedOf(c)' \subseteq 1..N
        BY <1>1, <1>2, HistoryGrows
      <3> QED
        BY <3>1, <3>2
    <2> QED
      BY <2>1, Zenon DEF NetAfter, NetSum
  <1>6. /\ \A n \in O : HeldAfter(c)'[n] = HeldAfter(c)[n] /\ HeldAfter(c)[n] \in Int
        /\ IsFiniteSet(O) /\ N \notin O /\ O \subseteq 1..Len(booked)
    <2>1. O \subseteq S
      BY DEF OpeningOf
    <2>2. \A n \in 1..Len(booked) : HeldAfter(c)'[n] = HeldAfter(c)[n]
      <3> TAKE n \in 1..Len(booked)
      <3>1. n \in 1..Len(booked') /\ NetAfter(c, n)' = NetAfter(c, n)
        BY HistoryGrows, EarlierNetsStay DEF Writes
      <3> QED
        BY <3>1 DEF HeldAfter
    <2> QED
      BY <1>1, <2>1, <2>2, HistoryTyped
  <1>7. /\ HeldAfter(c)'[N] = Magnitude(NetSum(c)')
        /\ Magnitude(NetSum(c)') \in Int
    <2>1. N \in 1..Len(booked')
      BY HistoryGrows DEF Writes
    <2>2. NetSum(c)' \in Int
      BY <1>2, <1>3, HistoryTyped
    <2> QED
      BY <1>5, <2>1, <2>2, MagnitudeType DEF HeldAfter
  <1>8. Slack(c)' = Slack(c) + (IF Opens(f) THEN Magnitude(NetSum(c)') ELSE 0)
    <2>1. Slack(c) = SumFunctionOnSet(HeldAfter(c), O)
      BY DEF Slack
    <2>2. SumFunctionOnSet(HeldAfter(c)', O) = SumFunctionOnSet(HeldAfter(c), O)
      BY <1>6, SumEqual
    <2>3. CASE ~Opens(f)
      <3>1. OpeningOf(c)' = O
        <4>1. OpeningOf(c)' = O \cup (IF Opens(f) THEN {N} ELSE {})
          BY HistoryGrows
        <4>2. (IF Opens(f) THEN {N} ELSE {}) = {}
          BY <2>3
        <4> HIDE DEF O
        <4> QED
          BY <4>1, <4>2
      <3>2. Slack(c)' = SumFunctionOnSet(HeldAfter(c)', O)
        BY <3>1, Zenon DEF Slack
      <3> QED
        BY <2>1, <2>2, <2>3, <3>2, HistoryTyped
    <2>4. CASE Opens(f)
      <3>1. OpeningOf(c)' = O \cup {N}
        BY <2>4, HistoryGrows
      <3>2. Slack(c)' = SumFunctionOnSet(HeldAfter(c)', O \cup {N})
        BY <3>1, Zenon DEF Slack
      <3>3. SumFunctionOnSet(HeldAfter(c)', O \cup {N})
              = SumFunctionOnSet(HeldAfter(c)', O) + HeldAfter(c)'[N]
        BY <1>6, <1>7, SumAdd
      <3> QED
        BY <1>7, <2>1, <2>2, <2>4, <3>2, <3>3
    <2> QED
      BY <2>3, <2>4
  <1> QED
    BY <1>3, <1>4, <1>5, <1>8

\* Those of the other chains stay.
LEMMA OtherSumsStay ==
    ASSUME FillsWritten, FillsWritten', NEW N, NEW c, NEW f, Writes(N, c, f), f \in Fill,
           NEW d, d # c
    PROVE  NetSum(d)' = NetSum(d) /\ CashSum(d)' = CashSum(d) /\ Slack(d)' = Slack(d)
  <1> DEFINE S == BookedOf(d)
             O == OpeningOf(d)
  <1>1. /\ IsFiniteSet(S) /\ S \subseteq 1..Len(booked)
        /\ \A n \in S : SignedOf'[n] = SignedOf[n] /\ CashOf'[n] = CashOf[n]
        /\ BookedOf(d)' = S /\ OpeningOf(d)' = O
        /\ IsFiniteSet(O) /\ O \subseteq 1..Len(booked)
    <2>1. IsFiniteSet(S) /\ S \subseteq 1..Len(booked) /\ IsFiniteSet(O)
      BY HistoryTyped
    <2>2. BookedOf(d)' = S /\ OpeningOf(d)' = O
      BY HistoryGrows
    <2>3. O \subseteq S
      BY DEF OpeningOf
    <2>4. \A n \in S : SignedOf'[n] = SignedOf[n] /\ CashOf'[n] = CashOf[n]
      BY <2>1, HistoryGrows
    <2> HIDE DEF S, O
    <2> QED
      BY <2>1, <2>2, <2>3, <2>4
  <1>2. NetSum(d)' = NetSum(d)
    <2>1. NetSum(d)' = SumFunctionOnSet(SignedOf', S)
      BY <1>1, Zenon DEF NetSum
    <2> QED
      BY <1>1, <2>1, SumEqual DEF NetSum
  <1>3. CashSum(d)' = CashSum(d)
    <2>1. CashSum(d)' = SumFunctionOnSet(CashOf', S)
      BY <1>1, Zenon DEF CashSum
    <2> QED
      BY <1>1, <2>1, SumEqual DEF CashSum
  <1>4. Slack(d)' = Slack(d)
    <2>1. Slack(d)' = SumFunctionOnSet(HeldAfter(d)', O)
      BY <1>1, Zenon DEF Slack
    <2>2. \A n \in O : HeldAfter(d)'[n] = HeldAfter(d)[n]
      <3> TAKE n \in O
      <3>1. n \in 1..Len(booked) /\ n \in 1..Len(booked') /\ NetAfter(d, n)' = NetAfter(d, n)
        BY <1>1, HistoryGrows, EarlierNetsStay DEF Writes
      <3> QED
        BY <3>1 DEF HeldAfter
    <2> QED
      BY <1>1, <2>1, <2>2, SumEqual DEF Slack
  <1> QED
    BY <1>2, <1>3, <1>4

\* A crossing is judged on what the chain held before the fill.
LEMMA CrossingsGrow ==
    ASSUME FillsWritten, FillsWritten', NEW N, NEW c, NEW f, Writes(N, c, f), f \in Fill
    PROVE  /\ Crossings(c)' = Crossings(c) \cup
                 (IF Opens(f) /\ Signed(f) * NetSum(c) < 0 THEN {N} ELSE {})
           /\ \A d : d # c => Crossings(d)' = Crossings(d)
           /\ \A d : Crossings(d) \subseteq 1..Len(booked)
  <1>1. \A d : \A n \in 1..Len(booked) :
          FillNo(n)' = FillNo(n) /\ NetBefore(d, n)' = NetBefore(d, n)
    BY HistoryGrows, EarlierNetsStay DEF NetBefore
  <1>2. FillNo(N)' = f /\ NetBefore(c, N)' = NetSum(c)
    <2>1. NetAfter(c, N)' = NetSum(c) + Signed(f) /\ NetSum(c) \in Int /\ Signed(f) \in Int
      BY HistoryTyped, SumsGrow, FillNumbers
    <2>2. FillNo(N)' = f
      BY HistoryGrows
    <2>3. NetBefore(c, N)' = NetAfter(c, N)' - Signed(f)
      BY <2>2 DEF NetBefore
    <2> QED
      BY <2>1, <2>2, <2>3
  <1>3. \A d : BookedOf(d) \subseteq 1..Len(booked)
    BY DEF BookedOf
  <1>4. \A d : Crossings(d) \subseteq 1..Len(booked)
    BY <1>3 DEF Crossings
  <1>5. \A d : d # c => Crossings(d)' = Crossings(d)
    BY <1>1, <1>3, HistoryGrows DEF Crossings
  <1>6. Crossings(c)' = Crossings(c) \cup
                 (IF Opens(f) /\ Signed(f) * NetSum(c) < 0 THEN {N} ELSE {})
    BY <1>1, <1>2, <1>3, HistoryGrows DEF Crossings
  <1> QED
    BY <1>4, <1>5, <1>6

-----------------------------------------------------------------------------
(* The books of one import at a time.                                       *)

OneImport == \E w : Worker = {w}

\* The row a call waits with is the one in the table.
FreshReads ==
    \A w \in Worker : hook[w].pc = "write" =>
        hook[w].pos = GetPositionByChainID(ChainOf[hook[w].trade])

\* A chain something was written to has its row.
RowsForFills == \A n \in 1..Len(booked) : ChainOf[booked[n].trade] \in DOMAIN positions

CostInv == FillsWritten /\ FreshReads /\ RowsForFills /\ BooksBalance /\ AverageWithinFills

InBooks(c, row) ==
    Held(row) = NetSum(c) /\ 2 * Magnitude(Worth(row) - CashSum(c)) <= Slack(c)

LEMMA BooksBalanceParts ==
    ASSUME TypeOK
    PROVE  BooksBalance <=>
             \A c \in DOMAIN positions : ~ShortSaleMetLong(c) => InBooks(c, positions[c])
  <1>1. \A c \in DOMAIN positions : positions[c] # None
    BY NoneAssumption DEF TypeOK
  <1> QED
    BY <1>1 DEF BooksBalance, InBooks, Held, Worth, NetSum, CashSum, Slack, OpeningOf

AverageFits(c) ==
    /\ \E n \in SinceFlat(c) : LowPrice(FillNo(n), positions[c].net) <= positions[c].avg
    /\ \E n \in SinceFlat(c) : positions[c].avg <= HighPrice(FillNo(n), positions[c].net)

AveragesFit ==
    \A c \in DOMAIN positions : ~positions[c].closed /\ Crossings(c) = {} => AverageFits(c)

LEMMA AverageParts == TypeOK /\ FillsWritten => (AverageWithinFills <=> AveragesFit)
  <1> SUFFICES ASSUME TypeOK, FillsWritten PROVE AverageWithinFills <=> AveragesFit
    OBVIOUS
  <1>1. \A c \in DOMAIN positions : positions[c].avg \in Int /\ positions[c].net \in Int
    BY DEF TypeOK, Row
  <1>2. \A c : \A n \in SinceFlat(c) :
          FillNo(n) \in Fill /\ FillNo(n).price \in Int /\ FillNo(n).fees \in Int
    BY DEF FillsWritten, SinceFlat, BookedOf, Fill
  <1>3. \A c \in DOMAIN positions :
          LET fills == {FillNo(n) : n \in SinceFlat(c)}
              long == positions[c].net > 0
          IN ( /\ \E f \in fills : positions[c].avg >= f.price - (IF long THEN 0 ELSE f.fees)
               /\ \E f \in fills : positions[c].avg <= f.price + (IF long THEN f.fees ELSE 0))
             <=> AverageFits(c)
    <2> TAKE c \in DOMAIN positions
    <2> DEFINE fills == {FillNo(n) : n \in SinceFlat(c)}
               long == positions[c].net > 0
    <2>1. \A n \in SinceFlat(c) :
            /\ positions[c].avg >= FillNo(n).price - (IF long THEN 0 ELSE FillNo(n).fees)
                 <=> LowPrice(FillNo(n), positions[c].net) <= positions[c].avg
            /\ positions[c].avg <= FillNo(n).price + (IF long THEN FillNo(n).fees ELSE 0)
                 <=> positions[c].avg <= HighPrice(FillNo(n), positions[c].net)
      BY <1>1, <1>2 DEF LowPrice, HighPrice
    <2>2. (\E f \in fills : positions[c].avg >= f.price - (IF long THEN 0 ELSE f.fees))
            <=> \E n \in SinceFlat(c) : LowPrice(FillNo(n), positions[c].net) <= positions[c].avg
      BY <2>1, Zenon
    <2>3. (\E f \in fills : positions[c].avg <= f.price + (IF long THEN f.fees ELSE 0))
            <=> \E n \in SinceFlat(c) : positions[c].avg <= HighPrice(FillNo(n), positions[c].net)
      BY <2>1, Zenon
    <2> QED
      BY <2>2, <2>3 DEF AverageFits
  <1> QED
    BY <1>3 DEF AverageWithinFills, AveragesFit

\* The step of the history is a step of the row: nothing came between its read
\* and its write.
WritesRow(N, c, f) ==
    LET row == GetPositionByChainID(c)
        after == AfterFill(row, f)
    IN /\ Writes(N, c, f)
       /\ f \in Fill /\ f.action # "other" /\ ~Rejected(row, f) /\ ~DividesByZero(row, f)
       /\ DOMAIN positions' = DOMAIN positions \cup {c}
       /\ positions'[c].net = after.net /\ positions'[c].avg = after.avg
       /\ positions'[c].pnl = after.pnl /\ positions'[c].closed = after.closed
       /\ \A d \in DOMAIN positions : d # c => positions'[d] = positions[d]

LEMMA RowOfChain ==
    ASSUME StockInv, NEW c
    PROVE  /\ GetPositionByChainID(c) = None \/ GoodRow(GetPositionByChainID(c))
           /\ c \in DOMAIN positions => GetPositionByChainID(c) # None
  BY NoneAssumption DEF StockInv, TypeOK, ClosedIffFlat, GetPositionByChainID, GoodRow, FlatRow

LEMMA WriteFillWritesRow ==
    ASSUME StockInv, FreshReads, FillsWritten, NEW w \in Worker, WriteFill(w),
           ~(EndCall(w, "failed") /\ UNCHANGED <<positions, booked>>)
    PROVE  /\ Booked(w) /\ \E N, c, f : WritesRow(N, c, f)
  <1> DEFINE c == ChainOf[hook[w].trade]
             f == CurrentFill(w)
             row == GetPositionByChainID(c)
             after == AfterFill(row, f)
             N == Len(booked) + 1
             e == [trade |-> hook[w].trade, fill |-> hook[w].cur]
  <1>1. /\ hook[w].pc = "write" /\ hook[w].pos = row
        /\ ~Rejected(row, f) /\ ~DividesByZero(row, f)
        /\ IF row = None THEN CreatePosition(w, c, after) ELSE UpdatePosition(w, c, after)
    BY DEF WriteFill, FreshReads
  <1>2. f \in Fill /\ f.action # "other" /\ e \in [trade: Trade, fill: Nat]
    BY <1>1, WaitingFill
  <1>3. e.trade = hook[w].trade /\ e.fill = hook[w].cur /\ Fills[e.trade][e.fill] = f /\ ChainOf[e.trade] = c
    BY DEF CurrentFill
  <1>4. GoodRow(after)
    BY <1>1, <1>2, RowOfChain, AfterFillIsGood
  <1> HIDE DEF f, e, after
  <1>5. ASSUME Booked(w) PROVE Writes(N, c, f)
    <2>1. booked' = Append(booked, e)
      BY <1>5 DEF Booked, e
    <2>2. booked \in Seq([trade: Trade, fill: Nat])
      BY DEF FillsWritten
    <2>3. Len(booked') = N /\ booked'[N] = e /\ \A n \in 1..Len(booked) : booked'[n] = booked[n]
      BY <1>2, <2>1, <2>2, AppendProperties
    <2> QED
      BY <1>3, <2>3 DEF Writes
  <1>6. CASE row = None
    <2>1. CreatePosition(w, c, after) /\ c \notin DOMAIN positions
      BY <1>1, <1>6, RowOfChain
    <2>2. /\ Booked(w)
          /\ positions' = [d \in DOMAIN positions \cup {c} |-> IF d = c THEN after ELSE positions[d]]
      BY <2>1 DEF CreatePosition
    <2>3. WritesRow(N, c, f)
      BY <1>1, <1>2, <1>5, <2>1, <2>2 DEF WritesRow, after
    <2> QED
      BY <2>2, <2>3
  <1>7. CASE row # None
    <2>1. UpdatePosition(w, c, after) /\ c \in DOMAIN positions
      BY <1>1, <1>7 DEF GetPositionByChainID
    <2>2. /\ Booked(w)
          /\ positions' = [positions EXCEPT ![c] = [after EXCEPT !.opened = positions[c].opened]]
      BY <2>1 DEF UpdatePosition
    <2>3. after \in Row
      BY <1>4 DEF GoodRow
    <2>4. positions'[c] = [after EXCEPT !.opened = positions[c].opened]
      BY <2>1, <2>2 DEF StockInv, TypeOK
    <2>5. /\ positions'[c].net = after.net /\ positions'[c].avg = after.avg
          /\ positions'[c].pnl = after.pnl /\ positions'[c].closed = after.closed
      BY <2>3, <2>4 DEF Row
    <2>6. /\ DOMAIN positions' = DOMAIN positions \cup {c}
          /\ \A d \in DOMAIN positions : d # c => positions'[d] = positions[d]
      BY <2>1, <2>2 DEF StockInv, TypeOK
    <2>7. WritesRow(N, c, f)
      BY <1>1, <1>2, <1>5, <2>2, <2>5, <2>6 DEF WritesRow, after
    <2> QED
      BY <2>2, <2>7
  <1> QED
    BY <1>6, <1>7

LEMMA WritingKeepsHistory ==
    ASSUME StockInv, StockInv', FillsWritten, RowsForFills, NEW N, NEW c, NEW f, WritesRow(N, c, f)
    PROVE  FillsWritten' /\ RowsForFills'
  <1>1. /\ N = Len(booked) + 1 /\ Len(booked') = N /\ Len(booked) \in Nat
        /\ \A n \in 1..Len(booked) : booked'[n] = booked[n]
        /\ ChainOf[booked'[N].trade] = c /\ c \in DOMAIN positions'
        /\ Fills[booked'[N].trade][booked'[N].fill] = f /\ f \in Fill /\ f.action # "other"
        /\ DOMAIN positions \subseteq DOMAIN positions'
    BY HistoryTyped DEF WritesRow, Writes
  <1>2. booked' \in Seq([trade: Trade, fill: Nat])
    BY DEF StockInv, TypeOK
  <1>3. \A n \in 1..N : n \in 1..Len(booked) \/ n = N
    BY <1>1
  <1>4. FillsWritten'
    <2>1. \A n \in 1..Len(booked') : FillNo(n)' \in Fill /\ FillNo(n)'.action # "other"
      BY <1>1, <1>3 DEF FillNo, FillsWritten
    <2> QED
      BY <1>2, <2>1 DEF FillsWritten
  <1>5. RowsForFills'
    BY <1>1, <1>3 DEF RowsForFills
  <1> QED
    BY <1>4, <1>5

\* A chain without a row has no fills yet.
LEMMA NoRowNoFills ==
    ASSUME FillsWritten, RowsForFills, NEW c, c \notin DOMAIN positions
    PROVE  BookedOf(c) = {} /\ InBooks(c, None)
  <1>1. BookedOf(c) = {}
    BY DEF RowsForFills, BookedOf
  <1>2. OpeningOf(c) = {}
    BY <1>1 DEF OpeningOf
  <1>3. NetSum(c) = 0 /\ CashSum(c) = 0 /\ Slack(c) = 0
    BY <1>1, <1>2, SumEmpty, Zenon DEF NetSum, CashSum, Slack
  <1> QED
    BY <1>1, <1>3 DEF InBooks, Held, Worth, Magnitude

\* A short sale that met a long holding stays in the history.
LEMMA ShortSaleStays ==
    ASSUME FillsWritten, FillsWritten', NEW N, NEW c, NEW f, Writes(N, c, f), f \in Fill
    PROVE  /\ \A d : ShortSaleMetLong(d) => ShortSaleMetLong(d)'
           /\ f.action = "STO" /\ Signed(f) * NetSum(c) < 0 => ShortSaleMetLong(c)'
  <1>1. \A d : Crossings(d) \subseteq Crossings(d)' /\ Crossings(d) \subseteq 1..Len(booked)
    BY CrossingsGrow
  <1>2. \A n \in 1..Len(booked) : FillNo(n)' = FillNo(n)
    BY HistoryGrows
  <1>3. \A d : ShortSaleMetLong(d) => ShortSaleMetLong(d)'
    BY <1>1, <1>2 DEF ShortSaleMetLong
  <1>4. f.action = "STO" /\ Signed(f) * NetSum(c) < 0 => ShortSaleMetLong(c)'
    <2> SUFFICES ASSUME f.action = "STO", Signed(f) * NetSum(c) < 0 PROVE ShortSaleMetLong(c)'
      OBVIOUS
    <2>1. N \in Crossings(c)' /\ FillNo(N)' = f
      BY CrossingsGrow, HistoryGrows DEF Opens
    <2> QED
      BY <2>1 DEF ShortSaleMetLong
  <1> QED
    BY <1>3, <1>4

\* What the row was worth and what the chain's fills add up to move together.
LEMMA WritingKeepsBalance ==
    ASSUME StockInv, StockInv', CostInv, NEW N, NEW c, NEW f, WritesRow(N, c, f)
    PROVE  BooksBalance'
  <1> DEFINE row == GetPositionByChainID(c)
             after == AfterFill(row, f)
  <1>1. /\ Writes(N, c, f) /\ f \in Fill /\ f.action # "other"
        /\ ~Rejected(row, f) /\ ~DividesByZero(row, f)
        /\ FillsWritten /\ RowsForFills /\ BooksBalance /\ TypeOK
    BY DEF WritesRow, CostInv, StockInv
  <1>2. FillsWritten'
    BY <1>1, WritingKeepsHistory
  <1>3. TypeOK'
    BY DEF StockInv
  <1>4. ASSUME NEW d \in DOMAIN positions', d # c, ~ShortSaleMetLong(d)'
        PROVE  InBooks(d, positions[d])'
    <2>1. d \in DOMAIN positions /\ positions'[d] = positions[d]
      BY <1>4 DEF WritesRow
    <2>2. ~ShortSaleMetLong(d)
      BY <1>1, <1>2, <1>4, ShortSaleStays
    <2>3. InBooks(d, positions[d])
      BY <1>1, <2>1, <2>2, BooksBalanceParts
    <2>4. NetSum(d)' = NetSum(d) /\ CashSum(d)' = CashSum(d) /\ Slack(d)' = Slack(d)
      BY <1>1, <1>2, <1>4, OtherSumsStay
    <2> QED
      BY <2>1, <2>3, <2>4 DEF InBooks
  <1>5. ASSUME ~ShortSaleMetLong(c)'
        PROVE  InBooks(c, positions[c])'
    <2>1. ~ShortSaleMetLong(c)
      BY <1>1, <1>2, <1>5, ShortSaleStays
    <2>2. InBooks(c, row)
      <3>1. CASE c \in DOMAIN positions
        BY <1>1, <2>1, <3>1, BooksBalanceParts DEF GetPositionByChainID
      <3>2. CASE c \notin DOMAIN positions
        BY <1>1, <3>2, NoRowNoFills DEF GetPositionByChainID
      <3> QED
        BY <3>1, <3>2
    <2>3. row = None \/ GoodRow(row)
      BY RowOfChain
    <2>4. Balanced(row, f)
      <3>1. f.action = "STO" => Held(row) <= 0
        <4> SUFFICES ASSUME f.action = "STO", ~(Held(row) <= 0) PROVE FALSE
          OBVIOUS
        <4>1. f.qty \in Nat /\ f.qty # 0 /\ Signed(f) = -f.qty
          BY <1>1 DEF Rejected, Fill, Signed
        <4>2. NetSum(c) \in Int /\ NetSum(c) > 0
          BY <1>1, <2>2, HistoryTyped DEF InBooks
        <4>3. (-f.qty) * NetSum(c) < 0
          <5>1. \A k \in Nat, m \in Int : k # 0 /\ m > 0 => (-k) * m < 0
            OBVIOUS
          <5> QED
            BY <4>1, <4>2, <5>1
        <4> QED
          BY <1>1, <1>2, <1>5, <4>1, <4>3, ShortSaleStays
      <3> QED
        BY <1>1, <2>3, <3>1, FillBalances
    <2>5. /\ Held(positions'[c]) = after.net /\ Worth(positions'[c]) = Worth(after)
          /\ Held(positions'[c]) \in Int
      <3>1. positions'[c] # None /\ after # None /\ positions'[c].net \in Int
        <4>1. c \in DOMAIN positions' /\ positions'[c] \in Row
          BY <1>3 DEF WritesRow, TypeOK
        <4>2. GoodRow(after)
          BY <1>1, <2>3, AfterFillIsGood
        <4> QED
          BY <4>1, <4>2, NoneAssumption DEF GoodRow, Row
      <3> QED
        BY <3>1 DEF Held, Worth, WritesRow
    <2>6. /\ NetSum(c)' = NetSum(c) + Signed(f)
          /\ CashSum(c)' = CashSum(c) + Cash(f)
          /\ Slack(c)' = Slack(c) + (IF Opens(f) THEN Magnitude(NetSum(c)') ELSE 0)
      BY <1>1, <1>2, SumsGrow
    <2>7. PICK drift : drift = Drift(row, f)
      OBVIOUS
    <2>8. /\ after.net = Held(row) + Signed(f) /\ drift \in Int
          /\ Opens(f) => 2 * Magnitude(drift) <= Magnitude(after.net)
          /\ ~Opens(f) => drift = 0
          /\ drift = Worth(after) - Worth(row) - Cash(f)
      BY <2>4, <2>7 DEF Balanced, Drift
    <2>9. /\ NetSum(c)' = after.net
      BY <2>2, <2>6, <2>8 DEF InBooks
    <2>10. Worth(row) \in Int /\ Worth(after) \in Int /\ Cash(f) \in Int
           /\ CashSum(c) \in Int /\ Slack(c) \in Int
      <3>1. Worth(row) \in Int
        <4>1. CASE row = None
          BY <4>1 DEF Worth
        <4>2. CASE row # None
          BY <1>1, <2>3, <4>2, RowNumbers
        <4> QED
          BY <4>1, <4>2
      <3>2. Worth(after) \in Int
        <4>1. GoodRow(after)
          BY <1>1, <2>3, AfterFillIsGood
        <4>2. after # None
          BY <4>1, NoneAssumption DEF GoodRow
        <4> HIDE DEF after
        <4> QED
          BY <1>1, <4>1, <4>2, RowNumbers
      <3> QED
        BY <1>1, <3>1, <3>2, FillNumbers, HistoryTyped
    <2>11. PICK old, slack, more :
             /\ old = Worth(row) - CashSum(c) /\ slack = Slack(c)
             /\ more = IF Opens(f) THEN Magnitude(after.net) ELSE 0
      OBVIOUS
    <2>12. /\ 2 * Magnitude(old) <= slack /\ old \in Int /\ slack \in Int
           /\ 2 * Magnitude(drift) <= more /\ more \in Int
      <3>1. Magnitude(after.net) \in Nat
        BY <2>5, MagnitudeType
      <3>2. Magnitude(0) = 0
        BY DEF Magnitude
      <3> QED
        BY <2>2, <2>8, <2>10, <2>11, <3>1, <3>2 DEF InBooks
    <2>13. Worth(after) - CashSum(c)' = old + drift /\ Slack(c)' = slack + more
      <3>1. Slack(c)' = slack + more
        BY <2>6, <2>9, <2>11
      <3>2. Worth(after) - CashSum(c)' = old + drift
        BY <2>6, <2>8, <2>10, <2>11
      <3> QED
        BY <3>1, <3>2
    <2>14. 2 * Magnitude(old + drift) <= slack + more
      BY <2>8, <2>12 DEF Magnitude
    <2> HIDE DEF after, row
    <2> QED
      BY <2>5, <2>9, <2>13, <2>14 DEF InBooks
  <1> QED
    <2>1. \A d \in DOMAIN positions' : positions'[d] # None
      BY <1>3, NoneAssumption DEF TypeOK
    <2>2. \A d \in DOMAIN positions' : ~ShortSaleMetLong(d)' => InBooks(d, positions[d])'
      BY <1>4, <1>5
    <2> QED
      BY <2>1, <2>2
      DEF BooksBalance, InBooks, Held, Worth, NetSum, CashSum, Slack, OpeningOf

\* A chain that holds something keeps the fills that opened it.
LEMMA SinceFlatGrows ==
    ASSUME FillsWritten, FillsWritten', NEW N, NEW c, NEW f, Writes(N, c, f), f \in Fill
    PROVE  /\ \A d : NetSum(d) # 0 => SinceFlat(d) \subseteq SinceFlat(d)'
           /\ Opens(f) => N \in SinceFlat(c)'
           /\ \A d : SinceFlat(d) \subseteq 1..Len(booked)
  <1>1. Len(booked) \in Nat /\ N = Len(booked) + 1 /\ Len(booked') = N
    BY HistoryTyped DEF Writes
  <1>2. \A d : BookedOf(d) \subseteq 1..Len(booked)
    BY DEF BookedOf
  <1>3. \A d : BookedOf(d) \subseteq BookedOf(d)' /\ BookedOf(d)' \subseteq BookedOf(d) \cup {N}
    BY HistoryGrows
  <1>4. \A d : NetAfter(d, Len(booked)) = NetSum(d)
    <2> TAKE d
    <2>1. {m \in BookedOf(d) : m <= Len(booked)} = BookedOf(d)
      BY <1>1, <1>2
    <2> QED
      BY <2>1, Zenon DEF NetAfter, NetSum
  <1>5. ASSUME NEW d, NetSum(d) # 0, NEW n \in SinceFlat(d)
        PROVE  n \in SinceFlat(d)'
    <2>1. n \in BookedOf(d) /\ Opens(FillNo(n)) /\ n \in 1..Len(booked)
      BY <1>2 DEF SinceFlat
    <2>2. n \in BookedOf(d)' /\ Opens(FillNo(n)')
      BY <1>3, <2>1, HistoryGrows
    <2>3. ASSUME NEW m \in BookedOf(d)', m >= n, m # Len(booked')
          PROVE  NetAfter(d, m)' # 0
      <3>1. m \in BookedOf(d) /\ m \in 1..Len(booked)
        BY <1>1, <1>2, <1>3, <2>3
      <3>2. NetAfter(d, m) # 0
        BY <1>4, <1>5, <2>3, <3>1 DEF SinceFlat
      <3> QED
        BY <3>1, <3>2, EarlierNetsStay
    <2> QED
      BY <2>2, <2>3 DEF SinceFlat
  <1>6. ASSUME Opens(f) PROVE N \in SinceFlat(c)'
    <2>1. N \in BookedOf(c)' /\ Opens(FillNo(N)')
      BY <1>6, HistoryGrows
    <2>2. \A m \in BookedOf(c)' : ~(m >= N /\ m # Len(booked'))
      BY <1>1, <1>2, <1>3
    <2> QED
      BY <2>1, <2>2 DEF SinceFlat
  <1> QED
    BY <1>2, <1>5, <1>6 DEF SinceFlat

LEMMA WritingKeepsAverage ==
    ASSUME StockInv, StockInv', CostInv, NEW N, NEW c, NEW f, WritesRow(N, c, f)
    PROVE  AverageWithinFills'
  <1> DEFINE row == GetPositionByChainID(c)
             after == AfterFill(row, f)
  <1>1. /\ Writes(N, c, f) /\ f \in Fill /\ f.action # "other"
        /\ ~Rejected(row, f) /\ ~DividesByZero(row, f)
        /\ FillsWritten /\ RowsForFills /\ BooksBalance /\ AverageWithinFills /\ TypeOK
    BY DEF WritesRow, CostInv, StockInv
  <1>2. FillsWritten' /\ TypeOK'
    BY <1>1, WritingKeepsHistory DEF StockInv
  <1>3. \A d \in DOMAIN positions : ~ShortSaleMetLong(d) => positions[d].net = NetSum(d)
    <2>1. \A d \in DOMAIN positions : positions[d] # None
      BY <1>1, NoneAssumption DEF TypeOK
    <2> QED
      BY <1>1, <2>1, BooksBalanceParts DEF InBooks, Held
  <1>4. \A d : Crossings(d) = {} => ~ShortSaleMetLong(d)
    BY DEF ShortSaleMetLong
  <1>5. \A d : Crossings(d) \subseteq Crossings(d)'
    BY <1>1, <1>2, CrossingsGrow
  <1>6. \A d \in DOMAIN positions : (positions[d].closed <=> positions[d].net = 0)
    BY DEF StockInv, ClosedIffFlat
  <1>7. \A d \in DOMAIN positions :
          ~positions[d].closed /\ Crossings(d) = {} => AverageFits(d) /\ NetSum(d) # 0
    BY <1>1, <1>3, <1>4, <1>6, AverageParts DEF AveragesFit
  <1>8. \A n \in 1..Len(booked) : FillNo(n)' = FillNo(n)
    BY <1>1, <1>2, HistoryGrows
  <1>9. ASSUME NEW d \in DOMAIN positions', ~positions'[d].closed, Crossings(d)' = {}
        PROVE  AverageFits(d)'
    <2>1. Crossings(d) = {}
      BY <1>5, <1>9
    <2>2. CASE d # c
      <3>1. d \in DOMAIN positions /\ positions'[d] = positions[d]
        BY <2>2 DEF WritesRow
      <3>2. AverageFits(d) /\ NetSum(d) # 0
        BY <1>7, <1>9, <2>1, <3>1
      <3>3. SinceFlat(d) \subseteq SinceFlat(d)' /\ SinceFlat(d) \subseteq 1..Len(booked)
        BY <1>1, <1>2, <3>2, SinceFlatGrows
      <3> QED
        BY <1>8, <3>1, <3>2, <3>3 DEF AverageFits
    <2>3. CASE d = c
      <3>1. /\ ~after.closed
            /\ positions'[c].net = after.net /\ positions'[c].avg = after.avg
        BY <1>9, <2>3 DEF WritesRow
      <3>2. row = None \/ GoodRow(row)
        BY RowOfChain
      <3>3. Held(row) = NetSum(c)
        <4>1. CASE c \in DOMAIN positions
          <5>1. positions[c] # None
            BY <1>1, <4>1, NoneAssumption DEF TypeOK
          <5> QED
            BY <1>3, <1>4, <2>1, <2>3, <4>1, <5>1 DEF GetPositionByChainID, Held
        <4>2. CASE c \notin DOMAIN positions
          BY <1>1, <4>2, NoRowNoFills DEF GetPositionByChainID, InBooks
        <4> QED
          BY <4>1, <4>2
      <3>4. ~Crosses(row, f)
        <4>1. ~(Opens(f) /\ Signed(f) * NetSum(c) < 0)
          <5> SUFFICES ASSUME Opens(f) /\ Signed(f) * NetSum(c) < 0 PROVE FALSE
            OBVIOUS
          <5>1. N \in Crossings(c)'
            BY <1>1, <1>2, CrossingsGrow
          <5> QED
            BY <1>9, <2>3, <5>1
        <4> QED
          BY <3>3, <4>1 DEF Crosses
      <3>5. Averages(row, f)
        BY <1>1, <3>1, <3>2, <3>4, FillAverages
      <3>6. Opens(f) => N \in SinceFlat(c)' /\ FillNo(N)' = f
        BY <1>1, <1>2, SinceFlatGrows, HistoryGrows
      <3>7. CASE Held(row) = 0
        <4>1. Opens(f) /\ LowPrice(f, after.net) <= after.avg /\ after.avg <= HighPrice(f, after.net)
          BY <3>5, <3>7 DEF Averages
        <4> HIDE DEF after
        <4> QED
          BY <2>3, <3>1, <3>6, <4>1 DEF AverageFits
      <3>8. CASE Held(row) # 0
        <4>1. c \in DOMAIN positions /\ row = positions[c] /\ ~positions[c].closed /\ row \in Row
          <5>1. row # None
            BY <3>8 DEF Held
          <5> QED
            BY <1>6, <3>2, <3>8, <5>1 DEF GetPositionByChainID, Held, GoodRow
        <4>2. AverageFits(c) /\ NetSum(c) # 0
          BY <1>7, <2>1, <2>3, <4>1
        <4>3. SinceFlat(c) \subseteq SinceFlat(c)' /\ SinceFlat(c) \subseteq 1..Len(booked)
          BY <1>1, <1>2, <4>2, SinceFlatGrows
        <4>4. /\ after.net > 0 <=> row.net > 0
              /\ row.avg <= after.avg \/ (Opens(f) /\ LowPrice(f, after.net) <= after.avg)
              /\ after.avg <= row.avg \/ (Opens(f) /\ after.avg <= HighPrice(f, after.net))
          BY <3>5, <3>8, <4>1, RowOfChain DEF Averages, Held
        <4>5. PICK net, avg, net2, avg2 :
                /\ net = row.net /\ avg = row.avg /\ net2 = after.net /\ avg2 = after.avg
          OBVIOUS
        <4>6. avg \in Int /\ avg2 \in Int
          <5>1. positions'[c] \in Row
            BY <1>2, <1>9, <2>3 DEF TypeOK
          <5> QED
            BY <3>1, <4>1, <4>5, <5>1 DEF Row
        <4>7. \A n \in SinceFlat(c) :
                /\ LowPrice(FillNo(n)', net2) = LowPrice(FillNo(n), net)
                /\ HighPrice(FillNo(n)', net2) = HighPrice(FillNo(n), net)
                /\ LowPrice(FillNo(n), net) \in Int /\ HighPrice(FillNo(n), net) \in Int
          <5> TAKE n \in SinceFlat(c)
          <5>1. n \in 1..Len(booked) /\ FillNo(n)' = FillNo(n) /\ FillNo(n) \in Fill
            BY <1>1, <1>8, <4>3 DEF FillsWritten
          <5>2. FillNo(n).price \in Int /\ FillNo(n).fees \in Int
            BY <5>1 DEF Fill
          <5> QED
            BY <4>4, <4>5, <5>1, <5>2 DEF LowPrice, HighPrice
        <4>8. \E n \in SinceFlat(c)' : LowPrice(FillNo(n)', net2) <= avg2
          <5>1. PICK n \in SinceFlat(c) : LowPrice(FillNo(n), net) <= avg
            BY <4>1, <4>2, <4>5 DEF AverageFits
          <5>2. CASE avg <= avg2
            BY <4>3, <4>6, <4>7, <5>1, <5>2
          <5>3. CASE Opens(f) /\ LowPrice(f, net2) <= avg2
            BY <3>6, <5>3
          <5> QED
            BY <4>4, <4>5, <5>2, <5>3
        <4>9. \E n \in SinceFlat(c)' : avg2 <= HighPrice(FillNo(n)', net2)
          <5>1. PICK n \in SinceFlat(c) : avg <= HighPrice(FillNo(n), net)
            BY <4>1, <4>2, <4>5 DEF AverageFits
          <5>2. CASE avg2 <= avg
            BY <4>3, <4>6, <4>7, <5>1, <5>2
          <5>3. CASE Opens(f) /\ avg2 <= HighPrice(f, net2)
            BY <3>6, <5>3
          <5> QED
            BY <4>4, <4>5, <5>2, <5>3
        <4>10. positions'[c].net = net2 /\ positions'[c].avg = avg2
          BY <3>1, <4>5
        <4> QED
          BY <2>3, <4>8, <4>9, <4>10 DEF AverageFits
      <3> QED
        BY <3>7, <3>8
    <2> QED
      BY <2>2, <2>3
  <1> QED
    <2>1. AveragesFit'
      BY <1>9 DEF AveragesFit
    <2>2. TypeOK' /\ FillsWritten' => (AverageWithinFills' <=> AveragesFit')
      BY AverageParts, PTL
    <2> QED
      BY <1>2, <2>1, <2>2

-----------------------------------------------------------------------------
(* Every step of the one import keeps the books.                            *)

\* A step that writes nothing.
LEMMA QuietStepKeepsBooks ==
    ASSUME CostInv, UNCHANGED <<positions, booked>>,
           \A v \in Worker : hook'[v].pc = "write" =>
               hook'[v].pos = GetPositionByChainID(ChainOf[hook'[v].trade])
    PROVE  CostInv'
  <1>1. FillsWritten' /\ RowsForFills'
    BY DEF CostInv, FillsWritten, RowsForFills, FillNo
  <1>2. FreshReads'
    BY DEF FreshReads, GetPositionByChainID
  <1>3. /\ \A n : FillNo(n)' = FillNo(n)
        /\ \A c : BookedOf(c)' = BookedOf(c)
        /\ SignedOf' = SignedOf /\ CashOf' = CashOf
    BY DEF FillNo, BookedOf, SignedOf, CashOf
  <1>4. \A c, n : NetAfter(c, n)' = NetAfter(c, n)
    BY <1>3, Zenon DEF NetAfter
  <1>5. /\ \A c : HeldAfter(c)' = HeldAfter(c)
        /\ \A c : Crossings(c)' = Crossings(c)
        /\ \A c : SinceFlat(c)' = SinceFlat(c)
    BY <1>3, <1>4 DEF HeldAfter, Crossings, NetBefore, SinceFlat
  <1>6. \A c : ShortSaleMetLong(c)' <=> ShortSaleMetLong(c)
    BY <1>3, <1>5 DEF ShortSaleMetLong
  <1>7. BooksBalance'
    BY <1>3, <1>5, <1>6, Zenon DEF CostInv, BooksBalance
  <1>8. AverageWithinFills'
    BY <1>3, <1>5, Zenon DEF CostInv, AverageWithinFills
  <1> QED
    BY <1>1, <1>2, <1>7, <1>8 DEF CostInv

LEMMA EndCallKeepsCosts ==
    ASSUME StockInv, CostInv, NEW w \in Worker, NEW result, EndCall(w, result),
           UNCHANGED <<positions, booked>>
    PROVE  CostInv'
  <1>1. \A v \in Worker : hook'[v] = IF v = w THEN IdleJob ELSE hook[v]
    BY DEF EndCall, StockInv, TypeOK
  <1>2. \A v \in Worker : hook'[v].pc = "write" => hook'[v] = hook[v]
    BY <1>1 DEF IdleJob
  <1> QED
    BY <1>2, QuietStepKeepsBooks DEF CostInv, FreshReads

LEMMA WriteFillKeepsCosts ==
    ASSUME OneImport, StockInv, StockInv', CostInv, NEW w \in Worker, WriteFill(w)
    PROVE  CostInv'
  <1>1. CASE EndCall(w, "failed") /\ UNCHANGED <<positions, booked>>
    BY <1>1, EndCallKeepsCosts
  <1>2. CASE ~(EndCall(w, "failed") /\ UNCHANGED <<positions, booked>>)
    <2>1. FreshReads /\ FillsWritten /\ RowsForFills
      BY DEF CostInv
    <2>2. Booked(w) /\ \E N, c, f : WritesRow(N, c, f)
      BY <1>2, <2>1, WriteFillWritesRow
    <2>3. PICK N, c, f : WritesRow(N, c, f)
      BY <2>2
    <2>4. FillsWritten' /\ RowsForFills'
      BY <2>1, <2>3, WritingKeepsHistory
    <2>5. BooksBalance'
      BY <2>3, WritingKeepsBalance
    <2>6. AverageWithinFills'
      BY <2>3, WritingKeepsAverage
    <2>7. FreshReads'
      <3>1. hook'[w].pc = "fill"
        BY <2>2 DEF Booked, Skip, StockInv, TypeOK, Job
      <3>2. \A v \in Worker : v = w
        BY DEF OneImport
      <3> QED
        BY <3>1, <3>2 DEF FreshReads
    <2> QED
      BY <2>4, <2>5, <2>6, <2>7 DEF CostInv
  <1> QED
    BY <1>1, <1>2

LEMMA NextKeepsCosts ==
    ASSUME OneImport, StockInv, StockInv', CostInv, [Next]_vars
    PROVE  CostInv'
  <1>1. CASE UNCHANGED vars
    BY <1>1, QuietStepKeepsBooks DEF vars, CostInv, FreshReads
  <1>2. ASSUME NEW w \in Worker, NEW t \in Trade, ProcessTrade(w, t) PROVE CostInv'
    <2>1. /\ UNCHANGED <<positions, booked>>
          /\ \A v \in Worker : v # w => hook'[v] = hook[v]
          /\ hook'[w].pc = "fill"
      BY <1>2 DEF ProcessTrade, IdleJob, StockInv, TypeOK
    <2> QED
      BY <2>1, QuietStepKeepsBooks DEF CostInv, FreshReads
  <1>3. ASSUME NEW w \in Worker, HookStep(w) PROVE CostInv'
    <2>1. CASE NextFill(w)
      <3>1. PICK k : hook' = [hook EXCEPT ![w] =
              IF Fills[hook[w].trade][k].action = "other" THEN Skip(hook[w], k) ELSE Read(hook[w], k)]
        BY <2>1 DEF NextFill
      <3>2. /\ UNCHANGED <<positions, booked>> /\ hook[w].pc = "fill" /\ hook[w] \in Job
            /\ \A v \in Worker : v # w => hook'[v] = hook[v]
            /\ hook'[w] = Skip(hook[w], k) \/ hook'[w] = Read(hook[w], k)
        BY <2>1, <3>1 DEF NextFill, StockInv, TypeOK
      <3>3. /\ Skip(hook[w], k).pc = "fill"
            /\ Read(hook[w], k).pos = GetPositionByChainID(ChainOf[hook[w].trade])
            /\ Read(hook[w], k).trade = hook[w].trade
        BY <3>2 DEF Skip, Read, Job
      <3> QED
        BY <3>2, <3>3, QuietStepKeepsBooks DEF CostInv, FreshReads
    <2>2. CASE WriteFill(w)
      BY <2>2, WriteFillKeepsCosts
    <2>3. CASE RejectFill(w)
      BY <2>3, EndCallKeepsCosts DEF RejectFill
    <2>4. CASE Panic(w)
      BY <2>4, QuietStepKeepsBooks DEF Panic, IdleJob
    <2>5. CASE Finish(w)
      BY <2>5, EndCallKeepsCosts DEF Finish
    <2> QED
      BY <1>3, <2>1, <2>2, <2>3, <2>4, <2>5 DEF HookStep
  <1>4. ASSUME NEW w \in Worker, CutShort(w) PROVE CostInv'
    BY <1>4, EndCallKeepsCosts DEF CutShort
  <1> QED
    BY <1>1, <1>2, <1>3, <1>4 DEF Next

LEMMA InitCosts == Init => CostInv
  <1> SUFFICES ASSUME Init PROVE CostInv
    OBVIOUS
  <1>1. DOMAIN positions = {} /\ booked = << >> /\ \A w \in Worker : hook[w].pc = "idle"
    BY DEF Init, IdleJob
  <1>2. booked \in Seq([trade: Trade, fill: Nat]) /\ Len(booked) = 0
    BY <1>1
  <1> QED
    BY <1>1, <1>2 DEF CostInv, FillsWritten, FreshReads, RowsForFills, BooksBalance, AverageWithinFills

LEMMA CostInvHolds == ASSUME OneImport PROVE Spec => []CostInv
  <1>1. OneImport /\ StockInv /\ StockInv' /\ CostInv /\ [Next]_vars => CostInv'
    BY NextKeepsCosts
  <1> QED
    BY <1>1, InitCosts, StockInvHolds, PTL DEF Spec

\* With one import at a time, whatever is bought, sold, sold short, covered and
\* opened again: the shares of a position are the sum of its fills, and its
\* realized P&L less the shares at average cost is the cash that moved, up to
\* half a unit per share held after each opening fill.
THEOREM StockBooksBalance == ASSUME OneImport PROVE Spec => []BooksBalance
  <1>1. CostInv => BooksBalance
    BY DEF CostInv
  <1> QED
    BY <1>1, CostInvHolds, PTL

\* With one import at a time the average cost of an open position stays within
\* the prices, fees included, of the fills that opened what is held, although
\* every fill rounds it again.
THEOREM StockAverageWithinFills == ASSUME OneImport PROVE Spec => []AverageWithinFills
  <1>1. CostInv => AverageWithinFills
    BY DEF CostInv
  <1> QED
    BY <1>1, CostInvHolds, PTL

=============================================================================
