------------------------ MODULE ImportPipelineProofs ------------------------
(***************************************************************************)
(* Theorems about ImportPipeline, for every set of trades and exports, every*)
(* split of the trades into rows, and any number of requests at the same    *)
(* time, each of which may fail or be cut short between any two statements: *)
(*   - HookIsCalledAsAssumed: HookCalledAsAssumed, so that what is proved   *)
(*     of LotLedger for any number of calls holds of the ledger here;       *)
(*   - ImportsAreComplete: ImportedIsComplete;                              *)
(*   - NothingIsDropped: NothingDropped;                                    *)
(*   - FillsAreBookedOnce: FillsBookedOnce;                                 *)
(*   - ServicesAgreeOnChains: LotsFollowChains.                             *)
(* The lemmas about chains and lots are those of ChainDetectionProofs and   *)
(* LotLedgerProofs.                                                         *)
(***************************************************************************)
EXTENDS ImportPipeline, TLAPS, FiniteSetTheorems, FunctionTheorems, SequenceTheorems

CP == INSTANCE ChainDetectionProofs WITH
    Shares <- {}, Legs <- ChainLegs, scans <- 0, MaxScans <- 0
LP == INSTANCE LotLedgerProofs WITH
    Chain <- Chains!ChainId, failures <- hookFailures

-----------------------------------------------------------------------------
(* The invariant.                                                           *)

\* All transactions of g are stored.
Whole(g) == \A k \in 1..Len(Rows[g]) : <<g, k>> \in txRows

\* Chain c is the one of g, and g may be there.
Belongs(c, g) == CP!Owns(c, g) /\ (chains[c].trade = g \/ Ledger!Closes(g))

\* What opens something has a chain.
Chained(g) == Ledger!Opens(g) => \E c : CP!Owns(c, g)

Resting(w) == call[w].pc = "idle" /\ hook[w].pc = "idle"

\* The request writes the rows of its current trade ...
Writing(w, g) ==
    /\ Resting(w)
    /\ g \notin DOMAIN outcome
    /\ imp[w].row \in 1..(Len(Rows[g]) + 1)
    /\ \A k \in 1..Len(Rows[g]) : k < imp[w].row => <<g, k>> \in txRows

\* ... has the chain service look for its chain, or its answer ...
Chaining(w, g) ==
    /\ hook[w].pc = "idle"
    /\ g \notin DOMAIN outcome
    /\ Whole(g)
    /\ IF call[w].pc = "idle" THEN CP!Answers(g, call[w].answer)
       ELSE call[w].trade = g /\ call[w].todo = {}

\* ... has the position hook book it, or its result.
Booking(w, g) ==
    /\ call[w].pc = "idle"
    /\ g \in DOMAIN outcome
    /\ Chained(g)
    /\ IF hook[w].pc = "idle" THEN outcome[g] # "running"
       ELSE hook[w].trade = g /\ (Ledger!Opens(g) => Belongs(hook[w].chain, g))

AtTrade == {"rows", "chain", "hook"}

Request == [pc: ImportPC, file: SUBSET Trade, todo: SUBSET Trade, cur: Trade \cup {None},
            row: Nat, imported: SUBSET Trade, failed: SUBSET Trade, skipped: Nat]

RequestOK(w) ==
    /\ imp[w] \in Request
    /\ imp[w].pc = "idle" => imp[w].todo = {}
    /\ imp[w].pc \in AtTrade => imp[w].cur \in tradeRows
    /\ imp[w].pc \notin AtTrade => imp[w].cur = None /\ Resting(w)
    /\ imp[w].pc = "rows" => Writing(w, imp[w].cur)
    /\ imp[w].pc = "chain" => Chaining(w, imp[w].cur)
    /\ imp[w].pc = "hook" => Booking(w, imp[w].cur)
    /\ \A g \in imp[w].imported : g \in DOMAIN outcome /\ outcome[g] = "ok" /\ Chained(g)
    /\ \A g \in imp[w].file \ imp[w].failed :
          g \in imp[w].todo \/ KeysOf(g) \subseteq StoredKeys

\* One row per trade id; one request per trade; only whole trades reach the
\* hook; lots and positions are those of the chain that owns the trade.
TradeRowsOK ==
    /\ tradeRows \subseteq Trade
    /\ \A g, h \in tradeRows : TradeId[g] = TradeId[h] => g = h
    /\ \A v, w \in Worker : imp[v].cur = imp[w].cur /\ imp[v].cur # None => v = w
    /\ \A g \in DOMAIN outcome : g \in tradeRows /\ Whole(g)
LedgerRowsOK ==
    /\ \A i \in 1..Len(lots) : Belongs(lots[i].chain, lots[i].trade)
    /\ \A c \in DOMAIN positions : CP!Owns(c, positions[c].trade)

ChainsOK == CP!ChainInv /\ CP!AnswerInv
LedgerOK == LP!TypeInv /\ LP!CompleteInv /\ LP!CallerInv
RequestsOK == imp = [w \in Worker |-> imp[w]] /\ \A w \in Worker : RequestOK(w)

PipeInv == ChainsOK /\ LedgerOK /\ RequestsOK /\ TradeRowsOK /\ LedgerRowsOK

-----------------------------------------------------------------------------
(* The constants: legs are the rows of the file in another order.           *)

LEMMA RowFacts ==
    ASSUME NEW g \in Trade
    PROVE  /\ Rows[g] \in Seq(Ledger!Leg) /\ Len(Rows[g]) \in Nat \ {0}
           /\ \A k \in 1..Len(Rows[g]) :
                /\ Rows[g][k] \in Ledger!Leg
                /\ Rows[g][k].effect = "opening" => Rows[g][k].cash # 0
  <1>1. Rows[g] \in Seq(Ledger!Leg) /\ Rows[g] # <<>>
    BY RowsAssumption DEF Ledger!Leg
  <1>2. Len(Rows[g]) \in Nat /\ Len(Rows[g]) # 0
    BY <1>1, LenProperties, EmptySeq
  <1> QED
    BY <1>1, <1>2, ElementOfSeq, RowsAssumption

LEMMA BeforeIsOrder ==
    ASSUME NEW g, NEW n \in Nat
    PROVE  /\ \A k \in 1..n : ~Before(g, k, k)
           /\ \A i, j, k \in 1..n : Before(g, i, j) /\ Before(g, j, k) => Before(g, i, k)
           /\ \A j, k \in 1..n : j # k => Before(g, j, k) \/ Before(g, k, j)
  <1>1. \A e : Rank(e) \in Nat
    BY DEF Rank
  <1> DEFINE r(k) == Rank(Rows[g][k].effect)
  <1>2. \A k : r(k) \in Nat
    BY <1>1
  <1>3. \A j, k : Before(g, j, k) <=> r(j) < r(k) \/ (r(j) = r(k) /\ j < k)
    BY DEF Before
  <1> HIDE DEF r
  <1> QED
    BY <1>2, <1>3

\* The places of the rows are the numbers from 1, each taken once.
LEMMA PlacesAreNumbers ==
    ASSUME NEW g \in Trade
    PROVE  LET n == Len(Rows[g])
           IN /\ \A k \in 1..n : Cardinality(RowsBefore(g, k)) \in 0..(n - 1)
              /\ \A j, k \in 1..n :
                   Cardinality(RowsBefore(g, j)) = Cardinality(RowsBefore(g, k)) => j = k
              /\ \A i \in 1..n : \E k \in 1..n : Cardinality(RowsBefore(g, k)) = i - 1
  <1> PICK n : n = Len(Rows[g])
    OBVIOUS
  <1>1. /\ n \in Nat /\ IsFiniteSet(1..n) /\ Cardinality(1..n) = n
        /\ \A k : RowsBefore(g, k) = {j \in 1..n : Before(g, j, k)}
    <2>1. n \in Nat
      BY RowFacts
    <2>2. \A m \in Nat : IsFiniteSet(1..m) /\ Cardinality(1..m) = m
      BY FS_Interval
    <2> QED
      BY <2>1, <2>2 DEF RowsBefore
  <1>0. /\ \A k \in 1..n : ~Before(g, k, k)
        /\ \A i, j, k \in 1..n : Before(g, i, j) /\ Before(g, j, k) => Before(g, i, k)
        /\ \A j, k \in 1..n : j # k => Before(g, j, k) \/ Before(g, k, j)
    BY <1>1, BeforeIsOrder
  <1> DEFINE C(k) == Cardinality(RowsBefore(g, k))
  <1>2. ASSUME NEW k \in 1..n
        PROVE  /\ IsFiniteSet(RowsBefore(g, k)) /\ C(k) \in 0..(n - 1)
               /\ k \notin RowsBefore(g, k)
    <2>1. k \notin RowsBefore(g, k) /\ RowsBefore(g, k) \subseteq (1..n) \ {k}
      BY <1>0, <1>1
    <2>2. IsFiniteSet((1..n) \ {k}) /\ Cardinality((1..n) \ {k}) = n - 1
      BY <1>1, FS_RemoveElement
    <2>3. IsFiniteSet(RowsBefore(g, k)) /\ C(k) <= n - 1
      BY <2>1, <2>2, FS_Subset
    <2>4. C(k) \in Nat
      BY <2>3, FS_CardinalityType
    <2> QED
      BY <1>1, <2>1, <2>3, <2>4
  <1>3. ASSUME NEW j \in 1..n, NEW k \in 1..n, Before(g, j, k)
        PROVE  C(j) < C(k)
    <2>1. RowsBefore(g, j) \cup {j} \subseteq RowsBefore(g, k)
      BY <1>0, <1>1, <1>3
    <2>2. Cardinality(RowsBefore(g, j) \cup {j}) = C(j) + 1
      BY <1>2, FS_AddElement
    <2>3. Cardinality(RowsBefore(g, j) \cup {j}) <= C(k)
      BY <1>2, <2>1, FS_Subset
    <2> QED
      BY <1>1, <1>2, <2>2, <2>3
  <1>4. \A j, k \in 1..n : C(j) = C(k) => j = k
    <2> SUFFICES ASSUME NEW j \in 1..n, NEW k \in 1..n, j # k PROVE C(j) # C(k)
      OBVIOUS
    <2>1. C(j) \in Int /\ C(k) \in Int
      BY <1>1, <1>2
    <2> QED
      BY <1>0, <1>1, <1>3, <2>1
  <1> DEFINE f == [k \in 1..n |-> C(k) + 1]
  <1>5. \A k \in 1..n : C(k) + 1 \in 1..n
    BY <1>1, <1>2
  <1>6. f \in [1..n -> 1..n] /\ \A k \in 1..n : f[k] = C(k) + 1
    BY <1>5
  <1>7. \A j, k \in 1..n : f[j] = f[k] => j = k
    <2> SUFFICES ASSUME NEW j \in 1..n, NEW k \in 1..n, f[j] = f[k] PROVE j = k
      OBVIOUS
    <2>1. C(j) \in Int /\ C(k) \in Int
      BY <1>1, <1>2
    <2>2. C(j) = C(k)
      BY <1>6, <2>1
    <2> QED
      BY <1>4, <2>2
  <1> HIDE DEF f
  <1>8. f \in Injection(1..n, 1..n)
    BY <1>6, <1>7 DEF Injection, IsInjective
  <1>9. f \in Surjection(1..n, 1..n)
    BY <1>1, <1>8, FS_Injection
  <1>10. ASSUME NEW i \in 1..n
         PROVE  \E k \in 1..n : C(k) = i - 1
    <2>1. PICK k \in 1..n : f[k] = i
      BY <1>9 DEF Surjection
    <2>2. C(k) \in Int
      BY <1>1, <1>2
    <2> QED
      BY <1>1, <1>6, <2>1, <2>2
  <1> QED
    BY <1>2, <1>4, <1>10

LEMMA ClosingFirstPermutes ==
    ASSUME NEW g \in Trade
    PROVE  LET n == Len(Rows[g])
           IN /\ \A i \in 1..n : ClosingFirst[g][i] \in 1..n
              /\ \A i, j \in 1..n : ClosingFirst[g][i] = ClosingFirst[g][j] => i = j
              /\ \A k \in 1..n : \E i \in 1..n : ClosingFirst[g][i] = k
  <1> PICK n : n = Len(Rows[g])
    OBVIOUS
  <1> DEFINE C(k) == Cardinality(RowsBefore(g, k))
  <1>1. /\ n \in Nat
        /\ \A k \in 1..n : C(k) \in 0..(n - 1)
        /\ \A j, k \in 1..n : C(j) = C(k) => j = k
        /\ \A i \in 1..n : \E k \in 1..n : C(k) = i - 1
    BY PlacesAreNumbers, RowFacts
  <1>2. \A i \in 1..n : ClosingFirst[g][i] = CHOOSE k \in 1..n : C(k) = i - 1
    BY DEF ClosingFirst
  <1> HIDE DEF C
  <1>3. \A i \in 1..n : ClosingFirst[g][i] \in 1..n /\ C(ClosingFirst[g][i]) = i - 1
    BY <1>1, <1>2
  <1>4. \A i, j \in 1..n : ClosingFirst[g][i] = ClosingFirst[g][j] => i = j
    <2> SUFFICES ASSUME NEW i \in 1..n, NEW j \in 1..n, ClosingFirst[g][i] = ClosingFirst[g][j]
                 PROVE  i = j
      OBVIOUS
    <2>1. i - 1 = j - 1
      BY <1>3
    <2> QED
      BY <1>1, <2>1
  <1>5. ASSUME NEW k \in 1..n
        PROVE  \E i \in 1..n : ClosingFirst[g][i] = k
    <2>1. C(k) \in 0..(n - 1) /\ n \in Nat
      BY <1>1
    <2>2. PICK i : i = C(k) + 1
      OBVIOUS
    <2>3. i \in 1..n /\ i - 1 = C(k)
      BY <2>1, <2>2
    <2>4. ClosingFirst[g][i] \in 1..n /\ C(ClosingFirst[g][i]) = C(k)
      BY <1>3, <2>3
    <2>5. ClosingFirst[g][i] = k
      BY <1>1, <2>4
    <2> QED
      BY <2>3, <2>5
  <1> QED
    BY <1>3, <1>4, <1>5

LEMMA LegFacts ==
    ASSUME NEW g \in Trade
    PROVE  /\ Legs[g] \in Seq(Ledger!Leg) /\ Len(Legs[g]) = Len(Rows[g])
           /\ Len(ChainLegs[g]) = Len(Rows[g])
           /\ ChainLegs[g] \in Seq([inst: Instrument, qty: Nat \ {0},
                                    effect: {"opening", "closing", "neutral"}])
           /\ \A k \in 1..Len(Rows[g]) :
                /\ Legs[g][k] = Rows[g][ClosingFirst[g][k]]
                /\ Legs[g][k].effect = "opening" => Legs[g][k].cash # 0
                /\ ChainLegs[g][k].effect = Legs[g][k].effect
  <1> PICK n : n = Len(Rows[g])
    OBVIOUS
  <1>1. /\ n \in Nat /\ \A k \in 1..n : ClosingFirst[g][k] \in 1..n
        /\ \A k \in 1..n : /\ Rows[g][k] \in Ledger!Leg
                           /\ Rows[g][k].effect = "opening" => Rows[g][k].cash # 0
    BY RowFacts, ClosingFirstPermutes
  <1>2. Legs[g] = [k \in 1..n |-> Rows[g][ClosingFirst[g][k]]]
    BY DEF Legs
  <1>3. \A k \in 1..n : /\ Legs[g][k] = Rows[g][ClosingFirst[g][k]]
                        /\ Legs[g][k] \in Ledger!Leg
                        /\ Legs[g][k].effect = "opening" => Legs[g][k].cash # 0
    BY <1>1, <1>2
  <1>4. Legs[g] \in Seq(Ledger!Leg) /\ Len(Legs[g]) = n
    <2>1. Legs[g] \in [1..n -> Ledger!Leg]
      BY <1>2, <1>3
    <2> QED
      BY <1>1, <2>1, SeqDef, LenProperties
  <1> DEFINE row(k) == [inst |-> Legs[g][k].inst, qty |-> Legs[g][k].qty,
                        effect |-> Legs[g][k].effect]
             Leg3 == [inst: Instrument, qty: Nat \ {0},
                      effect: {"opening", "closing", "neutral"}]
  <1>5. ChainLegs[g] = [k \in 1..n |-> row(k)]
    BY DEF ChainLegs
  <1>6. \A k \in 1..n : row(k) \in Leg3 /\ row(k).effect = Legs[g][k].effect
    BY <1>3 DEF Ledger!Leg
  <1>7. /\ ChainLegs[g] \in Seq(Leg3) /\ Len(ChainLegs[g]) = n
        /\ \A k \in 1..n : ChainLegs[g][k].effect = Legs[g][k].effect
    <2> HIDE DEF row, Leg3
    <2>1. ChainLegs[g] \in [1..n -> Leg3] /\ \A k \in 1..n : ChainLegs[g][k] = row(k)
      BY <1>5, <1>6
    <2> QED
      BY <1>1, <1>6, <2>1, SeqDef, LenProperties
  <1> QED
    BY <1>3, <1>4, <1>7

\* The assumptions of the two services hold of what the importer hands them.
LEMMA LedgerAssumptions ==
    LP!LegsAssumption /\ LP!TimeAssumption /\ LP!BoundAssumption /\ LP!NoneAssumption
  <1>1. Legs \in [Trade -> Seq(LP!Leg)]
    <2>1. \A g \in Trade : Legs[g] \in Seq(LP!Leg)
      BY LegFacts DEF LP!Leg, Ledger!Leg
    <2>2. Legs = [g \in Trade |-> Legs[g]]
      BY DEF Legs
    <2> QED
      BY <2>1, <2>2
  <1>2. \A g \in Trade : \A k \in 1..Len(Legs[g]) :
           Legs[g][k].effect = "opening" => Legs[g][k].cash # 0
    BY LegFacts
  <1> QED
    BY <1>1, <1>2, TradeAssumption, BoundAssumption, NoneAssumption
       DEF LP!LegsAssumption, LP!TimeAssumption, LP!BoundAssumption, LP!NoneAssumption,
           LP!PositionRow, Ledger!PositionRow, Chains!ChainId

LEMMA ChainAssumptions ==
    /\ CP!TradeAssumption /\ CP!SharesAssumption /\ CP!LegsAssumption
    /\ CP!ExecutedAtAssumption /\ CP!BoundsAssumption
  <1>1. CP!LegsAssumption
    BY LegFacts DEF CP!LegsAssumption
  <1>2. CP!ExecutedAtAssumption
    BY TradeAssumption DEF TradeAssumption, CP!ExecutedAtAssumption
  <1>4. CP!TradeAssumption
    BY TradeAssumption DEF CP!TradeAssumption, CP!IsFiniteSet, IsFiniteSet
  <1>3. CP!SharesAssumption /\ CP!BoundsAssumption
    BY BoundAssumption DEF CP!SharesAssumption, CP!BoundsAssumption
  <1> QED
    BY <1>1, <1>2, <1>3, <1>4

-----------------------------------------------------------------------------
(* The two instances of each service are one.                               *)

LEMMA SameCardinality ==
    \A S : /\ CP!Cardinality(S) = Cardinality(S)
           /\ Chains!Cardinality(S) = Cardinality(S)
           /\ LP!Cardinality(S) = Cardinality(S)
  BY Zenon DEF CP!Cardinality, Chains!Cardinality, LP!Cardinality, Cardinality

LEMMA SameChainTerms ==
    /\ Chains!IdleJob = CP!IdleJob
    /\ \A t : Chains!RowsOf(t) = CP!RowsOf(t)
    /\ \A t, S, e : Chains!HasEffect(t, S, e) = CP!HasEffect(t, S, e)
  BY Zenon DEF Chains!IdleJob, CP!IdleJob, Chains!RowsOf, CP!RowsOf, Chains!HasEffect, CP!HasEffect,
     Chains!LegsOf, CP!LegsOf

LEMMA SameChainStep ==
    ASSUME NEW w, Chains!ChainStep(w)
    PROVE  CP!ChainStep(w)
  BY Zenon DEF Chains!ChainStep, CP!ChainStep, Chains!Lookup, CP!Lookup,
     Chains!ListTransactions, CP!ListTransactions, Chains!AttributeChain,
     CP!AttributeChain, Chains!Unattributable, CP!Unattributable, Chains!StartChain,
     CP!StartChain, Chains!ListChainLinks, CP!ListChainLinks, Chains!CreateChainLink,
     CP!CreateChainLink, Chains!ChainLinkRejected, CP!ChainLinkRejected, Chains!CheckOpen,
     CP!CheckOpen, Chains!UpdateChainClosed, CP!UpdateChainClosed, Chains!GetChainByID,
     CP!GetChainByID, Chains!FindStockChain, CP!FindStockChain, Chains!CreateStockChain,
     CP!CreateStockChain, Chains!Owners, CP!Owners, Chains!TradesOf, CP!TradesOf,
     Chains!Return, CP!Return, Chains!IdleJob, CP!IdleJob, Chains!Begin, CP!Begin,
     Chains!Earliest, CP!Earliest, Chains!Goto, CP!Goto, Chains!Fail, CP!Fail,
     Chains!tables, CP!tables, Chains!AllShares, CP!AllShares, Chains!HasEffect,
     CP!HasEffect, Chains!LegsOf, CP!LegsOf, Chains!GetOpenChainForInstrument,
     CP!GetOpenChainForInstrument, Chains!OldestOf, CP!OldestOf, Chains!NetQty, CP!NetQty,
     Chains!SignedQty, CP!SignedQty, Chains!RowsOf, CP!RowsOf, Chains!ChainIsOpen,
     CP!ChainIsOpen, Chains!NewChain, CP!NewChain,
     Chains!OpensSharesOnly, CP!OpensSharesOnly, Chains!LinksOf, CP!LinksOf,
     Chains!SequenceTaken, CP!SequenceTaken, Chains!ClosesOnly, CP!ClosesOnly,
     Chains!GetStockChainBySymbol, CP!GetStockChainBySymbol, Chains!Cardinality,
     CP!Cardinality, Chains!IsFiniteSet, CP!IsFiniteSet, Chains!SumFunctionOnSet,
     CP!SumFunctionOnSet, Chains!FoldFunctionOnSet, CP!FoldFunctionOnSet,
     Chains!MapThenFoldSet, CP!MapThenFoldSet

LEMMA SameChainCall ==
    ASSUME NEW w, NEW g
    PROVE  /\ Chains!ProcessTrade(w, g) => CP!ProcessTrade(w, g)
           /\ Chains!CutShort(w) => CP!CutShort(w)
           /\ Chains!Init => CP!Init
  BY Zenon DEF Chains!ProcessTrade, CP!ProcessTrade, Chains!CutShort, CP!CutShort,
     Chains!Init, CP!Init, Chains!Goto, CP!Goto, Chains!Begin, CP!Begin, Chains!IdleJob,
     CP!IdleJob, Chains!Fail, CP!Fail, Chains!tables, CP!tables

LEMMA SameHookStep ==
    ASSUME NEW w, Ledger!HookStep(w)
    PROVE  LP!HookStep(w)
  BY Zenon DEF Ledger!HookStep, LP!HookStep, Ledger!CreateLot, LP!CreateLot,
     Ledger!FindPosition, LP!FindPosition, Ledger!CreatePosition, LP!CreatePosition,
     Ledger!CreatePositionRejected, LP!CreatePositionRejected, Ledger!AccumulateCostBasis,
     LP!AccumulateCostBasis, Ledger!ListOpenLots, LP!ListOpenLots,
     Ledger!FindPositionForLot, LP!FindPositionForLot, Ledger!CloseLot, LP!CloseLot,
     Ledger!ClosingMatched, LP!ClosingMatched, Ledger!OverClose, LP!OverClose,
     Ledger!Finish, LP!Finish, Ledger!ledgerVars, LP!ledgerVars, Ledger!Snapshot,
     LP!Snapshot, Ledger!IdleJob, LP!IdleJob, Ledger!Abs, LP!Abs, Ledger!CloseQtyUnclamped,
     LP!CloseQtyUnclamped, Ledger!CloseQtyWholeLot, LP!CloseQtyWholeLot, Ledger!CloseQty,
     LP!CloseQty, Ledger!CurrentLeg, LP!CurrentLeg, Ledger!LotSignedQty, LP!LotSignedQty,
     Ledger!LotCashFlowSign, LP!LotCashFlowSign, Ledger!LotDirectionLong,
     LP!LotDirectionLong, Ledger!LotDirection, LP!LotDirection, Ledger!LegCostBasis,
     LP!LegCostBasis, Ledger!RealizedPnL, LP!RealizedPnL, Ledger!ListOpenLotsByInstrument,
     LP!ListOpenLotsByInstrument, Ledger!UnclosedLots, LP!UnclosedLots,
     Ledger!GetPositionByChainID, LP!GetPositionByChainID, Ledger!EndCall, LP!EndCall,
     Ledger!AfterLeg, LP!AfterLeg, Ledger!NextLeg, LP!NextLeg, Ledger!PositionKeyTaken,
     LP!PositionKeyTaken, Ledger!FirstIn, LP!FirstIn, Ledger!NewRemaining, LP!NewRemaining,
     Ledger!PositionClosed, LP!PositionClosed, Ledger!ClosingTime, LP!ClosingTime,
     Ledger!AfterClose, LP!AfterClose

LEMMA SameHookCall ==
    ASSUME NEW w, NEW g, NEW c
    PROVE  /\ Ledger!ProcessTrade(w, g, c) => LP!ProcessTrade(w, g, c)
           /\ Ledger!CutShort(w) => LP!CutShort(w)
           /\ Ledger!Init => LP!Init
  BY Zenon DEF Ledger!ProcessTrade, LP!ProcessTrade, Ledger!CutShort, LP!CutShort,
     Ledger!Init, LP!Init, Ledger!IdleJob, LP!IdleJob, Ledger!ledgerVars, LP!ledgerVars

-----------------------------------------------------------------------------
(* What ChainDetectionProofs says of the chains here ...                    *)

LEMMA ChainStepMoves ==
    ASSUME ChainsOK, NEW w \in Worker, Chains!ChainStep(w)
    PROVE  ChainsOK' /\ call[w].pc # "idle" /\ CP!CallMoves(w) /\ CP!OwnersStay
  <1>1. CP!ChainStep(w)
    BY SameChainStep
  <1>2. CP!ChainInv'
    BY <1>1, CP!ChainStepKeeps, ChainAssumptions
       DEF ChainsOK, CP!TradeAssumption, CP!SharesAssumption, CP!LegsAssumption,
           CP!ExecutedAtAssumption, CP!BoundsAssumption
  <1>3. CP!AnswerInv' /\ call[w].pc # "idle" /\ CP!CallMoves(w) /\ CP!OwnersStay
    BY <1>1, CP!ChainStepAnswers, ChainAssumptions
       DEF ChainsOK, CP!TradeAssumption, CP!SharesAssumption, CP!LegsAssumption,
           CP!ExecutedAtAssumption, CP!BoundsAssumption
  <1> QED
    BY <1>2, <1>3 DEF ChainsOK

LEMMA QuietKeepsAnswers ==
    ASSUME ChainsOK, UNCHANGED <<chains, links>>,
           \A v \in Worker : call'[v] = call[v] \/ call'[v].pc \in {"idle", "lookup"}
    PROVE  CP!AnswerInv' /\ CP!OwnersStay
  BY CP!QuietKeepsAnswers, ChainAssumptions
     DEF ChainsOK, CP!TradeAssumption, CP!SharesAssumption, CP!LegsAssumption,
         CP!ExecutedAtAssumption, CP!BoundsAssumption

LEMMA RowsKeepChains ==
    ASSUME ChainsOK, UNCHANGED chainVars, failures' \in 0..MaxFailures,
           NEW new, new \subseteq UNION {CP!RowsOf(g) : g \in Trade}, txRows' = txRows \cup new
    PROVE  ChainsOK' /\ CP!OwnersStay
  <1>1. CP!ChainInv'
    BY CP!RowsKeepChainInv, ChainAssumptions
       DEF ChainsOK, chainVars, CP!TradeAssumption, CP!SharesAssumption, CP!LegsAssumption,
           CP!ExecutedAtAssumption, CP!BoundsAssumption
  <1> QED
    BY <1>1, QuietKeepsAnswers DEF ChainsOK, chainVars

LEMMA ChainsStill ==
    ASSUME ChainsOK, UNCHANGED <<txRows, chainVars>>, failures' \in 0..MaxFailures
    PROVE  ChainsOK' /\ CP!OwnersStay
  <1>1. txRows' = txRows \cup {} /\ {} \subseteq UNION {CP!RowsOf(g) : g \in Trade}
    OBVIOUS
  <1> QED
    BY <1>1, RowsKeepChains

LEMMA CallKeepsChains ==
    ASSUME ChainsOK, NEW w \in Worker, NEW g \in Trade, Chains!ProcessTrade(w, g),
           txRows' = txRows, CP!Complete(g)', \A v \in Worker : ~CP!Holds(v, g)
    PROVE  /\ ChainsOK' /\ CP!OwnersStay
           /\ call[w].pc = "idle"
           /\ call' = [call EXCEPT ![w] = CP!Begin(CP!IdleJob, g)]
  <1>1. CP!ProcessTrade(w, g)
    BY SameChainCall
  <1>2. txRows' = txRows \cup {} /\ {} \subseteq UNION {CP!RowsOf(h) : h \in Trade}
    OBVIOUS
  <1>3. CP!ChainInv'
    BY <1>1, <1>2, CP!ProcessTradeKeeps, ChainAssumptions
       DEF ChainsOK, CP!TradeAssumption, CP!SharesAssumption, CP!LegsAssumption,
           CP!ExecutedAtAssumption, CP!BoundsAssumption
  <1>4. /\ call[w].pc = "idle" /\ UNCHANGED <<chains, links>>
        /\ call' = [call EXCEPT ![w] = CP!Begin(CP!IdleJob, g)]
    BY <1>1 DEF CP!ProcessTrade, CP!Goto
  <1>5. \A v \in Worker : call'[v] = call[v] \/ call'[v].pc \in {"idle", "lookup"}
    BY <1>4 DEF ChainsOK, CP!ChainInv, CP!Begin, CP!IdleJob
  <1> QED
    BY <1>3, <1>4, <1>5, QuietKeepsAnswers DEF ChainsOK

LEMMA CutShortKeepsChains ==
    ASSUME ChainsOK, NEW w \in Worker, Chains!CutShort(w)
    PROVE  /\ ChainsOK' /\ CP!OwnersStay /\ txRows' = txRows
           /\ call[w].pc # "idle"
           /\ call' = [call EXCEPT ![w] = [CP!IdleJob EXCEPT !.answer = Error]]
  <1>1. /\ CP!CutShort(w) /\ CP!Fail(w) /\ UNCHANGED <<txRows, chains, links>>
        /\ call[w].pc # "idle" /\ failures < MaxFailures /\ failures' = failures + 1
    BY SameChainCall DEF CP!CutShort, CP!tables
  <1>2. failures' \in 0..MaxFailures
    BY <1>1, BoundAssumption DEF ChainsOK, CP!ChainInv
  <1>3. CP!ChainInv'
    BY <1>1, <1>2, CP!FailKeepsChainInv, ChainAssumptions
       DEF ChainsOK, CP!TradeAssumption, CP!SharesAssumption, CP!LegsAssumption,
           CP!ExecutedAtAssumption, CP!BoundsAssumption
  <1>4. call' = [call EXCEPT ![w] = [CP!IdleJob EXCEPT !.answer = Error]]
    BY <1>1 DEF CP!Fail
  <1>5. \A v \in Worker : call'[v] = call[v] \/ call'[v].pc \in {"idle", "lookup"}
    BY <1>4 DEF ChainsOK, CP!ChainInv, CP!IdleJob
  <1> QED
    BY <1>1, <1>3, <1>4, <1>5, QuietKeepsAnswers DEF ChainsOK

LEMMA DropKeepsChains ==
    ASSUME ChainsOK, NEW w \in Worker, call' = [call EXCEPT ![w] = Chains!IdleJob],
           UNCHANGED <<txRows, chains, links>>, failures' \in 0..MaxFailures
    PROVE  ChainsOK' /\ CP!OwnersStay
  <1>1. call' = [call EXCEPT ![w] = CP!IdleJob]
    BY SameChainTerms
  <1>2. CP!ChainInv'
    BY <1>1, CP!DroppedCallKeepsChainInv, ChainAssumptions
       DEF ChainsOK, CP!TradeAssumption, CP!SharesAssumption, CP!LegsAssumption,
           CP!ExecutedAtAssumption, CP!BoundsAssumption
  <1>3. \A v \in Worker : call'[v] = call[v] \/ call'[v].pc \in {"idle", "lookup"}
    BY <1>1 DEF ChainsOK, CP!ChainInv, CP!IdleJob
  <1> QED
    BY <1>2, <1>3, QuietKeepsAnswers DEF ChainsOK

LEMMA ChainIdsBounded ==
    ASSUME ChainsOK
    PROVE  1..Len(chains) \subseteq Chains!ChainId
  <1>1. 1..Len(chains) \subseteq CP!ChainId
    BY CP!ChainsBounded, ChainAssumptions
       DEF ChainsOK, CP!TradeAssumption, CP!SharesAssumption, CP!LegsAssumption,
           CP!ExecutedAtAssumption, CP!BoundsAssumption
  <1>2. CP!ChainId = Chains!ChainId
    BY Zenon DEF CP!ChainId, Chains!ChainId, CP!Cardinality, Chains!Cardinality
  <1> QED
    BY <1>1, <1>2

(* ... and LotLedgerProofs of the lots.                                     *)

LEMMA LedgerNext ==
    ASSUME LedgerOK, [LP!Next]_(LP!vars)
    PROVE  LP!TypeInv' /\ LP!CompleteInv'
  <1>1. LP!TypeInv'
    BY LP!NextType, LedgerAssumptions
       DEF LedgerOK, LP!LegsAssumption, LP!TimeAssumption, LP!BoundAssumption, LP!NoneAssumption
  <1> QED
    BY <1>1, LP!NextComplete, LedgerAssumptions
       DEF LedgerOK, LP!LegsAssumption, LP!TimeAssumption, LP!BoundAssumption, LP!NoneAssumption

LEMMA LedgerStill ==
    ASSUME LedgerOK, UNCHANGED ledgerVars
    PROVE  LedgerOK'
  <1>1. UNCHANGED LP!vars
    BY DEF ledgerVars, LP!vars
  <1>2. LP!CallerInv'
    BY DEF LedgerOK, LP!CallerInv, ledgerVars, LP!IdleJob
  <1> QED
    BY <1>1, <1>2, LedgerNext DEF LedgerOK

LEMMA HookStepMoves ==
    ASSUME LedgerOK, NEW w \in Worker, Ledger!HookStep(w) \/ Ledger!CutShort(w)
    PROVE  LedgerOK' /\ LP!Shows(w)
  <1>1. LP!HookStep(w) \/ LP!CutShort(w)
    BY SameHookStep, SameHookCall
  <1>2. LP!Shows(w) /\ LP!CallerInv'
    BY <1>1, LP!HookStepShows, LedgerAssumptions
       DEF LedgerOK, LP!LegsAssumption, LP!TimeAssumption, LP!BoundAssumption, LP!NoneAssumption
  <1>3. LP!Next
    BY <1>1 DEF LP!Next
  <1> QED
    BY <1>2, <1>3, LedgerNext DEF LedgerOK

LEMMA CallKeepsLedger ==
    ASSUME LedgerOK, NEW w \in Worker, NEW g \in Trade, NEW c \in Chains!ChainId \cup {None},
           Ledger!ProcessTrade(w, g, c), Ledger!Opens(g) <=> c # None,
           c \in Ledger!StartedChains => Ledger!Closes(g)
    PROVE  LedgerOK' /\ Ledger!Next
  <1>1. Ledger!Call(w)
    BY DEF Ledger!Call
  <1>2. LP!ProcessTrade(w, g, c)
    BY SameHookCall
  <1>3. LP!Call(w)
    BY <1>2 DEF LP!Call, Ledger!Opens, LP!Opens, Ledger!Closes, LP!Closes,
                Ledger!StartedChains, LP!StartedChains
  <1>4. LP!Next
    BY <1>3 DEF LP!Next
  <1>5. LP!CallerInv'
    BY <1>2 DEF LedgerOK, LP!CallerInv, LP!ProcessTrade, LP!IdleJob, LP!TypeInv, LP!TypeOK
  <1> QED
    BY <1>1, <1>4, <1>5, LedgerNext DEF LedgerOK, Ledger!Next

-----------------------------------------------------------------------------
(* What a step of request w leaves to the others.                           *)

\* Rows are only added, trades keep their chain, and the hook's results are
\* final; the results of other trades, and all other requests, are left alone.
Grows(w) ==
    /\ tradeRows \subseteq tradeRows' /\ txRows \subseteq txRows'
    /\ CP!OwnersStay
    /\ \A v \in Worker : v # w => imp'[v] = imp[v] /\ call'[v] = call[v] /\ hook'[v] = hook[v]
    /\ \A g \in DOMAIN outcome :
          /\ g \in DOMAIN outcome'
          /\ outcome[g] # "running" \/ g # imp[w].cur => outcome'[g] = outcome[g]
    /\ \A g \in DOMAIN outcome' : g \in DOMAIN outcome \/ g = imp[w].cur

LEMMA Monotone ==
    ASSUME txRows \subseteq txRows', CP!OwnersStay
    PROVE  /\ \A g : Whole(g) => Whole(g)'
           /\ \A c, g : Belongs(c, g) => Belongs(c, g)'
           /\ \A c, g : CP!Owns(c, g) => CP!Owns(c, g)'
           /\ \A g : Chained(g) => Chained(g)'
           /\ \A g, c : CP!Answers(g, c) => CP!Answers(g, c)'
           /\ StoredKeys \subseteq StoredKeys'
  <1>1. \A c, g : CP!Owns(c, g) => CP!Owns(c, g)' /\ c \in 1..Len(chains)
    BY DEF CP!OwnersStay, CP!Owns
  <1>2. \A c \in 1..Len(chains) : chains'[c].trade = chains[c].trade
    BY DEF CP!OwnersStay
  <1>3. \A c, g : Belongs(c, g) => Belongs(c, g)'
    BY <1>1, <1>2 DEF Belongs, Ledger!Closes
  <1>4. \A g, c : CP!Answers(g, c) => CP!Answers(g, c)'
    BY <1>1, <1>2 DEF CP!Answers, CP!Extends, CP!HasEffect, CP!LegsOf, CP!AllShares
  <1>5. \A g : Chained(g) => Chained(g)'
    BY <1>1 DEF Chained, Ledger!Opens
  <1>6. StoredKeys \subseteq StoredKeys'
    BY DEF StoredKeys
  <1> QED
    BY <1>1, <1>3, <1>4, <1>5, <1>6 DEF Whole

LEMMA OthersKeep ==
    ASSUME PipeInv, NEW w \in Worker, Grows(w), NEW v \in Worker, v # w
    PROVE  RequestOK(v)'
  <1>1. RequestOK(v) /\ imp'[v] = imp[v] /\ call'[v] = call[v] /\ hook'[v] = hook[v]
    BY DEF PipeInv, RequestsOK, Grows
  <1>2. /\ \A g : Whole(g) => Whole(g)'
        /\ \A c, g : Belongs(c, g) => Belongs(c, g)'
        /\ \A g : Chained(g) => Chained(g)'
        /\ \A g, c : CP!Answers(g, c) => CP!Answers(g, c)'
        /\ StoredKeys \subseteq StoredKeys'
    BY Monotone DEF Grows
  <1>3. imp[v].cur # None => imp[v].cur # imp[w].cur
    BY DEF PipeInv, TradeRowsOK
  <1>4. /\ imp[v].pc \in AtTrade => imp[v].cur \in tradeRows'
        /\ imp[v].pc \notin AtTrade => imp[v].cur = None /\ Resting(v)'
    BY <1>1 DEF RequestOK, Grows, Resting
  <1>5. imp[v].pc \in AtTrade => imp[v].cur # None
    BY <1>1, NoneAssumption DEF RequestOK, PipeInv, TradeRowsOK
  <1> PICK g : g = imp[v].cur
    OBVIOUS
  <1>6. imp[v].pc \in AtTrade =>
           /\ g \in DOMAIN outcome <=> g \in DOMAIN outcome'
           /\ g \in DOMAIN outcome => outcome'[g] = outcome[g]
    BY <1>3, <1>5 DEF Grows
  <1>7. imp[v].pc = "rows" => Writing(v, g)'
    <2> SUFFICES ASSUME imp[v].pc = "rows" PROVE Writing(v, g)'
      OBVIOUS
    <2>1. Writing(v, g) /\ txRows \subseteq txRows'
      BY <1>1 DEF RequestOK, Grows
    <2> QED
      BY <1>1, <1>6, <2>1 DEF Writing, Resting, AtTrade
  <1>8. imp[v].pc = "chain" => Chaining(v, g)'
    <2> SUFFICES ASSUME imp[v].pc = "chain" PROVE Chaining(v, g)'
      OBVIOUS
    <2>1. Chaining(v, g)
      BY <1>1 DEF RequestOK
    <2> QED
      BY <1>1, <1>2, <1>6, <2>1 DEF Chaining, AtTrade
  <1>9. imp[v].pc = "hook" => Booking(v, g)'
    <2> SUFFICES ASSUME imp[v].pc = "hook" PROVE Booking(v, g)'
      OBVIOUS
    <2>1. Booking(v, g)
      BY <1>1 DEF RequestOK
    <2>2. Ledger!Opens(g)' <=> Ledger!Opens(g)
      BY DEF Ledger!Opens
    <2> QED
      BY <1>1, <1>2, <1>6, <2>1, <2>2 DEF Booking, AtTrade
  <1>10. \A h \in imp[v].imported :
            h \in DOMAIN outcome' /\ outcome'[h] = "ok" /\ Chained(h)'
    BY <1>1, <1>2 DEF RequestOK, Grows
  <1>11. \A h \in imp[v].file \ imp[v].failed :
            h \in imp[v].todo \/ KeysOf(h) \subseteq StoredKeys'
    BY <1>1, <1>2 DEF RequestOK
  <1>12. imp[v] \in Request /\ (imp[v].pc = "idle" => imp[v].todo = {})
    BY <1>1 DEF RequestOK
  <1> QED
    BY <1>1, <1>4, <1>7, <1>8, <1>9, <1>10, <1>11, <1>12 DEF RequestOK, KeysOf, Request

\* What is left to show of a step.
LEMMA StepKeepsPipe ==
    ASSUME PipeInv, NEW w \in Worker, Grows(w), ChainsOK', LedgerOK',
           imp' = [v \in Worker |-> imp'[v]], RequestOK(w)',
           tradeRows' = tradeRows, imp'[w].cur \in {None, imp[w].cur},
           \A g \in DOMAIN outcome' : g \in DOMAIN outcome \/ (g \in tradeRows /\ Whole(g)),
           LedgerRowsOK'
    PROVE  PipeInv'
  <1>1. \A v \in Worker : RequestOK(v)'
    BY OthersKeep
  <1>2. \A g : Whole(g) => Whole(g)'
    BY Monotone DEF Grows
  <1>3. \A v \in Worker : imp'[v].cur # None => imp'[v].cur = imp[v].cur
    BY DEF Grows
  <1>4. TradeRowsOK'
    BY <1>2, <1>3 DEF PipeInv, TradeRowsOK
  <1> QED
    BY <1>1, <1>4 DEF PipeInv, RequestsOK

\* A step that writes neither lots nor positions.
LEMMA LedgerRowsStill ==
    ASSUME PipeInv, CP!OwnersStay, txRows \subseteq txRows', UNCHANGED <<lots, positions>>
    PROVE  LedgerRowsOK'
  BY Monotone DEF PipeInv, LedgerRowsOK

-----------------------------------------------------------------------------
(* The steps of the importer.                                               *)

LEMMA FailuresBounded ==
    ASSUME PipeInv, MayFail
    PROVE  failures + 1 \in 0..MaxFailures /\ hookFailures + 1 \in 0..MaxFailures
  <1>1. failures \in 0..MaxFailures /\ hookFailures \in 0..MaxFailures
    BY DEF PipeInv, ChainsOK, LedgerOK, CP!ChainInv, LP!TypeInv, LP!TypeOK
  <1> QED
    BY <1>1, BoundAssumption DEF MayFail

\* The services and their tables stay as they are.
ServicesStill == UNCHANGED <<txRows, chainVars, ledgerVars>> /\ failures' \in 0..MaxFailures

LEMMA FailuresStill ==
    ASSUME PipeInv, failures' = failures
    PROVE  failures' \in 0..MaxFailures
  BY DEF PipeInv, ChainsOK, CP!ChainInv

LEMMA ImporterGrows ==
    ASSUME PipeInv, ServicesStill, NEW w \in Worker, NEW job, imp' = [imp EXCEPT ![w] = job],
           tradeRows \subseteq tradeRows'
    PROVE  /\ Grows(w) /\ ChainsOK' /\ LedgerOK' /\ LedgerRowsOK'
           /\ imp' = [v \in Worker |-> imp'[v]] /\ imp'[w] = job
  <1>1. ChainsOK' /\ CP!OwnersStay
    BY ChainsStill DEF PipeInv, ServicesStill
  <1>2. LedgerOK'
    BY LedgerStill DEF PipeInv, ServicesStill
  <1>3. imp = [v \in Worker |-> imp[v]]
    BY DEF PipeInv, RequestsOK
  <1>4. /\ imp' = [v \in Worker |-> imp'[v]] /\ imp'[w] = job
        /\ \A v \in Worker : v # w => imp'[v] = imp[v]
    BY <1>3
  <1>5. LedgerRowsOK'
    BY <1>1, LedgerRowsStill DEF ServicesStill, ledgerVars
  <1> QED
    BY <1>1, <1>2, <1>4, <1>5 DEF Grows, ServicesStill, chainVars, ledgerVars

\* A request that is at no trade.
LEMMA Settled ==
    ASSUME PipeInv, ServicesStill, NEW w \in Worker, NEW job, imp' = [imp EXCEPT ![w] = job],
           tradeRows' = tradeRows, Resting(w), job \in Request, job.pc \notin AtTrade,
           job.cur = None, job.pc = "idle" => job.todo = {},
           \A g \in job.imported : g \in DOMAIN outcome /\ outcome[g] = "ok" /\ Chained(g),
           \A g \in job.file \ job.failed : g \in job.todo \/ KeysOf(g) \subseteq StoredKeys
    PROVE  PipeInv'
  <1>1. /\ Grows(w) /\ ChainsOK' /\ LedgerOK' /\ LedgerRowsOK'
        /\ imp' = [v \in Worker |-> imp'[v]] /\ imp'[w] = job
    BY ImporterGrows
  <1>2. /\ \A g : Chained(g) => Chained(g)'
        /\ StoredKeys \subseteq StoredKeys'
    BY <1>1, Monotone DEF Grows
  <1>3. Resting(w)' /\ outcome' = outcome
    BY DEF Resting, ServicesStill, chainVars, ledgerVars
  <1>4. RequestOK(w)'
    <2>1. \A g \in job.imported : g \in DOMAIN outcome' /\ outcome'[g] = "ok" /\ Chained(g)'
      BY <1>2, <1>3
    <2>2. \A g \in job.file \ job.failed : g \in job.todo \/ KeysOf(g) \subseteq StoredKeys'
      BY <1>2
    <2> QED
      BY <1>1, <1>3, <2>1, <2>2 DEF RequestOK, AtTrade, KeysOf, Request
  <1> QED
    BY <1>1, <1>3, <1>4, StepKeepsPipe

\* A request at no trade, or whose calls have returned, is at rest.
LEMMA RestsAt ==
    ASSUME PipeInv, NEW w \in Worker
    PROVE  /\ imp[w].pc \notin AtTrade \cup {"chain", "hook"} => Resting(w)
           /\ imp[w].pc \in {"idle", "upsert", "next"} => Resting(w) /\ imp[w].cur = None
           /\ imp[w].pc = "rows" => Resting(w)
           /\ imp[w].pc = "chain" /\ call[w].pc = "idle" => Resting(w)
           /\ imp[w].pc = "hook" /\ hook[w].pc = "idle" => Resting(w)
  BY DEF PipeInv, RequestsOK, RequestOK, AtTrade, Writing, Chaining, Booking, Resting

LEMMA FailedKeeps ==
    ASSUME PipeInv, ServicesStill, NEW w \in Worker, NEW g \in Trade, Failed(w, g),
           tradeRows' = tradeRows, Resting(w)
    PROVE  PipeInv'
  <1>1. RequestOK(w) /\ imp[w] \in Request
    BY DEF PipeInv, RequestsOK, RequestOK
  <1> PICK job : job = [imp[w] EXCEPT !.pc = "next", !.cur = None, !.row = 0,
                                      !.todo = @ \ {g}, !.failed = @ \cup {g}]
    OBVIOUS
  <1>2. imp' = [imp EXCEPT ![w] = job]
    BY DEF Failed
  <1>3. /\ job \in Request /\ job.pc = "next" /\ job.cur = None
        /\ job.todo = imp[w].todo \ {g} /\ job.failed = imp[w].failed \cup {g}
        /\ job.file = imp[w].file /\ job.imported = imp[w].imported
    BY <1>1 DEF Request, ImportPC
  <1>4. \A h \in job.imported : h \in DOMAIN outcome /\ outcome[h] = "ok" /\ Chained(h)
    BY <1>1, <1>3 DEF RequestOK
  <1>5. \A h \in job.file \ job.failed : h \in job.todo \/ KeysOf(h) \subseteq StoredKeys
    BY <1>1, <1>3 DEF RequestOK
  <1>6. job.pc \notin AtTrade /\ (job.pc = "idle" => job.todo = {})
    BY <1>3 DEF AtTrade
  <1> QED
    BY <1>2, <1>3, <1>4, <1>5, <1>6, Settled

LEMMA KeysFinite ==
    ASSUME NEW f \in SUBSET Trade
    PROVE  IsFiniteSet(UNION {KeysOf(g) : g \in f})
  <1>1. IsFiniteSet(f)
    BY TradeAssumption, FS_Subset
  <1>2. ASSUME NEW g \in f
        PROVE  IsFiniteSet(KeysOf(g))
    <2> PICK n : n = Len(Rows[g])
      OBVIOUS
    <2>1. n \in Nat
      BY RowFacts
    <2>2. \A m \in Nat : IsFiniteSet(1..m)
      BY FS_Interval
    <2>3. IsFiniteSet({TradeId[g]})
      BY FS_Singleton
    <2>4. IsFiniteSet({TradeId[g]} \X (1..n))
      BY <2>1, <2>2, <2>3, FS_Product
    <2>5. KeysOf(g) \subseteq {TradeId[g]} \X (1..n)
      BY DEF KeysOf
    <2> QED
      BY <2>4, <2>5, FS_Subset
  <1> DEFINE S == {KeysOf(g) : g \in f}
             K == [g \in f |-> KeysOf(g)]
  <1>3. K \in Surjection(f, S)
    BY DEF Surjection
  <1>4. IsFiniteSet(S)
    BY <1>1, <1>3, FS_Surjection
  <1> QED
    BY <1>2, <1>4, FS_UNION

LEMMA ImportKeeps ==
    ASSUME PipeInv, NEW w \in Worker, NEW f \in File, Import(w, f)
    PROVE  PipeInv'
  <1> PICK n : n = Cardinality((UNION {KeysOf(g) : g \in f}) \cap StoredKeys)
    OBVIOUS
  <1>1. f \subseteq Trade /\ n \in Nat
    <2>1. f \subseteq Trade
      BY FileAssumption
    <2>2. IsFiniteSet((UNION {KeysOf(g) : g \in f}) \cap StoredKeys)
      BY <2>1, KeysFinite, FS_Intersection
    <2> QED
      BY <2>1, <2>2, FS_CardinalityType
  <1> PICK pc : pc = IF Todo(f) = {} THEN "idle" ELSE "upsert"
    OBVIOUS
  <1> PICK job : job = [IdleImport EXCEPT !.pc = pc, !.file = f, !.todo = Todo(f),
                                          !.skipped = n]
    OBVIOUS
  <1>2. imp' = [imp EXCEPT ![w] = job]
    BY DEF Import
  <1>7. /\ job.pc = pc /\ job.file = f /\ job.todo = Todo(f) /\ job.skipped = n
        /\ job.cur = None /\ job.row = 0 /\ job.imported = {} /\ job.failed = {}
        /\ job = [pc |-> pc, file |-> f, todo |-> job.todo, cur |-> None, row |-> 0,
                  imported |-> {}, failed |-> {}, skipped |-> n]
    BY DEF IdleImport
  <1>3. ServicesStill /\ tradeRows' = tradeRows /\ Resting(w)
    BY FailuresStill, RestsAt DEF Import, ServicesStill
  <1>4. job \in Request /\ job.pc \notin AtTrade
    <2>1. /\ f \in SUBSET Trade /\ Todo(f) \in SUBSET Trade
          /\ {} \in SUBSET Trade /\ None \in Trade \cup {None} /\ 0 \in Nat
      BY <1>1 DEF Todo
    <2>2. pc \in ImportPC /\ pc \notin AtTrade
      BY DEF ImportPC, AtTrade
    <2> HIDE DEF Todo, IdleImport
    <2> QED
      BY <1>1, <1>7, <2>1, <2>2 DEF Request
  <1>5. \A g \in job.file \ job.failed : g \in job.todo \/ KeysOf(g) \subseteq StoredKeys
    BY <1>7 DEF Todo
  <1>6. job.cur = None /\ (job.pc = "idle" => job.todo = {}) /\ job.imported = {}
    BY <1>7
  <1> QED
    BY <1>2, <1>3, <1>4, <1>5, <1>6, Settled

LEMMA BetweenTradesKeeps ==
    ASSUME PipeInv, NEW w \in Worker, UpsertInstruments(w) \/ Return(w)
    PROVE  PipeInv'
  <1>1. RequestOK(w) /\ imp[w] \in Request
    BY DEF PipeInv, RequestsOK, RequestOK
  <1> PICK job : \/ UpsertInstruments(w) /\ job = [imp[w] EXCEPT !.pc = "next"]
                 \/ Return(w) /\ job = [imp[w] EXCEPT !.pc = "idle"]
    OBVIOUS
  <1>2. imp' = [imp EXCEPT ![w] = job]
    BY DEF UpsertInstruments, Return
  <1>3. /\ ServicesStill /\ tradeRows' = tradeRows /\ Resting(w)
        /\ imp[w].pc \in {"upsert", "next"} /\ imp[w].cur = None
    BY FailuresStill, RestsAt DEF UpsertInstruments, Return, ServicesStill
  <1>4. /\ job \in Request /\ job.pc \in {"next", "idle"} /\ job.cur = imp[w].cur
        /\ job.todo = imp[w].todo /\ job.failed = imp[w].failed
        /\ job.file = imp[w].file /\ job.imported = imp[w].imported
    BY <1>1 DEF Request, ImportPC
  <1>5. job.pc = "idle" => job.todo = {}
    BY <1>1, <1>4 DEF Return, UpsertInstruments, Request
  <1> QED
    BY <1>1, <1>2, <1>3, <1>4, <1>5, Settled DEF RequestOK, AtTrade

LEMMA TradeFailsKeeps ==
    ASSUME PipeInv, NEW w \in Worker, MixedUnderlying(w) \/ DuplicateTrade(w) \/ ChainFailed(w)
    PROVE  PipeInv'
  <1>1. RequestOK(w) /\ imp[w] \in Request /\ tradeRows \subseteq Trade
    BY DEF PipeInv, RequestsOK, RequestOK, TradeRowsOK
  <1>2. ServicesStill /\ tradeRows' = tradeRows /\ Resting(w)
    BY FailuresStill, RestsAt DEF MixedUnderlying, DuplicateTrade, ChainFailed, ServicesStill
  <1>3. CASE MixedUnderlying(w) \/ DuplicateTrade(w)
    <2>1. PICK g \in imp[w].todo : Failed(w, g)
      BY <1>3 DEF MixedUnderlying, DuplicateTrade, Earliest
    <2>2. g \in Trade
      BY <1>1 DEF Request
    <2> QED
      BY <1>2, <2>1, <2>2, FailedKeeps
  <1>4. CASE ChainFailed(w)
    <2>1. Failed(w, imp[w].cur) /\ imp[w].cur \in Trade
      BY <1>1, <1>4 DEF ChainFailed, RequestOK, AtTrade
    <2> QED
      BY <1>2, <2>1, FailedKeeps
  <1> QED
    BY <1>3, <1>4

LEMMA StatementFailsKeeps ==
    ASSUME PipeInv, NEW w \in Worker, StatementFails(w)
    PROVE  PipeInv'
  <1>1. RequestOK(w) /\ imp[w] \in Request /\ tradeRows \subseteq Trade
    BY DEF PipeInv, RequestsOK, RequestOK, TradeRowsOK
  <1>2. /\ ServicesStill /\ tradeRows' = tradeRows
        /\ imp[w].pc \in {"upsert", "next", "rows"} /\ Resting(w)
    BY FailuresBounded, RestsAt DEF StatementFails, ServicesStill
  <1>3. CASE imp' = [imp EXCEPT ![w] = IdleImport]
    <2>1. /\ IdleImport \in Request /\ IdleImport.pc = "idle" /\ IdleImport.cur = None
          /\ IdleImport.todo = {} /\ IdleImport.imported = {} /\ IdleImport.file = {}
      BY DEF IdleImport, Request, ImportPC
    <2> QED
      BY <1>2, <1>3, <2>1, Settled DEF AtTrade
  <1>4. CASE imp[w].pc = "next" /\ \E g \in imp[w].todo : Failed(w, g)
    <2>1. PICK g \in imp[w].todo : Failed(w, g)
      BY <1>4
    <2>2. g \in Trade
      BY <1>1 DEF Request
    <2> QED
      BY <1>2, <2>1, <2>2, FailedKeeps
  <1>5. CASE imp[w].pc = "rows" /\ Failed(w, imp[w].cur)
    <2>1. imp[w].cur \in Trade
      BY <1>1, <1>5 DEF RequestOK, AtTrade
    <2> QED
      BY <1>2, <1>5, <2>1, FailedKeeps
  <1> QED
    BY <1>3, <1>4, <1>5 DEF StatementFails, Earliest

\* A trade that is whole has the keys the export gives it: its rows are the
\* rows of the file, each once.
LEMMA WholeIsStored ==
    ASSUME NEW g \in Trade, Whole(g)
    PROVE  KeysOf(g) \subseteq StoredKeys
  <1> SUFFICES ASSUME NEW k \in 1..Len(Rows[g])
               PROVE  <<TradeId[g], k>> \in StoredKeys
    BY DEF KeysOf
  <1>1. PICK i \in 1..Len(Rows[g]) : ClosingFirst[g][i] = k
    BY ClosingFirstPermutes
  <1>2. <<g, i>> \in txRows /\ TxKey(<<g, i>>[1], <<g, i>>[2]) = <<TradeId[g], k>>
    BY <1>1 DEF Whole, TxKey
  <1> QED
    BY <1>2 DEF StoredKeys

LEMMA HookReturnedKeeps ==
    ASSUME PipeInv, NEW w \in Worker, HookReturned(w)
    PROVE  PipeInv'
  <1> PICK g : g = imp[w].cur
    OBVIOUS
  <1>1. RequestOK(w) /\ imp[w] \in Request /\ g \in Trade /\ Booking(w, g)
    BY DEF PipeInv, RequestsOK, RequestOK, TradeRowsOK, HookReturned, AtTrade
  <1>2. ServicesStill /\ tradeRows' = tradeRows /\ Resting(w)
    BY FailuresStill, RestsAt DEF HookReturned, ServicesStill
  <1>3. CASE outcome[g] # "ok"
    <2>1. Failed(w, g)
      BY <1>3 DEF HookReturned
    <2> QED
      BY <1>1, <1>2, <2>1, FailedKeeps
  <1>4. CASE outcome[g] = "ok"
    <2> PICK job : job = [imp[w] EXCEPT !.pc = "next", !.cur = None, !.row = 0,
                                        !.todo = @ \ {g}, !.imported = @ \cup {g}]
      OBVIOUS
    <2>1. imp' = [imp EXCEPT ![w] = job]
      BY <1>4 DEF HookReturned, Imported
    <2>2. /\ job \in Request /\ job.pc = "next" /\ job.cur = None
          /\ job.todo = imp[w].todo \ {g} /\ job.failed = imp[w].failed
          /\ job.file = imp[w].file /\ job.imported = imp[w].imported \cup {g}
      BY <1>1 DEF Request, ImportPC
    <2>3. g \in DOMAIN outcome /\ Chained(g) /\ Whole(g)
      BY <1>1 DEF Booking, PipeInv, TradeRowsOK
    <2>4. KeysOf(g) \subseteq StoredKeys
      BY <1>1, <2>3, WholeIsStored
    <2>5. \A h \in job.imported : h \in DOMAIN outcome /\ outcome[h] = "ok" /\ Chained(h)
      BY <1>1, <1>4, <2>2, <2>3 DEF RequestOK
    <2>6. \A h \in job.file \ job.failed : h \in job.todo \/ KeysOf(h) \subseteq StoredKeys
      BY <1>1, <2>2, <2>4 DEF RequestOK
    <2>7. job.pc \notin AtTrade /\ (job.pc = "idle" => job.todo = {})
      BY <2>2 DEF AtTrade
    <2> QED
      BY <1>2, <2>1, <2>2, <2>5, <2>6, <2>7, Settled
  <1> QED
    BY <1>3, <1>4

LEMMA CreateTradeKeeps ==
    ASSUME PipeInv, NEW w \in Worker, CreateTrade(w)
    PROVE  PipeInv'
  <1>1. PICK g \in imp[w].todo :
           /\ ~TradeStored(g) /\ tradeRows' = tradeRows \cup {g}
           /\ imp' = [imp EXCEPT ![w].pc = "rows", ![w].cur = g, ![w].row = 1]
    BY DEF CreateTrade, Earliest
  <1>2. RequestOK(w) /\ imp[w] \in Request /\ g \in Trade /\ Resting(w)
    BY <1>1, RestsAt DEF PipeInv, RequestsOK, RequestOK, Request, CreateTrade
  <1> PICK job : job = [imp[w] EXCEPT !.pc = "rows", !.cur = g, !.row = 1]
    OBVIOUS
  <1>3. imp' = [imp EXCEPT ![w] = job]
    BY <1>1
  <1>4. /\ job \in Request /\ job.pc = "rows" /\ job.cur = g /\ job.row = 1
        /\ job.todo = imp[w].todo /\ job.failed = imp[w].failed
        /\ job.file = imp[w].file /\ job.imported = imp[w].imported
    BY <1>2 DEF Request, ImportPC
  <1>5. ServicesStill
    BY FailuresStill DEF CreateTrade, ServicesStill
  <1>6. /\ Grows(w) /\ ChainsOK' /\ LedgerOK' /\ LedgerRowsOK'
        /\ imp' = [v \in Worker |-> imp'[v]] /\ imp'[w] = job
    BY <1>1, <1>3, <1>5, ImporterGrows
  <1>7. g \notin tradeRows /\ g \notin DOMAIN outcome
    BY <1>1 DEF TradeStored, PipeInv, TradeRowsOK
  <1>8. Resting(w)' /\ outcome' = outcome /\ txRows' = txRows
    BY <1>2, <1>5 DEF Resting, ServicesStill, chainVars, ledgerVars
  <1>9. RequestOK(w)'
    <2>1. (\A h : Chained(h) => Chained(h)') /\ StoredKeys \subseteq StoredKeys'
      BY <1>6, Monotone DEF Grows
    <2>2. \A h \in job.imported : h \in DOMAIN outcome' /\ outcome'[h] = "ok" /\ Chained(h)'
      BY <1>2, <1>4, <1>8, <2>1 DEF RequestOK
    <2>3. \A h \in job.file \ job.failed : h \in job.todo \/ KeysOf(h) \subseteq StoredKeys'
      BY <1>2, <1>4, <2>1 DEF RequestOK
    <2>4. Writing(w, g)'
      <3>1. Len(Rows[g]) \in Nat \ {0}
        BY <1>2, RowFacts
      <3>2. 1 \in 1..(Len(Rows[g]) + 1) /\ \A k \in 1..Len(Rows[g]) : ~(k < 1)
        BY <3>1
      <3> QED
        BY <1>4, <1>6, <1>7, <1>8, <3>2 DEF Writing
    <2>5. g \in tradeRows'
      BY <1>1
    <2> QED
      BY <1>4, <1>6, <2>2, <2>3, <2>4, <2>5 DEF RequestOK, AtTrade, KeysOf, Request
  <1>10. \A v \in Worker : v # w => imp'[v].cur = imp[v].cur /\ imp[v].cur # g
    <2>1. \A v \in Worker : imp[v].cur \in tradeRows \cup {None}
      BY DEF PipeInv, RequestsOK, RequestOK
    <2> QED
      BY <1>2, <1>6, <1>7, <2>1, NoneAssumption DEF Grows
  <1>11. TradeRowsOK'
    <2>1. tradeRows' \subseteq Trade
      BY <1>1, <1>2 DEF PipeInv, TradeRowsOK
    <2>2. \A h, i \in tradeRows' : TradeId[h] = TradeId[i] => h = i
      BY <1>1 DEF PipeInv, TradeRowsOK, TradeStored
    <2>3. \A u, v \in Worker : imp'[u].cur = imp'[v].cur /\ imp'[u].cur # None => u = v
      <3> SUFFICES ASSUME NEW u \in Worker, NEW v \in Worker, u # v, imp'[u].cur = imp'[v].cur
                   PROVE  imp'[u].cur = None
        OBVIOUS
      <3>1. imp'[w].cur = g
        BY <1>4, <1>6
      <3>2. u # w /\ v # w
        BY <1>10, <3>1
      <3> QED
        BY <1>10, <3>2 DEF PipeInv, TradeRowsOK
    <2>4. \A h \in DOMAIN outcome' : h \in tradeRows' /\ Whole(h)'
      BY <1>1, <1>8 DEF PipeInv, TradeRowsOK, Whole
    <2> QED
      BY <2>1, <2>2, <2>3, <2>4 DEF TradeRowsOK
  <1>12. \A v \in Worker : RequestOK(v)'
    BY <1>6, <1>9, OthersKeep
  <1> QED
    BY <1>6, <1>11, <1>12 DEF PipeInv, RequestsOK

\* The rows of g are those the chain service reads.
LEMMA ChainRows ==
    ASSUME NEW g \in Trade
    PROVE  /\ CP!RowsOf(g) = {g} \X (1..Len(Rows[g]))
           /\ CP!Complete(g) <=> Whole(g)
  <1>1. Len(ChainLegs[g]) = Len(Rows[g]) /\ Len(Rows[g]) # 0
    BY LegFacts, RowFacts
  <1>2. ChainLegs[g] # <<>>
    BY <1>1
  <1>3. CP!RowsOf(g) = {g} \X (1..Len(Rows[g]))
    BY <1>1 DEF CP!RowsOf
  <1> QED
    BY <1>2, <1>3 DEF CP!Complete, Whole

LEMMA CreateTransactionKeeps ==
    ASSUME PipeInv, NEW w \in Worker, CreateTransaction(w)
    PROVE  PipeInv'
  <1> PICK g, r : g = imp[w].cur /\ r = imp[w].row
    OBVIOUS
  <1>1. /\ imp[w].pc = "rows" /\ r <= Len(Rows[g]) /\ txRows' = txRows \cup {<<g, r>>}
        /\ imp' = [imp EXCEPT ![w].row = @ + 1]
        /\ UNCHANGED <<tradeRows, chainVars, failures, ledgerVars, imports>>
    BY DEF CreateTransaction
  <1>2. RequestOK(w) /\ imp[w] \in Request /\ g \in Trade /\ Writing(w, g)
    BY <1>1 DEF PipeInv, RequestsOK, RequestOK, TradeRowsOK, AtTrade
  <1>3. Len(Rows[g]) \in Nat /\ r \in 1..Len(Rows[g]) /\ r + 1 \in 1..(Len(Rows[g]) + 1)
    BY <1>1, <1>2, RowFacts DEF Writing
  <1> PICK job : job = [imp[w] EXCEPT !.row = r + 1]
    OBVIOUS
  <1>4. imp' = [imp EXCEPT ![w] = job]
    BY <1>1
  <1>5. /\ job \in Request /\ job.pc = "rows" /\ job.cur = g /\ job.row = r + 1
        /\ job.todo = imp[w].todo /\ job.failed = imp[w].failed
        /\ job.file = imp[w].file /\ job.imported = imp[w].imported
    <2>1. r + 1 \in Nat
      BY <1>3
    <2> QED
      BY <1>1, <1>2, <2>1 DEF Request
  <1>6. ChainsOK' /\ CP!OwnersStay
    <2>1. <<g, r>> \in CP!RowsOf(g)
      BY <1>2, <1>3, ChainRows
    <2>2. {<<g, r>>} \subseteq UNION {CP!RowsOf(h) : h \in Trade}
      BY <1>2, <2>1
    <2>3. failures' \in 0..MaxFailures
      BY <1>1, FailuresStill
    <2> QED
      BY <1>1, <2>2, <2>3, RowsKeepChains DEF PipeInv
  <1>7. LedgerOK' /\ LedgerRowsOK'
    BY <1>1, <1>6, LedgerStill, LedgerRowsStill DEF PipeInv, ledgerVars
  <1>8. imp' = [v \in Worker |-> imp'[v]] /\ imp'[w] = job
    BY <1>4 DEF PipeInv, RequestsOK
  <1>9. Grows(w)
    BY <1>1, <1>4, <1>6 DEF Grows, chainVars, ledgerVars, PipeInv, RequestsOK
  <1>10. Resting(w)' /\ outcome' = outcome
    BY <1>1, <1>2 DEF Writing, Resting, chainVars, ledgerVars
  <1>11. Writing(w, g)'
    <2>1. \A k \in 1..Len(Rows[g]) : k < r + 1 => <<g, k>> \in txRows'
      BY <1>1, <1>2, <1>3 DEF Writing
    <2> QED
      BY <1>2, <1>3, <1>5, <1>8, <1>10, <2>1 DEF Writing
  <1>12. RequestOK(w)'
    <2>1. (\A h : Chained(h) => Chained(h)') /\ StoredKeys \subseteq StoredKeys'
      BY <1>9, Monotone DEF Grows
    <2>2. \A h \in job.imported : h \in DOMAIN outcome' /\ outcome'[h] = "ok" /\ Chained(h)'
      BY <1>2, <1>5, <1>10, <2>1 DEF RequestOK
    <2>3. \A h \in job.file \ job.failed : h \in job.todo \/ KeysOf(h) \subseteq StoredKeys'
      BY <1>2, <1>5, <2>1 DEF RequestOK
    <2>4. g \in tradeRows'
      BY <1>1, <1>2 DEF RequestOK, AtTrade
    <2> QED
      BY <1>5, <1>8, <1>11, <2>2, <2>3, <2>4 DEF RequestOK, AtTrade, KeysOf, Request
  <1> QED
    BY <1>1, <1>5, <1>6, <1>7, <1>8, <1>9, <1>10, <1>12, StepKeepsPipe

-----------------------------------------------------------------------------
(* The steps of the services, and the calls.                                *)

\* A request that stays with its trade.
LEMMA SameTradeKeeps ==
    ASSUME PipeInv, NEW w \in Worker, Grows(w), ChainsOK', LedgerOK', LedgerRowsOK',
           tradeRows' = tradeRows, imp[w].pc \in AtTrade,
           NEW pc \in AtTrade, imp' = [imp EXCEPT ![w].pc = pc],
           NEW g, g = imp[w].cur,
           pc = "rows" => Writing(w, g)', pc = "chain" => Chaining(w, g)',
           pc = "hook" => Booking(w, g)',
           \A h \in DOMAIN outcome' : h \in DOMAIN outcome \/ (h \in tradeRows /\ Whole(h))
    PROVE  PipeInv'
  <1>1. RequestOK(w) /\ imp[w] \in Request
    BY DEF PipeInv, RequestsOK, RequestOK
  <1> PICK job : job = [imp[w] EXCEPT !.pc = pc]
    OBVIOUS
  <1>2. imp' = [imp EXCEPT ![w] = job]
    OBVIOUS
  <1>3. imp' = [v \in Worker |-> imp'[v]] /\ imp'[w] = job
    BY <1>2 DEF PipeInv, RequestsOK
  <1>4. /\ job \in Request /\ job.pc = pc /\ job.cur = g
        /\ job.todo = imp[w].todo /\ job.failed = imp[w].failed
        /\ job.file = imp[w].file /\ job.imported = imp[w].imported
    BY <1>1 DEF Request, ImportPC, AtTrade
  <1>5. RequestOK(w)'
    <2>1. (\A h : Chained(h) => Chained(h)') /\ StoredKeys \subseteq StoredKeys'
      BY Monotone DEF Grows
    <2>2. \A h \in job.imported : h \in DOMAIN outcome' /\ outcome'[h] = "ok" /\ Chained(h)'
      BY <1>1, <1>4, <2>1 DEF RequestOK, Grows
    <2>3. \A h \in job.file \ job.failed : h \in job.todo \/ KeysOf(h) \subseteq StoredKeys'
      BY <1>1, <1>4, <2>1 DEF RequestOK
    <2>4. g \in tradeRows' /\ pc # "idle"
      BY <1>1 DEF RequestOK, AtTrade
    <2>5. /\ pc = "rows" => Writing(w, job.cur)'
          /\ pc = "chain" => Chaining(w, job.cur)'
          /\ pc = "hook" => Booking(w, job.cur)'
      BY <1>4
    <2>6. /\ imp'[w] \in Request /\ imp'[w].pc \in AtTrade /\ imp'[w].pc # "idle"
          /\ imp'[w].cur \in tradeRows'
      BY <1>3, <1>4, <2>4
    <2>7. /\ imp'[w].pc = "rows" => Writing(w, imp[w].cur)'
          /\ imp'[w].pc = "chain" => Chaining(w, imp[w].cur)'
          /\ imp'[w].pc = "hook" => Booking(w, imp[w].cur)'
      BY <1>3, <1>4, <2>5
    <2>8. /\ \A h \in imp'[w].imported : h \in DOMAIN outcome' /\ outcome'[h] = "ok" /\ Chained(h)'
          /\ \A h \in imp'[w].file \ imp'[w].failed :
                h \in imp'[w].todo \/ KeysOf(h) \subseteq StoredKeys'
      BY <1>3, <2>2, <2>3
    <2> QED
      BY <2>6, <2>7, <2>8 DEF RequestOK, KeysOf, Request
  <1> QED
    BY <1>3, <1>4, <1>5, StepKeepsPipe

LEMMA ChainStepWritesNoRow ==
    ASSUME NEW w, Chains!ChainStep(w)
    PROVE  txRows' = txRows
  BY DEF Chains!ChainStep, Chains!Lookup, Chains!ListTransactions, Chains!AttributeChain,
         Chains!Unattributable, Chains!StartChain, Chains!ListChainLinks,
         Chains!CreateChainLink, Chains!ChainLinkRejected, Chains!CheckOpen,
         Chains!UpdateChainClosed, Chains!GetChainByID, Chains!FindStockChain,
         Chains!CreateStockChain, Chains!tables

LEMMA CallChainerKeeps ==
    ASSUME PipeInv, NEW w \in Worker, CallChainer(w)
    PROVE  PipeInv'
  <1> PICK g : g = imp[w].cur
    OBVIOUS
  <1>1. /\ imp[w].pc = "rows" /\ imp[w].row > Len(Rows[g])
        /\ imp' = [imp EXCEPT ![w].pc = "chain"]
        /\ Chains!ProcessTrade(w, g)
        /\ UNCHANGED <<tradeRows, txRows, ledgerVars, imports>>
    BY DEF CallChainer
  <1>2. RequestOK(w) /\ imp[w] \in Request /\ g \in Trade /\ Writing(w, g)
    BY <1>1 DEF PipeInv, RequestsOK, RequestOK, TradeRowsOK, AtTrade
  <1>3. Whole(g)
    <2>1. Len(Rows[g]) \in Nat /\ imp[w].row \in Nat
      BY <1>2, RowFacts DEF Request
    <2>2. \A k \in 1..Len(Rows[g]) : k < imp[w].row
      BY <1>1, <2>1
    <2> QED
      BY <1>2, <2>2 DEF Whole, Writing
  <1>4. CP!Complete(g)'
    BY <1>1, <1>2, <1>3, ChainRows DEF CP!Complete, CP!RowsOf
  <1>5. ASSUME NEW v \in Worker
        PROVE  ~CP!Holds(v, g)
    <2>1. RequestOK(v) /\ (call[v].pc = "idle" => call[v].todo = {})
      BY DEF PipeInv, RequestsOK, ChainsOK, CP!ChainInv, CP!JobOK
    <2>2. call[v].pc # "idle" => imp[v].pc = "chain"
      BY <2>1 DEF RequestOK, AtTrade, Writing, Booking, Resting
    <2>3. call[v].pc # "idle" => call[v].trade = imp[v].cur /\ call[v].todo = {}
      BY <2>1, <2>2 DEF RequestOK, Chaining
    <2>4. imp[v].cur = g => v = w
      BY <1>2, NoneAssumption DEF PipeInv, TradeRowsOK
    <2> QED
      BY <1>1, <2>1, <2>2, <2>3, <2>4 DEF CP!Holds
  <1>6. /\ ChainsOK' /\ CP!OwnersStay /\ call[w].pc = "idle"
        /\ call' = [call EXCEPT ![w] = CP!Begin(CP!IdleJob, g)]
    BY <1>1, <1>2, <1>4, <1>5, CallKeepsChains DEF PipeInv
  <1>7. /\ call'[w].pc = "lookup" /\ call'[w].trade = g /\ call'[w].todo = {}
        /\ \A v \in Worker : v # w => call'[v] = call[v]
    BY <1>6 DEF CP!Begin, CP!IdleJob, PipeInv, ChainsOK, CP!ChainInv
  <1>8. LedgerOK' /\ LedgerRowsOK'
    BY <1>1, <1>6, LedgerStill, LedgerRowsStill DEF PipeInv, ledgerVars
  <1>9. Grows(w)
    BY <1>1, <1>6, <1>7 DEF Grows, ledgerVars, PipeInv, RequestsOK
  <1>10. Chaining(w, g)'
    BY <1>1, <1>2, <1>3, <1>7 DEF Chaining, Writing, Resting, Whole, ledgerVars
  <1> QED
    BY <1>1, <1>6, <1>8, <1>9, <1>10, SameTradeKeeps DEF AtTrade, ledgerVars

LEMMA ChainStepKeeps ==
    ASSUME PipeInv, NEW w \in Worker, Chains!ChainStep(w),
           UNCHANGED <<tradeRows, ledgerVars, imp, imports>>
    PROVE  PipeInv'
  <1>1. /\ ChainsOK' /\ call[w].pc # "idle" /\ CP!CallMoves(w) /\ CP!OwnersStay
    BY ChainStepMoves DEF PipeInv
  <1>2. txRows' = txRows
    BY ChainStepWritesNoRow
  <1> PICK g : g = imp[w].cur
    OBVIOUS
  <1>3. RequestOK(w) /\ imp[w].pc = "chain" /\ Chaining(w, g)
    BY <1>1 DEF PipeInv, RequestsOK, RequestOK, AtTrade, Writing, Booking, Resting
  <1>4. LedgerOK' /\ LedgerRowsOK'
    BY <1>1, <1>2, LedgerStill, LedgerRowsStill DEF PipeInv, ledgerVars
  <1>5. Grows(w)
    BY <1>1, <1>2 DEF Grows, CP!CallMoves, ledgerVars
  <1>6. Chaining(w, g)'
    <2>1. hook'[w].pc = "idle" /\ g \notin DOMAIN outcome' /\ Whole(g)'
      BY <1>2, <1>3 DEF Chaining, Whole, ledgerVars
    <2>2. call[w].trade = g /\ call[w].todo = {}
      BY <1>1, <1>3 DEF Chaining
    <2>3. CASE call'[w].pc = "idle"
      <3> PICK c : c = call'[w].answer
        OBVIOUS
      <3>1. CP!Answers(g, c)'
        BY <1>1, <2>2, <2>3 DEF CP!CallMoves
      <3>2. CP!Answers(g, call[w].answer)'
        BY <3>1
      <3> QED
        BY <2>1, <2>3, <3>2 DEF Chaining
    <2>4. CASE call'[w].pc # "idle"
      BY <1>1, <2>1, <2>2, <2>4 DEF Chaining, CP!CallMoves
    <2> QED
      BY <2>3, <2>4
  <1>7. imp' = [imp EXCEPT ![w].pc = "chain"]
    BY <1>3 DEF PipeInv, RequestsOK, RequestOK, Request
  <1> QED
    BY <1>1, <1>3, <1>4, <1>5, <1>6, <1>7, SameTradeKeeps DEF AtTrade, ledgerVars

LEMMA ChainStatementFailsKeeps ==
    ASSUME PipeInv, NEW w \in Worker, ChainStatementFails(w)
    PROVE  PipeInv'
  <1>1. /\ ChainsOK' /\ CP!OwnersStay /\ txRows' = txRows /\ call[w].pc # "idle"
        /\ call' = [call EXCEPT ![w] = [CP!IdleJob EXCEPT !.answer = Error]]
    BY CutShortKeepsChains DEF PipeInv, ChainStatementFails
  <1>2. UNCHANGED <<tradeRows, ledgerVars, imp, imports>>
    BY DEF ChainStatementFails
  <1>3. /\ call'[w].pc = "idle" /\ call'[w].answer = Error
        /\ \A v \in Worker : v # w => call'[v] = call[v]
    BY <1>1 DEF CP!IdleJob, PipeInv, ChainsOK, CP!ChainInv
  <1> PICK g : g = imp[w].cur
    OBVIOUS
  <1>4. RequestOK(w) /\ imp[w].pc = "chain" /\ Chaining(w, g)
    BY <1>1 DEF PipeInv, RequestsOK, RequestOK, AtTrade, Writing, Booking, Resting
  <1>5. LedgerOK' /\ LedgerRowsOK'
    BY <1>1, <1>2, LedgerStill, LedgerRowsStill DEF PipeInv, ledgerVars
  <1>6. Grows(w)
    BY <1>1, <1>2, <1>3 DEF Grows, ledgerVars
  <1>7. Chaining(w, g)'
    <2>1. hook'[w].pc = "idle" /\ g \notin DOMAIN outcome' /\ Whole(g)'
      BY <1>1, <1>2, <1>4 DEF Chaining, Whole, ledgerVars
    <2>2. CP!Answers(g, call[w].answer)'
      BY <1>3 DEF CP!Answers
    <2> QED
      BY <1>3, <2>1, <2>2 DEF Chaining
  <1>8. imp' = [imp EXCEPT ![w].pc = "chain"]
    BY <1>2, <1>4 DEF PipeInv, RequestsOK, RequestOK, Request
  <1> QED
    BY <1>1, <1>2, <1>4, <1>5, <1>6, <1>7, <1>8, SameTradeKeeps DEF AtTrade, ledgerVars

\* What opens or closes something, as the two services see it.
LEMMA Effects ==
    ASSUME NEW g \in Trade
    PROVE  /\ CP!HasEffect(g, 1..Len(ChainLegs[g]), "opening") <=> Ledger!Opens(g)
           /\ CP!Extends(g) <=> Ledger!Closes(g)
           /\ Ledger!Opens(g) \/ Ledger!Closes(g)
  <1> PICK n : n = Len(Rows[g])
    OBVIOUS
  <1>1. /\ n \in Nat \ {0} /\ Len(Legs[g]) = n /\ Len(ChainLegs[g]) = n
        /\ \A k \in 1..n : ChainLegs[g][k].effect = Legs[g][k].effect
    BY LegFacts, RowFacts
  <1>2. \A e : CP!HasEffect(g, 1..n, e) <=> \E k \in 1..n : Legs[g][k].effect = e
    BY <1>1 DEF CP!HasEffect, CP!LegsOf
  <1>3. ~CP!AllShares(g, 1..n)
    <2>1. 1 \in 1..n
      BY <1>1
    <2> QED
      BY <2>1 DEF CP!AllShares, CP!LegsOf
  <1>4. Ledger!Opens(g) \/ Ledger!Closes(g)
    <2>1. 1 \in 1..n
      BY <1>1
    <2>2. Legs[g][1] = Rows[g][ClosingFirst[g][1]] /\ ClosingFirst[g][1] \in 1..n
      BY <2>1, LegFacts, ClosingFirstPermutes
    <2>3. Legs[g][1].effect \in {"opening", "closing"}
      BY <2>2, RowFacts DEF Ledger!Leg
    <2> QED
      BY <1>1, <2>1, <2>3 DEF Ledger!Opens, Ledger!Closes
  <1> QED
    BY <1>1, <1>2, <1>3, <1>4 DEF Ledger!Opens, Ledger!Closes, CP!Extends

\* The chain service's answer is a chain the hook may be called with.
LEMMA CallHookCalls ==
    ASSUME PipeInv, NEW w \in Worker, CallHook(w), NEW g, g = imp[w].cur,
           NEW c, c = IF Ledger!Opens(g) THEN call[w].answer ELSE None
    PROVE  /\ g \in Trade /\ c \in Chains!ChainId \cup {None}
           /\ Ledger!ProcessTrade(w, g, c)
           /\ Ledger!Opens(g) <=> c # None
           /\ Ledger!Opens(g) => Belongs(c, g)
           /\ c \in Ledger!StartedChains => Ledger!Closes(g)
  <1>1. /\ imp[w].pc = "chain" /\ call[w].pc = "idle" /\ call[w].answer # Error
        /\ Ledger!ProcessTrade(w, g, c)
    BY DEF CallHook, RunHook
  <1>2. RequestOK(w) /\ g \in Trade /\ Chaining(w, g)
    BY <1>1 DEF PipeInv, RequestsOK, RequestOK, TradeRowsOK, AtTrade
  <1>3. CP!Answers(g, call[w].answer)
    BY <1>1, <1>2 DEF Chaining
  <1>4. Ledger!Opens(g) => Belongs(c, g)
    BY <1>1, <1>2, <1>3, Effects DEF CP!Answers, Belongs
  <1>5. Ledger!Opens(g) => c \in Chains!ChainId
    BY <1>4, ChainIdsBounded DEF Belongs, CP!Owns, PipeInv
  <1>6. None \notin Chains!ChainId
    BY NoneAssumption
  <1>7. ASSUME c \in Ledger!StartedChains
        PROVE  Ledger!Closes(g)
    <2> SUFFICES ASSUME ~Ledger!Closes(g)
                 PROVE  FALSE
      OBVIOUS
    <2>1. Ledger!Opens(g) /\ chains[c].trade = g /\ g \notin DOMAIN outcome
      BY <1>2, <1>4, Effects DEF Belongs, Chaining
    <2>2. CASE \E i \in 1..Len(lots) : lots[i].chain = c /\ ~Ledger!Closes(lots[i].trade)
      <3>1. PICK i \in 1..Len(lots) : lots[i].chain = c /\ ~Ledger!Closes(lots[i].trade)
        BY <2>2
      <3>2. Belongs(c, lots[i].trade)
        BY <3>1 DEF PipeInv, LedgerRowsOK
      <3>3. lots[i].trade = g
        BY <2>1, <3>1, <3>2 DEF Belongs
      <3>4. lots[i].trade \in DOMAIN outcome
        BY <3>1 DEF PipeInv, LedgerOK, LP!CompleteInv, LP!RowsOfKnownTrades
      <3> QED
        BY <2>1, <3>3, <3>4
    <2>3. CASE \E v \in Worker : /\ hook[v].chain = c /\ hook[v].trade # None
                                 /\ ~Ledger!Closes(hook[v].trade)
      <3>1. PICK v \in Worker : /\ hook[v].chain = c /\ hook[v].trade # None
                                /\ ~Ledger!Closes(hook[v].trade)
        BY <2>3
      <3>2. hook[v].pc # "idle"
        BY <3>1 DEF PipeInv, LedgerOK, LP!CallerInv, LP!IdleJob
      <3>3. imp[v].pc = "hook" /\ Booking(v, imp[v].cur) /\ imp[v].cur \in Trade
        <4>1. RequestOK(v) /\ tradeRows \subseteq Trade
          BY DEF PipeInv, RequestsOK, TradeRowsOK
        <4> QED
          BY <3>2, <4>1 DEF RequestOK, AtTrade, Writing, Chaining, Resting
      <3>4. /\ hook[v].trade = imp[v].cur /\ imp[v].cur \in DOMAIN outcome
            /\ Ledger!Opens(imp[v].cur) => Belongs(hook[v].chain, imp[v].cur)
        BY <3>2, <3>3 DEF Booking
      <3>5. chains[c].trade = imp[v].cur
        BY <3>1, <3>3, <3>4, Effects DEF Belongs
      <3> QED
        BY <2>1, <3>4, <3>5
    <2> QED
      BY <1>7, <2>2, <2>3 DEF Ledger!StartedChains
  <1> QED
    BY <1>1, <1>2, <1>4, <1>5, <1>6, <1>7

LEMMA CallHookKeeps ==
    ASSUME PipeInv, NEW w \in Worker, CallHook(w)
    PROVE  PipeInv' /\ Ledger!Next
  <1> PICK g : g = imp[w].cur
    OBVIOUS
  <1> PICK c : c = IF Ledger!Opens(g) THEN call[w].answer ELSE None
    OBVIOUS
  <1>1. /\ g \in Trade /\ c \in Chains!ChainId \cup {None}
        /\ Ledger!ProcessTrade(w, g, c)
        /\ Ledger!Opens(g) <=> c # None
        /\ Ledger!Opens(g) => Belongs(c, g)
        /\ c \in Ledger!StartedChains => Ledger!Closes(g)
    BY CallHookCalls
  <1>2. LedgerOK' /\ Ledger!Next
    BY <1>1, CallKeepsLedger DEF PipeInv
  <1>3. /\ imp[w].pc = "chain" /\ call[w].pc = "idle"
        /\ imp' = [imp EXCEPT ![w].pc = "hook"]
        /\ UNCHANGED <<tradeRows, txRows, chainVars, failures, imports>>
    BY DEF CallHook, RunHook
  <1>4. RequestOK(w) /\ Chaining(w, g) /\ Whole(g) /\ g \in tradeRows
    BY <1>3 DEF PipeInv, RequestsOK, RequestOK, AtTrade, Chaining
  <1>5. ChainsOK' /\ CP!OwnersStay
    BY <1>3, FailuresStill, ChainsStill DEF PipeInv
  <1>6. /\ UNCHANGED <<lots, positions>>
        /\ hook'[w].pc = "leg" /\ hook'[w].trade = g /\ hook'[w].chain = c
        /\ \A v \in Worker : v # w => hook'[v] = hook[v]
        /\ DOMAIN outcome' = DOMAIN outcome \cup {g}
        /\ outcome'[g] = "running"
        /\ \A h \in DOMAIN outcome : h # g => outcome'[h] = outcome[h]
    <2>1. hook \in [Worker -> LP!Job]
      BY DEF PipeInv, LedgerOK, LP!TypeInv, LP!TypeOK
    <2> QED
      BY <1>1, <2>1 DEF Ledger!ProcessTrade, Ledger!IdleJob
  <1>7. LedgerRowsOK'
    BY <1>3, <1>5, <1>6, LedgerRowsStill
  <1>8. g \notin DOMAIN outcome
    BY <1>4 DEF Chaining
  <1>9. Grows(w)
    BY <1>3, <1>5, <1>6, <1>8 DEF Grows, chainVars, PipeInv, RequestsOK
  <1>10. Booking(w, g)'
    <2>1. Belongs(c, g) => Belongs(c, g)' /\ Chained(g)'
      BY <1>3, <1>5, Monotone DEF Belongs, Chained
    <2>2. (Ledger!Opens(g)' <=> Ledger!Opens(g)) /\ call'[w].pc = "idle"
      BY <1>3 DEF Ledger!Opens, chainVars
    <2>3. Chained(g)'
      BY <1>1, <2>1, <2>2 DEF Chained
    <2>4. Ledger!Opens(g) => Belongs(hook[w].chain, g)'
      BY <1>1, <1>6, <2>1
    <2> QED
      BY <1>6, <2>2, <2>3, <2>4 DEF Booking
  <1>11. \A h \in DOMAIN outcome' : h \in DOMAIN outcome \/ (h \in tradeRows /\ Whole(h))
    BY <1>4, <1>6
  <1> QED
    BY <1>2, <1>3, <1>5, <1>7, <1>9, <1>10, <1>11, SameTradeKeeps DEF AtTrade

\* The rows a hook call makes are those of the trade it was called for, and of
\* the chain that owns it.
LEMMA ShownRows ==
    ASSUME PipeInv, NEW w \in Worker, LP!Shows(w), CP!OwnersStay, txRows' = txRows
    PROVE  /\ LedgerRowsOK'
           /\ imp[w].pc = "hook" /\ hook[w].trade = imp[w].cur /\ imp[w].cur \in Trade
           /\ imp[w].cur \in DOMAIN outcome /\ outcome[imp[w].cur] = "running"
           /\ \A v \in Worker : v # w => hook'[v] = hook[v]
  <1> PICK g, c : g = imp[w].cur /\ c = hook[w].chain
    OBVIOUS
  <1>1. /\ hook[w].pc # "idle" /\ LP!RowsKeepOrigin /\ LP!NewRowsOf(hook[w].trade, c)
        /\ \A v \in Worker : v # w => hook'[v] = hook[v]
    BY DEF LP!Shows, LP!HookMoves
  <1>2. imp[w].pc = "hook" /\ Booking(w, g) /\ g \in Trade
    <2>1. RequestOK(w) /\ tradeRows \subseteq Trade
      BY DEF PipeInv, RequestsOK, TradeRowsOK
    <2> QED
      BY <1>1, <2>1 DEF RequestOK, AtTrade, Writing, Chaining, Resting
  <1>3. /\ hook[w].trade = g /\ g \in DOMAIN outcome
        /\ LP!Opens(g) => Belongs(c, g)
    BY <1>1, <1>2 DEF Booking, Ledger!Opens, LP!Opens
  <1>4. outcome[g] = "running"
    BY <1>1, <1>3 DEF PipeInv, LedgerOK, LP!CompleteInv, LP!Running
  <1>5. /\ \A d, h : Belongs(d, h) => Belongs(d, h)'
        /\ \A d, h : CP!Owns(d, h) => CP!Owns(d, h)'
    BY Monotone
  <1>6. \A i \in 1..Len(lots') :
           \E d, h : Belongs(d, h)' /\ lots'[i].chain = d /\ lots'[i].trade = h
    <2> TAKE i \in 1..Len(lots')
    <2>1. CASE i \in 1..Len(lots)
      <3> PICK d, h : d = lots[i].chain /\ h = lots[i].trade
        OBVIOUS
      <3>1. Belongs(d, h)' /\ lots'[i].chain = d /\ lots'[i].trade = h
        BY <1>1, <1>5, <2>1 DEF PipeInv, LedgerRowsOK, LP!RowsKeepOrigin
      <3> QED
        BY <3>1
    <2>2. CASE i \notin 1..Len(lots)
      <3>1. Belongs(c, g)' /\ lots'[i].chain = c /\ lots'[i].trade = g
        BY <1>1, <1>3, <1>5, <2>2 DEF LP!NewRowsOf
      <3> QED
        BY <3>1
    <2> QED
      BY <2>1, <2>2
  <1>7. \A d \in DOMAIN positions' : \E h : CP!Owns(d, h)' /\ positions'[d].trade = h
    <2> TAKE d \in DOMAIN positions'
    <2>1. CASE d \in DOMAIN positions
      <3> PICK h : h = positions[d].trade
        OBVIOUS
      <3>1. CP!Owns(d, h)' /\ positions'[d].trade = h
        BY <1>1, <1>5, <2>1 DEF PipeInv, LedgerRowsOK, LP!RowsKeepOrigin
      <3> QED
        BY <3>1
    <2>2. CASE d \notin DOMAIN positions
      <3>1. CP!Owns(c, g)' /\ d = c /\ positions'[d].trade = g
        BY <1>1, <1>3, <1>5, <2>2 DEF LP!NewRowsOf, Belongs
      <3> QED
        BY <3>1
    <2> QED
      BY <2>1, <2>2
  <1>8. LedgerRowsOK'
    BY <1>6, <1>7 DEF LedgerRowsOK
  <1> QED
    BY <1>1, <1>2, <1>3, <1>4, <1>8

LEMMA HookStepKeeps ==
    ASSUME PipeInv, NEW w \in Worker, Ledger!HookStep(w) \/ Ledger!CutShort(w),
           UNCHANGED <<tradeRows, txRows, chainVars, failures, imp, imports>>
    PROVE  PipeInv'
  <1>1. LedgerOK' /\ LP!Shows(w)
    BY HookStepMoves DEF PipeInv
  <1>2. ChainsOK' /\ CP!OwnersStay
    BY FailuresStill, ChainsStill DEF PipeInv
  <1> PICK g : g = imp[w].cur
    OBVIOUS
  <1>3. /\ LedgerRowsOK'
        /\ imp[w].pc = "hook" /\ hook[w].trade = g
        /\ g \in DOMAIN outcome /\ outcome[g] = "running"
        /\ \A v \in Worker : v # w => hook'[v] = hook[v]
    BY <1>1, <1>2, ShownRows
  <1>4. \/ /\ hook'[w].pc # "idle"
           /\ hook'[w].trade = g /\ hook'[w].chain = hook[w].chain
           /\ outcome' = outcome
        \/ /\ hook'[w].pc = "idle"
           /\ \E result \in {"ok", "failed"} : outcome' = [outcome EXCEPT ![g] = result]
    BY <1>1, <1>3 DEF LP!Shows, LP!HookMoves, LP!IdleJob
  <1>5. /\ DOMAIN outcome' = DOMAIN outcome
        /\ \A h \in DOMAIN outcome : h # g => outcome'[h] = outcome[h]
        /\ hook'[w].pc = "idle" => outcome'[g] # "running"
    BY <1>3, <1>4
  <1>6. Grows(w)
    BY <1>2, <1>3, <1>5 DEF Grows, chainVars
  <1>7. RequestOK(w) /\ Booking(w, g)
    BY <1>3 DEF PipeInv, RequestsOK, RequestOK
  <1>8. Booking(w, g)'
    <2>1. call'[w].pc = "idle" /\ g \in DOMAIN outcome' /\ Chained(g)'
      BY <1>2, <1>5, <1>7, Monotone DEF Booking, chainVars
    <2>2. CASE hook'[w].pc = "idle"
      BY <1>5, <2>1, <2>2 DEF Booking
    <2>3. CASE hook'[w].pc # "idle"
      <3>1. hook'[w].trade = g /\ hook'[w].chain = hook[w].chain /\ hook[w].pc # "idle"
        BY <1>1, <1>4, <2>3 DEF LP!Shows
      <3> PICK c : c = hook[w].chain
        OBVIOUS
      <3>2. Ledger!Opens(g) => Belongs(c, g)'
        BY <1>2, <1>7, <3>1, Monotone DEF Booking
      <3>3. Ledger!Opens(g)' => Belongs(hook[w].chain, g)'
        <4>1. Ledger!Opens(g)' => Ledger!Opens(g)
          BY DEF Ledger!Opens
        <4> QED
          BY <3>1, <3>2, <4>1
      <3> QED
        BY <2>1, <2>3, <3>1, <3>3 DEF Booking
    <2> QED
      BY <2>2, <2>3
  <1>9. imp' = [imp EXCEPT ![w].pc = "hook"]
    BY <1>3, <1>7 DEF PipeInv, RequestsOK, RequestOK, Request
  <1> QED
    BY <1>1, <1>2, <1>3, <1>5, <1>6, <1>8, <1>9, SameTradeKeeps DEF AtTrade

\* Whatever the request was doing, what it has written stands.
LEMMA RequestDiesKeeps ==
    ASSUME PipeInv, NEW w \in Worker, RequestDies(w)
    PROVE  PipeInv'
  <1>1. /\ imp' = [imp EXCEPT ![w] = IdleImport]
        /\ call' = [call EXCEPT ![w] = Chains!IdleJob]
        /\ UNCHANGED <<tradeRows, txRows, chains, links, imports>>
    BY DEF RequestDies
  <1>2. failures' \in 0..MaxFailures
    BY FailuresBounded, FailuresStill DEF RequestDies
  <1>3. ChainsOK' /\ CP!OwnersStay
    BY <1>1, <1>2, DropKeepsChains DEF PipeInv
  <1>4. /\ call'[w].pc = "idle" /\ \A v \in Worker : v # w => call'[v] = call[v]
        /\ imp'[w] = IdleImport /\ imp' = [v \in Worker |-> imp'[v]]
        /\ \A v \in Worker : v # w => imp'[v] = imp[v]
    BY <1>1 DEF PipeInv, RequestsOK, ChainsOK, CP!ChainInv, Chains!IdleJob
  <1>5. /\ LedgerOK' /\ LedgerRowsOK' /\ hook'[w].pc = "idle"
        /\ \A v \in Worker : v # w => hook'[v] = hook[v]
        /\ DOMAIN outcome' = DOMAIN outcome
        /\ \A h \in DOMAIN outcome : outcome[h] # "running" \/ h # imp[w].cur =>
              outcome'[h] = outcome[h]
    <2>1. CASE hook[w].pc = "idle"
      <3>1. UNCHANGED ledgerVars
        BY <2>1 DEF RequestDies
      <3>2. LedgerOK' /\ LedgerRowsOK'
        BY <1>1, <1>3, <3>1, LedgerStill, LedgerRowsStill DEF PipeInv, ledgerVars
      <3> QED
        BY <2>1, <3>1, <3>2 DEF ledgerVars
    <2>2. CASE hook[w].pc # "idle"
      <3>1. Ledger!CutShort(w)
        BY <2>2 DEF RequestDies
      <3>2. LedgerOK' /\ LP!Shows(w)
        BY <3>1, HookStepMoves DEF PipeInv
      <3>3. /\ LedgerRowsOK' /\ hook[w].trade = imp[w].cur
            /\ \A v \in Worker : v # w => hook'[v] = hook[v]
        BY <1>1, <1>3, <3>2, ShownRows
      <3>4. /\ outcome' = [outcome EXCEPT ![hook[w].trade] = "failed"]
            /\ hook' = [hook EXCEPT ![w] = Ledger!IdleJob]
        BY <3>1 DEF Ledger!CutShort
      <3>5. hook'[w].pc = "idle"
        BY <3>4 DEF Ledger!IdleJob, PipeInv, LedgerOK, LP!TypeInv, LP!TypeOK
      <3>6. /\ DOMAIN outcome' = DOMAIN outcome
            /\ \A h \in DOMAIN outcome : h # imp[w].cur => outcome'[h] = outcome[h]
            /\ imp[w].cur \in DOMAIN outcome => outcome[imp[w].cur] = "running"
        BY <1>1, <1>3, <3>2, <3>3, <3>4, ShownRows
      <3> QED
        BY <3>2, <3>3, <3>5, <3>6
    <2> QED
      BY <2>1, <2>2
  <1>6. Grows(w)
    BY <1>1, <1>3, <1>4, <1>5 DEF Grows
  <1>7. RequestOK(w)'
    <2>1. /\ IdleImport \in Request /\ IdleImport.pc = "idle" /\ IdleImport.cur = None
          /\ IdleImport.todo = {} /\ IdleImport.imported = {} /\ IdleImport.file = {}
      BY DEF IdleImport, Request, ImportPC
    <2>2. Resting(w)'
      BY <1>4, <1>5 DEF Resting
    <2> QED
      BY <1>4, <2>1, <2>2 DEF RequestOK, AtTrade, Request
  <1>8. imp'[w].cur = None
    BY <1>4 DEF IdleImport
  <1> QED
    BY <1>1, <1>3, <1>4, <1>5, <1>6, <1>7, <1>8, StepKeepsPipe

-----------------------------------------------------------------------------
(* The invariant holds, and the hook is called as LotLedger assumes.        *)

LEMMA InitPipe == Init => PipeInv /\ Ledger!Init
  <1> SUFFICES ASSUME Init PROVE PipeInv
    BY DEF Init
  <1>1. CP!Init /\ LP!Init
    BY SameChainCall, SameHookCall DEF Init
  <1>2. ChainsOK
    BY <1>1, CP!InitChainInv, CP!InitAnswers, ChainAssumptions
       DEF ChainsOK, CP!TradeAssumption, CP!SharesAssumption, CP!LegsAssumption,
           CP!ExecutedAtAssumption, CP!BoundsAssumption
  <1>3. LP!TypeInv
    BY <1>1, LP!InitType, LedgerAssumptions
       DEF LP!LegsAssumption, LP!TimeAssumption, LP!BoundAssumption, LP!NoneAssumption
  <1>4. LP!CompleteInv /\ LP!CallerInv
    BY <1>1 DEF LP!Init, LP!CompleteInv, LP!CallerInv, LP!RowsOfKnownTrades, LP!Running,
                LP!IdleJob
  <1>5. \A w \in Worker : RequestOK(w)
    <2> TAKE w \in Worker
    <2>1. /\ IdleImport \in Request /\ IdleImport.pc = "idle" /\ IdleImport.cur = None
          /\ IdleImport.todo = {} /\ IdleImport.imported = {} /\ IdleImport.file = {}
      BY DEF IdleImport, Request, ImportPC
    <2>2. imp[w] = IdleImport
      BY DEF Init
    <2>3. Resting(w)
      BY <1>1 DEF CP!Init, LP!Init, Resting, CP!IdleJob, LP!IdleJob
    <2> QED
      BY <2>1, <2>2, <2>3 DEF RequestOK, AtTrade
  <1>6. TradeRowsOK
    BY <1>1 DEF Init, TradeRowsOK, LP!Init, IdleImport
  <1>7. LedgerRowsOK
    BY <1>1 DEF LedgerRowsOK, LP!Init
  <1>8. imp = [w \in Worker |-> imp[w]]
    BY DEF Init
  <1> QED
    BY <1>2, <1>3, <1>4, <1>5, <1>6, <1>7, <1>8 DEF PipeInv, LedgerOK, RequestsOK

LEMMA StutterKeeps ==
    ASSUME PipeInv, UNCHANGED vars
    PROVE  PipeInv'
  <1>1. /\ UNCHANGED <<tradeRows, txRows, chains, links, call, failures, imp>>
        /\ UNCHANGED <<lots, positions, hook, outcome>> /\ UNCHANGED ledgerVars
    BY DEF vars, chainVars, ledgerVars
  <1>2. ChainsOK' /\ CP!OwnersStay
    BY <1>1, FailuresStill, ChainsStill DEF PipeInv, chainVars
  <1>3. LedgerOK' /\ LedgerRowsOK'
    BY <1>1, <1>2, LedgerStill, LedgerRowsStill DEF PipeInv
  <1>4. ASSUME NEW w \in Worker
        PROVE  RequestOK(w)'
    <2>1. RequestOK(w)
      BY DEF PipeInv, RequestsOK
    <2>2. Resting(w)' <=> Resting(w)
      BY <1>1 DEF Resting
    <2>3. \A g : Whole(g) <=> Whole(g)'
      BY <1>1 DEF Whole
    <2>4. /\ \A g : Chained(g) => Chained(g)'
          /\ \A c, g : Belongs(c, g) => Belongs(c, g)'
          /\ \A g, c : CP!Answers(g, c) => CP!Answers(g, c)'
          /\ StoredKeys \subseteq StoredKeys'
      BY <1>1, <1>2, Monotone
    <2>5. \A g : Writing(w, g) => Writing(w, g)'
      BY <1>1, <2>2 DEF Writing
    <2>6. \A g : Chaining(w, g) => Chaining(w, g)'
      BY <1>1, <2>3, <2>4 DEF Chaining
    <2>7. \A g : Booking(w, g) => Booking(w, g)'
      BY <1>1, <2>4 DEF Booking, Ledger!Opens
    <2> QED
      BY <1>1, <2>1, <2>2, <2>4, <2>5, <2>6, <2>7 DEF RequestOK, KeysOf, Request
  <1>5. TradeRowsOK' /\ RequestsOK'
    BY <1>1, <1>4 DEF PipeInv, RequestsOK, TradeRowsOK, Whole
  <1> QED
    BY <1>2, <1>3, <1>5 DEF PipeInv

LEMMA NextPipe ==
    ASSUME PipeInv, [Next]_vars
    PROVE  PipeInv' /\ [Ledger!Next]_(Ledger!vars)
  <1>1. UNCHANGED ledgerVars => [Ledger!Next]_(Ledger!vars)
    BY DEF ledgerVars, Ledger!vars
  <1>2. CASE UNCHANGED vars
    BY <1>1, <1>2, StutterKeeps DEF vars
  <1>3. ASSUME NEW w \in Worker, NEW f \in File, Import(w, f)
        PROVE  PipeInv' /\ UNCHANGED ledgerVars
    BY <1>3, ImportKeeps DEF Import
  <1>4. ASSUME NEW w \in Worker, ImportStep(w), ~CallHook(w)
        PROVE  PipeInv' /\ UNCHANGED ledgerVars
    <2>1. CASE UpsertInstruments(w) \/ Return(w)
      BY <2>1, BetweenTradesKeeps DEF UpsertInstruments, Return
    <2>2. CASE MixedUnderlying(w) \/ DuplicateTrade(w) \/ ChainFailed(w)
      BY <2>2, TradeFailsKeeps DEF MixedUnderlying, DuplicateTrade, ChainFailed
    <2>3. CASE CreateTrade(w) \/ CreateTransaction(w)
      BY <2>3, CreateTradeKeeps, CreateTransactionKeeps DEF CreateTrade, CreateTransaction
    <2>4. CASE CallChainer(w) \/ HookReturned(w)
      BY <2>4, CallChainerKeeps, HookReturnedKeeps DEF CallChainer, HookReturned
    <2> QED
      BY <1>4, <2>1, <2>2, <2>3, <2>4 DEF ImportStep
  <1>5. ASSUME NEW w \in Worker, CallHook(w)
        PROVE  PipeInv' /\ Ledger!Next
    BY <1>5, CallHookKeeps
  <1>6. ASSUME NEW w \in Worker, Step(w), ~ImportStep(w)
        PROVE  PipeInv' /\ (UNCHANGED ledgerVars \/ Ledger!Next)
    <2>1. CASE Chains!ChainStep(w) /\ UNCHANGED <<tradeRows, ledgerVars, imp, imports>>
      BY <2>1, ChainStepKeeps
    <2>2. CASE /\ Ledger!HookStep(w)
               /\ UNCHANGED <<tradeRows, txRows, chainVars, failures, imp, imports>>
      BY <2>2, HookStepKeeps DEF Ledger!Next
    <2> QED
      BY <1>6, <2>1, <2>2 DEF Step
  <1>7. ASSUME NEW w \in Worker,
               StatementFails(w) \/ ChainStatementFails(w) \/ HookStatementFails(w) \/ RequestDies(w)
        PROVE  PipeInv' /\ (UNCHANGED ledgerVars \/ Ledger!Next)
    <2>1. CASE StatementFails(w)
      BY <2>1, StatementFailsKeeps DEF StatementFails
    <2>2. CASE ChainStatementFails(w)
      BY <2>2, ChainStatementFailsKeeps DEF ChainStatementFails
    <2>3. CASE HookStatementFails(w)
      BY <2>3, HookStepKeeps DEF HookStatementFails, Ledger!Next
    <2>4. CASE RequestDies(w)
      BY <2>4, RequestDiesKeeps DEF RequestDies, Ledger!Next
    <2> QED
      BY <1>7, <2>1, <2>2, <2>3, <2>4
  <1>8. CASE Next
    <2>1. PICK w \in Worker :
             \/ \E f \in File : Import(w, f)
             \/ Step(w)
             \/ StatementFails(w) \/ ChainStatementFails(w) \/ HookStatementFails(w)
             \/ RequestDies(w)
      BY <1>8 DEF Next
    <2>2. PipeInv' /\ (UNCHANGED ledgerVars \/ Ledger!Next)
      BY <1>3, <1>4, <1>5, <1>6, <1>7, <2>1 DEF Step
    <2> QED
      BY <1>1, <2>2
  <1> QED
    BY <1>2, <1>8

LEMMA PipeInvHolds == Spec => []PipeInv
  BY InitPipe, NextPipe, PTL DEF Spec

\* However many requests run and wherever they fail, the position hook is
\* called as LotLedger assumes: once per trade, with the chain of the trade
\* whenever it opens something, and never with a chain that a trade which only
\* opens has started before.
THEOREM HookIsCalledAsAssumed == Spec => HookCalledAsAssumed
  <1>1. Init => Ledger!Init
    BY InitPipe
  <1>2. PipeInv /\ [Next]_vars => [Ledger!Next]_(Ledger!vars)
    BY NextPipe
  <1> QED
    BY <1>1, <1>2, PipeInvHolds, PTL DEF Spec, HookCalledAsAssumed, Ledger!Spec

-----------------------------------------------------------------------------
(* What the invariant says.                                                 *)

LEMMA OneOwner ==
    ASSUME PipeInv, NEW g \in Trade, NEW c, CP!Owns(c, g)
    PROVE  Chains!Owners(g) = {c}
  <1>1. \A d : d \in Chains!Owners(g) <=> CP!Owns(d, g)
    BY DEF Chains!Owners, Chains!TradesOf, CP!Owns
  <1>2. \A d : CP!Owns(d, g) => d = c
    BY DEF PipeInv, ChainsOK, CP!ChainInv, CP!OwnersOK, CP!Owns
  <1> QED
    BY <1>1, <1>2

LEMMA PipeIsComplete ==
    ASSUME PipeInv
    PROVE  ImportedIsComplete
  <1> SUFFICES ASSUME NEW w \in Worker, NEW g \in imp[w].imported
               PROVE  /\ \A k \in 1..Len(Rows[g]) : <<g, k>> \in txRows
                      /\ outcome[g] = "ok"
                      /\ Ledger!Opens(g) => Cardinality(Chains!Owners(g)) = 1
    BY DEF ImportedIsComplete
  <1>1. g \in DOMAIN outcome /\ outcome[g] = "ok" /\ Chained(g)
    BY DEF PipeInv, RequestsOK, RequestOK
  <1>2. g \in Trade /\ Whole(g)
    BY <1>1 DEF PipeInv, TradeRowsOK
  <1>3. ASSUME Ledger!Opens(g)
        PROVE  Cardinality(Chains!Owners(g)) = 1
    <2>1. PICK c : CP!Owns(c, g)
      BY <1>1, <1>3 DEF Chained
    <2>2. Chains!Owners(g) = {c}
      BY <1>2, <2>1, OneOwner
    <2> QED
      BY <2>2, FS_Singleton
  <1> QED
    BY <1>1, <1>2, <1>3 DEF Whole

LEMMA PipeDropsNothing ==
    ASSUME PipeInv
    PROVE  NothingDropped
  <1> SUFFICES ASSUME NEW w \in Worker, imp[w].pc = "idle",
                      NEW g \in imp[w].file \ imp[w].failed,
                      NEW k \in 1..Len(Rows[g]), SamePlace(g, k)
               PROVE  \E row \in txRows : /\ TxKey(row[1], row[2]) = <<TradeId[g], k>>
                                         /\ FillOf(row) = Rows[g][k]
    BY DEF NothingDropped
  <1>1. KeysOf(g) \subseteq StoredKeys
    BY DEF PipeInv, RequestsOK, RequestOK
  <1>2. PICK row \in txRows : TxKey(row[1], row[2]) = <<TradeId[g], k>>
    BY <1>1 DEF KeysOf, StoredKeys
  <1>3. PICK h \in Trade : row \in CP!RowsOf(h)
    BY DEF PipeInv, ChainsOK, CP!ChainInv, CP!RowsOK
  <1>4. row[1] = h /\ row[2] \in 1..Len(Rows[h])
    BY <1>3, ChainRows
  <1>5. TradeId[h] = TradeId[g] /\ ClosingFirst[h][row[2]] = k
    BY <1>2, <1>4 DEF TxKey
  <1>6. Len(Rows[h]) \in Nat /\ k \in 1..Len(Rows[h])
    BY <1>4, <1>5, ClosingFirstPermutes, RowFacts
  <1>7. Rows[h][k] = Rows[g][k]
    BY <1>5, <1>6 DEF SamePlace
  <1>8. Legs[h][row[2]] = Rows[h][k]
    BY <1>4, <1>5, LegFacts
  <1> QED
    BY <1>2, <1>4, <1>7, <1>8 DEF FillOf

LEMMA PipeBooksOnce ==
    ASSUME PipeInv
    PROVE  FillsBookedOnce
  <1> SUFFICES ASSUME NEW id \in {TradeId[g] : g \in Trade}
               PROVE  Cardinality({i \in 1..Len(lots) : TradeId[lots[i].trade] = id})
                         <= Cardinality(RowsOfId(id, "opening"))
    BY DEF FillsBookedOnce
  <1> PICK L, R : L = {i \in 1..Len(lots) : TradeId[lots[i].trade] = id}
                  /\ R = RowsOfId(id, "opening")
    OBVIOUS
  <1>1. IsFiniteSet(R) /\ Cardinality(R) \in Nat
    <2>1. IsFiniteSet(UNION {KeysOf(g) : g \in Trade})
      BY KeysFinite
    <2>2. ASSUME NEW row \in txRows
          PROVE  TxKey(row[1], row[2]) \in UNION {KeysOf(g) : g \in Trade}
      <3>1. PICK g \in Trade : row \in CP!RowsOf(g)
        BY DEF PipeInv, ChainsOK, CP!ChainInv, CP!RowsOK
      <3>2. row[1] = g /\ row[2] \in 1..Len(Rows[g])
        BY <3>1, ChainRows
      <3>3. TxKey(row[1], row[2]) \in KeysOf(g)
        BY <3>2, ClosingFirstPermutes DEF TxKey, KeysOf
      <3> QED
        BY <3>3
    <2>3. R \subseteq UNION {KeysOf(g) : g \in Trade}
      BY <2>2 DEF RowsOfId, StoredKeys
    <2>4. IsFiniteSet(R)
      BY <2>1, <2>3, FS_Subset
    <2> QED
      BY <2>4, FS_CardinalityType
  <1>2. ASSUME NEW i \in L
        PROVE  /\ lots[i].trade \in tradeRows /\ lots[i].trade \in Trade
               /\ Whole(lots[i].trade) /\ TradeId[lots[i].trade] = id
    <2>1. lots[i].trade \in DOMAIN outcome
      BY DEF PipeInv, LedgerOK, LP!CompleteInv, LP!RowsOfKnownTrades
    <2> QED
      BY <2>1 DEF PipeInv, TradeRowsOK
  <1>3. CASE L = {}
    <2>1. Cardinality(L) = 0
      BY <1>3, FS_EmptySet
    <2>2. Cardinality(L) <= Cardinality(R)
      BY <1>1, <2>1
    <2> QED
      BY <2>2
  <1>4. CASE L # {}
    <2>1. PICK g \in tradeRows : g \in Trade /\ Whole(g) /\ TradeId[g] = id /\ \E i \in L : lots[i].trade = g
      BY <1>2, <1>4
    <2>2. L = LP!LotsOfTrade(g)
      <3>1. \A i \in L : lots[i].trade = g
        BY <1>2, <2>1 DEF PipeInv, TradeRowsOK
      <3> QED
        BY <2>1, <3>1 DEF LP!LotsOfTrade
    <2> PICK O : O = LP!OpeningLegs(g)
      OBVIOUS
    <2>3. Cardinality(L) <= Cardinality(O)
      <3>1. LP!Cardinality(LP!LotsOfTrade(g)) <= LP!Cardinality(LP!OpeningLegs(g))
        BY <2>1, LP!OneLotPerOpeningLeg, LedgerAssumptions
           DEF PipeInv, LedgerOK,
               LP!LegsAssumption, LP!TimeAssumption, LP!BoundAssumption, LP!NoneAssumption
      <3>2. /\ LP!Cardinality(LP!LotsOfTrade(g)) = Cardinality(LP!LotsOfTrade(g))
            /\ LP!Cardinality(LP!OpeningLegs(g)) = Cardinality(LP!OpeningLegs(g))
        BY SameCardinality, Zenon
      <3> QED
        BY <2>2, <3>1, <3>2
    <2>4. \A k \in O : k \in 1..Len(Rows[g]) /\ Legs[g][k].effect = "opening"
      BY <2>1, LegFacts DEF LP!OpeningLegs
    <2> DEFINE key(k) == <<id, ClosingFirst[g][k]>>
               f == [k \in O |-> key(k)]
    <2>5. ASSUME NEW k \in O
          PROVE  key(k) \in R
      <3>1. <<g, k>> \in txRows /\ TxKey(<<g, k>>[1], <<g, k>>[2]) = key(k)
        BY <2>1, <2>4 DEF Whole, TxKey
      <3>2. key(k) \in StoredKeys
        BY <3>1 DEF StoredKeys
      <3>3. Rows[g][key(k)[2]].effect = "opening" /\ key(k)[1] = id
        BY <2>1, <2>4, LegFacts
      <3> QED
        BY <2>1, <3>2, <3>3 DEF RowsOfId
    <2>6. \A j, k \in O : key(j) = key(k) => j = k
      BY <2>1, <2>4, ClosingFirstPermutes
    <2>7. f \in Injection(O, R)
      <3> HIDE DEF key
      <3> QED
        BY <2>5, <2>6 DEF Injection, IsInjective
    <2>8. Cardinality(O) <= Cardinality(R) /\ IsFiniteSet(O)
      BY <1>1, <2>7, FS_Injection
    <2>9. Cardinality(O) \in Nat
      BY <2>8, FS_CardinalityType
    <2>10. IsFiniteSet(L)
      <3>1. Len(lots) \in Nat
        BY LenProperties DEF PipeInv, LedgerOK, LP!TypeInv, LP!TypeOK
      <3>2. \A m \in Nat : IsFiniteSet(1..m)
        BY FS_Interval
      <3>3. L \subseteq 1..Len(lots) /\ IsFiniteSet(1..Len(lots))
        BY <3>1, <3>2
      <3> QED
        BY <3>3, FS_Subset
    <2>11. Cardinality(L) \in Nat
      BY <2>10, FS_CardinalityType
    <2> QED
      BY <1>1, <2>3, <2>8, <2>9, <2>11
  <1> QED
    BY <1>3, <1>4

LEMMA PipeServicesAgree ==
    ASSUME PipeInv
    PROVE  LotsFollowChains
  <1>1. ASSUME NEW i \in 1..Len(lots)
        PROVE  Chains!Owners(lots[i].trade) = {lots[i].chain}
    <2>1. CP!Owns(lots[i].chain, lots[i].trade)
      BY DEF PipeInv, LedgerRowsOK, Belongs
    <2>2. lots[i].trade \in Trade
      BY DEF PipeInv, LedgerOK, TradeRowsOK, LP!CompleteInv, LP!RowsOfKnownTrades
    <2> QED
      BY <2>1, <2>2, OneOwner
  <1>2. ASSUME NEW c \in DOMAIN positions
        PROVE  positions[c].trade \in Chains!TradesOf(c)
    <2>1. CP!Owns(c, positions[c].trade)
      BY DEF PipeInv, LedgerRowsOK
    <2> QED
      BY <2>1 DEF CP!Owns, Chains!TradesOf
  <1> QED
    BY <1>1, <1>2 DEF LotsFollowChains

\* A trade reported as imported is all there: its transactions, a successful
\* position hook, and, when it opens something, the one chain that owns it.
THEOREM ImportsAreComplete == Spec => []ImportedIsComplete
  BY PipeInvHolds, PipeIsComplete, PTL

\* When a request returns, every fill of its file that has one place in all
\* exports is stored as that fill, by this request or an earlier one, or its
\* trade is among those it reports as failed.
THEOREM NothingIsDropped == Spec => []NothingDropped
  BY PipeInvHolds, PipeDropsNothing, PTL

\* However often and by however many requests, overlapping or not, the rows of an
\* order are presented, no more lots are made of it than opening rows are stored.
THEOREM FillsAreBookedOnce == Spec => []FillsBookedOnce
  BY PipeInvHolds, PipeBooksOnce, PTL

\* The chain service and the position service agree: every lot, and every
\* position, belongs to the chain that owns the trade it was made for.
THEOREM ServicesAgreeOnChains == Spec => []LotsFollowChains
  BY PipeInvHolds, PipeServicesAgree, PTL

=============================================================================
