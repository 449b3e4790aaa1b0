-------------------------- MODULE LotLedgerProofs --------------------------
(***************************************************************************)
(* Theorems about LotLedger, for every set of workers, trades, chains and   *)
(* legs, and every bound on the number of failures.  Under every            *)
(* interleaving of calls:                                                   *)
(*   - TypeCorrect: the type invariant;                                     *)
(*   - BoundsHold: LotWithinBounds;                                         *)
(*   - SuccessesAreComplete: SuccessIsComplete.                             *)
(* For one call at a time (no two workers):                                 *)
(*   - OpenPositionsHaveOpenLots: OpenPositionHasOpenLot;                   *)
(*   - LotsCloseInOrder: FifoOrder;                                         *)
(*   - LotsBalance: LotBalance;                                             *)
(*   - LedgerImplementsInventory: ImplementsInventory;                      *)
(*   - PositionsMirrorLedger: PositionMirrorsLedger, the position rows as a *)
(*     cache of lots and closings.                                          *)
(***************************************************************************)
EXTENDS LotLedger, SequenceTheorems, SumTheorems, TLAPS

-----------------------------------------------------------------------------
(* The type invariant and what the local variables of a call refer to.      *)

LegIndex(job) == 1..Len(Legs[job.trade])

\* What a call remembers about the trade, the chain, the leg and the rows it
\* has read, by the point it has reached.
JobOK(job) ==
    /\ job.pc # "idle" => job.trade \in Trade /\ (Opens(job.trade) => job.chain \in Chain)
    /\ job.pc \in {"find", "insert", "accumulate", "match", "close"} =>
          job.leg \in LegIndex(job)
    /\ job.pc \in {"find", "insert", "accumulate"} =>
          Legs[job.trade][job.leg].effect = "opening"
    /\ job.pc = "accumulate" => job.pos \in PositionRow /\ job.chain \in DOMAIN positions
    /\ job.pc \in {"match", "close"} =>
          \A s \in job.todo : s.lot \in 1..Len(lots)
    /\ job.pc = "close" =>
          /\ job.cur \in job.todo
          /\ job.pos # None => lots[job.cur.lot].chain \in DOMAIN positions

JobsOK == \A w \in Worker : JobOK(hook[w])

TypeInv == TypeOK /\ JobsOK

\* No row is ever deleted, and a lot keeps its trade, instrument, opened
\* quantity and chain.
RowsPersist ==
    /\ Len(lots) <= Len(lots')
    /\ \A i \in 1..Len(lots) :
          /\ lots'[i].inst = lots[i].inst
          /\ lots'[i].open = lots[i].open
          /\ lots'[i].at = lots[i].at
          /\ lots'[i].chain = lots[i].chain
    /\ DOMAIN positions \subseteq DOMAIN positions'

\* A leg of a trade is one of the legs the constants allow.
LEMMA LegIsLeg ==
    ASSUME NEW t \in Trade, NEW k \in 1..Len(Legs[t])
    PROVE  Legs[t][k] \in Leg
  BY LegsAssumption, ElementOfSeq

\* A call that does not move still refers to rows that exist.
LEMMA OtherJobOK ==
    ASSUME TypeInv, RowsPersist, NEW v \in Worker, hook'[v] = hook[v]
    PROVE  JobOK(hook[v])'
  <1>1. JobOK(hook[v])
    BY DEF TypeInv, JobsOK
  <1>2. Len(lots) \in Nat /\ Len(lots') >= Len(lots)
    BY LenProperties DEF TypeInv, TypeOK, RowsPersist
  <1> QED
    BY <1>1, <1>2 DEF JobOK, RowsPersist, LegIndex

\* It is enough to look at the worker that moves.
LEMMA JobsStayOK ==
    ASSUME TypeInv, RowsPersist, NEW w \in Worker, NEW job,
           hook' = [hook EXCEPT ![w] = job], JobOK(hook[w])'
    PROVE  JobsOK'
  <1> SUFFICES ASSUME NEW v \in Worker PROVE JobOK(hook[v])'
    BY DEF JobsOK
  <1>1. hook \in [Worker -> Job]
    BY DEF TypeInv, TypeOK
  <1>2. CASE v = w
    BY <1>2
  <1>3. CASE v # w
    BY <1>1, <1>3, OtherJobOK
  <1> QED
    BY <1>2, <1>3

-----------------------------------------------------------------------------
(* Every action keeps TypeInv.                                              *)

\* The ledger is unchanged: only the call's local variables move.
LEMMA LocalStepKeepsType ==
    ASSUME TypeInv, UNCHANGED ledgerVars, NEW w \in Worker, NEW job \in Job,
           hook' = [hook EXCEPT ![w] = job], JobOK(job),
           DOMAIN outcome' \subseteq Trade,
           outcome' \in [DOMAIN outcome' -> {"running", "ok", "failed"}],
           failures' \in 0..MaxFailures
    PROVE  TypeInv'
  <1>1. TypeOK'
    BY DEF TypeInv, TypeOK, ledgerVars
  <1>2. RowsPersist
    BY LenProperties DEF TypeInv, TypeOK, RowsPersist, ledgerVars
  <1>3. hook'[w] = job
    BY DEF TypeInv, TypeOK
  <1>4. JobOK(hook[w])'
    BY <1>3 DEF JobOK, LegIndex, ledgerVars
  <1> QED
    BY <1>1, <1>2, <1>4, JobsStayOK DEF TypeInv

LEMMA IdleJobOK == IdleJob \in Job /\ JobOK(IdleJob)
  BY DEF IdleJob, Job, JobOK, HookPC

LEMMA EndCallKeepsType ==
    ASSUME TypeInv, NEW w \in Worker, hook[w].pc # "idle",
           NEW result \in {"ok", "failed"}, EndCall(w, result), UNCHANGED ledgerVars
    PROVE  TypeInv'
  <1>1. DOMAIN outcome' = DOMAIN outcome
    BY DEF EndCall
  <1>2. outcome' \in [DOMAIN outcome' -> {"running", "ok", "failed"}]
    BY <1>1 DEF EndCall, TypeInv, TypeOK
  <1> QED
    BY <1>1, <1>2, IdleJobOK, LocalStepKeepsType DEF EndCall, TypeInv, TypeOK

LEMMA AfterLegOK ==
    ASSUME TypeInv, NEW w \in Worker, hook[w].pc # "idle"
    PROVE  AfterLeg(hook[w]) \in Job /\ JobOK(AfterLeg(hook[w]))
  <1>1. hook[w] \in Job /\ JobOK(hook[w])
    BY DEF TypeInv, TypeOK, JobsOK
  <1>2. hook[w].leg + 1 \in Nat
    BY <1>1 DEF Job
  <1>3. AfterLeg(hook[w]) \in Job
    BY <1>1, <1>2 DEF AfterLeg, IdleJob, Job, HookPC
  <1>4. JobOK(AfterLeg(hook[w]))
    BY <1>1 DEF AfterLeg, IdleJob, JobOK
  <1> QED
    BY <1>3, <1>4

LEMMA NextLegKeepsType ==
    ASSUME TypeInv, NEW w \in Worker, hook[w].pc # "idle", NextLeg(w),
           UNCHANGED ledgerVars
    PROVE  TypeInv'
  BY AfterLegOK, LocalStepKeepsType DEF NextLeg, TypeInv, TypeOK

\* After a leg a call refers to no row, so JobOK does not depend on the ledger.
LEMMA AfterLegHoldsNoRows ==
    ASSUME TypeInv, NEW w \in Worker, hook[w].pc # "idle", NextLeg(w)
    PROVE  JobOK(hook[w])'
  <1>1. hook'[w] = AfterLeg(hook[w]) /\ JobOK(AfterLeg(hook[w]))
    BY AfterLegOK DEF NextLeg, TypeInv, TypeOK
  <1> QED
    BY <1>1 DEF AfterLeg, IdleJob, JobOK

LEMMA CallKeepsType ==
    ASSUME TypeInv, NEW w \in Worker, Call(w)
    PROVE  TypeInv'
  <1> PICK t \in Trade, c \in Chain \cup {None} :
         (Opens(t) <=> c # None) /\ ProcessTrade(w, t, c)
    BY DEF Call
  <1> DEFINE job == [IdleJob EXCEPT !.pc = "leg", !.trade = t, !.chain = c, !.leg = 1]
  <1>1. job \in Job /\ JobOK(job)
    BY NoneAssumption DEF IdleJob, Job, JobOK, HookPC
  <1>2. /\ hook' = [hook EXCEPT ![w] = job]
        /\ UNCHANGED ledgerVars /\ UNCHANGED failures
    BY DEF ProcessTrade, ledgerVars
  <1>3. /\ DOMAIN outcome' \subseteq Trade
        /\ outcome' \in [DOMAIN outcome' -> {"running", "ok", "failed"}]
    BY DEF ProcessTrade, TypeInv, TypeOK
  <1> QED
    BY <1>1, <1>2, <1>3, LocalStepKeepsType DEF TypeInv, TypeOK

LEMMA CutShortKeepsType ==
    ASSUME TypeInv, NEW w \in Worker, CutShort(w)
    PROVE  TypeInv'
  <1>1. DOMAIN outcome' = DOMAIN outcome
    BY DEF CutShort
  <1>2. outcome' \in [DOMAIN outcome' -> {"running", "ok", "failed"}]
    BY <1>1 DEF CutShort, TypeInv, TypeOK
  <1>3. failures' \in 0..MaxFailures
    BY BoundAssumption DEF CutShort, TypeInv, TypeOK
  <1> QED
    BY <1>1, <1>2, <1>3, IdleJobOK, LocalStepKeepsType DEF CutShort, TypeInv, TypeOK

LEMMA CreateLotKeepsType ==
    ASSUME TypeInv, NEW w \in Worker, CreateLot(w)
    PROVE  TypeInv'
  <1> DEFINE row == [trade |-> hook[w].trade, inst |-> CurrentLeg(w).inst,
                     open |-> LotSignedQty(CurrentLeg(w)),
                     rem |-> LotSignedQty(CurrentLeg(w)),
                     price |-> CurrentLeg(w).price,
                     at |-> ExecutedAt[hook[w].trade],
                     closed |-> FALSE, chain |-> hook[w].chain]
             job == [hook[w] EXCEPT !.pc = "find"]
  <1>1. hook[w] \in Job /\ JobOK(hook[w]) /\ lots \in Seq(LotRow)
    BY DEF TypeInv, TypeOK, JobsOK
  <1>2. /\ hook[w].trade \in Trade /\ hook[w].chain \in Chain
        /\ hook[w].leg \in LegIndex(hook[w])
        /\ CurrentLeg(w).effect = "opening"
    BY <1>1 DEF CreateLot, JobOK, Opens, CurrentLeg, LegIndex
  <1>3. CurrentLeg(w) \in Leg
    BY <1>2, LegIsLeg DEF CurrentLeg, LegIndex
  <1>4. row \in LotRow
    BY <1>2, <1>3, TimeAssumption DEF Leg, LotRow, LotSignedQty
  <1>5. lots' = Append(lots, row) /\ hook' = [hook EXCEPT ![w] = job]
    BY <1>1 DEF CreateLot
  <1>6. /\ lots' \in Seq(LotRow) /\ Len(lots') = Len(lots) + 1
        /\ \A i \in 1..Len(lots) : lots'[i] = lots[i]
    BY <1>1, <1>4, <1>5
  <1>7. RowsPersist
    BY <1>1, <1>6, LenProperties DEF RowsPersist, CreateLot
  <1>8. job \in Job
    BY <1>1 DEF Job, HookPC
  <1>9. TypeOK'
    BY <1>5, <1>6, <1>8 DEF CreateLot, TypeInv, TypeOK
  <1>10. JobOK(hook[w])'
    <2>1. hook'[w] = job
      BY <1>5 DEF TypeInv, TypeOK
    <2> QED
      BY <1>1, <1>2, <2>1 DEF JobOK, LegIndex, Job, CreateLot, CurrentLeg
  <1> QED
    BY <1>5, <1>7, <1>9, <1>10, JobsStayOK DEF TypeInv

LEMMA FindPositionKeepsType ==
    ASSUME TypeInv, NEW w \in Worker, FindPosition(w)
    PROVE  TypeInv'
  <1> DEFINE pc == IF hook[w].chain \in DOMAIN positions THEN "accumulate" ELSE "insert"
             job == [hook[w] EXCEPT !.pos = GetPositionByChainID(hook[w].chain), !.pc = pc]
  <1>1. hook[w] \in Job /\ JobOK(hook[w]) /\ hook[w].pc = "find"
    BY DEF TypeInv, TypeOK, JobsOK, FindPosition
  <1>2. /\ hook[w].chain \in DOMAIN positions =>
             GetPositionByChainID(hook[w].chain) \in PositionRow
        /\ GetPositionByChainID(hook[w].chain) \in PositionRow \cup {None}
    BY DEF GetPositionByChainID, TypeInv, TypeOK
  <1>3. hook' = [hook EXCEPT ![w] = job]
    BY DEF FindPosition, TypeInv, TypeOK
  <1>4. job \in Job
    BY <1>1, <1>2 DEF Job, HookPC
  <1>5. JobOK(job)
    BY <1>1, <1>2 DEF JobOK, LegIndex, Job
  <1> QED
    BY <1>3, <1>4, <1>5, LocalStepKeepsType
       DEF FindPosition, ledgerVars, TypeInv, TypeOK

LEMMA CreatePositionKeepsType ==
    ASSUME TypeInv, NEW w \in Worker, CreatePosition(w)
    PROVE  TypeInv'
  <1>1. hook[w] \in Job /\ JobOK(hook[w]) /\ hook[w].pc = "insert"
    BY DEF TypeInv, TypeOK, JobsOK, CreatePosition
  <1>2. hook[w].trade \in Trade /\ hook[w].chain \in Chain /\ CurrentLeg(w) \in Leg
    BY <1>1, LegIsLeg DEF JobOK, CurrentLeg, Opens, LegIndex
  <1>3. LegCostBasis(CurrentLeg(w)) \in Int
    BY <1>2 DEF LegCostBasis, Leg
  <1>4. /\ DOMAIN positions \subseteq DOMAIN positions'
        /\ DOMAIN positions' \subseteq Chain
        /\ positions' \in [DOMAIN positions' -> PositionRow]
    BY <1>2, <1>3 DEF CreatePosition, PositionRow, TypeInv, TypeOK
  <1>5. RowsPersist
    BY <1>4, LenProperties DEF RowsPersist, CreatePosition, TypeInv, TypeOK
  <1>6. /\ hook' = [hook EXCEPT ![w] = AfterLeg(hook[w])]
        /\ AfterLeg(hook[w]) \in Job /\ JobOK(AfterLeg(hook[w]))
    BY <1>1, AfterLegOK DEF CreatePosition, NextLeg
  <1>7. TypeOK'
    BY <1>4, <1>6 DEF CreatePosition, NextLeg, TypeInv, TypeOK
  <1>8. JobOK(hook[w])'
    BY <1>1, AfterLegHoldsNoRows DEF CreatePosition
  <1> QED
    BY <1>5, <1>6, <1>7, <1>8, JobsStayOK DEF TypeInv

LEMMA AccumulateCostBasisKeepsType ==
    ASSUME TypeInv, NEW w \in Worker, AccumulateCostBasis(w)
    PROVE  TypeInv'
  <1>1. hook[w] \in Job /\ JobOK(hook[w]) /\ hook[w].pc = "accumulate"
    BY DEF TypeInv, TypeOK, JobsOK, AccumulateCostBasis
  <1>2. hook[w].trade \in Trade /\ hook[w].pos \in PositionRow /\ CurrentLeg(w) \in Leg
    BY <1>1, LegIsLeg DEF JobOK, CurrentLeg, LegIndex
  <1>3. LegCostBasis(CurrentLeg(w)) \in Int
    BY <1>2 DEF LegCostBasis, Leg
  <1>4. /\ DOMAIN positions' = DOMAIN positions
        /\ positions' \in [DOMAIN positions -> PositionRow]
    <2> DEFINE row == [hook[w].pos EXCEPT !.cost = @ + LegCostBasis(CurrentLeg(w))]
    <2>1. row \in PositionRow
      BY <1>2, <1>3 DEF PositionRow
    <2> QED
      BY <2>1 DEF AccumulateCostBasis, TypeInv, TypeOK
  <1>5. RowsPersist
    BY <1>4, LenProperties DEF RowsPersist, AccumulateCostBasis, TypeInv, TypeOK
  <1>6. /\ hook' = [hook EXCEPT ![w] = AfterLeg(hook[w])]
        /\ AfterLeg(hook[w]) \in Job /\ JobOK(AfterLeg(hook[w]))
    BY <1>1, AfterLegOK DEF AccumulateCostBasis, NextLeg
  <1>7. TypeOK'
    BY <1>4, <1>6 DEF AccumulateCostBasis, NextLeg, TypeInv, TypeOK
  <1>8. JobOK(hook[w])'
    BY <1>1, AfterLegHoldsNoRows DEF AccumulateCostBasis
  <1> QED
    BY <1>5, <1>6, <1>7, <1>8, JobsStayOK DEF TypeInv

LEMMA ListOpenLotsKeepsType ==
    ASSUME TypeInv, NEW w \in Worker, ListOpenLots(w)
    PROVE  TypeInv'
  <1> DEFINE open == ListOpenLotsByInstrument(CurrentLeg(w).inst)
             todo == {[lot |-> i, rem |-> lots[i].rem] : i \in open}
             job == [hook[w] EXCEPT !.pc = "match", !.left = CurrentLeg(w).qty,
                                    !.todo = todo]
  <1>1. /\ hook[w] \in Job /\ JobOK(hook[w]) /\ hook[w].pc = "leg"
        /\ hook[w].leg \in LegIndex(hook[w]) /\ hook[w].trade \in Trade
        /\ UNCHANGED ledgerVars
    BY DEF TypeInv, TypeOK, JobsOK, ListOpenLots, JobOK, LegIndex
  <1>2. CASE open = {}
    <2>1. NextLeg(w)
      BY <1>2 DEF ListOpenLots
    <2> QED
      BY <1>1, <2>1, NextLegKeepsType
  <1>3. CASE open # {}
    <2>1. CurrentLeg(w) \in Leg
      BY <1>1, LegIsLeg DEF CurrentLeg, LegIndex
    <2>2. open \subseteq 1..Len(lots) /\ \A i \in open : lots[i] \in LotRow
      BY ElementOfSeq DEF ListOpenLotsByInstrument, TypeInv, TypeOK
    <2>3. todo \subseteq Snapshot /\ \A s \in todo : s.lot \in 1..Len(lots)
      <3> SUFFICES ASSUME NEW i \in open
                   PROVE  [lot |-> i, rem |-> lots[i].rem] \in Snapshot
        BY <2>2
      <3>1. i \in Nat /\ lots[i].rem \in Int
        BY <2>2, LenProperties DEF LotRow, TypeInv, TypeOK
      <3> QED
        BY <3>1 DEF Snapshot
    <2>4. job \in Job
      BY <1>1, <2>1, <2>3 DEF Job, HookPC, Leg
    <2>5. JobOK(job)
      BY <1>1, <2>3 DEF JobOK, LegIndex, Job
    <2>6. hook' = [hook EXCEPT ![w] = job] /\ UNCHANGED <<outcome, failures>>
      BY <1>1, <1>3 DEF ListOpenLots, TypeInv, TypeOK
    <2> QED
      BY <1>1, <2>4, <2>5, <2>6, LocalStepKeepsType DEF TypeInv, TypeOK
  <1> QED
    BY <1>2, <1>3

LEMMA FindPositionForLotKeepsType ==
    ASSUME TypeInv, NEW w \in Worker, FindPositionForLot(w)
    PROVE  TypeInv'
  <1> PICK s \in FirstIn(hook[w].todo) :
         hook' = [hook EXCEPT ![w].pc = "close", ![w].cur = s,
                              ![w].pos = GetPositionByChainID(lots[s.lot].chain)]
    BY DEF FindPositionForLot
  <1> DEFINE job == [hook[w] EXCEPT !.pc = "close", !.cur = s,
                                    !.pos = GetPositionByChainID(lots[s.lot].chain)]
  <1>1. hook[w] \in Job /\ JobOK(hook[w]) /\ hook[w].pc = "match"
    BY DEF TypeInv, TypeOK, JobsOK, FindPositionForLot
  <1>2. s \in hook[w].todo /\ s \in Snapshot
    BY <1>1 DEF FirstIn, Job
  <1>3. /\ GetPositionByChainID(lots[s.lot].chain) \in PositionRow \cup {None}
        /\ GetPositionByChainID(lots[s.lot].chain) # None =>
             lots[s.lot].chain \in DOMAIN positions
    BY DEF GetPositionByChainID, TypeInv, TypeOK
  <1>4. job \in Job
    BY <1>1, <1>2, <1>3 DEF Job, HookPC
  <1>5. JobOK(job)
    BY <1>1, <1>2, <1>3 DEF JobOK, LegIndex, Job
  <1>6. hook' = [hook EXCEPT ![w] = job]
    BY <1>1 DEF TypeInv, TypeOK
  <1> QED
    BY <1>4, <1>5, <1>6, LocalStepKeepsType
       DEF FindPositionForLot, ledgerVars, TypeInv, TypeOK

LEMMA CloseQtyBounds ==
    ASSUME NEW left \in Nat, NEW rem \in Int
    PROVE  /\ CloseQty(left, rem) \in Nat
           /\ CloseQty(left, rem) <= left
           /\ CloseQty(left, rem) <= Abs(rem)
  BY DEF CloseQty, Abs

\* What CloseLot writes, with its local names.
ClosedLot(w) == hook[w].cur.lot
ClosedNow(w) == CloseQty(hook[w].left, hook[w].cur.rem)
RowAfterClose(w) ==
    LET i   == ClosedLot(w)
        rem == NewRemaining(hook[w], lots[i], ClosedNow(w))
    IN [lots[i] EXCEPT !.rem = rem, !.closed = (rem = 0)]

LEMMA CloseLotWrites ==
    ASSUME TypeInv, NEW w \in Worker, CloseLot(w)
    PROVE  /\ hook[w] \in Job /\ JobOK(hook[w]) /\ hook[w].pc = "close"
           /\ hook[w].cur \in hook[w].todo /\ hook[w].cur \in Snapshot
           /\ ClosedLot(w) \in 1..Len(lots) /\ lots[ClosedLot(w)] \in LotRow
           /\ CurrentLeg(w) \in Leg
           /\ ClosedNow(w) \in Nat /\ ClosedNow(w) <= hook[w].left
           /\ lots' = [lots EXCEPT ![ClosedLot(w)] = RowAfterClose(w)]
           /\ RowAfterClose(w) \in LotRow
           /\ hook' = [hook EXCEPT ![w] = AfterClose(hook[w], ClosedNow(w))]
  <1>1. hook[w] \in Job /\ JobOK(hook[w]) /\ hook[w].pc = "close"
    BY DEF TypeInv, TypeOK, JobsOK, CloseLot
  <1>2. /\ hook[w].cur \in hook[w].todo /\ hook[w].cur \in Snapshot
        /\ ClosedLot(w) \in 1..Len(lots)
    BY <1>1 DEF JobOK, Job, ClosedLot
  <1>3. lots[ClosedLot(w)] \in LotRow
    BY <1>2, ElementOfSeq DEF TypeInv, TypeOK
  <1>4. CurrentLeg(w) \in Leg
    BY <1>1, LegIsLeg DEF JobOK, CurrentLeg, LegIndex
  <1>5. ClosedNow(w) \in Nat /\ ClosedNow(w) <= hook[w].left
    BY <1>1, <1>2, CloseQtyBounds DEF ClosedNow, Job, Snapshot
  <1>6. NewRemaining(hook[w], lots[ClosedLot(w)], ClosedNow(w)) \in Int
    BY <1>2, <1>5 DEF NewRemaining, LotDirection, Snapshot
  <1>7. RowAfterClose(w) \in LotRow
    BY <1>3, <1>6 DEF RowAfterClose, LotRow
  <1>8. lots' = [lots EXCEPT ![ClosedLot(w)] = RowAfterClose(w)]
    BY DEF CloseLot, RowAfterClose, ClosedLot, ClosedNow
  <1>9. hook' = [hook EXCEPT ![w] = AfterClose(hook[w], ClosedNow(w))]
    BY DEF CloseLot, ClosedNow
  <1> QED
    BY <1>1, <1>2, <1>3, <1>4, <1>5, <1>7, <1>8, <1>9

LEMMA AfterCloseFields ==
    ASSUME NEW job \in Job, NEW q \in Nat
    PROVE  LET next == AfterClose(job, q)
           IN /\ next.pc = "match" /\ next.trade = job.trade
              /\ next.chain = job.chain /\ next.leg = job.leg
              /\ next.left = job.left - q
              /\ next.todo = job.todo \ {job.cur}
              /\ next.todo \subseteq job.todo
  BY DEF AfterClose, Job

LEMMA CloseLotKeepsType ==
    ASSUME TypeInv, NEW w \in Worker, CloseLot(w)
    PROVE  TypeInv'
  <1> DEFINE i   == ClosedLot(w)
             q   == ClosedNow(w)
             pnl == RealizedPnL(CurrentLeg(w), lots[i], q)
             c   == lots[i].chain
  <1>1. /\ hook[w] \in Job /\ JobOK(hook[w]) /\ hook[w].pc = "close"
        /\ hook[w].cur \in hook[w].todo
        /\ i \in 1..Len(lots) /\ lots[i] \in LotRow /\ CurrentLeg(w) \in Leg
        /\ q \in Nat /\ q <= hook[w].left
        /\ lots' = [lots EXCEPT ![i] = RowAfterClose(w)]
        /\ RowAfterClose(w) \in LotRow
        /\ hook' = [hook EXCEPT ![w] = AfterClose(hook[w], ClosedNow(w))]
    BY CloseLotWrites
  <1>2. /\ lots' \in Seq(LotRow) /\ Len(lots') = Len(lots)
        /\ \A j \in 1..Len(lots) : lots'[j] = IF j = i THEN RowAfterClose(w) ELSE lots[j]
    BY <1>1, ExceptSeq DEF TypeInv, TypeOK
  <1>3. pnl \in Int
    <2>1. /\ CurrentLeg(w).cash \in Int /\ CurrentLeg(w).price \in Int
          /\ LotCashFlowSign(lots[i]) \in Int /\ lots[i].price \in Int /\ q \in Int
      BY <1>1 DEF LotCashFlowSign, Leg, LotRow
    <2> HIDE DEF i, q
    <2> QED
      BY <2>1 DEF RealizedPnL
  <1>4. closings' \in Seq(ClosingRow)
    <2> DEFINE row == [lot |-> i, trade |-> hook[w].trade, leg |-> hook[w].leg,
                       qty |-> q, pnl |-> pnl]
    <2>1. row \in ClosingRow
      BY <1>1, <1>3, LenProperties DEF JobOK, Job, ClosingRow, TypeInv, TypeOK
    <2>2. closings' = Append(closings, row)
      BY DEF CloseLot, ClosedLot, ClosedNow
    <2> QED
      BY <2>1, <2>2 DEF TypeInv, TypeOK
  <1>5. DOMAIN positions' = DOMAIN positions /\ positions' \in [DOMAIN positions -> PositionRow]
    <2>1. CASE hook[w].pos = None
      BY <2>1 DEF CloseLot, TypeInv, TypeOK
    <2>2. CASE hook[w].pos # None
      <3> DEFINE closed == PositionClosed(hook[w], lots', c)
                 time == ClosingTime(hook[w], lots', c)
                 row == [positions[c] EXCEPT !.pnl = hook[w].pos.pnl + pnl, !.closed = closed,
                                             !.closedAt = time]
      <3>1. hook[w].pos \in PositionRow /\ c \in DOMAIN positions
        BY <1>1, <2>2 DEF Job, JobOK, ClosedLot
      <3>2. closed \in BOOLEAN
        BY <3>1 DEF PositionClosed, PositionRow
      <3>3. hook[w].pos.pnl + pnl \in Int /\ positions[c] \in PositionRow
        BY <1>3, <3>1 DEF PositionRow, TypeInv, TypeOK
      <3>6. time \in Nat
        BY <1>1, <3>1, TimeAssumption DEF ClosingTime, PositionRow, Job, JobOK
      <3>4. row \in PositionRow
        BY <3>2, <3>3, <3>6 DEF PositionRow
      <3>5. positions' = [positions EXCEPT ![c] = row]
        BY <2>2 DEF CloseLot, ClosedLot, ClosedNow
      <3> QED
        BY <3>4, <3>5 DEF TypeInv, TypeOK
    <2> QED
      BY <2>1, <2>2
  <1>6. RowsPersist
    <2>1. /\ RowAfterClose(w).inst = lots[i].inst /\ RowAfterClose(w).open = lots[i].open
          /\ RowAfterClose(w).at = lots[i].at /\ RowAfterClose(w).chain = lots[i].chain
      BY <1>1 DEF RowAfterClose, LotRow
    <2>2. Len(lots) \in Nat
      BY LenProperties DEF TypeInv, TypeOK
    <2> QED
      BY <1>2, <1>5, <2>1, <2>2 DEF RowsPersist
  <1>7. AfterClose(hook[w], ClosedNow(w)) \in Job
    <2>1. hook[w].left - q \in Nat
      BY <1>1 DEF Job
    <2> QED
      BY <1>1, <2>1 DEF AfterClose, Job, HookPC, ClosedNow
  <1>8. TypeOK'
    <2>1. UNCHANGED <<outcome, failures>>
      BY DEF CloseLot
    <2>2. hook' \in [Worker -> Job]
      BY <1>1, <1>7 DEF TypeInv, TypeOK
    <2> QED
      BY <1>2, <1>4, <1>5, <2>1, <2>2 DEF TypeInv, TypeOK
  <1>9. JobOK(hook[w])'
    <2>1. hook'[w] = AfterClose(hook[w], ClosedNow(w))
      BY <1>1 DEF TypeInv, TypeOK
    <2>2. /\ hook'[w].pc = "match" /\ hook'[w].trade = hook[w].trade
          /\ hook'[w].chain = hook[w].chain /\ hook'[w].leg = hook[w].leg
          /\ hook'[w].todo \subseteq hook[w].todo
      BY <1>1, <2>1, AfterCloseFields
    <2> QED
      BY <1>1, <1>2, <2>2 DEF JobOK, LegIndex
  <1> QED
    BY <1>1, <1>6, <1>8, <1>9, JobsStayOK DEF TypeInv

LEMMA InitType == Init => TypeInv
  BY IdleJobOK, BoundAssumption, EmptySeq DEF Init, TypeInv, TypeOK, JobsOK

LEMMA NextType ==
    ASSUME TypeInv, [Next]_vars
    PROVE  TypeInv'
  <1>1. ASSUME NEW w \in Worker, Call(w) PROVE TypeInv'
    BY <1>1, CallKeepsType
  <1>2. ASSUME NEW w \in Worker, CutShort(w) PROVE TypeInv'
    BY <1>2, CutShortKeepsType
  <1>3. ASSUME NEW w \in Worker, CreateLot(w) PROVE TypeInv'
    BY <1>3, CreateLotKeepsType
  <1>4. ASSUME NEW w \in Worker, FindPosition(w) PROVE TypeInv'
    BY <1>4, FindPositionKeepsType
  <1>5. ASSUME NEW w \in Worker, CreatePosition(w) PROVE TypeInv'
    BY <1>5, CreatePositionKeepsType
  <1>6. ASSUME NEW w \in Worker, CreatePositionRejected(w) PROVE TypeInv'
    BY <1>6, EndCallKeepsType DEF CreatePositionRejected
  <1>7. ASSUME NEW w \in Worker, AccumulateCostBasis(w) PROVE TypeInv'
    BY <1>7, AccumulateCostBasisKeepsType
  <1>8. ASSUME NEW w \in Worker, ListOpenLots(w) PROVE TypeInv'
    BY <1>8, ListOpenLotsKeepsType
  <1>9. ASSUME NEW w \in Worker, FindPositionForLot(w) PROVE TypeInv'
    BY <1>9, FindPositionForLotKeepsType
  <1>10. ASSUME NEW w \in Worker, CloseLot(w) PROVE TypeInv'
    BY <1>10, CloseLotKeepsType
  <1>11. ASSUME NEW w \in Worker, ClosingMatched(w) PROVE TypeInv'
    BY <1>11, NextLegKeepsType DEF ClosingMatched
  <1>12. ASSUME NEW w \in Worker, OverClose(w) PROVE TypeInv'
    BY <1>12, EndCallKeepsType DEF OverClose
  <1>13. ASSUME NEW w \in Worker, Finish(w) PROVE TypeInv'
    BY <1>13, EndCallKeepsType DEF Finish
  <1>14. CASE UNCHANGED vars
    BY <1>14 DEF vars, TypeInv, TypeOK, JobsOK, JobOK, LegIndex
  <1> QED
    BY <1>1, <1>2, <1>3, <1>4, <1>5, <1>6, <1>7, <1>8, <1>9, <1>10, <1>11,
       <1>12, <1>13, <1>14 DEF Next, HookStep

LEMMA TypeInvHolds == Spec => []TypeInv
  BY InitType, NextType, PTL DEF Spec

\* Every row and every local variable of a call keeps its type, for any number
\* of concurrent calls: in particular the quantity still to be matched never
\* becomes negative and no call refers to a row that does not exist.
THEOREM TypeCorrect == Spec => []TypeOK
  <1>1. TypeInv => TypeOK
    BY DEF TypeInv
  <1> QED
    BY <1>1, TypeInvHolds, PTL

-----------------------------------------------------------------------------
(* Lots stay within their bounds, whatever the interleaving: it is enough   *)
(* that every snapshot, however stale, was itself within the bounds.        *)

Within(rem, open) ==
    /\ open > 0 => rem \in 0..open
    /\ open < 0 => rem \in open..0

Matching(job) == job.pc \in {"match", "close"}

BoundsInv ==
    /\ LotWithinBounds
    /\ \A i \in 1..Len(lots) : lots[i].open # 0
    /\ \A w \in Worker : Matching(hook[w]) =>
          \A s \in hook[w].todo : Within(s.rem, lots[s.lot].open)

\* A step that leaves the lots alone and gives no call a new snapshot.
NoNewSnapshot ==
    /\ lots' = lots
    /\ \A v \in Worker : Matching(hook'[v]) =>
          Matching(hook[v]) /\ hook'[v].todo \subseteq hook[v].todo

LEMMA QuietKeepsBounds ==
    ASSUME BoundsInv, NoNewSnapshot
    PROVE  BoundsInv'
  BY DEF BoundsInv, LotWithinBounds, NoNewSnapshot

LEMMA LotFacts ==
    ASSUME TypeInv
    PROVE  /\ Len(lots) \in Nat
           /\ \A i \in 1..Len(lots) :
                /\ lots[i] \in LotRow
                /\ lots[i].open \in Int /\ lots[i].rem \in Int
                /\ lots[i].closed \in BOOLEAN /\ lots[i].chain \in Chain
  <1>1. lots \in Seq(LotRow)
    BY DEF TypeInv, TypeOK
  <1>2. Len(lots) \in Nat /\ \A i \in 1..Len(lots) : lots[i] \in LotRow
    BY <1>1, LenProperties, ElementOfSeq
  <1> QED
    BY <1>2 DEF LotRow

\* One closing takes a snapshot within the bounds to a remaining quantity
\* within the bounds, on the same side of zero, and to zero exactly when the
\* whole snapshot is taken.
LEMMA RemainingAfterClose ==
    ASSUME NEW open \in Int, NEW rem \in Int, NEW left \in Nat, open # 0,
           Within(rem, open)
    PROVE  LET dir == IF open < 0 THEN -1 ELSE 1
               q   == CloseQty(left, rem)
           IN /\ Within(rem - dir * q, open)
              /\ rem - dir * q = 0 <=> q = Abs(rem)
  BY DEF Within, CloseQty, Abs

LEMMA NewRemainingIsArithmetic ==
    ASSUME NEW w \in Worker
    PROVE  LET lot == lots[ClosedLot(w)]
               dir == IF lot.open < 0 THEN -1 ELSE 1
           IN NewRemaining(hook[w], lot, ClosedNow(w)) = hook[w].cur.rem - dir * ClosedNow(w)
  BY DEF NewRemaining, LotDirection

LEMMA CreateLotKeepsBounds ==
    ASSUME TypeInv, BoundsInv, NEW w \in Worker, CreateLot(w)
    PROVE  BoundsInv'
  <1> DEFINE n == Len(lots) + 1
  <1>1. hook[w].leg \in LegIndex(hook[w]) /\ hook[w].trade \in Trade
    BY DEF CreateLot, TypeInv, JobsOK, JobOK, LegIndex
  <1>2. CurrentLeg(w) \in Leg
    BY <1>1, LegIsLeg DEF CurrentLeg, LegIndex
  <1>3. LotSignedQty(CurrentLeg(w)) \in Int /\ LotSignedQty(CurrentLeg(w)) # 0
    BY <1>2 DEF LotSignedQty, Leg
  <1>4. /\ Len(lots') = n /\ Len(lots) \in Nat
        /\ \A i \in 1..Len(lots) : lots'[i] = lots[i]
        /\ lots'[n].open = LotSignedQty(CurrentLeg(w))
        /\ lots'[n].rem = LotSignedQty(CurrentLeg(w))
        /\ ~lots'[n].closed
    BY LotFacts DEF CreateLot, TypeInv, TypeOK
  <1>5. \A i \in 1..n : i # n => i \in 1..Len(lots)
    BY <1>4
  <1>6. LotWithinBounds' /\ \A i \in 1..Len(lots') : lots'[i].open # 0
    BY <1>3, <1>4, <1>5 DEF BoundsInv, LotWithinBounds
  <1>7. \A v \in Worker : Matching(hook'[v]) =>
          Matching(hook[v]) /\ hook'[v].todo = hook[v].todo
    BY DEF CreateLot, TypeInv, TypeOK, Matching
  <1>8. \A v \in Worker : Matching(hook[v]) =>
          \A s \in hook[v].todo : s.lot \in 1..Len(lots)
    BY DEF TypeInv, JobsOK, JobOK, Matching
  <1> QED
    BY <1>4, <1>6, <1>7, <1>8 DEF BoundsInv

LEMMA ListOpenLotsKeepsBounds ==
    ASSUME TypeInv, BoundsInv, NEW w \in Worker, ListOpenLots(w)
    PROVE  BoundsInv'
  <1>1. lots' = lots
    BY DEF ListOpenLots, ledgerVars
  <1>2. ASSUME NEW v \in Worker, Matching(hook'[v]), NEW s \in hook'[v].todo
        PROVE  Within(s.rem, lots[s.lot].open)
    <2> DEFINE open == ListOpenLotsByInstrument(CurrentLeg(w).inst)
    <2>1. CASE v # w \/ open = {}
      <3>1. hook'[v] = hook[v]
        BY <1>2, <2>1 DEF ListOpenLots, NextLeg, AfterLeg, IdleJob, TypeInv, TypeOK, Matching
      <3> QED
        BY <1>2, <3>1 DEF BoundsInv
    <2>2. CASE v = w /\ open # {}
      <3>1. hook'[w].todo = {[lot |-> i, rem |-> lots[i].rem] : i \in open}
        BY <2>2 DEF ListOpenLots, TypeInv, TypeOK, Job
      <3>2. PICK i \in 1..Len(lots) : s = [lot |-> i, rem |-> lots[i].rem]
        BY <1>2, <2>2, <3>1 DEF ListOpenLotsByInstrument
      <3> QED
        BY <3>2 DEF BoundsInv, LotWithinBounds, Within
    <2> QED
      BY <2>1, <2>2
  <1> QED
    BY <1>1, <1>2 DEF BoundsInv, LotWithinBounds

LEMMA CloseLotKeepsBounds ==
    ASSUME TypeInv, BoundsInv, NEW w \in Worker, CloseLot(w)
    PROVE  BoundsInv'
  <1> DEFINE i == ClosedLot(w)
             rem == NewRemaining(hook[w], lots[i], ClosedNow(w))
  <1>1. /\ hook[w] \in Job /\ hook[w].pc = "close" /\ hook[w].cur \in hook[w].todo
        /\ hook[w].cur \in Snapshot /\ i \in 1..Len(lots) /\ lots[i] \in LotRow
        /\ ClosedNow(w) \in Nat
        /\ lots' = [lots EXCEPT ![i] = RowAfterClose(w)] /\ RowAfterClose(w) \in LotRow
        /\ hook' = [hook EXCEPT ![w] = AfterClose(hook[w], ClosedNow(w))]
    BY CloseLotWrites
  <1>2. /\ Len(lots') = Len(lots)
        /\ \A j \in 1..Len(lots) : lots'[j] = IF j = i THEN RowAfterClose(w) ELSE lots[j]
    BY <1>1, ExceptSeq DEF TypeInv, TypeOK
  <1>3. /\ RowAfterClose(w).open = lots[i].open
        /\ RowAfterClose(w).rem = rem /\ RowAfterClose(w).closed = (rem = 0)
    BY <1>1 DEF RowAfterClose, LotRow
  <1>4. Within(rem, lots[i].open)
    <2>1. Within(hook[w].cur.rem, lots[i].open) /\ lots[i].open # 0
      BY <1>1 DEF BoundsInv, Matching, ClosedLot
    <2>2. /\ lots[i].open \in Int /\ hook[w].cur.rem \in Int /\ hook[w].left \in Nat
      BY <1>1 DEF LotRow, Snapshot, Job
    <2> QED
      BY <2>1, <2>2, RemainingAfterClose, NewRemainingIsArithmetic DEF ClosedNow
  <1>5. LotWithinBounds' /\ \A j \in 1..Len(lots') : lots'[j].open # 0
    <2> SUFFICES ASSUME NEW j \in 1..Len(lots)
                 PROVE  /\ Within(lots'[j].rem, lots'[j].open)
                        /\ lots'[j].closed <=> lots'[j].rem = 0
                        /\ lots'[j].open # 0
      BY <1>2 DEF LotWithinBounds, Within
    <2>1. CASE j = i
      BY <1>2, <1>3, <1>4, <2>1 DEF BoundsInv
    <2>2. CASE j # i
      BY <1>2, <2>2 DEF BoundsInv, LotWithinBounds, Within
    <2> QED
      BY <2>1, <2>2
  <1>6. \A v \in Worker : Matching(hook'[v]) =>
          Matching(hook[v]) /\ hook'[v].todo \subseteq hook[v].todo
    BY <1>1, AfterCloseFields DEF TypeInv, TypeOK, Matching
  <1>7. \A v \in Worker : Matching(hook[v]) =>
          \A s \in hook[v].todo : s.lot \in 1..Len(lots)
    BY DEF TypeInv, JobsOK, JobOK, Matching
  <1>8. \A j \in 1..Len(lots) : lots'[j].open = lots[j].open
    BY <1>2, <1>3
  <1> QED
    BY <1>5, <1>6, <1>7, <1>8 DEF BoundsInv

LEMMA ResetTakesNoSnapshot ==
    ASSUME lots' = lots, NEW w \in Worker, hook'[w].pc \in {"idle", "leg"},
           \A v \in Worker : v # w => hook'[v] = hook[v]
    PROVE  NoNewSnapshot
  BY DEF NoNewSnapshot, Matching

LEMMA NextBounds ==
    ASSUME TypeInv, BoundsInv, [Next]_vars
    PROVE  BoundsInv'
  <1>1. ASSUME NEW w \in Worker, CreateLot(w) PROVE BoundsInv'
    BY <1>1, CreateLotKeepsBounds
  <1>2. ASSUME NEW w \in Worker, ListOpenLots(w) PROVE BoundsInv'
    BY <1>2, ListOpenLotsKeepsBounds
  <1>3. ASSUME NEW w \in Worker, CloseLot(w) PROVE BoundsInv'
    BY <1>3, CloseLotKeepsBounds
  <1>4. ASSUME NEW w \in Worker,
               Call(w) \/ CutShort(w) \/ Finish(w) \/ OverClose(w)
                 \/ CreatePositionRejected(w) \/ CreatePosition(w)
                 \/ AccumulateCostBasis(w) \/ ClosingMatched(w)
        PROVE  NoNewSnapshot
    <2>1. lots' = lots
      BY <1>4 DEF Call, ProcessTrade, CutShort, Finish, OverClose, CreatePositionRejected,
                  CreatePosition, AccumulateCostBasis, ClosingMatched, ledgerVars
    <2>2. IdleJob.pc = "idle" /\ AfterLeg(hook[w]).pc = "leg"
      BY DEF IdleJob, AfterLeg
    <2>3. hook \in [Worker -> Job]
      BY DEF TypeInv, TypeOK
    <2>4. \A v \in Worker : v # w => hook'[v] = hook[v]
      BY <1>4, <2>3 DEF Call, ProcessTrade, CutShort, Finish, OverClose,
         CreatePositionRejected, CreatePosition, AccumulateCostBasis, ClosingMatched,
         EndCall, NextLeg
    <2>5. hook'[w].pc \in {"idle", "leg"}
      <3>1. CASE Call(w)
        BY <2>3, <3>1 DEF Call, ProcessTrade, IdleJob
      <3>2. CASE CutShort(w) \/ Finish(w) \/ OverClose(w) \/ CreatePositionRejected(w)
        BY <2>2, <2>3, <3>2
           DEF CutShort, Finish, OverClose, CreatePositionRejected, EndCall
      <3>3. CASE CreatePosition(w) \/ AccumulateCostBasis(w) \/ ClosingMatched(w)
        BY <2>2, <2>3, <3>3
           DEF CreatePosition, AccumulateCostBasis, ClosingMatched, NextLeg
      <3> QED
        BY <1>4, <3>1, <3>2, <3>3
    <2> QED
      BY <2>1, <2>4, <2>5, ResetTakesNoSnapshot
  <1>5. ASSUME NEW w \in Worker, FindPosition(w) \/ FindPositionForLot(w)
        PROVE  NoNewSnapshot
    <2>1. hook \in [Worker -> Job] /\ hook[w] \in Job
      BY DEF TypeInv, TypeOK
    <2>2. CASE FindPosition(w)
      <3>1. hook'[w].pc \in {"accumulate", "insert"} /\ lots' = lots
        BY <2>1, <2>2 DEF FindPosition, Job
      <3> QED
        BY <2>1, <2>2, <3>1 DEF FindPosition, NoNewSnapshot, Matching
    <2>3. CASE FindPositionForLot(w)
      <3>1. /\ hook'[w].todo = hook[w].todo /\ lots' = lots /\ hook[w].pc = "match"
            /\ \A v \in Worker : v # w => hook'[v] = hook[v]
        BY <2>1, <2>3 DEF FindPositionForLot, Job
      <3> QED
        BY <3>1 DEF NoNewSnapshot, Matching
    <2> QED
      BY <1>5, <2>2, <2>3
  <1>6. CASE UNCHANGED vars
    BY <1>6 DEF vars, BoundsInv, LotWithinBounds
  <1> QED
    BY <1>1, <1>2, <1>3, <1>4, <1>5, <1>6, QuietKeepsBounds DEF Next, HookStep

LEMMA BoundsInvHolds == Spec => []BoundsInv
  <1>1. Init => BoundsInv
    BY DEF Init, BoundsInv, LotWithinBounds, IdleJob, Matching
  <1> QED
    BY <1>1, TypeInvHolds, NextBounds, PTL DEF Spec

\* However calls interleave and wherever they are cut short, the remaining
\* quantity of a lot stays between zero and what was opened, and closed_at is
\* stamped exactly when nothing remains.
THEOREM BoundsHold == Spec => []LotWithinBounds
  <1>1. BoundsInv => LotWithinBounds
    BY DEF BoundsInv
  <1> QED
    BY <1>1, BoundsInvHolds, PTL

-----------------------------------------------------------------------------
(* One call at a time: an open position has an unclosed lot.                *)

OneImport == \A v, w \in Worker : v = w

\* Inside processOpening the lot just created is unclosed; a lot found without
\* a position row still has none when it is closed.
PositionInv ==
    /\ OpenPositionHasOpenLot
    /\ \A w \in Worker :
         /\ hook[w].pc \in {"find", "insert", "accumulate"} =>
              UnclosedLots(lots, hook[w].chain) # {}
         /\ hook[w].pc = "close" /\ hook[w].pos = None =>
              lots[hook[w].cur.lot].chain \notin DOMAIN positions

\* A call that is between legs, or has ended, adds nothing to PositionInv.
LEMMA RestingKeepsPositions ==
    ASSUME OneImport, OpenPositionHasOpenLot', NEW w \in Worker,
           hook'[w].pc \in {"idle", "leg", "match"}
    PROVE  PositionInv'
  BY DEF OneImport, PositionInv

LEMMA LedgerUntouched ==
    ASSUME OpenPositionHasOpenLot, UNCHANGED ledgerVars
    PROVE  OpenPositionHasOpenLot'
  BY DEF OpenPositionHasOpenLot, UnclosedLots, ledgerVars

LEMMA CreateLotKeepsPositions ==
    ASSUME TypeInv, PositionInv, OneImport, NEW w \in Worker, CreateLot(w)
    PROVE  PositionInv'
  <1> DEFINE n == Len(lots) + 1
  <1>1. /\ Len(lots') = n /\ Len(lots) \in Nat
        /\ \A i \in 1..Len(lots) : lots'[i] = lots[i]
        /\ lots'[n].chain = hook[w].chain /\ lots'[n].closed = FALSE
    BY LotFacts DEF CreateLot, TypeInv, TypeOK
  <1>2. \A c : UnclosedLots(lots, c) \subseteq UnclosedLots(lots', c)
    BY <1>1 DEF UnclosedLots
  <1>3. OpenPositionHasOpenLot'
    BY <1>2 DEF CreateLot, PositionInv, OpenPositionHasOpenLot
  <1>4. n \in UnclosedLots(lots', hook[w].chain)
    BY <1>1 DEF UnclosedLots
  <1>5. hook'[w].pc = "find" /\ hook'[w].chain = hook[w].chain
    BY DEF CreateLot, TypeInv, TypeOK, Job
  <1> QED
    BY <1>3, <1>4, <1>5 DEF OneImport, PositionInv

LEMMA FindPositionKeepsPositions ==
    ASSUME TypeInv, PositionInv, OneImport, NEW w \in Worker, FindPosition(w)
    PROVE  PositionInv'
  <1>1. /\ hook'[w].pc \in {"accumulate", "insert"} /\ hook'[w].chain = hook[w].chain
        /\ hook[w].pc = "find" /\ UNCHANGED ledgerVars
    BY DEF FindPosition, ledgerVars, TypeInv, TypeOK, Job
  <1> QED
    BY <1>1, LedgerUntouched DEF OneImport, PositionInv, ledgerVars

LEMMA CreatePositionKeepsPositions ==
    ASSUME TypeInv, PositionInv, OneImport, NEW w \in Worker, CreatePosition(w)
    PROVE  PositionInv'
  <1>1. UnclosedLots(lots', hook[w].chain) # {} /\ lots' = lots
    BY DEF CreatePosition, PositionInv
  <1>2. \A c \in DOMAIN positions' : c # hook[w].chain =>
           c \in DOMAIN positions /\ positions'[c] = positions[c]
    BY DEF CreatePosition
  <1>3. OpenPositionHasOpenLot'
    BY <1>1, <1>2 DEF PositionInv, OpenPositionHasOpenLot
  <1>4. hook'[w].pc = "leg"
    BY DEF CreatePosition, NextLeg, AfterLeg, IdleJob, TypeInv, TypeOK
  <1> QED
    BY <1>3, <1>4, RestingKeepsPositions

LEMMA AccumulateCostBasisKeepsPositions ==
    ASSUME TypeInv, PositionInv, OneImport, NEW w \in Worker, AccumulateCostBasis(w)
    PROVE  PositionInv'
  <1>1. UnclosedLots(lots', hook[w].chain) # {} /\ lots' = lots
    BY DEF AccumulateCostBasis, PositionInv
  <1>2. /\ DOMAIN positions' = DOMAIN positions
        /\ \A c \in DOMAIN positions : c # hook[w].chain => positions'[c] = positions[c]
    BY DEF AccumulateCostBasis, TypeInv, TypeOK
  <1>3. OpenPositionHasOpenLot'
    BY <1>1, <1>2 DEF PositionInv, OpenPositionHasOpenLot
  <1>4. hook'[w].pc = "leg"
    BY DEF AccumulateCostBasis, NextLeg, AfterLeg, IdleJob, TypeInv, TypeOK
  <1> QED
    BY <1>3, <1>4, RestingKeepsPositions

LEMMA FindPositionForLotKeepsPositions ==
    ASSUME TypeInv, PositionInv, OneImport, NEW w \in Worker, FindPositionForLot(w)
    PROVE  PositionInv'
  <1>1. UNCHANGED ledgerVars /\ hook'[w].pc = "close"
    BY DEF FindPositionForLot, ledgerVars, TypeInv, TypeOK, Job
  <1>2. hook'[w].pos = None => lots[hook'[w].cur.lot].chain \notin DOMAIN positions
    <2>1. PICK s \in FirstIn(hook[w].todo) :
            hook' = [hook EXCEPT ![w].pc = "close", ![w].cur = s,
                                 ![w].pos = GetPositionByChainID(lots[s.lot].chain)]
      BY DEF FindPositionForLot
    <2>2. hook'[w].cur = s /\ hook'[w].pos = GetPositionByChainID(lots[s.lot].chain)
      BY <2>1 DEF TypeInv, TypeOK, Job
    <2>3. \A c \in DOMAIN positions : positions[c] # None
      BY NoneAssumption DEF TypeInv, TypeOK
    <2> QED
      BY <2>2, <2>3 DEF GetPositionByChainID
  <1> QED
    BY <1>1, <1>2, LedgerUntouched DEF OneImport, PositionInv, ledgerVars

LEMMA CloseLotKeepsPositions ==
    ASSUME TypeInv, PositionInv, OneImport, NEW w \in Worker, CloseLot(w)
    PROVE  PositionInv'
  <1> DEFINE i == ClosedLot(w)
             c == lots[i].chain
  <1>1. /\ hook[w] \in Job /\ JobOK(hook[w]) /\ hook[w].pc = "close"
        /\ i \in 1..Len(lots) /\ lots[i] \in LotRow /\ ClosedNow(w) \in Nat
        /\ lots' = [lots EXCEPT ![i] = RowAfterClose(w)] /\ RowAfterClose(w) \in LotRow
        /\ hook' = [hook EXCEPT ![w] = AfterClose(hook[w], ClosedNow(w))]
    BY CloseLotWrites
  <1>2. /\ Len(lots') = Len(lots)
        /\ \A j \in 1..Len(lots) : lots'[j] = IF j = i THEN RowAfterClose(w) ELSE lots[j]
        /\ RowAfterClose(w).chain = c
    <2>1. RowAfterClose(w).chain = c
      BY <1>1 DEF RowAfterClose, LotRow
    <2> QED
      BY <1>1, <2>1, ExceptSeq DEF TypeInv, TypeOK
  <1>3. \A d : d # c => UnclosedLots(lots', d) = UnclosedLots(lots, d)
    BY <1>2 DEF UnclosedLots
  <1>4. /\ DOMAIN positions' = DOMAIN positions
        /\ \A d \in DOMAIN positions : d # c => positions'[d] = positions[d]
    BY DEF CloseLot, ClosedLot, TypeInv, TypeOK
  <1>5. c \in DOMAIN positions /\ ~positions'[c].closed => UnclosedLots(lots', c) # {}
    <2> SUFFICES ASSUME c \in DOMAIN positions, ~positions'[c].closed
                 PROVE  UnclosedLots(lots', c) # {}
      OBVIOUS
    <2>1. hook[w].pos # None
      BY <1>1 DEF PositionInv, ClosedLot
    <2> DEFINE closed == PositionClosed(hook[w], lots', c)
    <2>2. positions[c] \in PositionRow
      BY DEF TypeInv, TypeOK
    <2>3. positions'[c].closed = closed
      BY <2>1, <2>2 DEF CloseLot, ClosedLot, TypeInv, TypeOK, PositionRow
    <2> QED
      BY <2>3 DEF PositionClosed
  <1>6. OpenPositionHasOpenLot'
    BY <1>3, <1>4, <1>5 DEF PositionInv, OpenPositionHasOpenLot
  <1>7. hook'[w].pc = "match"
    BY <1>1, AfterCloseFields DEF TypeInv, TypeOK
  <1> QED
    BY <1>6, <1>7, RestingKeepsPositions

\* The steps that leave the ledger alone and the call between statements.
LEMMA QuietKeepsPositions ==
    ASSUME TypeInv, PositionInv, OneImport, NEW w \in Worker,
           \/ Call(w) \/ CutShort(w) \/ Finish(w) \/ OverClose(w)
           \/ CreatePositionRejected(w) \/ ClosingMatched(w) \/ ListOpenLots(w)
    PROVE  PositionInv'
  <1>1. UNCHANGED ledgerVars
    BY DEF Call, ProcessTrade, CutShort, Finish, OverClose, CreatePositionRejected,
           ClosingMatched, ListOpenLots, ledgerVars
  <1>2. hook \in [Worker -> Job] /\ hook[w] \in Job
    BY DEF TypeInv, TypeOK
  <1>3. IdleJob.pc = "idle" /\ AfterLeg(hook[w]).pc = "leg"
    BY DEF IdleJob, AfterLeg
  <1>4. hook'[w].pc \in {"idle", "leg", "match"}
    <2>1. CASE Call(w)
      BY <1>2, <2>1 DEF Call, ProcessTrade, IdleJob
    <2>2. CASE CutShort(w) \/ Finish(w) \/ OverClose(w) \/ CreatePositionRejected(w)
      BY <1>2, <1>3, <2>2 DEF CutShort, Finish, OverClose, CreatePositionRejected, EndCall
    <2>3. CASE ClosingMatched(w)
      BY <1>2, <1>3, <2>3 DEF ClosingMatched, NextLeg
    <2>4. CASE ListOpenLots(w)
      BY <1>2, <1>3, <2>4 DEF ListOpenLots, NextLeg, Job
    <2> QED
      BY <2>1, <2>2, <2>3, <2>4
  <1> QED
    BY <1>1, <1>4, LedgerUntouched, RestingKeepsPositions DEF PositionInv

LEMMA NextPositions ==
    ASSUME TypeInv, PositionInv, OneImport, [Next]_vars
    PROVE  PositionInv'
  <1>1. CASE UNCHANGED vars
    BY <1>1 DEF vars, PositionInv, OpenPositionHasOpenLot, UnclosedLots
  <1> QED
    BY <1>1, CreateLotKeepsPositions, FindPositionKeepsPositions,
       CreatePositionKeepsPositions, AccumulateCostBasisKeepsPositions,
       FindPositionForLotKeepsPositions, CloseLotKeepsPositions, QuietKeepsPositions
       DEF Next, HookStep

\* As long as no two imports run at the same time, a position that is not
\* stamped closed has an unclosed lot, also when calls are cut short between
\* the lot, its position row and the closings.
THEOREM OpenPositionsHaveOpenLots ==
    ASSUME OneImport
    PROVE  Spec => []OpenPositionHasOpenLot
  <1>1. Init => PositionInv
    BY DEF Init, PositionInv, OpenPositionHasOpenLot, IdleJob
  <1>2. TypeInv /\ PositionInv /\ [Next]_vars => PositionInv'
    BY NextPositions
  <1>3. PositionInv => OpenPositionHasOpenLot
    BY DEF PositionInv
  <1> QED
    BY <1>1, <1>2, <1>3, TypeInvHolds, PTL DEF Spec

-----------------------------------------------------------------------------
(* One call at a time: lots are consumed first-in first-out.                *)

\* The snapshot of a closing leg still covers every open lot of its
\* instrument, until the leg is fully matched.
FifoInv ==
    \A w \in Worker : Matching(hook[w]) =>
        /\ \A s \in hook[w].todo : lots[s.lot].inst = CurrentLeg(w).inst
        /\ hook[w].left # 0 =>
             \A i \in 1..Len(lots) :
                lots[i].inst = CurrentLeg(w).inst /\ lots[i].rem # 0 =>
                   \E s \in hook[w].todo : s.lot = i
        /\ hook[w].pc = "close" => hook[w].left # 0 /\ hook[w].cur \in FirstIn(hook[w].todo)

\* The step FifoOrder speaks of.
ClosesOldest ==
    \A i, j \in 1..Len(lots) :
        /\ lots'[i].rem # lots[i].rem
        /\ lots[j].inst = lots[i].inst
        /\ lots[j].at < lots[i].at
        => lots[j].rem = 0

LEMMA RestingKeepsFifo ==
    ASSUME OneImport, NEW w \in Worker, hook'[w].pc \notin {"match", "close"}
    PROVE  FifoInv'
  BY DEF OneImport, FifoInv, Matching

LEMMA ListOpenLotsKeepsFifo ==
    ASSUME TypeInv, OneImport, NEW w \in Worker, ListOpenLots(w)
    PROVE  FifoInv'
  <1> DEFINE open == ListOpenLotsByInstrument(CurrentLeg(w).inst)
  <1>1. hook \in [Worker -> Job] /\ hook[w] \in Job /\ lots' = lots
    BY DEF TypeInv, TypeOK, ListOpenLots, ledgerVars
  <1>2. CASE open = {}
    <2>1. hook'[w].pc = "leg"
      BY <1>1, <1>2 DEF ListOpenLots, NextLeg, AfterLeg, IdleJob
    <2> QED
      BY <2>1, RestingKeepsFifo
  <1>3. CASE open # {}
    <2>1. /\ hook'[w].pc = "match"
          /\ hook'[w].todo = {[lot |-> i, rem |-> lots[i].rem] : i \in open}
          /\ hook'[w].trade = hook[w].trade /\ hook'[w].leg = hook[w].leg
      BY <1>1, <1>3 DEF ListOpenLots, Job
    <2>2. \A s \in hook'[w].todo : lots[s.lot].inst = CurrentLeg(w).inst
      BY <2>1 DEF ListOpenLotsByInstrument
    <2>3. \A i \in 1..Len(lots) : lots[i].inst = CurrentLeg(w).inst /\ lots[i].rem # 0 =>
             \E s \in hook'[w].todo : s.lot = i
      <3> SUFFICES ASSUME NEW i \in 1..Len(lots), lots[i].inst = CurrentLeg(w).inst,
                          lots[i].rem # 0
                   PROVE  \E s \in hook'[w].todo : s.lot = i
        OBVIOUS
      <3>1. [lot |-> i, rem |-> lots[i].rem] \in hook'[w].todo
        BY <2>1 DEF ListOpenLotsByInstrument
      <3> QED
        BY <3>1
    <2>4. CurrentLeg(w)' = CurrentLeg(w)
      BY <2>1 DEF CurrentLeg
    <2> QED
      BY <1>1, <2>1, <2>2, <2>3, <2>4 DEF OneImport, FifoInv
  <1> QED
    BY <1>2, <1>3

LEMMA FindPositionForLotKeepsFifo ==
    ASSUME TypeInv, FifoInv, OneImport, NEW w \in Worker, FindPositionForLot(w)
    PROVE  FifoInv'
  <1>1. hook \in [Worker -> Job] /\ hook[w] \in Job
    BY DEF TypeInv, TypeOK
  <1>2. /\ hook[w].pc = "match" /\ hook'[w].pc = "close" /\ lots' = lots
        /\ hook[w].left # 0 /\ hook'[w].left = hook[w].left
        /\ hook'[w].todo = hook[w].todo /\ hook'[w].cur \in FirstIn(hook[w].todo)
        /\ hook'[w].trade = hook[w].trade /\ hook'[w].leg = hook[w].leg
    BY <1>1 DEF FindPositionForLot, Job
  <1>3. CurrentLeg(w)' = CurrentLeg(w) /\ FirstIn(hook[w].todo)' = FirstIn(hook'[w].todo)
    BY <1>2 DEF CurrentLeg, FirstIn
  <1> QED
    BY <1>2, <1>3 DEF OneImport, FifoInv, FirstIn, Matching

LEMMA CloseLotKeepsFifo ==
    ASSUME TypeInv, BoundsInv, FifoInv, OneImport, NEW w \in Worker, CloseLot(w)
    PROVE  FifoInv' /\ ClosesOldest
  <1> DEFINE i == ClosedLot(w)
             s == hook[w].cur
             q == ClosedNow(w)
             rem == NewRemaining(hook[w], lots[i], q)
  <1>1. /\ hook[w] \in Job /\ hook[w].pc = "close" /\ s \in hook[w].todo
        /\ s \in Snapshot /\ s.lot = i /\ i \in 1..Len(lots) /\ lots[i] \in LotRow
        /\ q \in Nat /\ q <= hook[w].left
        /\ lots' = [lots EXCEPT ![i] = RowAfterClose(w)] /\ RowAfterClose(w) \in LotRow
        /\ hook' = [hook EXCEPT ![w] = AfterClose(hook[w], q)]
    BY CloseLotWrites DEF ClosedLot
  <1>2. /\ Len(lots') = Len(lots)
        /\ \A j \in 1..Len(lots) : lots'[j] = IF j = i THEN RowAfterClose(w) ELSE lots[j]
    BY <1>1, ExceptSeq DEF TypeInv, TypeOK
  <1>3. RowAfterClose(w).inst = lots[i].inst /\ RowAfterClose(w).rem = rem
    BY <1>1 DEF RowAfterClose, LotRow
  <1>4. /\ hook'[w].pc = "match" /\ hook'[w].trade = hook[w].trade
        /\ hook'[w].leg = hook[w].leg /\ hook'[w].left = hook[w].left - q
        /\ hook'[w].todo = hook[w].todo \ {s}
    <2>1. hook'[w] = AfterClose(hook[w], q)
      BY <1>1 DEF TypeInv, TypeOK
    <2> QED
      BY <1>1, <2>1, AfterCloseFields
  <1>5. CurrentLeg(w)' = CurrentLeg(w)
    BY <1>4 DEF CurrentLeg
  <1>6. rem # 0 => hook'[w].left = 0
    <2>1. Within(s.rem, lots[i].open) /\ lots[i].open # 0
      BY <1>1 DEF BoundsInv, Matching
    <2>2. lots[i].open \in Int /\ s.rem \in Int /\ hook[w].left \in Nat
      BY <1>1 DEF LotRow, Snapshot, Job
    <2>3. rem = 0 <=> q = Abs(s.rem)
      BY <2>1, <2>2, RemainingAfterClose, NewRemainingIsArithmetic DEF ClosedNow
    <2>4. q = Abs(s.rem) \/ q = hook[w].left
      BY DEF ClosedNow, CloseQty
    <2> QED
      BY <1>4, <2>2, <2>3, <2>4
  <1>7. \A r \in hook[w].todo : r.lot \in 1..Len(lots)
    BY <1>1 DEF TypeInv, JobsOK, JobOK
  <1>8. FifoInv'
    <2>1. \A r \in hook'[w].todo : lots'[r.lot].inst = CurrentLeg(w).inst
      BY <1>1, <1>2, <1>3, <1>4, <1>7 DEF FifoInv, Matching
    <2>2. ASSUME hook'[w].left # 0, NEW j \in 1..Len(lots),
                 lots'[j].inst = CurrentLeg(w).inst, lots'[j].rem # 0
          PROVE  \E r \in hook'[w].todo : r.lot = j
      <3>1. j # i
        BY <1>2, <1>3, <1>6, <2>2
      <3>2. PICK r \in hook[w].todo : r.lot = j
        BY <1>1, <1>2, <2>2, <3>1 DEF FifoInv, Matching
      <3> QED
        BY <1>1, <1>4, <3>1, <3>2
    <2> QED
      BY <1>2, <1>4, <1>5, <2>1, <2>2 DEF OneImport, FifoInv
  <1>9. ClosesOldest
    <2> SUFFICES ASSUME NEW k \in 1..Len(lots), NEW j \in 1..Len(lots),
                        lots'[k].rem # lots[k].rem, lots[j].inst = lots[k].inst,
                        lots[j].at < lots[k].at, lots[j].rem # 0
                 PROVE  FALSE
      BY DEF ClosesOldest
    <2>1. k = i
      BY <1>2
    <2>2. lots[j].inst = CurrentLeg(w).inst /\ s \in FirstIn(hook[w].todo)
      BY <1>1, <2>1 DEF FifoInv, Matching
    <2>3. PICK r \in hook[w].todo : r.lot = j
      BY <1>1, <2>2 DEF FifoInv, Matching
    <2>4. lots[i].at <= lots[j].at
      BY <1>1, <2>2, <2>3 DEF FirstIn
    <2>5. lots[i].at \in Nat /\ lots[j].at \in Nat
      BY LotFacts, <1>1 DEF LotRow
    <2> QED
      BY <2>1, <2>4, <2>5
  <1> QED
    BY <1>8, <1>9

\* After these steps a call is not in the middle of a closing leg.
LEMMA MovesOffClosing ==
    ASSUME TypeInv, NEW w \in Worker,
           \/ Call(w) \/ CutShort(w) \/ Finish(w) \/ OverClose(w)
           \/ CreatePositionRejected(w) \/ ClosingMatched(w) \/ CreateLot(w)
           \/ FindPosition(w) \/ CreatePosition(w) \/ AccumulateCostBasis(w)
    PROVE  hook'[w].pc \notin {"match", "close"}
  <1>1. hook \in [Worker -> Job] /\ hook[w] \in Job
    BY DEF TypeInv, TypeOK
  <1>2. IdleJob.pc = "idle" /\ AfterLeg(hook[w]).pc = "leg"
    BY DEF IdleJob, AfterLeg
  <1>3. CASE Call(w)
    BY <1>1, <1>3 DEF Call, ProcessTrade, IdleJob
  <1>4. CASE CutShort(w) \/ Finish(w) \/ OverClose(w) \/ CreatePositionRejected(w)
    BY <1>1, <1>2, <1>4 DEF CutShort, Finish, OverClose, CreatePositionRejected, EndCall
  <1>5. CASE ClosingMatched(w) \/ CreatePosition(w) \/ AccumulateCostBasis(w)
    BY <1>1, <1>2, <1>5 DEF ClosingMatched, CreatePosition, AccumulateCostBasis, NextLeg
  <1>6. CASE CreateLot(w) \/ FindPosition(w)
    <2>1. CASE CreateLot(w)
      BY <1>1, <2>1 DEF CreateLot, Job
    <2>2. CASE FindPosition(w)
      <3>1. hook'[w].pc \in {"accumulate", "insert"}
        BY <1>1, <2>2 DEF FindPosition, Job
      <3> QED
        BY <3>1
    <2> QED
      BY <1>6, <2>1, <2>2
  <1> QED
    BY <1>3, <1>4, <1>5, <1>6

LEMMA QuietKeepsFifo ==
    ASSUME TypeInv, OneImport, NEW w \in Worker,
           \/ Call(w) \/ CutShort(w) \/ Finish(w) \/ OverClose(w)
           \/ CreatePositionRejected(w) \/ ClosingMatched(w) \/ CreateLot(w)
           \/ FindPosition(w) \/ CreatePosition(w) \/ AccumulateCostBasis(w)
    PROVE  FifoInv'
  BY MovesOffClosing, RestingKeepsFifo

\* Every step but CloseLot leaves the remaining quantities alone.
LEMMA OnlyCloseLotReduces ==
    ASSUME TypeInv, NEW w \in Worker, Call(w) \/ HookStep(w) \/ CutShort(w), ~CloseLot(w)
    PROVE  ClosesOldest
  <1>1. CASE CreateLot(w)
    <2>1. \A i \in 1..Len(lots) : lots'[i] = lots[i]
      BY <1>1, LotFacts DEF CreateLot, TypeInv, TypeOK
    <2> QED
      BY <2>1 DEF ClosesOldest
  <1>2. CASE ~CreateLot(w)
    <2>1. lots' = lots
      BY <1>2 DEF Call, ProcessTrade, HookStep, CutShort, Finish, OverClose, ListOpenLots,
         CreatePositionRejected, ClosingMatched, FindPosition, CreatePosition,
         AccumulateCostBasis, FindPositionForLot, ledgerVars
    <2> QED
      BY <2>1 DEF ClosesOldest
  <1> QED
    BY <1>1, <1>2

LEMMA NextFifo ==
    ASSUME TypeInv, BoundsInv, FifoInv, OneImport, [Next]_vars
    PROVE  FifoInv' /\ (ClosesOldest \/ UNCHANGED vars)
  <1>1. CASE UNCHANGED vars
    BY <1>1 DEF vars, FifoInv, CurrentLeg, FirstIn, Matching
  <1>2. ASSUME NEW w \in Worker, Call(w) \/ HookStep(w) \/ CutShort(w)
        PROVE  FifoInv' /\ ClosesOldest
    <2>1. CASE CloseLot(w)
      BY <2>1, CloseLotKeepsFifo
    <2>2. CASE ~CloseLot(w)
      <3>1. ClosesOldest
        BY <1>2, <2>2, OnlyCloseLotReduces
      <3>2. FifoInv'
        BY <1>2, <2>2, QuietKeepsFifo, ListOpenLotsKeepsFifo, FindPositionForLotKeepsFifo
           DEF HookStep
      <3> QED
        BY <3>1, <3>2
    <2> QED
      BY <2>1, <2>2
  <1> QED
    BY <1>1, <1>2 DEF Next

LEMMA InitFifo == Init => FifoInv
  BY DEF Init, FifoInv, IdleJob, Matching

\* As long as no two imports run at the same time, a step never reduces a lot
\* while an older lot of the same instrument is open: the snapshot of open lots
\* a closing leg works through covers them all until the leg is matched.
THEOREM LotsCloseInOrder ==
    ASSUME OneImport
    PROVE  Spec => FifoOrder
  <1>1. Init => FifoInv
    BY InitFifo
  <1>2. TypeInv /\ BoundsInv /\ FifoInv /\ [Next]_vars => FifoInv'
    BY NextFifo
  <1>3. TypeInv /\ BoundsInv /\ FifoInv /\ [Next]_vars => [ClosesOldest]_vars
    BY NextFifo
  <1> QED
    BY <1>1, <1>2, <1>3, TypeInvHolds, BoundsInvHolds, PTL
       DEF Spec, FifoOrder, ClosesOldest

-----------------------------------------------------------------------------
(* What the steps of the ledger write.                                      *)

LEMMA ClosingFacts ==
    ASSUME TypeInv
    PROVE  /\ Len(closings) \in Nat
           /\ \A j \in 1..Len(closings) :
                /\ closings[j] \in ClosingRow
                /\ closings[j].qty \in Nat /\ closings[j].pnl \in Int
  <1>1. closings \in Seq(ClosingRow)
    BY DEF TypeInv, TypeOK
  <1>2. Len(closings) \in Nat /\ \A j \in 1..Len(closings) : closings[j] \in ClosingRow
    BY <1>1, LenProperties, ElementOfSeq
  <1> QED
    BY <1>2 DEF ClosingRow

\* Any set of rows of a table is finite.
LEMMA RowsAreFinite ==
    ASSUME NEW n \in Nat, NEW S, S \subseteq 1..n
    PROVE  IsFiniteSet(S)
  <1>1. IsFiniteSet(1..n)
    BY FS_Interval
  <1> QED
    BY <1>1, FS_Subset

\* Lots and closings are written by two actions only.
LEMMA TablesChange ==
    ASSUME [Next]_vars
    PROVE  \/ UNCHANGED <<lots, closings>>
           \/ \E w \in Worker : CreateLot(w) \/ CloseLot(w)
  <1>1. CASE UNCHANGED vars
    BY <1>1 DEF vars
  <1>2. ASSUME NEW w \in Worker, Call(w) \/ HookStep(w) \/ CutShort(w),
               ~CreateLot(w), ~CloseLot(w)
        PROVE  UNCHANGED <<lots, closings>>
    BY <1>2 DEF Call, ProcessTrade, HookStep, CutShort, Finish, OverClose, ListOpenLots,
       CreatePositionRejected, ClosingMatched, FindPosition, CreatePosition,
       AccumulateCostBasis, FindPositionForLot, ledgerVars
  <1> QED
    BY <1>1, <1>2 DEF Next

LEMMA CreateLotWrites ==
    ASSUME TypeInv, NEW w \in Worker, CreateLot(w)
    PROVE  LET n == Len(lots) + 1
           IN /\ hook[w] \in Job /\ hook[w].trade \in Trade /\ hook[w].chain \in Chain
              /\ CurrentLeg(w) \in Leg
              /\ Len(lots') = n /\ lots'[n] \in LotRow
              /\ \A i \in 1..Len(lots) : lots'[i] = lots[i]
              /\ lots'[n].trade = hook[w].trade /\ lots'[n].inst = CurrentLeg(w).inst
              /\ lots'[n].chain = hook[w].chain
              /\ lots'[n].price = CurrentLeg(w).price
              /\ lots'[n].open = LotSignedQty(CurrentLeg(w))
              /\ lots'[n].rem = LotSignedQty(CurrentLeg(w))
              /\ LotSignedQty(CurrentLeg(w)) \in Int /\ LotSignedQty(CurrentLeg(w)) # 0
              /\ closings' = closings
              /\ hook' = [hook EXCEPT ![w].pc = "find"]
  <1>1. hook[w] \in Job /\ JobOK(hook[w]) /\ lots \in Seq(LotRow)
    BY DEF TypeInv, TypeOK, JobsOK
  <1>2. /\ hook[w].trade \in Trade /\ hook[w].chain \in Chain
        /\ hook[w].leg \in LegIndex(hook[w])
    BY <1>1 DEF CreateLot, JobOK, Opens, CurrentLeg, LegIndex
  <1>3. CurrentLeg(w) \in Leg
    BY <1>2, LegIsLeg DEF CurrentLeg, LegIndex
  <1>4. LotSignedQty(CurrentLeg(w)) \in Int /\ LotSignedQty(CurrentLeg(w)) # 0
    BY <1>3 DEF LotSignedQty, Leg
  <1> DEFINE row == [trade |-> hook[w].trade, inst |-> CurrentLeg(w).inst,
                     open |-> LotSignedQty(CurrentLeg(w)),
                     rem |-> LotSignedQty(CurrentLeg(w)),
                     price |-> CurrentLeg(w).price,
                     at |-> ExecutedAt[hook[w].trade],
                     closed |-> FALSE, chain |-> hook[w].chain]
  <1>5. row \in LotRow
    BY <1>2, <1>3, <1>4, TimeAssumption DEF Leg, LotRow
  <1>6. lots' = Append(lots, row)
    BY DEF CreateLot
  <1>7. /\ Len(lots') = Len(lots) + 1 /\ lots'[Len(lots) + 1] = row
        /\ \A i \in 1..Len(lots) : lots'[i] = lots[i]
    <2> HIDE DEF row
    <2> QED BY <1>1, <1>5, <1>6, AppendProperties, LenProperties
  <1> QED
    BY <1>1, <1>2, <1>3, <1>4, <1>5, <1>7 DEF CreateLot

LEMMA ClosingAppended ==
    ASSUME TypeInv, NEW w \in Worker, CloseLot(w)
    PROVE  LET n == Len(closings) + 1
           IN /\ Len(closings') = n /\ closings'[n] \in ClosingRow
              /\ \A j \in 1..Len(closings) : closings'[j] = closings[j]
              /\ closings'[n].lot = ClosedLot(w) /\ closings'[n].trade = hook[w].trade
              /\ closings'[n].leg = hook[w].leg /\ closings'[n].qty = ClosedNow(w)
              /\ closings'[n].pnl =
                    RealizedPnL(CurrentLeg(w), lots[ClosedLot(w)], ClosedNow(w))
              /\ Len(lots') = Len(lots)
              /\ \A i \in 1..Len(lots) :
                    lots'[i] = IF i = ClosedLot(w) THEN RowAfterClose(w) ELSE lots[i]
  <1> DEFINE row == [lot |-> ClosedLot(w), trade |-> hook[w].trade, leg |-> hook[w].leg,
                     qty |-> ClosedNow(w),
                     pnl |-> RealizedPnL(CurrentLeg(w), lots[ClosedLot(w)], ClosedNow(w))]
  <1>1. closings \in Seq(ClosingRow) /\ closings' = Append(closings, row)
    BY DEF CloseLot, ClosedLot, ClosedNow, TypeInv, TypeOK
  <1>2. closings' \in Seq(ClosingRow)
    BY CloseLotKeepsType DEF TypeInv, TypeOK
  <1>3. /\ Len(closings') = Len(closings) + 1 /\ closings'[Len(closings) + 1] = row
        /\ \A j \in 1..Len(closings) : closings'[j] = closings[j]
    <2> HIDE DEF row
    <2> QED BY <1>1, LenProperties
  <1>4. closings'[Len(closings) + 1] \in ClosingRow
    BY <1>2, <1>3, ElementOfSeq, LenProperties, <1>1
  <1>5. /\ Len(lots') = Len(lots)
        /\ \A i \in 1..Len(lots) :
              lots'[i] = IF i = ClosedLot(w) THEN RowAfterClose(w) ELSE lots[i]
    BY CloseLotWrites, ExceptSeq DEF TypeInv, TypeOK
  <1> QED
    BY <1>3, <1>4, <1>5

-----------------------------------------------------------------------------
\* The quantities closed, before and after one more closing.
LEMMA ClosedQtyAfterClose ==
    ASSUME TypeInv, NEW w \in Worker, CloseLot(w), NEW S, S \subseteq 1..Len(closings)
    PROVE  /\ ClosedQty(S) \in Int
           /\ SumFunctionOnSet(QtyOfClosing', S) = ClosedQty(S)
           /\ SumFunctionOnSet(QtyOfClosing', S \cup {Len(closings) + 1})
                 = ClosedQty(S) + ClosedNow(w)
  <1> DEFINE n == Len(closings)
  <1>1. n \in Nat /\ Len(closings') = n + 1
    BY ClosingFacts, ClosingAppended
  <1>2. \A j \in 1..n : QtyOfClosing[j] \in Int /\ QtyOfClosing'[j] = QtyOfClosing[j]
    BY <1>1, ClosingFacts, ClosingAppended DEF QtyOfClosing
  <1>3. QtyOfClosing'[n + 1] = ClosedNow(w) /\ ClosedNow(w) \in Int
    BY <1>1, ClosingAppended, CloseLotWrites DEF QtyOfClosing
  <1> DEFINE F == QtyOfClosing
             G == QtyOfClosing'
             x == n + 1
  <1>4. /\ x \notin S /\ G[x] \in Int
        /\ \A j \in S : F[j] \in Int
        /\ \A j \in S : G[j] = F[j]
    BY <1>1, <1>2, <1>3
  <1>5. IsFiniteSet(S)
    BY <1>1, RowsAreFinite
  <1>6. /\ SumFunctionOnSet(F, S) \in Int
        /\ SumFunctionOnSet(G, S) = SumFunctionOnSet(F, S)
        /\ SumFunctionOnSet(G, S \cup {x}) = SumFunctionOnSet(F, S) + G[x]
    <2> HIDE DEF x, F, G
    <2>1. SumFunctionOnSet(F, S) \in Int
      BY <1>4, <1>5, SumType
    <2>2. SumFunctionOnSet(G, S) = SumFunctionOnSet(F, S)
      BY <1>4, <1>5, SumEqual
    <2>4. \A j \in S : G[j] \in Int
      BY <1>4
    <2>5. G[x] \in Int /\ x \notin S
      BY <1>4
    <2>3. SumFunctionOnSet(G, S \cup {x}) = SumFunctionOnSet(G, S) + G[x]
      BY <2>4, <2>5, <1>5, SumAdd
    <2> QED
      BY <2>1, <2>2, <2>3
  <1> QED
    BY <1>3, <1>6 DEF ClosedQty

-----------------------------------------------------------------------------
(* What a lot has lost is what its closings record.                         *)

\* Closings name lots that exist, and the open lots a closing leg works
\* through still hold what they held when they were read.
SnapshotsFresh ==
    \A w \in Worker : Matching(hook[w]) =>
        \A s \in hook[w].todo : s.rem = lots[s.lot].rem /\ s.rem # 0

ClosingsNameLots == \A j \in 1..Len(closings) : closings[j].lot \in 1..Len(lots)

BalanceInv == LotBalance /\ ClosingsNameLots /\ SnapshotsFresh

\* A call that has just moved to another point than "match" or "close" holds
\* no snapshot.
LEMMA RestingKeepsBalance ==
    ASSUME OneImport, BalanceInv, UNCHANGED <<lots, closings>>, NEW w \in Worker,
           \/ hook'[w].pc \notin {"match", "close"}
           \/ Matching(hook[w]) /\ hook'[w].todo = hook[w].todo
    PROVE  BalanceInv'
  <1>1. SnapshotsFresh'
    BY DEF OneImport, BalanceInv, SnapshotsFresh, Matching
  <1>2. ClosingsNameLots'
    BY DEF BalanceInv, ClosingsNameLots
  <1>3. LotBalance'
    BY DEF BalanceInv, LotBalance, ClosedQty, QtyOfClosing, ClosingsOfLot
  <1> QED
    BY <1>1, <1>2, <1>3 DEF BalanceInv

LEMMA CreateLotKeepsBalance ==
    ASSUME TypeInv, BalanceInv, OneImport, NEW w \in Worker, CreateLot(w)
    PROVE  BalanceInv'
  <1> DEFINE n == Len(lots) + 1
  <1>1. /\ Len(lots) \in Nat /\ Len(lots') = n /\ closings' = closings
        /\ \A i \in 1..Len(lots) : lots'[i] = lots[i]
        /\ lots'[n].open = lots'[n].rem /\ lots'[n].open \in Int
    BY LotFacts, CreateLotWrites
  <1>2. hook'[w].pc = "find"
    BY CreateLotWrites DEF TypeInv, TypeOK, Job
  <1>3. SnapshotsFresh'
    BY <1>2 DEF OneImport, SnapshotsFresh, Matching
  <1>4. ClosingsNameLots'
    BY <1>1 DEF BalanceInv, ClosingsNameLots
  <1>5. QtyOfClosing' = QtyOfClosing
    BY <1>1 DEF QtyOfClosing
  <1>6. ASSUME NEW i \in 1..Len(lots')
        PROVE  Abs(lots'[i].open) - Abs(lots'[i].rem)
                 = SumFunctionOnSet(QtyOfClosing, ClosingsOfLot(i))
    <2>1. CASE i = n
      <3>1. ClosingsOfLot(i) = {}
        BY <1>1, <2>1 DEF ClosingsOfLot, BalanceInv, ClosingsNameLots
      <3>2. SumFunctionOnSet(QtyOfClosing, {}) = 0
        BY SumEmpty
      <3>3. Abs(lots'[i].open) - Abs(lots'[i].rem) = 0
        BY <1>1, <2>1 DEF Abs
      <3> QED
        BY <3>1, <3>2, <3>3
    <2>2. CASE i # n
      <3>1. i \in 1..Len(lots)
        BY <1>1, <2>2
      <3> QED
        BY <1>1, <3>1 DEF BalanceInv, LotBalance, ClosedQty
    <2> QED
      BY <2>1, <2>2
  <1>7. LotBalance'
    BY <1>1, <1>5, <1>6 DEF LotBalance, ClosedQty, ClosingsOfLot
  <1> QED
    BY <1>3, <1>4, <1>7 DEF BalanceInv

\* The row a closing takes from, before and after.
LEMMA CloseTakes ==
    ASSUME TypeInv, BoundsInv, SnapshotsFresh, NEW w \in Worker, CloseLot(w)
    PROVE  LET i == ClosedLot(w)
           IN /\ i \in 1..Len(lots) /\ lots[i].open \in Int /\ lots[i].rem \in Int
              /\ hook[w].cur.rem = lots[i].rem /\ lots[i].rem # 0
              /\ RowAfterClose(w).open = lots[i].open
              /\ RowAfterClose(w).rem \in Int
              /\ Abs(RowAfterClose(w).rem) = Abs(lots[i].rem) - ClosedNow(w)
              /\ ClosedNow(w) \in Nat
              /\ hook[w].left # 0 => ClosedNow(w) # 0
  <1> DEFINE i == ClosedLot(w)
             rem == NewRemaining(hook[w], lots[i], ClosedNow(w))
  <1>1. /\ hook[w] \in Job /\ hook[w].pc = "close" /\ hook[w].cur \in hook[w].todo
        /\ hook[w].cur \in Snapshot /\ i \in 1..Len(lots) /\ lots[i] \in LotRow
        /\ ClosedNow(w) \in Nat
    BY CloseLotWrites
  <1>2. hook[w].cur.rem = lots[i].rem /\ lots[i].rem # 0
    BY <1>1 DEF SnapshotsFresh, Matching, ClosedLot
  <1>3. RowAfterClose(w).open = lots[i].open /\ RowAfterClose(w).rem = rem
    BY <1>1 DEF RowAfterClose, LotRow
  <1>4. lots[i].open \in Int /\ lots[i].rem \in Int /\ hook[w].left \in Nat
    BY <1>1 DEF LotRow, Job
  <1>5. Within(lots[i].rem, lots[i].open) /\ lots[i].open # 0
    BY <1>1 DEF BoundsInv, LotWithinBounds, Within
  <1>6. rem = lots[i].rem - (IF lots[i].open < 0 THEN -1 ELSE 1) * ClosedNow(w)
    BY <1>2, NewRemainingIsArithmetic
  <1>7. ClosedNow(w) = CloseQty(hook[w].left, lots[i].rem)
    BY <1>2 DEF ClosedNow
  <1> DEFINE open == lots[i].open
             r == lots[i].rem
             left == hook[w].left
             q == ClosedNow(w)
  <1>8. /\ Abs(rem) = Abs(r) - q /\ rem \in Int
        /\ left # 0 => q # 0
    <2>1. /\ open \in Int /\ r \in Int /\ left \in Nat /\ open # 0 /\ r # 0
          /\ Within(r, open) /\ rem = r - (IF open < 0 THEN -1 ELSE 1) * q
          /\ q = CloseQty(left, r)
      BY <1>2, <1>4, <1>5, <1>6, <1>7
    <2> HIDE DEF open, r, left, q, rem
    <2>2. CASE open < 0
      BY <2>1, <2>2 DEF Within, CloseQty, Abs
    <2>3. CASE open > 0
      BY <2>1, <2>3 DEF Within, CloseQty, Abs
    <2> QED
      BY <2>1, <2>2, <2>3
  <1> QED
    BY <1>1, <1>2, <1>3, <1>4, <1>8

LEMMA CloseLotKeepsBalance ==
    ASSUME TypeInv, BoundsInv, BalanceInv, OneImport, NEW w \in Worker, CloseLot(w)
    PROVE  BalanceInv'
  <1> DEFINE i == ClosedLot(w)
             n == Len(closings) + 1
  <1>1. /\ Len(closings') = n /\ Len(closings) \in Nat /\ Len(lots') = Len(lots)
        /\ \A j \in 1..Len(closings) : closings'[j] = closings[j]
        /\ closings'[n].lot = i /\ closings'[n].qty = ClosedNow(w)
        /\ \A k \in 1..Len(lots) :
              lots'[k] = IF k = i THEN RowAfterClose(w) ELSE lots[k]
    BY ClosingAppended, ClosingFacts
  <1>2. /\ i \in 1..Len(lots) /\ hook[w].cur.rem = lots[i].rem
        /\ lots[i].open \in Int /\ lots[i].rem \in Int
        /\ RowAfterClose(w).open = lots[i].open
        /\ Abs(RowAfterClose(w).rem) = Abs(lots[i].rem) - ClosedNow(w)
        /\ ClosedNow(w) \in Nat
    BY CloseTakes DEF BalanceInv
  <1>3. /\ hook[w] \in Job /\ hook[w].pc = "close" /\ hook[w].cur \in Snapshot
        /\ \A s \in hook[w].todo : s \in Snapshot /\ s.lot \in 1..Len(lots)
        /\ Matching(hook[w])
    BY CloseLotWrites DEF Job, JobOK, Matching
  <1>4. hook'[w].todo = hook[w].todo \ {hook[w].cur}
    BY CloseLotWrites, AfterCloseFields DEF TypeInv, TypeOK
  <1>5. SnapshotsFresh'
    <2> SUFFICES ASSUME NEW s \in hook'[w].todo
                 PROVE  s.rem = lots'[s.lot].rem /\ s.rem # 0
      BY DEF SnapshotsFresh, OneImport
    <2>1. s \in Snapshot /\ s.lot \in 1..Len(lots) /\ s # hook[w].cur
          /\ s.rem = lots[s.lot].rem /\ s.rem # 0
      BY <1>3, <1>4 DEF BalanceInv, SnapshotsFresh
    <2>2. s.lot # i
      <3> SUFFICES ASSUME s.lot = i PROVE s = hook[w].cur
        BY <2>1
      <3>1. s.rem = hook[w].cur.rem /\ s.lot = hook[w].cur.lot
        BY <1>2, <2>1 DEF ClosedLot
      <3> QED
        BY <1>3, <2>1, <3>1 DEF Snapshot
    <2> QED
      BY <1>1, <2>1, <2>2
  <1>6. ClosingsNameLots'
    <2>1. \A j \in 1..n : j \in 1..Len(closings) \/ j = n
      BY <1>1
    <2> HIDE DEF n
    <2> QED
      BY <1>1, <1>2, <2>1 DEF BalanceInv, ClosingsNameLots
  <1>7. ASSUME NEW k \in 1..Len(lots)
        PROVE  Abs(lots'[k].open) - Abs(lots'[k].rem)
                 = SumFunctionOnSet(QtyOfClosing', ClosingsOfLot(k)')
    <2> DEFINE S == ClosingsOfLot(k)
    <2>1. S \subseteq 1..Len(closings)
      BY DEF ClosingsOfLot
    <2>2. /\ ClosedQty(S) \in Int
          /\ SumFunctionOnSet(QtyOfClosing', S) = ClosedQty(S)
          /\ SumFunctionOnSet(QtyOfClosing', S \cup {n}) = ClosedQty(S) + ClosedNow(w)
      <3> HIDE DEF S
      <3> QED BY <2>1, ClosedQtyAfterClose
    <2>3. Abs(lots[k].open) - Abs(lots[k].rem) = ClosedQty(S)
      BY DEF BalanceInv, LotBalance
    <2>4. CASE k = i
      <3>1. ClosingsOfLot(k)' = S \cup {n}
        BY <1>1, <2>4 DEF ClosingsOfLot
      <3>2. Abs(lots[i].open) \in Int /\ Abs(lots[i].rem) \in Int
        BY <1>2 DEF Abs
      <3> HIDE DEF S, n
      <3> QED
        BY <1>1, <1>2, <2>2, <2>3, <2>4, <3>1, <3>2
    <2>5. CASE k # i
      <3>1. ClosingsOfLot(k)' = S
        BY <1>1, <2>5 DEF ClosingsOfLot
      <3> QED
        BY <1>1, <2>2, <2>3, <2>5, <3>1
    <2> QED
      BY <2>4, <2>5
  <1>8. LotBalance'
    BY <1>1, <1>7 DEF LotBalance, ClosedQty
  <1> QED
    BY <1>5, <1>6, <1>8 DEF BalanceInv

LEMMA ListOpenLotsKeepsBalance ==
    ASSUME TypeInv, BalanceInv, OneImport, NEW w \in Worker, ListOpenLots(w)
    PROVE  BalanceInv'
  <1> DEFINE open == ListOpenLotsByInstrument(CurrentLeg(w).inst)
  <1>1. hook \in [Worker -> Job] /\ hook[w] \in Job /\ UNCHANGED <<lots, closings>>
    BY DEF TypeInv, TypeOK, ListOpenLots, ledgerVars
  <1>2. CASE open = {}
    <2>1. hook'[w].pc = "leg"
      BY <1>1, <1>2 DEF ListOpenLots, NextLeg, AfterLeg, IdleJob
    <2> QED
      BY <1>1, <2>1, RestingKeepsBalance
  <1>3. CASE open # {}
    <2>1. hook'[w].todo = {[lot |-> i, rem |-> lots[i].rem] : i \in open}
      BY <1>1, <1>3 DEF ListOpenLots, Job
    <2>2. \A s \in hook'[w].todo : s.rem = lots[s.lot].rem /\ s.rem # 0
      BY <2>1 DEF ListOpenLotsByInstrument
    <2>3. SnapshotsFresh'
      BY <1>1, <2>2 DEF OneImport, SnapshotsFresh
    <2>4. ClosingsNameLots' /\ LotBalance'
      BY <1>1 DEF BalanceInv, ClosingsNameLots, LotBalance, ClosedQty, QtyOfClosing,
                  ClosingsOfLot
    <2> QED
      BY <2>3, <2>4 DEF BalanceInv
  <1> QED
    BY <1>2, <1>3

LEMMA NextBalance ==
    ASSUME TypeInv, BoundsInv, BalanceInv, OneImport, [Next]_vars
    PROVE  BalanceInv'
  <1>1. CASE UNCHANGED vars
    BY <1>1 DEF vars, BalanceInv, SnapshotsFresh, ClosingsNameLots, LotBalance, ClosedQty,
                QtyOfClosing, ClosingsOfLot, Matching
  <1>2. ASSUME NEW w \in Worker, FindPositionForLot(w) PROVE BalanceInv'
    <2>1. /\ Matching(hook[w]) /\ hook'[w].todo = hook[w].todo
          /\ UNCHANGED <<lots, closings>>
      BY <1>2 DEF FindPositionForLot, Matching, TypeInv, TypeOK, Job
    <2> QED
      BY <2>1, RestingKeepsBalance
  <1>3. ASSUME NEW w \in Worker, ~CreateLot(w), ~CloseLot(w),
               \/ Call(w) \/ CutShort(w) \/ Finish(w) \/ OverClose(w)
               \/ CreatePositionRejected(w) \/ ClosingMatched(w)
               \/ FindPosition(w) \/ CreatePosition(w) \/ AccumulateCostBasis(w)
        PROVE  BalanceInv'
    <2>1. UNCHANGED <<lots, closings>>
      BY <1>3 DEF Call, ProcessTrade, CutShort, Finish, OverClose, CreatePositionRejected,
         ClosingMatched, FindPosition, CreatePosition, AccumulateCostBasis, ledgerVars
    <2>2. hook'[w].pc \notin {"match", "close"}
      BY <1>3, MovesOffClosing
    <2> QED
      BY <2>1, <2>2, RestingKeepsBalance
  <1> QED
    BY <1>1, <1>2, <1>3, CreateLotKeepsBalance, CloseLotKeepsBalance,
       ListOpenLotsKeepsBalance DEF Next, HookStep

LEMMA BalanceInvHolds ==
    ASSUME OneImport
    PROVE  Spec => []BalanceInv
  <1>1. Init => BalanceInv
    BY DEF Init, BalanceInv, SnapshotsFresh, ClosingsNameLots, LotBalance, IdleJob, Matching
  <1>2. TypeInv /\ BoundsInv /\ BalanceInv /\ [Next]_vars => BalanceInv'
    BY NextBalance
  <1> QED
    BY <1>1, <1>2, TypeInvHolds, BoundsInvHolds, PTL DEF Spec

\* As long as no two imports run at the same time, what a lot has lost is
\* exactly what its lot_closings rows record, wherever calls are cut short: the
\* remaining quantity CloseLot computes from its snapshot is the one an SQL
\* decrement of the row would have left.
THEOREM LotsBalance ==
    ASSUME OneImport
    PROVE  Spec => []LotBalance
  <1>1. BalanceInv => LotBalance
    BY DEF BalanceInv
  <1> QED
    BY <1>1, BalanceInvHolds, PTL

-----------------------------------------------------------------------------
(* The ledger implements the abstract inventory.                            *)

LEMMA InventoryTerms ==
    ASSUME TypeInv
    PROVE  /\ \A inst : LotsOf(inst) \subseteq 1..Len(lots) /\ IsFiniteSet(LotsOf(inst))
           /\ \A i \in 1..Len(lots) : QtyHeld[i] \in Nat /\ QtyOpened[i] \in Nat
  <1>1. Len(lots) \in Nat /\ \A inst : LotsOf(inst) \subseteq 1..Len(lots)
    BY LotFacts DEF LotsOf
  <1>2. \A inst : IsFiniteSet(LotsOf(inst))
    BY <1>1, RowsAreFinite
  <1>3. \A i \in 1..Len(lots) : Abs(lots[i].rem) \in Nat /\ Abs(lots[i].open) \in Nat
    BY LotFacts DEF Abs
  <1> QED
    BY <1>1, <1>2, <1>3 DEF QtyHeld, QtyOpened

\* A lot more: its quantity is added to what its instrument holds and has
\* opened, and no closing is charged to it.
LEMMA CreateLotOpens ==
    ASSUME TypeInv, ClosingsNameLots, NEW w \in Worker, CreateLot(w)
    PROVE  AbstractInventory!Open(CurrentLeg(w).inst)
  <1> DEFINE n == Len(lots) + 1
             x == CurrentLeg(w).inst
             a == Abs(LotSignedQty(CurrentLeg(w)))
  <1>1. /\ Len(lots) \in Nat /\ Len(lots') = n /\ closings' = closings
        /\ \A i \in 1..Len(lots) : lots'[i] = lots[i]
        /\ lots'[n].inst = x /\ x \in Instrument
        /\ Abs(lots'[n].open) = a /\ Abs(lots'[n].rem) = a
    BY LotFacts, CreateLotWrites DEF Leg
  <1>2. a \in Nat /\ a > 0
    BY CreateLotWrites DEF Abs
  <1>3. \A y : LotsOf(y)' = IF y = x THEN LotsOf(y) \cup {n} ELSE LotsOf(y)
    BY <1>1 DEF LotsOf
  <1>4. /\ \A i \in 1..Len(lots) : QtyHeld'[i] = QtyHeld[i] /\ QtyOpened'[i] = QtyOpened[i]
        /\ QtyHeld'[n] = a /\ QtyOpened'[n] = a
    BY <1>1 DEF QtyHeld, QtyOpened
  <1>5. /\ \A y : LotsOf(y) \subseteq 1..Len(lots) /\ IsFiniteSet(LotsOf(y)) /\ n \notin LotsOf(y)
        /\ \A i \in 1..Len(lots) : QtyHeld[i] \in Nat /\ QtyOpened[i] \in Nat
    BY <1>1, InventoryTerms
  <1> HIDE DEF n, a, x
  <1>6. ASSUME NEW y
        PROVE  /\ SumFunctionOnSet(QtyHeld, LotsOf(y)) \in Int
               /\ SumFunctionOnSet(QtyOpened, LotsOf(y)) \in Int
               /\ SumFunctionOnSet(QtyHeld', LotsOf(y)) = SumFunctionOnSet(QtyHeld, LotsOf(y))
               /\ SumFunctionOnSet(QtyOpened', LotsOf(y)) = SumFunctionOnSet(QtyOpened, LotsOf(y))
    <2>1. /\ \A i \in LotsOf(y) : QtyHeld[i] \in Int
          /\ \A i \in LotsOf(y) : QtyOpened[i] \in Int
          /\ \A i \in LotsOf(y) : QtyHeld'[i] = QtyHeld[i]
          /\ \A i \in LotsOf(y) : QtyOpened'[i] = QtyOpened[i]
          /\ IsFiniteSet(LotsOf(y))
      BY <1>4, <1>5
    <2>2. SumFunctionOnSet(QtyHeld, LotsOf(y)) \in Int
      BY <2>1, SumType
    <2>3. SumFunctionOnSet(QtyOpened, LotsOf(y)) \in Int
      BY <2>1, SumType
    <2>4. SumFunctionOnSet(QtyHeld', LotsOf(y)) = SumFunctionOnSet(QtyHeld, LotsOf(y))
      BY <2>1, SumEqual
    <2>5. SumFunctionOnSet(QtyOpened', LotsOf(y)) = SumFunctionOnSet(QtyOpened, LotsOf(y))
      BY <2>1, SumEqual
    <2> QED
      BY <2>2, <2>3, <2>4, <2>5
  <1>7. /\ SumFunctionOnSet(QtyHeld', LotsOf(x) \cup {n})
             = SumFunctionOnSet(QtyHeld, LotsOf(x)) + a
        /\ SumFunctionOnSet(QtyOpened', LotsOf(x) \cup {n})
             = SumFunctionOnSet(QtyOpened, LotsOf(x)) + a
    <2>1. /\ IsFiniteSet(LotsOf(x)) /\ n \notin LotsOf(x)
          /\ \A i \in LotsOf(x) : QtyHeld'[i] \in Int
          /\ \A i \in LotsOf(x) : QtyOpened'[i] \in Int
          /\ QtyHeld'[n] \in Int /\ QtyOpened'[n] \in Int
      BY <1>2, <1>4, <1>5
    <2>2. SumFunctionOnSet(QtyHeld', LotsOf(x) \cup {n})
             = SumFunctionOnSet(QtyHeld', LotsOf(x)) + QtyHeld'[n]
      BY <2>1, SumAdd
    <2>3. SumFunctionOnSet(QtyOpened', LotsOf(x) \cup {n})
             = SumFunctionOnSet(QtyOpened', LotsOf(x)) + QtyOpened'[n]
      BY <2>1, SumAdd
    <2> QED
      BY <1>4, <1>6, <2>2, <2>3
  <1>8. Held' = [Held EXCEPT ![x] = Held[x] + a]
    BY <1>3, <1>6, <1>7 DEF Held
  <1>9. Opened' = [Opened EXCEPT ![x] = Opened[x] + a] /\ Opened[x] \in Int
    BY <1>1, <1>3, <1>6, <1>7 DEF Opened
  <1>10. Closed' = Closed
    <2>1. \A j \in 1..Len(closings) : closings[j].lot # n
      BY <1>1 DEF ClosingsNameLots, n
    <2>2. QtyOfClosing' = QtyOfClosing
      BY <1>1 DEF QtyOfClosing
    <2> QED
      BY <1>1, <1>3, <2>1, <2>2 DEF Closed, ClosedQty
  <1>11. Opened'[x] = Opened[x] + a
    BY <1>1, <1>9 DEF Opened
  <1>12. Opened'[x] - Opened[x] = a /\ Opened'[x] > Opened[x]
    BY <1>2, <1>9, <1>11
  <1>13. /\ Opened' = [Opened EXCEPT ![x] = Opened'[x]]
         /\ Held' = [Held EXCEPT ![x] = Held[x] + (Opened'[x] - Opened[x])]
    BY <1>8, <1>9, <1>11, <1>12
  <1>14. AbstractInventory!Open(x)
    BY <1>10, <1>12, <1>13 DEF AbstractInventory!Open
  <1> QED
    BY <1>14 DEF x

\* A closing moves a quantity, at least one and at most what is held, from
\* held to closed.
LEMMA CloseLotCloses ==
    ASSUME TypeInv, BoundsInv, BalanceInv, FifoInv, NEW w \in Worker, CloseLot(w)
    PROVE  \E inst \in Instrument : AbstractInventory!Close(inst)
  <1> DEFINE n == Len(closings) + 1
             i == ClosedLot(w)
             x == lots[i].inst
             q == ClosedNow(w)
             Of(y) == {j \in 1..Len(closings) : closings[j].lot \in LotsOf(y)}
  <1>1. /\ Len(closings') = n /\ Len(closings) \in Nat /\ Len(lots') = Len(lots)
        /\ Len(lots) \in Nat
        /\ \A j \in 1..Len(closings) : closings'[j] = closings[j]
        /\ closings'[n].lot = i
        /\ \A k \in 1..Len(lots) :
              lots'[k] = IF k = i THEN RowAfterClose(w) ELSE lots[k]
    BY ClosingAppended, ClosingFacts, LotFacts
  <1>2. /\ i \in 1..Len(lots) /\ lots[i].rem \in Int
        /\ RowAfterClose(w).open = lots[i].open
        /\ Abs(RowAfterClose(w).rem) = Abs(lots[i].rem) - q
        /\ q \in Nat /\ q # 0
        /\ RowAfterClose(w).rem \in Int
    <2>1. hook[w].left # 0
      BY CloseLotWrites DEF FifoInv, Matching
    <2> QED
      BY <2>1, CloseTakes DEF BalanceInv
  <1>3. RowAfterClose(w).inst = x /\ x \in Instrument
    BY CloseLotWrites DEF RowAfterClose, LotRow
  <1>4. \A y : LotsOf(y)' = LotsOf(y)
    BY <1>1, <1>3 DEF LotsOf
  <1>5. /\ \A k \in 1..Len(lots) : QtyOpened'[k] = QtyOpened[k]
        /\ \A k \in 1..Len(lots) : k # i => QtyHeld'[k] = QtyHeld[k]
        /\ QtyHeld'[i] = QtyHeld[i] - q
    BY <1>1, <1>2 DEF QtyHeld, QtyOpened
  <1>6. /\ \A y : LotsOf(y) \subseteq 1..Len(lots) /\ IsFiniteSet(LotsOf(y))
        /\ \A k \in 1..Len(lots) : QtyHeld[k] \in Nat /\ QtyOpened[k] \in Nat
        /\ i \in LotsOf(x) /\ \A y : y # x => i \notin LotsOf(y)
    BY <1>2, InventoryTerms DEF LotsOf
  <1>7. \A y : Of(y) \subseteq 1..Len(closings)
    OBVIOUS
  <1>8. /\ ClosingsNameLots
        /\ \A y : Of(y)' = IF y = x THEN Of(y) \cup {n} ELSE Of(y)
    <2>1. \A j \in 1..n : j \in 1..Len(closings) \/ j = n
      BY <1>1
    <2> HIDE DEF i
    <2> QED
      BY <1>1, <1>4, <1>6, <2>1 DEF BalanceInv
  <1> HIDE DEF n, q, i, x, Of
  <1>9. Opened' = Opened
    <2> SUFFICES ASSUME NEW y
                 PROVE  SumFunctionOnSet(QtyOpened', LotsOf(y)) = SumFunctionOnSet(QtyOpened, LotsOf(y))
      BY <1>4 DEF Opened
    <2>1. \A k \in LotsOf(y) : QtyOpened'[k] = QtyOpened[k]
      BY <1>5, <1>6
    <2> QED
      BY <1>6, <2>1, SumEqual
  <1>10. ASSUME NEW y, y # x
         PROVE  SumFunctionOnSet(QtyHeld', LotsOf(y)) = SumFunctionOnSet(QtyHeld, LotsOf(y))
    <2>1. \A k \in LotsOf(y) : QtyHeld'[k] = QtyHeld[k]
      BY <1>5, <1>6, <1>10
    <2> QED
      BY <1>6, <2>1, SumEqual
  <1>11. /\ SumFunctionOnSet(QtyHeld', LotsOf(x)) = SumFunctionOnSet(QtyHeld, LotsOf(x)) - q
         /\ SumFunctionOnSet(QtyHeld, LotsOf(x)) \in Nat
         /\ QtyHeld[i] <= SumFunctionOnSet(QtyHeld, LotsOf(x))
    <2>1. /\ \A k \in LotsOf(x) : QtyHeld[k] \in Nat
          /\ IsFiniteSet(LotsOf(x)) /\ i \in LotsOf(x)
      BY <1>6
    <2>2. /\ SumFunctionOnSet(QtyHeld, LotsOf(x)) \in Nat
          /\ \A k \in LotsOf(x) : QtyHeld[k] <= SumFunctionOnSet(QtyHeld, LotsOf(x))
      BY <2>1, SumOfNats
    <2>3. /\ \A k \in LotsOf(x) : QtyHeld[k] \in Int
          /\ QtyHeld'[i] \in Int
          /\ \A k \in LotsOf(x) \ {i} : QtyHeld'[k] = QtyHeld[k]
      BY <1>2, <1>5, <1>6, <2>1
    <2>4. SumFunctionOnSet(QtyHeld', LotsOf(x))
            = SumFunctionOnSet(QtyHeld, LotsOf(x)) - QtyHeld[i] + QtyHeld'[i]
      BY <2>1, <2>3, SumChange
    <2>5. QtyHeld[i] \in Nat
      BY <2>1
    <2> QED
      BY <1>2, <1>5, <2>1, <2>2, <2>4, <2>5
  <1>12. Held' = [Held EXCEPT ![x] = Held[x] - q]
    BY <1>4, <1>10, <1>11 DEF Held
  <1>13. q \in 1..Held[x]
    <2>1. QtyHeld[i] = Abs(lots[i].rem) /\ Abs(lots[i].rem) \in Nat
      BY <1>2 DEF QtyHeld, Abs
    <2>2. Abs(RowAfterClose(w).rem) \in Nat
      BY <1>2 DEF Abs
    <2>3. q <= QtyHeld[i]
      BY <1>2, <2>1, <2>2
    <2>4. Held[x] = SumFunctionOnSet(QtyHeld, LotsOf(x))
      BY <1>3 DEF Held
    <2> QED
      BY <1>2, <1>11, <2>1, <2>3, <2>4
  <1>14. \A y : /\ SumFunctionOnSet(QtyOfClosing', Of(y)) = ClosedQty(Of(y))
                /\ SumFunctionOnSet(QtyOfClosing', Of(y) \cup {n}) = ClosedQty(Of(y)) + q
    BY <1>7, ClosedQtyAfterClose DEF n, q
  <1>15. Closed' = [Closed EXCEPT ![x] = Closed[x] + q]
    <2>1. Closed = [y \in Instrument |-> ClosedQty(Of(y))]
      BY DEF Closed, Of
    <2>2. Closed' = [y \in Instrument |-> SumFunctionOnSet(QtyOfClosing', Of(y)')]
      BY DEF Closed, Of, ClosedQty
    <2> QED
      BY <1>3, <1>8, <1>14, <2>1, <2>2
  <1>16. AbstractInventory!Close(x)
    BY <1>9, <1>12, <1>13, <1>15 DEF AbstractInventory!Close
  <1> QED
    BY <1>3, <1>16

LEMMA OtherStepsStutter ==
    ASSUME UNCHANGED <<lots, closings>>
    PROVE  UNCHANGED AbstractInventory!vars
  BY DEF AbstractInventory!vars, Held, Opened, Closed, LotsOf, QtyHeld, QtyOpened,
         ClosedQty, QtyOfClosing

LEMMA InitInventory == Init => AbstractInventory!Init
  <1> SUFFICES ASSUME Init PROVE AbstractInventory!Init
    OBVIOUS
  <1>1. Len(lots) = 0 /\ Len(closings) = 0
    BY DEF Init
  <1>2. \A inst : LotsOf(inst) = {}
    BY <1>1 DEF LotsOf
  <1>3. {j \in 1..Len(closings) : closings[j].lot \in {}} = {}
    OBVIOUS
  <1>4. /\ SumFunctionOnSet(QtyHeld, {}) = 0
        /\ SumFunctionOnSet(QtyOpened, {}) = 0
        /\ SumFunctionOnSet(QtyOfClosing, {}) = 0
    BY SumEmpty
  <1> QED
    BY <1>2, <1>3, <1>4
       DEF AbstractInventory!Init, AbstractInventory!Zero, Held, Opened, Closed, ClosedQty

LEMMA NextInventory ==
    ASSUME TypeInv, BoundsInv, BalanceInv, FifoInv, [Next]_vars
    PROVE  [AbstractInventory!Next]_(AbstractInventory!vars)
  <1>1. CASE UNCHANGED <<lots, closings>>
    BY <1>1, OtherStepsStutter
  <1>2. ASSUME NEW w \in Worker, CreateLot(w)
        PROVE  AbstractInventory!Next
    <2>1. CurrentLeg(w).inst \in Instrument
      BY <1>2, CreateLotWrites DEF Leg
    <2> QED
      BY <1>2, <2>1, CreateLotOpens DEF BalanceInv, AbstractInventory!Next
  <1>3. ASSUME NEW w \in Worker, CloseLot(w)
        PROVE  AbstractInventory!Next
    BY <1>3, CloseLotCloses DEF AbstractInventory!Next
  <1> QED
    BY <1>1, <1>2, <1>3, TablesChange

\* As long as no two imports run at the same time, the ledger implements the
\* abstract inventory: a created lot opens contracts of its instrument, a
\* closing moves at least one contract and never more than are held from held
\* to closed, and every other step of a call, the failures included, is
\* invisible to it.
THEOREM LedgerImplementsInventory ==
    ASSUME OneImport
    PROVE  Spec => ImplementsInventory
  <1>1. Init => FifoInv
    BY InitFifo
  <1>2. TypeInv /\ BoundsInv /\ FifoInv /\ [Next]_vars => FifoInv'
    BY NextFifo
  <1>3. Init => AbstractInventory!Init
    BY InitInventory
  <1>4. TypeInv /\ BoundsInv /\ BalanceInv /\ FifoInv /\ [Next]_vars
          => [AbstractInventory!Next]_(AbstractInventory!vars)
    BY NextInventory
  <1> QED
    BY <1>1, <1>2, <1>3, <1>4, TypeInvHolds, BoundsInvHolds, BalanceInvHolds, PTL
       DEF Spec, ImplementsInventory, AbstractInventory!Spec

-----------------------------------------------------------------------------
(* Every contract of every leg is accounted for, however calls interleave.  *)

\* The call's current leg has its lot already.
Opening(job) == job.pc \in {"find", "insert", "accumulate"}

LotsOfTrade(t) == {i \in 1..Len(lots) : lots[i].trade = t}
OpeningBefore(t, k) == {l \in 1..Len(Legs[t]) : Legs[t][l].effect = "opening" /\ l < k}
ClosingLegs(t) == {k \in 1..Len(Legs[t]) : Legs[t][k].effect # "opening"}
OpeningLegs(t) == {k \in 1..Len(Legs[t]) : Legs[t][k].effect = "opening"}
LegClosed(t, k) == ClosedQty(ClosingsOfLeg(t, k))
LegComplete(t, k) == LegClosed(t, k) \in {0, Legs[t][k].qty}

\* A running call has applied the legs before its current one, and of that one
\* what the point it stands at says.
InProgress(job) ==
    LET t == job.trade
    IN /\ Cardinality(LotsOfTrade(t)) =
            Cardinality(OpeningBefore(t, job.leg)) + (IF Opening(job) THEN 1 ELSE 0)
       /\ \A k \in ClosingLegs(t) : k < job.leg => LegComplete(t, k)
       /\ \A j \in 1..Len(closings) : closings[j].trade = t =>
             closings[j].leg < job.leg \/ (closings[j].leg = job.leg /\ Matching(job))
       /\ Matching(job) =>
             /\ job.leg \in ClosingLegs(t)
             /\ LegClosed(t, job.leg) = Legs[t][job.leg].qty - job.left

\* What SuccessIsComplete says of a trade whose call has ended; there is never
\* more than one lot per opening leg.
Applied(t) ==
    /\ \A k \in ClosingLegs(t) : LegClosed(t, k) <= Legs[t][k].qty
    /\ Cardinality(LotsOfTrade(t)) <= Cardinality(OpeningLegs(t))
    /\ outcome[t] = "ok" =>
         /\ Cardinality(LotsOfTrade(t)) =
              Cardinality({k \in 1..Len(Legs[t]) : Legs[t][k].effect = "opening"})
         /\ \A k \in ClosingLegs(t) : LegComplete(t, k)

RowsOfKnownTrades ==
    /\ \A i \in 1..Len(lots) : lots[i].trade \in DOMAIN outcome
    /\ \A j \in 1..Len(closings) : closings[j].trade \in DOMAIN outcome

Running(w, t) == hook[w].pc # "idle" /\ hook[w].trade = t

CompleteInv ==
    /\ RowsOfKnownTrades
    /\ \A t : \A w \in Worker : Running(w, t) =>
          t \in DOMAIN outcome /\ outcome[t] = "running" /\ InProgress(hook[w])
    /\ \A t : \A v, w \in Worker : Running(v, t) /\ Running(w, t) => v = w
    /\ \A t \in DOMAIN outcome :
          IF outcome[t] = "running" THEN \E w \in Worker : Running(w, t) ELSE Applied(t)

\* A trade whose rows a step leaves alone.
TradeUntouched(t) ==
    /\ LotsOfTrade(t)' = LotsOfTrade(t)
    /\ \A k : ClosingsOfLeg(t, k)' = ClosingsOfLeg(t, k)
    /\ Len(closings) <= Len(closings')
    /\ \A j \in 1..Len(closings) : closings'[j] = closings[j]
    /\ \A j \in 1..Len(closings') : closings'[j].trade = t => j \in 1..Len(closings)

LEMMA UntouchedLegs ==
    ASSUME TypeInv, TypeInv', NEW t, TradeUntouched(t)
    PROVE  \A k : LegClosed(t, k)' = LegClosed(t, k)
  <1> SUFFICES ASSUME NEW k PROVE LegClosed(t, k)' = LegClosed(t, k)
    OBVIOUS
  <1>1. /\ ClosingsOfLeg(t, k) \subseteq 1..Len(closings)
        /\ Len(closings) \in Nat /\ Len(closings') \in Nat
    BY ClosingFacts DEF ClosingsOfLeg, TypeInv, TypeOK
  <1>2. IsFiniteSet(ClosingsOfLeg(t, k))
    BY <1>1, RowsAreFinite
  <1>3. \A j \in ClosingsOfLeg(t, k) : QtyOfClosing'[j] = QtyOfClosing[j]
    BY <1>1 DEF TradeUntouched, QtyOfClosing
  <1>4. SumFunctionOnSet(QtyOfClosing', ClosingsOfLeg(t, k))
          = SumFunctionOnSet(QtyOfClosing, ClosingsOfLeg(t, k))
    BY <1>2, <1>3, SumEqual
  <1> QED
    BY <1>4 DEF TradeUntouched, LegClosed, ClosedQty

LEMMA UntouchedInProgress ==
    ASSUME TypeInv, TypeInv', NEW v \in Worker, hook'[v] = hook[v], NEW t, hook[v].trade = t,
           TradeUntouched(t), InProgress(hook[v])
    PROVE  InProgress(hook[v])'
  BY UntouchedLegs DEF InProgress, TradeUntouched, LegComplete, ClosingLegs, OpeningBefore,
     Opening, Matching

LEMMA UntouchedApplied ==
    ASSUME TypeInv, TypeInv', NEW t, TradeUntouched(t), Applied(t), outcome'[t] = outcome[t]
    PROVE  Applied(t)'
  BY UntouchedLegs DEF Applied, TradeUntouched, LegComplete, ClosingLegs, OpeningLegs

\* It is enough to look at the call that moves and at its trade.
LEMMA OneCallMoves ==
    ASSUME TypeInv, TypeInv', CompleteInv, NEW w \in Worker, NEW t,
           \A v \in Worker : v # w => hook'[v] = hook[v],
           \A u : u # t => TradeUntouched(u),
           RowsOfKnownTrades',
           DOMAIN outcome' = DOMAIN outcome \cup {t},
           \A u \in DOMAIN outcome : u # t => outcome'[u] = outcome[u],
           \A v \in Worker : v # w => ~Running(v, t),
           hook[w].pc # "idle" => hook[w].trade = t,
           \/ Running(w, t)' /\ outcome'[t] = "running" /\ InProgress(hook[w])'
           \/ hook'[w].pc = "idle" /\ outcome'[t] # "running" /\ Applied(t)'
    PROVE  CompleteInv'
  <1>1. ASSUME NEW v \in Worker, NEW u, Running(v, u)'
        PROVE  u \in DOMAIN outcome' /\ outcome'[u] = "running" /\ InProgress(hook[v])'
    <2>1. CASE v = w
      BY <1>1, <2>1 DEF Running
    <2>2. CASE v # w
      <3>1. Running(v, u) /\ u # t
        BY <1>1, <2>2 DEF Running
      <3> QED
        BY <2>2, <3>1, UntouchedInProgress DEF CompleteInv, Running
    <2> QED
      BY <2>1, <2>2
  <1>2. ASSUME NEW u, NEW v \in Worker, NEW x \in Worker, Running(v, u)', Running(x, u)'
        PROVE  v = x
    <2>1. CASE u = t
      BY <1>2, <2>1 DEF Running
    <2>2. CASE u # t
      <3>1. Running(v, u) /\ Running(x, u)
        BY <1>2, <2>2 DEF Running
      <3> QED
        BY <3>1 DEF CompleteInv
    <2> QED
      BY <2>1, <2>2
  <1>3. ASSUME NEW u \in DOMAIN outcome'
        PROVE  IF outcome'[u] = "running" THEN \E v \in Worker : Running(v, u)' ELSE Applied(u)'
    <2>1. CASE u = t
      BY <2>1 DEF Running
    <2>2. CASE u # t
      <3>1. u \in DOMAIN outcome /\ outcome'[u] = outcome[u]
        BY <2>2
      <3>2. CASE outcome[u] = "running"
        <4>1. PICK v \in Worker : Running(v, u)
          BY <3>1, <3>2 DEF CompleteInv
        <4>2. v # w
          BY <2>2, <4>1 DEF Running
        <4> QED
          BY <3>1, <3>2, <4>1, <4>2 DEF Running
      <3>3. CASE outcome[u] # "running"
        BY <2>2, <3>1, <3>3, UntouchedApplied DEF CompleteInv
      <3> QED
        BY <3>2, <3>3
    <2> QED
      BY <2>1, <2>2
  <1> QED
    BY <1>1, <1>2, <1>3 DEF CompleteInv

LEMMA QuietTables ==
    ASSUME TypeInv, UNCHANGED <<lots, closings>>
    PROVE  \A t : TradeUntouched(t)
  BY ClosingFacts DEF TradeUntouched, LotsOfTrade, ClosingsOfLeg

\* A step inside a call.
LEMMA CallGoesOn ==
    ASSUME TypeInv, TypeInv', CompleteInv, NEW w \in Worker, NEW t, Running(w, t),
           \A v \in Worker : v # w => hook'[v] = hook[v], Running(w, t)',
           \A u : u # t => TradeUntouched(u), RowsOfKnownTrades', outcome' = outcome,
           InProgress(hook[w])'
    PROVE  CompleteInv'
  <1>1. t \in DOMAIN outcome /\ outcome[t] = "running"
    BY DEF CompleteInv
  <1>2. \A v \in Worker : v # w => ~Running(v, t)
    BY DEF CompleteInv
  <1> QED
    BY <1>1, <1>2, OneCallMoves DEF Running

\* No leg has closed more than its quantity.
LEMMA LegsBounded ==
    ASSUME TypeInv, NEW w \in Worker, NEW t, Running(w, t), InProgress(hook[w])
    PROVE  \A k \in ClosingLegs(t) : LegClosed(t, k) <= Legs[t][k].qty
  <1> SUFFICES ASSUME NEW k \in ClosingLegs(t) PROVE LegClosed(t, k) <= Legs[t][k].qty
    OBVIOUS
  <1>1. hook[w] \in Job /\ hook[w].left \in Nat /\ hook[w].leg \in Nat /\ hook[w].trade = t
        /\ t \in Trade
    BY DEF TypeInv, TypeOK, JobsOK, JobOK, Job, Running
  <1>2. Legs[t][k].qty \in Nat /\ k \in Nat
    <2>1. Legs[t][k] \in Leg
      BY <1>1, LegIsLeg DEF ClosingLegs
    <2> QED
      BY <2>1, <1>1, LegsAssumption, LenProperties DEF Leg, ClosingLegs
  <1>3. CASE k < hook[w].leg
    BY <1>1, <1>2, <1>3 DEF InProgress, LegComplete
  <1>4. CASE k = hook[w].leg /\ Matching(hook[w])
    BY <1>1, <1>2, <1>4 DEF InProgress
  <1>5. CASE ~(k < hook[w].leg) /\ ~(k = hook[w].leg /\ Matching(hook[w]))
    <2>1. \A j \in 1..Len(closings) : closings[j].trade = t /\ closings[j].leg = k => FALSE
      BY <1>1, <1>2, <1>5 DEF InProgress
    <2>2. ClosingsOfLeg(t, k) = {}
      BY <2>1 DEF ClosingsOfLeg
    <2>3. LegClosed(t, k) = 0
      BY <2>2, SumEmpty DEF LegClosed, ClosedQty
    <2> QED
      BY <1>2, <2>3
  <1> QED
    BY <1>3, <1>4, <1>5

\* One lot per opening leg at most.
LEMMA LotsBounded ==
    ASSUME TypeInv, NEW w \in Worker, NEW t, Running(w, t), InProgress(hook[w])
    PROVE  Cardinality(LotsOfTrade(t)) <= Cardinality(OpeningLegs(t))
  <1>1. /\ hook[w].leg \in Nat /\ hook[w].trade = t /\ t \in Trade /\ JobOK(hook[w])
        /\ Len(Legs[t]) \in Nat
    BY LegsAssumption, LenProperties DEF TypeInv, TypeOK, JobsOK, JobOK, Job, Running
  <1> DEFINE before == OpeningBefore(t, hook[w].leg)
  <1>2. before \subseteq OpeningLegs(t) /\ IsFiniteSet(OpeningLegs(t))
    BY <1>1, RowsAreFinite DEF OpeningBefore, OpeningLegs
  <1>3. /\ IsFiniteSet(before) /\ Cardinality(before) \in Nat
        /\ Cardinality(OpeningLegs(t)) \in Nat /\ Cardinality(before) <= Cardinality(OpeningLegs(t))
    BY <1>2, FS_Subset, FS_CardinalityType
  <1>4. CASE ~Opening(hook[w])
    BY <1>1, <1>3, <1>4 DEF InProgress
  <1>5. CASE Opening(hook[w])
    <2> DEFINE k == hook[w].leg
    <2>1. k \in OpeningLegs(t) /\ k \notin before
      BY <1>1, <1>5 DEF Opening, JobOK, LegIndex, OpeningLegs, OpeningBefore
    <2>2. Cardinality(before \cup {k}) = Cardinality(before) + 1
      BY <1>3, <2>1, FS_AddElement
    <2>3. Cardinality(before \cup {k}) <= Cardinality(OpeningLegs(t))
      BY <1>2, <2>1, FS_Subset
    <2> QED
      BY <1>1, <1>3, <1>5, <2>2, <2>3 DEF InProgress
  <1> QED
    BY <1>4, <1>5

\* The end of a call: "ok" only past its last leg.
LEMMA CallEnds ==
    ASSUME TypeInv, TypeInv', CompleteInv, NEW w \in Worker, hook[w].pc # "idle",
           UNCHANGED <<lots, closings>>, NEW result \in {"ok", "failed"},
           hook' = [hook EXCEPT ![w] = IdleJob],
           outcome' = [outcome EXCEPT ![hook[w].trade] = result],
           result = "ok" => hook[w].pc = "leg" /\ hook[w].leg > Len(Legs[hook[w].trade])
    PROVE  CompleteInv'
  <1> DEFINE t0 == hook[w].trade
  <1> PICK t : t = t0
    OBVIOUS
  <1>1. /\ Running(w, t) /\ t \in DOMAIN outcome /\ InProgress(hook[w])
        /\ hook[w].leg \in Nat /\ t \in Trade
    BY DEF CompleteInv, Running, TypeInv, TypeOK, JobsOK, JobOK, Job
  <1>2. /\ \A v \in Worker : v # w => hook'[v] = hook[v]
        /\ hook'[w].pc = "idle"
        /\ DOMAIN outcome' = DOMAIN outcome /\ outcome'[t] = result
        /\ \A u \in DOMAIN outcome : u # t => outcome'[u] = outcome[u]
    BY <1>1 DEF TypeInv, TypeOK, IdleJob
  <1>3. RowsOfKnownTrades'
    BY <1>2 DEF CompleteInv, RowsOfKnownTrades
  <1>4. \A k : LegClosed(t, k)' = LegClosed(t, k)
    BY QuietTables, UntouchedLegs
  <1>5. Applied(t)'
    <2>1. \A k \in ClosingLegs(t) : LegClosed(t, k)' <= Legs[t][k].qty
      BY <1>1, <1>4, LegsBounded
    <2>2. ASSUME result = "ok"
          PROVE  /\ Cardinality(LotsOfTrade(t)) =
                      Cardinality({k \in 1..Len(Legs[t]) : Legs[t][k].effect = "opening"})
                 /\ \A k \in ClosingLegs(t) : LegComplete(t, k)
      <3>1. /\ hook[w].pc = "leg" /\ hook[w].leg > Len(Legs[t]) /\ Len(Legs[t]) \in Nat
        BY <1>1, <2>2, LegsAssumption, LenProperties
      <3>2. \A k \in 1..Len(Legs[t]) : k < hook[w].leg
        BY <1>1, <3>1
      <3>3. OpeningBefore(t, hook[w].leg) =
              {k \in 1..Len(Legs[t]) : Legs[t][k].effect = "opening"}
        BY <3>2 DEF OpeningBefore
      <3>4. LotsOfTrade(t) \subseteq 1..Len(lots) /\ Len(lots) \in Nat
        BY LotFacts DEF LotsOfTrade
      <3>5. Cardinality(OpeningBefore(t, hook[w].leg)) \in Nat
        <4>1. OpeningBefore(t, hook[w].leg) \subseteq 1..Len(Legs[t])
          BY DEF OpeningBefore
        <4>2. IsFiniteSet(OpeningBefore(t, hook[w].leg))
          BY <3>1, <4>1, RowsAreFinite
        <4> QED
          BY <4>2, FS_CardinalityType
      <3>6. Cardinality(LotsOfTrade(t)) = Cardinality(OpeningBefore(t, hook[w].leg)) + 0
        BY <1>1, <3>1 DEF InProgress, Opening
      <3>7. \A k \in ClosingLegs(t) : LegComplete(t, k)
        BY <1>1, <3>2 DEF InProgress, ClosingLegs
      <3> QED
        BY <3>3, <3>5, <3>6, <3>7
    <2>3. LotsOfTrade(t)' = LotsOfTrade(t)
      BY DEF LotsOfTrade
    <2>4. Cardinality(LotsOfTrade(t)) <= Cardinality(OpeningLegs(t))
      BY <1>1, LotsBounded
    <2> QED
      BY <1>2, <1>4, <2>1, <2>2, <2>3, <2>4 DEF Applied, LegComplete, ClosingLegs, OpeningLegs
  <1>6. \A v \in Worker : v # w => ~Running(v, t)
    BY <1>1 DEF CompleteInv
  <1> QED
    BY <1>1, <1>2, <1>3, <1>5, <1>6, QuietTables, OneCallMoves DEF Running

LEMMA CallKeepsComplete ==
    ASSUME TypeInv, TypeInv', CompleteInv, NEW w \in Worker, Call(w)
    PROVE  CompleteInv'
  <1> PICK t \in Trade, c \in Chain \cup {None} : ProcessTrade(w, t, c)
    BY DEF Call
  <1>1. /\ hook[w].pc = "idle" /\ t \notin DOMAIN outcome
        /\ hook'[w].pc = "leg" /\ hook'[w].trade = t /\ hook'[w].leg = 1
        /\ \A v \in Worker : v # w => hook'[v] = hook[v]
        /\ DOMAIN outcome' = DOMAIN outcome \cup {t} /\ outcome'[t] = "running"
        /\ \A u \in DOMAIN outcome : u # t => outcome'[u] = outcome[u]
        /\ UNCHANGED <<lots, closings>>
    BY DEF ProcessTrade, IdleJob, TypeInv, TypeOK
  <1>2. RowsOfKnownTrades'
    BY <1>1 DEF CompleteInv, RowsOfKnownTrades
  <1>3. LotsOfTrade(t)' = {} /\ \A j \in 1..Len(closings) : closings[j].trade # t
    BY <1>1 DEF CompleteInv, RowsOfKnownTrades, LotsOfTrade
  <1>4. OpeningBefore(t, 1) = {} /\ \A k \in ClosingLegs(t) : ~(k < 1)
    BY DEF OpeningBefore, ClosingLegs
  <1>5. InProgress(hook[w])'
    <2>1. ~Opening(hook'[w]) /\ ~Matching(hook'[w])
      BY <1>1 DEF Opening, Matching
    <2>2. Cardinality({}) = 0
      BY FS_EmptySet
    <2>3. Cardinality(LotsOfTrade(t)') = Cardinality(OpeningBefore(t, 1)) + 0
      <3>1. /\ Cardinality(LotsOfTrade(t)') = Cardinality({})
            /\ Cardinality(OpeningBefore(t, 1)) = Cardinality({})
        BY <1>3, <1>4, Zenon
      <3> QED
        BY <2>2, <3>1
    <2> QED
      BY <1>1, <1>3, <1>4, <2>1, <2>3 DEF InProgress
  <1>6. \A v \in Worker : v # w => ~Running(v, t)
    BY <1>1 DEF CompleteInv
  <1> QED
    BY <1>1, <1>2, <1>5, <1>6, QuietTables, OneCallMoves DEF Running

\* Moving to another point of the same leg without writing to the tables.
LEMMA SameLegKeepsComplete ==
    ASSUME TypeInv, TypeInv', CompleteInv, NEW w \in Worker, hook[w].pc # "idle",
           UNCHANGED <<lots, closings, outcome>>,
           \A v \in Worker : v # w => hook'[v] = hook[v],
           hook'[w].pc # "idle", hook'[w].trade = hook[w].trade, hook'[w].leg = hook[w].leg,
           hook'[w].left = hook[w].left,
           Opening(hook'[w]) <=> Opening(hook[w]), Matching(hook'[w]) <=> Matching(hook[w])
    PROVE  CompleteInv'
  <1> PICK t : t = hook[w].trade
    OBVIOUS
  <1>1. Running(w, t) /\ Running(w, t)' /\ InProgress(hook[w])
    BY DEF Running, CompleteInv
  <1>2. /\ \A k : LegClosed(t, k)' = LegClosed(t, k)
        /\ LotsOfTrade(t)' = LotsOfTrade(t)
    BY QuietTables, UntouchedLegs DEF LotsOfTrade
  <1>3. InProgress(hook[w])'
    BY <1>1, <1>2 DEF InProgress, LegComplete
  <1>4. RowsOfKnownTrades'
    BY DEF CompleteInv, RowsOfKnownTrades
  <1> QED
    BY <1>1, <1>3, <1>4, QuietTables, CallGoesOn

\* The call is done with its leg: an opening one whose lot exists, or a closing
\* one that was matched in full or not at all.
LEMMA NextLegKeepsComplete ==
    ASSUME TypeInv, TypeInv', CompleteInv, NEW w \in Worker, hook[w].pc # "idle",
           UNCHANGED <<lots, closings>>, NextLeg(w), NEW t, t = hook[w].trade,
           hook[w].leg \in 1..Len(Legs[t]),
           \/ Opening(hook[w])
           \/ ~Opening(hook[w]) /\ hook[w].leg \in ClosingLegs(t) /\ LegComplete(t, hook[w].leg)
    PROVE  CompleteInv'
  <1> DEFINE k0 == hook[w].leg
  <1> PICK k : k = k0
    OBVIOUS
  <1>1. /\ Running(w, t) /\ InProgress(hook[w]) /\ hook[w] \in Job /\ JobOK(hook[w])
        /\ t \in Trade /\ k \in Nat
    BY DEF Running, CompleteInv, TypeInv, TypeOK, JobsOK, JobOK, Job
  <1>2. /\ hook'[w].pc = "leg" /\ hook'[w].trade = t /\ hook'[w].leg = k + 1
        /\ \A v \in Worker : v # w => hook'[v] = hook[v]
        /\ outcome' = outcome
    BY DEF NextLeg, AfterLeg, IdleJob, TypeInv, TypeOK
  <1>3. /\ \A l : LegClosed(t, l)' = LegClosed(t, l)
        /\ LotsOfTrade(t)' = LotsOfTrade(t)
    BY QuietTables, UntouchedLegs DEF LotsOfTrade
  <1>4. /\ OpeningBefore(t, k) \subseteq 1..Len(Legs[t]) /\ k \notin OpeningBefore(t, k)
        /\ Len(Legs[t]) \in Nat /\ \A l \in 1..Len(Legs[t]) : l \in Nat
    BY <1>1, LegsAssumption, LenProperties DEF OpeningBefore
  <1>5. IsFiniteSet(OpeningBefore(t, k))
    BY <1>4, RowsAreFinite
  <1>6. Cardinality(LotsOfTrade(t)) = Cardinality(OpeningBefore(t, k + 1))
    <2>1. Cardinality(OpeningBefore(t, k)) \in Nat
      BY <1>5, FS_CardinalityType
    <2>2. CASE Opening(hook[w])
      <3>1. Legs[t][k].effect = "opening"
        BY <1>1, <2>2 DEF JobOK, Opening
      <3>2. OpeningBefore(t, k + 1) = OpeningBefore(t, k) \cup {k}
        BY <1>1, <1>4, <3>1 DEF OpeningBefore
      <3>3. Cardinality(OpeningBefore(t, k) \cup {k}) = Cardinality(OpeningBefore(t, k)) + 1
        BY <1>4, <1>5, FS_AddElement
      <3>4. Cardinality(LotsOfTrade(t)) = Cardinality(OpeningBefore(t, k)) + 1
        BY <1>1, <2>2 DEF InProgress
      <3> QED
        BY <3>2, <3>3, <3>4
    <2>3. CASE ~Opening(hook[w])
      <3>1. Legs[t][k].effect # "opening"
        BY <2>3 DEF ClosingLegs
      <3>2. OpeningBefore(t, k + 1) = OpeningBefore(t, k)
        BY <1>1, <1>4, <3>1 DEF OpeningBefore
      <3>3. Cardinality(LotsOfTrade(t)) = Cardinality(OpeningBefore(t, k)) + 0
        BY <1>1, <2>3 DEF InProgress
      <3> QED
        BY <2>1, <3>2, <3>3
    <2> QED
      BY <2>2, <2>3
  <1>7. \A l \in ClosingLegs(t) : l < k + 1 => LegComplete(t, l)
    <2>1. \A l \in ClosingLegs(t) : l \in Nat /\ Legs[t][l].effect # "opening"
      BY <1>4 DEF ClosingLegs
    <2>2. Opening(hook[w]) => Legs[t][k].effect = "opening"
      BY <1>1 DEF JobOK, Opening
    <2> QED
      BY <1>1, <2>1, <2>2 DEF InProgress
  <1>8. \A j \in 1..Len(closings) : closings[j].trade = t => closings[j].leg < k + 1
    <2>1. \A j \in 1..Len(closings) : closings[j].leg \in Nat
      BY ClosingFacts DEF ClosingRow
    <2> QED
      BY <1>1, <2>1 DEF InProgress
  <1>9. Cardinality(OpeningBefore(t, k + 1)) \in Nat
    <2>1. OpeningBefore(t, k + 1) \subseteq 1..Len(Legs[t])
      BY DEF OpeningBefore
    <2>2. IsFiniteSet(OpeningBefore(t, k + 1))
      BY <1>4, <2>1, RowsAreFinite
    <2> QED
      BY <2>2, FS_CardinalityType
  <1>10. InProgress(hook[w])'
    BY <1>2, <1>3, <1>6, <1>7, <1>8, <1>9 DEF InProgress, LegComplete, Opening, Matching
  <1>11. RowsOfKnownTrades'
    BY <1>2 DEF CompleteInv, RowsOfKnownTrades
  <1> QED
    BY <1>1, <1>2, <1>10, <1>11, QuietTables, CallGoesOn DEF Running

LEMMA ListOpenLotsKeepsComplete ==
    ASSUME TypeInv, TypeInv', CompleteInv, NEW w \in Worker, ListOpenLots(w)
    PROVE  CompleteInv'
  <1> DEFINE k0 == hook[w].leg
             t0 == hook[w].trade
             open == ListOpenLotsByInstrument(CurrentLeg(w).inst)
  <1> PICK t, k : t = t0 /\ k = k0
    OBVIOUS
  <1>1. /\ Running(w, t) /\ InProgress(hook[w]) /\ hook[w].pc = "leg"
        /\ UNCHANGED <<lots, closings>> /\ hook[w] \in Job /\ t \in Trade
        /\ k \in 1..Len(Legs[t]) /\ k \in ClosingLegs(t)
    BY DEF ListOpenLots, Running, CompleteInv, ledgerVars, CurrentLeg, ClosingLegs,
           TypeInv, TypeOK, JobsOK, JobOK
  <1>2. LegClosed(t, k) = 0
    <2>1. k \in Nat
      BY <1>1 DEF Job
    <2>2. \A j \in 1..Len(closings) : ~(closings[j].trade = t /\ closings[j].leg = k)
      BY <1>1, <2>1 DEF InProgress, Matching
    <2>3. ClosingsOfLeg(t, k) = {}
      BY <2>2 DEF ClosingsOfLeg
    <2> QED
      BY <2>3, SumEmpty DEF LegClosed, ClosedQty
  <1>3. CASE open = {}
    <2>1. NextLeg(w)
      BY <1>3 DEF ListOpenLots
    <2> QED
      BY <1>1, <1>2, <2>1, NextLegKeepsComplete DEF Opening, LegComplete
  <1>4. CASE open # {}
    <2>1. /\ hook'[w].pc = "match" /\ hook'[w].trade = t /\ hook'[w].leg = k
          /\ hook'[w].left = Legs[t][k].qty
          /\ \A v \in Worker : v # w => hook'[v] = hook[v]
          /\ outcome' = outcome
      BY <1>1, <1>4 DEF ListOpenLots, CurrentLeg, TypeInv, TypeOK, Job
    <2>2. /\ \A l : LegClosed(t, l)' = LegClosed(t, l)
          /\ LotsOfTrade(t)' = LotsOfTrade(t)
      BY <1>1, QuietTables, UntouchedLegs DEF LotsOfTrade
    <2>3. Legs[t][k].qty \in Nat
      BY <1>1, LegIsLeg DEF Leg
    <2>4. /\ ~Opening(hook[w]) /\ ~Opening(hook'[w])
          /\ ~Matching(hook[w]) /\ Matching(hook'[w])
      BY <1>1, <2>1 DEF Opening, Matching
    <2>5. InProgress(hook[w])'
      BY <1>1, <1>2, <2>1, <2>2, <2>3, <2>4 DEF InProgress, LegComplete
    <2>6. RowsOfKnownTrades'
      BY <1>1, <2>1 DEF CompleteInv, RowsOfKnownTrades
    <2> QED
      BY <1>1, <2>1, <2>5, <2>6, QuietTables, CallGoesOn DEF Running
  <1> QED
    BY <1>3, <1>4

LEMMA CreateLotKeepsComplete ==
    ASSUME TypeInv, TypeInv', CompleteInv, NEW w \in Worker, CreateLot(w)
    PROVE  CompleteInv'
  <1> DEFINE n == Len(lots) + 1
             t0 == hook[w].trade
  <1> PICK t : t = t0
    OBVIOUS
  <1>1. /\ Running(w, t) /\ InProgress(hook[w]) /\ hook[w].pc = "leg"
        /\ t \in DOMAIN outcome
        /\ hook'[w].pc = "find" /\ hook'[w].trade = t /\ hook'[w].leg = hook[w].leg
        /\ \A v \in Worker : v # w => hook'[v] = hook[v]
        /\ outcome' = outcome /\ closings' = closings
    BY DEF CreateLot, Running, CompleteInv, TypeInv, TypeOK, Job
  <1>2. /\ Len(lots) \in Nat /\ Len(lots') = n /\ lots'[n].trade = t
        /\ \A i \in 1..Len(lots) : lots'[i] = lots[i]
    BY LotFacts, CreateLotWrites
  <1>3. \A u : LotsOfTrade(u)' = IF u = t THEN LotsOfTrade(u) \cup {n} ELSE LotsOfTrade(u)
    BY <1>2 DEF LotsOfTrade
  <1>4. /\ \A u, k : ClosingsOfLeg(u, k)' = ClosingsOfLeg(u, k)
        /\ \A u, k : LegClosed(u, k)' = LegClosed(u, k)
    BY <1>1 DEF ClosingsOfLeg, LegClosed, ClosedQty, QtyOfClosing
  <1>5. \A u : u # t => TradeUntouched(u)
    BY <1>1, <1>3, <1>4, ClosingFacts DEF TradeUntouched
  <1>6. RowsOfKnownTrades'
    <2>1. \A i \in 1..n : i \in 1..Len(lots) \/ i = n
      BY <1>2
    <2> QED
      BY <1>1, <1>2, <2>1 DEF CompleteInv, RowsOfKnownTrades
  <1>7. Cardinality(LotsOfTrade(t) \cup {n}) = Cardinality(LotsOfTrade(t)) + 1
    <2>1. LotsOfTrade(t) \subseteq 1..Len(lots) /\ n \notin LotsOfTrade(t)
      BY <1>2 DEF LotsOfTrade
    <2>2. IsFiniteSet(LotsOfTrade(t))
      BY <1>2, <2>1, RowsAreFinite
    <2> HIDE DEF n
    <2> QED
      BY <2>1, <2>2, FS_AddElement
  <1>8. Cardinality(OpeningBefore(t, hook[w].leg)) \in Nat
    <2>1. /\ OpeningBefore(t, hook[w].leg) \subseteq 1..Len(Legs[t])
          /\ t \in Trade /\ Len(Legs[t]) \in Nat
      BY CreateLotWrites, LegsAssumption, LenProperties DEF OpeningBefore
    <2>2. IsFiniteSet(OpeningBefore(t, hook[w].leg))
      BY <2>1, RowsAreFinite
    <2> QED
      BY <2>2, FS_CardinalityType
  <1>9. InProgress(hook[w])'
    <2>1. /\ ~Opening(hook[w]) /\ Opening(hook'[w])
          /\ ~Matching(hook[w]) /\ ~Matching(hook'[w])
      BY <1>1 DEF Opening, Matching
    <2>2. Cardinality(LotsOfTrade(t)) = Cardinality(OpeningBefore(t, hook[w].leg)) + 0
      BY <1>1, <2>1 DEF InProgress, Running
    <2>3. Cardinality(LotsOfTrade(t)') = Cardinality(OpeningBefore(t, hook[w].leg)) + 1
      <3>1. LotsOfTrade(t)' = LotsOfTrade(t) \cup {n}
        BY <1>3
      <3>2. Cardinality(LotsOfTrade(t)') = Cardinality(LotsOfTrade(t) \cup {n})
        BY <3>1, Zenon
      <3> QED
        BY <1>7, <1>8, <2>2, <3>2
    <2> QED
      BY <1>1, <1>4, <2>1, <2>3 DEF InProgress, LegComplete, Running
  <1> QED
    BY <1>1, <1>5, <1>6, <1>9, CallGoesOn DEF Running

LEMMA CloseLotKeepsComplete ==
    ASSUME TypeInv, TypeInv', CompleteInv, NEW w \in Worker, CloseLot(w)
    PROVE  CompleteInv'
  <1> DEFINE n == Len(closings) + 1
             t0 == hook[w].trade
             k0 == hook[w].leg
             q == ClosedNow(w)
  <1> PICK t, k : t = t0 /\ k = k0
    OBVIOUS
  <1>1. /\ hook[w] \in Job /\ hook[w].pc = "close" /\ q \in Nat /\ hook[w].left \in Nat
        /\ hook'[w] = AfterClose(hook[w], q)
        /\ \A v \in Worker : v # w => hook'[v] = hook[v]
    BY CloseLotWrites DEF TypeInv, TypeOK, Job
  <1>2. /\ Running(w, t) /\ InProgress(hook[w]) /\ t \in DOMAIN outcome /\ t \in Trade
        /\ hook[w].trade = t /\ hook[w].leg = k
        /\ hook'[w].pc = "match" /\ hook'[w].trade = t /\ hook'[w].leg = k
        /\ hook'[w].left = hook[w].left - q
    <2>1. Running(w, t) /\ hook[w].trade = t /\ hook[w].leg = k
      BY <1>1 DEF Running
    <2>2. InProgress(hook[w]) /\ t \in DOMAIN outcome
      BY <2>1 DEF CompleteInv
    <2>3. t \in Trade
      BY <2>2 DEF TypeInv, TypeOK
    <2>4. /\ hook'[w].pc = "match" /\ hook'[w].trade = t /\ hook'[w].leg = k
          /\ hook'[w].left = hook[w].left - q
      BY <1>1, <2>1, AfterCloseFields
    <2> QED
      BY <2>1, <2>2, <2>3, <2>4
  <1>3. outcome' = outcome
    BY DEF CloseLot
  <1>4. /\ Len(closings) \in Nat /\ Len(closings') = n
        /\ \A j \in 1..Len(closings) : closings'[j] = closings[j]
        /\ closings'[n].trade = t /\ closings'[n].leg = k
        /\ Len(lots') = Len(lots)
        /\ \A i \in 1..Len(lots) : lots'[i].trade = lots[i].trade
    <2>1. RowAfterClose(w).trade = lots[ClosedLot(w)].trade
      BY CloseLotWrites DEF RowAfterClose, LotRow
    <2> QED
      BY <2>1, ClosingFacts, ClosingAppended
  <1>5. \A j \in 1..n : j \in 1..Len(closings) \/ j = n
    BY <1>4
  <1>6. \A u : LotsOfTrade(u)' = LotsOfTrade(u)
    BY <1>4 DEF LotsOfTrade
  <1>7. \A u, l : ClosingsOfLeg(u, l)' = IF u = t /\ l = k THEN ClosingsOfLeg(u, l) \cup {n}
                                          ELSE ClosingsOfLeg(u, l)
    BY <1>4, <1>5 DEF ClosingsOfLeg
  <1>8. \A u : u # t => TradeUntouched(u)
    BY <1>4, <1>5, <1>6, <1>7 DEF TradeUntouched
  <1>9. RowsOfKnownTrades'
    BY <1>2, <1>3, <1>4, <1>5 DEF CompleteInv, RowsOfKnownTrades
  <1>10. /\ \A l : l # k => LegClosed(t, l)' = LegClosed(t, l)
         /\ LegClosed(t, k)' = LegClosed(t, k) + q
    <2>1. ASSUME NEW l
          PROVE  /\ SumFunctionOnSet(QtyOfClosing', ClosingsOfLeg(t, l))
                       = ClosedQty(ClosingsOfLeg(t, l))
                 /\ SumFunctionOnSet(QtyOfClosing', ClosingsOfLeg(t, l) \cup {n})
                       = ClosedQty(ClosingsOfLeg(t, l)) + q
      <3>1. ClosingsOfLeg(t, l) \subseteq 1..Len(closings)
        BY DEF ClosingsOfLeg
      <3> QED
        BY <3>1, ClosedQtyAfterClose
    <2> QED
      BY <1>7, <2>1 DEF LegClosed, ClosedQty
  <1>11. InProgress(hook[w])'
    <2>1. /\ ~Opening(hook[w]) /\ ~Opening(hook'[w])
          /\ Matching(hook[w]) /\ Matching(hook'[w])
      BY <1>1, <1>2 DEF Opening, Matching
    <2>2. \A j \in 1..Len(closings') : closings'[j].trade = t =>
             closings'[j].leg < k \/ closings'[j].leg = k
      BY <1>2, <1>4, <1>5, <2>1 DEF InProgress
    <2>3. /\ k \in ClosingLegs(t) /\ LegClosed(t, k) = Legs[t][k].qty - hook[w].left
          /\ Legs[t][k].qty \in Nat /\ k \in Nat
      <3>1. k \in ClosingLegs(t) /\ LegClosed(t, k) = Legs[t][k].qty - hook[w].left
        BY <1>2, <2>1 DEF InProgress
      <3>2. Legs[t][k] \in Leg
        BY <1>2, <3>1, LegIsLeg DEF ClosingLegs
      <3> QED
        BY <1>1, <1>2, <3>1, <3>2 DEF Leg, Job
    <2>4. LegClosed(t, k)' = Legs[t][k].qty - hook'[w].left
      BY <1>1, <1>2, <1>10, <2>3
    <2>5. \A l \in ClosingLegs(t) : l < k => LegComplete(t, l)'
      BY <1>2, <1>10, <2>3 DEF InProgress, LegComplete
    <2> QED
      BY <1>2, <1>6, <2>1, <2>2, <2>3, <2>4, <2>5 DEF InProgress
  <1> QED
    BY <1>1, <1>2, <1>3, <1>8, <1>9, <1>11, CallGoesOn DEF Running

LEMMA NextComplete ==
    ASSUME TypeInv, TypeInv', CompleteInv, [Next]_vars
    PROVE  CompleteInv'
  <1>1. CASE UNCHANGED vars
    <2>1. UNCHANGED <<lots, closings, hook, outcome>>
      BY <1>1 DEF vars
    <2>2. \A t : TradeUntouched(t)
      BY <2>1, QuietTables
    <2>3. RowsOfKnownTrades' /\ \A t : \A w \in Worker : Running(w, t)' <=> Running(w, t)
      BY <2>1 DEF CompleteInv, RowsOfKnownTrades, Running
    <2>4. \A t : \A w \in Worker : Running(w, t) => InProgress(hook[w])'
      BY <2>1, <2>2, UntouchedInProgress DEF CompleteInv, Running
    <2>5. \A t \in DOMAIN outcome : Applied(t) => Applied(t)'
      BY <2>1, <2>2, UntouchedApplied
    <2> QED
      BY <2>1, <2>3, <2>4, <2>5 DEF CompleteInv
  <1>2. ASSUME NEW w \in Worker,
               CutShort(w) \/ Finish(w) \/ OverClose(w) \/ CreatePositionRejected(w)
        PROVE  CompleteInv'
    <2>1. /\ hook[w].pc # "idle" /\ UNCHANGED <<lots, closings>>
          /\ hook' = [hook EXCEPT ![w] = IdleJob]
      BY <1>2 DEF CutShort, Finish, OverClose, CreatePositionRejected, EndCall, ledgerVars
    <2>2. CASE Finish(w)
      <3>1. /\ outcome' = [outcome EXCEPT ![hook[w].trade] = "ok"]
            /\ hook[w].pc = "leg" /\ hook[w].leg > Len(Legs[hook[w].trade])
        BY <2>2 DEF Finish, EndCall
      <3> QED
        BY <2>1, <3>1, CallEnds
    <2>3. CASE CutShort(w) \/ OverClose(w) \/ CreatePositionRejected(w)
      <3>1. outcome' = [outcome EXCEPT ![hook[w].trade] = "failed"]
        BY <2>3 DEF CutShort, OverClose, CreatePositionRejected, EndCall
      <3> QED
        BY <2>1, <3>1, CallEnds
    <2> QED
      BY <1>2, <2>2, <2>3
  <1>3. ASSUME NEW w \in Worker, FindPosition(w) \/ FindPositionForLot(w)
        PROVE  CompleteInv'
    <2>1. /\ UNCHANGED <<lots, closings, outcome>>
          /\ \A v \in Worker : v # w => hook'[v] = hook[v]
          /\ hook'[w].trade = hook[w].trade /\ hook'[w].leg = hook[w].leg
          /\ hook'[w].left = hook[w].left
          /\ \/ hook[w].pc = "find" /\ hook'[w].pc \in {"insert", "accumulate"}
             \/ hook[w].pc = "match" /\ hook'[w].pc = "close"
      <3>1. CASE FindPosition(w)
        BY <3>1 DEF FindPosition, TypeInv, TypeOK, Job
      <3>2. CASE FindPositionForLot(w)
        BY <3>2 DEF FindPositionForLot, TypeInv, TypeOK, Job
      <3> QED
        BY <1>3, <3>1, <3>2
    <2> QED
      BY <2>1, SameLegKeepsComplete DEF Opening, Matching
  <1>4. ASSUME NEW w \in Worker, CreatePosition(w) \/ AccumulateCostBasis(w)
        PROVE  CompleteInv'
    <2>1. /\ NextLeg(w) /\ UNCHANGED <<lots, closings>> /\ hook[w].pc # "idle"
          /\ Opening(hook[w])
      BY <1>4 DEF CreatePosition, AccumulateCostBasis, Opening
    <2>2. hook[w].leg \in 1..Len(Legs[hook[w].trade])
      BY <2>1 DEF TypeInv, JobsOK, JobOK, Opening, LegIndex
    <2> QED
      BY <2>1, <2>2, NextLegKeepsComplete
  <1>5. ASSUME NEW w \in Worker, ClosingMatched(w)
        PROVE  CompleteInv'
    <2> DEFINE t0 == hook[w].trade
    <2>1. /\ NextLeg(w) /\ UNCHANGED <<lots, closings>> /\ hook[w].pc = "match"
          /\ hook[w].left = 0
      BY <1>5 DEF ClosingMatched, ledgerVars
    <2>2. /\ hook[w].leg \in 1..Len(Legs[t0]) /\ t0 \in Trade
      BY <2>1 DEF TypeInv, JobsOK, JobOK, LegIndex
    <2>3. InProgress(hook[w]) /\ Matching(hook[w]) /\ ~Opening(hook[w])
      BY <2>1 DEF CompleteInv, Running, Matching, Opening
    <2>4. Legs[t0][hook[w].leg].qty \in Nat
      BY <2>2, LegIsLeg DEF Leg
    <2>5. hook[w].leg \in ClosingLegs(t0) /\ LegComplete(t0, hook[w].leg)
      BY <2>1, <2>3, <2>4 DEF InProgress, LegComplete
    <2> QED
      BY <2>1, <2>2, <2>3, <2>5, NextLegKeepsComplete
  <1> QED
    BY <1>1, <1>2, <1>3, <1>4, <1>5, CallKeepsComplete, CreateLotKeepsComplete,
       CloseLotKeepsComplete, ListOpenLotsKeepsComplete DEF Next, HookStep

-----------------------------------------------------------------------------
(* A lot is listed by the position of its chain, unless the call that made it *)
(* has not come to that statement, or ended before it.                      *)

\* Worker w has still to look at the position row of lot i.
ToList(w, i) ==
    /\ hook[w].pc \in {"find", "insert"}
    /\ hook[w].trade = lots[i].trade
    /\ hook[w].chain = lots[i].chain

ListedInv ==
    \A i \in 1..Len(lots) :
        \/ lots[i].chain \in DOMAIN positions
        \/ outcome[lots[i].trade] = "failed"
        \/ \E w \in Worker : ToList(w, i)

\* Rows stay, and so does what is known of a trade that has failed.
LEMMA OldLotsStayListed ==
    ASSUME TypeInv, CompleteInv, ListedInv, NEW w \in Worker,
           NEW i \in 1..Len(lots),
           lots'[i].trade = lots[i].trade, lots'[i].chain = lots[i].chain,
           DOMAIN positions \subseteq DOMAIN positions',
           \A t \in DOMAIN outcome : outcome[t] = "failed" => outcome'[t] = "failed",
           \A v \in Worker : v # w => hook'[v] = hook[v],
           ToList(w, i) => \/ ToList(w, i)'
                          \/ hook[w].chain \in DOMAIN positions'
                          \/ outcome'[hook[w].trade] = "failed"
    PROVE  \/ lots'[i].chain \in DOMAIN positions'
           \/ outcome'[lots'[i].trade] = "failed"
           \/ \E v \in Worker : ToList(v, i)'
  <1>1. lots[i].trade \in DOMAIN outcome
    BY DEF CompleteInv, RowsOfKnownTrades
  <1>2. CASE lots[i].chain \in DOMAIN positions
    BY <1>2
  <1>3. CASE outcome[lots[i].trade] = "failed"
    BY <1>1, <1>3
  <1>4. ASSUME NEW v \in Worker, ToList(v, i), v # w
        PROVE  ToList(v, i)'
    BY <1>4 DEF ToList
  <1>5. CASE ToList(w, i)
    BY <1>5 DEF ToList
  <1> QED
    BY <1>2, <1>3, <1>4, <1>5 DEF ListedInv

\* A step of one call: no other call moves and no row goes away.
LEMMA StepKeepsListed ==
    ASSUME TypeInv, CompleteInv, ListedInv, NEW w \in Worker,
           Call(w) \/ HookStep(w) \/ CutShort(w)
    PROVE  ListedInv'
  <1> USE DEF TypeInv, TypeOK
  <1>1. \A v \in Worker : v # w => hook'[v] = hook[v]
    BY DEF Call, ProcessTrade, HookStep, CutShort, CreateLot, FindPosition, CreatePosition,
       CreatePositionRejected, AccumulateCostBasis, ListOpenLots, FindPositionForLot, CloseLot,
       ClosingMatched, OverClose, Finish, NextLeg, EndCall
  <1>2. hook[w].pc # "idle" => /\ hook[w].trade \in DOMAIN outcome
                               /\ outcome[hook[w].trade] = "running"
    BY DEF CompleteInv, Running
  <1>3. \A t \in DOMAIN outcome : outcome[t] = "failed" => outcome'[t] = "failed"
    BY <1>2 DEF Call, ProcessTrade, HookStep, CutShort, CreateLot, FindPosition,
       CreatePosition, CreatePositionRejected, AccumulateCostBasis, ListOpenLots,
       FindPositionForLot, CloseLot, ClosingMatched, OverClose, Finish, NextLeg, EndCall
  <1>4. DOMAIN positions \subseteq DOMAIN positions'
    BY DEF Call, ProcessTrade, HookStep, CutShort, CreateLot, FindPosition, CreatePosition,
       CreatePositionRejected, AccumulateCostBasis, ListOpenLots, FindPositionForLot, CloseLot,
       ClosingMatched, OverClose, Finish, ledgerVars
  <1>5. \A i \in 1..Len(lots) : /\ lots'[i].trade = lots[i].trade
                                /\ lots'[i].chain = lots[i].chain
    <2>1. CASE CreateLot(w)
      BY <2>1, LenProperties DEF CreateLot
    <2>2. CASE CloseLot(w)
      BY <2>2, LenProperties DEF CloseLot
    <2>3. CASE UNCHANGED lots
      BY <2>3
    <2> QED
      BY <2>1, <2>2, <2>3 DEF Call, ProcessTrade, HookStep, CutShort, FindPosition,
         CreatePosition, CreatePositionRejected, AccumulateCostBasis, ListOpenLots,
         FindPositionForLot, ClosingMatched, OverClose, Finish, ledgerVars
  <1>6. ASSUME NEW i \in 1..Len(lots), ToList(w, i)
        PROVE  \/ ToList(w, i)'
               \/ hook[w].chain \in DOMAIN positions'
               \/ outcome'[hook[w].trade] = "failed"
    <2>1. CASE FindPosition(w)
      BY <1>5, <1>6, <2>1 DEF FindPosition, ToList
    <2>2. CASE CreatePosition(w)
      BY <2>2 DEF CreatePosition
    <2>3. CASE CreatePositionRejected(w)
      BY <1>2, <2>3 DEF CreatePositionRejected, EndCall
    <2>4. CASE CutShort(w)
      BY <1>2, <2>4 DEF CutShort
    <2> QED
      BY <1>6, <2>1, <2>2, <2>3, <2>4 DEF ToList, Call, ProcessTrade, HookStep, CreateLot,
         AccumulateCostBasis, ListOpenLots, FindPositionForLot, CloseLot, ClosingMatched,
         OverClose, Finish
  <1>7. \A i \in 1..Len(lots) :
           \/ lots'[i].chain \in DOMAIN positions'
           \/ outcome'[lots'[i].trade] = "failed"
           \/ \E v \in Worker : ToList(v, i)'
    BY <1>1, <1>3, <1>4, <1>5, <1>6, OldLotsStayListed
  <1>8. CASE CreateLot(w)
    <2>1. /\ Len(lots') = Len(lots) + 1
          /\ lots'[Len(lots')].trade = hook[w].trade
          /\ lots'[Len(lots')].chain = hook[w].chain
      BY <1>8, LenProperties DEF CreateLot
    <2>2. /\ hook'[w].pc = "find"
          /\ hook'[w].trade = hook[w].trade /\ hook'[w].chain = hook[w].chain
      BY <1>8 DEF CreateLot, Job
    <2>3. \E v \in Worker : /\ hook'[v].pc \in {"find", "insert"}
                            /\ hook'[v].trade = lots'[Len(lots')].trade
                            /\ hook'[v].chain = lots'[Len(lots')].chain
      BY <2>1, <2>2
    <2>4. \A i \in 1..Len(lots') : i \in 1..Len(lots) \/ i = Len(lots')
      BY <2>1, LenProperties
    <2> QED
      BY <1>7, <2>3, <2>4 DEF ListedInv, ToList
  <1>9. CASE ~CreateLot(w)
    <2>1. CASE CloseLot(w)
      BY <1>7, <2>1, LenProperties DEF CloseLot, ListedInv
    <2>2. CASE UNCHANGED lots
      BY <1>7, <2>2 DEF ListedInv
    <2> QED
      BY <1>9, <2>1, <2>2 DEF Call, ProcessTrade, HookStep, CutShort, FindPosition,
         CreatePosition, CreatePositionRejected, AccumulateCostBasis, ListOpenLots,
         FindPositionForLot, ClosingMatched, OverClose, Finish, ledgerVars
  <1> QED
    BY <1>8, <1>9

LEMMA NextListed ==
    ASSUME TypeInv, CompleteInv, ListedInv, [Next]_vars
    PROVE  ListedInv'
  <1>1. CASE UNCHANGED vars
    BY <1>1 DEF ListedInv, ToList, vars
  <1> QED
    BY <1>1, StepKeepsListed DEF Next

LEMMA CompleteInvImplies ==
    ASSUME TypeInv, CompleteInv, ListedInv
    PROVE  SuccessIsComplete
  <1> SUFFICES ASSUME NEW t \in DOMAIN outcome
               PROVE  LET legs == 1..Len(Legs[t])
                          opening == {k \in legs : Legs[t][k].effect = "opening"}
                      IN /\ \A k \in legs \ opening :
                              ClosedQty(ClosingsOfLeg(t, k)) <= Legs[t][k].qty
                         /\ outcome[t] = "ok" =>
                              /\ Cardinality({i \in 1..Len(lots) : lots[i].trade = t})
                                   = Cardinality(opening)
                              /\ \A i \in 1..Len(lots) :
                                    lots[i].trade = t => lots[i].chain \in DOMAIN positions
                              /\ \A k \in legs \ opening :
                                    ClosedQty(ClosingsOfLeg(t, k)) \in {0, Legs[t][k].qty}
    BY Zenon DEF SuccessIsComplete
  <1> DEFINE opening == {k \in 1..Len(Legs[t]) : Legs[t][k].effect = "opening"}
  <1>1. /\ \A k \in ClosingLegs(t) : LegClosed(t, k) <= Legs[t][k].qty
        /\ outcome[t] = "ok" => Applied(t)
    <2>1. CASE outcome[t] = "running"
      BY <2>1, LegsBounded DEF CompleteInv
    <2>2. CASE outcome[t] # "running"
      BY <2>2 DEF CompleteInv, Applied
    <2> QED
      BY <2>1, <2>2
  <1>2. ClosingLegs(t) = (1..Len(Legs[t])) \ opening
    BY DEF ClosingLegs
  <1>3. \A k \in (1..Len(Legs[t])) \ opening :
           ClosedQty(ClosingsOfLeg(t, k)) <= Legs[t][k].qty
    BY <1>1, <1>2 DEF LegClosed
  <1>4. ASSUME outcome[t] = "ok"
        PROVE  /\ Cardinality({i \in 1..Len(lots) : lots[i].trade = t}) = Cardinality(opening)
               /\ \A i \in 1..Len(lots) : lots[i].trade = t => lots[i].chain \in DOMAIN positions
               /\ \A k \in (1..Len(Legs[t])) \ opening :
                     ClosedQty(ClosingsOfLeg(t, k)) \in {0, Legs[t][k].qty}
    <2>1. Applied(t)
      BY <1>1, <1>4
    <2>2. Cardinality({i \in 1..Len(lots) : lots[i].trade = t}) = Cardinality(opening)
      BY <1>4, <2>1, Zenon DEF Applied, LotsOfTrade
    <2>3. ASSUME NEW i \in 1..Len(lots), lots[i].trade = t
          PROVE  lots[i].chain \in DOMAIN positions
      <3>1. ~(\E w \in Worker : ToList(w, i))
        BY <1>4, <2>3 DEF CompleteInv, Running, ToList
      <3> QED
        BY <1>4, <2>3, <3>1 DEF ListedInv
    <2>4. \A k \in (1..Len(Legs[t])) \ opening :
             ClosedQty(ClosingsOfLeg(t, k)) \in {0, Legs[t][k].qty}
      BY <1>2, <1>4, <2>1 DEF Applied, LegComplete, LegClosed
    <2> QED
      BY <2>2, <2>3, <2>4
  <1> QED
    BY <1>3, <1>4, Zenon

\* Also for a trade whose call failed, or still runs, or was never made.
LEMMA OneLotPerOpeningLeg ==
    ASSUME TypeInv, CompleteInv, NEW t \in Trade
    PROVE  Cardinality(LotsOfTrade(t)) <= Cardinality(OpeningLegs(t))
  <1>1. CASE t \notin DOMAIN outcome
    <2>1. LotsOfTrade(t) = {}
      BY <1>1 DEF CompleteInv, RowsOfKnownTrades, LotsOfTrade
    <2>2. Cardinality(LotsOfTrade(t)) = 0
      BY <2>1, FS_EmptySet
    <2>3. OpeningLegs(t) \subseteq 1..Len(Legs[t]) /\ Len(Legs[t]) \in Nat
      BY LegsAssumption, LenProperties DEF OpeningLegs
    <2>4. Cardinality(OpeningLegs(t)) \in Nat
      BY <2>3, RowsAreFinite, FS_CardinalityType
    <2> QED
      BY <2>2, <2>4
  <1>2. CASE t \in DOMAIN outcome
    BY <1>2, LotsBounded DEF CompleteInv, Applied
  <1> QED
    BY <1>1, <1>2

\* However calls interleave and wherever they are cut short, a trade whose hook
\* reported success was applied whole (one lot per opening leg, each listed by a
\* position, every closing leg matched in full or, with nothing open, not at
\* all) and no leg ever
\* closes more than its quantity: the snapshots two calls share make lots
\* wrong, never the count of what a leg has closed.
THEOREM SuccessesAreComplete == Spec => []SuccessIsComplete
  <1>1. Init => CompleteInv
    BY DEF Init, CompleteInv, RowsOfKnownTrades, Running, IdleJob
  <1>2. TypeInv /\ TypeInv' /\ CompleteInv /\ [Next]_vars => CompleteInv'
    BY NextComplete
  <1>3. Init => ListedInv
    BY DEF Init, ListedInv
  <1>4. TypeInv /\ CompleteInv /\ ListedInv /\ [Next]_vars => ListedInv'
    BY NextListed
  <1>5. TypeInv /\ CompleteInv /\ ListedInv => SuccessIsComplete
    BY CompleteInvImplies
  <1> QED
    BY <1>1, <1>2, <1>3, <1>4, <1>5, TypeInvHolds, PTL DEF Spec

-----------------------------------------------------------------------------
(* The invariant.  Inside processOpening the newest lot is not yet in the   *)
(* position row of its chain; at every other point all lots are.            *)

NotYetCounted(c) ==
    IF \E w \in Worker : Opening(hook[w]) /\ hook[w].chain = c THEN {Len(lots)} ELSE {}
Counted(c) == LotsOfChain(c) \ NotYetCounted(c)

\* The position row of a chain holds the totals of the lots counted so far.
Mirrored(c) ==
    IF Counted(c) = {} THEN c \notin DOMAIN positions
    ELSE /\ c \in DOMAIN positions
         /\ positions[c].cost = SumFunctionOnSet(CostOfLot, Counted(c))
         /\ positions[c].pnl = SumFunctionOnSet(PnLOfClosing, ClosingsOfChain(c))

ChainsMirrored == failures = 0 => \A c \in Chain : Mirrored(c)

\* What a call has read is still what the table holds when it writes it back.
HoldsCurrentRows(job) ==
    /\ Opening(job) =>
         /\ Len(lots) \in 1..Len(lots)
         /\ lots[Len(lots)].chain = job.chain
         /\ CostOfLot[Len(lots)] = LegCostBasis(Legs[job.trade][job.leg])
         /\ \A j \in 1..Len(closings) : closings[j].lot # Len(lots)
    /\ job.pc = "insert" => job.chain \notin DOMAIN positions
    /\ job.pc = "accumulate" => job.pos = positions[job.chain]
    /\ job.pc = "close" => job.pos = GetPositionByChainID(lots[job.cur.lot].chain)

CallsHoldCurrentRows == \A w \in Worker : HoldsCurrentRows(hook[w])

\* A trade has originated a position of no other chain than its own, so the
\* unique index on the originating trade never rejects an insert.
OnePositionPerTrade ==
    /\ \A c \in DOMAIN positions : positions[c].trade \in DOMAIN outcome
    /\ \A w \in Worker : hook[w].pc # "idle" =>
          /\ hook[w].trade \in DOMAIN outcome
          /\ \A c \in DOMAIN positions :
                positions[c].trade = hook[w].trade => c = hook[w].chain

MirrorInv == CallsHoldCurrentRows /\ OnePositionPerTrade /\ ChainsMirrored

-----------------------------------------------------------------------------
(* Lemmas about the invariant.                                              *)

\* With one call at a time, its state alone decides which lot is not counted.
LEMMA NotYetCountedBy ==
    ASSUME OneImport, NEW w \in Worker, NEW c
    PROVE  NotYetCounted(c) =
             IF Opening(hook[w]) /\ hook[w].chain = c THEN {Len(lots)} ELSE {}
  BY DEF OneImport, NotYetCounted

LEMMA NotYetCountedNext ==
    ASSUME OneImport, NEW w \in Worker, NEW c
    PROVE  NotYetCounted(c)' =
             IF Opening(hook'[w]) /\ hook'[w].chain = c THEN {Len(lots')} ELSE {}
  BY DEF OneImport, NotYetCounted, Opening

LEMMA CostIsInt ==
    ASSUME TypeInv
    PROVE  \A i \in 1..Len(lots) : CostOfLot[i] \in Int
  <1> SUFFICES ASSUME NEW i \in 1..Len(lots)
               PROVE  LotCashFlowSign(lots[i]) * lots[i].price * Abs(lots[i].open) \in Int
    BY DEF CostOfLot
  <1>1. /\ LotCashFlowSign(lots[i]) \in Int /\ lots[i].price \in Int
        /\ Abs(lots[i].open) \in Int
    BY LotFacts DEF LotCashFlowSign, Abs, LotRow
  <1> QED
    BY <1>1

LEMMA MirrorTerms ==
    ASSUME TypeInv
    PROVE  /\ Len(lots) \in Nat /\ Len(closings) \in Nat
           /\ \A c : LotsOfChain(c) \subseteq 1..Len(lots) /\ IsFiniteSet(LotsOfChain(c))
           /\ \A c : Counted(c) \subseteq LotsOfChain(c) /\ IsFiniteSet(Counted(c))
           /\ \A c : /\ ClosingsOfChain(c) \subseteq 1..Len(closings)
                     /\ IsFiniteSet(ClosingsOfChain(c))
           /\ \A i \in 1..Len(lots) : CostOfLot[i] \in Int
           /\ \A j \in 1..Len(closings) : PnLOfClosing[j] \in Int
  <1>1. /\ Len(lots) \in Nat /\ Len(closings) \in Nat
        /\ \A c : LotsOfChain(c) \subseteq 1..Len(lots)
        /\ \A c : Counted(c) \subseteq LotsOfChain(c)
        /\ \A c : ClosingsOfChain(c) \subseteq 1..Len(closings)
        /\ \A j \in 1..Len(closings) : PnLOfClosing[j] \in Int
    BY LotFacts, ClosingFacts DEF LotsOfChain, Counted, ClosingsOfChain, PnLOfClosing
  <1>2. \A c : /\ IsFiniteSet(LotsOfChain(c)) /\ IsFiniteSet(Counted(c))
               /\ IsFiniteSet(ClosingsOfChain(c))
    <2> SUFFICES ASSUME NEW c
                 PROVE  /\ IsFiniteSet(LotsOfChain(c)) /\ IsFiniteSet(Counted(c))
                        /\ IsFiniteSet(ClosingsOfChain(c))
      OBVIOUS
    <2>1. Counted(c) \subseteq 1..Len(lots)
      BY <1>1
    <2> QED
      BY <1>1, <2>1, RowsAreFinite
  <1> QED
    BY <1>1, <1>2, CostIsInt

\* What a created lot costs is what the leg adds to the position.
LEMMA NewLotCost ==
    ASSUME NEW leg \in Leg, leg.cash # 0, NEW lot,
           lot.open = LotSignedQty(leg), lot.price = leg.price
    PROVE  LotCashFlowSign(lot) * lot.price * Abs(lot.open) = LegCostBasis(leg)
  <1>1. leg.cash \in {-1, 1} /\ leg.qty \in Nat \ {0} /\ leg.price \in Nat
    BY DEF Leg
  <1>2. CASE leg.cash = 1
    <2>1. LotCashFlowSign(lot) = 1 /\ Abs(lot.open) = leg.qty
      BY <1>1, <1>2 DEF LotCashFlowSign, LotSignedQty, Abs
    <2> QED
      BY <1>1, <1>2, <2>1 DEF LegCostBasis
  <1>3. CASE leg.cash = -1
    <2>1. LotCashFlowSign(lot) = -1 /\ Abs(lot.open) = leg.qty
      BY <1>1, <1>3 DEF LotCashFlowSign, LotSignedQty, Abs
    <2> QED
      BY <1>1, <1>3, <2>1 DEF LegCostBasis
  <1> QED
    BY <1>1, <1>2, <1>3

\* A chain whose lots, closings and position row a step leaves alone.
ChainUntouched(c) ==
    /\ Len(lots) <= Len(lots')
    /\ \A i \in 1..Len(lots) : CostOfLot'[i] = CostOfLot[i]
    /\ Len(closings) <= Len(closings')
    /\ \A j \in 1..Len(closings) : closings'[j] = closings[j]
    /\ Counted(c)' = Counted(c)
    /\ ClosingsOfChain(c)' = ClosingsOfChain(c)
    /\ c \in DOMAIN positions' <=> c \in DOMAIN positions
    /\ c \in DOMAIN positions => positions'[c] = positions[c]

LEMMA UntouchedStaysMirrored ==
    ASSUME TypeInv, TypeInv', NEW c, ChainUntouched(c), Mirrored(c)
    PROVE  Mirrored(c)'
  <1>1. /\ \A i \in Counted(c) : CostOfLot'[i] = CostOfLot[i]
        /\ IsFiniteSet(Counted(c))
    BY MirrorTerms DEF ChainUntouched
  <1>2. SumFunctionOnSet(CostOfLot', Counted(c)) = SumFunctionOnSet(CostOfLot, Counted(c))
    BY <1>1, SumEqual
  <1>3. /\ \A j \in ClosingsOfChain(c) : PnLOfClosing'[j] = PnLOfClosing[j]
        /\ IsFiniteSet(ClosingsOfChain(c))
    BY MirrorTerms, ClosingFacts DEF ChainUntouched, PnLOfClosing
  <1>4. SumFunctionOnSet(PnLOfClosing', ClosingsOfChain(c))
          = SumFunctionOnSet(PnLOfClosing, ClosingsOfChain(c))
    BY <1>3, SumEqual
  <1> QED
    BY <1>2, <1>4 DEF ChainUntouched, Mirrored

-----------------------------------------------------------------------------
(* Every action keeps MirrorInv.                                            *)

\* The ledger is untouched and the call neither enters nor leaves
\* processOpening.
LEMMA QuietKeepsMirror ==
    ASSUME TypeInv, TypeInv', OneImport, ChainsMirrored, UNCHANGED ledgerVars,
           NEW w \in Worker, failures' = 0 => failures = 0,
           Opening(hook'[w]) <=> Opening(hook[w]),
           Opening(hook[w]) => hook'[w].chain = hook[w].chain
    PROVE  ChainsMirrored'
  <1> SUFFICES ASSUME failures = 0, NEW c \in Chain PROVE Mirrored(c)'
    BY DEF ChainsMirrored
  <1>1. NotYetCounted(c)' = NotYetCounted(c)
    BY NotYetCountedBy, NotYetCountedNext DEF ledgerVars
  <1>2. ChainUntouched(c)
    BY <1>1, MirrorTerms DEF ChainUntouched, Counted, LotsOfChain, ClosingsOfChain, CostOfLot,
                ledgerVars
  <1> QED
    BY <1>2, UntouchedStaysMirrored DEF ChainsMirrored

\* Ending a call, also by a failure, which ChainsMirrored does not speak of.
LEMMA RestingKeepsMirror ==
    ASSUME TypeInv, TypeInv', OneImport, MirrorInv, UNCHANGED ledgerVars,
           NEW w \in Worker, hook'[w].pc \in {"idle", "leg", "match"},
           ~Opening(hook[w]) \/ failures' # 0, failures' = 0 => failures = 0,
           DOMAIN outcome \subseteq DOMAIN outcome',
           hook'[w].pc # "idle" =>
              /\ hook'[w].trade \in DOMAIN outcome'
              /\ \A c \in DOMAIN positions :
                    positions[c].trade = hook'[w].trade => c = hook'[w].chain
    PROVE  MirrorInv'
  <1>1. CallsHoldCurrentRows'
    BY DEF OneImport, CallsHoldCurrentRows, HoldsCurrentRows, Opening
  <1>2. OnePositionPerTrade'
    BY DEF OneImport, MirrorInv, OnePositionPerTrade, ledgerVars
  <1>3. ChainsMirrored'
    <2>1. CASE failures' # 0
      BY <2>1 DEF ChainsMirrored
    <2>2. CASE ~Opening(hook[w])
      <3>1. ~Opening(hook'[w])
        BY DEF Opening
      <3> QED
        BY <2>2, <3>1, QuietKeepsMirror DEF MirrorInv
    <2> QED
      BY <2>1, <2>2
  <1> QED
    BY <1>1, <1>2, <1>3 DEF MirrorInv

LEMMA CallKeepsMirror ==
    ASSUME TypeInv, TypeInv', OneImport, MirrorInv, NEW w \in Worker, Call(w)
    PROVE  MirrorInv'
  <1> PICK t \in Trade, c \in Chain \cup {None} : ProcessTrade(w, t, c)
    BY DEF Call
  <1>1. /\ hook[w].pc = "idle" /\ hook'[w].pc = "leg" /\ hook'[w].trade = t
        /\ UNCHANGED ledgerVars /\ UNCHANGED failures
        /\ DOMAIN outcome' = DOMAIN outcome \cup {t} /\ t \notin DOMAIN outcome
    BY DEF ProcessTrade, ledgerVars, IdleJob, TypeInv, TypeOK
  <1> QED
    BY <1>1, RestingKeepsMirror DEF MirrorInv, OnePositionPerTrade, Opening

\* The call ends, or goes on to its next leg, without touching the ledger.
LEMMA EndKeepsMirror ==
    ASSUME TypeInv, TypeInv', OneImport, MirrorInv, NEW w \in Worker,
           \/ CutShort(w) \/ Finish(w) \/ OverClose(w) \/ ClosingMatched(w)
           \/ ListOpenLots(w)
    PROVE  MirrorInv'
  <1>1. hook \in [Worker -> Job] /\ hook[w] \in Job /\ failures \in Nat
    BY BoundAssumption DEF TypeInv, TypeOK
  <1>2. /\ IdleJob.pc = "idle" /\ AfterLeg(hook[w]).pc = "leg"
        /\ AfterLeg(hook[w]).trade = hook[w].trade /\ AfterLeg(hook[w]).chain = hook[w].chain
    BY DEF IdleJob, AfterLeg
  <1>3. UNCHANGED ledgerVars
    BY DEF CutShort, Finish, OverClose, ClosingMatched, ListOpenLots, ledgerVars
  <1>4. DOMAIN outcome' = DOMAIN outcome
    <2>1. CASE CutShort(w) \/ Finish(w) \/ OverClose(w)
      BY <2>1 DEF CutShort, Finish, OverClose, EndCall
    <2>2. CASE ClosingMatched(w) \/ ListOpenLots(w)
      BY <2>2 DEF ClosingMatched, ListOpenLots, NextLeg
    <2> QED
      BY <2>1, <2>2
  <1>5. ~Opening(hook[w]) \/ failures' # 0
    BY <1>1 DEF CutShort, Finish, OverClose, ClosingMatched, ListOpenLots, Opening
  <1>6. failures' = 0 => failures = 0
    BY <1>1 DEF CutShort, Finish, OverClose, ClosingMatched, ListOpenLots, EndCall, NextLeg
  <1>7. \/ hook'[w].pc = "idle"
        \/ /\ hook'[w].pc \in {"leg", "match"} /\ hook[w].pc # "idle"
           /\ hook'[w].trade = hook[w].trade /\ hook'[w].chain = hook[w].chain
    <2>1. CASE CutShort(w) \/ Finish(w) \/ OverClose(w)
      BY <1>1, <1>2, <2>1 DEF CutShort, Finish, OverClose, EndCall
    <2>2. CASE ClosingMatched(w)
      BY <1>1, <1>2, <2>2 DEF ClosingMatched, NextLeg
    <2>3. CASE ListOpenLots(w)
      BY <1>1, <1>2, <2>3 DEF ListOpenLots, NextLeg, Job
    <2> QED
      BY <2>1, <2>2, <2>3
  <1> QED
    BY <1>3, <1>4, <1>5, <1>6, <1>7, RestingKeepsMirror DEF MirrorInv, OnePositionPerTrade

\* With one call at a time no insert is rejected: the position it just failed
\* to find cannot have appeared since, and its trade has originated no other.
LEMMA NoInsertRejected ==
    ASSUME MirrorInv, NEW w \in Worker, CreatePositionRejected(w)
    PROVE  FALSE
  BY DEF MirrorInv, CreatePositionRejected, PositionKeyTaken, CallsHoldCurrentRows,
         HoldsCurrentRows, OnePositionPerTrade

LEMMA FindPositionKeepsMirror ==
    ASSUME TypeInv, TypeInv', OneImport, MirrorInv, NEW w \in Worker, FindPosition(w)
    PROVE  MirrorInv'
  <1>1. /\ hook[w].pc = "find" /\ hook'[w].chain = hook[w].chain
        /\ hook'[w].trade = hook[w].trade /\ hook'[w].leg = hook[w].leg
        /\ hook'[w].pos = GetPositionByChainID(hook[w].chain)
        /\ hook'[w].pc = IF hook[w].chain \in DOMAIN positions THEN "accumulate" ELSE "insert"
        /\ UNCHANGED ledgerVars /\ UNCHANGED <<outcome, failures>>
    BY DEF FindPosition, ledgerVars, TypeInv, TypeOK, Job
  <1>2. Opening(hook[w]) /\ Opening(hook'[w])
    BY <1>1 DEF Opening
  <1>3. HoldsCurrentRows(hook[w])
    BY DEF MirrorInv, CallsHoldCurrentRows
  <1>4. CallsHoldCurrentRows'
    BY <1>1, <1>2, <1>3 DEF OneImport, CallsHoldCurrentRows, HoldsCurrentRows, CostOfLot, ledgerVars,
                GetPositionByChainID
  <1>5. OnePositionPerTrade'
    BY <1>1 DEF OneImport, MirrorInv, OnePositionPerTrade, ledgerVars
  <1>6. ChainsMirrored'
    BY <1>1, <1>2, QuietKeepsMirror DEF MirrorInv
  <1> QED
    BY <1>4, <1>5, <1>6 DEF MirrorInv

LEMMA FindPositionForLotKeepsMirror ==
    ASSUME TypeInv, TypeInv', OneImport, MirrorInv, NEW w \in Worker, FindPositionForLot(w)
    PROVE  MirrorInv'
  <1>1. PICK s \in FirstIn(hook[w].todo) :
          hook' = [hook EXCEPT ![w].pc = "close", ![w].cur = s,
                               ![w].pos = GetPositionByChainID(lots[s.lot].chain)]
    BY DEF FindPositionForLot
  <1>2. /\ hook[w].pc = "match" /\ hook'[w].pc = "close" /\ hook'[w].chain = hook[w].chain
        /\ hook'[w].trade = hook[w].trade /\ hook'[w].cur = s
        /\ hook'[w].pos = GetPositionByChainID(lots[s.lot].chain)
        /\ UNCHANGED ledgerVars /\ UNCHANGED <<outcome, failures>>
    BY <1>1 DEF FindPositionForLot, ledgerVars, TypeInv, TypeOK, Job
  <1>3. CallsHoldCurrentRows'
    BY <1>2 DEF OneImport, CallsHoldCurrentRows, HoldsCurrentRows, Opening, ledgerVars,
                GetPositionByChainID
  <1>4. OnePositionPerTrade'
    BY <1>2 DEF OneImport, MirrorInv, OnePositionPerTrade, ledgerVars
  <1>5. ChainsMirrored'
    BY <1>2, QuietKeepsMirror DEF MirrorInv, Opening
  <1> QED
    BY <1>3, <1>4, <1>5 DEF MirrorInv

\* The new lot is the one lot not yet counted.
LEMMA CreateLotKeepsMirror ==
    ASSUME TypeInv, TypeInv', ClosingsNameLots, OneImport, MirrorInv,
           NEW w \in Worker, CreateLot(w)
    PROVE  MirrorInv'
  <1> DEFINE n == Len(lots) + 1
  <1>1. /\ hook[w].pc = "leg" /\ hook'[w].pc = "find" /\ hook'[w].chain = hook[w].chain
        /\ hook'[w].trade = hook[w].trade /\ hook'[w].leg = hook[w].leg
        /\ UNCHANGED <<closings, positions, outcome, failures>>
    BY DEF CreateLot, TypeInv, TypeOK, Job
  <1>2. /\ Len(lots) \in Nat /\ Len(lots') = n
        /\ \A i \in 1..Len(lots) : lots'[i] = lots[i]
        /\ lots'[n].chain = hook[w].chain
        /\ lots'[n].open = LotSignedQty(CurrentLeg(w))
        /\ lots'[n].price = CurrentLeg(w).price
        /\ CurrentLeg(w) \in Leg
    BY LotFacts, CreateLotWrites
  <1>3. CurrentLeg(w).cash # 0
    BY LegsAssumption DEF CreateLot, CurrentLeg, TypeInv, JobsOK, JobOK
  <1>4. CostOfLot'[n] = LegCostBasis(CurrentLeg(w))
    <2>1. CostOfLot'[n] = LotCashFlowSign(lots'[n]) * lots'[n].price * Abs(lots'[n].open)
      BY <1>2 DEF CostOfLot
    <2> QED
      BY <1>2, <1>3, <2>1, NewLotCost
  <1>5. \A j \in 1..Len(closings) : closings[j].lot # n
    BY <1>2 DEF ClosingsNameLots
  <1>6. CallsHoldCurrentRows'
    BY <1>1, <1>2, <1>4, <1>5
       DEF OneImport, CallsHoldCurrentRows, HoldsCurrentRows, CurrentLeg
  <1>7. OnePositionPerTrade'
    BY <1>1 DEF OneImport, MirrorInv, OnePositionPerTrade
  <1>8. ChainsMirrored'
    <2> SUFFICES ASSUME failures = 0, NEW c \in Chain PROVE Mirrored(c)'
      BY <1>1 DEF ChainsMirrored
    <2>1. LotsOfChain(c)' = IF c = hook[w].chain THEN LotsOfChain(c) \cup {n} ELSE LotsOfChain(c)
      BY <1>2 DEF LotsOfChain
    <2>2. NotYetCounted(c) = {} /\ NotYetCounted(c)' = IF c = hook[w].chain THEN {n} ELSE {}
      BY <1>1, <1>2, NotYetCountedBy, NotYetCountedNext DEF Opening
    <2>3. n \notin LotsOfChain(c)
      BY <1>2 DEF LotsOfChain
    <2>4. Counted(c)' = Counted(c)
      BY <2>1, <2>2, <2>3 DEF Counted
    <2>5. ClosingsOfChain(c)' = ClosingsOfChain(c)
      BY <1>1, <1>2 DEF ClosingsOfChain, ClosingsNameLots
    <2>6. ChainUntouched(c)
      <3>1. \A i \in 1..Len(lots) : CostOfLot'[i] = CostOfLot[i]
        BY <1>2 DEF CostOfLot
      <3> QED
        BY <1>1, <1>2, <2>4, <2>5, <3>1, ClosingFacts DEF ChainUntouched
    <2> QED
      BY <2>6, UntouchedStaysMirrored DEF MirrorInv, ChainsMirrored
  <1> QED
    BY <1>6, <1>7, <1>8 DEF MirrorInv

\* Writing a position row in processOpening: only the row of the call's chain
\* changes, and its newest lot becomes counted.
LEMMA OtherChainsKeepMirror ==
    ASSUME TypeInv, TypeInv', OneImport, UNCHANGED <<lots, closings>>, NEW w \in Worker,
           Opening(hook[w]), ~Opening(hook'[w]), NEW c, c # hook[w].chain,
           c \in DOMAIN positions' <=> c \in DOMAIN positions,
           c \in DOMAIN positions => positions'[c] = positions[c], Mirrored(c)
    PROVE  Mirrored(c)'
  <1>1. NotYetCounted(c) = {} /\ NotYetCounted(c)' = {}
    BY NotYetCountedBy, NotYetCountedNext
  <1>2. ChainUntouched(c)
    BY <1>1, MirrorTerms DEF ChainUntouched, Counted, LotsOfChain, ClosingsOfChain, CostOfLot
  <1> QED
    BY <1>2, UntouchedStaysMirrored

LEMMA NewestLotIsCounted ==
    ASSUME TypeInv, OneImport, UNCHANGED <<lots, closings>>, CallsHoldCurrentRows,
           NEW w \in Worker, Opening(hook[w]), ~Opening(hook'[w]),
           NEW c, hook[w].chain = c
    PROVE  LET n == Len(lots)
           IN /\ n \notin Counted(c) /\ Counted(c)' = Counted(c) \cup {n}
              /\ SumFunctionOnSet(CostOfLot', Counted(c)')
                    = SumFunctionOnSet(CostOfLot, Counted(c)) + LegCostBasis(CurrentLeg(w))
              /\ SumFunctionOnSet(CostOfLot, Counted(c)) \in Int
              /\ ClosingsOfChain(c)' = ClosingsOfChain(c)
              /\ PnLOfClosing' = PnLOfClosing
              /\ Counted(c) = {} => (ClosingsNameLots => ClosingsOfChain(c) = {})
  <1> DEFINE n == Len(lots)
  <1>1. /\ n \in 1..Len(lots) /\ lots[n].chain = c
        /\ CostOfLot[n] = LegCostBasis(CurrentLeg(w))
        /\ \A j \in 1..Len(closings) : closings[j].lot # n
    BY DEF CallsHoldCurrentRows, HoldsCurrentRows, CurrentLeg
  <1>2. NotYetCounted(c) = {n} /\ NotYetCounted(c)' = {}
    BY NotYetCountedBy, NotYetCountedNext
  <1>3. n \in LotsOfChain(c) /\ LotsOfChain(c)' = LotsOfChain(c)
    BY <1>1 DEF LotsOfChain
  <1>4. n \notin Counted(c) /\ Counted(c)' = Counted(c) \cup {n}
    BY <1>2, <1>3 DEF Counted
  <1>5. CostOfLot' = CostOfLot /\ PnLOfClosing' = PnLOfClosing
    BY DEF CostOfLot, PnLOfClosing
  <1>6. /\ IsFiniteSet(Counted(c)) /\ \A i \in Counted(c) : CostOfLot[i] \in Int
        /\ CostOfLot[n] \in Int
    BY <1>1, MirrorTerms
  <1>7. SumFunctionOnSet(CostOfLot, Counted(c)) \in Int
    BY <1>6, SumType
  <1>8. SumFunctionOnSet(CostOfLot, Counted(c) \cup {n})
          = SumFunctionOnSet(CostOfLot, Counted(c)) + CostOfLot[n]
    <2> HIDE DEF n
    <2> QED BY <1>4, <1>6, SumAdd
  <1>9. ClosingsOfChain(c)' = ClosingsOfChain(c)
    BY DEF ClosingsOfChain
  <1>10. ASSUME Counted(c) = {}, ClosingsNameLots PROVE ClosingsOfChain(c) = {}
    BY <1>1, <1>2, <1>10 DEF Counted, LotsOfChain, ClosingsOfChain, ClosingsNameLots
  <1> QED
    BY <1>1, <1>4, <1>5, <1>7, <1>8, <1>9, <1>10

LEMMA CreatePositionKeepsMirror ==
    ASSUME TypeInv, TypeInv', ClosingsNameLots, OneImport, MirrorInv,
           NEW w \in Worker, CreatePosition(w)
    PROVE  MirrorInv'
  <1> DEFINE c == hook[w].chain
             leg == CurrentLeg(w)
  <1>1. /\ hook[w].pc = "insert" /\ hook'[w].pc = "leg" /\ hook'[w].chain = c
        /\ hook'[w].trade = hook[w].trade
        /\ UNCHANGED <<lots, closings, outcome, failures>>
        /\ Opening(hook[w]) /\ ~Opening(hook'[w])
    BY DEF CreatePosition, NextLeg, AfterLeg, IdleJob, TypeInv, TypeOK, Opening
  <1>2. /\ DOMAIN positions' = DOMAIN positions \cup {c} /\ c \notin DOMAIN positions
        /\ \A d \in DOMAIN positions : positions'[d] = positions[d]
        /\ positions'[c].trade = hook[w].trade /\ positions'[c].pnl = 0
        /\ positions'[c].cost = LegCostBasis(leg)
    BY DEF CreatePosition, PositionKeyTaken
  <1>3. CallsHoldCurrentRows'
    BY <1>1 DEF OneImport, CallsHoldCurrentRows, HoldsCurrentRows, Opening
  <1>4. OnePositionPerTrade'
    BY <1>1, <1>2 DEF OneImport, MirrorInv, OnePositionPerTrade
  <1>5. ChainsMirrored'
    <2> SUFFICES ASSUME failures = 0, NEW d \in Chain PROVE Mirrored(d)'
      BY <1>1 DEF ChainsMirrored
    <2>1. Mirrored(d)
      BY DEF MirrorInv, ChainsMirrored
    <2>2. CASE d # c
      BY <1>1, <1>2, <2>1, <2>2, OtherChainsKeepMirror
    <2>3. CASE d = c
      <3>1. Counted(d) = {}
        BY <1>2, <2>1, <2>3 DEF Mirrored
      <3>2. /\ Counted(d)' # {} /\ ClosingsOfChain(d)' = {}
            /\ SumFunctionOnSet(CostOfLot', Counted(d)')
                 = SumFunctionOnSet(CostOfLot, {}) + LegCostBasis(leg)
            /\ SumFunctionOnSet(CostOfLot, {}) = 0
        BY <1>1, <2>3, <3>1, NewestLotIsCounted, SumEmpty DEF MirrorInv
      <3>3. SumFunctionOnSet(PnLOfClosing', {}) = 0
        BY SumEmpty
      <3>4. LegCostBasis(leg) \in Int
        BY <1>2, <1>1 DEF TypeInv, TypeOK, PositionRow
      <3> QED
        BY <1>2, <2>3, <3>2, <3>3, <3>4 DEF Mirrored
    <2> QED
      BY <2>2, <2>3
  <1> QED
    BY <1>3, <1>4, <1>5 DEF MirrorInv

LEMMA AccumulateCostBasisKeepsMirror ==
    ASSUME TypeInv, TypeInv', ClosingsNameLots, OneImport, MirrorInv,
           NEW w \in Worker, AccumulateCostBasis(w)
    PROVE  MirrorInv'
  <1> DEFINE c == hook[w].chain
             leg == CurrentLeg(w)
  <1>1. /\ hook[w].pc = "accumulate" /\ hook'[w].pc = "leg" /\ hook'[w].chain = c
        /\ hook'[w].trade = hook[w].trade
        /\ UNCHANGED <<lots, closings, outcome, failures>>
        /\ Opening(hook[w]) /\ ~Opening(hook'[w])
    BY DEF AccumulateCostBasis, NextLeg, AfterLeg, IdleJob, TypeInv, TypeOK, Opening
  <1>2. c \in DOMAIN positions /\ hook[w].pos = positions[c] /\ positions[c] \in PositionRow
    BY <1>1 DEF TypeInv, TypeOK, JobsOK, JobOK, MirrorInv, CallsHoldCurrentRows, HoldsCurrentRows
  <1>3. /\ DOMAIN positions' = DOMAIN positions
        /\ \A d \in DOMAIN positions : d # c => positions'[d] = positions[d]
        /\ positions'[c] = [positions[c] EXCEPT !.cost = @ + LegCostBasis(leg)]
    BY <1>2 DEF AccumulateCostBasis, TypeInv, TypeOK
  <1>4. /\ positions'[c].trade = positions[c].trade /\ positions'[c].pnl = positions[c].pnl
        /\ positions'[c].cost = positions[c].cost + LegCostBasis(leg)
    BY <1>2, <1>3 DEF PositionRow
  <1>5. CallsHoldCurrentRows'
    BY <1>1 DEF OneImport, CallsHoldCurrentRows, HoldsCurrentRows, Opening
  <1>6. OnePositionPerTrade'
    <2>1. \A d \in DOMAIN positions : positions'[d].trade = positions[d].trade
      BY <1>3, <1>4
    <2> QED
      BY <1>1, <1>3, <2>1 DEF OneImport, MirrorInv, OnePositionPerTrade
  <1>7. ChainsMirrored'
    <2> SUFFICES ASSUME failures = 0, NEW d \in Chain PROVE Mirrored(d)'
      BY <1>1 DEF ChainsMirrored
    <2>1. Mirrored(d)
      BY DEF MirrorInv, ChainsMirrored
    <2>2. CASE d # c
      BY <1>1, <1>3, <2>1, <2>2, OtherChainsKeepMirror
    <2>3. CASE d = c
      <3>1. /\ Counted(d)' # {} /\ ClosingsOfChain(d)' = ClosingsOfChain(d)
            /\ SumFunctionOnSet(CostOfLot', Counted(d)')
                 = SumFunctionOnSet(CostOfLot, Counted(d)) + LegCostBasis(leg)
            /\ PnLOfClosing' = PnLOfClosing
        BY <1>1, <2>3, NewestLotIsCounted DEF MirrorInv
      <3> QED
        BY <1>2, <1>3, <1>4, <2>1, <2>3, <3>1 DEF Mirrored
    <2> QED
      BY <2>2, <2>3
  <1> QED
    BY <1>5, <1>6, <1>7 DEF MirrorInv

\* CloseAndUpdatePosition adds the P&L of the closing it appends to the row of
\* the lot's chain, and nothing else to it that MirrorInv speaks of.
LEMMA CloseLotWritesRow ==
    ASSUME TypeInv, CallsHoldCurrentRows, NEW w \in Worker, CloseLot(w), NEW c,
           c = lots[ClosedLot(w)].chain
    PROVE  /\ DOMAIN positions' = DOMAIN positions
           /\ \A d \in DOMAIN positions :
                /\ d # c => positions'[d] = positions[d]
                /\ positions'[d].trade = positions[d].trade
                /\ positions'[d].cost = positions[d].cost
           /\ c \in DOMAIN positions =>
                positions'[c].pnl = positions[c].pnl
                  + RealizedPnL(CurrentLeg(w), lots[ClosedLot(w)], ClosedNow(w))
  <1> DEFINE pnl == RealizedPnL(CurrentLeg(w), lots[ClosedLot(w)], ClosedNow(w))
             d0 == lots[ClosedLot(w)].chain
             closed == PositionClosed(hook[w], lots', d0)
             time == ClosingTime(hook[w], lots', d0)
             row == [positions[d0] EXCEPT !.pnl = hook[w].pos.pnl + pnl, !.closed = closed,
                                          !.closedAt = time]
  <1>1. hook[w].pos = GetPositionByChainID(c)
    BY CloseLotWrites DEF CallsHoldCurrentRows, HoldsCurrentRows, ClosedLot
  <1>2. \A d \in DOMAIN positions : positions[d] \in PositionRow /\ positions[d] # None
    BY NoneAssumption DEF TypeInv, TypeOK
  <1>3. CASE c \notin DOMAIN positions
    <2>1. hook[w].pos = None
      BY <1>1, <1>3 DEF GetPositionByChainID
    <2>2. positions' = positions
      BY <2>1 DEF CloseLot
    <2> QED
      BY <1>3, <2>2
  <1>4. CASE c \in DOMAIN positions
    <2>1. hook[w].pos = positions[c] /\ hook[w].pos # None
      BY <1>1, <1>2, <1>4 DEF GetPositionByChainID
    <2>2. positions' = [positions EXCEPT ![d0] = row]
      BY <2>1 DEF CloseLot, ClosedLot, ClosedNow
    <2> HIDE DEF pnl, closed, time
    <2>3. /\ DOMAIN positions' = DOMAIN positions
          /\ \A d \in DOMAIN positions : d # c => positions'[d] = positions[d]
          /\ positions'[c] = [positions[c] EXCEPT !.pnl = positions[c].pnl + pnl,
                                  !.closed = closed, !.closedAt = time]
      BY <1>4, <2>1, <2>2 DEF TypeInv, TypeOK
    <2>4. /\ positions'[c].trade = positions[c].trade
          /\ positions'[c].cost = positions[c].cost
          /\ positions'[c].pnl = positions[c].pnl + pnl
      BY <1>2, <1>4, <2>3 DEF PositionRow
    <2> QED
      BY <2>3, <2>4 DEF pnl
  <1> QED
    BY <1>3, <1>4

LEMMA CloseLotKeepsMirror ==
    ASSUME TypeInv, TypeInv', ClosingsNameLots, OneImport, MirrorInv,
           NEW w \in Worker, CloseLot(w)
    PROVE  MirrorInv'
  <1> DEFINE i == ClosedLot(w)
             n == Len(closings) + 1
             pnl == RealizedPnL(CurrentLeg(w), lots[i], ClosedNow(w))
  <1>1. /\ hook[w].pc = "close" /\ hook'[w].pc = "match"
        /\ hook'[w].chain = hook[w].chain /\ hook'[w].trade = hook[w].trade
        /\ UNCHANGED <<outcome, failures>> /\ i \in 1..Len(lots)
    <2>1. UNCHANGED <<outcome, failures>>
      BY DEF CloseLot
    <2>2. hook'[w] = AfterClose(hook[w], ClosedNow(w))
      BY CloseLotWrites DEF TypeInv, TypeOK
    <2> QED
      BY <2>1, <2>2, CloseLotWrites, AfterCloseFields
  <1>2. /\ Len(closings) \in Nat /\ Len(closings') = n
        /\ \A j \in 1..Len(closings) : closings'[j] = closings[j]
        /\ closings'[n].lot = i /\ closings'[n].pnl = pnl
        /\ closings'[n] \in ClosingRow
        /\ Len(lots') = Len(lots)
        /\ \A k \in 1..Len(lots) :
              lots'[k] = IF k = i THEN RowAfterClose(w) ELSE lots[k]
    BY ClosingAppended, ClosingFacts
  <1>3. /\ RowAfterClose(w).chain = lots[i].chain /\ RowAfterClose(w).open = lots[i].open
        /\ RowAfterClose(w).price = lots[i].price
    BY CloseLotWrites DEF RowAfterClose, LotRow
  <1>4. /\ \A k \in 1..Len(lots) : lots'[k].chain = lots[k].chain
        /\ CostOfLot' = CostOfLot
    <2>1. \A k \in 1..Len(lots) : /\ lots'[k].chain = lots[k].chain
                                  /\ lots'[k].open = lots[k].open
                                  /\ lots'[k].price = lots[k].price
      BY <1>2, <1>3
    <2> QED
      BY <1>2, <2>1 DEF CostOfLot, LotCashFlowSign
  <1>5. \A d : Counted(d) = LotsOfChain(d) /\ Counted(d)' = LotsOfChain(d)
    <2>1. \A d : NotYetCounted(d) = {} /\ NotYetCounted(d)' = {}
      BY <1>1, NotYetCountedBy, NotYetCountedNext DEF Opening
    <2> QED
      BY <1>2, <1>4, <2>1 DEF Counted, LotsOfChain
  <1>6. CallsHoldCurrentRows'
    BY <1>1 DEF OneImport, CallsHoldCurrentRows, HoldsCurrentRows, Opening
  <1>7. OnePositionPerTrade'
    <2>1. /\ DOMAIN positions' = DOMAIN positions
          /\ \A d \in DOMAIN positions : positions'[d].trade = positions[d].trade
      BY CloseLotWritesRow DEF MirrorInv
    <2> QED
      BY <1>1, <2>1 DEF OneImport, MirrorInv, OnePositionPerTrade
  <1>8. ChainsMirrored'
    <2> SUFFICES ASSUME failures = 0, NEW d \in Chain PROVE Mirrored(d)'
      BY <1>1 DEF ChainsMirrored
    <2>1. Mirrored(d)
      BY DEF MirrorInv, ChainsMirrored
    <2>2. \A j \in 1..n : j \in 1..Len(closings) \/ j = n
      BY <1>2
    <2>3. ClosingsOfChain(d)' = IF d = lots[i].chain THEN ClosingsOfChain(d) \cup {n}
                                ELSE ClosingsOfChain(d)
      <3> HIDE DEF i
      <3> QED
        BY <1>1, <1>2, <1>4, <2>2 DEF ClosingsOfChain, ClosingsNameLots
    <2>4. CASE d # lots[i].chain
      <3>1. /\ d \in DOMAIN positions' <=> d \in DOMAIN positions
            /\ d \in DOMAIN positions => positions'[d] = positions[d]
        BY <2>4, CloseLotWritesRow DEF MirrorInv
      <3>2. ChainUntouched(d)
        BY <1>2, <1>4, <1>5, <2>3, <2>4, <3>1, LotFacts DEF ChainUntouched
      <3> QED
        BY <2>1, <3>2, UntouchedStaysMirrored
    <2>5. CASE d = lots[i].chain
      <3> DEFINE S == ClosingsOfChain(d)
      <3>1. i \in LotsOfChain(d)
        BY <1>1, <2>5 DEF LotsOfChain
      <3>2. /\ d \in DOMAIN positions' /\ positions'[d].cost = positions[d].cost
            /\ positions'[d].pnl = positions[d].pnl + pnl
            /\ positions[d].pnl = SumFunctionOnSet(PnLOfClosing, S)
            /\ positions[d].cost = SumFunctionOnSet(CostOfLot, LotsOfChain(d))
        BY <1>5, <2>1, <2>5, <3>1, CloseLotWritesRow DEF MirrorInv, Mirrored
      <3>3. /\ IsFiniteSet(S) /\ n \notin S
            /\ \A j \in S : PnLOfClosing[j] \in Int
            /\ \A j \in S : PnLOfClosing'[j] = PnLOfClosing[j]
            /\ \A j \in S : PnLOfClosing'[j] \in Int
            /\ PnLOfClosing'[n] = pnl /\ pnl \in Int
        <4>1. S \subseteq 1..Len(closings) /\ n \notin S
          BY <1>2 DEF ClosingsOfChain
        <4>2. PnLOfClosing'[n] = pnl /\ pnl \in Int
          BY <1>2 DEF PnLOfClosing, ClosingRow
        <4>3. \A j \in 1..Len(closings) : PnLOfClosing'[j] = PnLOfClosing[j]
          BY <1>2 DEF PnLOfClosing
        <4> HIDE DEF S, n, pnl
        <4> QED
          BY <4>1, <4>2, <4>3, MirrorTerms DEF S
      <3> HIDE DEF S, n, pnl
      <3>4. SumFunctionOnSet(PnLOfClosing', S) = SumFunctionOnSet(PnLOfClosing, S)
        BY <3>3, SumEqual
      <3>5. SumFunctionOnSet(PnLOfClosing', S \cup {n})
              = SumFunctionOnSet(PnLOfClosing', S) + PnLOfClosing'[n]
        BY <3>3, SumAdd
      <3>6. /\ ClosingsOfChain(d)' = S \cup {n} /\ Counted(d)' # {}
            /\ Counted(d)' = LotsOfChain(d)
        BY <1>5, <2>3, <2>5, <3>1 DEF S
      <3> QED
        BY <1>4, <3>2, <3>3, <3>4, <3>5, <3>6 DEF Mirrored
    <2> QED
      BY <2>4, <2>5
  <1> QED
    BY <1>6, <1>7, <1>8 DEF MirrorInv

LEMMA NextMirror ==
    ASSUME TypeInv, TypeInv', ClosingsNameLots, OneImport, MirrorInv, [Next]_vars
    PROVE  MirrorInv'
  <1>1. CASE UNCHANGED vars
    <2>1. UNCHANGED <<lots, closings, positions, hook, outcome, failures>>
      BY <1>1 DEF vars
    <2>2. CallsHoldCurrentRows'
      BY <2>1 DEF MirrorInv, CallsHoldCurrentRows, HoldsCurrentRows, Opening, CostOfLot,
                  GetPositionByChainID
    <2>3. OnePositionPerTrade'
      BY <2>1 DEF MirrorInv, OnePositionPerTrade
    <2>4. ASSUME NEW c PROVE ChainUntouched(c)
      <3>1. NotYetCounted(c)' = NotYetCounted(c) /\ LotsOfChain(c)' = LotsOfChain(c)
        BY <2>1 DEF NotYetCounted, LotsOfChain, Opening
      <3>2. ClosingsOfChain(c)' = ClosingsOfChain(c) /\ CostOfLot' = CostOfLot
        BY <2>1 DEF ClosingsOfChain, CostOfLot
      <3> QED
        BY <2>1, <3>1, <3>2, MirrorTerms DEF ChainUntouched, Counted
    <2>5. ChainsMirrored'
      BY <2>1, <2>4, UntouchedStaysMirrored DEF MirrorInv, ChainsMirrored
    <2> QED
      BY <2>2, <2>3, <2>5 DEF MirrorInv
  <1> QED
    BY <1>1, CallKeepsMirror, EndKeepsMirror, NoInsertRejected, FindPositionKeepsMirror,
       FindPositionForLotKeepsMirror, CreateLotKeepsMirror, CreatePositionKeepsMirror,
       AccumulateCostBasisKeepsMirror, CloseLotKeepsMirror DEF Next, HookStep

LEMMA InitMirror == Init => MirrorInv
  <1> SUFFICES ASSUME Init PROVE MirrorInv
    OBVIOUS
  <1>1. Len(lots) = 0 /\ DOMAIN positions = {} /\ \A w \in Worker : hook[w].pc = "idle"
    BY DEF Init, IdleJob
  <1>2. \A c : Counted(c) = {}
    BY <1>1 DEF Counted, LotsOfChain
  <1> QED
    BY <1>1, <1>2 DEF MirrorInv, CallsHoldCurrentRows, HoldsCurrentRows, Opening,
       OnePositionPerTrade, ChainsMirrored, Mirrored

\* As long as no two imports run at the same time and no call has been cut
\* short, between legs every position row is a faithful cache of the ledger: a
\* chain has a row exactly when it has a lot, its cost basis is the sum over
\* the chain's lots and its realized P&L the sum over their closings, through
\* every read-modify-write of the row.
THEOREM PositionsMirrorLedger ==
    ASSUME OneImport
    PROVE  Spec => []PositionMirrorsLedger
  <1>1. BalanceInv => ClosingsNameLots
    BY DEF BalanceInv
  <1>2. TypeInv /\ TypeInv' /\ ClosingsNameLots /\ MirrorInv /\ [Next]_vars => MirrorInv'
    BY NextMirror
  <1>3. MirrorInv => PositionMirrorsLedger
    <2> SUFFICES ASSUME MirrorInv, failures = 0, BetweenLegs, NEW c \in Chain
                 PROVE  IF LotsOfChain(c) = {} THEN c \notin DOMAIN positions
                        ELSE /\ c \in DOMAIN positions
                             /\ positions[c].cost = SumFunctionOnSet(CostOfLot, LotsOfChain(c))
                             /\ positions[c].pnl
                                  = SumFunctionOnSet(PnLOfClosing, ClosingsOfChain(c))
      BY DEF PositionMirrorsLedger
    <2>1. Counted(c) = LotsOfChain(c)
      BY DEF BetweenLegs, Counted, NotYetCounted, Opening
    <2> QED
      BY <2>1 DEF MirrorInv, ChainsMirrored, Mirrored
  <1> QED
    BY <1>1, <1>2, <1>3, InitMirror, TypeInvHolds, BalanceInvHolds, PTL DEF Spec

-----------------------------------------------------------------------------
(* What a call shows its caller, however calls interleave.                  *)

\* A call at rest holds nothing, and a position row read to be written back has
\* kept its trade.
CallerInv ==
    \A w \in Worker :
        /\ hook[w].pc = "idle" => hook[w] = IdleJob
        /\ hook[w].pc = "accumulate" => hook[w].pos.trade = positions[hook[w].chain].trade

\* Rows keep the trade and the chain they were made for.
RowsKeepOrigin ==
    /\ Len(lots) \in Nat /\ Len(lots') \in Nat /\ Len(lots) <= Len(lots')
    /\ \A i \in 1..Len(lots) :
          lots'[i].trade = lots[i].trade /\ lots'[i].chain = lots[i].chain
    /\ DOMAIN positions \subseteq DOMAIN positions'
    /\ \A c \in DOMAIN positions : positions'[c].trade = positions[c].trade

\* New rows are made by opening legs, for the trade and the chain of the call.
NewRowsOf(t, c) ==
    /\ \A i \in 1..Len(lots') : i \notin 1..Len(lots) =>
          Opens(t) /\ lots'[i].trade = t /\ lots'[i].chain = c
    /\ \A d \in DOMAIN positions' : d \notin DOMAIN positions =>
          Opens(t) /\ d = c /\ positions'[d].trade = t

\* The call goes on for the same trade and chain, or ends with a result.
HookMoves(w) ==
    /\ \A v \in Worker : v # w => hook'[v] = hook[v]
    /\ \/ /\ hook'[w].pc # "idle"
          /\ hook'[w].trade = hook[w].trade /\ hook'[w].chain = hook[w].chain
          /\ outcome' = outcome
       \/ /\ hook'[w] = IdleJob
          /\ \E result \in {"ok", "failed"} :
                outcome' = [outcome EXCEPT ![hook[w].trade] = result]

Shows(w) ==
    /\ hook[w].pc # "idle" /\ HookMoves(w) /\ RowsKeepOrigin
    /\ NewRowsOf(hook[w].trade, hook[w].chain)

LEMMA LedgerKept ==
    ASSUME TypeInv, UNCHANGED <<lots, positions>>
    PROVE  RowsKeepOrigin /\ \A t, c : NewRowsOf(t, c)
  BY LotFacts DEF RowsKeepOrigin, NewRowsOf

LEMMA HookStepShows ==
    ASSUME TypeInv, CallerInv, NEW w \in Worker, HookStep(w) \/ CutShort(w)
    PROVE  Shows(w) /\ CallerInv'
  <1>1. /\ hook \in [Worker -> Job] /\ hook[w] \in Job /\ JobOK(hook[w])
        /\ lots \in Seq(LotRow) /\ Len(lots) \in Nat
    BY LotFacts DEF TypeInv, TypeOK, JobsOK
  <1> DEFINE Kept == \A v \in Worker :
                        /\ hook'[v] = IdleJob \/ hook'[v].pc # "idle" \/ hook'[v] = hook[v]
                        /\ hook'[v].pc = "accumulate" =>
                              \/ hook'[v] = hook[v]
                              \/ /\ hook'[v].pos.trade = positions'[hook'[v].chain].trade
  <1> SUFFICES Shows(w) /\ Kept
    <2>1. ASSUME Shows(w), Kept, NEW v \in Worker, hook'[v].pc = "accumulate",
                 hook'[v] = hook[v]
          PROVE  hook'[v].pos.trade = positions'[hook'[v].chain].trade
      <3>1. hook[v].chain \in DOMAIN positions
        BY <2>1 DEF TypeInv, JobsOK, JobOK
      <3> QED
        BY <2>1, <3>1 DEF Shows, RowsKeepOrigin, CallerInv
    <2> QED
      BY <2>1 DEF CallerInv, IdleJob
  <1>2. ASSUME hook' = [hook EXCEPT ![w] = IdleJob], hook[w].pc # "idle",
               UNCHANGED <<lots, positions>>,
               NEW result \in {"ok", "failed"},
               outcome' = [outcome EXCEPT ![hook[w].trade] = result]
        PROVE  Shows(w) /\ Kept
    <2>1. hook'[w] = IdleJob /\ \A v \in Worker : v # w => hook'[v] = hook[v]
      BY <1>1, <1>2
    <2>2. \A v \in Worker : hook'[v] = IdleJob \/ hook'[v] = hook[v]
      BY <2>1
    <2>3. IdleJob.pc # "accumulate"
      BY DEF IdleJob
    <2>4. Kept
      BY <2>2, <2>3
    <2>5. HookMoves(w)
      BY <1>2, <2>1 DEF HookMoves
    <2>6. RowsKeepOrigin /\ NewRowsOf(hook[w].trade, hook[w].chain)
      BY <1>2, LedgerKept
    <2> QED
      BY <1>2, <2>4, <2>5, <2>6 DEF Shows
  <1>3. ASSUME NEW job, hook' = [hook EXCEPT ![w] = job], hook[w].pc # "idle",
               job.pc \notin {"idle", "accumulate"},
               job.trade = hook[w].trade, job.chain = hook[w].chain, outcome' = outcome,
               RowsKeepOrigin, NewRowsOf(hook[w].trade, hook[w].chain)
        PROVE  Shows(w) /\ Kept
    <2>1. hook'[w] = job /\ \A v \in Worker : v # w => hook'[v] = hook[v]
      BY <1>1, <1>3
    <2> QED
      BY <1>3, <2>1 DEF Shows, HookMoves
  <1>4. /\ AfterLeg(hook[w]).pc = "leg" /\ AfterLeg(hook[w]).trade = hook[w].trade
        /\ AfterLeg(hook[w]).chain = hook[w].chain
    BY DEF AfterLeg, IdleJob
  <1> HIDE DEF Kept
  <1>5. CASE CutShort(w) \/ Finish(w) \/ OverClose(w) \/ CreatePositionRejected(w)
    BY <1>2, <1>5 DEF CutShort, Finish, OverClose, CreatePositionRejected, EndCall, ledgerVars
  <1>6. CASE CreateLot(w)
    <2>1. /\ RowsKeepOrigin
          /\ Opens(hook[w].trade)
      <3>1. Opens(hook[w].trade)
        BY <1>6 DEF CreateLot, CurrentLeg, Opens
      <3> QED
        BY <1>1, <1>6, <3>1, CreateLotWrites DEF RowsKeepOrigin, CreateLot
    <2>2. NewRowsOf(hook[w].trade, hook[w].chain)
      BY <1>1, <1>6, <2>1, CreateLotWrites DEF NewRowsOf, CreateLot
    <2> DEFINE job == [hook[w] EXCEPT !.pc = "find"]
    <2>3. /\ hook' = [hook EXCEPT ![w] = job] /\ outcome' = outcome /\ hook[w].pc = "leg"
          /\ job.pc = "find" /\ job.trade = hook[w].trade /\ job.chain = hook[w].chain
      BY <1>1, <1>6 DEF CreateLot, Job
    <2> HIDE DEF job
    <2> QED
      BY <1>3, <2>1, <2>2, <2>3
  <1>7. CASE FindPosition(w)
    <2>1. /\ \A v \in Worker : v # w => hook'[v] = hook[v]
          /\ hook'[w].trade = hook[w].trade /\ hook'[w].chain = hook[w].chain
          /\ hook'[w].pc \in {"accumulate", "insert"}
          /\ hook'[w].pc = "accumulate" => hook'[w].pos = positions[hook[w].chain]
          /\ UNCHANGED <<lots, positions, outcome>> /\ hook[w].pc = "find"
      BY <1>1, <1>7 DEF FindPosition, Job, GetPositionByChainID
    <2> QED
      BY <2>1, LedgerKept DEF Shows, HookMoves, Kept
  <1>8. CASE CreatePosition(w)
    <2>1. Opens(hook[w].trade)
      BY <1>1, <1>8 DEF CreatePosition, JobOK, LegIndex, Opens
    <2>2. RowsKeepOrigin /\ NewRowsOf(hook[w].trade, hook[w].chain)
      BY <1>1, <1>8, <2>1 DEF CreatePosition, PositionKeyTaken, RowsKeepOrigin, NewRowsOf
    <2> QED
      BY <1>3, <1>4, <1>8, <2>2 DEF CreatePosition, NextLeg
  <1>9. CASE AccumulateCostBasis(w)
    <2>1. /\ hook[w].pos \in PositionRow /\ hook[w].chain \in DOMAIN positions
          /\ hook[w].pos.trade = positions[hook[w].chain].trade
      BY <1>1, <1>9 DEF AccumulateCostBasis, JobOK, CallerInv
    <2> DEFINE row == [hook[w].pos EXCEPT !.cost = @ + LegCostBasis(CurrentLeg(w))]
    <2>2. row.trade = hook[w].pos.trade
      BY <2>1 DEF PositionRow
    <2>3. positions' = [positions EXCEPT ![hook[w].chain] = row] /\ lots' = lots
      BY <1>9 DEF AccumulateCostBasis
    <2> HIDE DEF row
    <2>4. DOMAIN positions' = DOMAIN positions
      BY <2>3
    <2>5. \A c \in DOMAIN positions : positions'[c].trade = positions[c].trade
      BY <2>1, <2>2, <2>3
    <2>6. RowsKeepOrigin /\ NewRowsOf(hook[w].trade, hook[w].chain)
      BY <1>1, <2>3, <2>4, <2>5 DEF RowsKeepOrigin, NewRowsOf
    <2> QED
      BY <1>3, <1>4, <1>9, <2>6 DEF AccumulateCostBasis, NextLeg
  <1>10. ASSUME NextLeg(w), UNCHANGED ledgerVars, hook[w].pc # "idle"
         PROVE  Shows(w) /\ Kept
    BY <1>3, <1>4, <1>10, LedgerKept DEF NextLeg, ledgerVars
  <1>11. CASE ClosingMatched(w)
    BY <1>10, <1>11 DEF ClosingMatched
  <1>12. CASE ListOpenLots(w)
    <2>1. CASE NextLeg(w)
      BY <1>10, <1>12, <2>1 DEF ListOpenLots
    <2>2. CASE ~NextLeg(w)
      <3>1. PICK S, left : hook' = [hook EXCEPT ![w].pc = "match", ![w].left = left,
                                                ![w].todo = S]
        BY <1>12, <2>2 DEF ListOpenLots
      <3>2. /\ \A v \in Worker : v # w => hook'[v] = hook[v]
            /\ hook'[w].pc = "match" /\ hook'[w].trade = hook[w].trade
            /\ hook'[w].chain = hook[w].chain
        BY <1>1, <3>1 DEF Job
      <3>3. UNCHANGED <<lots, positions, outcome>> /\ hook[w].pc = "leg"
        BY <1>12, <2>2 DEF ListOpenLots, ledgerVars
      <3> QED
        BY <3>2, <3>3, LedgerKept DEF Shows, HookMoves, Kept
    <2> QED
      BY <2>1, <2>2
  <1>13. CASE FindPositionForLot(w)
    <2>1. /\ \A v \in Worker : v # w => hook'[v] = hook[v]
          /\ hook'[w].pc = "close" /\ hook'[w].trade = hook[w].trade
          /\ hook'[w].chain = hook[w].chain
          /\ UNCHANGED <<lots, positions, outcome>> /\ hook[w].pc = "match"
      BY <1>1, <1>13 DEF FindPositionForLot, Job
    <2> QED
      BY <2>1, LedgerKept DEF Shows, HookMoves, Kept
  <1>14. CASE CloseLot(w)
    <2>1. /\ Len(lots') = Len(lots)
          /\ \A i \in 1..Len(lots) :
                lots'[i].trade = lots[i].trade /\ lots'[i].chain = lots[i].chain
      <3>1. /\ Len(lots') = Len(lots)
            /\ \A i \in 1..Len(lots) :
                  lots'[i] = IF i = ClosedLot(w) THEN RowAfterClose(w) ELSE lots[i]
        BY <1>14, ClosingAppended
      <3>2. lots[ClosedLot(w)] \in LotRow
        BY <1>14, CloseLotWrites
      <3>3. /\ RowAfterClose(w).trade = lots[ClosedLot(w)].trade
            /\ RowAfterClose(w).chain = lots[ClosedLot(w)].chain
        BY <3>2 DEF RowAfterClose, LotRow
      <3> QED
        BY <3>1, <3>3
    <2>2. /\ DOMAIN positions' = DOMAIN positions
          /\ \A c \in DOMAIN positions : positions'[c].trade = positions[c].trade
      <3>1. PICK c, pnl, closed, at :
               positions' = IF hook[w].pos = None THEN positions
                            ELSE [positions EXCEPT ![c] = [@ EXCEPT !.pnl = pnl,
                                                                    !.closed = closed,
                                                                    !.closedAt = at]]
        BY <1>14 DEF CloseLot
      <3>2. \A d \in DOMAIN positions : positions[d] \in PositionRow
        BY DEF TypeInv, TypeOK
      <3>3. \A row \in PositionRow :
               [row EXCEPT !.pnl = pnl, !.closed = closed, !.closedAt = at].trade = row.trade
        BY DEF PositionRow
      <3>4. CASE hook[w].pos = None
        BY <3>1, <3>4
      <3>5. CASE hook[w].pos # None
        <4> DEFINE new(row) == [row EXCEPT !.pnl = pnl, !.closed = closed, !.closedAt = at]
        <4>1. positions' = [positions EXCEPT ![c] = new(positions[c])]
          BY <3>1, <3>5
        <4>2. \A row \in PositionRow : new(row).trade = row.trade
          BY <3>3
        <4> HIDE DEF new
        <4> QED
          BY <3>2, <4>1, <4>2
      <3> QED
        BY <3>4, <3>5
    <2>3. RowsKeepOrigin /\ NewRowsOf(hook[w].trade, hook[w].chain)
      BY <1>1, <2>1, <2>2 DEF RowsKeepOrigin, NewRowsOf
    <2> DEFINE job == AfterClose(hook[w], ClosedNow(w))
    <2>4. hook' = [hook EXCEPT ![w] = job] /\ ClosedNow(w) \in Nat
      BY <1>14, CloseLotWrites
    <2>5. job.pc = "match" /\ job.trade = hook[w].trade /\ job.chain = hook[w].chain
      BY <1>1, <2>4, AfterCloseFields
    <2>6. hook[w].pc = "close" /\ outcome' = outcome
      BY <1>14 DEF CloseLot
    <2> HIDE DEF job
    <2> QED
      BY <1>3, <2>3, <2>4, <2>5, <2>6
  <1> QED
    BY <1>5, <1>6, <1>7, <1>8, <1>9, <1>11, <1>12, <1>13, <1>14 DEF HookStep

=============================================================================
