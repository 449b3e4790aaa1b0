--------------------------- MODULE StrategyRules ---------------------------
(* Package internal/strategy: the transactions of a trade become leg shapes, *)
(* and the first of sixteen rules that matches them names the strategy of    *)
(* the chain the trade starts (ChainService.startChain).  The state is one   *)
(* order while it is being filled; the chain service classifies whatever     *)
(* part of it has been exported.                                             *)
EXTENDS Integers, SequencesExt, FiniteSetsExt, Ascending

CONSTANTS
    Kind,           \* transactions of an order but for their quantity:
                    \* [on |-> [class, type, strike, exp], action, effect]
    MaxFills        \* bound on the fills of one order

\* Strikes are numbers (a decimal in the code), 0 where there is none.
ASSUME KindAssumption == \A kind \in Kind : kind.on.strike \in Int

VARIABLE fills      \* kind -> how many fills of it, one contract each

-----------------------------------------------------------------------------
(* Leg shapes.                                                               *)

IsOption(leg) == leg.on.class \in {"equity_option", "future_option"}

\* A transaction that opens exposure in the market: what is not a buy or a
\* sale (an assignment, an expiration) is no leg.
IsOpeningFill(tx) ==
    /\ tx.effect = "opening"
    /\ tx.qty > 0
    /\ tx.action \in {"BTO", "BUY", "STO", "SELL"}

SignedQty(tx) == IF tx.action \in {"BTO", "BUY"} THEN tx.qty ELSE -tx.qty

\* Mutated form of MergedFills.
MergedFillsNever(txs, i) == {i}

\* Fills of one contract are merged into the leg that the first of them opened.
MergedFills(txs, i) == {j \in DOMAIN txs : IsOpeningFill(txs[j]) /\ txs[j].on = txs[i].on}

LegQty(txs, i) ==
    SumFunctionOnSet([j \in DOMAIN txs |-> SignedQty(txs[j])], MergedFills(txs, i))

\* What buys and sells of one contract cancelled is no leg either.
OpensLeg(txs, i) ==
    /\ IsOpeningFill(txs[i])
    /\ \A j \in MergedFills(txs, i) : i <= j
    /\ LegQty(txs, i) # 0

FromTransactions(txs) ==
    LET order == InOrder({i \in DOMAIN txs : OpensLeg(txs, i)})
    IN  [n \in DOMAIN order |->
            [on |-> txs[order[n]].on, qty |-> LegQty(txs, order[n])]]

-----------------------------------------------------------------------------
(* The helpers the rules share.                                              *)

Side(leg) == IF leg.qty > 0 THEN 1 ELSE IF leg.qty < 0 THEN -1 ELSE 0

AllOptions(legs) == \A i \in DOMAIN legs : IsOption(legs[i])

AllSameExpiry(legs) == \A i \in DOMAIN legs : legs[i].on.exp = legs[1].on.exp

AllSameOptionType(legs) == \A i \in DOMAIN legs : legs[i].on.type = legs[1].on.type

\* The copy of the legs in the order of their strikes; there is none when two
\* strikes are equal, which no rule that sorts accepts.
SortByStrike(legs) ==
    {s \in [DOMAIN legs -> ToSet(legs)] :
        \A i, j \in DOMAIN legs : i < j => s[i].on.strike < s[j].on.strike}

\* The places of the legs of one option type, and of those bought (dir = 1) or
\* sold (dir = -1).
FilterByOptionType(legs, type) == {i \in DOMAIN legs : legs[i].on.type = type}

FilterByDirection(legs, dir) == {i \in DOMAIN legs : Side(legs[i]) = dir}

\* Total contracts held long or short.
TotalQtyByDirection(legs, dir) ==
    SumFunctionOnSet([i \in DOMAIN legs |-> dir * legs[i].qty], FilterByDirection(legs, dir))

Larger(a, b) == IF a > b THEN a ELSE b
Smaller(a, b) == IF a < b THEN a ELSE b

-----------------------------------------------------------------------------
(* The rules.                                                                *)

\* Four options of one expiry: a long and a short put, a long and a short call.
TypeOnSide(legs, type, dir) == FilterByOptionType(legs, type) \cap FilterByDirection(legs, dir)

IsIron(legs) ==
    /\ Len(legs) = 4
    /\ AllOptions(legs) /\ AllSameExpiry(legs)
    /\ \A type \in {"P", "C"}, dir \in {1, -1} : Cardinality(TypeOnSide(legs, type, dir)) = 1

Strike(legs, type, dir) == legs[CHOOSE i \in TypeOnSide(legs, type, dir) : TRUE].on.strike

IronButterfly(legs) ==
    /\ IsIron(legs)
    /\ Strike(legs, "P", 1) < Strike(legs, "P", -1)
    /\ Strike(legs, "C", -1) < Strike(legs, "C", 1)
    /\ Strike(legs, "P", -1) = Strike(legs, "C", -1)

\* Mutated form of IronCondor.
IronCondorTouching(legs) ==
    /\ IsIron(legs)
    /\ Larger(Strike(legs, "P", -1), Strike(legs, "P", 1))
         <= Smaller(Strike(legs, "C", -1), Strike(legs, "C", 1))

\* Every put strike below every call strike.
IronCondor(legs) ==
    /\ IsIron(legs)
    /\ Larger(Strike(legs, "P", -1), Strike(legs, "P", 1))
         < Smaller(Strike(legs, "C", -1), Strike(legs, "C", 1))

BrokenHeartButterfly(legs) ==
    /\ Len(legs) = 4
    /\ AllOptions(legs) /\ AllSameExpiry(legs) /\ AllSameOptionType(legs)
    /\ \E s \in SortByStrike(legs) :
          /\ Side(s[1]) = Side(s[4])
          /\ Side(s[2]) = Side(s[3])
          /\ Side(s[1]) # Side(s[2])
          /\ \A i \in 1..3 : Larger(s[i].qty, -s[i].qty)
                               = Larger(s[i + 1].qty, -s[i + 1].qty)

\* One, two, one of three strikes; the wings decide which butterfly it is.
OneTwoOne(s) ==
    /\ Side(s[1]) = Side(s[3]) /\ Side(s[2]) # Side(s[1])
    /\ s[1].qty = s[3].qty
    /\ s[2].qty = -(s[1].qty + s[3].qty)

EqualWings(s) == s[2].on.strike - s[1].on.strike = s[3].on.strike - s[2].on.strike

Butterfly(legs) ==
    /\ Len(legs) = 3
    /\ AllOptions(legs) /\ AllSameExpiry(legs) /\ AllSameOptionType(legs)
    /\ \E s \in SortByStrike(legs) : OneTwoOne(s) /\ EqualWings(s)

BrokenWingButterfly(legs) ==
    /\ Len(legs) = 3
    /\ AllOptions(legs) /\ AllSameExpiry(legs) /\ AllSameOptionType(legs)
    /\ \E s \in SortByStrike(legs) : OneTwoOne(s) /\ ~EqualWings(s)

CoveredCall(legs) ==
    /\ Len(legs) = 2
    /\ \E i \in DOMAIN legs : legs[i].on.class = "equity" /\ legs[i].qty > 0
    /\ \E i \in DOMAIN legs : /\ legs[i].on.class = "equity_option"
                              /\ legs[i].on.type = "C"
                              /\ legs[i].qty < 0

\* Options of one type and expiry, on both sides, more of them on one.
IsRatio(legs, more, fewer) ==
    /\ Len(legs) \in 2..3
    /\ AllOptions(legs) /\ AllSameOptionType(legs) /\ AllSameExpiry(legs)
    /\ TotalQtyByDirection(legs, fewer) # 0
    /\ TotalQtyByDirection(legs, more) > TotalQtyByDirection(legs, fewer)

Ratio(legs) == IsRatio(legs, -1, 1)

BackRatio(legs) == IsRatio(legs, 1, -1)

\* A put and a call of one expiry, both bought or both sold.
IsPutAndCall(legs) ==
    /\ Len(legs) = 2
    /\ AllOptions(legs) /\ AllSameExpiry(legs)
    /\ legs[1].on.type # legs[2].on.type
    /\ Side(legs[1]) = Side(legs[2])

Straddle(legs) == IsPutAndCall(legs) /\ legs[1].on.strike = legs[2].on.strike

Strangle(legs) == IsPutAndCall(legs) /\ legs[1].on.strike # legs[2].on.strike

\* Two options of one type, one bought and one sold.
IsSpread(legs) ==
    /\ Len(legs) = 2
    /\ AllOptions(legs) /\ AllSameOptionType(legs)
    /\ Side(legs[1]) # Side(legs[2])

Vertical(legs) ==
    IsSpread(legs) /\ AllSameExpiry(legs) /\ legs[1].on.strike # legs[2].on.strike

Calendar(legs) ==
    IsSpread(legs) /\ ~AllSameExpiry(legs) /\ legs[1].on.strike = legs[2].on.strike

Diagonal(legs) ==
    IsSpread(legs) /\ ~AllSameExpiry(legs) /\ legs[1].on.strike # legs[2].on.strike

Single(legs) == Len(legs) = 1 /\ IsOption(legs[1])

Stock(legs) == Len(legs) = 1 /\ legs[1].on.class = "equity"

Future(legs) == Len(legs) = 1 /\ legs[1].on.class = "future"

-----------------------------------------------------------------------------
(* The classifier.                                                           *)

\* Mutated form of Rules.
RulesVerticalFirst == <<"iron_butterfly", "iron_condor",
    "broken_heart_butterfly", "butterfly", "broken_wing_butterfly",
    "covered_call", "vertical", "ratio", "back_ratio", "straddle", "strangle",
    "calendar", "diagonal", "single", "stock", "future">>

\* The order in which NewClassifier registers the rules.
Rules == <<"iron_butterfly", "iron_condor", "broken_heart_butterfly",
    "butterfly", "broken_wing_butterfly", "covered_call", "ratio",
    "back_ratio", "straddle", "strangle", "vertical", "calendar", "diagonal",
    "single", "stock", "future">>

Match(rule, legs) ==
    CASE rule = "iron_butterfly" -> IronButterfly(legs)
      [] rule = "iron_condor" -> IronCondor(legs)
      [] rule = "broken_heart_butterfly" -> BrokenHeartButterfly(legs)
      [] rule = "butterfly" -> Butterfly(legs)
      [] rule = "broken_wing_butterfly" -> BrokenWingButterfly(legs)
      [] rule = "covered_call" -> CoveredCall(legs)
      [] rule = "ratio" -> Ratio(legs)
      [] rule = "back_ratio" -> BackRatio(legs)
      [] rule = "straddle" -> Straddle(legs)
      [] rule = "strangle" -> Strangle(legs)
      [] rule = "vertical" -> Vertical(legs)
      [] rule = "calendar" -> Calendar(legs)
      [] rule = "diagonal" -> Diagonal(legs)
      [] rule = "single" -> Single(legs)
      [] rule = "stock" -> Stock(legs)
      [] rule = "future" -> Future(legs)

MaxLegs == 4

Classify(legs) ==
    LET i == SelectInSeq(Rules, LAMBDA r : Match(r, legs))
    IN  IF Len(legs) > MaxLegs \/ i = 0 THEN "unknown" ELSE Rules[i]

-----------------------------------------------------------------------------
(* The order: fills arrive one contract at a time, on either side.           *)

Count(kind) == IF kind \in DOMAIN fills THEN fills[kind] ELSE 0

Total == SumFunctionOnSet(fills, DOMAIN fills)

Init == fills = [kind \in {} |-> 0]

Fill(kind) ==
    /\ Total < MaxFills
    /\ fills' = [k \in DOMAIN fills \cup {kind} |->
                    Count(k) + IF k = kind THEN 1 ELSE 0]

Next == \E kind \in Kind : Fill(kind)

Spec == Init /\ [][Next]_fills

-----------------------------------------------------------------------------
(* Properties.                                                               *)

Transaction(kind, qty) ==
    [on |-> kind.on, action |-> kind.action, effect |-> kind.effect, qty |-> qty]

\* The export lists a row per contract filled, or sums up equal fills, in any order.
RowPerFill(kinds) == [i \in DOMAIN kinds |-> Transaction(kinds[i], 1)]

RowPerKind(kinds) == [i \in DOMAIN kinds |-> Transaction(kinds[i], Count(kinds[i]))]

FillOrders ==
    {kinds \in [1..Total -> DOMAIN fills] :
        \A k \in DOMAIN fills : Cardinality({i \in DOMAIN kinds : kinds[i] = k}) = fills[k]}

Legs == FromTransactions(RowPerKind(SetToSeq(DOMAIN fills)))

MatchingRules == LET legs == Legs IN {r \in ToSet(Rules) : Match(r, legs)}

\* "If two rules match the same leg shape that is a bug in the rules, not a tie
\* to be resolved by priority" (classifier.go:19).  Two options of one type and
\* expiry, more contracts on one side, match two: the rule for verticals does
\* not count contracts, and only its place in the list keeps it from them.
\* These are the only overlaps: every other order matches one rule at most.
RulesExclusive ==
    \/ Cardinality(MatchingRules) <= 1
    \/ MatchingRules \in {{"ratio", "vertical"}, {"back_ratio", "vertical"}}

\* What the classifier calls a vertical or a butterfly of any kind has as many
\* contracts bought as sold: it leaves no naked option.  For a vertical this
\* rests on the order of the rules, none of its own conditions counts contracts.
SpreadsAreBalanced ==
    Classify(Legs) \in {"vertical", "butterfly", "broken_wing_butterfly",
                        "broken_heart_butterfly"}
        => TotalQtyByDirection(Legs, 1) = TotalQtyByDirection(Legs, -1)

\* The strategy of an order depends neither on the order of its rows in the
\* export (newest first, oldest first or any other) nor on how the broker split
\* it into fills, nor on the legs it closes (leg_shape.go:74: partial fills are
\* merged).
FillsDoNotMatter ==
    LET strategy == Classify(Legs)
        open == SetToSeq({k \in DOMAIN fills : k.effect = "opening"})
    IN  /\ \A kinds \in FillOrders : Classify(FromTransactions(RowPerFill(kinds))) = strategy
        /\ Classify(FromTransactions(RowPerKind(Reverse(open)))) = strategy

=============================================================================
