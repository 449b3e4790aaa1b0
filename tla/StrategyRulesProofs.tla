------------------------ MODULE StrategyRulesProofs ------------------------
(* Proofs about StrategyRules, for every set of transaction kinds and every  *)
(* number of fills.                                                          *)
(*    OneRulePerOrder    no order matches two rules (but ratio/vertical)     *)
(*    SpreadsBalance     verticals and butterflies hold as much as they owe  *)
(*    FillsNeverMatter   partial fills and the order of rows change nothing  *)
(* The first two are facts about any sequence of legs (LegsMatchOnce,        *)
(* ClassifiedSpreadsBalance).  The third compares two lists of transactions: *)
(* equal sums per contract make the same legs up to their order (SameLegs),  *)
(* and no rule sees the order of the legs (SameRule).  Sums over fills and   *)
(* legs are those of SumTheorems.                                            *)
EXTENDS StrategyRules, SumTheorems, TLAPS

-----------------------------------------------------------------------------
(* The rules, for any legs a trade may have.                                *)

GoodLegs(legs) ==
    /\ Len(legs) \in Nat /\ DOMAIN legs = 1..Len(legs)
    /\ \A i \in DOMAIN legs :
          legs[i].qty \in Int /\ legs[i].qty # 0 /\ legs[i].on.strike \in Int

LEMMA MatchIsTheRule ==
    ASSUME NEW legs
    PROVE  /\ Match("iron_butterfly", legs) <=> IronButterfly(legs)
           /\ Match("iron_condor", legs) <=> IronCondor(legs)
           /\ Match("broken_heart_butterfly", legs) <=> BrokenHeartButterfly(legs)
           /\ Match("butterfly", legs) <=> Butterfly(legs)
           /\ Match("broken_wing_butterfly", legs) <=> BrokenWingButterfly(legs)
           /\ Match("covered_call", legs) <=> CoveredCall(legs)
           /\ Match("ratio", legs) <=> Ratio(legs)
           /\ Match("back_ratio", legs) <=> BackRatio(legs)
           /\ Match("straddle", legs) <=> Straddle(legs)
           /\ Match("strangle", legs) <=> Strangle(legs)
           /\ Match("vertical", legs) <=> Vertical(legs)
           /\ Match("calendar", legs) <=> Calendar(legs)
           /\ Match("diagonal", legs) <=> Diagonal(legs)
           /\ Match("single", legs) <=> Single(legs)
           /\ Match("stock", legs) <=> Stock(legs)
           /\ Match("future", legs) <=> Future(legs)
  BY DEF Match

LEMMA RuleNames ==
    /\ DOMAIN Rules = 1..16 /\ Len(Rules) = 16
    /\ ToSet(Rules) = {"iron_butterfly", "iron_condor", "broken_heart_butterfly",
          "butterfly", "broken_wing_butterfly", "covered_call", "ratio",
          "back_ratio", "straddle", "strangle", "vertical", "calendar",
          "diagonal", "single", "stock", "future"}
  <1>1. DOMAIN Rules = 1..16 /\ Len(Rules) = 16
    BY DEF Rules
  <1>2. ToSet(Rules) = {Rules[i] : i \in 1..16}
    BY <1>1 DEF ToSet
  <1>3. 1..16 = {1, 2, 3, 4, 5, 6, 7, 8, 9, 10, 11, 12, 13, 14, 15, 16}
    OBVIOUS
  <1> QED
    BY <1>1, <1>2, <1>3 DEF Rules

LEMMA MatchedRule ==
    ASSUME NEW legs, NEW q \in ToSet(Rules), Match(q, legs)
    PROVE  \/ q = "iron_butterfly" /\ IronButterfly(legs)
           \/ q = "iron_condor" /\ IronCondor(legs)
           \/ q = "broken_heart_butterfly" /\ BrokenHeartButterfly(legs)
           \/ q = "butterfly" /\ Butterfly(legs)
           \/ q = "broken_wing_butterfly" /\ BrokenWingButterfly(legs)
           \/ q = "covered_call" /\ CoveredCall(legs)
           \/ q = "ratio" /\ Ratio(legs)
           \/ q = "back_ratio" /\ BackRatio(legs)
           \/ q = "straddle" /\ Straddle(legs)
           \/ q = "strangle" /\ Strangle(legs)
           \/ q = "vertical" /\ Vertical(legs)
           \/ q = "calendar" /\ Calendar(legs)
           \/ q = "diagonal" /\ Diagonal(legs)
           \/ q = "single" /\ Single(legs)
           \/ q = "stock" /\ Stock(legs)
           \/ q = "future" /\ Future(legs)
  <1>1. q \in {"iron_butterfly", "iron_condor", "broken_heart_butterfly",
          "butterfly", "broken_wing_butterfly", "covered_call", "ratio",
          "back_ratio", "straddle", "strangle", "vertical", "calendar",
          "diagonal", "single", "stock", "future"}
    BY RuleNames, Zenon
  <1> QED
    BY <1>1, MatchIsTheRule, SMT

LEMMA SumOfOne ==
    ASSUME NEW F, NEW x, F[x] \in Int
    PROVE  SumFunctionOnSet(F, {x}) = F[x]
  <1>1. SumFunctionOnSet(F, {} \cup {x}) = SumFunctionOnSet(F, {}) + F[x]
    BY SumAdd, FS_EmptySet
  <1>2. {} \cup {x} = {x}
    OBVIOUS
  <1> QED
    BY <1>1, <1>2, SumEmpty

LEMMA SumOfTwo ==
    ASSUME NEW F, NEW x, NEW y, x # y, F[x] \in Int, F[y] \in Int
    PROVE  SumFunctionOnSet(F, {x, y}) = F[x] + F[y]
  <1>1. IsFiniteSet({x}) /\ y \notin {x} /\ \A z \in {x} : F[z] \in Int
    BY FS_Singleton
  <1>2. SumFunctionOnSet(F, {x} \cup {y}) = SumFunctionOnSet(F, {x}) + F[y]
    BY <1>1, SumAdd
  <1>3. {x} \cup {y} = {x, y}
    OBVIOUS
  <1> QED
    BY <1>2, <1>3, SumOfOne

LEMMA IronStrikes ==
    ASSUME NEW legs, GoodLegs(legs), IsIron(legs)
    PROVE  \A type \in {"P", "C"}, dir \in {1, -1} :
              /\ Strike(legs, type, dir) \in Int
              /\ \E i \in DOMAIN legs : legs[i].on.type = type
  <1> TAKE type \in {"P", "C"}, dir \in {1, -1}
  <1>1. Cardinality(TypeOnSide(legs, type, dir)) = 1
    BY DEF IsIron
  <1>2. TypeOnSide(legs, type, dir) # {}
    BY <1>1, FS_EmptySet
  <1>3. PICK i : i = CHOOSE k \in TypeOnSide(legs, type, dir) : TRUE
    OBVIOUS
  <1>4. i \in TypeOnSide(legs, type, dir)
    BY <1>2, <1>3
  <1>5. i \in DOMAIN legs /\ legs[i].on.type = type
    BY <1>4 DEF TypeOnSide, FilterByOptionType
  <1> QED
    BY <1>3, <1>5 DEF GoodLegs, Strike

LEMMA FourLegsMatchOnce ==
    ASSUME NEW legs, GoodLegs(legs)
    PROVE  /\ ~(IronButterfly(legs) /\ IronCondor(legs))
           /\ ~(IsIron(legs) /\ BrokenHeartButterfly(legs))
  <1>1. ASSUME IronButterfly(legs), IronCondor(legs) PROVE FALSE
    <2>1. IsIron(legs)
      BY <1>1 DEF IronButterfly
    <2>2. /\ Strike(legs, "P", 1) \in Int /\ Strike(legs, "P", -1) \in Int
          /\ Strike(legs, "C", 1) \in Int /\ Strike(legs, "C", -1) \in Int
      BY <2>1, IronStrikes
    <2> QED
      BY <1>1, <2>2 DEF IronButterfly, IronCondor, Larger, Smaller
  <1>2. ASSUME IsIron(legs), BrokenHeartButterfly(legs) PROVE FALSE
    <2>1. PICK i \in DOMAIN legs : legs[i].on.type = "P"
      BY <1>2, IronStrikes
    <2>2. PICK j \in DOMAIN legs : legs[j].on.type = "C"
      BY <1>2, IronStrikes
    <2> QED
      BY <1>2, <2>1, <2>2 DEF BrokenHeartButterfly, AllSameOptionType
  <1> QED
    BY <1>1, <1>2

LEMMA TotalOfLegs ==
    ASSUME NEW legs, GoodLegs(legs), NEW dir \in {1, -1}
    PROVE  /\ \A i \in DOMAIN legs :
                 FilterByDirection(legs, dir) = {i} =>
                    TotalQtyByDirection(legs, dir) = dir * legs[i].qty
           /\ \A i, j \in DOMAIN legs :
                 i # j /\ FilterByDirection(legs, dir) = {i, j} =>
                    TotalQtyByDirection(legs, dir) = dir * legs[i].qty + dir * legs[j].qty
  <1> PICK F : F = [i \in DOMAIN legs |-> dir * legs[i].qty]
    OBVIOUS
  <1>1. \A i \in DOMAIN legs : F[i] = dir * legs[i].qty /\ dir * legs[i].qty \in Int
    BY DEF GoodLegs
  <1>2. TotalQtyByDirection(legs, dir) = SumFunctionOnSet(F, FilterByDirection(legs, dir))
    BY DEF TotalQtyByDirection
  <1>3. ASSUME NEW i \in DOMAIN legs, FilterByDirection(legs, dir) = {i}
        PROVE  TotalQtyByDirection(legs, dir) = dir * legs[i].qty
    <2>1. F[i] \in Int
      BY <1>1
    <2>2. SumFunctionOnSet(F, {i}) = F[i]
      BY <2>1, SumOfOne
    <2> QED
      BY <1>1, <1>2, <1>3, <2>2
  <1>4. ASSUME NEW i \in DOMAIN legs, NEW j \in DOMAIN legs, i # j,
               FilterByDirection(legs, dir) = {i, j}
        PROVE  TotalQtyByDirection(legs, dir) = dir * legs[i].qty + dir * legs[j].qty
    <2>1. F[i] \in Int /\ F[j] \in Int
      BY <1>1
    <2>2. SumFunctionOnSet(F, {i, j}) = F[i] + F[j]
      BY <1>4, <2>1, SumOfTwo
    <2> QED
      BY <1>1, <1>2, <1>4, <2>2
  <1> QED
    BY <1>3, <1>4

\* A copy in the order of strikes holds every leg once.
LEMMA SortedLegs ==
    ASSUME NEW legs, GoodLegs(legs), NEW s \in SortByStrike(legs)
    PROVE  \E p \in [DOMAIN legs -> DOMAIN legs] :
              /\ \A i \in DOMAIN legs : s[i] = legs[p[i]]
              /\ \A i, j \in DOMAIN legs : p[i] = p[j] => i = j
  <1> DEFINE p == [i \in DOMAIN legs |-> CHOOSE k \in DOMAIN legs : s[i] = legs[k]]
  <1>1. \A i \in DOMAIN legs : \E k \in DOMAIN legs : s[i] = legs[k]
    BY DEF SortByStrike, ToSet
  <1>2. \A i \in DOMAIN legs : p[i] \in DOMAIN legs /\ s[i] = legs[p[i]]
    BY <1>1
  <1>3. p \in [DOMAIN legs -> DOMAIN legs]
    BY <1>2
  <1> HIDE DEF p
  <1>4. ASSUME NEW i \in DOMAIN legs, NEW j \in DOMAIN legs, p[i] = p[j], i < j PROVE FALSE
    <2>1. s[i].on.strike < s[j].on.strike
      BY <1>4 DEF SortByStrike
    <2>2. s[i] = s[j] /\ s[j].on.strike \in Int
      BY <1>2, <1>4 DEF GoodLegs
    <2> QED
      BY <2>1, <2>2
  <1>5. \A i, j \in DOMAIN legs : i = j \/ i < j \/ j < i
    BY DEF GoodLegs
  <1> QED
    BY <1>2, <1>3, <1>4, <1>5

LEMMA ButterflyBalances ==
    ASSUME NEW legs, GoodLegs(legs), Len(legs) = 3,
           NEW s \in SortByStrike(legs), OneTwoOne(s)
    PROVE  TotalQtyByDirection(legs, 1) = TotalQtyByDirection(legs, -1)
  <1>1. PICK p \in [DOMAIN legs -> DOMAIN legs] :
              /\ \A i \in DOMAIN legs : s[i] = legs[p[i]]
              /\ \A i, j \in DOMAIN legs : p[i] = p[j] => i = j
    BY SortedLegs
  <1>2. DOMAIN legs = {1, 2, 3}
    BY DEF GoodLegs
  <1> PICK a \in DOMAIN legs, b \in DOMAIN legs, c \in DOMAIN legs : a = p[1] /\ b = p[2] /\ c = p[3]
    BY <1>2
  <1>3. s[1] = legs[a] /\ s[2] = legs[b] /\ s[3] = legs[c]
    BY <1>1, <1>2
  <1>4. a # b /\ b # c /\ a # c
    BY <1>1, <1>2
  <1>5. DOMAIN legs = {a, b, c}
    BY <1>2, <1>4
  <1>6. /\ legs[a].qty \in Int /\ legs[b].qty \in Int /\ legs[c].qty \in Int
        /\ legs[a].qty # 0 /\ legs[b].qty # 0 /\ legs[c].qty # 0
    BY <1>5 DEF GoodLegs
  <1>7. /\ Side(legs[a]) = Side(legs[c]) /\ Side(legs[b]) # Side(legs[a])
        /\ legs[a].qty = legs[c].qty /\ legs[b].qty = -(legs[a].qty + legs[c].qty)
    BY <1>3 DEF OneTwoOne
  <1>8. CASE legs[a].qty > 0
    <2>1. Side(legs[a]) = 1 /\ Side(legs[c]) = 1 /\ Side(legs[b]) = -1
      BY <1>6, <1>7, <1>8 DEF Side
    <2>2. FilterByDirection(legs, 1) = {a, c} /\ FilterByDirection(legs, -1) = {b}
      BY <1>5, <2>1 DEF FilterByDirection
    <2>3. TotalQtyByDirection(legs, 1) = 1 * legs[a].qty + 1 * legs[c].qty
      BY <1>4, <2>2, TotalOfLegs
    <2>5. TotalQtyByDirection(legs, -1) = (-1) * legs[b].qty
      BY <1>4, <2>2, TotalOfLegs
    <2> QED
      BY <1>6, <1>7, <2>3, <2>5
  <1>9. CASE legs[a].qty < 0
    <2>1. Side(legs[a]) = -1 /\ Side(legs[c]) = -1 /\ Side(legs[b]) = 1
      BY <1>6, <1>7, <1>9 DEF Side
    <2>2. FilterByDirection(legs, -1) = {a, c} /\ FilterByDirection(legs, 1) = {b}
      BY <1>5, <2>1 DEF FilterByDirection
    <2>3. TotalQtyByDirection(legs, -1) = (-1) * legs[a].qty + (-1) * legs[c].qty
      BY <1>4, <2>2, TotalOfLegs
    <2>5. TotalQtyByDirection(legs, 1) = 1 * legs[b].qty
      BY <1>4, <2>2, TotalOfLegs
    <2> QED
      BY <1>6, <1>7, <2>3, <2>5
  <1> QED
    BY <1>6, <1>8, <1>9

LEMMA BrokenHeartBalances ==
    ASSUME NEW legs, GoodLegs(legs), BrokenHeartButterfly(legs)
    PROVE  TotalQtyByDirection(legs, 1) = TotalQtyByDirection(legs, -1)
  <1>1. Len(legs) = 4
    BY DEF BrokenHeartButterfly
  <1>2. PICK s \in SortByStrike(legs) :
              /\ Side(s[1]) = Side(s[4])
              /\ Side(s[2]) = Side(s[3])
              /\ Side(s[1]) # Side(s[2])
              /\ \A i \in 1..3 : Larger(s[i].qty, -s[i].qty) = Larger(s[i + 1].qty, -s[i + 1].qty)
    BY DEF BrokenHeartButterfly
  <1>3. PICK p \in [DOMAIN legs -> DOMAIN legs] :
              /\ \A i \in DOMAIN legs : s[i] = legs[p[i]]
              /\ \A i, j \in DOMAIN legs : p[i] = p[j] => i = j
    BY SortedLegs
  <1>4. DOMAIN legs = {1, 2, 3, 4}
    BY <1>1 DEF GoodLegs
  <1> PICK a \in DOMAIN legs, b \in DOMAIN legs, c \in DOMAIN legs, d \in DOMAIN legs :
         a = p[1] /\ b = p[2] /\ c = p[3] /\ d = p[4]
    BY <1>4
  <1>5. s[1] = legs[a] /\ s[2] = legs[b] /\ s[3] = legs[c] /\ s[4] = legs[d]
    BY <1>3, <1>4
  <1>6. a # b /\ a # c /\ a # d /\ b # c /\ b # d /\ c # d
    BY <1>3, <1>4
  <1>7. DOMAIN legs = {a, b, c, d}
    BY <1>4, <1>6
  <1> PICK qa, qb, qc, qd : qa = legs[a].qty /\ qb = legs[b].qty /\ qc = legs[c].qty /\ qd = legs[d].qty
    OBVIOUS
  <1>8. /\ qa \in Int /\ qb \in Int /\ qc \in Int /\ qd \in Int
        /\ qa # 0 /\ qb # 0 /\ qc # 0 /\ qd # 0
    BY <1>7 DEF GoodLegs
  <1>9. /\ Side(legs[a]) = Side(legs[d]) /\ Side(legs[b]) = Side(legs[c])
        /\ Side(legs[a]) # Side(legs[b])
    BY <1>2, <1>5
  <1>10. Larger(qa, -qa) = Larger(qb, -qb) /\ Larger(qb, -qb) = Larger(qc, -qc)
         /\ Larger(qc, -qc) = Larger(qd, -qd)
    <2>1. 1 \in 1..3 /\ 2 \in 1..3 /\ 3 \in 1..3 /\ 1 + 1 = 2 /\ 2 + 1 = 3 /\ 3 + 1 = 4
      OBVIOUS
    <2> QED
      BY <1>2, <1>5, <2>1
  <1>11. CASE qa > 0
    <2>1. Side(legs[a]) = 1 /\ Side(legs[d]) = 1 /\ Side(legs[b]) = -1 /\ Side(legs[c]) = -1
      BY <1>8, <1>9, <1>11 DEF Side
    <2>2. FilterByDirection(legs, 1) = {a, d} /\ FilterByDirection(legs, -1) = {b, c}
      BY <1>7, <2>1 DEF FilterByDirection
    <2>3. TotalQtyByDirection(legs, 1) = 1 * qa + 1 * qd
      BY <1>6, <2>2, TotalOfLegs
    <2>5. TotalQtyByDirection(legs, -1) = (-1) * qb + (-1) * qc
      BY <1>6, <2>2, TotalOfLegs
    <2>4. qd > 0 /\ qb < 0 /\ qc < 0
      BY <1>8, <2>1 DEF Side
    <2> QED
      BY <1>8, <1>10, <1>11, <2>3, <2>4, <2>5 DEF Larger
  <1>12. CASE qa < 0
    <2>1. Side(legs[a]) = -1 /\ Side(legs[d]) = -1 /\ Side(legs[b]) = 1 /\ Side(legs[c]) = 1
      BY <1>8, <1>9, <1>12 DEF Side
    <2>2. FilterByDirection(legs, -1) = {a, d} /\ FilterByDirection(legs, 1) = {b, c}
      BY <1>7, <2>1 DEF FilterByDirection
    <2>3. TotalQtyByDirection(legs, -1) = (-1) * qa + (-1) * qd
      BY <1>6, <2>2, TotalOfLegs
    <2>5. TotalQtyByDirection(legs, 1) = 1 * qb + 1 * qc
      BY <1>6, <2>2, TotalOfLegs
    <2>4. qd < 0 /\ qb > 0 /\ qc > 0
      BY <1>8, <2>1 DEF Side
    <2> QED
      BY <1>8, <1>10, <1>12, <2>3, <2>4, <2>5 DEF Larger
  <1> QED
    BY <1>8, <1>11, <1>12

LEMMA TotalIsInt ==
    ASSUME NEW legs, GoodLegs(legs), NEW dir \in {1, -1}
    PROVE  TotalQtyByDirection(legs, dir) \in Int
  <1> PICK F, S : F = [i \in DOMAIN legs |-> dir * legs[i].qty] /\ S = FilterByDirection(legs, dir)
    OBVIOUS
  <1>1. S \subseteq 1..Len(legs) /\ \A i \in S : F[i] \in Int
    BY DEF GoodLegs, FilterByDirection
  <1>2. IsFiniteSet(1..Len(legs))
    BY FS_Interval DEF GoodLegs
  <1>3. IsFiniteSet(S)
    BY <1>1, <1>2, FS_Subset
  <1>4. SumFunctionOnSet(F, S) \in Int
    BY <1>1, <1>3, SumType
  <1> QED
    BY <1>4 DEF TotalQtyByDirection

\* Three ascending numbers out of three are all of them, so there is one such order.
Ascends(a, b, c, x, y, z) ==
    /\ x \in Int /\ y \in Int /\ z \in Int
    /\ a \in {x, y, z} /\ b \in {x, y, z} /\ c \in {x, y, z}
    /\ a < b /\ b < c

LEMMA AscendingTriples ==
    ASSUME NEW x, NEW y, NEW z, NEW a, NEW b, NEW c, NEW d, NEW e, NEW f,
           Ascends(a, b, c, x, y, z), Ascends(d, e, f, x, y, z)
    PROVE  a = d /\ b = e /\ c = f
  <1>3. a \in Int /\ b \in Int /\ c \in Int /\ a < b /\ b < c /\ d < e /\ e < f
    BY DEF Ascends
  <1>1. a # b /\ b # c /\ a # c
    BY <1>3
  <1>2. d \in {a, b, c} /\ e \in {a, b, c} /\ f \in {a, b, c}
    <2>0. /\ a \in {x, y, z} /\ b \in {x, y, z} /\ c \in {x, y, z}
          /\ d \in {x, y, z} /\ e \in {x, y, z} /\ f \in {x, y, z}
      BY DEF Ascends
    <2>1. {x, y, z} = {a, b, c}
      BY <1>1, <2>0, Zenon
    <2> QED
      BY <2>0, <2>1, Zenon
  <1>4. f = c
    BY <1>2, <1>3
  <1>5. d = a
    BY <1>2, <1>3
  <1>6. e = b
    BY <1>2, <1>3, <1>4, <1>5
  <1> QED
    BY <1>4, <1>5, <1>6

LEMMA OneStrikeOrder ==
    ASSUME NEW legs, GoodLegs(legs), Len(legs) = 3,
           NEW s \in SortByStrike(legs), NEW t \in SortByStrike(legs), EqualWings(s)
    PROVE  EqualWings(t)
  <1>1. PICK p \in [DOMAIN legs -> DOMAIN legs] :
              /\ \A i \in DOMAIN legs : s[i] = legs[p[i]]
              /\ \A i, j \in DOMAIN legs : p[i] = p[j] => i = j
    BY SortedLegs
  <1>2. PICK q \in [DOMAIN legs -> DOMAIN legs] :
              /\ \A i \in DOMAIN legs : t[i] = legs[q[i]]
              /\ \A i, j \in DOMAIN legs : q[i] = q[j] => i = j
    BY SortedLegs
  <1>3. DOMAIN legs = {1, 2, 3}
    BY DEF GoodLegs
  <1> PICK x, y, z : x = legs[1].on.strike /\ y = legs[2].on.strike /\ z = legs[3].on.strike
    OBVIOUS
  <1>4. x \in Int /\ y \in Int /\ z \in Int
    BY <1>3 DEF GoodLegs
  <1> PICK a, b, c : a = s[1].on.strike /\ b = s[2].on.strike /\ c = s[3].on.strike
    OBVIOUS
  <1> PICK d, e, f : d = t[1].on.strike /\ e = t[2].on.strike /\ f = t[3].on.strike
    OBVIOUS
  <1>5. /\ a \in {x, y, z} /\ b \in {x, y, z} /\ c \in {x, y, z}
        /\ d \in {x, y, z} /\ e \in {x, y, z} /\ f \in {x, y, z}
    BY <1>1, <1>2, <1>3
  <1>8. a \in Int /\ b \in Int /\ c \in Int /\ d \in Int /\ e \in Int /\ f \in Int
    BY <1>4, <1>5
  <1>6. a < b /\ b < c /\ d < e /\ e < f
    BY <1>3 DEF SortByStrike
  <1>7. a = d /\ b = e /\ c = f
    <2>1. Ascends(a, b, c, x, y, z)
      BY <1>4, <1>5, <1>6 DEF Ascends
    <2>2. Ascends(d, e, f, x, y, z)
      BY <1>4, <1>5, <1>6 DEF Ascends
    <2> QED
      BY <2>1, <2>2, AscendingTriples
  <1> QED
    BY <1>7 DEF EqualWings

LEMMA ThreeLegsMatchOnce ==
    ASSUME NEW legs, GoodLegs(legs)
    PROVE  /\ ~(Butterfly(legs) /\ BrokenWingButterfly(legs))
           /\ ~((Butterfly(legs) \/ BrokenWingButterfly(legs)) /\ (Ratio(legs) \/ BackRatio(legs)))
           /\ ~(Ratio(legs) /\ BackRatio(legs))
  <1>1. ~(Butterfly(legs) /\ BrokenWingButterfly(legs))
    BY OneStrikeOrder DEF Butterfly, BrokenWingButterfly
  <1>2. TotalQtyByDirection(legs, 1) \in Int /\ TotalQtyByDirection(legs, -1) \in Int
    BY TotalIsInt
  <1>3. /\ Ratio(legs) => TotalQtyByDirection(legs, -1) > TotalQtyByDirection(legs, 1)
        /\ BackRatio(legs) => TotalQtyByDirection(legs, 1) > TotalQtyByDirection(legs, -1)
    BY DEF Ratio, BackRatio, IsRatio
  <1>4. Butterfly(legs) \/ BrokenWingButterfly(legs)
          => TotalQtyByDirection(legs, 1) = TotalQtyByDirection(legs, -1)
    BY ButterflyBalances DEF Butterfly, BrokenWingButterfly
  <1> QED
    BY <1>1, <1>2, <1>3, <1>4

LEMMA LegsOfRules ==
    ASSUME NEW legs, GoodLegs(legs)
    PROVE  /\ IronButterfly(legs) \/ IronCondor(legs) \/ BrokenHeartButterfly(legs)
                => Len(legs) = 4
           /\ Butterfly(legs) \/ BrokenWingButterfly(legs) => Len(legs) = 3
           /\ Ratio(legs) \/ BackRatio(legs) => Len(legs) \in 2..3
           /\ CoveredCall(legs) \/ Straddle(legs) \/ Strangle(legs) => Len(legs) = 2
           /\ Vertical(legs) \/ Calendar(legs) \/ Diagonal(legs) => Len(legs) = 2
           /\ Single(legs) \/ Stock(legs) \/ Future(legs) => Len(legs) = 1
  BY DEF IronButterfly, IronCondor, IsIron, BrokenHeartButterfly, Butterfly,
         BrokenWingButterfly, CoveredCall, Ratio, BackRatio, IsRatio, Straddle, Strangle,
         IsPutAndCall, Vertical, Calendar, Diagonal, IsSpread, Single, Stock, Future

LEMMA TwoLegsMatchOnce ==
    ASSUME NEW legs, GoodLegs(legs), Len(legs) = 2
    PROVE  /\ CoveredCall(legs) =>
                 ~(\/ Ratio(legs) \/ BackRatio(legs) \/ Straddle(legs) \/ Strangle(legs)
                   \/ Vertical(legs) \/ Calendar(legs) \/ Diagonal(legs))
           /\ Ratio(legs) \/ BackRatio(legs) =>
                 ~(Straddle(legs) \/ Strangle(legs) \/ Calendar(legs) \/ Diagonal(legs))
           /\ Straddle(legs) => ~(Strangle(legs) \/ Vertical(legs) \/ Calendar(legs) \/ Diagonal(legs))
           /\ Strangle(legs) => ~(Vertical(legs) \/ Calendar(legs) \/ Diagonal(legs))
           /\ Vertical(legs) => ~(Calendar(legs) \/ Diagonal(legs))
           /\ ~(Calendar(legs) /\ Diagonal(legs))
  <1>1. DOMAIN legs = {1, 2}
    BY DEF GoodLegs
  <1>2. CoveredCall(legs) => ~AllOptions(legs)
    BY DEF CoveredCall, AllOptions, IsOption
  <1>3. Straddle(legs) \/ Strangle(legs) => ~AllSameOptionType(legs)
    BY <1>1 DEF Straddle, Strangle, IsPutAndCall, AllSameOptionType
  <1>4. Ratio(legs) \/ BackRatio(legs) \/ Vertical(legs)
          => AllOptions(legs) /\ AllSameOptionType(legs) /\ AllSameExpiry(legs)
    BY DEF Ratio, BackRatio, IsRatio, Vertical, IsSpread
  <1>5. Calendar(legs) \/ Diagonal(legs)
          => AllOptions(legs) /\ AllSameOptionType(legs) /\ ~AllSameExpiry(legs)
    BY DEF Calendar, Diagonal, IsSpread
  <1>6. Straddle(legs) \/ Strangle(legs) => AllOptions(legs)
    BY DEF Straddle, Strangle, IsPutAndCall
  <1>7. ~(Straddle(legs) /\ Strangle(legs)) /\ ~(Calendar(legs) /\ Diagonal(legs))
    BY DEF Straddle, Strangle, Calendar, Diagonal
  <1> QED
    BY <1>2, <1>3, <1>4, <1>5, <1>6, <1>7, Zenon

LEMMA OneLegMatchesOnce ==
    ASSUME NEW legs
    PROVE  ~(Single(legs) /\ Stock(legs)) /\ ~(Single(legs) /\ Future(legs))
           /\ ~(Stock(legs) /\ Future(legs))
  BY DEF Single, Stock, Future, IsOption

LEMMA TwoMatches ==
    ASSUME NEW legs, GoodLegs(legs),
           NEW q \in ToSet(Rules), NEW r \in ToSet(Rules), q # r,
           Match(q, legs), Match(r, legs)
    PROVE  \/ {q, r} = {"ratio", "vertical"} 
           \/ {q, r} = {"back_ratio", "vertical"}
  <1>1. Len(legs) \in Nat
    BY DEF GoodLegs
  <1>2. CASE Len(legs) = 4
    <2>1. q \in {"iron_butterfly", "iron_condor", "broken_heart_butterfly"}
      BY <1>2, MatchedRule, LegsOfRules
    <2>2. r \in {"iron_butterfly", "iron_condor", "broken_heart_butterfly"}
      BY <1>2, MatchedRule, LegsOfRules
    <2>3. IronButterfly(legs) \/ IronCondor(legs) => IsIron(legs)
      BY DEF IronButterfly, IronCondor
    <2> QED
      BY <2>1, <2>2, <2>3, MatchIsTheRule, FourLegsMatchOnce
  <1>3. CASE Len(legs) = 3
    <2>1. q \in {"butterfly", "broken_wing_butterfly", "ratio", "back_ratio"}
      BY <1>3, MatchedRule, LegsOfRules
    <2>2. r \in {"butterfly", "broken_wing_butterfly", "ratio", "back_ratio"}
      BY <1>3, MatchedRule, LegsOfRules
    <2> QED
      BY <2>1, <2>2, MatchIsTheRule, ThreeLegsMatchOnce
  <1>4. CASE Len(legs) = 2
    <2> DEFINE Two == {"covered_call", "ratio", "back_ratio", "straddle", "strangle",
                       "vertical", "calendar", "diagonal"}
    <2>1. q \in Two
      BY <1>4, MatchedRule, LegsOfRules
    <2>2. r \in Two
      BY <1>4, MatchedRule, LegsOfRules
    <2> QED
      BY <1>4, <2>1, <2>2, MatchIsTheRule, TwoLegsMatchOnce, ThreeLegsMatchOnce
  <1>5. CASE Len(legs) = 1
    <2>1. q \in {"single", "stock", "future"}
      BY <1>5, MatchedRule, LegsOfRules
    <2>2. r \in {"single", "stock", "future"}
      BY <1>5, MatchedRule, LegsOfRules
    <2> QED
      BY <2>1, <2>2, MatchIsTheRule, OneLegMatchesOnce
  <1>6. Len(legs) = 4 \/ Len(legs) = 3 \/ Len(legs) = 2 \/ Len(legs) = 1
    <2>1. Len(legs) \in 2..3 => Len(legs) = 2 \/ Len(legs) = 3
      BY <1>1
    <2> QED
      BY <2>1, MatchedRule, LegsOfRules
  <1> QED
    BY <1>2, <1>3, <1>4, <1>5, <1>6, Zenon

LEMMA LegsMatchOnce ==
    ASSUME NEW legs, GoodLegs(legs),
           NEW M, M = {r \in ToSet(Rules) : Match(r, legs)}
    PROVE  \/ Cardinality(M) <= 1
           \/ M \in {{"ratio", "vertical"}, {"back_ratio", "vertical"}}
  <1>1. \A q, r \in M : q # r =>
            {q, r} = {"ratio", "vertical"} \/ {q, r} = {"back_ratio", "vertical"}
    BY TwoMatches
  <1>2. CASE \E q, r \in M : q # r
    <2>1. PICK q \in M, r \in M : q # r
      BY <1>2
    <2>2. ASSUME NEW t \in M PROVE t \in {q, r}
      <3>1. {q, r} = {"ratio", "vertical"} \/ {q, r} = {"back_ratio", "vertical"}
        BY <1>1, <2>1
      <3>2. t # q => {q, t} = {"ratio", "vertical"} \/ {q, t} = {"back_ratio", "vertical"}
        BY <1>1
      <3>3. t # r => {r, t} = {"ratio", "vertical"} \/ {r, t} = {"back_ratio", "vertical"}
        BY <1>1
      <3> QED
        BY <2>1, <3>1, <3>2, <3>3
    <2>3. M = {q, r}
      BY <2>2
    <2> QED
      BY <1>1, <2>1, <2>3
  <1>3. CASE \A q, r \in M : q = r
    <2>1. M = {} \/ \E q : M = {q}
      BY <1>3
    <2>2. Cardinality(M) = 0 \/ Cardinality(M) = 1
      BY <2>1, FS_EmptySet, FS_Singleton
    <2> QED
      BY <2>2
  <1> QED
    BY <1>2, <1>3

-----------------------------------------------------------------------------
(* The classifier: the first rule that matches.                             *)

LEMMA FirstMatch ==
    ASSUME NEW legs
    PROVE  \/ Classify(legs) = "unknown"
           \/ \E i \in 1..16 : /\ Classify(legs) = Rules[i]
                               /\ Match(Rules[i], legs)
                               /\ \A j \in 1..16 : j < i => ~Match(Rules[j], legs)
  <1> PICK I : I = {i \in 1..16 : Match(Rules[i], legs)}
    OBVIOUS
  <1> PICK first : first = SelectInSeq(Rules, LAMBDA r : Match(r, legs))
    OBVIOUS
  <1>1. first = IF I # {} THEN Min(I) ELSE 0
    BY RuleNames DEF SelectInSeq
  <1>2. Classify(legs) = IF Len(legs) > MaxLegs \/ first = 0 THEN "unknown" ELSE Rules[first]
    BY DEF Classify
  <1>3. CASE I = {}
    BY <1>1, <1>2, <1>3
  <1>4. CASE I # {}
    <2>1. I \subseteq Nat
      OBVIOUS
    <2>2. first \in I /\ \A k \in I : first <= k
      BY <1>1, <1>4, <2>1, LeastExists
    <2>3. ASSUME NEW j \in 1..16, j < first PROVE ~Match(Rules[j], legs)
      <3>1. j \in Nat /\ first \in Nat
        BY <2>1, <2>2
      <3>2. ASSUME j \in I PROVE FALSE
        <4>1. first <= j
          BY <2>2, <3>2
        <4> QED
          BY <2>3, <3>1, <4>1
      <3> QED
        BY <3>2
    <2> QED
      BY <1>2, <2>2, <2>3
  <1> QED
    BY <1>3, <1>4

LEMMA VerticalBalances ==
    ASSUME NEW legs, GoodLegs(legs), Vertical(legs), ~Ratio(legs), ~BackRatio(legs)
    PROVE  TotalQtyByDirection(legs, 1) = TotalQtyByDirection(legs, -1)
  <1>1. /\ Len(legs) = 2 /\ Side(legs[1]) # Side(legs[2])
        /\ AllOptions(legs) /\ AllSameOptionType(legs) /\ AllSameExpiry(legs)
    BY DEF Vertical, IsSpread
  <1>2. DOMAIN legs = {1, 2}
    BY <1>1 DEF GoodLegs
  <1>3. /\ legs[1].qty \in Int /\ legs[2].qty \in Int
        /\ legs[1].qty # 0 /\ legs[2].qty # 0
    BY <1>2 DEF GoodLegs
  <1>4. \E a, b \in {1, 2} : a # b /\ Side(legs[a]) = 1 /\ Side(legs[b]) = -1
    BY <1>1, <1>3 DEF Side
  <1>5. PICK a \in {1, 2}, b \in {1, 2} : a # b /\ Side(legs[a]) = 1 /\ Side(legs[b]) = -1
    BY <1>4
  <1>6. FilterByDirection(legs, 1) = {a} /\ FilterByDirection(legs, -1) = {b}
    BY <1>2, <1>5 DEF FilterByDirection
  <1>7. TotalQtyByDirection(legs, 1) = 1 * legs[a].qty
    BY <1>2, <1>6, TotalOfLegs
  <1>8. TotalQtyByDirection(legs, -1) = (-1) * legs[b].qty
    BY <1>2, <1>6, TotalOfLegs
  <1>9. TotalQtyByDirection(legs, 1) # 0 /\ TotalQtyByDirection(legs, -1) # 0
    BY <1>3, <1>5, <1>7, <1>8
  <1>10. TotalQtyByDirection(legs, 1) \in Int /\ TotalQtyByDirection(legs, -1) \in Int
    BY TotalIsInt
  <1>11. ~(TotalQtyByDirection(legs, -1) > TotalQtyByDirection(legs, 1))
    BY <1>1, <1>9 DEF Ratio, IsRatio
  <1>12. ~(TotalQtyByDirection(legs, 1) > TotalQtyByDirection(legs, -1))
    BY <1>1, <1>9 DEF BackRatio, IsRatio
  <1> QED
    BY <1>10, <1>11, <1>12

LEMMA ClassifiedSpreadsBalance ==
    ASSUME NEW legs, GoodLegs(legs),
           Classify(legs) \in {"vertical", "butterfly", "broken_wing_butterfly",
                               "broken_heart_butterfly"}
    PROVE  TotalQtyByDirection(legs, 1) = TotalQtyByDirection(legs, -1)
  <1>1. PICK i \in 1..16 : /\ Classify(legs) = Rules[i]
                           /\ Match(Rules[i], legs)
                           /\ \A j \in 1..16 : j < i => ~Match(Rules[j], legs)
    BY FirstMatch
  <1>2. CASE Classify(legs) = "vertical"
    <2>1. Rules[i] = "vertical"
      BY <1>1, <1>2
    <2>2. i = 11
      BY <2>1 DEF Rules
    <2>3. Rules[7] = "ratio" /\ Rules[8] = "back_ratio"
      BY DEF Rules
    <2>4. Match("vertical", legs) /\ ~Match("ratio", legs) /\ ~Match("back_ratio", legs)
      BY <1>1, <2>1, <2>2, <2>3
    <2> QED
      BY <2>4, MatchIsTheRule, VerticalBalances
  <1>3. CASE Classify(legs) \in {"butterfly", "broken_wing_butterfly"}
    <2>1. Butterfly(legs) \/ BrokenWingButterfly(legs)
      BY <1>1, <1>3, MatchIsTheRule
    <2> QED
      BY <2>1, ButterflyBalances DEF Butterfly, BrokenWingButterfly
  <1>4. CASE Classify(legs) = "broken_heart_butterfly"
    BY <1>1, <1>4, MatchIsTheRule, BrokenHeartBalances
  <1> QED
    BY <1>2, <1>3, <1>4

-----------------------------------------------------------------------------
(* Legs made from transactions: one for each contract that was opened and   *)
(* not bought and sold in equal numbers.                                    *)

GoodTxs(txs) ==
    \E n \in Nat : /\ DOMAIN txs = 1..n
                   /\ \A i \in 1..n : txs[i].qty \in Int /\ txs[i].on.strike \in Int

\* The opening fills of contract c, and what they add up to.
FillsOf(txs, c) == {j \in DOMAIN txs : IsOpeningFill(txs[j]) /\ txs[j].on = c}

NetOf(txs, c) == SumFunctionOnSet([j \in DOMAIN txs |-> SignedQty(txs[j])], FillsOf(txs, c))

LEMMA TransactionsAreFinite ==
    ASSUME NEW txs, GoodTxs(txs), NEW S, S \subseteq DOMAIN txs
    PROVE  IsFiniteSet(S) /\ S \subseteq Nat
  <1>1. PICK n \in Nat : DOMAIN txs = 1..n
    BY DEF GoodTxs
  <1>2. IsFiniteSet(1..n)
    BY FS_Interval
  <1> QED
    BY <1>1, <1>2, FS_Subset

LEMMA LegQtyIsNet ==
    ASSUME NEW txs, NEW i \in DOMAIN txs
    PROVE  LegQty(txs, i) = NetOf(txs, txs[i].on)
  <1>1. MergedFills(txs, i) = FillsOf(txs, txs[i].on)
    BY DEF MergedFills, FillsOf
  <1> QED
    BY <1>1 DEF LegQty, NetOf

LEMMA NetIsInt ==
    ASSUME NEW txs, GoodTxs(txs), NEW c
    PROVE  NetOf(txs, c) \in Int
  <1> PICK F : F = [j \in DOMAIN txs |-> SignedQty(txs[j])]
    OBVIOUS
  <1>1. \A j \in FillsOf(txs, c) : F[j] \in Int
    BY DEF GoodTxs, FillsOf, SignedQty
  <1>2. FillsOf(txs, c) \subseteq DOMAIN txs
    BY DEF FillsOf
  <1>3. IsFiniteSet(FillsOf(txs, c))
    BY <1>2, TransactionsAreFinite
  <1>4. SumFunctionOnSet(F, FillsOf(txs, c)) \in Int
    BY <1>1, <1>3, SumType
  <1> QED
    BY <1>4 DEF NetOf

LEMMA LegsOfTransactions ==
    ASSUME NEW txs, GoodTxs(txs), NEW legs, legs = FromTransactions(txs)
    PROVE  /\ Len(legs) \in Nat /\ DOMAIN legs = 1..Len(legs)
           /\ \A i \in DOMAIN legs : \E k \in DOMAIN txs :
                 OpensLeg(txs, k) /\ legs[i] = [on |-> txs[k].on, qty |-> LegQty(txs, k)]
           /\ \A k \in DOMAIN txs :
                 OpensLeg(txs, k) => \E i \in DOMAIN legs : legs[i].on = txs[k].on
           /\ \A i, j \in DOMAIN legs : legs[i].on = legs[j].on => i = j
  <1> PICK S : S = {i \in DOMAIN txs : OpensLeg(txs, i)}
    OBVIOUS
  <1>1. S \subseteq DOMAIN txs /\ \A k \in S : OpensLeg(txs, k)
    OBVIOUS
  <1>2. IsFiniteSet(S) /\ S \subseteq Nat
    BY <1>1, TransactionsAreFinite
  <1> PICK n, order : n = Cardinality(S) /\ order = InOrder(S)
    OBVIOUS
  <1>3. /\ n \in Nat /\ order \in [1..n -> S]
        /\ \A k \in S : \E i \in 1..n : order[i] = k
        /\ \A i, j \in 1..n : order[i] = order[j] => i = j
    BY <1>2, InOrderLists, Zenon
  <1>4. legs = [i \in 1..n |-> [on |-> txs[order[i]].on, qty |-> LegQty(txs, order[i])]]
    BY <1>3 DEF FromTransactions
  <1>5. DOMAIN legs = 1..n /\ legs \in [1..n -> {legs[i] : i \in 1..n}]
    BY <1>4
  <1>6. legs \in Seq({legs[i] : i \in 1..n})
    BY <1>3, <1>5, FunctionIsSeq
  <1>7. Len(legs) \in Nat /\ DOMAIN legs = 1..Len(legs)
    BY <1>6, LenProperties
  <1>8. \A i \in 1..n : /\ order[i] \in S
                        /\ legs[i] = [on |-> txs[order[i]].on, qty |-> LegQty(txs, order[i])]
    BY <1>3, <1>4
  <1>12. ASSUME NEW i \in 1..n PROVE legs[i].on = txs[order[i]].on
    <2>1. legs[i] = [on |-> txs[order[i]].on, qty |-> LegQty(txs, order[i])]
      BY <1>8
    <2> QED
      BY <2>1
  <1>13. \A i, j \in 1..n : order[i] = order[j] => i = j
    BY <1>3
  <1>9. ASSUME NEW k \in DOMAIN txs, OpensLeg(txs, k)
        PROVE  \E i \in DOMAIN legs : legs[i].on = txs[k].on
    <2>1. PICK i \in 1..n : order[i] = k
      BY <1>3, <1>9
    <2>2. legs[i].on = txs[k].on
      BY <1>12, <2>1
    <2> QED
      BY <1>5, <2>2
  <1>10. ASSUME NEW i \in DOMAIN legs, NEW j \in DOMAIN legs, legs[i].on = legs[j].on
         PROVE  i = j
    <2> PICK k, m : k = order[i] /\ m = order[j]
      OBVIOUS
    <2>1. k \in S /\ m \in S /\ txs[k].on = txs[m].on
      BY <1>5, <1>8, <1>10
    <2>2. OpensLeg(txs, k) /\ OpensLeg(txs, m)
      BY <1>1, <2>1
    <2>3. m \in MergedFills(txs, k) /\ k \in MergedFills(txs, m)
      BY <1>1, <2>1, <2>2 DEF MergedFills, OpensLeg
    <2>4. k <= m /\ m <= k
      BY <2>2, <2>3 DEF OpensLeg
    <2>5. k \in Nat /\ m \in Nat
      BY <1>2, <2>1
    <2>6. k = m
      BY <2>4, <2>5
    <2> QED
      BY <1>5, <1>13, <2>6
  <1>11. \A i \in DOMAIN legs : \E k \in DOMAIN txs :
            OpensLeg(txs, k) /\ legs[i] = [on |-> txs[k].on, qty |-> LegQty(txs, k)]
    BY <1>1, <1>5, <1>8
  <1> QED
    BY <1>7, <1>9, <1>10, <1>11

\* The legs by contract: no two of one contract, and a contract has one exactly
\* when its opening fills do not cancel.
LEMMA LegsByContract ==
    ASSUME NEW txs, GoodTxs(txs), NEW legs, legs = FromTransactions(txs)
    PROVE  /\ GoodLegs(legs)
           /\ \A i, j \in DOMAIN legs : legs[i].on = legs[j].on => i = j
           /\ \A i \in DOMAIN legs :
                 legs[i] = [on |-> legs[i].on, qty |-> NetOf(txs, legs[i].on)]
           /\ \A c : (\E i \in DOMAIN legs : legs[i].on = c) <=> NetOf(txs, c) # 0
  <1>1. /\ Len(legs) \in Nat /\ DOMAIN legs = 1..Len(legs)
        /\ \A i, j \in DOMAIN legs : legs[i].on = legs[j].on => i = j
    BY LegsOfTransactions
  <1>2. \A i \in DOMAIN legs : \E k \in DOMAIN txs :
            OpensLeg(txs, k) /\ legs[i] = [on |-> txs[k].on, qty |-> LegQty(txs, k)]
    BY LegsOfTransactions
  <1>3. ASSUME NEW i \in DOMAIN legs
        PROVE  /\ legs[i] = [on |-> legs[i].on, qty |-> NetOf(txs, legs[i].on)]
               /\ NetOf(txs, legs[i].on) # 0 /\ legs[i].on.strike \in Int
    <2>1. PICK k \in DOMAIN txs :
              OpensLeg(txs, k) /\ legs[i] = [on |-> txs[k].on, qty |-> LegQty(txs, k)]
      BY <1>2
    <2>2. LegQty(txs, k) = NetOf(txs, txs[k].on) /\ LegQty(txs, k) # 0
      BY <2>1, LegQtyIsNet DEF OpensLeg
    <2>3. legs[i].on = txs[k].on
      BY <2>1
    <2>4. txs[k].on.strike \in Int
      BY DEF GoodTxs
    <2> QED
      BY <2>1, <2>2, <2>3, <2>4
  <1>4. GoodLegs(legs)
    <2>1. \A i \in DOMAIN legs : legs[i].qty = NetOf(txs, legs[i].on)
      BY <1>3
    <2> QED
      BY <1>1, <1>3, <2>1, NetIsInt DEF GoodLegs
  <1>5. ASSUME NEW c, NetOf(txs, c) # 0
        PROVE  \E i \in DOMAIN legs : legs[i].on = c
    <2> PICK S : S = FillsOf(txs, c)
      OBVIOUS
    <2>1. S # {}
      BY <1>5, SumEmpty DEF NetOf
    <2>2. S \subseteq DOMAIN txs /\ \A j \in S : IsOpeningFill(txs[j]) /\ txs[j].on = c
      BY DEF FillsOf
    <2>3. S \subseteq Nat
      BY <2>2, TransactionsAreFinite
    <2>4. PICK k \in S : \A j \in S : k <= j
      BY <2>1, <2>3, LeastExists
    <2>5. k \in DOMAIN txs /\ txs[k].on = c /\ IsOpeningFill(txs[k])
      BY <2>2
    <2>6. MergedFills(txs, k) = S
      BY <2>5 DEF MergedFills, FillsOf
    <2>7. OpensLeg(txs, k)
      BY <1>5, <2>4, <2>5, <2>6, LegQtyIsNet DEF OpensLeg
    <2> QED
      BY <2>5, <2>7, LegsOfTransactions
  <1> QED
    BY <1>1, <1>3, <1>4, <1>5

-----------------------------------------------------------------------------
(* The order: what the rows of an export say of the fills.                  *)

TypeInv ==
    /\ fills \in [DOMAIN fills -> Nat \ {0}]
    /\ DOMAIN fills \subseteq Kind
    /\ IsFiniteSet(DOMAIN fills)

LEMMA InitTypes == Init => TypeInv
  BY FS_EmptySet DEF Init, TypeInv

LEMMA NextTypes == TypeInv /\ [Next]_fills => TypeInv'
  <1> SUFFICES ASSUME TypeInv, [Next]_fills PROVE TypeInv'
    OBVIOUS
  <1>1. CASE UNCHANGED fills
    BY <1>1 DEF TypeInv
  <1>2. ASSUME NEW kind \in Kind, Fill(kind) PROVE TypeInv'
    <2>1. fills' = [k \in DOMAIN fills \cup {kind} |->
                      Count(k) + IF k = kind THEN 1 ELSE 0]
      BY <1>2 DEF Fill
    <2>2. \A k : Count(k) \in Nat /\ (k \in DOMAIN fills => Count(k) \in Nat \ {0})
      BY DEF TypeInv, Count
    <2>3. \A k \in DOMAIN fills \cup {kind} :
             Count(k) + (IF k = kind THEN 1 ELSE 0) \in Nat \ {0}
      BY <2>2
    <2>4. DOMAIN fills' = DOMAIN fills \cup {kind}
          /\ fills' \in [DOMAIN fills \cup {kind} -> Nat \ {0}]
      BY <2>1, <2>3
    <2>5. IsFiniteSet(DOMAIN fills \cup {kind})
      BY FS_AddElement DEF TypeInv
    <2> QED
      BY <2>4, <2>5 DEF TypeInv
  <1> QED
    BY <1>1, <1>2 DEF Next

LEMMA SetToSeqLists ==
    ASSUME NEW S, IsFiniteSet(S)
    PROVE  LET n == Cardinality(S)
           IN /\ n \in Nat /\ SetToSeq(S) \in [1..n -> S]
              /\ \A x \in S : \E i \in 1..n : SetToSeq(S)[i] = x
              /\ \A i, j \in 1..n : SetToSeq(S)[i] = SetToSeq(S)[j] => i = j
  <1> PICK n : n = Cardinality(S)
    OBVIOUS
  <1>1. n \in Nat /\ ExistsBijection(1..n, S)
    BY FS_CardinalityType
  <1>2. PICK f : f \in Bijection(1..n, S)
    BY <1>1 DEF ExistsBijection
  <1>3. f \in [1..n -> S] /\ IsInjective(f)
    BY <1>2 DEF Bijection, Injection, IsInjective
  <1> PICK g : g = SetToSeq(S)
    OBVIOUS
  <1>4. g \in [1..n -> S] /\ IsInjective(g)
    BY <1>3 DEF SetToSeq
  <1>5. \A i, j \in 1..n : g[i] = g[j] => i = j
    BY <1>4 DEF IsInjective
  <1>6. g \in Injection(1..n, S)
    BY <1>4 DEF Injection
  <1>7. IsFiniteSet(1..n) /\ Cardinality(1..n) = n
    BY <1>1, FS_Interval
  <1>8. g \in Surjection(1..n, S)
    BY <1>6, <1>7, FS_Injection
  <1>9. \A x \in S : \E i \in 1..n : g[i] = x
    BY <1>8 DEF Surjection
  <1> QED
    BY <1>1, <1>4, <1>5, <1>9

\* What the fills of the order add up to in contract c.
KindsOf(c) ==
    {k \in DOMAIN fills : /\ k.effect = "opening" /\ k.on = c
                          /\ k.action \in {"BTO", "BUY", "STO", "SELL"}}

KindNet == [k \in DOMAIN fills |-> SignedQty(Transaction(k, fills[k]))]

HeldOf(c) == SumFunctionOnSet(KindNet, KindsOf(c))

\* txs lists the opening fills of the order, in whatever portions.
Portions(n, kinds, qty) ==
    /\ n \in Nat /\ kinds \in [1..n -> DOMAIN fills] /\ qty \in [1..n -> Nat \ {0}]
    /\ \A k \in DOMAIN fills : k.effect = "opening" =>
          SumFunctionOnSet(qty, {i \in 1..n : kinds[i] = k}) = fills[k]

Lists(txs) ==
    \E n, kinds, qty : /\ Portions(n, kinds, qty)
                       /\ txs = [i \in 1..n |-> Transaction(kinds[i], qty[i])]

LEMMA NetOfRows ==
    ASSUME TypeInv, NEW txs, Lists(txs), NEW c
    PROVE  GoodTxs(txs) /\ NetOf(txs, c) = HeldOf(c)
  <1>20. PICK n, kinds, qty : /\ Portions(n, kinds, qty)
                              /\ txs = [i \in 1..n |-> Transaction(kinds[i], qty[i])]
    BY DEF Lists
  <1>21. /\ n \in Nat /\ kinds \in [1..n -> DOMAIN fills] /\ qty \in [1..n -> Nat \ {0}]
         /\ txs = [i \in 1..n |-> Transaction(kinds[i], qty[i])]
         /\ \A k \in DOMAIN fills : k.effect = "opening" =>
               SumFunctionOnSet(qty, {i \in 1..n : kinds[i] = k}) = fills[k]
    BY <1>20 DEF Portions
  <1>1. ASSUME NEW i \in 1..n
        PROVE  /\ txs[i].on = kinds[i].on /\ txs[i].effect = kinds[i].effect
               /\ txs[i].action = kinds[i].action /\ txs[i].qty = qty[i]
               /\ qty[i] \in Nat \ {0} /\ kinds[i] \in DOMAIN fills
    BY <1>21 DEF Transaction
  <1>2. DOMAIN txs = 1..n
    BY <1>21
  <1>3. GoodTxs(txs)
    <2>1. \A i \in 1..n : txs[i].on.strike \in Int
      BY <1>1, KindAssumption DEF TypeInv
    <2>2. \A i \in 1..n : txs[i].qty \in Int
      BY <1>1
    <2>3. n \in Nat
      BY <1>21
    <2> QED
      BY <1>2, <2>1, <2>2, <2>3 DEF GoodTxs
  <1>0. PICK F, S, K : /\ F = [j \in DOMAIN txs |-> SignedQty(txs[j])]
                     /\ S = FillsOf(txs, c) /\ K = KindsOf(c)
    OBVIOUS
  <1>4. S = {i \in 1..n : kinds[i] \in K}
    BY <1>0, <1>1, <1>2 DEF FillsOf, KindsOf, IsOpeningFill
  <1>5. \A i \in 1..n : F[i] = IF kinds[i].action \in {"BTO", "BUY"} THEN qty[i] ELSE 0 - qty[i]
    BY <1>0, <1>1, <1>2 DEF SignedQty
  <1>6. \A k \in K : KindNet[k] = IF k.action \in {"BTO", "BUY"} THEN fills[k] ELSE 0 - fills[k]
    BY <1>0 DEF KindNet, KindsOf, SignedQty, Transaction, TypeInv
  <1>7. IsFiniteSet(1..n) /\ S \subseteq 1..n
    BY <1>4, <1>21, FS_Interval
  <1>13. \A i \in 1..n : F[i] \in Int
    BY <1>1, <1>5
  <1>8. IsFiniteSet(S) /\ \A i \in S : F[i] \in Int
    BY <1>7, <1>13, FS_Subset
  <1>9. IsFiniteSet(K)
    <2>1. K \subseteq DOMAIN fills
      BY <1>0 DEF KindsOf
    <2> QED
      BY <2>1, FS_Subset DEF TypeInv
  <1>10. ASSUME NEW k \in K
         PROVE  KindNet[k] = SumFunctionOnSet(F, {x \in S : kinds[x] = k})
    <2>0. PICK R : R = {i \in 1..n : kinds[i] = k}
      OBVIOUS
    <2>1. R = {x \in S : kinds[x] = k}
      BY <1>4, <2>0
    <2>2. IsFiniteSet(R) /\ R \subseteq 1..n /\ \A i \in R : kinds[i] = k
      BY <1>7, <2>0, FS_Subset
    <2>3. SumFunctionOnSet(qty, R) = fills[k]
      <3>1. k \in DOMAIN fills /\ k.effect = "opening"
        BY <1>0 DEF KindsOf
      <3> QED
        BY <1>21, <2>0, <3>1
    <2>4. CASE k.action \in {"BTO", "BUY"}
      <3>1. ASSUME NEW i \in R
            PROVE  F[i] = qty[i]
        <4>1. i \in 1..n /\ kinds[i] = k
          BY <2>2
        <4> QED
          BY <1>5, <2>4, <4>1
      <3>2. SumFunctionOnSet(F, R) = SumFunctionOnSet(qty, R)
        BY <2>2, <3>1, SumEqual
      <3>3. KindNet[k] = fills[k]
        BY <1>6, <2>4
      <3> QED
        BY <2>1, <2>3, <3>2, <3>3
    <2>5. CASE ~(k.action \in {"BTO", "BUY"})
      <3>1. \A i \in R : qty[i] \in Int
        BY <1>1, <2>2
      <3>4. ASSUME NEW i \in R
            PROVE  F[i] = 0 - qty[i]
        <4>1. i \in 1..n /\ kinds[i] = k
          BY <2>2
        <4> QED
          BY <1>5, <2>5, <4>1
      <3>2. SumFunctionOnSet(F, R) = 0 - SumFunctionOnSet(qty, R)
        BY <2>2, <3>1, <3>4, SumOpposite
      <3>3. KindNet[k] = 0 - fills[k]
        BY <1>6, <2>5
      <3> QED
        BY <2>1, <2>3, <3>2, <3>3
    <2> QED
      BY <2>4, <2>5
  <1>11. GroupsBy(kinds, KindNet, K, F, S)
    BY <1>4, <1>10 DEF GroupsBy
  <1>12. SumFunctionOnSet(KindNet, K) = SumFunctionOnSet(F, S)
    BY <1>8, <1>9, <1>11, SumByKey
  <1> QED
    BY <1>0, <1>3, <1>12 DEF NetOf, HeldOf

LEMMA RowPerFillLists ==
    ASSUME TypeInv, NEW kinds \in FillOrders
    PROVE  Lists(RowPerFill(kinds))
  <1>1. Total \in Nat
    <2>1. \A k \in DOMAIN fills : fills[k] \in Nat
      BY DEF TypeInv
    <2> QED
      BY <2>1, SumOfNats DEF TypeInv, Total
  <1>2. PICK n : n = Total
    OBVIOUS
  <1>3. /\ n \in Nat /\ kinds \in [1..n -> DOMAIN fills]
        /\ \A k \in DOMAIN fills : Cardinality({i \in DOMAIN kinds : kinds[i] = k}) = fills[k]
    BY <1>1, <1>2 DEF FillOrders
  <1>4. PICK qty : qty = [i \in 1..n |-> 1]
    OBVIOUS
  <1>5. qty \in [1..n -> Nat \ {0}] /\ \A i \in 1..n : qty[i] = 1
    BY <1>4
  <1>6. RowPerFill(kinds) = [i \in 1..n |-> Transaction(kinds[i], qty[i])]
    BY <1>3, <1>5 DEF RowPerFill
  <1>7. ASSUME NEW k \in DOMAIN fills
        PROVE  SumFunctionOnSet(qty, {i \in 1..n : kinds[i] = k}) = fills[k]
    <2>1. PICK R : R = {i \in 1..n : kinds[i] = k}
      OBVIOUS
    <2>2. Cardinality(R) = fills[k]
      BY <1>3, <2>1
    <2>3. IsFiniteSet(1..n) /\ R \subseteq 1..n
      BY <1>3, <2>1, FS_Interval
    <2>4. IsFiniteSet(R) /\ \A i \in R : qty[i] = 1
      BY <1>5, <2>3, FS_Subset
    <2>5. SumFunctionOnSet(qty, R) = Cardinality(R)
      BY <2>4, SumOfOnes
    <2> QED
      BY <2>1, <2>2, <2>5
  <1>8. Portions(n, kinds, qty)
    BY <1>3, <1>5, <1>7 DEF Portions
  <1> QED
    BY <1>3, <1>6, <1>8 DEF Lists

LEMMA RowPerKindLists ==
    ASSUME TypeInv, NEW n \in Nat, NEW kinds \in [1..n -> DOMAIN fills],
           \A i, j \in 1..n : kinds[i] = kinds[j] => i = j,
           \A k \in DOMAIN fills : k.effect = "opening" => \E i \in 1..n : kinds[i] = k
    PROVE  Lists(RowPerKind(kinds))
  <1>1. PICK qty : qty = [i \in 1..n |-> Count(kinds[i])]
    OBVIOUS
  <1>2. qty \in [1..n -> Nat \ {0}] /\ \A i \in 1..n : qty[i] = fills[kinds[i]]
    BY <1>1 DEF TypeInv, Count
  <1>3. RowPerKind(kinds) = [i \in 1..n |-> Transaction(kinds[i], qty[i])]
    BY <1>1 DEF RowPerKind
  <1>4. ASSUME NEW k \in DOMAIN fills, k.effect = "opening"
        PROVE  SumFunctionOnSet(qty, {i \in 1..n : kinds[i] = k}) = fills[k]
    <2>1. PICK i \in 1..n : kinds[i] = k
      BY <1>4
    <2>2. {j \in 1..n : kinds[j] = k} = {i}
      BY <2>1
    <2>3. qty[i] = fills[k] /\ qty[i] \in Int
      BY <1>2, <2>1
    <2>4. SumFunctionOnSet(qty, {i}) = qty[i]
      BY <2>3, SumOfOne
    <2> QED
      BY <2>2, <2>3, <2>4
  <1>5. Portions(n, kinds, qty)
    BY <1>2, <1>4 DEF Portions
  <1> QED
    BY <1>3, <1>5 DEF Lists

LEMMA LegsAreGood ==
    ASSUME TypeInv
    PROVE  GoodLegs(Legs) /\ Lists(RowPerKind(SetToSeq(DOMAIN fills)))
  <1> PICK n, kinds : n = Cardinality(DOMAIN fills) /\ kinds = SetToSeq(DOMAIN fills)
    OBVIOUS
  <1>1. /\ n \in Nat /\ kinds \in [1..n -> DOMAIN fills]
        /\ \A k \in DOMAIN fills : \E i \in 1..n : kinds[i] = k
        /\ \A i, j \in 1..n : kinds[i] = kinds[j] => i = j
    BY SetToSeqLists DEF TypeInv
  <1>2. Lists(RowPerKind(kinds))
    BY <1>1, RowPerKindLists
  <1>3. GoodTxs(RowPerKind(kinds))
    BY <1>2, NetOfRows
  <1> QED
    BY <1>2, <1>3, LegsByContract DEF Legs

-----------------------------------------------------------------------------
(* The same legs in another order: a has as leg p[i] what b has as leg i.    *)

Permuted(a, b, p) ==
    /\ Len(b) = Len(a) /\ DOMAIN b = DOMAIN a
    /\ p \in [DOMAIN a -> DOMAIN a]
    /\ \A i \in DOMAIN a : b[i] = a[p[i]]
    /\ \A k \in DOMAIN a : \E i \in DOMAIN a : p[i] = k
    /\ \A i, j \in DOMAIN a : p[i] = p[j] => i = j

LEMMA SameShape ==
    ASSUME NEW a, GoodLegs(a), NEW b, NEW p, Permuted(a, b, p)
    PROVE  /\ AllOptions(b) <=> AllOptions(a)
           /\ AllSameExpiry(b) <=> AllSameExpiry(a)
           /\ AllSameOptionType(b) <=> AllSameOptionType(a)
           /\ SortByStrike(b) = SortByStrike(a)
           /\ CoveredCall(b) <=> CoveredCall(a)
  <1>1. DOMAIN a = 1..Len(a) /\ Len(a) \in Nat
    BY DEF GoodLegs
  <1>2. /\ Len(b) = Len(a) /\ DOMAIN b = DOMAIN a
        /\ \A i \in DOMAIN a : p[i] \in DOMAIN a /\ b[i] = a[p[i]]
        /\ \A k \in DOMAIN a : \E i \in DOMAIN a : p[i] = k
    BY DEF Permuted
  <1>3. \A k \in DOMAIN a : \E i \in DOMAIN a : b[i] = a[k]
    BY <1>2
  <1>4. \A i \in DOMAIN a : \E k \in DOMAIN a : b[i] = a[k]
    BY <1>2
  <1>5. AllOptions(b) <=> AllOptions(a)
    BY <1>2, <1>3, <1>4 DEF AllOptions
  <1>6. AllSameExpiry(b) <=> AllSameExpiry(a)
    <2>1. CASE DOMAIN a = {}
      BY <1>2, <2>1 DEF AllSameExpiry
    <2>2. CASE 1 \in DOMAIN a
      <3>1. AllSameExpiry(a) <=> \A i, j \in DOMAIN a : a[i].on.exp = a[j].on.exp
        BY <2>2 DEF AllSameExpiry
      <3>2. AllSameExpiry(b) <=> \A i, j \in DOMAIN a : b[i].on.exp = b[j].on.exp
        BY <1>2, <2>2 DEF AllSameExpiry
      <3>3. ASSUME \A i, j \in DOMAIN a : a[i].on.exp = a[j].on.exp,
                   NEW i \in DOMAIN a, NEW j \in DOMAIN a
            PROVE  b[i].on.exp = b[j].on.exp
        <4>1. p[i] \in DOMAIN a /\ p[j] \in DOMAIN a /\ b[i] = a[p[i]] /\ b[j] = a[p[j]]
          BY <1>2
        <4> QED
          BY <3>3, <4>1
      <3>4. ASSUME \A i, j \in DOMAIN a : b[i].on.exp = b[j].on.exp,
                   NEW i \in DOMAIN a, NEW j \in DOMAIN a
            PROVE  a[i].on.exp = a[j].on.exp
        <4>1. PICK k \in DOMAIN a : b[k] = a[i]
          BY <1>3
        <4>2. PICK m \in DOMAIN a : b[m] = a[j]
          BY <1>3
        <4>3. b[k].on.exp = b[m].on.exp
          BY <3>4
        <4> QED
          BY <4>1, <4>2, <4>3
      <3> QED
        BY <3>1, <3>2, <3>3, <3>4
    <2> QED
      BY <1>1, <2>1, <2>2
  <1>7. AllSameOptionType(b) <=> AllSameOptionType(a)
    <2>1. CASE DOMAIN a = {}
      BY <1>2, <2>1 DEF AllSameOptionType
    <2>2. CASE 1 \in DOMAIN a
      <3>1. AllSameOptionType(a) <=> \A i, j \in DOMAIN a : a[i].on.type = a[j].on.type
        BY <2>2 DEF AllSameOptionType
      <3>2. AllSameOptionType(b) <=> \A i, j \in DOMAIN a : b[i].on.type = b[j].on.type
        BY <1>2, <2>2 DEF AllSameOptionType
      <3>3. ASSUME \A i, j \in DOMAIN a : a[i].on.type = a[j].on.type,
                   NEW i \in DOMAIN a, NEW j \in DOMAIN a
            PROVE  b[i].on.type = b[j].on.type
        <4>1. p[i] \in DOMAIN a /\ p[j] \in DOMAIN a /\ b[i] = a[p[i]] /\ b[j] = a[p[j]]
          BY <1>2
        <4> QED
          BY <3>3, <4>1
      <3>4. ASSUME \A i, j \in DOMAIN a : b[i].on.type = b[j].on.type,
                   NEW i \in DOMAIN a, NEW j \in DOMAIN a
            PROVE  a[i].on.type = a[j].on.type
        <4>1. PICK k \in DOMAIN a : b[k] = a[i]
          BY <1>3
        <4>2. PICK m \in DOMAIN a : b[m] = a[j]
          BY <1>3
        <4>3. b[k].on.type = b[m].on.type
          BY <3>4
        <4> QED
          BY <4>1, <4>2, <4>3
      <3> QED
        BY <3>1, <3>2, <3>3, <3>4
    <2> QED
      BY <1>1, <2>1, <2>2
  <1>8. ToSet(b) = ToSet(a)
    BY <1>2, <1>3, <1>4 DEF ToSet
  <1>9. SortByStrike(b) = SortByStrike(a)
    BY <1>2, <1>8 DEF SortByStrike
  <1>10. CoveredCall(b) <=> CoveredCall(a)
    <2>1. ASSUME CoveredCall(a) PROVE CoveredCall(b)
      <3>1. PICK k \in DOMAIN a : a[k].on.class = "equity" /\ a[k].qty > 0
        BY <2>1 DEF CoveredCall
      <3>2. PICK m \in DOMAIN a : /\ a[m].on.class = "equity_option"
                                  /\ a[m].on.type = "C" /\ a[m].qty < 0
        BY <2>1 DEF CoveredCall
      <3>3. PICK i \in DOMAIN a : b[i] = a[k]
        BY <1>3
      <3>4. PICK j \in DOMAIN a : b[j] = a[m]
        BY <1>3
      <3> QED
        BY <1>2, <2>1, <3>1, <3>2, <3>3, <3>4 DEF CoveredCall
    <2>2. ASSUME CoveredCall(b) PROVE CoveredCall(a)
      <3>1. PICK k \in DOMAIN a : b[k].on.class = "equity" /\ b[k].qty > 0
        BY <1>2, <2>2 DEF CoveredCall
      <3>2. PICK m \in DOMAIN a : /\ b[m].on.class = "equity_option"
                                  /\ b[m].on.type = "C" /\ b[m].qty < 0
        BY <1>2, <2>2 DEF CoveredCall
      <3>3. PICK i \in DOMAIN a : b[k] = a[i]
        BY <1>4
      <3>4. PICK j \in DOMAIN a : b[m] = a[j]
        BY <1>4
      <3> QED
        BY <1>2, <2>2, <3>1, <3>2, <3>3, <3>4 DEF CoveredCall
    <2> QED
      BY <2>1, <2>2
  <1> QED
    BY <1>5, <1>6, <1>7, <1>9, <1>10

LEMMA SameTotals ==
    ASSUME NEW a, GoodLegs(a), NEW b, NEW p, Permuted(a, b, p), NEW dir \in {1, -1}
    PROVE  TotalQtyByDirection(b, dir) = TotalQtyByDirection(a, dir)
  <1>1. /\ DOMAIN b = DOMAIN a
        /\ \A i \in DOMAIN a : p[i] \in DOMAIN a /\ b[i] = a[p[i]]
        /\ \A k \in DOMAIN a : \E i \in DOMAIN a : p[i] = k
        /\ \A i, j \in DOMAIN a : p[i] = p[j] => i = j
    BY DEF Permuted
  <1>10. \A i \in DOMAIN a : dir * a[i].qty \in Int
    BY DEF GoodLegs
  <1>11. IsFiniteSet(DOMAIN a)
    BY FS_Interval DEF GoodLegs
  <1>2. IsFiniteSet(DOMAIN a) /\ \A i \in DOMAIN a : dir * a[i].qty \in Int
    BY <1>10, <1>11
  <1>3. PICK F, G, S, K : /\ F = [i \in DOMAIN b |-> dir * b[i].qty]
                          /\ G = [i \in DOMAIN a |-> dir * a[i].qty]
                          /\ S = FilterByDirection(b, dir) /\ K = FilterByDirection(a, dir)
    OBVIOUS
  <1>4. S \subseteq DOMAIN a /\ K \subseteq DOMAIN a /\ IsFiniteSet(S) /\ IsFiniteSet(K)
    <2>1. S \subseteq DOMAIN a /\ K \subseteq DOMAIN a
      BY <1>1, <1>3 DEF FilterByDirection
    <2> QED
      BY <1>2, <2>1, FS_Subset
  <1>5. \A i \in DOMAIN a : F[i] = G[p[i]] /\ F[i] \in Int
    BY <1>1, <1>2, <1>3
  <1>6. \A i \in DOMAIN a : i \in S <=> p[i] \in K
    BY <1>1, <1>3 DEF FilterByDirection
  <1>7. ASSUME NEW k \in K PROVE G[k] = SumFunctionOnSet(F, {x \in S : p[x] = k})
    <2>1. PICK i \in DOMAIN a : p[i] = k
      BY <1>1, <1>4
    <2>2. {x \in S : p[x] = k} = {i}
      BY <1>1, <1>4, <1>6, <2>1
    <2>3. F[i] \in Int /\ F[i] = G[k]
      BY <1>5, <2>1
    <2>4. SumFunctionOnSet(F, {i}) = F[i]
      BY <2>3, SumOfOne
    <2> QED
      BY <2>2, <2>3, <2>4
  <1>8. GroupsBy(p, G, K, F, S)
    BY <1>4, <1>6, <1>7 DEF GroupsBy
  <1>9. SumFunctionOnSet(G, K) = SumFunctionOnSet(F, S)
    BY <1>4, <1>5, <1>8, SumByKey
  <1> QED
    BY <1>3, <1>9 DEF TotalQtyByDirection

LEMMA SameIron ==
    ASSUME NEW a, GoodLegs(a), NEW b, NEW p, Permuted(a, b, p)
    PROVE  /\ IsIron(b) <=> IsIron(a)
           /\ IsIron(a) => \A type \in {"P", "C"}, dir \in {1, -1} :
                              Strike(b, type, dir) = Strike(a, type, dir)
  <1>1. /\ Len(b) = Len(a) /\ DOMAIN b = DOMAIN a
        /\ \A i \in DOMAIN a : p[i] \in DOMAIN a /\ b[i] = a[p[i]]
        /\ \A k \in DOMAIN a : \E i \in DOMAIN a : p[i] = k
        /\ \A i, j \in DOMAIN a : p[i] = p[j] => i = j
    BY DEF Permuted
  <1>2. ASSUME NEW type \in {"P", "C"}, NEW dir \in {1, -1}
        PROVE  /\ Cardinality(TypeOnSide(b, type, dir)) = Cardinality(TypeOnSide(a, type, dir))
               /\ Cardinality(TypeOnSide(a, type, dir)) = 1 =>
                     Strike(b, type, dir) = Strike(a, type, dir)
    <2>1. PICK S, K : S = TypeOnSide(b, type, dir) /\ K = TypeOnSide(a, type, dir)
      OBVIOUS
    <2>2. S \subseteq DOMAIN a /\ K \subseteq DOMAIN a
      BY <1>1, <2>1 DEF TypeOnSide, FilterByDirection
    <2>3. \A i \in DOMAIN a : i \in S <=> p[i] \in K
      BY <1>1, <2>1 DEF TypeOnSide, FilterByDirection, FilterByOptionType
    <2>4. IsFiniteSet(DOMAIN a)
      BY FS_Interval DEF GoodLegs
    <2>5. IsFiniteSet(S) /\ IsFiniteSet(K)
      BY <2>2, <2>4, FS_Subset
    <2>6. PICK q : q = [i \in S |-> p[i]]
      OBVIOUS
    <2>7. q \in Bijection(S, K)
      <3>1. q \in [S -> K] /\ \A i \in S : q[i] = p[i]
        BY <2>3, <2>2, <2>6
      <3>2. \A i, j \in S : q[i] = q[j] => i = j
        BY <1>1, <2>2, <3>1
      <3>3. ASSUME NEW k \in K PROVE \E i \in S : q[i] = k
        <4>1. PICK i \in DOMAIN a : p[i] = k
          BY <1>1, <2>2
        <4> QED
          BY <2>3, <3>1, <4>1
      <3>4. q \in Injection(S, K)
        BY <3>1, <3>2 DEF Injection, IsInjective
      <3>5. q \in Surjection(S, K)
        BY <3>1, <3>3 DEF Surjection
      <3> QED
        BY <3>4, <3>5 DEF Bijection
    <2>8. Cardinality(S) = Cardinality(K)
      BY <2>5, <2>7, FS_Bijection DEF ExistsBijection
    <2>9. ASSUME Cardinality(K) = 1 PROVE Strike(b, type, dir) = Strike(a, type, dir)
      <3>1. PICK k : K = {k}
        BY <2>5, <2>9, FS_Singleton
      <3>2. PICK i : S = {i}
        BY <2>5, <2>8, <2>9, FS_Singleton
      <3>3. i \in DOMAIN a /\ p[i] = k
        BY <2>2, <2>3, <3>1, <3>2
      <3>4. Strike(a, type, dir) = a[k].on.strike
        BY <2>1, <3>1 DEF Strike
      <3>5. Strike(b, type, dir) = b[i].on.strike
        BY <2>1, <3>2 DEF Strike
      <3> QED
        BY <1>1, <3>3, <3>4, <3>5
    <2> QED
      BY <2>1, <2>8, <2>9
  <1>3. IsIron(b) <=> IsIron(a)
    BY <1>1, <1>2, SameShape DEF IsIron
  <1>4. ASSUME IsIron(a), NEW type \in {"P", "C"}, NEW dir \in {1, -1}
        PROVE  Strike(b, type, dir) = Strike(a, type, dir)
    <2>1. Cardinality(TypeOnSide(a, type, dir)) = 1
      BY <1>4 DEF IsIron
    <2> QED
      BY <1>2, <2>1
  <1> QED
    BY <1>3, <1>4

LEMMA SamePair ==
    ASSUME NEW a, GoodLegs(a), NEW b, NEW p, Permuted(a, b, p)
    PROVE  /\ Straddle(b) <=> Straddle(a)
           /\ Strangle(b) <=> Strangle(a)
           /\ Vertical(b) <=> Vertical(a)
           /\ Calendar(b) <=> Calendar(a)
           /\ Diagonal(b) <=> Diagonal(a)
  <1>1. Len(b) = Len(a)
    BY DEF Permuted
  <1>2. CASE Len(a) # 2
    BY <1>1, <1>2 DEF Straddle, Strangle, IsPutAndCall, Vertical, Calendar, Diagonal, IsSpread
  <1>3. CASE Len(a) = 2
    <2>1. DOMAIN a = {1, 2}
      BY <1>3 DEF GoodLegs
    <2>2. /\ p[1] \in {1, 2} /\ p[2] \in {1, 2} /\ p[1] # p[2]
          /\ b[1] = a[p[1]] /\ b[2] = a[p[2]]
      BY <2>1 DEF Permuted
    <2>3. (b[1] = a[1] /\ b[2] = a[2]) \/ (b[1] = a[2] /\ b[2] = a[1])
      BY <2>2
    <2>4. /\ AllOptions(b) <=> AllOptions(a)
          /\ AllSameExpiry(b) <=> AllSameExpiry(a)
          /\ AllSameOptionType(b) <=> AllSameOptionType(a)
      BY SameShape
    <2>5. /\ b[1].on.type # b[2].on.type <=> a[1].on.type # a[2].on.type
          /\ Side(b[1]) = Side(b[2]) <=> Side(a[1]) = Side(a[2])
          /\ b[1].on.strike = b[2].on.strike <=> a[1].on.strike = a[2].on.strike
      BY <2>3
    <2> QED
      BY <1>1, <2>4, <2>5
      DEF Straddle, Strangle, IsPutAndCall, Vertical, Calendar, Diagonal, IsSpread
  <1> QED
    BY <1>2, <1>3

LEMMA SameRule ==
    ASSUME NEW a, GoodLegs(a), NEW b, NEW p, Permuted(a, b, p), NEW r \in ToSet(Rules)
    PROVE  Match(r, b) <=> Match(r, a)
  <1>1. /\ Len(b) = Len(a) /\ DOMAIN b = DOMAIN a
        /\ \A i \in DOMAIN a : p[i] \in DOMAIN a /\ b[i] = a[p[i]]
    BY DEF Permuted
  <1>2. /\ AllOptions(b) <=> AllOptions(a)
        /\ AllSameExpiry(b) <=> AllSameExpiry(a)
        /\ AllSameOptionType(b) <=> AllSameOptionType(a)
        /\ SortByStrike(b) = SortByStrike(a)
        /\ CoveredCall(b) <=> CoveredCall(a)
    BY SameShape
  <1>3. IronButterfly(b) <=> IronButterfly(a)
    BY SameIron DEF IronButterfly
  <1>4. IronCondor(b) <=> IronCondor(a)
    BY SameIron DEF IronCondor
  <1>5. BrokenHeartButterfly(b) <=> BrokenHeartButterfly(a)
    BY <1>1, <1>2 DEF BrokenHeartButterfly
  <1>6. Butterfly(b) <=> Butterfly(a)
    BY <1>1, <1>2 DEF Butterfly
  <1>7. BrokenWingButterfly(b) <=> BrokenWingButterfly(a)
    BY <1>1, <1>2 DEF BrokenWingButterfly
  <1>8. (Ratio(b) <=> Ratio(a)) /\ (BackRatio(b) <=> BackRatio(a))
    BY <1>1, <1>2, SameTotals DEF Ratio, BackRatio, IsRatio
  <1>9. /\ Single(b) <=> Single(a)
        /\ Stock(b) <=> Stock(a)
        /\ Future(b) <=> Future(a)
    <2>1. ASSUME Len(a) = 1 PROVE b[1] = a[1]
      <3>1. DOMAIN a = {1}
        BY <2>1 DEF GoodLegs
      <3> QED
        BY <1>1, <3>1
    <2> QED
      BY <1>1, <2>1 DEF Single, Stock, Future
  <1>10. r \in {"iron_butterfly", "iron_condor", "broken_heart_butterfly",
          "butterfly", "broken_wing_butterfly", "covered_call", "ratio",
          "back_ratio", "straddle", "strangle", "vertical", "calendar",
          "diagonal", "single", "stock", "future"}
    BY RuleNames, Zenon
  <1> QED
    BY <1>2, <1>3, <1>4, <1>5, <1>6, <1>7, <1>8, <1>9, <1>10, SamePair, MatchIsTheRule

LEMMA SameStrategy ==
    ASSUME NEW a, GoodLegs(a), NEW b, NEW p, Permuted(a, b, p)
    PROVE  Classify(b) = Classify(a)
  <1>1. PICK I, J : /\ I = {i \in 1..Len(Rules) : Match(Rules[i], a)}
                    /\ J = {i \in 1..Len(Rules) : Match(Rules[i], b)}
    OBVIOUS
  <1>2. \A i \in 1..Len(Rules) : Rules[i] \in ToSet(Rules)
    BY RuleNames DEF ToSet
  <1>3. I = J
    BY <1>1, <1>2, SameRule
  <1>4. PICK x, y : /\ x = SelectInSeq(Rules, LAMBDA r : Match(r, a))
                    /\ y = SelectInSeq(Rules, LAMBDA r : Match(r, b))
    OBVIOUS
  <1>5. x = IF I # {} THEN Min(I) ELSE 0
    BY <1>1, <1>4 DEF SelectInSeq
  <1>6. y = IF J # {} THEN Min(J) ELSE 0
    BY <1>1, <1>4 DEF SelectInSeq
  <1>7. x = y
    BY <1>3, <1>5, <1>6
  <1>8. Classify(a) = IF Len(a) > MaxLegs \/ x = 0 THEN "unknown" ELSE Rules[x]
    BY <1>4 DEF Classify
  <1>9. Classify(b) = IF Len(b) > MaxLegs \/ y = 0 THEN "unknown" ELSE Rules[y]
    BY <1>4 DEF Classify
  <1> QED
    BY <1>7, <1>8, <1>9 DEF Permuted

\* Two lists of the fills of one order make the same legs, in orders of their own.
LEMMA SameLegs ==
    ASSUME NEW s, GoodTxs(s), NEW t, GoodTxs(t), \A c : NetOf(s, c) = NetOf(t, c),
           NEW a, a = FromTransactions(s), NEW b, b = FromTransactions(t)
    PROVE  \E p : Permuted(a, b, p)
  <1>1. /\ Len(a) \in Nat /\ DOMAIN a = 1..Len(a)
        /\ \A i, j \in DOMAIN a : a[i].on = a[j].on => i = j
        /\ \A i \in DOMAIN a : a[i] = [on |-> a[i].on, qty |-> NetOf(s, a[i].on)]
        /\ \A c : (\E i \in DOMAIN a : a[i].on = c) <=> NetOf(s, c) # 0
    BY LegsByContract DEF GoodLegs
  <1>2. /\ Len(b) \in Nat /\ DOMAIN b = 1..Len(b)
        /\ \A i, j \in DOMAIN b : b[i].on = b[j].on => i = j
        /\ \A i \in DOMAIN b : b[i] = [on |-> b[i].on, qty |-> NetOf(t, b[i].on)]
        /\ \A c : (\E i \in DOMAIN b : b[i].on = c) <=> NetOf(t, c) # 0
    BY LegsByContract DEF GoodLegs
  <1>3. \A i \in DOMAIN b : \E k \in DOMAIN a : a[k].on = b[i].on
    BY <1>1, <1>2
  <1>4. \A k \in DOMAIN a : \E i \in DOMAIN b : b[i].on = a[k].on
    BY <1>1, <1>2
  <1>5. PICK p : p = [i \in DOMAIN b |-> CHOOSE k \in DOMAIN a : a[k].on = b[i].on]
    OBVIOUS
  <1>6. p \in [DOMAIN b -> DOMAIN a] /\ \A i \in DOMAIN b : a[p[i]].on = b[i].on
    BY <1>3, <1>5
  <1>7. \A i, j \in DOMAIN b : p[i] = p[j] => i = j
    BY <1>2, <1>6
  <1>8. ASSUME NEW k \in DOMAIN a PROVE \E i \in DOMAIN b : p[i] = k
    <2>1. PICK i \in DOMAIN b : b[i].on = a[k].on
      BY <1>4
    <2>2. p[i] \in DOMAIN a /\ a[p[i]].on = a[k].on
      BY <1>6, <2>1
    <2> QED
      BY <1>1, <2>2
  <1>9. ASSUME NEW i \in DOMAIN b PROVE b[i] = a[p[i]]
    <2>1. p[i] \in DOMAIN a /\ a[p[i]].on = b[i].on
      BY <1>6
    <2>2. b[i] = [on |-> b[i].on, qty |-> NetOf(t, b[i].on)]
      BY <1>2
    <2>3. a[p[i]] = [on |-> b[i].on, qty |-> NetOf(s, b[i].on)]
      BY <1>1, <2>1
    <2> QED
      BY <2>2, <2>3
  <1>10. Len(a) = Len(b)
    <2>1. p \in Bijection(DOMAIN b, DOMAIN a)
      <3>1. p \in Injection(DOMAIN b, DOMAIN a)
        BY <1>6, <1>7 DEF Injection, IsInjective
      <3>2. p \in Surjection(DOMAIN b, DOMAIN a)
        BY <1>6, <1>8 DEF Surjection
      <3> QED
        BY <3>1, <3>2 DEF Bijection
    <2>2. \A n \in Nat : IsFiniteSet(1..n) /\ Cardinality(1..n) = n
      <3> TAKE n \in Nat
      <3>1. IsFiniteSet(1..n) /\ Cardinality(1..n) = IF 1 > n THEN 0 ELSE n - 1 + 1
        BY FS_Interval
      <3> QED
        BY <3>1
    <2>3. /\ IsFiniteSet(DOMAIN b)
          /\ Cardinality(DOMAIN b) = Len(b) /\ Cardinality(DOMAIN a) = Len(a)
      BY <1>1, <1>2, <2>2
    <2>4. Cardinality(DOMAIN a) = Cardinality(DOMAIN b)
      BY <2>1, <2>3, FS_Bijection DEF ExistsBijection
    <2> QED
      BY <2>3, <2>4
  <1>11. DOMAIN a = DOMAIN b
    BY <1>1, <1>2, <1>10
  <1>12. Permuted(a, b, p)
    BY <1>6, <1>7, <1>8, <1>9, <1>10, <1>11 DEF Permuted
  <1> QED
    BY <1>12

LEMMA ListsClassifyAlike ==
    ASSUME TypeInv, NEW s, Lists(s), NEW t, Lists(t)
    PROVE  Classify(FromTransactions(t)) = Classify(FromTransactions(s))
  <1>1. GoodTxs(s) /\ GoodTxs(t) /\ \A c : NetOf(s, c) = NetOf(t, c)
    BY NetOfRows
  <1>2. PICK a, b : a = FromTransactions(s) /\ b = FromTransactions(t)
    OBVIOUS
  <1>3. GoodLegs(a)
    BY <1>1, <1>2, LegsByContract
  <1>4. PICK p : Permuted(a, b, p)
    BY <1>1, <1>2, SameLegs
  <1> QED
    BY <1>2, <1>3, <1>4, SameStrategy

LEMMA TheOpeningRowsList ==
    ASSUME TypeInv
    PROVE  Lists(RowPerKind(Reverse(SetToSeq({k \in DOMAIN fills : k.effect = "opening"}))))
  <1> PICK S : S = {k \in DOMAIN fills : k.effect = "opening"}
    OBVIOUS
  <1>1. S \subseteq DOMAIN fills /\ IsFiniteSet(S)
    BY FS_Subset DEF TypeInv
  <1> PICK n, open : n = Cardinality(S) /\ open = SetToSeq(S)
    OBVIOUS
  <1>2. /\ n \in Nat /\ open \in [1..n -> S]
        /\ \A k \in S : \E i \in 1..n : open[i] = k
        /\ \A i, j \in 1..n : open[i] = open[j] => i = j
    BY <1>1, SetToSeqLists
  <1>3. open \in Seq(S) /\ Len(open) = n
    BY <1>2, FunctionIsSeq, LenProperties
  <1>4. PICK kinds : kinds = Reverse(open)
    OBVIOUS
  <1>5. kinds = [i \in 1..n |-> open[(n - i) + 1]]
    BY <1>3, <1>4 DEF Reverse
  <1>6. \A i \in 1..n : (n - i) + 1 \in 1..n
    BY <1>2
  <1>7. kinds \in [1..n -> DOMAIN fills]
    BY <1>1, <1>2, <1>5, <1>6
  <1>8. ASSUME NEW i \in 1..n, NEW j \in 1..n, kinds[i] = kinds[j] PROVE i = j
    <2>1. (n - i) + 1 = (n - j) + 1
      BY <1>2, <1>5, <1>6, <1>8
    <2> QED
      BY <1>2, <2>1
  <1>9. ASSUME NEW k \in DOMAIN fills, k.effect = "opening"
        PROVE  \E i \in 1..n : kinds[i] = k
    <2>1. PICK j \in 1..n : open[j] = k
      BY <1>2, <1>9
    <2>2. (n - j) + 1 \in 1..n /\ (n - ((n - j) + 1)) + 1 = j
      BY <1>2
    <2>3. kinds[(n - j) + 1] = k
      BY <1>5, <2>1, <2>2
    <2> QED
      BY <2>2, <2>3
  <1> QED
    BY <1>2, <1>4, <1>7, <1>8, <1>9, RowPerKindLists

-----------------------------------------------------------------------------
(* The theorems.                                                             *)

THEOREM TypeInvHolds == Spec => []TypeInv
  BY InitTypes, NextTypes, PTL DEF Spec

\* No order of any kinds and any number of fills matches two of the sixteen
\* rules, but for the verticals that are ratios too (classifier.go:19).
THEOREM OneRulePerOrder == Spec => []RulesExclusive
  <1>1. TypeInv => RulesExclusive
    BY LegsAreGood, LegsMatchOnce, Zenon DEF RulesExclusive, MatchingRules
  <1> QED
    BY <1>1, TypeInvHolds, PTL

\* What is classified as a vertical or a butterfly has as many contracts
\* bought as sold, because the ratio rules are asked before the vertical one.
THEOREM SpreadsBalance == Spec => []SpreadsAreBalanced
  <1>1. TypeInv => SpreadsAreBalanced
    BY LegsAreGood, ClassifiedSpreadsBalance DEF SpreadsAreBalanced
  <1> QED
    BY <1>1, TypeInvHolds, PTL

\* One order has one strategy, however the broker split it into fills and
\* whichever way the export sorts its rows (leg_shape.go:74).
THEOREM FillsNeverMatter == Spec => []FillsDoNotMatter
  <1>1. TypeInv => FillsDoNotMatter
    <2> SUFFICES ASSUME TypeInv PROVE FillsDoNotMatter
      OBVIOUS
    <2>1. Lists(RowPerKind(SetToSeq(DOMAIN fills)))
      BY LegsAreGood
    <2>2. ASSUME NEW kinds \in FillOrders
          PROVE  Classify(FromTransactions(RowPerFill(kinds))) = Classify(Legs)
      <3>1. Lists(RowPerFill(kinds))
        BY RowPerFillLists
      <3> QED
        BY <2>1, <3>1, ListsClassifyAlike DEF Legs
    <2>3. Classify(FromTransactions(RowPerKind(Reverse(
              SetToSeq({k \in DOMAIN fills : k.effect = "opening"}))))) = Classify(Legs)
      BY <2>1, TheOpeningRowsList, ListsClassifyAlike DEF Legs
    <2> QED
      BY <2>2, <2>3 DEF FillsDoNotMatter
  <1> QED
    BY <1>1, TypeInvHolds, PTL

=============================================================================
