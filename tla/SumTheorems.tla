---------------------------- MODULE SumTheorems ----------------------------
(***************************************************************************)
(* Facts about SumFunctionOnSet, the sum of a function over a finite set,   *)
(* which the ledgers of this project are balanced with.  The community      *)
(* modules define it by a recursive function over the subsets of the set;   *)
(* here the recursion is shown to have a solution, and the usual laws are   *)
(* derived from it.  Every argument by induction is one about a smallest    *)
(* counterexample (SmallestSubset), since proper inclusion is well-founded  *)
(* on the subsets of a finite set.  The last part is about the list InOrder *)
(* makes of a set of numbers.                                               *)
(***************************************************************************)
EXTENDS Ascending, FiniteSetsExt, FiniteSetTheorems, SequenceTheorems,
        WellFoundedInduction, TLAPS

\* The element a fold over s takes first.
Pick(s) == CHOOSE x \in s : TRUE

\* h gives the sum of F over every subset of S.
Unfolds(h, F, S) ==
    h = [s \in SUBSET S |-> IF s = {} THEN 0 ELSE F[Pick(s)] + h[s \ {Pick(s)}]]

\* The definitions of the community modules, put together.
LEMMA SumIsFold ==
    ASSUME NEW F, NEW S
    PROVE  SumFunctionOnSet(F, S) = (CHOOSE h : Unfolds(h, F, S))[S]
BY DEF SumFunctionOnSet, FoldFunctionOnSet, MapThenFoldSet, Unfolds, Pick

\* A non-empty family of subsets of a finite set has a smallest member.
LEMMA SmallestSubset ==
    ASSUME NEW S, IsFiniteSet(S), NEW Family \in SUBSET SUBSET S, Family # {}
    PROVE  \E T \in Family : \A U \in Family : U \subseteq T => U = T
<1>1. IsWellFoundedOn(StrictSubsetOrdering(S), FiniteSubsetsOf(S))
  BY FS_StrictSubsetOrderingWellFounded
<1>2. FiniteSubsetsOf(S) = SUBSET S
  BY FS_FiniteSubsetsOfFinite
<1>3. \E T \in Family : \A U \in Family : <<U, T>> \notin StrictSubsetOrdering(S)
  BY <1>1, <1>2, WFMin
<1> QED
  BY <1>3 DEF StrictSubsetOrdering

\* The fold takes an element of its set.
LEMMA PickIn == \A s : s # {} => Pick(s) \in s
BY DEF Pick

\* Sums over the subsets of R do not depend on the set they are computed in.
LEMMA UnfoldsAgree ==
    ASSUME NEW F, NEW S, IsFiniteSet(S), NEW R, R \subseteq S, NEW g, NEW h,
           Unfolds(g, F, R), Unfolds(h, F, S)
    PROVE  \A s \in SUBSET R : g[s] = h[s]
<1> DEFINE Family == {s \in SUBSET R : g[s] # h[s]}
<1> SUFFICES ASSUME Family # {} PROVE FALSE
  OBVIOUS
<1>1. PICK T \in Family : \A U \in Family : U \subseteq T => U = T
  <2>1. Family \in SUBSET SUBSET S
    OBVIOUS
  <2> HIDE DEF Family
  <2> QED BY <2>1, SmallestSubset
<1>2. T \in SUBSET R /\ g[T] # h[T] /\ T \in SUBSET S
  BY <1>1
<1>3. g[T] = IF T = {} THEN 0 ELSE F[Pick(T)] + g[T \ {Pick(T)}]
  BY <1>2 DEF Unfolds
<1>4. h[T] = IF T = {} THEN 0 ELSE F[Pick(T)] + h[T \ {Pick(T)}]
  BY <1>2 DEF Unfolds
<1>5. T # {}
  BY <1>2, <1>3, <1>4
<1>6. T \ {Pick(T)} \subseteq T /\ T \ {Pick(T)} # T
  BY <1>5, PickIn
<1>7. g[T \ {Pick(T)}] = h[T \ {Pick(T)}]
  BY <1>1, <1>2, <1>6
<1> QED
  BY <1>2, <1>3, <1>4, <1>5, <1>7

\* The recursion has one solution at most ...
LEMMA UnfoldsUnique ==
    ASSUME NEW F, NEW S, IsFiniteSet(S), NEW g, NEW h,
           Unfolds(g, F, S), Unfolds(h, F, S)
    PROVE  g = h
<1>1. \A s \in SUBSET S : g[s] = h[s]
  BY UnfoldsAgree
<1> QED
  BY <1>1 DEF Unfolds

\* ... and it has one.
LEMMA UnfoldsExists ==
    ASSUME NEW F, NEW S, IsFiniteSet(S)
    PROVE  \E h : Unfolds(h, F, S)
<1> DEFINE Family == {s \in SUBSET S : ~ \E h : Unfolds(h, F, s)}
<1> SUFFICES ASSUME Family # {} PROVE FALSE
  OBVIOUS
<1>1. PICK T \in Family : \A U \in Family : U \subseteq T => U = T
  <2>1. Family \in SUBSET SUBSET S
    OBVIOUS
  <2> HIDE DEF Family
  <2> QED BY <2>1, SmallestSubset
<1> DEFINE H == [U \in SUBSET T |-> CHOOSE h : Unfolds(h, F, U)]
           k == [s \in SUBSET T |-> IF s = {} THEN 0
                   ELSE F[Pick(s)] + H[s \ {Pick(s)}][s \ {Pick(s)}]]
<1>2. \A U \in SUBSET T : U # T => Unfolds(H[U], F, U)
  <2> TAKE U \in SUBSET T
  <2> HAVE U # T
  <2>1. \E h : Unfolds(h, F, U)
    BY <1>1
  <2>2. H[U] = CHOOSE h : Unfolds(h, F, U)
    OBVIOUS
  <2> HIDE DEF H
  <2> QED BY <2>1, <2>2
<1>3. \A s \in SUBSET T : s # T => k[s] = H[s][s]
  <2> TAKE s \in SUBSET T
  <2> HAVE s # T
  <2>1. Unfolds(H[s], F, s)
    BY <1>2
  <2>2. H[s][s] = IF s = {} THEN 0 ELSE F[Pick(s)] + H[s][s \ {Pick(s)}]
    BY <2>1 DEF Unfolds
  <2>3. CASE s = {}
    BY <2>2, <2>3
  <2>4. CASE s # {}
    <3> DEFINE r == s \ {Pick(s)}
    <3>1. r \in SUBSET s /\ r # T /\ r \in SUBSET T
      OBVIOUS
    <3>2. Unfolds(H[r], F, r)
      BY <3>1, <1>2
    <3>3. IsFiniteSet(s)
      BY FS_Subset
    <3> HIDE DEF H, k, r
    <3>4. \A u \in SUBSET r : H[r][u] = H[s][u]
      <4> DEFINE g == H[r]
                 h == H[s]
      <4>1. Unfolds(g, F, r) /\ Unfolds(h, F, s)
        BY <3>2, <2>1
      <4> HIDE DEF g, h
      <4>2. \A u \in SUBSET r : g[u] = h[u]
        BY <3>1, <3>3, <4>1, UnfoldsAgree, Z3
      <4> QED BY <4>2 DEF g, h
    <3>5. H[r][r] = H[s][r]
      BY <3>4
    <3> QED BY <2>2, <2>4, <3>5 DEF r, k
  <2> QED BY <2>3, <2>4
<1>4. \A s \in SUBSET T : s # {} => k[s \ {Pick(s)}] = H[s \ {Pick(s)}][s \ {Pick(s)}]
  BY <1>3, PickIn
<1>5. Unfolds(k, F, T)
  <2> HIDE DEF H
  <2>1. \A s \in SUBSET T : k[s] = IF s = {} THEN 0 ELSE F[Pick(s)] + k[s \ {Pick(s)}]
    BY <1>4
  <2>2. k = [s \in SUBSET T |-> k[s]]
    OBVIOUS
  <2> HIDE DEF k
  <2> QED BY <2>1, <2>2 DEF Unfolds
<1> QED
  BY <1>1, <1>5

\* The sum over a finite set, unfolded at the element the fold picks.
LEMMA SumAtPick ==
    ASSUME NEW F, NEW S, IsFiniteSet(S)
    PROVE  SumFunctionOnSet(F, S) =
              IF S = {} THEN 0 ELSE F[Pick(S)] + SumFunctionOnSet(F, S \ {Pick(S)})
<1> DEFINE r == S \ {Pick(S)}
<1>1. PICK h : Unfolds(h, F, S)
  BY UnfoldsExists
<1>2. SumFunctionOnSet(F, S) = h[S]
  BY <1>1, UnfoldsUnique, SumIsFold
<1>3. IsFiniteSet(r)
  BY FS_RemoveElement
<1>4. PICK g : Unfolds(g, F, r)
  BY <1>3, UnfoldsExists
<1>5. SumFunctionOnSet(F, r) = g[r]
  BY <1>3, <1>4, UnfoldsUnique, SumIsFold
<1>6. g[r] = h[r]
  BY <1>1, <1>4, UnfoldsAgree
<1> QED
  BY <1>1, <1>2, <1>5, <1>6 DEF Unfolds
-----------------------------------------------------------------------------
(* The laws.                                                                *)

\* Nothing adds up to zero.
LEMMA SumEmpty == ASSUME NEW F PROVE SumFunctionOnSet(F, {}) = 0
BY SumAtPick, FS_EmptySet

\* A sum of integers is an integer.
LEMMA SumType ==
    ASSUME NEW F, NEW S, IsFiniteSet(S), \A x \in S : F[x] \in Int
    PROVE  SumFunctionOnSet(F, S) \in Int
<1> DEFINE Family == {s \in SUBSET S : SumFunctionOnSet(F, s) \notin Int}
<1> SUFFICES ASSUME Family # {} PROVE FALSE
  OBVIOUS
<1>1. PICK T \in Family : \A U \in Family : U \subseteq T => U = T
  <2>1. Family \in SUBSET SUBSET S
    OBVIOUS
  <2> HIDE DEF Family
  <2> QED BY <2>1, SmallestSubset
<1>2. IsFiniteSet(T) /\ T \subseteq S
  BY <1>1, FS_Subset
<1>3. T # {}
  BY <1>1, SumEmpty
<1> DEFINE r == T \ {Pick(T)}
<1>4. Pick(T) \in T /\ r \subseteq T /\ r # T
  BY <1>3, PickIn
<1>5. SumFunctionOnSet(F, r) \in Int
  BY <1>1, <1>4
<1>6. SumFunctionOnSet(F, T) = F[Pick(T)] + SumFunctionOnSet(F, r)
  BY <1>2, <1>3, SumAtPick
<1>7. F[Pick(T)] \in Int
  BY <1>2, <1>4
<1> HIDE DEF r
<1> QED
  BY <1>1, <1>5, <1>6, <1>7

\* The sum depends on the values inside the set only.
LEMMA SumEqual ==
    ASSUME NEW F, NEW G, NEW S, IsFiniteSet(S), \A x \in S : F[x] = G[x]
    PROVE  SumFunctionOnSet(F, S) = SumFunctionOnSet(G, S)
<1> DEFINE Family == {s \in SUBSET S : SumFunctionOnSet(F, s) # SumFunctionOnSet(G, s)}
<1> SUFFICES ASSUME Family # {} PROVE FALSE
  OBVIOUS
<1>1. PICK T \in Family : \A U \in Family : U \subseteq T => U = T
  <2>1. Family \in SUBSET SUBSET S
    OBVIOUS
  <2> HIDE DEF Family
  <2> QED BY <2>1, SmallestSubset
<1>2. IsFiniteSet(T) /\ T \subseteq S
  BY <1>1, FS_Subset
<1>3. T # {}
  BY <1>1, SumEmpty
<1> DEFINE r == T \ {Pick(T)}
<1>4. Pick(T) \in T /\ r \subseteq T /\ r # T
  BY <1>3, PickIn
<1>5. SumFunctionOnSet(F, r) = SumFunctionOnSet(G, r)
  BY <1>1, <1>4
<1>6. SumFunctionOnSet(F, T) = F[Pick(T)] + SumFunctionOnSet(F, r)
  BY <1>2, <1>3, SumAtPick
<1>7. SumFunctionOnSet(G, T) = G[Pick(T)] + SumFunctionOnSet(G, r)
  BY <1>2, <1>3, SumAtPick
<1>8. F[Pick(T)] = G[Pick(T)]
  BY <1>2, <1>4
<1> HIDE DEF r
<1> QED
  BY <1>1, <1>5, <1>6, <1>7, <1>8

\* Any element may be taken first.
LEMMA SumRemove ==
    ASSUME NEW F, NEW S, IsFiniteSet(S), \A x \in S : F[x] \in Int
    PROVE  \A x \in S : SumFunctionOnSet(F, S) = F[x] + SumFunctionOnSet(F, S \ {x})
<1> DEFINE Splits(s) ==
             \A x \in s : SumFunctionOnSet(F, s) = F[x] + SumFunctionOnSet(F, s \ {x})
           Family == {s \in SUBSET S : ~Splits(s)}
<1> SUFFICES ASSUME Family # {} PROVE FALSE
  OBVIOUS
<1>1. PICK T \in Family : \A U \in Family : U \subseteq T => U = T
  <2>1. Family \in SUBSET SUBSET S
    OBVIOUS
  <2> HIDE DEF Family
  <2> QED BY <2>1, SmallestSubset
<1>2. IsFiniteSet(T) /\ T \subseteq S
  BY <1>1, FS_Subset
<1>3. PICK x \in T : SumFunctionOnSet(F, T) # F[x] + SumFunctionOnSet(F, T \ {x})
  BY <1>1
<1> DEFINE p == Pick(T)
           r == T \ {p}
           q == T \ {x}
           rest == T \ {p, x}
<1>4. p \in T
  BY <1>3, PickIn
<1>5. SumFunctionOnSet(F, T) = F[p] + SumFunctionOnSet(F, r)
  BY <1>3, <1>2, SumAtPick
<1>6. p # x
  BY <1>3, <1>5
<1>7. SumFunctionOnSet(F, r) = F[x] + SumFunctionOnSet(F, rest)
  <2>1. r \subseteq T /\ r # T /\ x \in r /\ rest = r \ {x}
    BY <1>3, <1>4, <1>6
  <2>2. r \in SUBSET S /\ r \notin Family
    BY <1>1, <1>2, <2>1
  <2>3. Splits(r)
    BY <2>2
  <2> HIDE DEF r
  <2> QED BY <2>1, <2>3
<1>8. SumFunctionOnSet(F, q) = F[p] + SumFunctionOnSet(F, rest)
  <2>1. q \subseteq T /\ q # T /\ p \in q /\ rest = q \ {p}
    BY <1>3, <1>4, <1>6
  <2>2. q \in SUBSET S /\ q \notin Family
    BY <1>1, <1>2, <2>1
  <2>3. Splits(q)
    BY <2>2
  <2> HIDE DEF q, p
  <2> QED BY <2>1, <2>3
<1>9. SumFunctionOnSet(F, rest) \in Int
  <2>1. IsFiniteSet(rest)
    BY <1>2, FS_Subset
  <2>2. \A y \in rest : F[y] \in Int
    BY <1>2
  <2> HIDE DEF rest
  <2> QED BY <2>1, <2>2, SumType
<1>10. F[p] \in Int /\ F[x] \in Int
  BY <1>2, <1>4
<1> HIDE DEF p, q, r, rest, Family
<1>11. SumFunctionOnSet(F, T) = F[x] + SumFunctionOnSet(F, q)
  BY <1>5, <1>7, <1>8, <1>9, <1>10
<1> QED
  BY <1>3, <1>11 DEF q

\* One more element.
LEMMA SumAdd ==
    ASSUME NEW F, NEW S, IsFiniteSet(S), \A y \in S : F[y] \in Int,
           NEW x, x \notin S, F[x] \in Int
    PROVE  SumFunctionOnSet(F, S \cup {x}) = SumFunctionOnSet(F, S) + F[x]
<1> DEFINE T == S \cup {x}
<1>1. IsFiniteSet(T) /\ T \ {x} = S /\ x \in T
  BY FS_AddElement
<1>2. \A y \in T : F[y] \in Int
  OBVIOUS
<1>3. SumFunctionOnSet(F, S) \in Int
  BY SumType
<1> HIDE DEF T
<1>4. SumFunctionOnSet(F, T) = F[x] + SumFunctionOnSet(F, T \ {x})
  BY <1>1, <1>2, SumRemove
<1>5. SumFunctionOnSet(F, T) = F[x] + SumFunctionOnSet(F, S)
  BY <1>1, <1>4
<1> QED
  BY <1>3, <1>5 DEF T

\* One changed value.
LEMMA SumChange ==
    ASSUME NEW F, NEW G, NEW S, IsFiniteSet(S), NEW x \in S,
           \A y \in S : F[y] \in Int, G[x] \in Int,
           \A y \in S \ {x} : G[y] = F[y]
    PROVE  SumFunctionOnSet(G, S) = SumFunctionOnSet(F, S) - F[x] + G[x]
<1> DEFINE rest == S \ {x}
<1>1. IsFiniteSet(rest)
  BY FS_RemoveElement
<1>2. SumFunctionOnSet(F, S) = F[x] + SumFunctionOnSet(F, rest)
  BY SumRemove
<1>3. \A y \in S : G[y] \in Int
  OBVIOUS
<1>4. SumFunctionOnSet(G, S) = G[x] + SumFunctionOnSet(G, rest)
  BY <1>3, SumRemove
<1>5. SumFunctionOnSet(F, rest) \in Int
  BY <1>1, SumType
<1>6. SumFunctionOnSet(F, rest) = SumFunctionOnSet(G, rest)
  BY <1>1, SumEqual
<1> HIDE DEF rest
<1>7. F[x] \in Int
  OBVIOUS
<1> QED
  BY <1>2, <1>4, <1>5, <1>6, <1>7

\* A sum of naturals is at least as large as each of them.
LEMMA SumOfNats ==
    ASSUME NEW F, NEW S, IsFiniteSet(S), \A x \in S : F[x] \in Nat
    PROVE  /\ SumFunctionOnSet(F, S) \in Nat
           /\ \A x \in S : F[x] <= SumFunctionOnSet(F, S)
<1> DEFINE Family == {s \in SUBSET S : SumFunctionOnSet(F, s) \notin Nat}
<1>1. ASSUME Family # {} PROVE FALSE
  <2>1. PICK T \in Family : \A U \in Family : U \subseteq T => U = T
    <3>1. Family \in SUBSET SUBSET S
      OBVIOUS
    <3> HIDE DEF Family
    <3> QED BY <3>1, <1>1, SmallestSubset
  <2>2. IsFiniteSet(T) /\ T \subseteq S
    BY <2>1, FS_Subset
  <2>3. T # {}
    <3>1. SumFunctionOnSet(F, T) \notin Nat
      BY <2>1
    <3>2. SumFunctionOnSet(F, {}) = 0
      BY SumEmpty
    <3> QED BY <3>1, <3>2
  <2> DEFINE r == T \ {Pick(T)}
  <2>4. Pick(T) \in T /\ r \subseteq T /\ r # T
    BY <2>3, PickIn
  <2>5. SumFunctionOnSet(F, r) \in Nat
    BY <2>1, <2>4
  <2>6. SumFunctionOnSet(F, T) = F[Pick(T)] + SumFunctionOnSet(F, r)
    BY <2>2, <2>3, SumAtPick
  <2>7. F[Pick(T)] \in Nat
    BY <2>2, <2>4
  <2> HIDE DEF r
  <2> QED
    BY <2>1, <2>5, <2>6, <2>7
<1>2. \A s \in SUBSET S : SumFunctionOnSet(F, s) \in Nat
  BY <1>1
<1>3. ASSUME NEW x \in S PROVE F[x] <= SumFunctionOnSet(F, S)
  <2>1. SumFunctionOnSet(F, S) = F[x] + SumFunctionOnSet(F, S \ {x})
    BY SumRemove
  <2>2. SumFunctionOnSet(F, S \ {x}) \in Nat
    BY <1>2
  <2> QED BY <2>1, <2>2
<1> QED
  BY <1>2, <1>3

\* Two sets without a common element.
LEMMA SumUnion ==
    ASSUME NEW F, NEW S, IsFiniteSet(S), NEW T, IsFiniteSet(T), S \cap T = {},
           \A x \in S \cup T : F[x] \in Int
    PROVE  SumFunctionOnSet(F, S \cup T) = SumFunctionOnSet(F, S) + SumFunctionOnSet(F, T)
<1> DEFINE Adds(U) == SumFunctionOnSet(F, S \cup U)
                        = SumFunctionOnSet(F, S) + SumFunctionOnSet(F, U)
           Family == {U \in SUBSET T : ~Adds(U)}
<1> SUFFICES ASSUME Family # {} PROVE FALSE
  OBVIOUS
<1>1. PICK U \in Family : \A V \in Family : V \subseteq U => V = U
  <2>1. Family \in SUBSET SUBSET T
    OBVIOUS
  <2> HIDE DEF Family
  <2> QED BY <2>1, SmallestSubset
<1>2. U \subseteq T /\ ~Adds(U)
  BY <1>1
<1>3. SumFunctionOnSet(F, S) \in Int
  BY SumType
<1>4. PICK x : x \in U
  <2>1. CASE U = {}
    <3>1. S \cup U = S
      BY <2>1
    <3>2. SumFunctionOnSet(F, U) = 0
      BY <2>1, SumEmpty
    <3>3. SumFunctionOnSet(F, S \cup U) = SumFunctionOnSet(F, S)
      BY <3>1, Zenon
    <3> QED BY <1>2, <1>3, <3>2, <3>3
  <2> QED BY <2>1
<1> DEFINE r == U \ {x}
<1>5. r \subseteq U /\ r # U /\ r \cup {x} = U /\ x \notin r /\ x \notin S \cup r
  BY <1>2, <1>4
<1>6. Adds(r)
  <2>1. r \in SUBSET T /\ r \notin Family
    BY <1>1, <1>2, <1>5
  <2> QED BY <2>1
<1>7. IsFiniteSet(r) /\ IsFiniteSet(S \cup r)
  BY <1>2, <1>5, FS_Subset, FS_Union
<1>8. F[x] \in Int /\ (\A y \in r : F[y] \in Int) /\ \A y \in S \cup r : F[y] \in Int
  BY <1>2, <1>4, <1>5
<1>9. (S \cup r) \cup {x} = S \cup U
  BY <1>5
<1> HIDE DEF r, Family
<1>10. SumFunctionOnSet(F, U) = SumFunctionOnSet(F, r) + F[x]
  BY <1>5, <1>7, <1>8, SumAdd
<1>11. SumFunctionOnSet(F, S \cup U) = SumFunctionOnSet(F, S \cup r) + F[x]
  BY <1>5, <1>7, <1>8, <1>9, SumAdd
<1>12. SumFunctionOnSet(F, r) \in Int
  BY <1>7, <1>8, SumType
<1> QED
  BY <1>2, <1>3, <1>6, <1>8, <1>10, <1>11, <1>12

\* A sum may be taken group by group: K are the keys, G[k] is the sum over the
\* elements with key k.
GroupsBy(key, G, K, F, S) ==
    /\ \A x \in S : key[x] \in K
    /\ \A k \in K : G[k] = SumFunctionOnSet(F, {x \in S : key[x] = k})

LEMMA SumByKey ==
    ASSUME NEW F, NEW S, IsFiniteSet(S), \A x \in S : F[x] \in Int,
           NEW K, IsFiniteSet(K), NEW key, NEW G, GroupsBy(key, G, K, F, S)
    PROVE  SumFunctionOnSet(G, K) = SumFunctionOnSet(F, S)
<1> DEFINE In(k) == {x \in S : key[x] = k}
           Under(L) == {x \in S : key[x] \in L}
           Groups(L) == SumFunctionOnSet(G, L) = SumFunctionOnSet(F, Under(L))
           Family == {L \in SUBSET K : ~Groups(L)}
<1>0. /\ \A x \in S : key[x] \in K
      /\ \A k \in K : G[k] = SumFunctionOnSet(F, In(k))
  BY DEF GroupsBy
<1>1. Family = {}
  <2> SUFFICES ASSUME Family # {} PROVE FALSE
    OBVIOUS
  <2>1. PICK L \in Family : \A M \in Family : M \subseteq L => M = L
    <3>1. Family \in SUBSET SUBSET K
      OBVIOUS
    <3> HIDE DEF Family
    <3> QED BY <3>1, SmallestSubset
  <2>2. L \subseteq K /\ ~Groups(L)
    BY <2>1
  <2>3. PICK k : k \in L
    <3>1. CASE L = {}
      <4>1. Under(L) = {}
        BY <3>1
      <4> HIDE DEF Under
      <4> QED BY <2>2, <3>1, <4>1, SumEmpty
    <3> QED BY <3>1
  <2> DEFINE r == L \ {k}
  <2>4. r \subseteq L /\ r # L /\ r \cup {k} = L /\ k \notin r /\ k \in K /\ r \subseteq K
    BY <2>2, <2>3
  <2>5. Groups(r)
    <3>1. r \in SUBSET K /\ r \notin Family
      BY <2>1, <2>4
    <3> QED BY <3>1
  <2>6. Under(L) = Under(r) \cup In(k) /\ Under(r) \cap In(k) = {}
    BY <2>3
  <2>7. Under(r) \subseteq S /\ In(k) \subseteq S /\ \A l \in K : In(l) \subseteq S
    OBVIOUS
  <2>8. G[k] = SumFunctionOnSet(F, In(k)) /\ \A l \in K : G[l] = SumFunctionOnSet(F, In(l))
    BY <1>0, <2>4
  <2> HIDE DEF r, Family, Under, In
  <2>9. IsFiniteSet(r) /\ IsFiniteSet(Under(r)) /\ \A l \in K : IsFiniteSet(In(l))
    BY <2>4, <2>7, FS_Subset
  <2>10. \A l \in K : G[l] \in Int
    BY <2>7, <2>8, <2>9, SumType
  <2>11. SumFunctionOnSet(G, L) = SumFunctionOnSet(G, r) + G[k]
    BY <2>4, <2>9, <2>10, SumAdd
  <2>12. SumFunctionOnSet(F, Under(L))
           = SumFunctionOnSet(F, Under(r)) + SumFunctionOnSet(F, In(k))
    BY <2>4, <2>6, <2>7, <2>9, SumUnion
  <2> QED
    BY <2>2, <2>5, <2>8, <2>11, <2>12
<1>2. Groups(K)
  <2> HIDE DEF Groups
  <2> QED BY <1>1
<1>3. Under(K) = S
  BY <1>0
<1> HIDE DEF Under
<1> QED
  BY <1>2, <1>3

\* A sum of ones counts.
LEMMA SumOfOnes ==
    ASSUME NEW F, NEW S, IsFiniteSet(S), \A x \in S : F[x] = 1
    PROVE  SumFunctionOnSet(F, S) = Cardinality(S)
<1> DEFINE Family == {U \in SUBSET S : SumFunctionOnSet(F, U) # Cardinality(U)}
<1> SUFFICES ASSUME Family # {} PROVE FALSE
  OBVIOUS
<1>1. PICK U \in Family : \A V \in Family : V \subseteq U => V = U
  <2>1. Family \in SUBSET SUBSET S
    OBVIOUS
  <2> HIDE DEF Family
  <2> QED BY <2>1, SmallestSubset
<1>2. U \subseteq S /\ SumFunctionOnSet(F, U) # Cardinality(U)
  BY <1>1
<1>3. PICK x : x \in U
  BY <1>2, SumEmpty, FS_EmptySet
<1> DEFINE r == U \ {x}
<1>4. r \subseteq U /\ r # U /\ r \cup {x} = U /\ x \notin r
  BY <1>3
<1>5. SumFunctionOnSet(F, r) = Cardinality(r)
  <2>1. r \in SUBSET S /\ r \notin Family
    BY <1>1, <1>2, <1>4
  <2> QED BY <2>1
<1>6. F[x] = 1 /\ \A y \in r : F[y] \in Int
  BY <1>2, <1>3, <1>4
<1> HIDE DEF r, Family
<1>7. IsFiniteSet(r)
  BY <1>2, <1>4, FS_Subset
<1>8. SumFunctionOnSet(F, U) = SumFunctionOnSet(F, r) + F[x]
  BY <1>4, <1>6, <1>7, SumAdd
<1>9. Cardinality(U) = Cardinality(r) + 1
  BY <1>4, <1>7, FS_AddElement
<1> QED
  BY <1>2, <1>5, <1>6, <1>8, <1>9

\* A sum of the opposites is the opposite of the sum.
LEMMA SumOpposite ==
    ASSUME NEW F, NEW G, NEW S, IsFiniteSet(S),
           \A x \in S : F[x] \in Int /\ G[x] = 0 - F[x]
    PROVE  SumFunctionOnSet(G, S) = 0 - SumFunctionOnSet(F, S)
<1> DEFINE Family == {U \in SUBSET S : SumFunctionOnSet(G, U) # 0 - SumFunctionOnSet(F, U)}
<1> SUFFICES ASSUME Family # {} PROVE FALSE
  OBVIOUS
<1>1. PICK U \in Family : \A V \in Family : V \subseteq U => V = U
  <2>1. Family \in SUBSET SUBSET S
    OBVIOUS
  <2> HIDE DEF Family
  <2> QED BY <2>1, SmallestSubset
<1>2. U \in SUBSET S /\ IsFiniteSet(U) /\ SumFunctionOnSet(G, U) # 0 - SumFunctionOnSet(F, U)
  BY <1>1, FS_Subset
<1>3. U # {}
  BY <1>2, SumEmpty
<1>4. PICK x \in U : TRUE
  BY <1>3
<1>5. \A y \in U : F[y] \in Int /\ G[y] \in Int
  BY <1>2
<1> PICK R : R = U \ {x}
  OBVIOUS
<1>6. /\ SumFunctionOnSet(F, U) = F[x] + SumFunctionOnSet(F, R)
      /\ SumFunctionOnSet(G, U) = G[x] + SumFunctionOnSet(G, R)
  BY <1>2, <1>5, SumRemove
<1>7. R \in SUBSET S /\ R \notin Family
  BY <1>1, <1>2, <1>4
<1>8. SumFunctionOnSet(G, R) = 0 - SumFunctionOnSet(F, R)
  BY <1>7
<1>9. IsFiniteSet(R) /\ \A y \in R : F[y] \in Int
  BY <1>2, <1>5, FS_Subset
<1>10. SumFunctionOnSet(F, R) \in Int
  BY <1>9, SumType
<1>11. F[x] \in Int /\ G[x] = 0 - F[x]
  BY <1>2, <1>4
<1> QED
  BY <1>2, <1>6, <1>8, <1>10, <1>11

\* The images of a finite set are finitely many.
LEMMA FiniteImage ==
    ASSUME NEW S, IsFiniteSet(S), NEW f
    PROVE  IsFiniteSet({f[x] : x \in S})
<1> DEFINE T == {f[x] : x \in S}
           g == [x \in S |-> f[x]]
<1>1. g \in Surjection(S, T)
  BY DEF Surjection
<1> HIDE DEF g, T
<1> QED
  BY <1>1, FS_Surjection DEF T

\* A finite set of integers has a largest member.
LEMMA FiniteMax ==
    ASSUME NEW S, IsFiniteSet(S), S # {}, \A x \in S : x \in Int
    PROVE  Max(S) \in S /\ \A x \in S : x <= Max(S)
<1> DEFINE Above == [y \in S |-> {x \in S : x >= y}]
           Family == {Above[y] : y \in S}
<1>1. PICK U \in Family : \A V \in Family : V \subseteq U => V = U
  <2>1. \A y \in S : Above[y] \in SUBSET S
    OBVIOUS
  <2>2. Family \in SUBSET SUBSET S
    BY <2>1
  <2>3. Family # {}
    BY <2>1
  <2> HIDE DEF Above, Family
  <2>4. \E U \in Family : \A V \in Family : V \subseteq U => V = U
    BY <2>2, <2>3, SmallestSubset
  <2> QED BY <2>4
<1>2. PICK y \in S : U = Above[y]
  BY <1>1
<1>3. ASSUME NEW x \in S PROVE y >= x
  <2> SUFFICES ASSUME ~(y >= x) PROVE FALSE
    OBVIOUS
  <2>1. x \in Int /\ y \in Int /\ \A z \in S : z \in Int
    OBVIOUS
  <2>2. y \in Above[y] /\ y \notin Above[x] /\ \A z \in Above[x] : z \in Above[y]
    BY <2>1
  <2>3. Above[x] \in Family
    OBVIOUS
  <2> HIDE DEF Above, Family
  <2> QED BY <1>1, <1>2, <2>2, <2>3
<1>4. Max(S) \in S /\ \A x \in S : Max(S) >= x
  BY <1>3, Zenon DEF Max
<1> QED
  BY <1>4

-----------------------------------------------------------------------------
(* Least elements, and sets of numbers in ascending order.                  *)

LEMMA LessIsWellFounded ==
    \E R : IsWellFoundedOn(R, Nat) /\ \A k, m \in Nat : k < m => <<k, m>> \in R
  <1>1. \A k, m \in Nat : k < m => <<k, m>> \in OpToRel(<, Nat)
    BY DEF OpToRel
  <1> QED
    BY <1>1, NatLessThanWellFounded

LEMMA LeastExists ==
    ASSUME NEW T, T \subseteq Nat, T # {}
    PROVE  Min(T) \in T /\ \A k \in T : Min(T) <= k
  <1>1. PICK R : IsWellFoundedOn(R, Nat) /\ \A k, m \in Nat : k < m => <<k, m>> \in R
    BY LessIsWellFounded
  <1>2. IsWellFoundedOn(R, Nat)
    BY <1>1
  <1>3. PICK m \in T : \A k \in T : <<k, m>> \notin R
    BY <1>2, WFMin
  <1>4. ASSUME NEW k \in T PROVE m <= k
    <2>1. k \in Nat /\ m \in Nat /\ <<k, m>> \notin R
      BY <1>3
    <2>2. ~(k < m)
      BY <1>1, <2>1
    <2> QED
      BY <2>1, <2>2
  <1> QED
    BY <1>3, <1>4 DEF Min

LEMMA FunctionIsSeq ==
    ASSUME NEW S, NEW n \in Nat, NEW f \in [1..n -> S]
    PROVE  f \in Seq(S)
  BY SeqDef

\* s goes through the n members of S, once each.
ListsOnce(s, S, n) ==
    /\ n \in Nat /\ s \in [1..n -> S]
    /\ \A k \in S : \E i \in 1..n : s[i] = k
    /\ \A i, j \in 1..n : s[i] = s[j] => i = j

\* Where each member has a set of others before it, and a larger one than those
\* have, there is one for every place.
PlacedBy(S, before) ==
    /\ IsFiniteSet(S)
    /\ \A k \in S : before[k] \subseteq S \ {k}
    /\ \A j, k \in S : j # k => \/ before[j] \cup {j} \subseteq before[k]
                                \/ before[k] \cup {k} \subseteq before[j]

AllPlaces(S, before, n) ==
    /\ n \in Nat
    /\ \A k \in S : Cardinality(before[k]) \in 0..(n - 1)
    /\ \A j, k \in S : Cardinality(before[j]) = Cardinality(before[k]) => j = k
    /\ \A i \in 1..n : \E k \in S : Cardinality(before[k]) = i - 1

LEMMA PlacesTaken ==
    ASSUME NEW S, NEW before, PlacedBy(S, before), NEW n, n = Cardinality(S)
    PROVE  AllPlaces(S, before, n)
  <1>0. /\ IsFiniteSet(S) /\ \A k \in S : before[k] \subseteq S \ {k}
        /\ \A j, k \in S : j # k => \/ before[j] \cup {j} \subseteq before[k]
                                    \/ before[k] \cup {k} \subseteq before[j]
    BY DEF PlacedBy
  <1>1. n \in Nat
    BY <1>0, FS_CardinalityType
  <1> DEFINE C(k) == Cardinality(before[k])
  <1>2. ASSUME NEW k \in S
        PROVE  IsFiniteSet(before[k]) /\ k \notin before[k] /\ C(k) \in 0..(n - 1)
    <2>1. before[k] \subseteq S \ {k} /\ k \notin before[k]
      BY <1>0
    <2>2. IsFiniteSet(S \ {k}) /\ Cardinality(S \ {k}) = n - 1
      BY <1>0, FS_RemoveElement
    <2>3. IsFiniteSet(before[k]) /\ C(k) <= n - 1
      BY <2>1, <2>2, FS_Subset
    <2>4. C(k) \in Nat
      BY <2>3, FS_CardinalityType
    <2> QED
      BY <1>1, <2>1, <2>3, <2>4
  <1>3. ASSUME NEW j \in S, NEW k \in S, before[j] \cup {j} \subseteq before[k]
        PROVE  C(j) < C(k)
    <2>2. Cardinality(before[j] \cup {j}) = C(j) + 1
      BY <1>2, FS_AddElement
    <2>3. Cardinality(before[j] \cup {j}) <= C(k)
      BY <1>2, <1>3, FS_Subset
    <2> QED
      BY <1>1, <1>2, <2>2, <2>3
  <1>4. \A j, k \in S : C(j) = C(k) => j = k
    <2> SUFFICES ASSUME NEW j \in S, NEW k \in S, j # k PROVE C(j) # C(k)
      OBVIOUS
    <2>1. C(j) \in Int /\ C(k) \in Int
      BY <1>1, <1>2
    <2>3. C(j) < C(k) \/ C(k) < C(j)
      BY <1>0, <1>3
    <2> QED
      BY <2>1, <2>3
  <1> DEFINE f == [k \in S |-> C(k) + 1]
  <1>5. \A k \in S : C(k) + 1 \in 1..n
    BY <1>1, <1>2
  <1>6. f \in [S -> 1..n] /\ \A k \in S : f[k] = C(k) + 1
    BY <1>5
  <1>7. \A j, k \in S : f[j] = f[k] => j = k
    <2> SUFFICES ASSUME NEW j \in S, NEW k \in S, f[j] = f[k] PROVE j = k
      OBVIOUS
    <2>1. C(j) \in Int /\ C(k) \in Int
      BY <1>1, <1>2
    <2>2. C(j) = C(k)
      BY <1>6, <2>1
    <2> QED
      BY <1>4, <2>2
  <1> HIDE DEF f
  <1>8. f \in Injection(S, 1..n)
    BY <1>6, <1>7 DEF Injection, IsInjective
  <1>9. IsFiniteSet(1..n) /\ Cardinality(1..n) = n
    BY <1>1, FS_Interval
  <1>10. f \in Surjection(S, 1..n)
    BY <1>0, <1>8, <1>9, FS_Injection
  <1>11. ASSUME NEW i \in 1..n
         PROVE  \E k \in S : C(k) = i - 1
    <2>1. PICK k \in S : f[k] = i
      BY <1>10 DEF Surjection
    <2>2. C(k) \in Int /\ C(k) + 1 = i
      BY <1>1, <1>2, <1>6, <2>1
    <2> HIDE DEF C
    <2>3. C(k) = i - 1
      BY <2>2
    <2> QED
      BY <2>3
  <1> QED
    BY <1>1, <1>2, <1>4, <1>11 DEF AllPlaces

LEMMA PlacesList ==
    ASSUME NEW S, NEW before, PlacedBy(S, before), NEW n, n = Cardinality(S),
           NEW s, s \in [1..n -> S], \A i \in 1..n : Cardinality(before[s[i]]) = i - 1
    PROVE  ListsOnce(s, S, n)
  <1>1. /\ n \in Nat
        /\ \A k \in S : Cardinality(before[k]) \in 0..(n - 1)
        /\ \A j, k \in S : Cardinality(before[j]) = Cardinality(before[k]) => j = k
    BY PlacesTaken DEF AllPlaces
  <1>2. ASSUME NEW k \in S
        PROVE  \E i \in 1..n : s[i] = k
    <2>1. PICK i : i = Cardinality(before[k]) + 1
      OBVIOUS
    <2>2. i \in 1..n /\ i - 1 = Cardinality(before[k])
      BY <1>1, <2>1
    <2>3. s[i] \in S /\ Cardinality(before[s[i]]) = Cardinality(before[k])
      BY <2>2
    <2> QED
      BY <1>1, <2>2, <2>3
  <1>3. ASSUME NEW i \in 1..n, NEW j \in 1..n, s[i] = s[j]
        PROVE  i = j
    <2>1. i - 1 = j - 1 /\ i \in Int /\ j \in Int
      BY <1>1, <1>3
    <2> QED
      BY <2>1
  <1> QED
    BY <1>1, <1>2, <1>3 DEF ListsOnce

LEMMA InOrderByLists ==
    ASSUME NEW S, IsFiniteSet(S), S \subseteq Nat, NEW key, \A k \in S : key[k] \in Int
    PROVE  LET n == Cardinality(S)
           IN /\ n \in Nat /\ InOrderBy(S, key) \in [1..n -> S]
              /\ \A k \in S : \E i \in 1..n : InOrderBy(S, key)[i] = k
              /\ \A i, j \in 1..n : InOrderBy(S, key)[i] = InOrderBy(S, key)[j] => i = j
  <1>0. PICK n : n = Cardinality(S)
    OBVIOUS
  <1>5. PICK before : before = [k \in S |-> {j \in S : key[j] < key[k] \/ (key[j] = key[k] /\ j < k)}]
    OBVIOUS
  <1>1. PlacedBy(S, before)
    <2>1. \A k \in S : before[k] = {j \in S : key[j] < key[k] \/ (key[j] = key[k] /\ j < k)}
      BY <1>5
    <2>2. \A k \in S : k \in Nat /\ key[k] \in Int
      OBVIOUS
    <2>3. \A k \in S : before[k] \subseteq S \ {k}
      BY <2>1, <2>2
    <2>4. ASSUME NEW j \in S, NEW k \in S, key[j] < key[k] \/ (key[j] = key[k] /\ j < k)
          PROVE  before[j] \cup {j} \subseteq before[k]
      <3> SUFFICES ASSUME NEW i \in S, (key[i] < key[j] \/ (key[i] = key[j] /\ i < j)) \/ i = j
                   PROVE  key[i] < key[k] \/ (key[i] = key[k] /\ i < k)
        BY <2>1
      <3> QED
        BY <2>2, <2>4
    <2>5. \A j, k \in S : j # k => \/ before[j] \cup {j} \subseteq before[k]
                                   \/ before[k] \cup {k} \subseteq before[j]
      BY <2>2, <2>4
    <2> QED
      BY <2>3, <2>5 DEF PlacedBy
  <1>2. n \in Nat /\ \A i \in 1..n : \E k \in S : Cardinality(before[k]) = i - 1
    <2>1. AllPlaces(S, before, n)
      BY <1>0, <1>1, PlacesTaken
    <2> QED
      BY <2>1 DEF AllPlaces
  <1>6. PICK s : s = InOrderBy(S, key)
    OBVIOUS
  <1>3. \A i \in 1..n : s[i] \in S /\ Cardinality(before[s[i]]) = i - 1
    <2> DEFINE C(k) == Cardinality({j \in S : key[j] < key[k] \/ (key[j] = key[k] /\ j < k)})
    <2>1. \A k \in S : C(k) = Cardinality(before[k])
      BY <1>5
    <2> HIDE DEF C
    <2>2. s = [i \in 1..n |-> CHOOSE k \in S : C(k) = i - 1]
      BY <1>0, <1>6 DEF InOrderBy, C
    <2> QED
      BY <1>2, <2>1, <2>2
  <1>4. s \in [1..n -> S]
    <2> DEFINE c(i) == CHOOSE k \in S : Cardinality({j \in S : key[j] < key[k] \/ (key[j] = key[k] /\ j < k)}) = i - 1
    <2>1. s = [i \in 1..n |-> c(i)]
      BY <1>0, <1>6 DEF InOrderBy
    <2> HIDE DEF c
    <2>2. \A i \in 1..n : c(i) \in S
      BY <1>3, <2>1
    <2> QED
      BY <2>1, <2>2
  <1>7. ListsOnce(s, S, n)
    BY <1>0, <1>1, <1>3, <1>4, PlacesList
  <1>8. InOrderBy(S, key) = s /\ Cardinality(S) = n
    BY <1>0, <1>6
  <1> QED
    BY <1>7, <1>8, Zenon DEF ListsOnce

LEMMA InOrderLists ==
    ASSUME NEW S, IsFiniteSet(S), S \subseteq Nat
    PROVE  LET n == Cardinality(S)
           IN /\ n \in Nat /\ InOrder(S) \in [1..n -> S]
              /\ \A k \in S : \E i \in 1..n : InOrder(S)[i] = k
              /\ \A i, j \in 1..n : InOrder(S)[i] = InOrder(S)[j] => i = j
  <1>0. PICK n : n = Cardinality(S)
    OBVIOUS
  <1>5. PICK before : before = [k \in S |-> {j \in S : j < k}]
    OBVIOUS
  <1>1. PlacedBy(S, before)
    <2>1. \A k \in S : before[k] = {j \in S : j < k} /\ k \in Nat
      BY <1>5
    <2>2. \A k \in S : before[k] \subseteq S \ {k}
      BY <2>1
    <2>3. ASSUME NEW j \in S, NEW k \in S, j < k
          PROVE  before[j] \cup {j} \subseteq before[k]
      <3>1. \A i \in S : i < j \/ i = j => i < k
        BY <2>1, <2>3
      <3> QED
        BY <2>1, <2>3, <3>1
    <2>4. \A j, k \in S : j # k => \/ before[j] \cup {j} \subseteq before[k]
                                   \/ before[k] \cup {k} \subseteq before[j]
      BY <2>1, <2>3
    <2> QED
      BY <2>2, <2>4 DEF PlacedBy
  <1>2. n \in Nat /\ \A i \in 1..n : \E k \in S : Cardinality(before[k]) = i - 1
    <2>1. AllPlaces(S, before, n)
      BY <1>0, <1>1, PlacesTaken
    <2> QED
      BY <2>1 DEF AllPlaces
  <1>6. PICK s : s = InOrder(S)
    OBVIOUS
  <1>3. \A i \in 1..n : s[i] \in S /\ Cardinality(before[s[i]]) = i - 1
    <2> DEFINE C(k) == Cardinality({j \in S : j < k})
    <2>1. \A k \in S : C(k) = Cardinality(before[k])
      BY <1>5
    <2> HIDE DEF C
    <2>2. s = [i \in 1..n |-> CHOOSE k \in S : C(k) = i - 1]
      BY <1>0, <1>6 DEF InOrder, C
    <2> QED
      BY <1>2, <2>1, <2>2
  <1>4. s \in [1..n -> S]
    <2> DEFINE c(i) == CHOOSE k \in S : Cardinality({j \in S : j < k}) = i - 1
    <2>1. s = [i \in 1..n |-> c(i)]
      BY <1>0, <1>6 DEF InOrder
    <2> HIDE DEF c
    <2>2. \A i \in 1..n : c(i) \in S
      BY <1>3, <2>1
    <2> QED
      BY <2>1, <2>2
  <1>7. ListsOnce(s, S, n)
    BY <1>0, <1>1, <1>3, <1>4, PlacesList
  <1>8. InOrder(S) = s /\ Cardinality(S) = n
    BY <1>0, <1>6
  <1> QED
    BY <1>7, <1>8, Zenon DEF ListsOnce

\* One more summand of a sum over the first numbers.
LEMMA SumUpTo ==
    ASSUME NEW F, NEW i \in Nat \ {0}, \A k \in 1..i : F[k] \in Nat
    PROVE  /\ SumFunctionOnSet(F, 1..(i - 1)) \in Nat
           /\ SumFunctionOnSet(F, 1..i) = SumFunctionOnSet(F, 1..(i - 1)) + F[i]
  <1> PICK S : S = 1..(i - 1)
    OBVIOUS
  <1>1. IsFiniteSet(S)
    BY FS_Interval
  <1>2. i \notin S /\ S \cup {i} = 1..i /\ F[i] \in Int
    OBVIOUS
  <1>3. \A k \in S : F[k] \in Nat /\ F[k] \in Int
    OBVIOUS
  <1>4. SumFunctionOnSet(F, S) \in Nat
    BY <1>1, <1>3, SumOfNats
  <1>5. SumFunctionOnSet(F, S \cup {i}) = SumFunctionOnSet(F, S) + F[i]
    BY <1>1, <1>2, <1>3, SumAdd
  <1> QED
    BY <1>2, <1>4, <1>5

=============================================================================
