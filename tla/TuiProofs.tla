------------------------------ MODULE TuiProofs ------------------------------
(***************************************************************************)
(* Proofs about the terminal UI: types, the forms and the answers they wait *)
(* for, the account a view was loaded for, the account a rename is for, the *)
(* position a chain detail stands under, and the rows of the positions.     *)
(***************************************************************************)
EXTENDS Tui, SequenceTheorems, SumTheorems, TLAPS

AccountId == ToSet(AccountIds)
Position == UNION {ToSet(Books[a].positions) : a \in AccountId}

-----------------------------------------------------------------------------
(* Sequences put together.                                                  *)

\* f is the sequence of the first m concatenations of FlattenSeq.
Flattens(f, seqs, m) ==
    f = [i \in 1..m |-> IF i = 1 THEN seqs[i] ELSE f[i - 1] \o seqs[i]]

LEMMA FlattenExists ==
    ASSUME NEW seqs, NEW n \in Nat
    PROVE  \E f : Flattens(f, seqs, n)
  <1> DEFINE T == {m \in Nat : ~\E f : Flattens(f, seqs, m)}
  <1> SUFFICES ASSUME T # {} PROVE FALSE
    OBVIOUS
  <1>1. PICK m \in T : \A k \in T : m <= k
    BY LeastExists
  <1>2. CASE m = 0
    <2>1. Flattens([i \in 1..0 |-> 0], seqs, m)
      BY <1>2 DEF Flattens
    <2> QED
      BY <2>1
  <1>3. CASE m # 0
    <2>1. m - 1 \in Nat /\ m - 1 \notin T
      BY <1>1, <1>3
    <2>2. PICK f : Flattens(f, seqs, m - 1)
      BY <2>1
    <2> DEFINE g == [i \in 1..m |-> IF i < m THEN f[i]
                                    ELSE IF i = 1 THEN seqs[i] ELSE f[i - 1] \o seqs[i]]
    <2>3. ASSUME NEW i \in 1..m
          PROVE  g[i] = IF i = 1 THEN seqs[i] ELSE g[i - 1] \o seqs[i]
      <3>1. i # 1 => i - 1 \in 1..m /\ i - 1 < m /\ g[i - 1] = f[i - 1]
        BY <1>1
      <3>2. CASE i < m
        <4>1. i \in 1..(m - 1) /\ g[i] = f[i]
          BY <1>1, <3>2
        <4>2. f[i] = IF i = 1 THEN seqs[i] ELSE f[i - 1] \o seqs[i]
          BY <2>2, <4>1 DEF Flattens
        <4> QED
          BY <3>1, <4>1, <4>2
      <3>3. CASE ~(i < m)
        BY <3>1, <3>3
      <3> QED
        BY <3>2, <3>3
    <2> HIDE DEF g
    <2>4. g = [i \in 1..m |-> g[i]]
      BY DEF g
    <2>5. Flattens(g, seqs, m)
      BY <2>3, <2>4 DEF Flattens
    <2> QED
      BY <2>5
  <1> QED
    BY <1>2, <1>3

LEMMA FlattenTyped ==
    ASSUME NEW S, NEW seqs \in Seq(Seq(S))
    PROVE  FlattenSeq(seqs) \in Seq(S)
  <1> PICK n : n = Len(seqs)
    OBVIOUS
  <1>1. n \in Nat /\ \A i \in 1..n : seqs[i] \in Seq(S)
    BY ElementOfSeq, LenProperties
  <1>2. CASE n = 0
    <2>1. seqs = <<>>
      BY <1>2, EmptySeq
    <2> QED
      BY <1>2, <2>1 DEF FlattenSeq
  <1>3. CASE n # 0
    <2> PICK f : f = CHOOSE h : Flattens(h, seqs, n)
      OBVIOUS
    <2>1. Flattens(f, seqs, n)
      BY <1>1, FlattenExists
    <2>2. FlattenSeq(seqs) = f[n]
      BY <1>3 DEF FlattenSeq, Flattens
    <2> DEFINE T == {i \in 1..n : f[i] \notin Seq(S)}
    <2>3. T = {}
      <3> SUFFICES ASSUME T # {} PROVE FALSE
        OBVIOUS
      <3>1. T \subseteq Nat
        BY <1>1
      <3>2. PICK i \in T : \A k \in T : i <= k
        BY <3>1, LeastExists
      <3>3. f[i] = IF i = 1 THEN seqs[i] ELSE f[i - 1] \o seqs[i]
        BY <2>1 DEF Flattens
      <3>4. i # 1 => f[i - 1] \in Seq(S)
        <4> SUFFICES ASSUME i # 1 PROVE i - 1 \in 1..n /\ i - 1 \notin T
          OBVIOUS
        <4> QED
          BY <1>1, <3>1, <3>2
      <3>5. f[i] \in Seq(S)
        <4>1. seqs[i] \in Seq(S)
          BY <1>1
        <4>2. ASSUME NEW u \in Seq(S), NEW v \in Seq(S) PROVE u \o v \in Seq(S)
          BY <4>2, ConcatProperties
        <4> QED
          BY <3>3, <3>4, <4>1, <4>2, Zenon
      <3> QED
        BY <3>5
    <2>4. n \in 1..n
      BY <1>1, <1>3
    <2> QED
      BY <2>2, <2>3, <2>4
  <1> QED
    BY <1>2, <1>3

\* What putting h behind g gives.
Joined(S, g, h) ==
    /\ g \o h \in Seq(S) /\ Len(g \o h) = Len(g) + Len(h)
    /\ \A m \in 1..Len(g) : m \in 1..Len(g \o h) /\ (g \o h)[m] = g[m]
    /\ Len(g) + 1 \in 1..Len(g \o h) /\ (g \o h)[Len(g) + 1] = h[1]

LEMMA ConcatPlaces ==
    ASSUME NEW S, NEW g \in Seq(S), NEW h \in Seq(S), Len(h) > 0
    PROVE  Joined(S, g, h)
  <1>1. Len(g) \in Nat /\ Len(h) \in Nat
    BY LenProperties
  <1>2. /\ g \o h \in Seq(S) /\ Len(g \o h) = Len(g) + Len(h)
        /\ \A m \in 1..Len(g) + Len(h) :
              (g \o h)[m] = IF m <= Len(g) THEN g[m] ELSE h[m - Len(g)]
    BY ConcatProperties
  <1>3. \A m \in 1..Len(g) : m \in 1..Len(g) + Len(h) /\ (g \o h)[m] = g[m]
    BY <1>1, <1>2
  <1>4. Len(g) + 1 \in 1..Len(g) + Len(h) /\ (g \o h)[Len(g) + 1] = h[1]
    <2>1. /\ Len(g) + 1 \in 1..Len(g) + Len(h) /\ ~(Len(g) + 1 <= Len(g))
          /\ Len(g) + 1 - Len(g) = 1
      BY <1>1
    <2> QED
      BY <1>2, <2>1
  <1> QED
    BY <1>2, <1>3, <1>4 DEF Joined

\* Where the k-th sequence starts when their lengths are F.
StartOf(F, k) == SumFunctionOnSet(F, 1..(k - 1))

\* s is the first i sequences put together, of lengths F.
Placed(S, s, seqs, F, i) ==
    /\ s \in Seq(S) /\ Len(s) = StartOf(F, i + 1)
    /\ \A k \in 1..i : StartOf(F, k) + 1 \in 1..Len(s) /\ s[StartOf(F, k) + 1] = seqs[k][1]

LEMMA StartsGrow ==
    ASSUME NEW F, NEW i \in Nat \ {0}, \A k \in 1..i : F[k] \in Nat
    PROVE  StartOf(F, i) \in Nat /\ StartOf(F, i + 1) = StartOf(F, i) + F[i]
  <1>1. 1..(i + 1 - 1) = 1..i
    OBVIOUS
  <1> QED
    BY <1>1, SumUpTo DEF StartOf

LEMMA FirstPlaced ==
    ASSUME NEW S, NEW seqs, NEW F, F[1] \in Nat, F[1] > 0,
           seqs[1] \in Seq(S), Len(seqs[1]) = F[1]
    PROVE  Placed(S, seqs[1], seqs, F, 1)
  <1>1. StartOf(F, 1) = 0
    <2>1. 1..(1 - 1) = {}
      OBVIOUS
    <2> QED
      BY <2>1, SumEmpty DEF StartOf
  <1>2. StartOf(F, 1 + 1) = F[1]
    <2>1. \A k \in 1..1 : F[k] \in Nat
      OBVIOUS
    <2> QED
      BY <1>1, <2>1, StartsGrow
  <1>3. 0 + 1 \in 1..Len(seqs[1]) /\ 0 + 1 = 1 /\ 1..1 = {1}
    OBVIOUS
  <1> QED
    BY <1>1, <1>2, <1>3 DEF Placed

LEMMA NextPlaced ==
    ASSUME NEW S, NEW seqs, NEW F, NEW i \in Nat \ {0}, i # 1,
           \A k \in 1..i : F[k] \in Nat, F[i] > 0,
           seqs[i] \in Seq(S), Len(seqs[i]) = F[i],
           NEW g, Placed(S, g, seqs, F, i - 1)
    PROVE  Placed(S, g \o seqs[i], seqs, F, i)
  <1>1. /\ g \in Seq(S) /\ Len(g) = StartOf(F, i)
        /\ \A k \in 1..(i - 1) : StartOf(F, k) + 1 \in 1..Len(g) /\ g[StartOf(F, k) + 1] = seqs[k][1]
    <2>1. i - 1 + 1 = i
      OBVIOUS
    <2> QED
      BY <2>1 DEF Placed
  <1>0. PICK h : h = seqs[i]
    OBVIOUS
  <1>2. h \in Seq(S) /\ Len(h) = F[i] /\ Len(h) > 0
    BY <1>0
  <1>3. /\ g \o h \in Seq(S) /\ Len(g \o h) = Len(g) + Len(h)
        /\ \A m \in 1..Len(g) : m \in 1..Len(g \o h) /\ (g \o h)[m] = g[m]
        /\ Len(g) + 1 \in 1..Len(g \o h) /\ (g \o h)[Len(g) + 1] = h[1]
    <2>1. Joined(S, g, h)
      BY <1>1, <1>2, ConcatPlaces
    <2> QED
      BY <2>1 DEF Joined
  <1>4. Len(g \o h) = StartOf(F, i + 1)
    BY <1>1, <1>2, <1>3, StartsGrow
  <1>5. ASSUME NEW k \in 1..i
        PROVE  StartOf(F, k) + 1 \in 1..Len(g \o h) /\ (g \o h)[StartOf(F, k) + 1] = seqs[k][1]
    <2>1. CASE k = i
      BY <1>0, <1>1, <1>3, <2>1
    <2>2. CASE k # i
      <3>1. k \in 1..(i - 1)
        BY <2>2
      <3> QED
        BY <1>1, <1>3, <3>1
    <2> QED
      BY <2>1, <2>2
  <1> QED
    BY <1>0, <1>3, <1>4, <1>5 DEF Placed

\* n sequences over S that are not empty, of lengths F.
SeqsOf(S, n, seqs, F) ==
    /\ n \in Nat /\ seqs \in [1..n -> Seq(S)]
    /\ \A k \in 1..n : F[k] \in Nat /\ F[k] > 0 /\ Len(seqs[k]) = F[k]

\* The first element of a sequence comes after all elements of those before it.
LEMMA FlattenPlaces ==
    ASSUME NEW S, NEW n, NEW seqs, NEW F, SeqsOf(S, n, seqs, F), NEW k \in 1..n
    PROVE  FlattenSeq(seqs)[StartOf(F, k) + 1] = seqs[k][1]
  <1>0. /\ n \in Nat /\ seqs \in [1..n -> Seq(S)]
        /\ \A j \in 1..n : F[j] \in Nat /\ F[j] > 0 /\ Len(seqs[j]) = F[j]
    BY DEF SeqsOf
  <1>1. seqs \in Seq(Seq(S)) /\ Len(seqs) = n
    BY <1>0, FunctionIsSeq
  <1>2. n # 0 /\ n \in 1..n
    BY <1>0
  <1>3. PICK f : f = CHOOSE h : Flattens(h, seqs, n)
    OBVIOUS
  <1>4. Flattens(f, seqs, n)
    BY <1>0, <1>3, FlattenExists
  <1>5. FlattenSeq(seqs) = f[n]
    BY <1>1, <1>2, <1>3 DEF FlattenSeq, Flattens
  <1> DEFINE P(i) == Placed(S, f[i], seqs, F, i)
             T == {i \in 1..n : ~P(i)}
  <1> HIDE DEF P
  <1>6. T = {}
    <2> SUFFICES ASSUME T # {} PROVE FALSE
      OBVIOUS
    <2>1. T \subseteq Nat
      BY <1>0
    <2>2. PICK i \in T : \A j \in T : i <= j
      BY <2>1, LeastExists
    <2>3. i \in Nat \ {0} /\ i \in 1..n /\ ~P(i) /\ \A k_1 \in 1..i : k_1 \in 1..n
      BY <1>0, <2>2
    <2>4. f[i] = IF i = 1 THEN seqs[i] ELSE f[i - 1] \o seqs[i]
      BY <1>4, <2>3 DEF Flattens
    <2>5. /\ seqs[i] \in Seq(S) /\ F[i] > 0 /\ Len(seqs[i]) = F[i]
          /\ \A k_1 \in 1..i : F[k_1] \in Nat
      BY <1>0, <2>3
    <2>6. CASE i = 1
      <3>0. seqs[1] \in Seq(S) /\ Len(seqs[1]) = F[1] /\ F[1] \in Nat /\ F[1] > 0
        BY <1>0, <2>3, <2>6
      <3>1. Placed(S, seqs[1], seqs, F, 1)
        BY <3>0, FirstPlaced
      <3> QED
        BY <2>3, <2>4, <2>6, <3>1 DEF P
    <2>7. CASE i # 1
      <3>1. i - 1 \in 1..n /\ ~(i <= i - 1)
        BY <2>3, <2>7
      <3>2. P(i - 1)
        BY <2>2, <3>1
      <3>3. Placed(S, f[i - 1] \o seqs[i], seqs, F, i)
        BY <2>3, <2>5, <2>7, <3>2, NextPlaced DEF P
      <3> QED
        BY <2>3, <2>4, <2>7, <3>3 DEF P
    <2> QED
      BY <2>6, <2>7
  <1>7. P(n)
    BY <1>2, <1>6
  <1>8. FlattenSeq(seqs)[StartOf(F, k) + 1] = seqs[k][1]
    BY <1>0, <1>5, <1>7 DEF P, Placed
  <1> QED
    BY <1>8

-----------------------------------------------------------------------------
(* The inductive type invariant.                                            *)

FormSteps == {"idle", "createBroker", "createNumber", "createName", "createConfirm",
              "rename", "mutating", "error"}
Lists == {"positions", "history", "trades", "analytics"}
Kinds == Lists \cup {"init", "fresh", "create", "rename", "detail", "accounts", "import"}

\* A record with the fields of a command, and arguments and answers of the type
\* its kind calls for.
CommandOK(c) ==
    /\ c = [kind |-> c.kind, ids |-> c.ids, arg |-> c.arg, answer |-> c.answer, late |-> c.late]
    /\ c.kind \in Kinds
    /\ c.kind = "positions" => c.ids \in Seq(AccountId)
    /\ c.kind = "accounts" => c.arg \in Seq(Account)
    /\ c.kind = "create" => c.arg \in Inputs
    /\ c.kind = "rename" => c.arg.name \in Names
    /\ c.kind \in {"init", "fresh"} /\ c.answer # None /\ c.answer.ok
          => c.answer.value \in Seq(Account)

CommandsOK ==
    /\ issued \in 0..MaxCommands
    /\ net = [n \in DOMAIN net |-> net[n]] /\ DOMAIN net \subseteq 0..issued
    /\ \A n \in DOMAIN net : CommandOK(net[n])

ScreenOK ==
    /\ screen \in [loading: BOOLEAN, err: BOOLEAN, shown: {screen.shown},
                   for: {All} \cup AccountId, chains: {screen.chains},
                   fetching: {screen.fetching}, expanded: SUBSET DOMAIN screen.shown]
    /\ activeView # "trades" => screen.expanded = {}
    /\ activeView = "positions" => screen.shown \in Seq(Position)

FormTyped(f) ==
    /\ f \in [step: FormSteps, loading: BOOLEAN, rows: Seq(Account), cursor: Nat,
              input: Inputs \cup {None}, picked: {f.picked}]
    /\ f.cursor = 0 \/ f.cursor + 1 \in DOMAIN f.rows
    /\ f.step = "createConfirm" => f.input \in Inputs
FormOK == FormTyped(form)

ImportOK ==
    import \in [step: {"idle", "filePicker", "confirm", "running", "done"},
                account: {import.account}, broker: {import.broker},
                blocked: BOOLEAN, result: {import.result}]

SelectionOK ==
    /\ phase \in {"connecting", "ready", "failed", "quit", "crashed"}
    /\ activeView \in View
    /\ selected \in {All} \cup AccountId
    /\ accounts \in Seq(Account)
    /\ filter \in [symbol: Symbols, open: BOOLEAN]

TypeInv ==
    /\ SelectionOK /\ ScreenOK /\ FormOK /\ ImportOK /\ CommandsOK
    /\ db \in Seq(Account) /\ Len(db) <= Len(AccountIds)

LEMMA TypeInvTypes == TypeInv => TypeOK
  BY ElementOfSeq, LenProperties
     DEF TypeInv, TypeOK, SelectionOK, ScreenOK, FormOK, FormTyped, ImportOK, CommandsOK, FormSteps,
         AccountId, ToSet

-----------------------------------------------------------------------------
(* The inductive invariants of the properties.                              *)

\* Before the first answer there is nothing to select, and the only answer an
\* accounts view could wait for is that one, which is command 0.
StartInv ==
    /\ ZeroViews => /\ selected = All /\ accounts = <<>>
                    /\ import.step = "idle" /\ form.step = "idle"
                    /\ Outstanding({"create", "rename", "fresh", "import"}) = {}
    /\ \A n \in Outstanding({"init"}) : n = 0 /\ phase = "connecting"

\* Exactly one command of these kinds is out when waiting, none otherwise.
Awaits(kinds, waiting) ==
    IF waiting THEN \E n \in DOMAIN net : Outstanding(kinds) = {n} ELSE Outstanding(kinds) = {}

FormsInv ==
    /\ StartInv
    /\ Awaits({"import"}, import.step = "running")
    /\ Awaits({"create", "rename"}, form.step = "mutating")
    /\ import.step = "running" => activeView = "import"
    /\ form.step = "mutating" => activeView = "accounts"

\* The account a rename was started on is the one under the cursor.
RenameInv ==
    /\ form.step = "rename" /\ form.picked # None =>
          \E a \in selectedAccount : a.id = form.picked
    /\ RenameHitsPicked

LoadedInv == screen.for = selected

KeysInv == FormsInv /\ RenameInv /\ LoadedInv

-----------------------------------------------------------------------------
(* What is out after commands were run or answered.                         *)

\* Commands c that number at most issued.
OutOK(c) ==
    /\ c = [n \in DOMAIN c |-> c[n]] /\ DOMAIN c \subseteq 0..issued
    /\ \A n \in DOMAIN c : CommandOK(c[n])

Of(c, kinds) == {n \in DOMAIN c : c[n].kind \in kinds}

LEMMA RunOnRuns ==
    ASSUME CommandsOK, NEW c, OutOK(c), NEW cmds, Len(cmds) \in Nat,
           \A k \in 1..Len(cmds) : CommandOK(cmds[k]), RunOn(c, cmds)
    PROVE  /\ CommandsOK'
           /\ DOMAIN net' = DOMAIN c \cup (issued + 1)..(issued + Len(cmds))
           /\ \A n \in DOMAIN c : net'[n] = c[n]
           /\ \A k \in 1..Len(cmds) : net'[issued + k] = cmds[k]
  <1> PICK m : m = Len(cmds)
    OBVIOUS
  <1>1. /\ issued \in Nat /\ m \in Nat /\ issued + m <= MaxCommands /\ issued' = issued + m
        /\ net' = [n \in DOMAIN c \cup (issued + 1)..(issued + m) |->
                     IF n > issued THEN cmds[n - issued] ELSE c[n]]
    BY BoundAssumption DEF RunOn, CommandsOK
  <1>2. \A n \in DOMAIN c : n \in 0..issued /\ net'[n] = c[n] /\ CommandOK(net'[n])
    BY <1>1 DEF OutOK
  <1>3. \A k \in 1..m : net'[issued + k] = cmds[k]
    BY <1>1
  <1>4. \A n \in (issued + 1)..(issued + m) : CommandOK(net'[n])
    <2> SUFFICES ASSUME NEW n \in (issued + 1)..(issued + m) PROVE CommandOK(net'[n])
      OBVIOUS
    <2>1. n - issued \in 1..m /\ net'[n] = cmds[n - issued]
      BY <1>1
    <2> QED
      BY <2>1
  <1>5. issued' \in 0..MaxCommands /\ DOMAIN net' \subseteq 0..issued'
    BY <1>1, <1>2, BoundAssumption
  <1>6. net' = [n \in DOMAIN net' |-> net'[n]]
    BY <1>1
  <1> QED
    BY <1>1, <1>2, <1>3, <1>4, <1>5, <1>6 DEF CommandsOK

\* Commands of other kinds do not change what is out of these.
LEMMA RunOnKeeps ==
    ASSUME CommandsOK, NEW c, OutOK(c), NEW cmds, Len(cmds) \in Nat,
           \A k \in 1..Len(cmds) : CommandOK(cmds[k]), RunOn(c, cmds),
           NEW kinds, \A k \in 1..Len(cmds) : cmds[k].kind \notin kinds
    PROVE  Outstanding(kinds)' = Of(c, kinds)
  <1>0. /\ DOMAIN net' = DOMAIN c \cup (issued + 1)..(issued + Len(cmds))
        /\ \A n \in DOMAIN c : net'[n] = c[n]
        /\ \A k \in 1..Len(cmds) : net'[issued + k] = cmds[k]
    BY RunOnRuns, Zenon
  <1>1. issued \in Nat
    BY DEF CommandsOK
  <1>2. ASSUME NEW n \in (issued + 1)..(issued + Len(cmds)) PROVE net'[n].kind \notin kinds
    <2>1. n - issued \in 1..Len(cmds) /\ issued + (n - issued) = n
      BY <1>1
    <2> QED
      BY <1>0, <2>1
  <1> QED
    BY <1>0, <1>2 DEF Outstanding, Of

\* One command, as most keys run.
LEMMA RunOneRuns ==
    ASSUME CommandsOK, NEW cmd, CommandOK(cmd), Run(<<cmd>>)
    PROVE  /\ CommandsOK' /\ issued \in Nat
           /\ DOMAIN net' = DOMAIN net \cup {issued + 1} /\ issued + 1 \notin DOMAIN net
           /\ \A n \in DOMAIN net : net'[n] = net[n]
           /\ net'[issued + 1] = cmd
  <1>1. OutOK(net) /\ issued \in Nat
    BY DEF CommandsOK, OutOK
  <1>2. Len(<<cmd>>) = 1 /\ <<cmd>>[1] = cmd
    OBVIOUS
  <1> PICK cmds : cmds = <<cmd>>
    OBVIOUS
  <1>4. Len(cmds) = 1 /\ 1 \in 1..1 /\ cmds[1] = cmd
    BY <1>2
  <1>5. Len(cmds) \in Nat /\ (\A k \in 1..Len(cmds) : CommandOK(cmds[k])) /\ RunOn(net, cmds)
    BY <1>4 DEF Run
  <1>6. /\ CommandsOK'
        /\ DOMAIN net' = DOMAIN net \cup (issued + 1)..(issued + Len(cmds))
        /\ \A n \in DOMAIN net : net'[n] = net[n]
        /\ \A k \in 1..Len(cmds) : net'[issued + k] = cmds[k]
    BY <1>1, <1>5, RunOnRuns, Zenon
  <1>3. /\ CommandsOK'
        /\ DOMAIN net' = DOMAIN net \cup (issued + 1)..(issued + 1)
        /\ \A n \in DOMAIN net : net'[n] = net[n]
        /\ net'[issued + 1] = cmd
    BY <1>4, <1>6
  <1> QED
    BY <1>1, <1>3 DEF OutOK

\* Of the commands outstanding, marked or without one.
LEMMA MarkLateKeeps ==
    ASSUME NEW c, OutOK(c)
    PROVE  /\ OutOK(MarkLate(c)) /\ DOMAIN MarkLate(c) = DOMAIN c
           /\ \A n \in DOMAIN c : /\ MarkLate(c)[n].kind = c[n].kind
                                  /\ MarkLate(c)[n].arg = c[n].arg
           /\ \A kinds : Of(MarkLate(c), kinds) = Of(c, kinds)
  <1>1. DOMAIN MarkLate(c) = DOMAIN c /\ MarkLate(c) = [n \in DOMAIN c |-> MarkLate(c)[n]]
    BY DEF MarkLate
  <1>2. ASSUME NEW n \in DOMAIN c
        PROVE  CommandOK(MarkLate(c)[n]) /\ MarkLate(c)[n].kind = c[n].kind
               /\ MarkLate(c)[n].arg = c[n].arg
    <2>1. PICK cmd : cmd = c[n]
      OBVIOUS
    <2>2. CommandOK(cmd)
      BY <2>1 DEF OutOK
    <2>3. MarkLate(c)[n] = [cmd EXCEPT !.late = cmd.late \/ cmd.kind = "detail"]
      BY <2>1 DEF MarkLate
    <2>4. MarkLate(c)[n] = [kind |-> cmd.kind, ids |-> cmd.ids, arg |-> cmd.arg,
                            answer |-> cmd.answer, late |-> cmd.late \/ cmd.kind = "detail"]
      BY <2>2, <2>3 DEF CommandOK
    <2> QED
      BY <2>1, <2>2, <2>4 DEF CommandOK
  <1> QED
    BY <1>1, <1>2 DEF OutOK, Of

LEMMA WithoutKeeps ==
    ASSUME CommandsOK, NEW m
    PROVE  /\ OutOK(net) /\ OutOK(Without(m)) /\ DOMAIN Without(m) = DOMAIN net \ {m}
           /\ \A n \in DOMAIN Without(m) : Without(m)[n] = net[n]
           /\ \A kinds : Of(Without(m), kinds) = Outstanding(kinds) \ {m}
           /\ \A kinds : Of(net, kinds) = Outstanding(kinds)
  BY DEF CommandsOK, OutOK, Without, Of, Outstanding

LEMMA AnsweredKeeps ==
    ASSUME CommandsOK, NEW c, OutOK(c), net' = c, issued' = issued
    PROVE  CommandsOK' /\ \A kinds : Outstanding(kinds)' = Of(c, kinds)
  BY DEF CommandsOK, OutOK, Of, Outstanding

-----------------------------------------------------------------------------
(* What the server answers to a load of positions.                          *)

LEMMA AccountsHaveBooks == AccountId \subseteq DOMAIN Books
  BY AccountsAssumption, ElementOfSeq DEF AccountId, ToSet

LEMMA PositionsWithTyped ==
    ASSUME NEW a \in DOMAIN Books, NEW open
    PROVE  PositionsWith(a, open) \in Seq(ToSet(Books[a].positions))
  <1> PICK all : all = Books[a].positions
    OBVIOUS
  <1>1. all \in Seq(ToSet(all))
    BY BooksAssumption
  <1> PICK S : S = {k \in DOMAIN all : all[k].open = open}
    OBVIOUS
  <1>2. DOMAIN all = 1..Len(all) /\ Len(all) \in Nat /\ \A k \in DOMAIN all : all[k] \in ToSet(all)
    BY <1>1, LenProperties DEF ToSet
  <1>3. IsFiniteSet(S) /\ S \subseteq Nat
    <2>1. IsFiniteSet(1..Len(all)) /\ S \subseteq 1..Len(all)
      BY <1>2, FS_Interval
    <2> QED
      BY <1>2, <2>1, FS_Subset
  <1> PICK rows, n : rows = InOrder(S) /\ n = Cardinality(S)
    OBVIOUS
  <1>4. n \in Nat /\ rows \in [1..n -> S]
    BY <1>3, InOrderLists
  <1>5. PositionsWith(a, open) = [k \in 1..n |-> all[rows[k]]]
    BY <1>4 DEF PositionsWith
  <1>6. [k \in 1..n |-> all[rows[k]]] \in Seq(ToSet(all))
    <2>1. \A k \in 1..n : all[rows[k]] \in ToSet(all)
      BY <1>2, <1>4
    <2>2. [k \in 1..n |-> all[rows[k]]] \in [1..n -> ToSet(all)]
      BY <2>1
    <2> QED
      BY <1>4, <2>2, FunctionIsSeq
  <1> QED
    BY <1>5, <1>6

LEMMA PositionsAnswerTyped ==
    ASSUME NEW ids \in Seq(AccountId), NEW failing, PositionsAnswer(ids, failing).ok
    PROVE  PositionsAnswer(ids, failing).value \in Seq(Position)
  <1> PICK answers : answers = [a \in ToSet(ids) |-> ListPositions(a, "OPEN")]
    OBVIOUS
  <1> DEFINE lists == [k \in DOMAIN ids |-> IF ids[k] \in failing THEN <<>>
                                            ELSE answers[ids[k]].value]
  <1>1. DOMAIN ids = 1..Len(ids) /\ Len(ids) \in Nat
    BY LenProperties
  <1>2. ASSUME NEW k \in DOMAIN ids PROVE lists[k] \in Seq(Position)
    <2> PICK a : a = ids[k]
      OBVIOUS
    <2>1. a \in AccountId /\ a \in DOMAIN Books /\ a \in ToSet(ids)
      BY <1>1, ElementOfSeq, AccountsHaveBooks DEF ToSet
    <2>2. answers[a].value = PositionsWith(a, TRUE)
      BY <2>1, BooksAssumption DEF ListPositions, Ok
    <2>3. ToSet(Books[a].positions) \subseteq Position
      BY <2>1 DEF Position
    <2>4. PositionsWith(a, TRUE) \in Seq(Position)
      BY <2>1, <2>3, PositionsWithTyped, SeqMonotonic
    <2> QED
      BY <2>2, <2>4, EmptySeq
  <1> HIDE DEF lists
  <1>3. lists \in Seq(Seq(Position))
    <2>1. lists = [k \in 1..Len(ids) |-> lists[k]]
      BY <1>1 DEF lists
    <2>2. [k \in 1..Len(ids) |-> lists[k]] \in Seq(Seq(Position))
      BY <1>1, <1>2, IsASeq
    <2> QED
      BY <2>1, <2>2
  <1>4. FlattenSeq(lists) \in Seq(Position)
    BY <1>3, FlattenTyped
  <1>5. PositionsAnswer(ids, failing) = IF FlattenSeq(lists) = <<>> /\ failing \cap ToSet(ids) # {}
                                        THEN Error("load") ELSE Ok(FlattenSeq(lists))
    BY DEF PositionsAnswer, LoadEach, lists
  <1> QED
    BY <1>4, <1>5 DEF Error, Ok

LEMMA AccountIDsTyped ==
    ASSUME NEW state, state.selected \in {All} \cup AccountId, state.accounts \in Seq(Account)
    PROVE  accountIDs(state) \in Seq(AccountId)
  <1>1. CASE state.selected # All
    <2>1. state.selected \in AccountId
      BY <1>1
    <2> QED
      BY <1>1, <2>1 DEF accountIDs
  <1>2. CASE state.selected = All
    <2> PICK n : n = Len(state.accounts)
      OBVIOUS
    <2>1. n \in Nat /\ DOMAIN state.accounts = 1..n
      BY LenProperties
    <2>2. \A k \in 1..n : state.accounts[k] \in Account
      BY ElementOfSeq
    <2>3. \A k \in 1..n : state.accounts[k].id \in AccountId
      BY <2>2 DEF Account, AccountId
    <2>4. [k \in 1..n |-> state.accounts[k].id] \in Seq(AccountId)
      BY <2>1, <2>3, IsASeq
    <2> QED
      BY <1>2, <2>1, <2>4 DEF accountIDs
  <1> QED
    BY <1>1, <1>2

-----------------------------------------------------------------------------
(* Loads.                                                                   *)

Loads == Lists \cup {"accounts"}

LEMMA LoadCommandsOK ==
    ASSUME NEW view \in View, NEW state, state.selected \in {All} \cup AccountId,
           state.accounts \in Seq(Account), NEW cmds, cmds = LoadCommands(view, state)
    PROVE  /\ Len(cmds) \in Nat
           /\ \A k \in 1..Len(cmds) : CommandOK(cmds[k]) /\ cmds[k].kind \in Loads
  <1>1. CASE view = "import"
    BY <1>1 DEF LoadCommands
  <1>2. CASE view # "import"
    <2>1. \E cmd : cmds = <<cmd>> /\ CommandOK(cmd) /\ cmd.kind \in Loads
      BY <1>2, AccountIDsTyped
         DEF View, LoadCommands, AccountsLoad, PositionsLoad, HistoryLoad, TradesLoad,
         AnalyticsLoad, LoadCommand, Command, CommandOK, Kinds, Lists, Loads
    <2> QED
      BY <2>1
  <1> QED
    BY <1>1, <1>2

LEMMA LoadViewLoads ==
    ASSUME CommandsOK, NEW view \in View, NEW c, OutOK(c), NEW f, FormTyped(f),
           NEW state, state.selected \in {All} \cup AccountId, state.accounts \in Seq(Account),
           loadView(view, state, f, c)
    PROVE  /\ CommandsOK' /\ FormOK' /\ ScreenOK' /\ screen'.for = state.selected
           /\ form' = f \/ (view = "accounts" /\ form'.step = "idle")
           /\ \A kinds : kinds \cap Loads = {} => Outstanding(kinds)' = Of(c, kinds)
           /\ \A n \in Outstanding({"rename"})' : n \in DOMAIN c /\ net'[n].arg = c[n].arg
  <1> PICK cmds : cmds = LoadCommands(view, state)
    OBVIOUS
  <1>1. /\ Len(cmds) \in Nat
        /\ \A k \in 1..Len(cmds) : CommandOK(cmds[k]) /\ cmds[k].kind \in Loads
    BY LoadCommandsOK
  <1> PICK d : d = IF view = "positions" THEN MarkLate(c) ELSE c
    OBVIOUS
  <1>2. /\ OutOK(d) /\ DOMAIN d = DOMAIN c
        /\ \A n \in DOMAIN c : d[n].kind = c[n].kind /\ d[n].arg = c[n].arg
        /\ \A kinds : Of(d, kinds) = Of(c, kinds)
    BY MarkLateKeeps
  <1>3. RunOn(d, cmds)
    BY DEF loadView
  <1>4. CommandsOK' /\ \A n \in DOMAIN d : net'[n] = d[n]
    BY <1>1, <1>2, <1>3, RunOnRuns, Zenon
  <1>5. ASSUME NEW kinds, kinds \cap Loads = {}
        PROVE  Outstanding(kinds)' = Of(c, kinds)
    <2>1. \A k \in 1..Len(cmds) : cmds[k].kind \notin kinds
      BY <1>1, <1>5
    <2>2. Outstanding(kinds)' = Of(d, kinds)
      BY <1>1, <1>2, <1>3, <2>1, RunOnKeeps, Zenon
    <2> QED
      BY <1>2, <2>2
  <1>6. \A n \in Outstanding({"rename"})' : n \in DOMAIN c /\ net'[n].arg = c[n].arg
    <2>1. {"rename"} \cap Loads = {}
      BY DEF Loads, Lists
    <2> QED
      BY <1>2, <1>4, <1>5, <2>1 DEF Of
  <1>7. screen' = Loading(state.selected) /\ ScreenOK' /\ screen'.for = state.selected
    BY DEF loadView, Loading, ScreenOK
  <1>8. /\ FormTyped(form')
        /\ form' = f \/ (view = "accounts" /\ form'.step = "idle")
    <2>1. CASE view = "accounts"
      <3>1. form' = AccountsReload(f)
        BY <2>1 DEF loadView
      <3> QED
        BY <2>1, <3>1 DEF AccountsReload, FormTyped, FormSteps
    <2> QED
      BY <2>1 DEF loadView
  <1> QED
    BY <1>4, <1>5, <1>6, <1>7, <1>8 DEF FormOK

-----------------------------------------------------------------------------
(* The account beside the selected one.                                     *)

LEMMA PlaceExists ==
    ASSUME accounts \in Seq(Account), NEW id, PlaceOf(id) # {}
    PROVE  Min(PlaceOf(id)) \in 1..Len(accounts)
  <1>1. DOMAIN accounts = 1..Len(accounts)
    OBVIOUS
  <1>2. PlaceOf(id) \subseteq 1..Len(accounts) /\ PlaceOf(id) \subseteq Nat
    BY <1>1 DEF PlaceOf
  <1> QED
    BY <1>2, LeastExists

LEMMA NeighbourTyped ==
    ASSUME SelectionOK
    PROVE  nextAccount \in {All} \cup AccountId /\ prevAccount \in {All} \cup AccountId
  <1> PICK n : n = Len(accounts)
    OBVIOUS
  <1>1. n \in Nat /\ \A k \in 1..n : accounts[k].id \in AccountId
    <2>1. n \in Nat
      BY LenProperties DEF SelectionOK
    <2>2. \A k \in 1..n : accounts[k] \in Account
      BY ElementOfSeq DEF SelectionOK
    <2> QED
      BY <2>1, <2>2 DEF Account, AccountId
  <1>2. accounts # <<>> => n # 0
    BY EmptySeq DEF SelectionOK
  <1>3. ASSUME n # 0, NEW m \in Int PROVE (m % n) + 1 \in 1..n
    BY <1>1, <1>3
  <1>4. ASSUME PlaceOf(selected) # {} PROVE Min(PlaceOf(selected)) \in Int
    BY <1>4, PlaceExists DEF SelectionOK
  <1>5. nextAccount \in {All} \cup AccountId
    <2> PICK k : k = (Min(PlaceOf(selected)) % n) + 1
      OBVIOUS
    <2>1. n # 0 /\ PlaceOf(selected) # {} => k \in 1..n
      BY <1>3, <1>4
    <2>2. n # 0 => 1 \in 1..n
      BY <1>1
    <2>3. selected \in {All} \cup AccountId
      BY DEF SelectionOK
    <2> QED
      BY <1>1, <1>2, <2>1, <2>2, <2>3, Zenon DEF nextAccount
  <1>6. prevAccount \in {All} \cup AccountId
    <2> PICK k : k = ((Min(PlaceOf(selected)) - 2 + n) % n) + 1
      OBVIOUS
    <2>1. n # 0 /\ PlaceOf(selected) # {} => k \in 1..n
      <3> SUFFICES ASSUME n # 0, PlaceOf(selected) # {} PROVE k \in 1..n
        OBVIOUS
      <3>1. Min(PlaceOf(selected)) - 2 + n \in Int
        BY <1>1, <1>4
      <3> QED
        BY <1>3, <3>1
    <2>2. n # 0 => n \in 1..n
      BY <1>1
    <2>3. selected \in {All} \cup AccountId
      BY DEF SelectionOK
    <2> QED
      BY <1>1, <1>2, <2>1, <2>2, <2>3, Zenon DEF prevAccount, Last
  <1> QED
    BY <1>5, <1>6

-----------------------------------------------------------------------------
(* Each step keeps the types.                                               *)

LEMMA InitTypes == Init => TypeInv
  <1> SUFFICES ASSUME Init PROVE TypeInv
    OBVIOUS
  <1>1. SelectionOK /\ ImportOK
    BY TypedAssumption, EmptySeq
       DEF Init, SelectionOK, ImportOK, View, NoFilter, NewImportView
  <1>2. ScreenOK /\ FormOK
    BY EmptySeq DEF Init, ScreenOK, Loading, FormOK, FormTyped, FormSteps, NewAccountsView
  <1>3. CommandsOK
    <2>1. net = [n \in {0} |-> Command("init", <<>>, None)] /\ issued = 0
      BY DEF Init
    <2>2. CommandOK(Command("init", <<>>, None))
      BY DEF Command, CommandOK, Kinds
    <2> QED
      BY <2>1, <2>2, BoundAssumption DEF CommandsOK
  <1> QED
    BY <1>1, <1>2, <1>3, AccountsAssumption DEF Init, TypeInv

LEMMA SwitchTypes ==
    ASSUME TypeInv, switchView
    PROVE  TypeInv'
  <1>1. OutOK(net)
    BY WithoutKeeps DEF TypeInv
  <1>2. PICK view \in View : activeView' = view /\ loadView(view, State, form, net)
    BY DEF switchView
  <1>3. State.selected \in {All} \cup AccountId /\ State.accounts \in Seq(Account)
    BY DEF State, TypeInv, SelectionOK
  <1>4. CommandsOK' /\ FormOK' /\ ScreenOK'
    BY <1>1, <1>2, <1>3, LoadViewLoads DEF TypeInv, FormOK
  <1> QED
    BY <1>2, <1>4 DEF TypeInv, switchView, SelectionOK, ImportOK

LEMMA ChangeAccountTypes ==
    ASSUME TypeInv, ChangeAccount
    PROVE  TypeInv'
  <1>1. OutOK(net)
    BY WithoutKeeps DEF TypeInv
  <1>2. PICK account \in {nextAccount, prevAccount} :
          /\ selected' = account
          /\ loadView(activeView, [State EXCEPT !.selected = account], form, net)
    BY DEF ChangeAccount
  <1>3. account \in {All} \cup AccountId
    BY NeighbourTyped DEF TypeInv
  <1> PICK state : state = [State EXCEPT !.selected = account]
    OBVIOUS
  <1>4. state.selected = account /\ state.accounts \in Seq(Account)
    BY DEF State, TypeInv, SelectionOK
  <1>5. CommandsOK' /\ FormOK' /\ ScreenOK'
    BY <1>1, <1>2, <1>3, <1>4, LoadViewLoads DEF TypeInv, FormOK, SelectionOK
  <1> QED
    BY <1>2, <1>3, <1>5 DEF TypeInv, ChangeAccount, SelectionOK, ImportOK

LEMMA WindowTypes ==
    ASSUME TypeInv, WindowSize
    PROVE  TypeInv'
  <1>1. FormOK'
    BY DEF TypeInv, WindowSize, AccountsResize, FormOK, FormTyped
  <1> QED
    BY <1>1 DEF TypeInv, WindowSize, RunNone, SelectionOK, ScreenOK, ImportOK, CommandsOK

LEMMA EndedTypes ==
    ASSUME TypeInv, NEW how \in {"quit", "crashed"}, Ended(how)
    PROVE  TypeInv'
  <1>1. SelectionOK' /\ ImportOK'
    BY TypedAssumption, EmptySeq
       DEF Ended, SelectionOK, ImportOK, View, NoFilter, NewImportView
  <1>2. ScreenOK' /\ FormOK'
    BY EmptySeq DEF Ended, ScreenOK, Loading, FormOK, FormTyped, FormSteps, NewAccountsView
  <1>3. CommandsOK'
    BY DEF Ended, TypeInv, CommandsOK
  <1> QED
    BY <1>1, <1>2, <1>3 DEF Ended, TypeInv

\* Of the positions shown, any are finitely many.
LEMMA ShownFinite ==
    ASSUME ScreenOK, activeView = "positions", NEW S, S \subseteq DOMAIN screen.shown
    PROVE  IsFiniteSet(S) /\ S \subseteq Nat
  <1>1. DOMAIN screen.shown = 1..Len(screen.shown) /\ Len(screen.shown) \in Nat
    BY LenProperties DEF ScreenOK
  <1>2. IsFiniteSet(1..Len(screen.shown))
    BY <1>1, FS_Interval
  <1> QED
    BY <1>1, <1>2, FS_Subset

LEMMA PositionsKeyTypes ==
    ASSUME TypeInv, PositionsKey
    PROVE  TypeInv'
  <1>1. SelectionOK' /\ FormOK' /\ ImportOK' /\ db' = db
    BY DEF TypeInv, PositionsKey, SelectionOK, FormOK, ImportOK
  <1>2. ASSUME NEW chains, NEW fetching,
               screen' = [screen EXCEPT !.chains = chains, !.fetching = fetching]
        PROVE  ScreenOK'
    BY <1>2 DEF TypeInv, PositionsKey, ScreenOK
  <1>3. ASSUME RunNone PROVE CommandsOK'
    BY <1>3 DEF TypeInv, RunNone, CommandsOK
  <1>4. \A idx : CommandOK(FetchDetail(idx))
    BY DEF FetchDetail, Command, CommandOK, Kinds
  <1>5. CASE PositionsEnter
    <2>1. PICK idx : IF idx \in DOMAIN screen.chains \cup screen.fetching
                     THEN screen' = WithoutDetail(idx) /\ RunNone
                     ELSE /\ screen' = [screen EXCEPT !.fetching = screen.fetching \cup {idx}]
                          /\ Run(<<FetchDetail(idx)>>)
      BY <1>5 DEF PositionsEnter
    <2>2. CASE screen' = WithoutDetail(idx) /\ RunNone
      BY <1>1, <1>2, <1>3, <2>2 DEF WithoutDetail, TypeInv
    <2>3. CASE /\ screen' = [screen EXCEPT !.fetching = screen.fetching \cup {idx}]
               /\ Run(<<FetchDetail(idx)>>)
      <3>1. CommandsOK'
        BY <1>4, <2>3, RunOneRuns DEF TypeInv
      <3>2. ScreenOK'
        BY <2>3 DEF TypeInv, PositionsKey, ScreenOK
      <3> QED
        BY <1>1, <3>1, <3>2 DEF TypeInv
    <2> QED
      BY <2>1, <2>2, <2>3
  <1>6. CASE PositionsExpandAll
    <2> PICK todo : todo = {idx \in DOMAIN screen.shown :
                              Expandable(idx) /\ idx \notin DOMAIN screen.chains \cup screen.fetching}
      OBVIOUS
    <2> PICK n, order, cmds : /\ n = Cardinality(todo) /\ order = InOrder(todo)
                              /\ cmds = [k \in DOMAIN order |-> FetchDetail(order[k])]
      OBVIOUS
    <2>1. screen' = [screen EXCEPT !.fetching = screen.fetching \cup todo] /\ Run(cmds)
      BY <1>6 DEF PositionsExpandAll
    <2>2. n \in Nat /\ order \in [1..n -> todo]
      BY ShownFinite, InOrderLists DEF TypeInv, PositionsKey
    <2>3. Len(cmds) = n /\ \A k \in 1..Len(cmds) : CommandOK(cmds[k])
      <3>1. cmds = [k \in 1..n |-> FetchDetail(order[k])]
        BY <2>2
      <3>2. Len(cmds) = n
        BY <2>2, <3>1
      <3> QED
        BY <1>4, <3>1, <3>2
    <2>4. CommandsOK'
      BY <2>1, <2>2, <2>3, WithoutKeeps, RunOnRuns, Zenon DEF TypeInv, Run
    <2>5. ScreenOK'
      BY <2>1 DEF TypeInv, PositionsKey, ScreenOK
    <2> QED
      BY <1>1, <2>4, <2>5 DEF TypeInv
  <1>7. CASE PositionsEsc
    BY <1>1, <1>2, <1>3, <1>7 DEF PositionsEsc, TypeInv
  <1> QED
    BY <1>5, <1>6, <1>7 DEF PositionsKey

LEMMA TradesKeyTypes ==
    ASSUME TypeInv, TradesKey
    PROVE  TypeInv'
  <1>1. FormOK' /\ ImportOK' /\ db' = db /\ activeView = "trades" /\ activeView' = "trades"
    BY DEF TypeInv, TradesKey, FormOK, ImportOK
  <1>2. ASSUME NEW expanded \in SUBSET DOMAIN screen.shown,
               screen' = [screen EXCEPT !.expanded = expanded]
        PROVE  ScreenOK'
    BY <1>1, <1>2 DEF TypeInv, ScreenOK
  <1>3. ASSUME RunNone PROVE CommandsOK'
    BY <1>3 DEF TypeInv, RunNone, CommandsOK
  <1>4. ASSUME filter' \in [symbol: Symbols, open: BOOLEAN] PROVE SelectionOK'
    BY <1>4 DEF TypeInv, TradesKey, SelectionOK
  <1>5. filter \in [symbol: Symbols, open: BOOLEAN] /\ ScreenOK
        /\ screen.expanded \subseteq DOMAIN screen.shown
    BY DEF TypeInv, SelectionOK, ScreenOK
  <1>6. CASE TradesEnter
    <2>1. PICK k \in DOMAIN screen.shown :
             screen' = [screen EXCEPT !.expanded = IF k \in screen.expanded
                                                   THEN screen.expanded \ {k}
                                                   ELSE screen.expanded \cup {k}]
      BY <1>6 DEF TradesEnter, tradeIdxAtCursor
    <2>2. ScreenOK'
      BY <1>2, <1>5, <2>1
    <2> QED
      BY <1>1, <1>3, <1>4, <1>5, <1>6, <2>2 DEF TradesEnter, TypeInv
  <1>7. CASE TradesExpandAll \/ TradesEsc
    BY <1>1, <1>2, <1>3, <1>4, <1>5, <1>7 DEF TradesExpandAll, TradesEsc, TypeInv
  <1>8. CASE OpenFilter \/ CancelFilter
    <2>1. ScreenOK' /\ SelectionOK' /\ CommandsOK'
      BY <1>1, <1>3, <1>4, <1>5, <1>8 DEF OpenFilter, CancelFilter, ScreenOK
    <2> QED
      BY <1>1, <2>1 DEF TypeInv
  <1>9. CASE ApplyFilter
    <2>1. PICK symbol \in Symbols :
             /\ filter' = [symbol |-> symbol, open |-> FALSE]
             /\ screen' = [screen EXCEPT !.loading = TRUE, !.for = selected]
             /\ Run(<<Command("trades", accountIDs(State), symbol)>>)
      BY <1>9 DEF ApplyFilter
    <2>2. CommandOK(Command("trades", accountIDs(State), symbol))
      BY DEF Command, CommandOK, Kinds, Lists
    <2>3. CommandsOK'
      BY <2>1, <2>2, RunOneRuns DEF TypeInv
    <2>4. ScreenOK'
      BY <1>1, <2>1 DEF TypeInv, SelectionOK, ScreenOK
    <2>5. SelectionOK'
      BY <1>4, <2>1
    <2> QED
      BY <1>1, <2>3, <2>4, <2>5 DEF TypeInv
  <1> QED
    BY <1>6, <1>7, <1>8, <1>9 DEF TradesKey

LEMMA AccountsKeyTypes ==
    ASSUME TypeInv, AccountsKey
    PROVE  TypeInv'
  <1>1. SelectionOK' /\ ScreenOK' /\ ImportOK' /\ db' = db
    BY DEF TypeInv, AccountsKey, SelectionOK, ScreenOK, ImportOK
  <1> SUFFICES FormOK' /\ CommandsOK'
    BY <1>1 DEF TypeInv
  <1>2. FormTyped(form) /\ CommandsOK
    BY DEF TypeInv, FormOK
  <1>3. ASSUME NEW step \in FormSteps \ {"createConfirm"}, form' = [form EXCEPT !.step = step]
        PROVE  FormOK'
    BY <1>2, <1>3 DEF FormOK, FormTyped
  <1>4. ASSUME NEW step \in FormSteps \ {"createConfirm"}, NEW picked,
               form' = [form EXCEPT !.step = step, !.picked = picked]
        PROVE  FormOK'
    BY <1>2, <1>4 DEF FormOK, FormTyped
  <1>5. ASSUME RunNone PROVE CommandsOK'
    BY <1>2, <1>5 DEF RunNone, CommandsOK
  <1>6. ASSUME NEW step \in FormSteps \ {"createConfirm"}, Goto(step)
        PROVE  FormOK' /\ CommandsOK'
    BY <1>3, <1>5, <1>6 DEF Goto
  <1>7. CASE IdleKey
    <2>1. CASE Goto("createBroker")
      BY <1>6, <2>1 DEF FormSteps
    <2>2. CASE \E a \in selectedAccount :
                 form' = [form EXCEPT !.step = "rename", !.picked = a.id] /\ RunNone
      BY <1>4, <1>5, <2>2 DEF FormSteps
    <2>3. CASE \E k \in DOMAIN form.rows : form' = [form EXCEPT !.cursor = k - 1] /\ RunNone
      <3>1. PICK k \in DOMAIN form.rows : form' = [form EXCEPT !.cursor = k - 1]
        BY <2>3
      <3>2. k \in Nat \ {0}
        BY <1>2, LenProperties DEF FormTyped
      <3>3. FormOK'
        BY <1>2, <3>1, <3>2 DEF FormOK, FormTyped
      <3> QED
        BY <1>5, <2>3, <3>3
    <2> QED
      BY <1>7, <2>1, <2>2, <2>3 DEF IdleKey
  <1>8. CASE CreateKey
    <2>1. CASE \E in \in Inputs : /\ form' = [form EXCEPT !.step = "createConfirm", !.input = in]
                                  /\ RunNone
      <3>1. FormOK'
        BY <1>2, <2>1 DEF FormOK, FormTyped, FormSteps
      <3> QED
        BY <1>5, <2>1, <3>1
    <2> QED
      BY <1>6, <1>8, <2>1 DEF CreateKey, FormSteps
  <1>9. CASE ConfirmKey
    <2>1. CASE /\ form' = [form EXCEPT !.step = "mutating"]
               /\ Run(<<Command("create", <<>>, form.input)>>)
      <3>1. CommandOK(Command("create", <<>>, form.input))
        BY <1>2, <1>9 DEF ConfirmKey, FormTyped, Command, CommandOK, Kinds, Lists
      <3> QED
        BY <1>2, <1>3, <2>1, <3>1, RunOneRuns DEF FormSteps
    <2> QED
      BY <1>6, <1>9, <2>1 DEF ConfirmKey, FormSteps
  <1>10. CASE RenameKey
    <2>1. CASE form' = [form EXCEPT !.step = "idle", !.picked = None] /\ RunNone
      BY <1>4, <1>5, <2>1 DEF FormSteps
    <2>2. CASE \E a \in selectedAccount, name \in Names :
                 /\ form' = [form EXCEPT !.step = "mutating"]
                 /\ Run(<<Command("rename", <<>>,
                                  [id |-> a.id, name |-> name, picked |-> form.picked])>>)
      <3>1. PICK a \in selectedAccount, name \in Names :
                 /\ form' = [form EXCEPT !.step = "mutating"]
                 /\ Run(<<Command("rename", <<>>,
                                  [id |-> a.id, name |-> name, picked |-> form.picked])>>)
        BY <2>2
      <3>2. CommandOK(Command("rename", <<>>, [id |-> a.id, name |-> name, picked |-> form.picked]))
        BY DEF Command, CommandOK, Kinds, Lists
      <3> QED
        BY <1>2, <1>3, <3>1, <3>2, RunOneRuns DEF FormSteps
    <2> QED
      BY <1>10, <2>1, <2>2 DEF RenameKey
  <1>11. CASE ErrorKey
    BY <1>6, <1>11 DEF ErrorKey, FormSteps
  <1> QED
    BY <1>7, <1>8, <1>9, <1>10, <1>11 DEF AccountsKey

LEMMA ImportKeyTypes ==
    ASSUME TypeInv, ImportKey
    PROVE  TypeInv'
  <1>1. SelectionOK' /\ ScreenOK' /\ FormOK' /\ db' = db
    BY DEF TypeInv, ImportKey, SelectionOK, ScreenOK, FormOK
  <1>2. ImportOK'
    BY DEF TypeInv, ImportKey, ImportOK, StartImport, PickFile, ConfirmImport, DismissResult
  <1>3. CommandsOK'
    <2>1. CASE RunNone
      BY <2>1 DEF TypeInv, RunNone, CommandsOK
    <2>2. CASE Run(<<Command("import", <<selected>>, brokerEnum(import.broker))>>)
      <3>1. CommandOK(Command("import", <<selected>>, brokerEnum(import.broker)))
        BY DEF Command, CommandOK, Kinds, Lists
      <3> QED
        BY <2>2, <3>1, RunOneRuns DEF TypeInv
    <2> QED
      BY <2>1, <2>2 DEF ImportKey, StartImport, PickFile, ConfirmImport, DismissResult
  <1> QED
    BY <1>1, <1>2, <1>3 DEF TypeInv

LEMMA TablesWritten ==
    ASSUME NEW table, NEW row, NEW id, NEW name
    PROVE  /\ CreateAccount(table, row).db \in {table, Append(table, row)}
           /\ UpdateAccount(table, id, name).db \in {table, UpdateName(table, id, name)}
  <1>1. CreateAccount(table, row).db \in {table, Append(table, row)}
    BY DEF CreateAccount
  <1>2. UpdateAccount(table, id, name).db \in {table, UpdateName(table, id, name)}
    BY DEF UpdateAccount
  <1> QED
    BY <1>1, <1>2

LEMMA ServeTypes ==
    ASSUME TypeInv, NEW n \in DOMAIN net, ServeAccounts(n)
    PROVE  TypeInv'
  <1>1. SelectionOK' /\ ScreenOK' /\ FormOK' /\ ImportOK'
    BY DEF TypeInv, ServeAccounts, SelectionOK, ScreenOK, FormOK, ImportOK
  <1> PICK cmd : cmd = net[n]
    OBVIOUS
  <1>2. CommandOK(cmd) /\ db \in Seq(Account) /\ CommandsOK
    BY DEF TypeInv, CommandsOK
  <1> PICK fresh : fresh = IF Len(db) < Len(AccountIds) THEN AccountIds[Len(db) + 1] ELSE None
    OBVIOUS
  <1> PICK result :
        result = CASE cmd.kind = "create" -> CreateAccount(db, NewAccount(fresh, cmd.arg))
                   [] cmd.kind = "rename" -> UpdateAccount(db, cmd.arg.id, cmd.arg.name)
                   [] OTHER -> [db |-> db, answer |-> ListAccounts(db)]
    OBVIOUS
  <1>3. /\ cmd.kind \in {"init", "fresh", "create", "rename"} /\ Len(result.db) <= Len(AccountIds)
        /\ \/ db' = result.db /\ Answer(n, result.answer)
           \/ db' \in {db, result.db} /\ Answer(n, Error("Unavailable"))
    BY Zenon DEF ServeAccounts
  <1>4. result.db \in Seq(Account)
    <2>1. CASE cmd.kind = "create"
      <3>1. result = CreateAccount(db, NewAccount(fresh, cmd.arg))
        BY <2>1
      <3>2. CASE Len(db) < Len(AccountIds)
        <4>1. Len(db) + 1 \in 1..Len(AccountIds)
          BY <1>2, <3>2, AccountsAssumption, LenProperties
        <4>2. fresh \in AccountId
          BY <3>2, <4>1, AccountsAssumption, LenProperties DEF AccountId, ToSet
        <4>3. cmd.arg \in [broker: STRING, number: STRING, name: STRING]
          BY <1>2, <2>1, TypedAssumption DEF CommandOK
        <4>4. NewAccount(fresh, cmd.arg) \in Account
          BY <4>2, <4>3 DEF NewAccount, Account, AccountId
        <4> PICK row : row = NewAccount(fresh, cmd.arg)
          OBVIOUS
        <4>5. result.db \in {db, Append(db, row)}
          BY <3>1, TablesWritten
        <4>6. Append(db, row) \in Seq(Account)
          BY <1>2, <4>4, AppendProperties
        <4> QED
          BY <1>2, <4>5, <4>6
      <3>3. CASE ~(Len(db) < Len(AccountIds))
        <4> PICK row : row = NewAccount(fresh, cmd.arg)
          OBVIOUS
        <4>1. Len(Append(db, row)) > Len(AccountIds)
          <5>1. Len(db) \in Nat /\ Len(AccountIds) \in Nat
            BY <1>2, AccountsAssumption, LenProperties
          <5>2. Len(Append(db, row)) = Len(db) + 1
            <6>1. db \in Seq(Account \cup {row})
              BY <1>2, SeqMonotonic
            <6> QED
              BY <6>1, AppendProperties
          <5> QED
            BY <3>3, <5>1, <5>2
        <4>2. result.db = db \/ result.db = Append(db, row)
          BY <3>1, TablesWritten
        <4> QED
          BY <1>2, <1>3, <4>1, <4>2
      <3> QED
        BY <3>2, <3>3
    <2>2. CASE cmd.kind = "rename"
      <3>1. result = UpdateAccount(db, cmd.arg.id, cmd.arg.name)
        BY <2>2
      <3>2. cmd.arg.name \in STRING
        BY <1>2, <2>2, TypedAssumption DEF CommandOK
      <3> PICK id, name : id = cmd.arg.id /\ name = cmd.arg.name
        OBVIOUS
      <3>3. UpdateName(db, id, name) \in Seq(Account)
        <4>1. DOMAIN db = 1..Len(db) /\ Len(db) \in Nat /\ \A k \in 1..Len(db) : db[k] \in Account
          BY <1>2, ElementOfSeq, LenProperties
        <4>2. \A k \in 1..Len(db) : [db[k] EXCEPT !.name = name] \in Account
          BY <3>2, <4>1 DEF Account
        <4>3. UpdateName(db, id, name) \in [1..Len(db) -> Account]
          BY <4>1, <4>2 DEF UpdateName
        <4> QED
          BY <4>1, <4>3, SeqDef
      <3>4. result.db \in {db, UpdateName(db, id, name)}
        BY <3>1, TablesWritten
      <3> QED
        BY <1>2, <3>3, <3>4
    <2>3. CASE cmd.kind \in {"init", "fresh"}
      BY <1>2, <2>3
    <2> QED
      BY <1>3, <2>1, <2>2, <2>3
  <1>5. db' \in Seq(Account) /\ Len(db') <= Len(AccountIds)
    BY <1>3, <1>4 DEF TypeInv
  <1>6. PICK answer : /\ net' = [net EXCEPT ![n].answer = answer] /\ issued' = issued
                      /\ answer = result.answer \/ answer = Error("Unavailable")
    BY <1>3 DEF Answer
  <1>7. cmd.kind \in {"init", "fresh"} /\ answer.ok => answer.value \in Seq(Account)
    BY <1>2, <1>6 DEF Error, Ok, ListAccounts
  <1>8. CommandsOK'
    <2>1. [cmd EXCEPT !.answer = answer]
             = [kind |-> cmd.kind, ids |-> cmd.ids, arg |-> cmd.arg, answer |-> answer,
                late |-> cmd.late]
      BY <1>2 DEF CommandOK
    <2>2. CommandOK([cmd EXCEPT !.answer = answer])
      BY <1>2, <1>7, <2>1 DEF CommandOK
    <2>3. net' = [m \in DOMAIN net |-> IF m = n THEN [cmd EXCEPT !.answer = answer] ELSE net[m]]
      BY <1>2, <1>6 DEF CommandsOK
    <2> QED
      BY <1>2, <1>6, <2>2, <2>3 DEF CommandsOK
  <1> QED
    BY <1>1, <1>5, <1>8 DEF TypeInv

LEMMA InitializedTypes ==
    ASSUME TypeInv, NEW n \in DOMAIN net, Initialized(n)
    PROVE  TypeInv'
  <1>1. CommandOK(net[n]) /\ OutOK(net) /\ OutOK(Without(n)) /\ CommandsOK
    BY WithoutKeeps DEF TypeInv, CommandsOK
  <1> PICK ans : ans = net[n].answer
    OBVIOUS
  <1>2. db' = db /\ activeView' = activeView /\ selected' = selected /\ filter' = filter
    BY DEF Initialized
  <1>3. CASE ans.ok
    <2>1. ans.value \in Seq(Account)
      BY <1>1, <1>3 DEF Initialized, CommandOK
    <2> PICK state : state = [State EXCEPT !.accounts = ans.value]
      OBVIOUS
    <2>2. state.selected \in {All} \cup AccountId /\ state.accounts \in Seq(Account)
      BY <2>1 DEF State, TypeInv, SelectionOK
    <2>3. FormTyped(NewAccountsView)
      BY EmptySeq DEF FormTyped, FormSteps, NewAccountsView
    <2>4. loadView(activeView, state, NewAccountsView, Without(n))
      BY <1>3 DEF Initialized
    <2>5. CommandsOK' /\ FormOK' /\ ScreenOK'
      <3>1. activeView \in View
        BY DEF TypeInv, SelectionOK
      <3> QED
        BY <1>1, <1>2, <2>2, <2>3, <2>4, <3>1, LoadViewLoads
    <2>6. phase' = "ready" /\ accounts' = ans.value /\ import' = NewImportView
      BY <1>3 DEF Initialized
    <2>7. SelectionOK'
      BY <1>2, <2>1, <2>6 DEF TypeInv, SelectionOK
    <2>8. ImportOK'
      BY <2>6 DEF ImportOK, NewImportView
    <2> QED
      BY <1>2, <2>5, <2>7, <2>8 DEF TypeInv
  <1>4. CASE ~ans.ok
    <2>1. /\ phase' = "failed" /\ net' = Without(n)
          /\ UNCHANGED <<accounts, import, screen, form, issued>>
      BY <1>4 DEF Initialized
    <2>2. CommandsOK'
      BY <1>1, <2>1, AnsweredKeeps
    <2>3. SelectionOK' /\ ImportOK' /\ ScreenOK' /\ FormOK'
      BY <1>2, <2>1 DEF TypeInv, SelectionOK, ImportOK, ScreenOK, FormOK
    <2> QED
      BY <1>2, <2>2, <2>3 DEF TypeInv
  <1> QED
    BY <1>3, <1>4

LEMMA ListLoadedTypes ==
    ASSUME TypeInv, NEW n \in DOMAIN net, ListLoaded(n)
    PROVE  TypeInv'
  <1>1. SelectionOK' /\ FormOK' /\ ImportOK' /\ db' = db /\ activeView' = activeView
    BY DEF TypeInv, ListLoaded, SelectionOK, FormOK, ImportOK
  <1>2. CommandOK(net[n]) /\ OutOK(Without(n)) /\ CommandsOK
    BY WithoutKeeps DEF TypeInv, CommandsOK
  <1>3. CommandsOK'
    BY <1>2, MarkLateKeeps, AnsweredKeeps DEF ListLoaded
  <1>4. ScreenOK'
    <2>1. CASE net[n].kind # activeView
      BY <1>1, <2>1 DEF ListLoaded, TypeInv, ScreenOK
    <2>2. ASSUME NEW ans, NEW rows, activeView = "positions" /\ ans.ok => rows \in Seq(Position),
                 screen' = Answered(ans, rows),
                 ~ans.ok \/ screen.expanded = {}
          PROVE  ScreenOK'
      BY <1>1, <2>2 DEF TypeInv, ScreenOK, Answered
    <2>3. CASE net[n].kind = activeView
      <3>1. PICK failing \in SUBSET ToSet(net[n].ids) :
               screen' = CASE net[n].kind = "positions" ->
                                PositionsLoaded(PositionsAnswer(net[n].ids, failing))
                           [] net[n].kind = "history" ->
                                HistoryLoaded(HistoryAnswer(net[n].ids, failing))
                           [] net[n].kind = "trades" ->
                                TradesLoaded(TradesAnswer(net[n].ids, net[n].arg, failing))
                           [] OTHER -> AnalyticsLoaded(AnalyticsAnswer(net[n].ids, failing))
        BY <2>3 DEF ListLoaded
      <3>2. net[n].kind \in {"positions", "history", "trades", "analytics"}
        BY DEF ListLoaded
      <3>3. CASE net[n].kind = "positions"
        <4> PICK ans : ans = PositionsAnswer(net[n].ids, failing)
          OBVIOUS
        <4>1. ans.ok => ans.value \in Seq(Position)
          BY <1>2, <3>3, PositionsAnswerTyped DEF CommandOK
        <4>2. screen' = PositionsLoaded(ans)
          BY <3>1, <3>3
        <4> QED
          BY <1>1, <2>3, <3>3, <4>1, <4>2 DEF TypeInv, ScreenOK, PositionsLoaded, Answered
      <3>4. CASE net[n].kind \in {"history", "analytics"}
        <4>1. PICK ans : screen' = Answered(ans, ans.value)
          BY <3>1, <3>4 DEF HistoryLoaded, AnalyticsLoaded
        <4> QED
          BY <2>2, <2>3, <3>4, <4>1 DEF TypeInv, ScreenOK
      <3>5. CASE net[n].kind = "trades"
        <4>1. PICK ans : screen' = TradesLoaded(ans)
          BY <3>1, <3>5
        <4> QED
          BY <1>1, <2>3, <3>5, <4>1 DEF TypeInv, ScreenOK, TradesLoaded, Answered
      <3> QED
        BY <3>2, <3>3, <3>4, <3>5
    <2> QED
      BY <2>1, <2>3
  <1> QED
    BY <1>1, <1>3, <1>4 DEF TypeInv

LEMMA DetailLoadedTypes ==
    ASSUME TypeInv, NEW n \in DOMAIN net, DetailLoaded(n)
    PROVE  TypeInv'
  <1>1. SelectionOK' /\ FormOK' /\ ImportOK' /\ db' = db /\ activeView' = activeView
    BY DEF TypeInv, DetailLoaded, SelectionOK, FormOK, ImportOK
  <1>2. CommandsOK'
    BY WithoutKeeps, AnsweredKeeps DEF DetailLoaded, TypeInv
  <1>3. ScreenOK'
    BY <1>1 DEF DetailLoaded, ChainDetailLoaded, TypeInv, ScreenOK
  <1> QED
    BY <1>1, <1>2, <1>3 DEF TypeInv

LEMMA AccountsAnswerTypes ==
    ASSUME TypeInv, NEW n \in DOMAIN net, AccountsLoaded(n) \/ AccountsChanged(n) \/ Mutated(n)
    PROVE  TypeInv'
  <1>1. ScreenOK' /\ ImportOK' /\ db' = db
    BY DEF TypeInv, AccountsLoaded, AccountsChanged, Mutated, ScreenOK, ImportOK
  <1>2. CommandOK(net[n]) /\ OutOK(Without(n)) /\ CommandsOK /\ FormTyped(form)
    BY WithoutKeeps DEF TypeInv, CommandsOK, FormOK
  <1>3. ASSUME NEW rows \in Seq(Account) PROVE FormTyped(Rebuilt(rows))
    BY <1>2 DEF FormTyped, Rebuilt
  <1>4. ASSUME net' = Without(n), issued' = issued PROVE CommandsOK'
    BY <1>2, <1>4, AnsweredKeeps
  <1>5. CASE AccountsLoaded(n)
    <2>1. SelectionOK'
      BY <1>5 DEF TypeInv, AccountsLoaded, SelectionOK
    <2>2. FormOK'
      BY <1>2, <1>3, <1>5 DEF AccountsLoaded, FormOK, CommandOK
    <2> QED
      BY <1>1, <1>4, <1>5, <2>1, <2>2 DEF AccountsLoaded, TypeInv
  <1>6. CASE AccountsChanged(n)
    <2>1. net[n].answer.ok => net[n].answer.value \in Seq(Account)
      BY <1>2, <1>6 DEF AccountsChanged, CommandOK
    <2>2. SelectionOK'
      BY <1>6, <2>1 DEF TypeInv, AccountsChanged, SelectionOK
    <2>3. FormOK'
      BY <1>2, <1>3, <1>6, <2>1, EmptySeq DEF AccountsChanged, FormOK
    <2> QED
      BY <1>1, <1>4, <1>6, <2>2, <2>3 DEF AccountsChanged, TypeInv
  <1>7. CASE Mutated(n)
    <2>1. SelectionOK'
      BY <1>7 DEF TypeInv, Mutated, SelectionOK
    <2>2. FormOK'
      BY <1>2, <1>7 DEF Mutated, AccountMutated, FormOK, FormTyped, FormSteps
    <2>3. CASE net' = Without(n) /\ UNCHANGED issued
      BY <1>1, <1>4, <2>1, <2>2, <2>3 DEF TypeInv
    <2>4. CASE FollowUp(n, Command("fresh", <<>>, None))
      <3>1. CommandOK(Command("fresh", <<>>, None))
        BY DEF Command, CommandOK, Kinds, Lists
      <3>2. CommandsOK'
        BY <1>2, <2>4, <3>1 DEF FollowUp, CommandsOK
      <3> QED
        BY <1>1, <2>1, <2>2, <3>2 DEF TypeInv
    <2> QED
      BY <1>7, <2>3, <2>4 DEF Mutated, AccountMutated
  <1> QED
    BY <1>5, <1>6, <1>7

LEMMA ImportAnsweredTypes ==
    ASSUME TypeInv, NEW n \in DOMAIN net, ImportAnswered(n)
    PROVE  TypeInv'
  <1>1. SelectionOK' /\ ScreenOK' /\ FormOK' /\ db' = db
    BY DEF TypeInv, ImportAnswered, SelectionOK, ScreenOK, FormOK
  <1>2. CommandsOK'
    BY WithoutKeeps, AnsweredKeeps DEF ImportAnswered, TypeInv
  <1>3. ImportOK'
    BY DEF ImportAnswered, ImportDone, TypeInv, ImportOK
  <1> QED
    BY <1>1, <1>2, <1>3 DEF TypeInv

LEMMA StutterTypes ==
    ASSUME TypeInv, UNCHANGED vars
    PROVE  TypeInv'
  <1>1. SelectionOK' /\ ScreenOK' /\ FormOK' /\ ImportOK'
    BY DEF TypeInv, vars, SelectionOK, ScreenOK, FormOK, ImportOK
  <1>2. CommandsOK'
    BY DEF TypeInv, vars, CommandsOK
  <1> QED
    BY <1>1, <1>2 DEF TypeInv, vars

LEMMA NextTypes == TypeInv /\ [Next]_vars => TypeInv'
  <1> SUFFICES ASSUME TypeInv, [Next]_vars PROVE TypeInv'
    OBVIOUS
  <1>1. CASE switchView \/ ChangeAccount \/ WindowSize
    BY <1>1, SwitchTypes, ChangeAccountTypes, WindowTypes
  <1>2. CASE Key
    BY <1>2, PositionsKeyTypes, TradesKeyTypes, AccountsKeyTypes, ImportKeyTypes DEF Key
  <1>3. CASE Quit \/ ZeroViewPanic
    BY <1>3, EndedTypes DEF Quit, ZeroViewPanic
  <1>4. ASSUME NEW n \in DOMAIN net, CommandStep(n) PROVE TypeInv'
    BY <1>4, ServeTypes, InitializedTypes, ListLoadedTypes, DetailLoadedTypes,
       AccountsAnswerTypes, ImportAnsweredTypes DEF CommandStep
  <1>5. CASE UNCHANGED vars
    BY <1>5, StutterTypes
  <1> QED
    BY <1>1, <1>2, <1>3, <1>4, <1>5 DEF Next

LEMMA TypeInvHolds == Spec => []TypeInv
  BY InitTypes, NextTypes, PTL DEF Spec

\* Every variable of the UI, and every command out, has its type: no table is
\* indexed outside its rows, and the number of commands stays within its bound.
THEOREM TypeCorrect == Spec => []TypeOK
  BY TypeInvHolds, TypeInvTypes, PTL

-----------------------------------------------------------------------------
(* Steps that leave the forms, and what they wait for, alone.               *)

Watched == {{"import"}, {"create", "rename"}, {"init"}, {"create", "rename", "fresh", "import"},
            {"rename"}}

\* Nothing is sent or answered that a form waits for.
QuietNet ==
    /\ \A kinds \in Watched : Outstanding(kinds)' = Outstanding(kinds)
    /\ \A n \in Outstanding({"rename"}) : net'[n].arg = net[n].arg

LEMMA WatchedAreNoLoads == \A kinds \in Watched : kinds \cap (Loads \cup {"detail"}) = {}
  BY DEF Watched, Loads, Lists

\* What is not loaded is still awaited by a step that adds loads to net, or to
\* net without the answer to a load.
LEMMA LoadsAreQuiet ==
    ASSUME NEW n, n \in DOMAIN net => net[n].kind \in Loads \cup {"detail"},
           \A kinds : kinds \cap (Loads \cup {"detail"}) = {} =>
                         Outstanding(kinds)' = Outstanding(kinds) \ {n},
           \A m \in Outstanding({"rename"})' : m \in DOMAIN net /\ net'[m].arg = net[m].arg
    PROVE  QuietNet
  <1>1. ASSUME NEW kinds \in Watched
        PROVE  Outstanding(kinds)' = Outstanding(kinds)
    <2>1. kinds \cap (Loads \cup {"detail"}) = {}
      BY WatchedAreNoLoads
    <2>2. n \notin Outstanding(kinds)
      BY <2>1 DEF Outstanding
    <2> QED
      BY <2>1, <2>2
  <1>2. Outstanding({"rename"})' = Outstanding({"rename"})
    BY <1>1 DEF Watched
  <1> QED
    BY <1>1, <1>2 DEF QuietNet

LEMMA SameNetIsQuiet ==
    ASSUME net' = net
    PROVE  QuietNet
  BY DEF QuietNet, Outstanding

\* A step that is quiet and leaves every form at its step.
LEMMA QuietKeeps ==
    ASSUME FormsInv, RenameInv, LoadedInv, QuietNet,
           UNCHANGED <<phase, activeView, selected, import>>,
           accounts' = accounts \/ ~ZeroViews, screen'.for = screen.for,
           form'.step = form.step, form' = form \/ form'.picked = None
    PROVE  FormsInv' /\ RenameInv' /\ LoadedInv'
  <1>1. StartInv'
    BY DEF FormsInv, StartInv, QuietNet, Watched, ZeroViews
  <1> QED
    BY <1>1
       DEF FormsInv, QuietNet, Watched, Awaits, Outstanding, RenameInv, LoadedInv, RenameHitsPicked, selectedAccount

-----------------------------------------------------------------------------
(* Each step keeps what the forms wait for, the account loaded and the       *)
(* account a rename is for.                                                  *)

LEMMA InitKeys == Init => KeysInv
  <1> SUFFICES ASSUME Init PROVE KeysInv
    OBVIOUS
  <1>1. \A n \in DOMAIN net : n = 0 /\ net[n].kind = "init"
    BY DEF Init, Command
  <1>2. \A kinds : "init" \notin kinds => Outstanding(kinds) = {}
    BY <1>1 DEF Outstanding
  <1>3. FormsInv
    BY <1>1, <1>2
       DEF Init, FormsInv, StartInv, Awaits, NewAccountsView, NewImportView, Outstanding, ZeroViews
  <1> QED
    BY <1>2, <1>3
       DEF Init, KeysInv, RenameInv, RenameHitsPicked, LoadedInv, Loading, NewAccountsView

\* Nothing leaves a view whose form waits.
LEMMA NoHotkeyWhileWaiting ==
    ASSUME FormsInv, ~activeViewCapturingInput
    PROVE  import.step # "running" /\ form.step # "mutating"
           /\ Outstanding({"import"}) = {} /\ Outstanding({"create", "rename"}) = {}
  BY DEF FormsInv, Awaits, activeViewCapturingInput, AccountsInputActive, ImportInputActive

LEMMA LoadViewIsQuiet ==
    ASSUME TypeInv, NEW view \in View, NEW state, state.selected \in {All} \cup AccountId,
           state.accounts \in Seq(Account), loadView(view, state, form, net)
    PROVE  /\ QuietNet /\ screen'.for = state.selected
           /\ form' = form \/ (view = "accounts" /\ form'.step = "idle")
  <1>1. OutOK(net) /\ \A kinds : Of(net, kinds) = Outstanding(kinds)
    BY WithoutKeeps DEF TypeInv
  <1>2. /\ screen'.for = state.selected
        /\ form' = form \/ (view = "accounts" /\ form'.step = "idle")
        /\ \A kinds : kinds \cap Loads = {} => Outstanding(kinds)' = Of(net, kinds)
        /\ \A n \in Outstanding({"rename"})' : n \in DOMAIN net /\ net'[n].arg = net[n].arg
    BY <1>1, LoadViewLoads DEF TypeInv, FormOK
  <1>3. ASSUME NEW kinds \in Watched PROVE Outstanding(kinds)' = Outstanding(kinds)
    BY <1>1, <1>2, WatchedAreNoLoads
  <1>4. QuietNet
    BY <1>2, <1>3 DEF QuietNet, Watched
  <1> QED
    BY <1>2, <1>4

LEMMA SwitchKeys ==
    ASSUME TypeInv, KeysInv, switchView
    PROVE  KeysInv'
  <1>1. PICK view \in View : activeView' = view /\ loadView(view, State, form, net)
    BY DEF switchView
  <1>2. /\ State.selected = selected /\ State.selected \in {All} \cup AccountId
        /\ State.accounts \in Seq(Account)
    BY DEF State, TypeInv, SelectionOK
  <1>3. /\ QuietNet /\ screen'.for = selected
        /\ form' = form \/ (view = "accounts" /\ form'.step = "idle")
    BY <1>1, <1>2, LoadViewIsQuiet
  <1>4. /\ import.step # "running" /\ form.step # "mutating"
        /\ Outstanding({"import"}) = {} /\ Outstanding({"create", "rename"}) = {}
    BY NoHotkeyWhileWaiting DEF KeysInv, switchView
  <1>5. UNCHANGED <<phase, selected, accounts, import>>
    BY DEF switchView
  <1>6. StartInv'
    BY <1>3, <1>5 DEF KeysInv, FormsInv, StartInv, QuietNet, Watched, ZeroViews
  <1>7. FormsInv'
    BY <1>3, <1>4, <1>5, <1>6 DEF FormsInv, QuietNet, Watched, Awaits
  <1>8. RenameInv'
    BY <1>3 DEF KeysInv, RenameInv, RenameHitsPicked, QuietNet, Watched, selectedAccount
  <1>9. LoadedInv'
    BY <1>3, <1>5 DEF LoadedInv
  <1> QED
    BY <1>7, <1>8, <1>9 DEF KeysInv

LEMMA ChangeAccountKeys ==
    ASSUME TypeInv, KeysInv, ChangeAccount
    PROVE  KeysInv'
  <1>1. PICK account \in {nextAccount, prevAccount} :
          /\ selected' = account
          /\ loadView(activeView, [State EXCEPT !.selected = account], form, net)
    BY DEF ChangeAccount
  <1> PICK state : state = [State EXCEPT !.selected = account]
    OBVIOUS
  <1>2. /\ account \in {All} \cup AccountId
        /\ state.selected = account /\ state.accounts \in Seq(Account) /\ activeView \in View
    BY NeighbourTyped DEF State, TypeInv, SelectionOK
  <1>3. /\ QuietNet /\ screen'.for = account
        /\ form' = form \/ (activeView = "accounts" /\ form'.step = "idle")
    BY <1>1, <1>2, LoadViewIsQuiet
  <1>4. /\ import.step # "running" /\ form.step # "mutating"
        /\ Outstanding({"import"}) = {} /\ Outstanding({"create", "rename"}) = {}
    BY NoHotkeyWhileWaiting DEF KeysInv, ChangeAccount
  <1>5. UNCHANGED <<phase, activeView, accounts, import>>
    BY DEF ChangeAccount
  <1>6. ZeroViews => account = selected
    BY <1>1 DEF KeysInv, FormsInv, StartInv, nextAccount, prevAccount
  <1>7. StartInv'
    BY <1>1, <1>3, <1>5, <1>6 DEF KeysInv, FormsInv, StartInv, QuietNet, Watched, ZeroViews
  <1>8. FormsInv'
    BY <1>3, <1>4, <1>5, <1>7 DEF FormsInv, QuietNet, Watched, Awaits
  <1>9. RenameInv'
    BY <1>3 DEF KeysInv, RenameInv, RenameHitsPicked, QuietNet, Watched, selectedAccount
  <1>10. LoadedInv'
    BY <1>1, <1>3 DEF LoadedInv
  <1> QED
    BY <1>8, <1>9, <1>10 DEF KeysInv

LEMMA WindowKeys ==
    ASSUME KeysInv, WindowSize
    PROVE  KeysInv'
  <1>1. net' = net /\ form'.step = form.step /\ (form' = form \/ form'.picked = None)
    BY DEF WindowSize, RunNone, AccountsResize
  <1> QED
    BY <1>1, SameNetIsQuiet, QuietKeeps DEF KeysInv, WindowSize

LEMMA EndedKeys ==
    ASSUME NEW how \in {"quit", "crashed"}, Ended(how)
    PROVE  KeysInv'
  <1>1. \A kinds : Outstanding(kinds)' = {}
    BY DEF Ended, Outstanding
  <1>2. FormsInv'
    BY <1>1 DEF Ended, FormsInv, StartInv, Awaits, NewAccountsView, NewImportView, ZeroViews
  <1> QED
    BY <1>1, <1>2
       DEF Ended, KeysInv, RenameInv, RenameHitsPicked, LoadedInv, Loading, NewAccountsView

LEMMA LoadRunsAreQuiet ==
    ASSUME CommandsOK, NEW cmds, Len(cmds) \in Nat, Run(cmds),
           \A k \in 1..Len(cmds) : CommandOK(cmds[k]) /\ cmds[k].kind \in Loads \cup {"detail"}
    PROVE  QuietNet
  <1>1. OutOK(net) /\ \A kinds : Of(net, kinds) = Outstanding(kinds)
    BY WithoutKeeps
  <1>2. /\ RunOn(net, cmds) /\ \A k \in 1..Len(cmds) : CommandOK(cmds[k])
        /\ \A k \in 1..Len(cmds) : cmds[k].kind \in Loads \cup {"detail"}
    BY DEF Run
  <1>3. ASSUME NEW kinds \in Watched PROVE Outstanding(kinds)' = Outstanding(kinds)
    <2>1. kinds \cap (Loads \cup {"detail"}) = {}
      BY WatchedAreNoLoads
    <2>2. \A k \in 1..Len(cmds) : cmds[k].kind \notin kinds
      BY <1>2, <2>1
    <2>3. Outstanding(kinds)' = Of(net, kinds)
      BY <1>1, <1>2, <2>2, RunOnKeeps, Zenon
    <2> QED
      BY <1>1, <2>3
  <1>4. \A n \in DOMAIN net : net'[n] = net[n]
    BY <1>1, <1>2, RunOnRuns, Zenon
  <1> QED
    BY <1>3, <1>4 DEF QuietNet, Outstanding

\* Keys of the positions view run nothing or fetch details.
LEMMA PositionsKeyRuns ==
    ASSUME TypeInv, PositionsKey
    PROVE  QuietNet
  <1>1. CommandsOK
    BY DEF TypeInv
  <1>2. \A idx : CommandOK(FetchDetail(idx)) /\ FetchDetail(idx).kind = "detail"
    BY DEF FetchDetail, Command, CommandOK, Kinds
  <1>3. ASSUME NEW idx, Run(<<FetchDetail(idx)>>) PROVE QuietNet
    <2> PICK cmds : cmds = <<FetchDetail(idx)>>
      OBVIOUS
    <2>1. Len(cmds) = 1 /\ cmds[1] = FetchDetail(idx) /\ Run(cmds)
      BY <1>3
    <2> QED
      BY <1>1, <1>2, <2>1, LoadRunsAreQuiet
  <1>4. CASE PositionsExpandAll
    <2> PICK todo : todo = {idx \in DOMAIN screen.shown :
                              Expandable(idx) /\ idx \notin DOMAIN screen.chains \cup screen.fetching}
      OBVIOUS
    <2> PICK n, order, cmds : /\ n = Cardinality(todo) /\ order = InOrder(todo)
                              /\ cmds = [k \in DOMAIN order |-> FetchDetail(order[k])]
      OBVIOUS
    <2>1. Run(cmds)
      BY <1>4 DEF PositionsExpandAll
    <2>2. n \in Nat /\ order \in [1..n -> todo]
      BY ShownFinite, InOrderLists DEF TypeInv, PositionsKey
    <2>3. cmds = [k \in 1..n |-> FetchDetail(order[k])]
      BY <2>2
    <2>4. Len(cmds) = n /\ \A k \in 1..Len(cmds) : CommandOK(cmds[k]) /\ cmds[k].kind = "detail"
      <3>1. Len(cmds) = n
        BY <2>2, <2>3
      <3> QED
        BY <1>2, <2>3, <3>1
    <2> QED
      BY <1>1, <2>1, <2>2, <2>4, LoadRunsAreQuiet
  <1> QED
    BY <1>3, <1>4, SameNetIsQuiet DEF PositionsKey, PositionsEnter, PositionsEsc, RunNone

LEMMA PositionsKeyKeys ==
    ASSUME TypeInv, KeysInv, PositionsKey
    PROVE  KeysInv'
  <1>1. screen'.for = screen.for
    BY DEF TypeInv, ScreenOK, PositionsKey, PositionsEnter, PositionsExpandAll, PositionsEsc,
           WithoutDetail
  <1> QED
    BY <1>1, PositionsKeyRuns, QuietKeeps DEF KeysInv, PositionsKey

LEMMA TradesKeyKeys ==
    ASSUME TypeInv, KeysInv, TradesKey
    PROVE  KeysInv'
  <1>1. screen'.for = screen.for
    BY DEF TypeInv, ScreenOK, TradesKey, TradesEnter, TradesExpandAll, TradesEsc, OpenFilter,
           CancelFilter, ApplyFilter, KeysInv, LoadedInv
  <1>2. QuietNet
    <2>1. CASE ApplyFilter
      <3>1. PICK cmd : Run(<<cmd>>) /\ CommandOK(cmd) /\ cmd.kind = "trades"
        BY <2>1 DEF ApplyFilter, Command, CommandOK, Kinds, Lists
      <3> PICK cmds : cmds = <<cmd>>
        OBVIOUS
      <3>2. Len(cmds) = 1 /\ cmds[1] = cmd /\ Run(cmds)
        BY <3>1
      <3> QED
        BY <3>1, <3>2, LoadRunsAreQuiet DEF TypeInv, Loads, Lists
    <2> QED
      BY <2>1, SameNetIsQuiet
         DEF TradesKey, TradesEnter, TradesExpandAll, TradesEsc, OpenFilter, CancelFilter, RunNone
  <1> QED
    BY <1>1, <1>2, QuietKeeps DEF KeysInv, TradesKey

\* A form sends its command and waits.
LEMMA SendAwaits ==
    ASSUME TypeInv, NEW cmd, CommandOK(cmd), Run(<<cmd>>)
    PROVE  /\ \A kinds : Outstanding(kinds)' = IF cmd.kind \in kinds
                                               THEN Outstanding(kinds) \cup {issued + 1}
                                               ELSE Outstanding(kinds)
           /\ net'[issued + 1] = cmd
           /\ \A n \in DOMAIN net : net'[n] = net[n]
           /\ issued + 1 \in DOMAIN net'
  <1>1. /\ DOMAIN net' = DOMAIN net \cup {issued + 1} /\ issued + 1 \notin DOMAIN net
        /\ \A n \in DOMAIN net : net'[n] = net[n]
        /\ net'[issued + 1] = cmd
    BY RunOneRuns DEF TypeInv
  <1>2. ASSUME NEW kinds
        PROVE  Outstanding(kinds)' = IF cmd.kind \in kinds THEN Outstanding(kinds) \cup {issued + 1}
                                     ELSE Outstanding(kinds)
    BY <1>1 DEF Outstanding
  <1> QED
    BY <1>1, <1>2

LEMMA AccountsKeyKeys ==
    ASSUME TypeInv, KeysInv, AccountsKey
    PROVE  KeysInv'
  <1>1. /\ UNCHANGED <<phase, activeView, selected, accounts, screen, import>>
        /\ activeView = "accounts" /\ ~ZeroViews
    BY DEF AccountsKey
  <1>2. LoadedInv' /\ (QuietNet => StartInv')
    BY <1>1 DEF KeysInv, FormsInv, LoadedInv, StartInv, QuietNet, Watched, ZeroViews
  <1>3. FormTyped(form)
    BY DEF TypeInv, FormOK
  <1>4. ASSUME NEW step \in FormSteps \ {"mutating", "rename"}, RunNone, form.step # "mutating",
               form'.step = step
        PROVE  KeysInv'
    <2>1. QuietNet
      BY <1>4, SameNetIsQuiet DEF RunNone
    <2>2. FormsInv'
      BY <1>1, <1>2, <1>4, <2>1 DEF KeysInv, FormsInv, QuietNet, Watched, Awaits, RunNone
    <2>3. RenameInv'
      BY <1>4 DEF KeysInv, RenameInv, RenameHitsPicked, Outstanding, RunNone
    <2> QED
      BY <1>2, <2>1, <2>2, <2>3 DEF KeysInv
  <1>5. ASSUME NEW step \in FormSteps \ {"mutating", "rename"}, Goto(step), form.step # "mutating"
        PROVE  KeysInv'
    BY <1>3, <1>4, <1>5 DEF Goto, FormTyped
  <1>6. CASE IdleKey
    <2>1. CASE Goto("createBroker")
      BY <1>5, <1>6, <2>1 DEF IdleKey, FormSteps
    <2>2. CASE \E a \in selectedAccount :
                 form' = [form EXCEPT !.step = "rename", !.picked = a.id] /\ RunNone
      <3>1. PICK a \in selectedAccount : form' = [form EXCEPT !.step = "rename", !.picked = a.id]
        BY <2>2
      <3>2. /\ form'.step = "rename" /\ form'.picked = a.id
            /\ form'.rows = form.rows /\ form'.cursor = form.cursor
        BY <1>3, <3>1 DEF FormTyped
      <3>3. QuietNet /\ net' = net
        BY <2>2, SameNetIsQuiet DEF RunNone
      <3>4. FormsInv'
        BY <1>1, <1>2, <1>6, <3>2, <3>3 DEF IdleKey, KeysInv, FormsInv, QuietNet, Watched, Awaits
      <3>5. RenameInv'
        BY <3>2, <3>3 DEF KeysInv, RenameInv, RenameHitsPicked, Outstanding, selectedAccount
      <3> QED
        BY <1>2, <3>3, <3>4, <3>5 DEF KeysInv
    <2>3. CASE \E k \in DOMAIN form.rows : form' = [form EXCEPT !.cursor = k - 1] /\ RunNone
      <3>1. form'.step = "idle"
        BY <1>3, <1>6, <2>3 DEF IdleKey, FormTyped
      <3> QED
        BY <1>4, <1>6, <2>3, <3>1 DEF IdleKey, FormSteps
    <2> QED
      BY <1>6, <2>1, <2>2, <2>3 DEF IdleKey
  <1>7. CASE CreateKey
    <2>1. CASE \E in \in Inputs : /\ form' = [form EXCEPT !.step = "createConfirm", !.input = in]
                                  /\ RunNone
      <3>1. form'.step = "createConfirm"
        BY <1>3, <2>1 DEF FormTyped
      <3> QED
        BY <1>4, <1>7, <2>1, <3>1 DEF CreateKey, FormSteps
    <2> QED
      BY <1>5, <1>7, <2>1 DEF CreateKey, FormSteps
  <1>8. ASSUME NEW cmd, CommandOK(cmd), cmd.kind \in {"create", "rename"}, Run(<<cmd>>),
               form' = [form EXCEPT !.step = "mutating"], form.step # "mutating",
               cmd.kind = "rename" => cmd.arg.picked \in {None, cmd.arg.id}
        PROVE  KeysInv'
    <2>1. /\ \A kinds : Outstanding(kinds)' = IF cmd.kind \in kinds
                                              THEN Outstanding(kinds) \cup {issued + 1}
                                              ELSE Outstanding(kinds)
          /\ net'[issued + 1] = cmd /\ issued + 1 \in DOMAIN net'
          /\ \A n \in DOMAIN net : net'[n] = net[n]
      BY <1>8, SendAwaits
    <2>2. form'.step = "mutating"
      BY <1>3, <1>8 DEF FormTyped
    <2>3. /\ Outstanding({"create", "rename"})' = {issued + 1}
          /\ Outstanding({"import"})' = Outstanding({"import"})
          /\ Outstanding({"init"})' = Outstanding({"init"})
      BY <1>8, <2>1 DEF KeysInv, FormsInv, Awaits
    <2>4. FormsInv'
      <3>1. StartInv'
        BY <1>1, <2>3 DEF KeysInv, FormsInv, StartInv, ZeroViews
      <3>2. Awaits({"import"}, import.step = "running")'
        BY <1>1, <2>3 DEF KeysInv, FormsInv, Awaits, Outstanding
      <3>3. Awaits({"create", "rename"}, form.step = "mutating")'
        BY <2>1, <2>2, <2>3 DEF Awaits
      <3> QED
        BY <1>1, <3>1, <3>2, <3>3 DEF KeysInv, FormsInv
    <2>5. RenameHitsPicked'
      BY <1>8, <2>1, <2>3 DEF KeysInv, RenameInv, RenameHitsPicked, Outstanding
    <2> QED
      BY <1>1, <2>2, <2>4, <2>5 DEF KeysInv, RenameInv, LoadedInv
  <1>9. CASE ConfirmKey
    <2>1. CASE /\ form' = [form EXCEPT !.step = "mutating"]
               /\ Run(<<Command("create", <<>>, form.input)>>)
      <3> PICK cmd : cmd = Command("create", <<>>, form.input)
        OBVIOUS
      <3>1. CommandOK(cmd) /\ cmd.kind = "create"
        BY <1>3, <1>9 DEF ConfirmKey, FormTyped, Command, CommandOK, Kinds, Lists
      <3> QED
        BY <1>8, <1>9, <2>1, <3>1 DEF ConfirmKey
    <2> QED
      BY <1>5, <1>9, <2>1 DEF ConfirmKey, FormSteps
  <1>10. CASE RenameKey
    <2>1. CASE form' = [form EXCEPT !.step = "idle", !.picked = None] /\ RunNone
      <3>1. form'.step = "idle"
        BY <1>3, <2>1 DEF FormTyped
      <3> QED
        BY <1>4, <1>10, <2>1, <3>1 DEF RenameKey, FormSteps
    <2>2. CASE \E a \in selectedAccount, name \in Names :
                 /\ form' = [form EXCEPT !.step = "mutating"]
                 /\ Run(<<Command("rename", <<>>,
                                  [id |-> a.id, name |-> name, picked |-> form.picked])>>)
      <3>1. PICK a \in selectedAccount, name \in Names :
                 /\ form' = [form EXCEPT !.step = "mutating"]
                 /\ Run(<<Command("rename", <<>>,
                                  [id |-> a.id, name |-> name, picked |-> form.picked])>>)
        BY <2>2
      <3> PICK cmd : cmd = Command("rename", <<>>, [id |-> a.id, name |-> name, picked |-> form.picked])
        OBVIOUS
      <3>2. /\ CommandOK(cmd) /\ cmd.kind = "rename"
            /\ cmd.arg.id = a.id /\ cmd.arg.picked = form.picked
        BY DEF Command, CommandOK, Kinds, Lists
      <3>3. \A b \in selectedAccount : b = a
        BY DEF selectedAccount
      <3>4. cmd.arg.picked \in {None, cmd.arg.id}
        BY <1>10, <3>2, <3>3 DEF RenameKey, KeysInv, RenameInv
      <3> QED
        BY <1>8, <1>10, <3>1, <3>2, <3>4 DEF RenameKey
    <2> QED
      BY <1>10, <2>1, <2>2 DEF RenameKey
  <1>11. CASE ErrorKey
    BY <1>5, <1>11 DEF ErrorKey, FormSteps
  <1> QED
    BY <1>6, <1>7, <1>9, <1>10, <1>11 DEF AccountsKey

LEMMA ImportKeyKeys ==
    ASSUME TypeInv, KeysInv, ImportKey
    PROVE  KeysInv'
  <1>1. UNCHANGED <<phase, activeView, selected, accounts, screen, form>> /\ activeView = "import"
    BY DEF ImportKey
  <1>2. LoadedInv'
    BY <1>1 DEF KeysInv, LoadedInv
  <1>3. ImportOK
    BY DEF TypeInv
  <1>4. ASSUME RunNone, import.step # "running", import'.step # "running",
               ZeroViews => import'.step = "idle"
        PROVE  KeysInv'
    <2>1. net' = net
      BY <1>4 DEF RunNone
    <2>2. FormsInv'
      BY <1>1, <1>4, <2>1 DEF KeysInv, FormsInv, StartInv, Awaits, Outstanding, ZeroViews
    <2>3. RenameInv'
      BY <1>1, <2>1 DEF KeysInv, RenameInv, RenameHitsPicked, Outstanding, selectedAccount
    <2> QED
      BY <1>2, <2>2, <2>3 DEF KeysInv
  <1>5. CASE StartImport
    BY <1>3, <1>4, <1>5 DEF StartImport, ImportOK, KeysInv, FormsInv, StartInv
  <1>6. CASE PickFile
    BY <1>3, <1>4, <1>6 DEF PickFile, ImportOK, KeysInv, FormsInv, StartInv
  <1>7. CASE DismissResult
    BY <1>3, <1>4, <1>7 DEF DismissResult, ImportOK, KeysInv, FormsInv, StartInv
  <1>8. CASE ConfirmImport
    <2>1. ~ZeroViews /\ import.step = "confirm"
      BY <1>8 DEF ConfirmImport, KeysInv, FormsInv, StartInv
    <2>2. CASE RunNone /\ import'.step # "running"
      BY <1>4, <2>1, <2>2
    <2>3. CASE /\ import' = [import EXCEPT !.step = "running"]
               /\ Run(<<Command("import", <<selected>>, brokerEnum(import.broker))>>)
      <3> PICK cmd : cmd = Command("import", <<selected>>, brokerEnum(import.broker))
        OBVIOUS
      <3>1. CommandOK(cmd) /\ cmd.kind = "import"
        BY DEF Command, CommandOK, Kinds
      <3>2. Run(<<cmd>>)
        BY <2>3
      <3>3. /\ \A kinds : Outstanding(kinds)' = IF cmd.kind \in kinds
                                                THEN Outstanding(kinds) \cup {issued + 1}
                                                ELSE Outstanding(kinds)
            /\ issued + 1 \in DOMAIN net'
            /\ \A n \in DOMAIN net : net'[n] = net[n]
        BY <3>1, <3>2, SendAwaits
      <3>4. import'.step = "running"
        BY <1>3, <2>3 DEF ImportOK
      <3>5. /\ Outstanding({"import"})' = {issued + 1}
            /\ Outstanding({"create", "rename"})' = Outstanding({"create", "rename"})
            /\ Outstanding({"init"})' = Outstanding({"init"})
            /\ Outstanding({"rename"})' = Outstanding({"rename"})
        BY <2>1, <3>1, <3>3 DEF KeysInv, FormsInv, Awaits
      <3>6. FormsInv'
        <4>1. StartInv'
          BY <1>1, <2>1, <3>5 DEF KeysInv, FormsInv, StartInv, ZeroViews
        <4>2. Awaits({"import"}, import.step = "running")'
          BY <3>3, <3>4, <3>5 DEF Awaits
        <4>3. Awaits({"create", "rename"}, form.step = "mutating")'
          BY <1>1, <3>5 DEF KeysInv, FormsInv, Awaits, Outstanding
        <4> QED
          BY <1>1, <4>1, <4>2, <4>3 DEF KeysInv, FormsInv
      <3>7. RenameInv'
        BY <1>1, <3>3, <3>5 DEF KeysInv, RenameInv, RenameHitsPicked, Outstanding, selectedAccount
      <3> QED
        BY <1>2, <3>6, <3>7 DEF KeysInv
    <2> QED
      BY <1>3, <1>8, <2>2, <2>3 DEF ConfirmImport, ImportOK
  <1> QED
    BY <1>5, <1>6, <1>7, <1>8 DEF ImportKey

LEMMA ServeKeys ==
    ASSUME TypeInv, KeysInv, NEW n \in DOMAIN net, ServeAccounts(n)
    PROVE  KeysInv'
  <1>1. UNCHANGED <<phase, activeView, selected, accounts, screen, form, import>>
    BY DEF ServeAccounts
  <1>2. PICK answer : net' = [net EXCEPT ![n].answer = answer]
    BY DEF ServeAccounts, Answer
  <1>3. \A m \in DOMAIN net : CommandOK(net[m])
    BY DEF TypeInv, CommandsOK
  <1>4. /\ DOMAIN net' = DOMAIN net
        /\ \A m \in DOMAIN net : net'[m].kind = net[m].kind /\ net'[m].arg = net[m].arg
    BY <1>2, <1>3 DEF CommandOK
  <1>5. \A kinds : Outstanding(kinds)' = Outstanding(kinds)
    BY <1>4 DEF Outstanding
  <1>6. QuietNet
    BY <1>4, <1>5 DEF QuietNet, Outstanding
  <1> QED
    BY <1>1, <1>6, QuietKeeps DEF KeysInv

\* The answer to command n is delivered.
LEMMA AnswerLeaves ==
    ASSUME TypeInv, NEW n \in DOMAIN net, net' = Without(n)
    PROVE  /\ \A kinds : Outstanding(kinds)' = Outstanding(kinds) \ {n}
           /\ \A kinds : net[n].kind \notin kinds => Outstanding(kinds)' = Outstanding(kinds)
           /\ \A m \in DOMAIN net' : m \in DOMAIN net /\ net'[m] = net[m]
  BY DEF Outstanding, Without

LEMMA LoadAnswerIsQuiet ==
    ASSUME TypeInv, NEW n \in DOMAIN net, net[n].kind \in Loads \cup {"detail"},
           net' = Without(n) \/ net' = MarkLate(Without(n))
    PROVE  QuietNet
  <1>1. /\ OutOK(Without(n)) /\ DOMAIN Without(n) = DOMAIN net \ {n}
        /\ \A m \in DOMAIN Without(n) : Without(n)[m] = net[m]
        /\ \A kinds : Of(Without(n), kinds) = Outstanding(kinds) \ {n}
    BY WithoutKeeps DEF TypeInv
  <1>2. /\ DOMAIN net' = DOMAIN net \ {n}
        /\ \A m \in DOMAIN net' : net'[m].arg = net[m].arg
        /\ \A kinds : Of(net', kinds) = Outstanding(kinds) \ {n}
    BY <1>1, MarkLateKeeps
  <1>3. \A kinds : Outstanding(kinds)' = Of(net', kinds)
    BY DEF Outstanding, Of
  <1>4. \A m \in Outstanding({"rename"})' : m \in DOMAIN net /\ net'[m].arg = net[m].arg
    BY <1>2 DEF Outstanding
  <1> QED
    BY <1>2, <1>3, <1>4, LoadsAreQuiet

LEMMA LoadedKeys ==
    ASSUME TypeInv, KeysInv, NEW n \in DOMAIN net,
           ListLoaded(n) \/ DetailLoaded(n) \/ AccountsLoaded(n)
    PROVE  KeysInv'
  <1>1. QuietNet
    BY LoadAnswerIsQuiet DEF ListLoaded, DetailLoaded, AccountsLoaded, Loads, Lists
  <1>2. UNCHANGED <<phase, activeView, selected, accounts, import>>
    BY DEF ListLoaded, DetailLoaded, AccountsLoaded
  <1>3. form'.step = form.step /\ (form' = form \/ form'.picked = None)
    BY DEF ListLoaded, DetailLoaded, AccountsLoaded, Rebuilt, TypeInv, FormOK, FormTyped
  <1>4. screen'.for = screen.for
    BY DEF ListLoaded, DetailLoaded, AccountsLoaded, PositionsLoaded, HistoryLoaded, TradesLoaded,
           AnalyticsLoaded, Answered, ChainDetailLoaded, TypeInv, ScreenOK
  <1> QED
    BY <1>1, <1>2, <1>3, <1>4, QuietKeeps DEF KeysInv

LEMMA AccountsChangedKeys ==
    ASSUME TypeInv, KeysInv, NEW n \in DOMAIN net, AccountsChanged(n)
    PROVE  KeysInv'
  <1>1. net[n].kind = "fresh" /\ net' = Without(n)
    BY DEF AccountsChanged
  <1>2. ~ZeroViews
    BY <1>1 DEF KeysInv, FormsInv, StartInv, Outstanding
  <1>3. UNCHANGED <<phase, activeView, selected, screen, import>>
    BY DEF AccountsChanged
  <1>4. form'.step = form.step /\ (form' = form \/ form'.picked = None)
    BY DEF AccountsChanged, Rebuilt, TypeInv, FormOK, FormTyped
  <1>5. /\ Outstanding({"import"})' = Outstanding({"import"})
        /\ Outstanding({"create", "rename"})' = Outstanding({"create", "rename"})
        /\ Outstanding({"init"})' = Outstanding({"init"})
        /\ Outstanding({"rename"})' = Outstanding({"rename"})
        /\ \A m \in DOMAIN net' : m \in DOMAIN net /\ net'[m] = net[m]
    BY <1>1, AnswerLeaves
  <1>6. FormsInv'
    <2>1. StartInv'
      BY <1>2, <1>3, <1>5 DEF KeysInv, FormsInv, StartInv, ZeroViews
    <2> QED
      BY <1>3, <1>4, <1>5, <2>1 DEF KeysInv, FormsInv, Awaits, Outstanding
  <1>7. RenameInv'
    BY <1>4, <1>5 DEF KeysInv, RenameInv, RenameHitsPicked, Outstanding, selectedAccount
  <1> QED
    BY <1>3, <1>6, <1>7 DEF KeysInv, LoadedInv

LEMMA MutatedKeys ==
    ASSUME TypeInv, KeysInv, NEW n \in DOMAIN net, Mutated(n)
    PROVE  KeysInv'
  <1>1. n \in Outstanding({"create", "rename"})
    BY DEF Mutated, Outstanding
  <1>2. /\ form.step = "mutating" /\ Outstanding({"create", "rename"}) = {n}
        /\ activeView = "accounts"
    BY <1>1 DEF KeysInv, FormsInv, Awaits
  <1>3. ~ZeroViews
    BY <1>2 DEF KeysInv, FormsInv, StartInv
  <1>4. UNCHANGED <<phase, activeView, selected, accounts, screen, import>>
        /\ AccountMutated(n, net[n].answer)
    BY <1>2 DEF Mutated
  <1>5. form'.step \in {"idle", "error"}
    BY <1>4 DEF AccountMutated, TypeInv, FormOK, FormTyped
  <1>6. /\ Outstanding({"create", "rename"})' = {} /\ Outstanding({"rename"})' = {}
        /\ Outstanding({"import"})' = Outstanding({"import"})
        /\ Outstanding({"init"})' = Outstanding({"init"})
    <2>1. CASE net' = Without(n)
      <3>1. /\ \A kinds : Outstanding(kinds)' = Outstanding(kinds) \ {n}
            /\ \A kinds : net[n].kind \notin kinds => Outstanding(kinds)' = Outstanding(kinds)
        BY <2>1, AnswerLeaves
      <3>2. net[n].kind \in {"create", "rename"} /\ Outstanding({"rename"}) \subseteq {n}
        BY <1>1, <1>2 DEF Outstanding
      <3> QED
        BY <1>2, <3>1, <3>2
    <2>2. CASE FollowUp(n, Command("fresh", <<>>, None))
      <3>1. /\ DOMAIN net' = DOMAIN net /\ net'[n].kind = "fresh"
            /\ \A m \in DOMAIN net \ {n} : net'[m] = net[m]
        BY <2>2 DEF FollowUp, Command, TypeInv, CommandsOK
      <3> QED
        BY <1>1, <1>2, <3>1 DEF Outstanding
    <2> QED
      BY <1>4, <2>1, <2>2 DEF AccountMutated
  <1>7. FormsInv'
    <2>1. StartInv'
      BY <1>3, <1>4, <1>6 DEF KeysInv, FormsInv, StartInv, ZeroViews
    <2>2. Awaits({"import"}, import.step = "running")'
      BY <1>4, <1>6 DEF KeysInv, FormsInv, Awaits, Outstanding
    <2> QED
      BY <1>4, <1>5, <1>6, <2>1, <2>2 DEF KeysInv, FormsInv, Awaits
  <1>8. RenameInv' /\ LoadedInv'
    BY <1>4, <1>5, <1>6 DEF KeysInv, RenameInv, RenameHitsPicked, LoadedInv
  <1> QED
    BY <1>7, <1>8 DEF KeysInv

LEMMA ImportAnsweredKeys ==
    ASSUME TypeInv, KeysInv, NEW n \in DOMAIN net, ImportAnswered(n)
    PROVE  KeysInv'
  <1>1. n \in Outstanding({"import"}) /\ net' = Without(n)
    BY DEF ImportAnswered, Outstanding
  <1>2. import.step = "running" /\ Outstanding({"import"}) = {n} /\ activeView = "import"
    BY <1>1 DEF KeysInv, FormsInv, Awaits
  <1>3. ~ZeroViews
    BY <1>2 DEF KeysInv, FormsInv, StartInv
  <1>4. UNCHANGED <<phase, activeView, selected, accounts, screen, form>>
    BY DEF ImportAnswered
  <1>5. import'.step = "done"
    BY <1>2 DEF ImportAnswered, ImportDone, TypeInv, ImportOK
  <1>6. /\ Outstanding({"import"})' = {}
        /\ Outstanding({"create", "rename"})' = Outstanding({"create", "rename"})
        /\ Outstanding({"init"})' = Outstanding({"init"})
        /\ Outstanding({"rename"})' = Outstanding({"rename"})
        /\ \A m \in DOMAIN net' : m \in DOMAIN net /\ net'[m] = net[m]
    <2>1. net[n].kind = "import"
      BY DEF ImportAnswered
    <2> QED
      BY <1>1, <1>2, <2>1, AnswerLeaves
  <1>7. FormsInv'
    <2>1. StartInv'
      BY <1>3, <1>4, <1>6 DEF KeysInv, FormsInv, StartInv, ZeroViews
    <2>2. Awaits({"create", "rename"}, form.step = "mutating")'
      BY <1>4, <1>6 DEF KeysInv, FormsInv, Awaits, Outstanding
    <2> QED
      BY <1>4, <1>5, <1>6, <2>1, <2>2 DEF KeysInv, FormsInv, Awaits
  <1>8. RenameInv' /\ LoadedInv'
    BY <1>4, <1>6 DEF KeysInv, RenameInv, RenameHitsPicked, LoadedInv, Outstanding, selectedAccount
  <1> QED
    BY <1>7, <1>8 DEF KeysInv

LEMMA FirstLoad ==
    ASSUME CommandsOK, NEW n, activeView \in View, NEW state,
           state.selected \in {All} \cup AccountId, state.accounts \in Seq(Account),
           loadView(activeView, state, NewAccountsView, Without(n))
    PROVE  /\ screen'.for = state.selected
           /\ form' = NewAccountsView \/ form'.step = "idle"
           /\ \A kinds : kinds \cap Loads = {} => Outstanding(kinds)' = Of(Without(n), kinds)
  <1> PICK c, f, view : c = Without(n) /\ f = NewAccountsView /\ view = activeView
    OBVIOUS
  <1>1. OutOK(c) /\ FormTyped(f) /\ loadView(view, state, f, c)
    <2>1. OutOK(Without(n))
      BY WithoutKeeps
    <2>2. FormTyped(NewAccountsView)
      BY EmptySeq DEF FormTyped, FormSteps, NewAccountsView
    <2> QED
      BY <2>1, <2>2
  <1>2. /\ screen'.for = state.selected
        /\ form' = f \/ (view = "accounts" /\ form'.step = "idle")
        /\ \A kinds : kinds \cap Loads = {} => Outstanding(kinds)' = Of(c, kinds)
    BY <1>1, LoadViewLoads
  <1> QED
    BY <1>2

LEMMA InitializedKeys ==
    ASSUME TypeInv, KeysInv, NEW n \in DOMAIN net, Initialized(n)
    PROVE  KeysInv'
  <1>1. n \in Outstanding({"init"}) /\ n = 0 /\ phase = "connecting"
    BY DEF Initialized, Outstanding, KeysInv, FormsInv, StartInv
  <1>2. /\ ZeroViews /\ selected = All /\ import.step = "idle" /\ form.step = "idle"
        /\ Outstanding({"create", "rename", "fresh", "import"}) = {}
    BY <1>1 DEF KeysInv, FormsInv, StartInv, ZeroViews
  <1>3. \A m \in Outstanding({"init"}) : m = n
    BY <1>1 DEF KeysInv, FormsInv, StartInv
  <1>4. UNCHANGED <<activeView, selected>>
    BY DEF Initialized
  <1>5. OutOK(Without(n)) /\ \A kinds : Of(Without(n), kinds) = Outstanding(kinds) \ {n}
    BY WithoutKeeps DEF TypeInv
  <1>6. CommandOK(net[n])
    BY DEF TypeInv, CommandsOK
  <1>7. CASE net[n].answer.ok
    <2> PICK value : value = net[n].answer.value
      OBVIOUS
    <2>1. value \in Seq(Account)
      BY <1>6, <1>7 DEF Initialized, CommandOK
    <2> PICK state : state = [State EXCEPT !.accounts = value]
      OBVIOUS
    <2>2. /\ state.selected = selected /\ state.selected \in {All} \cup AccountId
          /\ state.accounts \in Seq(Account) /\ activeView \in View
      BY <2>1 DEF State, TypeInv, SelectionOK
    <2>3. /\ loadView(activeView, state, NewAccountsView, Without(n))
          /\ phase' = "ready" /\ import' = NewImportView
      BY <1>7 DEF Initialized
    <2>4. /\ screen'.for = selected
          /\ form' = NewAccountsView \/ form'.step = "idle"
          /\ \A kinds : kinds \cap Loads = {} => Outstanding(kinds)' = Of(Without(n), kinds)
      BY <2>2, <2>3, FirstLoad DEF TypeInv
    <2>5. \A kinds \in Watched : Outstanding(kinds)' = Outstanding(kinds) \ {n}
      BY <1>5, <2>4, WatchedAreNoLoads
    <2>6. /\ Outstanding({"import"})' = {} /\ Outstanding({"create", "rename"})' = {}
          /\ Outstanding({"rename"})' = {} /\ Outstanding({"init"})' = {}
      BY <1>2, <1>3, <2>5 DEF Watched, Outstanding
    <2>7. form'.step = "idle" /\ import'.step = "idle"
      BY <2>3, <2>4 DEF NewAccountsView, NewImportView
    <2>8. FormsInv'
      BY <2>3, <2>6, <2>7 DEF FormsInv, StartInv, Awaits, ZeroViews
    <2>9. RenameInv' /\ LoadedInv'
      BY <1>4, <2>4, <2>6, <2>7 DEF RenameInv, RenameHitsPicked, LoadedInv
    <2> QED
      BY <2>8, <2>9 DEF KeysInv
  <1>8. CASE ~net[n].answer.ok
    <2>1. phase' = "failed" /\ net' = Without(n) /\ UNCHANGED <<accounts, import, screen, form>>
      BY <1>8 DEF Initialized
    <2>2. \A kinds : Outstanding(kinds)' = Outstanding(kinds) \ {n}
      BY <2>1, AnswerLeaves
    <2>3. /\ Outstanding({"import"})' = {} /\ Outstanding({"create", "rename"})' = {}
          /\ Outstanding({"rename"})' = {} /\ Outstanding({"init"})' = {}
          /\ Outstanding({"create", "rename", "fresh", "import"})' = {}
      BY <1>2, <1>3, <2>2 DEF Outstanding
    <2>4. FormsInv'
      BY <1>1, <1>2, <1>4, <2>1, <2>3 DEF KeysInv, FormsInv, StartInv, Awaits, ZeroViews
    <2>5. RenameInv' /\ LoadedInv'
      BY <1>2, <1>4, <2>1, <2>3 DEF KeysInv, RenameInv, RenameHitsPicked, LoadedInv
    <2> QED
      BY <2>4, <2>5 DEF KeysInv
  <1> QED
    BY <1>7, <1>8

LEMMA NextKeys == TypeInv /\ KeysInv /\ [Next]_vars => KeysInv'
  <1> SUFFICES ASSUME TypeInv, KeysInv, [Next]_vars PROVE KeysInv'
    OBVIOUS
  <1>1. CASE switchView \/ ChangeAccount \/ WindowSize
    BY <1>1, SwitchKeys, ChangeAccountKeys, WindowKeys
  <1>2. CASE Key
    BY <1>2, PositionsKeyKeys, TradesKeyKeys, AccountsKeyKeys, ImportKeyKeys DEF Key
  <1>3. CASE Quit \/ ZeroViewPanic
    BY <1>3, EndedKeys DEF Quit, ZeroViewPanic
  <1>4. ASSUME NEW n \in DOMAIN net, CommandStep(n) PROVE KeysInv'
    BY <1>4, ServeKeys, InitializedKeys, LoadedKeys, AccountsChangedKeys, MutatedKeys,
       ImportAnsweredKeys DEF CommandStep
  <1>5. CASE UNCHANGED vars
    BY <1>5, SameNetIsQuiet, QuietKeeps DEF vars, KeysInv
  <1> QED
    BY <1>1, <1>2, <1>3, <1>4, <1>5 DEF Next

LEMMA KeysInvHolds == Spec => []KeysInv
  <1>1. Init => TypeInv /\ KeysInv
    BY InitTypes, InitKeys
  <1>2. (TypeInv /\ KeysInv) /\ [Next]_vars => (TypeInv /\ KeysInv)'
    BY NextTypes, NextKeys
  <1> QED
    BY <1>1, <1>2, PTL DEF Spec

\* While a form shows that it is saving or importing, exactly one command is out
\* whose answer will end that, and the form's view is the active one, which is
\* where the answer goes; no other time is such a command out.
THEOREM FormsWait == Spec => []FormsAwaitTheirAnswer
  <1>1. KeysInv => FormsAwaitTheirAnswer
    BY FS_EmptySet, FS_Singleton DEF KeysInv, FormsInv, Awaits, FormsAwaitTheirAnswer
  <1> QED
    BY <1>1, KeysInvHolds, PTL

\* The list view shows, or waits for, what was asked for the account that the
\* header names.
THEOREM SelectionIsLoaded == Spec => []LoadedForSelection
  <1>1. KeysInv => LoadedForSelection
    BY DEF KeysInv, LoadedInv, LoadedForSelection
  <1> QED
    BY <1>1, KeysInvHolds, PTL

\* A rename on its way to the server is for the account it was started on, or for
\* one of a table that was rebuilt since.
THEOREM RenamesHit == Spec => []RenameHitsPicked
  <1>1. KeysInv => RenameHitsPicked
    BY DEF KeysInv, RenameInv
  <1> QED
    BY <1>1, KeysInvHolds, PTL

-----------------------------------------------------------------------------
(* Chain details and the positions they were asked for.                     *)

\* In the positions view, a detail that was filed, or is out, fits the position
\* at its index unless it is late.
DetailInv ==
    activeView = "positions" =>
    /\ DetailFitsUnlessLate
    /\ \A n \in Outstanding({"detail"}) :
          LET arg == net[n].arg
          IN ~net[n].late => /\ arg.idx \in DOMAIN screen.shown
                             /\ arg.chain = screen.shown[arg.idx].chain

\* A chain is answered under the id that was asked for.
LEMMA ChainAnswered ==
    ASSUME NEW account, NEW chain, GetChain(account, chain).ok
    PROVE  GetChain(account, chain).value.id = chain
  BY DEF GetChain, GetChainDetail, toGRPCError, Error, Ok

LEMMA MarkLateMarks ==
    ASSUME NEW c, OutOK(c), NEW n \in DOMAIN c, c[n].kind = "detail"
    PROVE  MarkLate(c)[n].late
  <1> PICK cmd : cmd = c[n]
    OBVIOUS
  <1>1. CommandOK(cmd)
    BY DEF OutOK
  <1>2. MarkLate(c)[n] = [cmd EXCEPT !.late = TRUE]
    BY DEF MarkLate
  <1> QED
    BY <1>1, <1>2 DEF CommandOK

\* Steps that change neither the positions shown nor the details that are out.
LEMMA SameDetails ==
    ASSUME DetailInv, UNCHANGED <<activeView, screen>>,
           \A n \in Outstanding({"detail"})' : /\ n \in Outstanding({"detail"})
                                              /\ net'[n].arg = net[n].arg
                                              /\ net'[n].late = net[n].late
    PROVE  DetailInv'
  BY DEF DetailInv, DetailFitsUnlessLate

LEMMA LoadViewDetails ==
    ASSUME CommandsOK, NEW view \in View, NEW c, OutOK(c), NEW f,
           NEW state, state.selected \in {All} \cup AccountId, state.accounts \in Seq(Account),
           loadView(view, state, f, c), activeView' = view
    PROVE  DetailInv'
  <1> SUFFICES ASSUME view = "positions" PROVE DetailInv'
    BY DEF DetailInv
  <1> PICK cmds, d : cmds = LoadCommands(view, state) /\ d = MarkLate(c)
    OBVIOUS
  <1>1. /\ Len(cmds) \in Nat
        /\ \A k \in 1..Len(cmds) : CommandOK(cmds[k]) /\ cmds[k].kind \in Loads
    BY LoadCommandsOK
  <1>2. OutOK(d) /\ DOMAIN d = DOMAIN c /\ \A n \in DOMAIN c : d[n].kind = c[n].kind
    BY MarkLateKeeps
  <1>3. RunOn(d, cmds)
    BY DEF loadView
  <1>4. \A k \in 1..Len(cmds) : cmds[k].kind \notin {"detail"}
    BY <1>1 DEF Loads, Lists
  <1>5. Outstanding({"detail"})' = Of(d, {"detail"})
    BY <1>1, <1>2, <1>3, <1>4, RunOnKeeps, Zenon
  <1>6. \A n \in DOMAIN d : net'[n] = d[n]
    BY <1>1, <1>2, <1>3, RunOnRuns, Zenon
  <1>7. ASSUME NEW n \in Outstanding({"detail"})' PROVE net'[n].late
    <2>1. n \in DOMAIN c /\ c[n].kind = "detail" /\ net'[n] = d[n]
      BY <1>2, <1>5, <1>6 DEF Of
    <2> QED
      BY <2>1, MarkLateMarks
  <1>8. DOMAIN screen'.chains = {}
    BY DEF loadView, Loading
  <1> QED
    BY <1>7, <1>8 DEF DetailInv, DetailFitsUnlessLate

LEMMA RunOnAdds ==
    ASSUME CommandsOK, NEW cmds, Len(cmds) \in Nat, \A k \in 1..Len(cmds) : CommandOK(cmds[k]),
           Run(cmds), NEW n \in DOMAIN net'
    PROVE  (n \in DOMAIN net /\ net'[n] = net[n]) \/ \E k \in 1..Len(cmds) : net'[n] = cmds[k]
  <1>1. OutOK(net) /\ RunOn(net, cmds) /\ issued \in Nat
    <2>1. OutOK(net) /\ RunOn(net, cmds)
      BY WithoutKeeps DEF Run
    <2>2. issued \in Nat
      BY DEF CommandsOK
    <2> QED
      BY <2>1, <2>2
  <1>2. /\ DOMAIN net' = DOMAIN net \cup (issued + 1)..(issued + Len(cmds))
        /\ \A m \in DOMAIN net : net'[m] = net[m]
        /\ \A k \in 1..Len(cmds) : net'[issued + k] = cmds[k]
    BY <1>1, RunOnRuns, Zenon
  <1>3. CASE n \in (issued + 1)..(issued + Len(cmds))
    <2>1. n - issued \in 1..Len(cmds) /\ issued + (n - issued) = n
      BY <1>1, <1>3
    <2> QED
      BY <1>2, <2>1
  <1> QED
    BY <1>2, <1>3

LEMMA PositionsKeyFetches ==
    ASSUME TypeInv, PositionsKey, NEW n \in DOMAIN net'
    PROVE  \/ n \in DOMAIN net /\ net'[n] = net[n]
           \/ \E idx \in DOMAIN screen.shown : net'[n] = FetchDetail(idx)
  <1>1. CommandsOK
    BY DEF TypeInv
  <1>2. \A idx : CommandOK(FetchDetail(idx))
    BY DEF FetchDetail, Command, CommandOK, Kinds
  <1>3. ASSUME NEW idx \in DOMAIN screen.shown, Run(<<FetchDetail(idx)>>)
        PROVE  (n \in DOMAIN net /\ net'[n] = net[n]) \/ net'[n] = FetchDetail(idx)
    <2> PICK cmd : cmd = FetchDetail(idx)
      OBVIOUS
    <2>1. /\ DOMAIN net' = DOMAIN net \cup {issued + 1} /\ net'[issued + 1] = cmd
          /\ \A m \in DOMAIN net : net'[m] = net[m]
      BY <1>1, <1>2, <1>3, RunOneRuns
    <2> QED
      BY <2>1
  <1>4. CASE PositionsExpandAll
    <2> PICK todo : todo = {idx \in DOMAIN screen.shown :
                              Expandable(idx) /\ idx \notin DOMAIN screen.chains \cup screen.fetching}
      OBVIOUS
    <2> PICK m, order, cmds : /\ m = Cardinality(todo) /\ order = InOrder(todo)
                              /\ cmds = [k \in DOMAIN order |-> FetchDetail(order[k])]
      OBVIOUS
    <2>1. Run(cmds)
      BY <1>4 DEF PositionsExpandAll
    <2>2. m \in Nat /\ order \in [1..m -> todo]
      BY ShownFinite, InOrderLists DEF TypeInv, PositionsKey
    <2>3. cmds = [k \in 1..m |-> FetchDetail(order[k])]
      BY <2>2
    <2>4. Len(cmds) = m
      BY <2>2, <2>3
    <2>5. Len(cmds) \in Nat /\ \A k \in 1..Len(cmds) : CommandOK(cmds[k])
      <3>1. \A k \in 1..m : CommandOK(cmds[k])
        BY <1>2, <2>3
      <3> QED
        BY <2>2, <2>4, <3>1
    <2>6. (n \in DOMAIN net /\ net'[n] = net[n]) \/ \E k \in 1..Len(cmds) : net'[n] = cmds[k]
      BY <1>1, <2>1, <2>5, RunOnAdds, Zenon
    <2>7. ASSUME NEW k \in 1..Len(cmds)
          PROVE  \E idx \in DOMAIN screen.shown : cmds[k] = FetchDetail(idx)
      <3>1. order[k] \in DOMAIN screen.shown /\ cmds[k] = FetchDetail(order[k])
        BY <2>2, <2>3, <2>4
      <3> QED
        BY <3>1
    <2> QED
      BY <2>6, <2>7, Zenon
  <1>5. CASE RunNone
    BY <1>5 DEF RunNone
  <1>6. CASE PositionsEnter
    <2>1. PICK idx \in DOMAIN screen.shown : RunNone \/ Run(<<FetchDetail(idx)>>)
      BY <1>6 DEF PositionsEnter, positionIdxAtCursor
    <2> QED
      BY <1>3, <1>5, <2>1
  <1> QED
    BY <1>4, <1>5, <1>6 DEF PositionsKey, PositionsEsc

LEMMA PositionsKeyDetails ==
    ASSUME TypeInv, DetailInv, PositionsKey
    PROVE  DetailInv'
  <1>1. activeView = "positions"
    BY DEF PositionsKey
  <1>2. /\ screen'.shown = screen.shown /\ DOMAIN screen'.chains \subseteq DOMAIN screen.chains
        /\ \A idx \in DOMAIN screen'.chains : screen'.chains[idx] = screen.chains[idx]
    <2>1. ScreenOK
      BY DEF TypeInv
    <2>2. CASE PositionsEnter
      <3>1. PICK idx : screen' = WithoutDetail(idx)
                       \/ screen' = [screen EXCEPT !.fetching = screen.fetching \cup {idx}]
        BY <2>2 DEF PositionsEnter
      <3>2. CASE screen' = WithoutDetail(idx)
        <4>1. /\ screen'.shown = screen.shown
              /\ screen'.chains = [i \in DOMAIN screen.chains \ {idx} |-> screen.chains[i]]
          BY <2>1, <3>2 DEF ScreenOK, WithoutDetail
        <4> QED
          BY <4>1
      <3>3. CASE screen' = [screen EXCEPT !.fetching = screen.fetching \cup {idx}]
        BY <2>1, <3>3 DEF ScreenOK
      <3> QED
        BY <3>1, <3>2, <3>3
    <2>3. CASE PositionsExpandAll
      BY <2>1, <2>3 DEF PositionsExpandAll, ScreenOK
    <2>4. CASE PositionsEsc
      BY <2>1, <2>4 DEF PositionsEsc, ScreenOK
    <2> QED
      BY <2>2, <2>3, <2>4 DEF PositionsKey
  <1>3. DetailFitsUnlessLate'
    BY <1>1, <1>2 DEF DetailInv, DetailFitsUnlessLate
  <1>4. ASSUME NEW n \in Outstanding({"detail"})', ~net'[n].late
        PROVE  /\ net'[n].arg.idx \in DOMAIN screen.shown
               /\ net'[n].arg.chain = screen.shown[net'[n].arg.idx].chain
    <2>1. CASE n \in DOMAIN net /\ net'[n] = net[n]
      BY <1>1, <1>4, <2>1 DEF DetailInv, Outstanding
    <2>2. CASE \E idx \in DOMAIN screen.shown : net'[n] = FetchDetail(idx)
      BY <2>2 DEF FetchDetail, Command
    <2>3. n \in DOMAIN net'
      BY DEF Outstanding
    <2> QED
      BY <2>1, <2>2, <2>3, PositionsKeyFetches
  <1> QED
    BY <1>2, <1>3, <1>4 DEF DetailInv

LEMMA ListLoadedDetails ==
    ASSUME TypeInv, DetailInv, NEW n \in DOMAIN net, ListLoaded(n)
    PROVE  DetailInv'
  <1>1. activeView' = activeView /\ CommandsOK
    BY DEF ListLoaded, TypeInv
  <1> SUFFICES ASSUME activeView = "positions" PROVE DetailInv'
    BY <1>1 DEF DetailInv
  <1>2. /\ OutOK(Without(n)) /\ DOMAIN Without(n) = DOMAIN net \ {n}
        /\ \A m \in DOMAIN Without(n) : Without(n)[m] = net[m]
    BY <1>1, WithoutKeeps
  <1>3. CASE net[n].kind # "positions"
    <2>1. screen' = screen /\ net' = Without(n)
      BY <1>3 DEF ListLoaded
    <2> QED
      BY <1>1, <1>2, <2>1, SameDetails DEF Outstanding
  <1>4. CASE net[n].kind = "positions"
    <2>1. net' = MarkLate(Without(n)) /\ \E ans : screen' = PositionsLoaded(ans)
      BY <1>4 DEF ListLoaded
    <2>2. PICK ans : screen' = PositionsLoaded(ans)
      BY <2>1
    <2>3. ASSUME NEW m \in Outstanding({"detail"})' PROVE net'[m].late
      <3> PICK c : c = Without(n)
        OBVIOUS
      <3>1. OutOK(c) /\ net' = MarkLate(c)
        BY <1>2, <2>1
      <3>2. m \in DOMAIN c /\ c[m].kind = "detail"
        BY <3>1, MarkLateKeeps DEF Outstanding
      <3> QED
        BY <3>1, <3>2, MarkLateMarks
    <2>4. DetailFitsUnlessLate'
      <3>1. ScreenOK
        BY DEF TypeInv
      <3>2. CASE ans.ok
        <4>1. DOMAIN screen'.chains = {}
          BY <2>2, <3>1, <3>2 DEF PositionsLoaded, Answered, ScreenOK
        <4> QED
          BY <4>1 DEF DetailFitsUnlessLate
      <3>3. CASE ~ans.ok
        <4>1. screen'.chains = screen.chains /\ screen'.shown = screen.shown
          BY <2>2, <3>1, <3>3 DEF PositionsLoaded, Answered, ScreenOK
        <4> QED
          BY <1>1, <4>1 DEF DetailInv, DetailFitsUnlessLate
      <3> QED
        BY <3>2, <3>3
    <2> QED
      BY <2>3, <2>4 DEF DetailInv
  <1> QED
    BY <1>3, <1>4

LEMMA DetailLoadedDetails ==
    ASSUME TypeInv, DetailInv, NEW n \in DOMAIN net, DetailLoaded(n)
    PROVE  DetailInv'
  <1>1. activeView' = activeView /\ net' = Without(n) /\ net[n].kind = "detail"
    BY DEF DetailLoaded
  <1> SUFFICES ASSUME activeView = "positions" PROVE DetailInv'
    BY <1>1 DEF DetailInv
  <1> PICK cmd, arg, ans : cmd = net[n] /\ arg = cmd.arg /\ ans = GetChain(arg.account, arg.chain)
    OBVIOUS
  <1>2. ~cmd.late => arg.idx \in DOMAIN screen.shown /\ arg.chain = screen.shown[arg.idx].chain
    BY <1>1 DEF DetailInv, Outstanding
  <1>3. PICK reached \in BOOLEAN : screen' = ChainDetailLoaded(cmd, reached)
    BY DEF DetailLoaded
  <1>4. /\ screen'.shown = screen.shown
        /\ screen'.chains = IF reached /\ ans.ok THEN WithDetail(cmd, ans.value) ELSE screen.chains
    BY <1>3 DEF ChainDetailLoaded, TypeInv, ScreenOK
  <1>5. DetailFitsUnlessLate'
    <2>1. CASE reached /\ ans.ok
      <3>1. ans.value.id = arg.chain
        BY <2>1, ChainAnswered
      <3>2. ASSUME NEW idx \in DOMAIN screen'.chains, ~screen'.chains[idx].late
            PROVE  idx \in DOMAIN screen.shown /\ screen'.chains[idx].detail.id = screen.shown[idx].chain
        <4>1. idx \in DOMAIN screen.chains \cup {arg.idx}
              /\ screen'.chains[idx] = IF idx = arg.idx THEN [detail |-> ans.value, late |-> cmd.late]
                                       ELSE screen.chains[idx]
          BY <1>4, <2>1, <3>2 DEF WithDetail
        <4>2. CASE idx = arg.idx
          BY <1>2, <3>1, <3>2, <4>1, <4>2
        <4>3. CASE idx # arg.idx
          BY <3>2, <4>1, <4>3 DEF DetailInv, DetailFitsUnlessLate
        <4> QED
          BY <4>2, <4>3
      <3> QED
        BY <1>1, <1>4, <3>2 DEF DetailFitsUnlessLate
    <2>2. CASE ~(reached /\ ans.ok)
      BY <1>1, <1>4, <2>2 DEF DetailInv, DetailFitsUnlessLate
    <2> QED
      BY <2>1, <2>2
  <1>6. \A m \in Outstanding({"detail"})' : m \in Outstanding({"detail"}) /\ net'[m] = net[m]
    BY <1>1 DEF Outstanding, Without
  <1> QED
    BY <1>4, <1>5, <1>6 DEF DetailInv

LEMMA AnsweredDetails ==
    ASSUME TypeInv, DetailInv, NEW n \in DOMAIN net,
           \/ ServeAccounts(n) \/ AccountsLoaded(n) \/ AccountsChanged(n)
           \/ Mutated(n) \/ ImportAnswered(n)
    PROVE  DetailInv'
  <1>1. UNCHANGED <<activeView, screen>>
    BY DEF ServeAccounts, AccountsLoaded, AccountsChanged, Mutated, ImportAnswered
  <1>2. \A m \in DOMAIN net : CommandOK(net[m])
    BY DEF TypeInv, CommandsOK
  <1>3. CASE net' = Without(n)
    BY <1>1, <1>3, SameDetails DEF Without, Outstanding
  <1>4. CASE \E answer : net' = [net EXCEPT ![n].answer = answer]
    <2>1. /\ DOMAIN net' = DOMAIN net
          /\ \A m \in DOMAIN net : /\ net'[m].kind = net[m].kind /\ net'[m].arg = net[m].arg
                                   /\ net'[m].late = net[m].late
      BY <1>2, <1>4 DEF CommandOK
    <2> QED
      BY <1>1, <2>1, SameDetails DEF Outstanding
  <1>5. CASE net' = [net EXCEPT ![n] = Command("fresh", <<>>, None)]
    <2>1. /\ DOMAIN net' = DOMAIN net /\ net'[n].kind = "fresh"
          /\ \A m \in DOMAIN net \ {n} : net'[m] = net[m]
      BY <1>5 DEF Command, TypeInv, CommandsOK
    <2> QED
      BY <1>1, <2>1, SameDetails DEF Outstanding
  <1> QED
    BY <1>3, <1>4, <1>5
       DEF ServeAccounts, Answer, AccountsLoaded, AccountsChanged, Mutated, AccountMutated,
           FollowUp, ImportAnswered

LEMMA InitializedDetails ==
    ASSUME TypeInv, DetailInv, NEW n \in DOMAIN net, Initialized(n)
    PROVE  DetailInv'
  <1>1. CommandOK(net[n]) /\ OutOK(Without(n)) /\ CommandsOK /\ activeView \in View
    BY WithoutKeeps DEF TypeInv, CommandsOK, SelectionOK
  <1>2. activeView' = activeView
    BY DEF Initialized
  <1>3. CASE net[n].answer.ok
    <2> PICK state, c : state = [State EXCEPT !.accounts = net[n].answer.value] /\ c = Without(n)
      OBVIOUS
    <2>1. net[n].answer.value \in Seq(Account)
      BY <1>1, <1>3 DEF Initialized, CommandOK
    <2>2. state.selected \in {All} \cup AccountId /\ state.accounts \in Seq(Account)
      BY <2>1 DEF State, TypeInv, SelectionOK
    <2>3. loadView(activeView, state, NewAccountsView, c) /\ OutOK(c)
      BY <1>1, <1>3 DEF Initialized
    <2> QED
      BY <1>1, <1>2, <2>2, <2>3, LoadViewDetails
  <1>4. CASE ~net[n].answer.ok
    <2>1. net' = Without(n) /\ screen' = screen
      BY <1>4 DEF Initialized
    <2> QED
      BY <1>2, <2>1, SameDetails DEF Without, Outstanding
  <1> QED
    BY <1>3, <1>4

LEMMA LoadDetails ==
    ASSUME TypeInv, DetailInv, switchView \/ ChangeAccount
    PROVE  DetailInv'
  <1>1. OutOK(net) /\ CommandsOK /\ activeView \in View
    BY WithoutKeeps DEF TypeInv, SelectionOK
  <1>2. PICK view, state :
           /\ view \in View
           /\ activeView' = view /\ loadView(view, state, form, net)
           /\ state.selected \in {All} \cup AccountId /\ state.accounts \in Seq(Account)
    <2>1. CASE switchView
      <3>1. State.selected \in {All} \cup AccountId /\ State.accounts \in Seq(Account)
        BY DEF State, TypeInv, SelectionOK
      <3> QED
        BY <2>1, <3>1 DEF switchView
    <2>2. CASE ChangeAccount
      <3>1. PICK account \in {nextAccount, prevAccount} :
               loadView(activeView, [State EXCEPT !.selected = account], form, net)
        BY <2>2 DEF ChangeAccount
      <3>2. account \in {All} \cup AccountId
        BY NeighbourTyped DEF TypeInv
      <3>3. /\ [State EXCEPT !.selected = account].selected = account
            /\ [State EXCEPT !.selected = account].accounts \in Seq(Account)
        BY DEF State, TypeInv, SelectionOK
      <3> QED
        BY <1>1, <2>2, <3>1, <3>2, <3>3 DEF ChangeAccount
    <2> QED
      BY <2>1, <2>2
  <1> QED
    BY <1>1, <1>2, LoadViewDetails

LEMMA InitDetails == Init => DetailInv
  BY DEF Init, DetailInv

LEMMA NextDetails == TypeInv /\ DetailInv /\ [Next]_vars => DetailInv'
  <1> SUFFICES ASSUME TypeInv, DetailInv, [Next]_vars PROVE DetailInv'
    OBVIOUS
  <1>1. CASE switchView \/ ChangeAccount
    BY <1>1, LoadDetails
  <1>2. CASE WindowSize \/ UNCHANGED vars
    BY <1>2, SameDetails DEF WindowSize, RunNone, vars, Outstanding
  <1>3. CASE Key
    <2>1. CASE TradesKey \/ AccountsKey \/ ImportKey
      BY <2>1 DEF TradesKey, AccountsKey, ImportKey, DetailInv
    <2> QED
      BY <1>3, <2>1, PositionsKeyDetails DEF Key
  <1>4. CASE Quit \/ ZeroViewPanic
    BY <1>4 DEF Quit, ZeroViewPanic, Ended, DetailInv
  <1>5. ASSUME NEW n \in DOMAIN net, CommandStep(n) PROVE DetailInv'
    BY <1>5, InitializedDetails, ListLoadedDetails, DetailLoadedDetails, AnsweredDetails
       DEF CommandStep
  <1> QED
    BY <1>1, <1>2, <1>3, <1>4, <1>5 DEF Next

\* A detail shown under a position is of that position's chain, whatever answers
\* came in between, unless it was asked for from an earlier list.
THEOREM DetailsFit == Spec => []DetailFitsUnlessLate
  <1>1. Init => TypeInv /\ DetailInv
    BY InitTypes, InitDetails
  <1>2. (TypeInv /\ DetailInv) /\ [Next]_vars => (TypeInv /\ DetailInv)'
    BY NextTypes, NextDetails
  <1>3. DetailInv => DetailFitsUnlessLate
    BY DEF DetailInv, DetailFitsUnlessLate
  <1> QED
    BY <1>1, <1>2, <1>3, PTL DEF Spec

-----------------------------------------------------------------------------
(* The rows of the positions table.                                         *)

\* The number of open legs of what was filed is one; nothing is being fetched
\* for a stock position.
RowsInv ==
    activeView = "positions" =>
    /\ \A idx \in DOMAIN screen.chains :
          Cardinality(computeOpenLegs(screen.chains[idx].detail.events)) \in Nat
    /\ screen.fetching \subseteq {idx \in DOMAIN screen.shown : Expandable(idx)}

LEMMA OpenLegsCount ==
    ASSUME NEW account, NEW chain, GetChain(account, chain).ok
    PROVE  Cardinality(computeOpenLegs(GetChain(account, chain).value.events)) \in Nat
  <1>0. PICK trades, events, L :
         /\ trades = <<Chains[chain].original>> \o Chains[chain].links
         /\ events = [k \in DOMAIN trades |-> BuildChainEvent(trades[k])]
         /\ L = UNION {ToSet(Legs[t]) : t \in DOMAIN Legs}
    OBVIOUS
  <1>1. chain \in DOMAIN Chains /\ GetChain(account, chain).value.events = events
    BY <1>0 DEF GetChain, GetChainDetail, toGRPCError, Error, Ok
  <1>2. trades \in Seq(DOMAIN Legs)
    <2>1. <<Chains[chain].original>> \in Seq(DOMAIN Legs) /\ Chains[chain].links \in Seq(DOMAIN Legs)
      BY <1>1, ChainsAssumption
    <2> QED
      BY <1>0, <2>1, ConcatProperties
  <1>3. \A t \in DOMAIN Legs : Legs[t] \in Seq(L)
    <2> TAKE t \in DOMAIN Legs
    <2>1. Legs[t] \in Seq(ToSet(Legs[t])) /\ ToSet(Legs[t]) \subseteq L
      BY <1>0, ChainsAssumption
    <2> QED
      BY <2>1, SeqDef
  <1>10. PICK seqs : seqs = [k \in DOMAIN events |-> events[k].legs]
    OBVIOUS
  <1>4. seqs \in Seq(Seq(L))
    <2>1. DOMAIN trades = 1..Len(trades) /\ Len(trades) \in Nat
      BY <1>2, LenProperties
    <2>2. \A k \in 1..Len(trades) : trades[k] \in DOMAIN Legs
      BY <1>2, <2>1, ElementOfSeq
    <2>3. seqs = [k \in 1..Len(trades) |-> Legs[trades[k]]]
      BY <1>0, <1>10, <2>1 DEF BuildChainEvent
    <2>4. seqs \in [1..Len(trades) -> Seq(L)]
      BY <1>3, <2>2, <2>3
    <2> QED
      BY <2>1, <2>4, FunctionIsSeq
  <1>11. PICK legs : legs = FlattenSeq(seqs)
    OBVIOUS
  <1>5. legs \in Seq(L)
    BY <1>4, <1>11, FlattenTyped
  <1>6. IsFiniteSet(DOMAIN legs)
    <2>1. DOMAIN legs = 1..Len(legs) /\ Len(legs) \in Nat
      BY <1>5, LenProperties
    <2> QED
      BY <2>1, FS_Interval
  <1>12. PICK g : g = [k \in DOMAIN legs |-> legs[k].instrument]
    OBVIOUS
  <1>7. IsFiniteSet({g[k] : k \in DOMAIN legs})
    BY <1>6, FiniteImage
  <1>8. computeOpenLegs(events) \subseteq {g[k] : k \in DOMAIN legs}
    BY <1>10, <1>11, <1>12 DEF computeOpenLegs
  <1>9. IsFiniteSet(computeOpenLegs(events))
    BY <1>7, <1>8, FS_Subset
  <1> QED
    BY <1>1, <1>9, FS_CardinalityType

\* order goes through the n positions shown.
Listed(order, n) ==
    /\ n \in Nat /\ DOMAIN screen.shown = 1..n /\ order \in [1..n -> 1..n]
    /\ \A idx \in 1..n : \E k \in 1..n : order[k] = idx

LEMMA ShownOrder ==
    ASSUME TypeInv, activeView = "positions"
    PROVE  Listed(posDisplayOrder(screen.shown), Len(screen.shown))
  <1>0. PICK S, key, n : S = DOMAIN screen.shown /\ key = [k \in S |-> screen.shown[k].rank]
                         /\ n = Len(screen.shown)
    OBVIOUS
  <1>1. screen.shown \in Seq(Position)
    BY DEF TypeInv, ScreenOK
  <1>2. n \in Nat /\ S = 1..n /\ \A k \in S : screen.shown[k] \in Position
    BY <1>0, <1>1, LenProperties, ElementOfSeq
  <1>3. \A p \in Position : p.rank \in Int
    BY BooksAssumption, AccountsHaveBooks DEF Position
  <1>4. \A k \in S : key[k] \in Int
    BY <1>0, <1>2, <1>3
  <1>5. IsFiniteSet(S) /\ S \subseteq Nat /\ Cardinality(S) = n
    <2>1. IsFiniteSet(1..n) /\ Cardinality(1..n) = n
      BY <1>2, FS_Interval
    <2> QED
      BY <1>2, <2>1
  <1>6. posDisplayOrder(screen.shown) = InOrderBy(S, key)
    BY <1>0 DEF posDisplayOrder
  <1>7. LET m == Cardinality(S)
        IN /\ m \in Nat /\ InOrderBy(S, key) \in [1..m -> S]
           /\ \A k \in S : \E i \in 1..m : InOrderBy(S, key)[i] = k
           /\ \A i, j \in 1..m : InOrderBy(S, key)[i] = InOrderBy(S, key)[j] => i = j
    BY <1>4, <1>5, InOrderByLists, Zenon
  <1>8. /\ InOrderBy(S, key) \in [1..n -> 1..n]
        /\ \A k \in 1..n : \E i \in 1..n : InOrderBy(S, key)[i] = k
    BY <1>2, <1>5, <1>7
  <1> QED
    BY <1>0, <1>2, <1>6, <1>8 DEF Listed

\* The rows of a table below position i, and what visualRowOf counts for them.
LEMMA DetailCount ==
    ASSUME RowsInv, activeView = "positions", NEW i \in DOMAIN screen.shown,
           i \in DOMAIN screen.chains => Expandable(i)
    PROVE  DetailRows(i) \in Nat /\
           DetailRows(i) = IF screen.shown[i].stock THEN 0
                           ELSE IF i \in DOMAIN screen.chains
                           THEN Len(<<"header", "separator">>)
                                  + Cardinality(computeOpenLegs(screen.chains[i].detail.events))
                           ELSE IF i \in screen.fetching THEN 1 ELSE 0
  <1>1. PICK c : c = Cardinality(computeOpenLegs(screen.chains[i].detail.events))
    OBVIOUS
  <1>2. i \in DOMAIN screen.chains => c \in Nat
    BY <1>1 DEF RowsInv
  <1>3. i \in screen.fetching => ~screen.shown[i].stock
    BY DEF RowsInv, Expandable
  <1>4. i \in DOMAIN screen.chains => ~screen.shown[i].stock
    BY DEF Expandable
  <1>5. DetailRows(i) = IF i \in DOMAIN screen.chains THEN 2 + c
                        ELSE IF i \in screen.fetching THEN 1 ELSE 0
    BY <1>1 DEF DetailRows
  <1>6. Len(<<"header", "separator">>) = 2
    OBVIOUS
  <1> QED
    BY <1>1, <1>2, <1>3, <1>4, <1>5, <1>6

\* A position's row and d rows below it.
LEMMA RowsOfPosition ==
    ASSUME NEW i \in Nat, NEW d \in Nat
    PROVE  LET rows == <<i>> \o [r \in 1..d |-> 0]
           IN rows \in Seq(Nat) /\ Len(rows) = 1 + d /\ rows[1] = i
  <1>0. PICK h : h = [r \in 1..d |-> 0]
    OBVIOUS
  <1>1. h \in Seq(Nat) /\ Len(h) = d
    <2>1. h \in [1..d -> Nat]
      BY <1>0
    <2> QED
      BY <2>1, FunctionIsSeq
  <1>2. <<i>> \in Seq(Nat) /\ Len(<<i>>) = 1 /\ <<i>>[1] = i
    OBVIOUS
  <1>3. <<i>> \o h \in Seq(Nat) /\ Len(<<i>> \o h) = 1 + d /\ (<<i>> \o h)[1] = i
    BY <1>1, <1>2
  <1> QED
    BY <1>0, <1>3

LEMMA RowsMatch ==
    ASSUME TypeInv, RowsInv
    PROVE  RowsMatchCursor
  <1> SUFFICES ASSUME activeView = "positions",
                      \A i \in DOMAIN screen.shown \cap DOMAIN screen.chains : Expandable(i),
                      NEW idx \in DOMAIN screen.shown
               PROVE  buildPositionsTable[visualRowOf(idx) + 1] = idx
    BY DEF RowsMatchCursor
  <1>0. PICK order, n : order = posDisplayOrder(screen.shown) /\ n = Len(screen.shown)
    OBVIOUS
  <1>1. /\ n \in Nat /\ DOMAIN screen.shown = 1..n /\ order \in [1..n -> 1..n]
        /\ \A i \in 1..n : \E k \in 1..n : order[k] = i
    BY <1>0, ShownOrder DEF Listed
  <1>2. PICK place : place = CHOOSE k \in DOMAIN order : order[k] = idx
    OBVIOUS
  <1>3. place \in 1..n /\ order[place] = idx
    BY <1>1, <1>2
  <1>4. \A i \in 1..n :
           DetailRows(i) \in Nat /\
           DetailRows(i) = IF screen.shown[i].stock THEN 0
                           ELSE IF i \in DOMAIN screen.chains
                           THEN Len(<<"header", "separator">>)
                                  + Cardinality(computeOpenLegs(screen.chains[i].detail.events))
                           ELSE IF i \in screen.fetching THEN 1 ELSE 0
    BY <1>1, DetailCount
  <1>5. PICK seqs : seqs = [k \in 1..n |-> <<order[k]>> \o [r \in 1..DetailRows(order[k]) |-> 0]]
    OBVIOUS
  <1>6. PICK F : F = [k \in 1..n |-> 1 + DetailRows(order[k])]
    OBVIOUS
  <1>7. buildPositionsTable = FlattenSeq(seqs)
    <2>1. \A k \in 1..n : order[k] \in 1..n
      BY <1>1
    <2>2. seqs = [k \in 1..n |->
             LET i == order[k]
                 detail == IF screen.shown[i].stock THEN 0
                           ELSE IF i \in DOMAIN screen.chains
                           THEN Len(<<"header", "separator">>)
                                  + Cardinality(computeOpenLegs(screen.chains[i].detail.events))
                           ELSE IF i \in screen.fetching THEN 1 ELSE 0
             IN <<i>> \o [r \in 1..detail |-> 0]]
      BY <1>4, <1>5, <2>1
    <2> QED
      BY <1>0, <1>1, <2>2 DEF buildPositionsTable
  <1>8. visualRowOf(idx) = StartOf(F, place)
    BY <1>0, <1>1, <1>2, <1>6 DEF visualRowOf, StartOf
  <1>9. ASSUME NEW k \in 1..n
        PROVE  /\ seqs[k] \in Seq(Nat) /\ Len(seqs[k]) = F[k] /\ seqs[k][1] = order[k]
               /\ F[k] \in Nat /\ F[k] > 0
    <2>0. PICK i, d : i = order[k] /\ d = DetailRows(order[k])
      OBVIOUS
    <2>1. i \in Nat /\ d \in Nat
      BY <1>1, <1>4, <2>0
    <2>2. seqs[k] = <<i>> \o [r \in 1..d |-> 0] /\ F[k] = 1 + d
      BY <1>5, <1>6, <2>0
    <2>3. seqs[k] \in Seq(Nat) /\ Len(seqs[k]) = 1 + d /\ seqs[k][1] = i
      BY <2>1, <2>2, RowsOfPosition
    <2> QED
      BY <2>0, <2>1, <2>2, <2>3
  <1>10. seqs \in [1..n -> Seq(Nat)]
    BY <1>5, <1>9
  <1>11. FlattenSeq(seqs)[StartOf(F, place) + 1] = seqs[place][1]
    <2>1. n \in Nat /\ place \in 1..n
      BY <1>1, <1>3
    <2>2. \A k \in 1..n : F[k] \in Nat /\ F[k] > 0 /\ Len(seqs[k]) = F[k]
      BY <1>9
    <2>3. SeqsOf(Nat, n, seqs, F)
      BY <1>10, <2>1, <2>2 DEF SeqsOf
    <2> QED
      BY <2>1, <2>3, FlattenPlaces
  <1> QED
    BY <1>3, <1>7, <1>8, <1>9, <1>11

LEMMA SameRows ==
    ASSUME RowsInv, UNCHANGED <<activeView, screen>>
    PROVE  RowsInv'
  BY DEF RowsInv, Expandable

LEMMA NoDetailRows ==
    ASSUME DOMAIN screen'.chains = {}, screen'.fetching = {}
    PROVE  RowsInv'
  BY DEF RowsInv

\* Details may go, and be asked for where there can be some.
LEMMA KeptRows ==
    ASSUME RowsInv, activeView = "positions", activeView' = activeView,
           screen'.shown = screen.shown,
           DOMAIN screen'.chains \subseteq DOMAIN screen.chains,
           \A idx \in DOMAIN screen'.chains : screen'.chains[idx] = screen.chains[idx],
           \A idx \in screen'.fetching :
              idx \in screen.fetching \/ (idx \in DOMAIN screen.shown /\ Expandable(idx))
    PROVE  RowsInv'
  <1>1. ASSUME NEW idx \in DOMAIN screen'.chains
        PROVE  Cardinality(computeOpenLegs(screen'.chains[idx].detail.events)) \in Nat
    <2>1. idx \in DOMAIN screen.chains /\ screen'.chains[idx] = screen.chains[idx]
      OBVIOUS
    <2> QED
      BY <2>1 DEF RowsInv
  <1>2. ASSUME NEW idx \in screen'.fetching
        PROVE  idx \in DOMAIN screen'.shown /\ ~screen'.shown[idx].stock
    BY DEF RowsInv, Expandable
  <1> QED
    BY <1>1, <1>2 DEF RowsInv, Expandable

LEMMA LoadingRows ==
    ASSUME NEW for, screen' = Loading(for)
    PROVE  RowsInv'
  <1>1. DOMAIN screen'.chains = {} /\ screen'.fetching = {}
    BY DEF Loading
  <1> QED
    BY <1>1, NoDetailRows

LEMMA PositionsKeyRows ==
    ASSUME TypeInv, RowsInv, PositionsKey
    PROVE  RowsInv'
  <1>1. activeView = "positions" /\ activeView' = activeView /\ ScreenOK
    BY DEF PositionsKey, TypeInv
  <1>2. CASE PositionsEnter
    <2>1. PICK idx \in DOMAIN screen.shown :
             /\ Expandable(idx)
             /\ \/ screen' = WithoutDetail(idx)
                \/ screen' = [screen EXCEPT !.fetching = screen.fetching \cup {idx}]
      BY <1>2 DEF PositionsEnter, positionIdxAtCursor
    <2>2. CASE screen' = WithoutDetail(idx)
      <3>1. /\ screen'.shown = screen.shown
            /\ screen'.chains = [i \in DOMAIN screen.chains \ {idx} |-> screen.chains[i]]
            /\ screen'.fetching = screen.fetching \ {idx}
        BY <1>1, <2>2 DEF ScreenOK, WithoutDetail
      <3> QED
        BY <1>1, <3>1, KeptRows
    <2>3. CASE screen' = [screen EXCEPT !.fetching = screen.fetching \cup {idx}]
      <3>1. /\ screen'.shown = screen.shown /\ screen'.chains = screen.chains
            /\ screen'.fetching = screen.fetching \cup {idx}
        BY <1>1, <2>3 DEF ScreenOK
      <3> QED
        BY <1>1, <2>1, <3>1, KeptRows
    <2> QED
      BY <2>1, <2>2, <2>3
  <1>3. CASE PositionsExpandAll
    <2>1. PICK todo : /\ \A idx \in todo : idx \in DOMAIN screen.shown /\ Expandable(idx)
                      /\ screen' = [screen EXCEPT !.fetching = screen.fetching \cup todo]
      BY <1>3 DEF PositionsExpandAll
    <2>2. /\ screen'.shown = screen.shown /\ screen'.chains = screen.chains
          /\ screen'.fetching = screen.fetching \cup todo
      BY <1>1, <2>1 DEF ScreenOK
    <2> QED
      BY <1>1, <2>1, <2>2, KeptRows
  <1>4. CASE PositionsEsc
    <2>1. DOMAIN screen'.chains = {} /\ screen'.fetching = {}
      BY <1>1, <1>4 DEF PositionsEsc, ScreenOK
    <2> QED
      BY <2>1, NoDetailRows
  <1> QED
    BY <1>2, <1>3, <1>4 DEF PositionsKey

LEMMA ListLoadedRows ==
    ASSUME TypeInv, RowsInv, NEW n \in DOMAIN net, ListLoaded(n)
    PROVE  RowsInv'
  <1>1. activeView' = activeView /\ ScreenOK
    BY DEF ListLoaded, TypeInv
  <1> SUFFICES ASSUME activeView = "positions" PROVE RowsInv'
    BY <1>1 DEF RowsInv
  <1>2. CASE net[n].kind # "positions"
    <2>1. screen' = screen
      BY <1>2 DEF ListLoaded
    <2> QED
      BY <1>1, <2>1, SameRows
  <1>3. CASE net[n].kind = "positions"
    <2>1. PICK ans : screen' = PositionsLoaded(ans)
      BY <1>3 DEF ListLoaded
    <2>2. CASE ans.ok
      <3>1. DOMAIN screen'.chains = {} /\ screen'.fetching = {}
        BY <1>1, <2>1, <2>2 DEF PositionsLoaded, Answered, ScreenOK
      <3> QED
        BY <3>1, NoDetailRows
    <2>3. CASE ~ans.ok
      <3>1. /\ screen'.chains = screen.chains /\ screen'.shown = screen.shown
            /\ screen'.fetching = screen.fetching
        BY <1>1, <2>1, <2>3 DEF PositionsLoaded, Answered, ScreenOK
      <3> QED
        BY <1>1, <3>1, KeptRows
    <2> QED
      BY <2>2, <2>3
  <1> QED
    BY <1>2, <1>3

LEMMA DetailLoadedRows ==
    ASSUME TypeInv, RowsInv, NEW n \in DOMAIN net, DetailLoaded(n)
    PROVE  RowsInv'
  <1>1. activeView' = activeView /\ ScreenOK
    BY DEF DetailLoaded, TypeInv
  <1> SUFFICES ASSUME activeView = "positions" PROVE RowsInv'
    BY <1>1 DEF RowsInv
  <1>0. PICK cmd, arg, ans : cmd = net[n] /\ arg = cmd.arg /\ ans = GetChain(arg.account, arg.chain)
    OBVIOUS
  <1>2. PICK reached \in BOOLEAN : screen' = ChainDetailLoaded(cmd, reached)
    BY <1>0 DEF DetailLoaded
  <1>3. /\ screen'.shown = screen.shown /\ screen'.fetching = screen.fetching \ {arg.idx}
        /\ screen'.chains = IF reached /\ ans.ok THEN WithDetail(cmd, ans.value) ELSE screen.chains
    BY <1>0, <1>1, <1>2 DEF ChainDetailLoaded, ScreenOK
  <1>4. ASSUME NEW idx \in DOMAIN screen'.chains
        PROVE  Cardinality(computeOpenLegs(screen'.chains[idx].detail.events)) \in Nat
    <2>1. CASE reached /\ ans.ok /\ idx = arg.idx
      <3>1. screen'.chains[idx].detail = ans.value
        BY <1>0, <1>3, <1>4, <2>1 DEF WithDetail
      <3>2. Cardinality(computeOpenLegs(ans.value.events)) \in Nat
        BY <1>0, <2>1, OpenLegsCount
      <3> QED
        BY <3>1, <3>2
    <2>2. CASE ~(reached /\ ans.ok /\ idx = arg.idx)
      <3>1. idx \in DOMAIN screen.chains /\ screen'.chains[idx] = screen.chains[idx]
        BY <1>0, <1>3, <1>4, <2>2 DEF WithDetail
      <3> QED
        BY <3>1 DEF RowsInv
    <2> QED
      BY <2>1, <2>2
  <1>5. ASSUME NEW idx \in screen'.fetching
        PROVE  idx \in DOMAIN screen'.shown /\ ~screen'.shown[idx].stock
    BY <1>3, <1>5 DEF RowsInv, Expandable
  <1> QED
    BY <1>4, <1>5 DEF RowsInv, Expandable

LEMMA InitRows == Init => RowsInv
  BY DEF Init, RowsInv

LEMMA NextRows == TypeInv /\ RowsInv /\ [Next]_vars => RowsInv'
  <1> SUFFICES ASSUME TypeInv, RowsInv, [Next]_vars PROVE RowsInv'
    OBVIOUS
  <1>1. CASE switchView \/ ChangeAccount
    <2>1. \E for : screen' = Loading(for)
      BY <1>1 DEF switchView, ChangeAccount, loadView
    <2> QED
      BY <2>1, LoadingRows
  <1>2. CASE WindowSize \/ UNCHANGED vars
    <2>1. UNCHANGED <<activeView, screen>>
      BY <1>2 DEF WindowSize, vars
    <2> QED
      BY <2>1, SameRows
  <1>3. CASE Key
    <2>1. CASE TradesKey \/ AccountsKey \/ ImportKey
      BY <2>1 DEF TradesKey, AccountsKey, ImportKey, RowsInv
    <2> QED
      BY <1>3, <2>1, PositionsKeyRows DEF Key
  <1>4. CASE Quit \/ ZeroViewPanic
    BY <1>4 DEF Quit, ZeroViewPanic, Ended, RowsInv
  <1>5. ASSUME NEW n \in DOMAIN net, CommandStep(n) PROVE RowsInv'
    <2>1. CASE \/ ServeAccounts(n) \/ AccountsLoaded(n) \/ AccountsChanged(n)
               \/ Mutated(n) \/ ImportAnswered(n)
      <3>1. UNCHANGED <<activeView, screen>>
        BY <2>1 DEF ServeAccounts, AccountsLoaded, AccountsChanged, Mutated, ImportAnswered
      <3> QED
        BY <3>1, SameRows
    <2>2. CASE Initialized(n)
      <3>1. UNCHANGED <<activeView, screen>> \/ \E for : screen' = Loading(for)
        BY <2>2 DEF Initialized, loadView
      <3> QED
        BY <3>1, SameRows, LoadingRows
    <2> QED
      BY <1>5, <2>1, <2>2, ListLoadedRows, DetailLoadedRows DEF CommandStep
  <1> QED
    BY <1>1, <1>2, <1>3, <1>4, <1>5 DEF Next

\* Every position is found at its own row of the table, whatever is expanded or
\* loading above it, unless a late detail was filed under a stock position.
THEOREM RowsStayInPlace == Spec => []RowsMatchCursor
  <1>1. Init => TypeInv /\ RowsInv
    BY InitTypes, InitRows
  <1>2. (TypeInv /\ RowsInv) /\ [Next]_vars => (TypeInv /\ RowsInv)'
    BY NextTypes, NextRows
  <1>3. TypeInv /\ RowsInv => RowsMatchCursor
    BY RowsMatch
  <1> QED
    BY <1>1, <1>2, <1>3, PTL DEF Spec

=============================================================================
