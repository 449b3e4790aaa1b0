------------------------ MODULE ChainDetectionProofs ------------------------
(***************************************************************************)
(* Theorems about ChainDetection, for every set of trades and instruments,  *)
(* every split of the trades into legs and every bound.  For any number of  *)
(* callers at the same time, if scans start while no other call runs (this  *)
(* is ContractSpec):                                                        *)
(*   - TypeCorrect: TypeOK;                                                 *)
(*   - EveryTradeHasOneChain: OneChainPerTrade;                             *)
(*   - LinksAreDense: LinkSequenceDense.                                    *)
(* With one caller at a time, scans included:                               *)
(*   - ClosedChainsAreFlat: ClosedChainHasNoOpenBalance;                    *)
(*   - FlatChainsAreClosed: FlatChainIsClosed;                              *)
(*   - ClosedChainsAreFinal: ClosedChainIsFinal.                            *)
(***************************************************************************)
EXTENDS ChainDetection, TLAPS, FiniteSetTheorems, FunctionTheorems, SequenceTheorems

-----------------------------------------------------------------------------
(* The invariant for any number of callers.                                 *)

\* Trade t is the one that started chain c or is linked to it.
Owns(c, t) ==
    /\ c \in 1..Len(chains)
    /\ \/ chains[c].trade = t
       \/ \E k \in 1..Len(links) : links[k].chain = c /\ links[k].trade = t

\* All transactions of trade t are stored.
Complete(t) == Legs[t] # <<>> /\ RowsOf(t) \subseteq txRows

\* Trade t is the one call w works on, or one it is still to visit.
Holds(w, t) == (call[w].pc # "idle" /\ call[w].trade = t) \/ t \in call[w].todo

\* What a call knows at the point it stands at.
Unlinked == {"list", "attribute", "start", "stock", "newstock", "links", "link"}
HasLegs == CallPC \ {"idle", "lookup", "list"}
HasChain == {"links", "link", "check", "stamp", "get"}

JobOK(job) ==
    /\ job \in [pc: CallPC, trade: Trade \cup {None}, todo: SUBSET Trade, legs: SUBSET Nat,
                leg: Nat, chain: (1..Len(chains)) \cup {None}, seq: Nat,
                answer: (1..Len(chains)) \cup {None, Error}]
    /\ job.pc = "idle" => job.todo = {}
    /\ job.pc # "idle" => job.trade \in Trade /\ job.trade \notin job.todo
    /\ job.pc # "idle" /\ Legs[job.trade] # <<>> => Complete(job.trade)
    /\ \A t \in job.todo : Complete(t)
    /\ job.pc \in Unlinked => \A c \in 1..Len(chains) : ~Owns(c, job.trade)
    /\ job.pc \in HasLegs => job.legs = 1..Len(Legs[job.trade]) /\ Legs[job.trade] # <<>>
    /\ job.pc \in HasChain => job.chain \in 1..Len(chains)
    /\ job.pc = "start" => HasEffect(job.trade, job.legs, "opening")
    /\ job.pc = "link" => job.seq # 0

RowsOK == txRows \subseteq UNION {RowsOf(t) : t \in Trade}

TablesOK ==
    /\ chains \in Seq([trade: Trade, at: Nat, closed: BOOLEAN, stock: BOOLEAN, gap: BOOLEAN])
    /\ links \in Seq([chain: Nat \ {0}, seq: Nat \ {0}, trade: Trade])
    /\ \A k \in 1..Len(links) : links[k].chain \in 1..Len(chains)

\* A trade that has a chain has all its transactions, and no other chain.
OwnersOK ==
    /\ \A t \in Trade : \A c \in 1..Len(chains) : Owns(c, t) => Complete(t)
    /\ \A t \in Trade : \A c, d \in 1..Len(chains) : Owns(c, t) /\ Owns(d, t) => c = d

\* No two calls work on the same trade.
HoldersOK ==
    \A t \in Trade : \A v, w \in Worker :
        Holds(v, t) /\ Holds(w, t) /\ Legs[t] # <<>> => v = w

\* This holds as well where the transactions of a trade are stored one by one,
\* as long as they are complete when the trade is handed over.
ChainInv ==
    /\ RowsOK
    /\ TablesOK
    /\ OwnersOK
    /\ \A w \in Worker : JobOK(call[w])
    /\ call = [v \in Worker |-> call[v]]
    /\ HoldersOK
    /\ failures \in 0..MaxFailures
    /\ scans \in 0..MaxScans

\* Here they are stored together.
RowsWhole == \A t \in Trade : Stored(t) => Complete(t)

-----------------------------------------------------------------------------
(* Operators.                                                               *)

LEMMA LegsFacts ==
    ASSUME NEW t \in Trade
    PROVE  /\ Len(Legs[t]) \in Nat
           /\ Legs[t] = <<>> <=> 1..Len(Legs[t]) = {}
           /\ Complete(t) => Stored(t)
  <1>1. Legs[t] \in Seq([inst: Instrument, qty: Nat \ {0},
                         effect: {"opening", "closing", "neutral"}])
    BY LegsAssumption
  <1>2. Len(Legs[t]) \in Nat /\ (Legs[t] = <<>> <=> Len(Legs[t]) = 0)
    BY <1>1, EmptySeq, LenProperties
  <1>3. Len(Legs[t]) = 0 <=> 1..Len(Legs[t]) = {}
    <2>1. \A n \in Nat : n = 0 <=> 1..n = {}
      <3>1. \A n \in Nat : n # 0 => 1 \in 1..n
        OBVIOUS
      <3>2. 1..0 = {}
        OBVIOUS
      <3> QED
        BY <3>1, <3>2
    <2> QED
      BY <1>2, <2>1
  <1>4. ASSUME Complete(t) PROVE Stored(t)
    <2>1. PICK k : k \in 1..Len(Legs[t])
      BY <1>2, <1>3, <1>4 DEF Complete
    <2>2. <<t, k>> \in RowsOf(t)
      BY <2>1 DEF RowsOf
    <2> QED
      BY <1>4, <2>2 DEF Complete, Stored
  <1> QED
    BY <1>2, <1>3, <1>4

LEMMA StoredRows ==
    ASSUME NEW t \in Trade, Complete(t)
    PROVE  {k \in 1..Len(Legs[t]) : <<t, k>> \in txRows} = 1..Len(Legs[t])
  BY DEF Complete, RowsOf

LEMMA SameOwners ==
    ASSUME links' = links, Len(chains') = Len(chains),
           \A c \in 1..Len(chains) : chains'[c].trade = chains[c].trade
    PROVE  \A c, t : Owns(c, t)' <=> Owns(c, t)
  BY DEF Owns

LEMMA OwnersAfterNewChain ==
    ASSUME TablesOK, NEW row, chains' = Append(chains, row), links' = links,
           NEW new, new = Len(chains) + 1
    PROVE  /\ Len(chains') = Len(chains) + 1
           /\ \A t : \A c \in 1..Len(chains) : Owns(c, t)' <=> Owns(c, t)
           /\ \A t : Owns(new, t)' <=> t = row.trade
  <1>1. /\ Len(chains) \in Nat /\ Len(chains') = Len(chains) + 1
        /\ \A c \in 1..Len(chains) : chains'[c] = chains[c]
        /\ chains'[Len(chains) + 1] = row
    BY AppendProperties, LenProperties DEF TablesOK
  <1>2. \A k \in 1..Len(links) : links[k].chain # Len(chains) + 1
    BY <1>1 DEF TablesOK
  <1>3. ASSUME NEW t, NEW c \in 1..Len(chains)
        PROVE  Owns(c, t)' <=> Owns(c, t)
    BY <1>1 DEF Owns
  <1>4. ASSUME NEW t
        PROVE  Owns(new, t)' <=> t = row.trade
    BY <1>1, <1>2 DEF Owns
  <1> QED
    BY <1>1, <1>3, <1>4

LEMMA OwnersAfterNewLink ==
    ASSUME TablesOK, NEW row, links' = Append(links, row), chains' = chains,
           row.chain \in 1..Len(chains)
    PROVE  \A c, t : Owns(c, t)' <=> Owns(c, t) \/ (c = row.chain /\ t = row.trade)
  <1>1. /\ Len(links) \in Nat /\ Len(links') = Len(links) + 1
        /\ \A k \in 1..Len(links) : links'[k] = links[k]
        /\ links'[Len(links) + 1] = row
    BY AppendProperties, LenProperties DEF TablesOK
  <1> QED
    BY <1>1 DEF Owns

-----------------------------------------------------------------------------
(* One call moves.                                                          *)

\* What a step by call w may do to the rest of the state.
LEMMA OneCallKeepsChainInv ==
    ASSUME ChainInv, NEW w \in Worker,
           RowsOK', TablesOK', OwnersOK',
           \A t \in Trade : Complete(t) => Complete(t)',
           Len(chains) \in Nat, Len(chains') \in Nat, Len(chains) <= Len(chains'),
           \A v \in Worker : v # w => call'[v] = call[v],
           \A v \in Worker : v # w /\ call[v].pc \in Unlinked =>
               \A c \in 1..Len(chains') : ~Owns(c, call[v].trade)',
           call' = [v \in Worker |-> call'[v]],
           JobOK(call[w])',
           \A t \in Trade : Holds(w, t)' /\ Legs[t] # <<>> =>
               Holds(w, t) \/ \A v \in Worker : v # w => ~Holds(v, t),
           failures' \in 0..MaxFailures, scans' \in 0..MaxScans
    PROVE  ChainInv'
  <1>1. ASSUME NEW v \in Worker, v # w
        PROVE  JobOK(call[v])'
    <2>1. call'[v] = call[v] /\ JobOK(call[v])
      BY <1>1 DEF ChainInv
    <2>2. \A c \in 1..Len(chains) : c \in 1..Len(chains')
      OBVIOUS
    <2>3. call[v].todo \subseteq Trade /\ (call[v].pc # "idle" => call[v].trade \in Trade)
      BY <2>1 DEF JobOK
    <2>4. /\ call[v].chain \in (1..Len(chains')) \cup {None}
          /\ call[v].answer \in (1..Len(chains')) \cup {None, Error}
          /\ call[v].pc \in HasChain => call[v].chain \in 1..Len(chains')
      BY <2>1, <2>2 DEF JobOK
    <2>5. /\ call[v].pc # "idle" /\ Legs[call[v].trade] # <<>> => Complete(call[v].trade)'
          /\ \A t \in call[v].todo : Complete(t)'
      BY <2>1, <2>3 DEF JobOK
    <2>6. call[v].pc \in Unlinked => \A c \in 1..Len(chains') : ~Owns(c, call[v].trade)'
      BY <1>1
    <2>7. call[v] \in [pc: CallPC, trade: Trade \cup {None}, todo: SUBSET Trade,
                       legs: SUBSET Nat, leg: Nat, chain: (1..Len(chains')) \cup {None},
                       seq: Nat, answer: (1..Len(chains')) \cup {None, Error}]
      BY <2>1, <2>4 DEF JobOK
    <2> QED
      BY <2>1, <2>4, <2>5, <2>6, <2>7 DEF JobOK, HasEffect, LegsOf
  <1>2. HoldersOK'
    <2> SUFFICES ASSUME NEW t \in Trade, Legs[t] # <<>>, NEW v \in Worker, v # w
                 PROVE  /\ ~(Holds(v, t)' /\ Holds(w, t)')
                        /\ \A x \in Worker : x # w /\ Holds(v, t)' /\ Holds(x, t)' => v = x
      BY DEF HoldersOK
    <2>1. \A x \in Worker : x # w => (Holds(x, t)' <=> Holds(x, t))
      BY DEF Holds
    <2> QED
      BY <2>1 DEF ChainInv, HoldersOK
  <1> QED
    BY <1>1, <1>2 DEF ChainInv

\* Return either ends the call or goes on to a trade still to visit.
LEMMA ReturnFacts ==
    ASSUME ChainInv, NEW w \in Worker, NEW c, Return(w, c),
           \A t \in Trade : Complete(t) => Complete(t)',
           Len(chains) \in Nat, Len(chains') \in Nat, Len(chains) <= Len(chains'),
           c \in (1..Len(chains')) \cup {None}
    PROVE  /\ JobOK(call[w])'
           /\ \A v \in Worker : v # w => call'[v] = call[v]
           /\ call' = [v \in Worker |-> call'[v]]
           /\ \A t \in Trade : Holds(w, t)' => Holds(w, t)
           /\ call'[w].pc \in {"idle", "lookup"}
  <1>1. JobOK(call[w]) /\ call = [v \in Worker |-> call[v]]
    BY DEF ChainInv
  <1>2. CASE call[w].todo = {}
    <2>1. call' = [call EXCEPT ![w] = [IdleJob EXCEPT !.answer = c]]
      BY <1>2 DEF Return
    <2>2. /\ call'[w] = [IdleJob EXCEPT !.answer = c]
          /\ \A v \in Worker : v # w => call'[v] = call[v]
          /\ call' = [v \in Worker |-> call'[v]]
      BY <1>1, <2>1
    <2> QED
      BY <2>2 DEF JobOK, Holds, IdleJob, CallPC, Unlinked, HasLegs, HasChain
  <1>3. CASE call[w].todo # {}
    <2>1. PICK t \in Earliest(call[w].todo) : call' = [call EXCEPT ![w] = Begin(call[w], t)]
      BY <1>3 DEF Return
    <2>2. t \in call[w].todo /\ t \in Trade /\ Complete(t)
      BY <1>1, <2>1 DEF Earliest, JobOK
    <2>3. /\ call'[w] = Begin(call[w], t)
          /\ \A v \in Worker : v # w => call'[v] = call[v]
          /\ call' = [v \in Worker |-> call'[v]]
      BY <1>1, <2>1
    <2>4. \A u \in call[w].todo \ {t} : u \in Trade /\ Complete(u)'
      BY <1>1 DEF JobOK
    <2>5. JobOK(call[w])'
      <3>1. call'[w] = [pc |-> "lookup", trade |-> t, todo |-> call[w].todo \ {t}, legs |-> {},
                        leg |-> 0, chain |-> None, seq |-> 0, answer |-> None]
        BY <2>3 DEF Begin, IdleJob
      <3>2. call[w].todo \ {t} \in SUBSET Trade
        BY <2>4
      <3>3. call'[w] \in [pc: CallPC, trade: Trade \cup {None}, todo: SUBSET Trade,
                          legs: SUBSET Nat, leg: Nat, chain: (1..Len(chains')) \cup {None},
                          seq: Nat, answer: (1..Len(chains')) \cup {None, Error}]
        BY <2>2, <3>1, <3>2 DEF CallPC
      <3> QED
        BY <2>2, <2>4, <3>1, <3>3 DEF JobOK, CallPC, Unlinked, HasLegs, HasChain
    <2> QED
      BY <1>1, <2>2, <2>3, <2>5 DEF Holds, IdleJob, Begin
  <1> QED
    BY <1>2, <1>3

-----------------------------------------------------------------------------
(* The steps that leave the tables alone.                                   *)

\* Nothing but the moving call changes.
Quiet(w) ==
    /\ UNCHANGED <<txRows, chains, links>>
    /\ \A v \in Worker : v # w => call'[v] = call[v]
    /\ call' = [v \in Worker |-> call'[v]]

LEMMA SameTables ==
    ASSUME ChainInv, UNCHANGED <<txRows, chains, links>>
    PROVE  /\ RowsOK' /\ TablesOK' /\ OwnersOK'
           /\ \A t : Complete(t)' <=> Complete(t)
           /\ \A c, t : Owns(c, t)' <=> Owns(c, t)
           /\ Len(chains) \in Nat /\ Len(chains') = Len(chains)
  <1>1. \A c, t : Owns(c, t)' <=> Owns(c, t)
    BY SameOwners
  <1>2. \A t : Complete(t)' <=> Complete(t)
    BY DEF Complete
  <1> QED
    BY <1>1, <1>2, LenProperties DEF ChainInv, RowsOK, TablesOK, OwnersOK

LEMMA QuietKeepsChainInv ==
    ASSUME ChainInv, NEW w \in Worker, Quiet(w), JobOK(call[w])',
           \A t \in Trade : Holds(w, t)' /\ Legs[t] # <<>> =>
               Holds(w, t) \/ \A v \in Worker : v # w => ~Holds(v, t),
           failures' \in 0..MaxFailures, scans' \in 0..MaxScans
    PROVE  ChainInv'
  <1>1. /\ RowsOK' /\ TablesOK' /\ OwnersOK'
        /\ \A t : Complete(t)' <=> Complete(t)
        /\ \A c, t : Owns(c, t)' <=> Owns(c, t)
        /\ Len(chains) \in Nat /\ Len(chains') = Len(chains)
    BY SameTables DEF Quiet
  <1>2. /\ \A v \in Worker : v # w => call'[v] = call[v]
        /\ call' = [v \in Worker |-> call'[v]]
    BY DEF Quiet
  <1>3. \A v \in Worker : v # w /\ call[v].pc \in Unlinked =>
               \A c \in 1..Len(chains') : ~Owns(c, call[v].trade)'
    <2> SUFFICES ASSUME NEW v \in Worker, call[v].pc \in Unlinked, NEW c \in 1..Len(chains)
                 PROVE  ~Owns(c, call[v].trade)
      BY <1>1, <1>2
    <2> QED
      BY DEF ChainInv, JobOK
  <1> QED
    BY <1>1, <1>2, <1>3, OneCallKeepsChainInv

\* A call that moves on within the same trade.
LEMMA GotoKeepsChainInv ==
    ASSUME ChainInv, NEW w \in Worker, NEW job, Goto(w, job), call[w].pc # "idle",
           UNCHANGED <<txRows, chains, links, failures, scans>>,
           job.trade = call[w].trade, job.todo = call[w].todo, JobOK(job)
    PROVE  ChainInv'
  <1>1. /\ call'[w] = job /\ call' = [v \in Worker |-> call'[v]]
        /\ \A v \in Worker : v # w => call'[v] = call[v]
    BY DEF Goto, ChainInv
  <1>2. JobOK(job)'
    BY SameTables DEF JobOK, HasEffect, LegsOf
  <1>3. JobOK(call[w])'
    BY <1>1, <1>2
  <1>4. \A t \in Trade : Holds(w, t)' => Holds(w, t)
    BY <1>1 DEF Holds
  <1> QED
    BY <1>1, <1>3, <1>4, QuietKeepsChainInv DEF Quiet, ChainInv

LEMMA ReturnKeepsChainInv ==
    ASSUME ChainInv, NEW w \in Worker, NEW c, Return(w, c),
           UNCHANGED <<txRows, chains, links, failures, scans>>,
           c \in (1..Len(chains)) \cup {None}
    PROVE  ChainInv'
  <1>1. /\ \A t : Complete(t)' <=> Complete(t)
        /\ Len(chains) \in Nat /\ Len(chains') = Len(chains)
    BY SameTables
  <1>2. /\ JobOK(call[w])'
        /\ \A v \in Worker : v # w => call'[v] = call[v]
        /\ call' = [v \in Worker |-> call'[v]]
        /\ \A t \in Trade : Holds(w, t)' => Holds(w, t)
    BY <1>1, ReturnFacts
  <1> QED
    BY <1>2, QuietKeepsChainInv DEF Quiet, ChainInv

LEMMA FailKeepsChainInv ==
    ASSUME ChainInv, NEW w \in Worker, Fail(w),
           UNCHANGED <<txRows, chains, links>>,
           failures' \in 0..MaxFailures, scans' = scans
    PROVE  ChainInv'
  <1>1. /\ call'[w] = [IdleJob EXCEPT !.answer = Error] /\ call' = [v \in Worker |-> call'[v]]
        /\ \A v \in Worker : v # w => call'[v] = call[v]
    BY DEF Fail, ChainInv
  <1>2. JobOK(call[w])'
    BY <1>1 DEF JobOK, IdleJob, CallPC, Unlinked, HasLegs, HasChain
  <1>3. \A t \in Trade : Holds(w, t)' => Holds(w, t)
    BY <1>1 DEF Holds, IdleJob
  <1> QED
    BY <1>1, <1>2, <1>3, QuietKeepsChainInv DEF Quiet, ChainInv

LEMMA OwnersAreOwns ==
    \A c, t : c \in Owners(t) <=> Owns(c, t)
  BY DEF Owners, Owns, TradesOf

LEMMA JobFacts ==
    ASSUME ChainInv, NEW w \in Worker
    PROVE  /\ JobOK(call[w])
           /\ call[w].pc # "idle" => call[w].trade \in Trade
           /\ call[w].pc \in HasChain => call[w].chain \in 1..Len(chains)
           /\ Len(chains) \in Nat
  BY LenProperties DEF ChainInv, JobOK, TablesOK

LEMMA LinksFinite ==
    ASSUME TablesOK
    PROVE  \A c : IsFiniteSet(LinksOf(c)) /\ Cardinality(LinksOf(c)) \in Nat
  <1> SUFFICES ASSUME NEW c
               PROVE  IsFiniteSet(LinksOf(c)) /\ Cardinality(LinksOf(c)) \in Nat
    OBVIOUS
  <1>1. Len(links) \in Nat /\ LinksOf(c) \subseteq 1..Len(links)
    BY LenProperties DEF TablesOK, LinksOf
  <1>2. IsFiniteSet(1..Len(links))
    BY <1>1, FS_Interval
  <1>3. IsFiniteSet(LinksOf(c))
    BY <1>1, <1>2, FS_Subset
  <1> QED
    BY <1>3, FS_CardinalityType

LEMMA LookupKeeps ==
    ASSUME ChainInv, NEW w \in Worker, Lookup(w)
    PROVE  ChainInv'
  <1>1. call[w].pc = "lookup" /\ UNCHANGED <<txRows, chains, links, failures, scans>>
    BY DEF Lookup, tables
  <1>2. CASE \E c \in Owners(call[w].trade) : Return(w, c)
    BY <1>1, <1>2, ReturnKeepsChainInv DEF Owners
  <1>3. CASE Owners(call[w].trade) = {} /\ Goto(w, [call[w] EXCEPT !.pc = "list"])
    <2>1. \A c \in 1..Len(chains) : ~Owns(c, call[w].trade)
      BY <1>3, OwnersAreOwns
    <2>2. JobOK([call[w] EXCEPT !.pc = "list"])
      BY <1>1, <2>1, JobFacts DEF JobOK, CallPC, HasLegs, HasChain
    <2> QED
      BY <1>1, <1>3, <2>2, GotoKeepsChainInv DEF ChainInv, JobOK
  <1> QED
    BY <1>2, <1>3 DEF Lookup

LEMMA ListTransactionsKeeps ==
    ASSUME ChainInv, NEW w \in Worker, ListTransactions(w)
    PROVE  ChainInv'
  <1> DEFINE t == call[w].trade
             S == {k \in 1..Len(Legs[t]) : <<t, k>> \in txRows}
             go(pc) == [call[w] EXCEPT !.pc = pc, !.legs = S, !.leg = 1]
  <1>1. /\ call[w].pc = "list" /\ UNCHANGED <<txRows, chains, links, failures, scans>>
        /\ \/ S # {} /\ \E pc \in {"stock", "attribute"} : Goto(w, go(pc))
           \/ S # {} /\ HasEffect(t, S, "opening") /\ Goto(w, go("start"))
           \/ Return(w, None)
    BY DEF ListTransactions, tables, AllShares, HasEffect, LegsOf
  <1>2. JobOK(call[w]) /\ t \in Trade
    BY <1>1, JobFacts
  <1>3. CASE Return(w, None)
    BY <1>1, <1>3, ReturnKeepsChainInv
  <1>4. ASSUME NEW pc \in {"stock", "attribute", "start"}, S # {}, Goto(w, go(pc)),
               pc = "start" => HasEffect(t, S, "opening")
        PROVE  ChainInv'
    <2>1. Legs[t] # <<>> /\ S = 1..Len(Legs[t]) /\ S \in SUBSET Nat
      <3>1. Legs[t] # <<>>
        BY <1>2, <1>4, LegsFacts
      <3>2. Complete(t)
        BY <1>1, <1>2, <3>1 DEF JobOK
      <3> QED
        BY <1>2, <3>1, <3>2, StoredRows, LegsFacts DEF ChainInv
    <2>2. JobOK(go(pc))
      <3> HIDE DEF S
      <3> QED
        BY <1>1, <1>2, <1>4, <2>1 DEF JobOK, CallPC, HasLegs, HasChain, Unlinked
    <2>3. go(pc).trade = call[w].trade /\ go(pc).todo = call[w].todo
      BY <1>2 DEF JobOK
    <2> HIDE DEF go, S
    <2> QED
      BY <1>1, <1>4, <2>2, <2>3, GotoKeepsChainInv
  <1> HIDE DEF go, S
  <1> QED
    BY <1>1, <1>3, <1>4

LEMMA AttributeChainKeeps ==
    ASSUME ChainInv, NEW w \in Worker, AttributeChain(w)
    PROVE  ChainInv'
  <1>1. /\ call[w].pc = "attribute" /\ UNCHANGED <<txRows, chains, links, failures, scans>>
        /\ \/ \E c \in 1..Len(chains) : Goto(w, [call[w] EXCEPT !.pc = "links", !.chain = c])
           \/ Goto(w, [call[w] EXCEPT !.leg = call[w].leg + 1])
    BY DEF AttributeChain, tables, GetOpenChainForInstrument, OldestOf
  <1>2. ASSUME NEW c \in 1..Len(chains),
               Goto(w, [call[w] EXCEPT !.pc = "links", !.chain = c])
        PROVE  ChainInv'
    <2>1. JobOK([call[w] EXCEPT !.pc = "links", !.chain = c])
      BY <1>1, JobFacts DEF JobOK, CallPC, HasLegs, HasChain, Unlinked
    <2> QED
      BY <1>1, <1>2, <2>1, JobFacts, GotoKeepsChainInv DEF JobOK
  <1>3. CASE Goto(w, [call[w] EXCEPT !.leg = call[w].leg + 1])
    <2> DEFINE n == call[w].leg + 1
    <2>0. n \in Nat
      BY JobFacts DEF JobOK
    <2> HIDE DEF n
    <2>1. JobOK([call[w] EXCEPT !.leg = n])
      BY <1>1, <2>0, JobFacts DEF JobOK, CallPC, HasLegs, HasChain, Unlinked
    <2>2. Goto(w, [call[w] EXCEPT !.leg = n])
      BY <1>3 DEF n
    <2> QED
      BY <1>1, <2>1, <2>2, JobFacts, GotoKeepsChainInv DEF JobOK
  <1> QED
    BY <1>1, <1>2, <1>3

LEMMA UnattributableKeeps ==
    ASSUME ChainInv, NEW w \in Worker, Unattributable(w)
    PROVE  ChainInv'
  <1>1. /\ call[w].pc = "attribute" /\ UNCHANGED <<txRows, chains, links, failures, scans>>
        /\ \/ /\ HasEffect(call[w].trade, call[w].legs, "opening")
              /\ Goto(w, [call[w] EXCEPT !.pc = "start"])
           \/ Return(w, None)
    BY DEF Unattributable, tables
  <1>2. CASE /\ HasEffect(call[w].trade, call[w].legs, "opening")
             /\ Goto(w, [call[w] EXCEPT !.pc = "start"])
    <2>1. JobOK([call[w] EXCEPT !.pc = "start"])
      BY <1>1, <1>2, JobFacts DEF JobOK, CallPC, HasLegs, HasChain, Unlinked
    <2> QED
      BY <1>1, <1>2, <2>1, JobFacts, GotoKeepsChainInv DEF JobOK
  <1> QED
    BY <1>1, <1>2, ReturnKeepsChainInv

LEMMA ListChainLinksKeeps ==
    ASSUME ChainInv, NEW w \in Worker, ListChainLinks(w)
    PROVE  ChainInv'
  <1> DEFINE n == Cardinality(LinksOf(call[w].chain)) + 1
             job == [call[w] EXCEPT !.pc = "link", !.seq = n]
  <1>1. /\ call[w].pc = "links" /\ UNCHANGED <<txRows, chains, links, failures, scans>>
        /\ Goto(w, job)
    BY DEF ListChainLinks, tables
  <1>2. n \in Nat /\ n # 0
    BY LinksFinite DEF ChainInv
  <1> HIDE DEF n
  <1>3. JobOK(job)
    BY <1>1, <1>2, JobFacts DEF JobOK, CallPC, HasLegs, HasChain, Unlinked
  <1> QED
    BY <1>1, <1>3, JobFacts, GotoKeepsChainInv DEF JobOK

LEMMA CheckOpenKeeps ==
    ASSUME ChainInv, NEW w \in Worker, CheckOpen(w)
    PROVE  ChainInv'
  <1>1. /\ call[w].pc = "check" /\ UNCHANGED <<txRows, chains, links, failures, scans>>
    BY DEF CheckOpen, tables
  <1>2. PICK pc \in {"get", "stamp"} : Goto(w, [call[w] EXCEPT !.pc = pc])
    BY DEF CheckOpen
  <1>3. JobOK([call[w] EXCEPT !.pc = pc])
    BY <1>1, JobFacts DEF JobOK, CallPC, HasLegs, HasChain, Unlinked
  <1> QED
    BY <1>1, <1>2, <1>3, JobFacts, GotoKeepsChainInv DEF JobOK

LEMMA FindStockChainKeeps ==
    ASSUME ChainInv, NEW w \in Worker, FindStockChain(w)
    PROVE  ChainInv'
  <1>1. /\ call[w].pc = "stock" /\ UNCHANGED <<txRows, chains, links, failures, scans>>
        /\ \/ \E c \in 1..Len(chains) : Goto(w, [call[w] EXCEPT !.pc = "links", !.chain = c])
           \/ Goto(w, [call[w] EXCEPT !.pc = "newstock"])
    BY DEF FindStockChain, tables, GetStockChainBySymbol
  <1>2. ASSUME NEW c \in 1..Len(chains),
               Goto(w, [call[w] EXCEPT !.pc = "links", !.chain = c])
        PROVE  ChainInv'
    <2>1. JobOK([call[w] EXCEPT !.pc = "links", !.chain = c])
      BY <1>1, JobFacts DEF JobOK, CallPC, HasLegs, HasChain, Unlinked
    <2> QED
      BY <1>1, <1>2, <2>1, JobFacts, GotoKeepsChainInv DEF JobOK
  <1>3. CASE Goto(w, [call[w] EXCEPT !.pc = "newstock"])
    <2>1. JobOK([call[w] EXCEPT !.pc = "newstock"])
      BY <1>1, JobFacts DEF JobOK, CallPC, HasLegs, HasChain, Unlinked
    <2> QED
      BY <1>1, <1>3, <2>1, JobFacts, GotoKeepsChainInv DEF JobOK
  <1> QED
    BY <1>1, <1>2, <1>3

LEMMA ReturningKeeps ==
    ASSUME ChainInv, NEW w \in Worker, GetChainByID(w) \/ ChainLinkRejected(w) \/ CutShort(w)
    PROVE  ChainInv'
  <1>1. CASE GetChainByID(w)
    BY <1>1, JobFacts, ReturnKeepsChainInv DEF GetChainByID, tables, HasChain
  <1>2. CASE ChainLinkRejected(w)
    BY <1>2, FailKeepsChainInv DEF ChainLinkRejected, tables, ChainInv
  <1>3. CASE CutShort(w)
    BY <1>3, FailKeepsChainInv, BoundsAssumption DEF CutShort, tables, ChainInv
  <1> QED
    BY <1>1, <1>2, <1>3

LEMMA DetectChainsKeeps ==
    ASSUME ChainInv, RowsWhole, NEW w \in Worker, DetectChains(w), AtRest
    PROVE  ChainInv'
  <1> DEFINE stored == {row[1] : row \in txRows}
  <1>1. /\ \A v \in Worker : call[v].pc = "idle"
        /\ UNCHANGED <<txRows, chains, links, failures>>
        /\ scans' \in 0..MaxScans
    BY BoundsAssumption DEF DetectChains, tables, ChainInv, AtRest
  <1>2. PICK t \in Earliest(stored) : Goto(w, Begin([IdleJob EXCEPT !.todo = stored], t))
    BY DEF DetectChains
  <1>3. \A u \in stored : u \in Trade /\ Complete(u)
    <2> SUFFICES ASSUME NEW row \in txRows
                 PROVE  row[1] \in Trade /\ Complete(row[1])
      OBVIOUS
    <2>1. PICK u \in Trade : row \in RowsOf(u)
      BY DEF ChainInv, RowsOK
    <2>2. row[1] = u /\ Stored(u)
      BY <2>1 DEF Stored, RowsOf
    <2> QED
      BY <2>1, <2>2 DEF RowsWhole
  <1>4. t \in stored
    BY DEF Earliest
  <1>5. /\ call'[w] = [pc |-> "lookup", trade |-> t, todo |-> stored \ {t}, legs |-> {},
                       leg |-> 0, chain |-> None, seq |-> 0, answer |-> None]
        /\ call' = [v \in Worker |-> call'[v]]
        /\ \A v \in Worker : v # w => call'[v] = call[v]
    BY <1>2 DEF Goto, ChainInv, Begin, IdleJob
  <1> HIDE DEF stored
  <1>6. JobOK(call[w])'
    <2>1. stored \ {t} \in SUBSET Trade
      BY <1>3
    <2>2. \A u \in Trade : Complete(u) => Complete(u)'
      BY <1>1, SameTables
    <2> QED
      BY <1>3, <1>4, <1>5, <2>1, <2>2 DEF JobOK, CallPC, Unlinked, HasLegs, HasChain
  <1>7. \A u \in Trade : \A v \in Worker : v # w => ~Holds(v, u)
    BY <1>1, JobFacts DEF Holds, JobOK
  <1> QED
    BY <1>1, <1>5, <1>6, <1>7, QuietKeepsChainInv DEF Quiet, ChainInv

-----------------------------------------------------------------------------
(* The steps that write a table.                                            *)

\* The call that writes a trade's chain or link is the only one that holds the
\* trade.
LEMMA WriterFacts ==
    ASSUME ChainInv, NEW w \in Worker, call[w].pc \in Unlinked \ {"list"}
    PROVE  /\ call[w].trade \in Trade /\ Complete(call[w].trade)
           /\ \A c \in 1..Len(chains) : ~Owns(c, call[w].trade)
           /\ \A v \in Worker : v # w /\ call[v].pc \in Unlinked =>
                 /\ call[v].trade # call[w].trade
                 /\ \A c \in 1..Len(chains) : ~Owns(c, call[v].trade)
  <1>1. /\ call[w].pc # "idle" /\ call[w].pc \in Unlinked /\ call[w].pc \in HasLegs
    BY DEF Unlinked, HasLegs, CallPC
  <1>2. /\ call[w].trade \in Trade /\ Complete(call[w].trade) /\ Legs[call[w].trade] # <<>>
        /\ \A c \in 1..Len(chains) : ~Owns(c, call[w].trade)
    BY <1>1, JobFacts DEF JobOK
  <1>3. ASSUME NEW v \in Worker, v # w, call[v].pc \in Unlinked
        PROVE  /\ call[v].trade # call[w].trade
               /\ \A c \in 1..Len(chains) : ~Owns(c, call[v].trade)
    <2>1. call[v].pc # "idle"
      BY <1>3 DEF Unlinked
    <2> QED
      BY <1>1, <1>2, <1>3, <2>1, JobFacts DEF ChainInv, HoldersOK, Holds, JobOK
  <1> QED
    BY <1>2, <1>3

LEMMA NewChainKeeps ==
    ASSUME ChainInv, NEW w \in Worker, NEW stock \in BOOLEAN, NEW gap \in BOOLEAN,
           NewChain(w, stock, gap),
           call[w].pc \in {"start", "newstock"}, Return(w, Len(chains) + 1),
           UNCHANGED <<txRows, links, failures, scans>>
    PROVE  ChainInv'
  <1> DEFINE t == call[w].trade
             row == [trade |-> t, at |-> ExecutedAt[t], closed |-> FALSE, stock |-> stock,
                     gap |-> gap]
  <1>1. chains' = Append(chains, row)
    BY DEF NewChain
  <1>2. /\ t \in Trade /\ Complete(t)
        /\ \A c \in 1..Len(chains) : ~Owns(c, t)
        /\ \A v \in Worker : v # w /\ call[v].pc \in Unlinked =>
             call[v].trade # t /\ \A c \in 1..Len(chains) : ~Owns(c, call[v].trade)
    BY WriterFacts DEF Unlinked
  <1>3. row \in [trade: Trade, at: Nat, closed: BOOLEAN, stock: BOOLEAN, gap: BOOLEAN]
    <2>1. ExecutedAt[t] \in Nat
      BY <1>2, ExecutedAtAssumption
    <2> QED
      BY <1>2, <2>1
  <1>4. TablesOK /\ Len(chains) \in Nat
    BY JobFacts DEF ChainInv
  <1>5. PICK new : new = Len(chains) + 1
    OBVIOUS
  <1>6. row.trade = t
    OBVIOUS
  <1> HIDE DEF row
  <1>7. /\ Len(chains') = new
        /\ \A u : \A c \in 1..Len(chains) : Owns(c, u)' <=> Owns(c, u)
        /\ \A u : Owns(new, u)' <=> u = t
    <2>1. /\ Len(chains') = Len(chains) + 1
          /\ \A u : \A c \in 1..Len(chains) : Owns(c, u)' <=> Owns(c, u)
          /\ \A u : Owns(new, u)' <=> u = row.trade
      BY <1>1, <1>4, <1>5, OwnersAfterNewChain
    <2> QED
      BY <1>5, <1>6, <2>1
  <1>8. \A c \in 1..Len(chains') : c \in 1..Len(chains) \/ c = new
    BY <1>4, <1>5, <1>7
  <1>9. \A u : Complete(u)' <=> Complete(u)
    BY DEF Complete
  <1>10. TablesOK' /\ RowsOK'
    <2>1. chains' \in Seq([trade: Trade, at: Nat, closed: BOOLEAN, stock: BOOLEAN, gap: BOOLEAN])
      BY <1>1, <1>3, <1>4, AppendProperties DEF TablesOK
    <2>2. \A k \in 1..Len(links) : links[k].chain \in 1..Len(chains')
      BY <1>4, <1>5, <1>7 DEF TablesOK
    <2> QED
      BY <1>4, <1>9, <2>1, <2>2 DEF TablesOK, RowsOK, ChainInv
  <1>11. OwnersOK'
    <2>1. \A u \in Trade : \A c \in 1..Len(chains') : Owns(c, u)' =>
             IF u = t THEN c = new ELSE c \in 1..Len(chains) /\ Owns(c, u)
      BY <1>2, <1>7, <1>8
    <2>2. OwnersOK
      BY DEF ChainInv
    <2> QED
      BY <1>2, <1>9, <2>1, <2>2 DEF OwnersOK
  <1>12. \A v \in Worker : v # w /\ call[v].pc \in Unlinked =>
            \A c \in 1..Len(chains') : ~Owns(c, call[v].trade)'
    <2> SUFFICES ASSUME NEW v \in Worker, v # w, call[v].pc \in Unlinked
                 PROVE  \A c \in 1..Len(chains') : ~Owns(c, call[v].trade)'
      OBVIOUS
    <2>1. PICK u : u = call[v].trade
      OBVIOUS
    <2>2. call'[v].trade = u
      BY <1>4, <1>5, <1>7, <1>9, <2>1, ReturnFacts
    <2>3. \A c \in 1..Len(chains') : ~Owns(c, u)'
      BY <1>2, <1>7, <1>8, <2>1
    <2> QED
      BY <2>2, <2>3
  <1>13. /\ JobOK(call[w])'
         /\ \A v \in Worker : v # w => call'[v] = call[v]
         /\ call' = [v \in Worker |-> call'[v]]
         /\ \A u \in Trade : Holds(w, u)' => Holds(w, u)
    BY <1>4, <1>5, <1>7, <1>9, ReturnFacts
  <1>14. /\ failures' \in 0..MaxFailures /\ scans' \in 0..MaxScans
         /\ Len(chains') \in Nat /\ Len(chains) <= Len(chains')
    BY <1>4, <1>5, <1>7 DEF ChainInv
  <1> QED
    BY <1>4, <1>9, <1>10, <1>11, <1>12, <1>13, <1>14, OneCallKeepsChainInv

LEMMA CreateChainLinkKeeps ==
    ASSUME ChainInv, NEW w \in Worker, CreateChainLink(w)
    PROVE  ChainInv'
  <1>1. PICK t, c0, n : t = call[w].trade /\ c0 = call[w].chain /\ n = call[w].seq
    OBVIOUS
  <1> DEFINE row == [chain |-> c0, seq |-> n, trade |-> t]
  <1>2. /\ call[w].pc = "link" /\ links' = Append(links, row)
        /\ UNCHANGED <<txRows, chains, failures, scans>>
    BY <1>1 DEF CreateChainLink
  <1>3. /\ t \in Trade /\ Complete(t)
        /\ \A c \in 1..Len(chains) : ~Owns(c, t)
        /\ \A v \in Worker : v # w /\ call[v].pc \in Unlinked =>
             call[v].trade # t /\ \A c \in 1..Len(chains) : ~Owns(c, call[v].trade)
    BY <1>1, <1>2, WriterFacts DEF Unlinked
  <1>4. c0 \in 1..Len(chains) /\ Len(chains) \in Nat /\ TablesOK /\ JobOK(call[w])
    BY <1>1, <1>2, JobFacts DEF ChainInv, HasChain
  <1>5. n \in Nat \ {0}
    BY <1>1, <1>2, <1>4 DEF JobOK
  <1>6. \A c, u : Owns(c, u)' <=> Owns(c, u) \/ (c = c0 /\ u = t)
    BY <1>2, <1>4, OwnersAfterNewLink
  <1>7. \A u : Complete(u)' <=> Complete(u)
    BY <1>2 DEF Complete
  <1>8. TablesOK' /\ RowsOK'
    <2>1. row \in [chain: Nat \ {0}, seq: Nat \ {0}, trade: Trade]
      BY <1>3, <1>4, <1>5
    <2>2. /\ links' \in Seq([chain: Nat \ {0}, seq: Nat \ {0}, trade: Trade])
          /\ Len(links') = Len(links) + 1 /\ Len(links) \in Nat
          /\ \A k \in 1..Len(links) : links'[k] = links[k]
          /\ links'[Len(links) + 1] = row
      BY <1>2, <1>4, <2>1, AppendProperties, LenProperties DEF TablesOK
    <2>3. ASSUME NEW k \in 1..Len(links')
          PROVE  links'[k].chain \in 1..Len(chains')
      <3>1. k \in 1..Len(links) \/ k = Len(links) + 1
        BY <2>2
      <3>2. chains' = chains /\ row.chain = c0
        BY <1>2
      <3> QED
        BY <1>4, <2>2, <3>1, <3>2 DEF TablesOK
    <2> QED
      BY <1>2, <1>4, <1>7, <2>2, <2>3 DEF TablesOK, RowsOK, ChainInv
  <1>9. OwnersOK'
    BY <1>2, <1>3, <1>6, <1>7 DEF OwnersOK, ChainInv
  <1>10. /\ JobOK(call[w])'
         /\ \A v \in Worker : v # w => call'[v] = call[v]
         /\ call' = [v \in Worker |-> call'[v]]
         /\ \A u \in Trade : Holds(w, u)' => Holds(w, u)
    <2>1. CASE Return(w, call[w].chain)
      BY <1>1, <1>2, <1>4, <1>7, <2>1, ReturnFacts
    <2>2. ASSUME NEW pc \in {"check", "get"}, Goto(w, [call[w] EXCEPT !.pc = pc])
          PROVE  <1>10!:
      <3>1. /\ call'[w] = [call[w] EXCEPT !.pc = pc] /\ call' = [v \in Worker |-> call'[v]]
            /\ \A v \in Worker : v # w => call'[v] = call[v]
        BY <2>2 DEF Goto, ChainInv
      <3>2. JobOK(call[w])'
        BY <1>2, <1>4, <1>7, <3>1 DEF JobOK, CallPC, Unlinked, HasLegs, HasChain
      <3> QED
        BY <1>2, <1>4, <3>1, <3>2 DEF Holds, JobOK
    <2> QED
      BY <2>1, <2>2 DEF CreateChainLink
  <1>11. \A v \in Worker : v # w /\ call[v].pc \in Unlinked =>
            \A c \in 1..Len(chains') : ~Owns(c, call[v].trade)'
    <2> SUFFICES ASSUME NEW v \in Worker, v # w, call[v].pc \in Unlinked
                 PROVE  \A c \in 1..Len(chains') : ~Owns(c, call[v].trade)'
      OBVIOUS
    <2>1. PICK u : u = call[v].trade
      OBVIOUS
    <2>2. call'[v].trade = u
      BY <1>10, <2>1
    <2>3. \A c \in 1..Len(chains') : ~Owns(c, u)'
      BY <1>2, <1>3, <1>6, <2>1
    <2> QED
      BY <2>2, <2>3
  <1> QED
    BY <1>2, <1>4, <1>7, <1>8, <1>9, <1>10, <1>11, OneCallKeepsChainInv DEF ChainInv

LEMMA UpdateChainClosedKeeps ==
    ASSUME ChainInv, NEW w \in Worker, UpdateChainClosed(w)
    PROVE  ChainInv'
  <1>1. PICK c0 : c0 = call[w].chain
    OBVIOUS
  <1>2. /\ call[w].pc = "stamp" /\ UNCHANGED <<txRows, links, failures, scans>>
        /\ chains' = [chains EXCEPT ![c0].closed = TRUE]
        /\ Goto(w, [call[w] EXCEPT !.pc = "get"])
    BY <1>1 DEF UpdateChainClosed
  <1>3. c0 \in 1..Len(chains) /\ Len(chains) \in Nat /\ TablesOK /\ JobOK(call[w])
    BY <1>1, <1>2, JobFacts DEF ChainInv, HasChain
  <1>4. /\ chains' \in Seq([trade: Trade, at: Nat, closed: BOOLEAN, stock: BOOLEAN, gap: BOOLEAN])
        /\ Len(chains') = Len(chains)
        /\ \A c \in 1..Len(chains) : chains'[c].trade = chains[c].trade
    <2>1. chains[c0] \in [trade: Trade, at: Nat, closed: BOOLEAN, stock: BOOLEAN, gap: BOOLEAN]
      BY <1>3, ElementOfSeq DEF TablesOK
    <2> DEFINE row == [chains[c0] EXCEPT !.closed = TRUE]
    <2>2. /\ row \in [trade: Trade, at: Nat, closed: BOOLEAN, stock: BOOLEAN, gap: BOOLEAN]
          /\ row.trade = chains[c0].trade
      BY <2>1
    <2>3. chains' = [chains EXCEPT ![c0] = row]
      BY <1>2
    <2> HIDE DEF row
    <2> QED
      BY <1>3, <2>2, <2>3, ExceptSeq DEF TablesOK
  <1>5. /\ \A c, u : Owns(c, u)' <=> Owns(c, u)
        /\ \A u : Complete(u)' <=> Complete(u)
    BY <1>2, <1>4, SameOwners DEF Complete
  <1>6. TablesOK' /\ RowsOK' /\ OwnersOK'
    BY <1>2, <1>3, <1>4, <1>5 DEF TablesOK, RowsOK, OwnersOK, ChainInv
  <1>7. /\ call'[w] = [call[w] EXCEPT !.pc = "get"] /\ call' = [v \in Worker |-> call'[v]]
        /\ \A v \in Worker : v # w => call'[v] = call[v]
    BY <1>2 DEF Goto, ChainInv
  <1>8. JobOK(call[w])'
    BY <1>2, <1>3, <1>4, <1>5, <1>7 DEF JobOK, CallPC, Unlinked, HasLegs, HasChain
  <1>9. \A u \in Trade : Holds(w, u)' => Holds(w, u)
    BY <1>2, <1>3, <1>7 DEF Holds, JobOK
  <1>10. \A v \in Worker : v # w /\ call[v].pc \in Unlinked =>
            \A c \in 1..Len(chains') : ~Owns(c, call[v].trade)'
    BY <1>4, <1>5, <1>7, JobFacts DEF JobOK
  <1>11. failures' \in 0..MaxFailures /\ scans' \in 0..MaxScans
    BY <1>2 DEF ChainInv
  <1>12. Len(chains') \in Nat /\ Len(chains) <= Len(chains')
    BY <1>3, <1>4
  <1> QED
    BY <1>3, <1>5, <1>6, <1>7, <1>8, <1>9, <1>10, <1>11, <1>12, OneCallKeepsChainInv

-----------------------------------------------------------------------------
(* The environment.                                                         *)

\* Storing transactions disturbs no call.
LEMMA RowsStored ==
    ASSUME ChainInv, NEW new, new \subseteq UNION {RowsOf(u) : u \in Trade},
           txRows' = txRows \cup new, UNCHANGED <<chains, links>>
    PROVE  /\ RowsOK' /\ TablesOK' /\ OwnersOK'
           /\ \A u : Complete(u) => Complete(u)'
           /\ \A c, u : Owns(c, u)' <=> Owns(c, u)
           /\ Len(chains) \in Nat /\ Len(chains') = Len(chains)
  <1>1. \A c, u : Owns(c, u)' <=> Owns(c, u)
    BY SameOwners
  <1>2. \A u : Complete(u) => Complete(u)'
    BY DEF Complete
  <1>3. RowsOK'
    BY DEF ChainInv, RowsOK
  <1>4. TablesOK' /\ OwnersOK' /\ Len(chains) \in Nat
    BY <1>1, <1>2, LenProperties DEF ChainInv, TablesOK, OwnersOK
  <1> QED
    BY <1>1, <1>2, <1>3, <1>4

\* A call is handed a trade that is complete and in no other call.
LEMMA ProcessTradeKeeps ==
    ASSUME ChainInv, NEW w \in Worker, NEW t \in Trade, ProcessTrade(w, t),
           NEW new, new \subseteq UNION {RowsOf(u) : u \in Trade},
           txRows' = txRows \cup new,
           Legs[t] # <<>> => Complete(t)' /\ \A v \in Worker : ~Holds(v, t)
    PROVE  ChainInv'
  <1>2. /\ call[w].pc = "idle" /\ UNCHANGED <<chains, links, failures, scans>>
        /\ Goto(w, Begin(IdleJob, t))
    BY DEF ProcessTrade
  <1>3. /\ RowsOK' /\ TablesOK' /\ OwnersOK'
        /\ \A u \in Trade : Complete(u) => Complete(u)'
        /\ \A c, u : Owns(c, u)' <=> Owns(c, u)
        /\ Len(chains) \in Nat /\ Len(chains') = Len(chains)
    BY <1>2, RowsStored
  <1>4. /\ call'[w] = [pc |-> "lookup", trade |-> t, todo |-> {}, legs |-> {},
                       leg |-> 0, chain |-> None, seq |-> 0, answer |-> None]
        /\ call' = [v \in Worker |-> call'[v]]
        /\ \A v \in Worker : v # w => call'[v] = call[v]
    BY <1>2 DEF Goto, ChainInv, Begin, IdleJob
  <1>5. JobOK(call[w])'
    BY <1>3, <1>4 DEF JobOK, CallPC, Unlinked, HasLegs, HasChain
  <1>6. \A u \in Trade : Holds(w, u)' /\ Legs[u] # <<>> => \A v \in Worker : ~Holds(v, u)
    <2>1. \A u : Holds(w, u)' => u = t
      BY <1>4 DEF Holds
    <2> QED
      BY <2>1
  <1>7. \A v \in Worker : v # w /\ call[v].pc \in Unlinked =>
            \A c \in 1..Len(chains') : ~Owns(c, call[v].trade)'
    BY <1>3, <1>4, JobFacts DEF JobOK
  <1>8. failures' \in 0..MaxFailures /\ scans' \in 0..MaxScans
    BY <1>2 DEF ChainInv
  <1>9. Len(chains') \in Nat /\ Len(chains) <= Len(chains')
    BY <1>3
  <1> QED
    BY <1>3, <1>4, <1>5, <1>6, <1>7, <1>8, <1>9, OneCallKeepsChainInv

\* Here a trade's transactions are stored together, once.
LEMMA TradeStored ==
    ASSUME ChainInv, NEW t \in Trade, ~Stored(t), txRows' = txRows \cup RowsOf(t)
    PROVE  /\ Legs[t] # <<>> => Complete(t)' /\ \A v \in Worker : ~Holds(v, t)
           /\ RowsOf(t) \subseteq UNION {RowsOf(u) : u \in Trade}
  <1>1. \A v \in Worker : Holds(v, t) /\ Legs[t] # <<>> => Complete(t)
    BY JobFacts DEF Holds, JobOK
  <1> QED
    BY <1>1, LegsFacts DEF Complete

LEMMA ImportKeeps ==
    ASSUME ChainInv, NEW w \in Worker, Import(w)
    PROVE  ChainInv'
  <1>1. PICK t \in Trade : /\ ~Stored(t) /\ txRows' = txRows \cup RowsOf(t)
                           /\ ProcessTrade(w, t)
    BY DEF Import
  <1> QED
    BY <1>1, TradeStored, ProcessTradeKeeps

\* Storing transactions is all that happens.
LEMMA RowsKeepChainInv ==
    ASSUME ChainInv, NEW new, new \subseteq UNION {RowsOf(u) : u \in Trade},
           txRows' = txRows \cup new, UNCHANGED <<chains, links, call, scans>>,
           failures' \in 0..MaxFailures
    PROVE  ChainInv'
  <1>2. /\ RowsOK' /\ TablesOK' /\ OwnersOK'
        /\ \A u : Complete(u) => Complete(u)'
        /\ \A c, u : Owns(c, u)' <=> Owns(c, u)
        /\ Len(chains) \in Nat /\ Len(chains') = Len(chains)
    BY RowsStored
  <1>4. ASSUME NEW v \in Worker
        PROVE  JobOK(call[v])'
    <2>1. JobOK(call[v]) /\ call' = call
      BY JobFacts
    <2> QED
      BY <1>2, <2>1 DEF JobOK, HasEffect, LegsOf
  <1>5. HoldersOK' /\ call' = [v \in Worker |-> call'[v]] /\ scans' \in 0..MaxScans
    BY DEF ChainInv, HoldersOK, Holds
  <1> QED
    BY <1>2, <1>4, <1>5 DEF ChainInv

LEMMA StoreOnlyKeeps ==
    ASSUME ChainInv, StoreOnly
    PROVE  ChainInv'
  <1>1. PICK t \in Trade :
           /\ ~Stored(t) /\ txRows' = txRows \cup RowsOf(t)
           /\ failures < MaxFailures /\ failures' = failures + 1
           /\ UNCHANGED <<chains, links, call, scans>>
    BY DEF StoreOnly
  <1>2. failures' \in 0..MaxFailures
    BY <1>1, BoundsAssumption DEF ChainInv
  <1> QED
    BY <1>1, <1>2, TradeStored, RowsKeepChainInv

LEMMA ChainStepKeeps ==
    ASSUME ChainInv, NEW w \in Worker, ChainStep(w)
    PROVE  ChainInv'
  <1>1. CASE StartChain(w)
    <2>1. /\ OpensSharesOnly(call[w].trade, call[w].legs) \in BOOLEAN
          /\ HasEffect(call[w].trade, call[w].legs, "closing") \in BOOLEAN
      BY Zenon DEF OpensSharesOnly, HasEffect
    <2> QED
      BY <1>1, <2>1, NewChainKeeps DEF StartChain
  <1>2. CASE CreateStockChain(w)
    BY <1>2, NewChainKeeps DEF CreateStockChain
  <1> QED
    BY <1>1, <1>2, LookupKeeps, ListTransactionsKeeps, AttributeChainKeeps,
       UnattributableKeeps, ListChainLinksKeeps, CreateChainLinkKeeps, ReturningKeeps,
       CheckOpenKeeps, UpdateChainClosedKeeps, FindStockChainKeeps DEF ChainStep

\* Only the environment stores transactions.
LEMMA RowsStayWhole ==
    ASSUME ChainInv, RowsWhole, [Next]_vars
    PROVE  RowsWhole'
  <1>1. ASSUME NEW t \in Trade, ~Stored(t), txRows' = txRows \cup RowsOf(t)
        PROVE  RowsWhole'
    <2> SUFFICES ASSUME NEW u \in Trade, Stored(u)' PROVE Complete(u)'
      BY DEF RowsWhole
    <2>1. CASE u = t
      <3>1. Legs[u] # <<>>
        <4>1. 1..Len(Legs[u]) # {}
          BY DEF Stored, RowsOf
        <4> QED
          BY <4>1, LegsFacts
      <3> QED
        BY <1>1, <2>1, <3>1 DEF Complete
    <2>2. CASE u # t
      <3>1. RowsOf(u) \cap RowsOf(t) = {}
        BY <2>2 DEF RowsOf
      <3>2. Stored(u)
        BY <1>1, <3>1 DEF Stored
      <3> QED
        BY <1>1, <3>2 DEF RowsWhole, Complete
    <2> QED
      BY <2>1, <2>2
  <1>2. CASE txRows' = txRows
    BY <1>2 DEF RowsWhole, Stored, Complete
  <1>3. \/ txRows' = txRows
        \/ \E t \in Trade : ~Stored(t) /\ txRows' = txRows \cup RowsOf(t)
    BY DEF Next, vars, tables, StoreOnly, Import, DetectChains, CutShort, ChainStep, Lookup,
       ListTransactions, AttributeChain, Unattributable, StartChain, ListChainLinks,
       CreateChainLink, ChainLinkRejected, CheckOpen, UpdateChainClosed, GetChainByID,
       FindStockChain, CreateStockChain
  <1> QED
    BY <1>1, <1>2, <1>3

LEMMA NextChainInv ==
    ASSUME ChainInv, RowsWhole, [ContractNext]_vars
    PROVE  ChainInv'
  <1>1. CASE UNCHANGED vars
    <2>1. /\ UNCHANGED <<txRows, chains, links>> /\ call' = call /\ failures' = failures
          /\ scans' = scans
      BY <1>1 DEF vars
    <2> QED
      BY <2>1, SameTables DEF ChainInv, HoldersOK, Holds, JobOK, HasEffect, LegsOf
  <1>2. ASSUME NEW w \in Worker, ScanAlone(w)
        PROVE  ChainInv'
    BY <1>2, DetectChainsKeeps DEF ScanAlone
  <1> QED
    BY <1>1, <1>2, ChainStepKeeps, ImportKeeps, ReturningKeeps, StoreOnlyKeeps DEF ContractNext

LEMMA InitChainInv == Init => ChainInv /\ RowsWhole
  <1> SUFFICES ASSUME Init PROVE ChainInv /\ RowsWhole
    OBVIOUS
  <1>1. (\A t : ~Stored(t)) /\ RowsWhole
    BY DEF Init, Stored, RowsWhole
  <1>2. RowsOK /\ HoldersOK
    BY <1>1 DEF Init, RowsOK, HoldersOK, Holds, IdleJob
  <1>3. TablesOK /\ OwnersOK
    BY DEF Init, TablesOK, OwnersOK
  <1>4. \A w \in Worker : JobOK(call[w])
    BY DEF Init, JobOK, IdleJob, CallPC, Unlinked, HasLegs, HasChain
  <1> QED
    BY <1>1, <1>2, <1>3, <1>4, BoundsAssumption DEF Init, ChainInv

LEMMA ContractSteps == ContractNext => Next
  BY DEF ContractNext, Next, ScanAlone

LEMMA ChainInvHolds == ContractSpec => [](ChainInv /\ RowsWhole)
  <1>1. ChainInv /\ RowsWhole /\ [ContractNext]_vars => ChainInv' /\ RowsWhole'
    BY NextChainInv, RowsStayWhole, ContractSteps
  <1> QED
    BY <1>1, InitChainInv, PTL DEF ContractSpec

-----------------------------------------------------------------------------
(* Types, and one chain per trade.                                          *)

\* No trade starts two chains, so there are no more chains than trades.
LEMMA ChainsBounded ==
    ASSUME ChainInv
    PROVE  1..Len(chains) \subseteq ChainId
  <1>1. Len(chains) \in Nat /\ \A c \in 1..Len(chains) : chains[c].trade \in Trade
    <2>1. chains \in Seq([trade: Trade, at: Nat, closed: BOOLEAN, stock: BOOLEAN, gap: BOOLEAN])
      BY DEF ChainInv, TablesOK
    <2>2. \A c \in 1..Len(chains) :
             chains[c] \in [trade: Trade, at: Nat, closed: BOOLEAN, stock: BOOLEAN, gap: BOOLEAN]
      BY <2>1, ElementOfSeq
    <2> QED
      BY <2>1, <2>2, LenProperties
  <1> DEFINE f == [c \in 1..Len(chains) |-> chains[c].trade]
  <1>2. \A c, d \in 1..Len(chains) : f[c] = f[d] => c = d
    BY <1>1 DEF ChainInv, OwnersOK, Owns
  <1>3. f \in Injection(1..Len(chains), Trade)
    BY <1>1, <1>2 DEF Injection, IsInjective
  <1>4. Cardinality(1..Len(chains)) <= Cardinality(Trade)
    BY <1>3, FS_Injection, TradeAssumption DEF ExistsInjection
  <1>5. Cardinality(1..Len(chains)) = Len(chains)
    <2>1. \A n \in Nat : Cardinality(1..n) = n
      BY FS_Interval
    <2> QED
      BY <1>1, <2>1
  <1>6. Cardinality(Trade) \in Nat
    BY TradeAssumption, FS_CardinalityType
  <1> QED
    BY <1>1, <1>4, <1>5, <1>6 DEF ChainId

LEMMA ChainInvTypes ==
    ASSUME ChainInv
    PROVE  TypeOK
  <1>1. txRows \subseteq Trade \X Nat
    BY DEF ChainInv, RowsOK, RowsOf
  <1>2. chains \in Seq(ChainRow)
    BY DEF ChainInv, TablesOK, ChainRow
  <1>3. links \in Seq(LinkRow)
    <2>1. Len(links) \in Nat /\ links \in [1..Len(links) -> [chain: Nat \ {0}, seq: Nat \ {0}, trade: Trade]]
      BY LenProperties DEF ChainInv, TablesOK
    <2>2. \A k \in 1..Len(links) : links[k] \in LinkRow
      BY <2>1, ChainsBounded DEF ChainInv, TablesOK, LinkRow
    <2>3. links \in [1..Len(links) -> LinkRow]
      BY <2>1, <2>2
    <2> QED
      BY <2>1, <2>3, SeqDef
  <1>4. ASSUME NEW w \in Worker
        PROVE  call[w] \in Job
    BY JobFacts, ChainsBounded DEF JobOK, Job
  <1>5. call \in [Worker -> Job]
    <2>1. call = [w \in Worker |-> call[w]]
      BY DEF ChainInv
    <2> QED
      BY <1>4, <2>1
  <1>6. Len(chains) <= Cardinality(Trade) /\ \A k \in 1..Len(links) : links[k].chain <= Len(chains)
    <2>1. Len(chains) \in Nat /\ Cardinality(Trade) \in Nat
      BY LenProperties, TradeAssumption, FS_CardinalityType DEF ChainInv, TablesOK
    <2> QED
      BY <2>1, ChainsBounded DEF ChainId, ChainInv, TablesOK
  <1> QED
    BY <1>1, <1>2, <1>3, <1>5, <1>6 DEF ChainInv, TypeOK

LEMMA ChainInvOneChain ==
    ASSUME ChainInv
    PROVE  OneChainPerTrade
  <1> SUFFICES ASSUME NEW t \in Trade
               PROVE  Cardinality(Owners(t)) <= 1
    BY DEF OneChainPerTrade
  <1>1. \A c, d \in Owners(t) : c = d
    <2>1. Owners(t) \subseteq 1..Len(chains)
      BY DEF Owners
    <2> QED
      BY <2>1, OwnersAreOwns DEF ChainInv, OwnersOK
  <1>2. CASE Owners(t) = {}
    BY <1>2, FS_EmptySet
  <1>3. CASE Owners(t) # {}
    <2>1. PICK c : Owners(t) = {c}
      BY <1>1, <1>3
    <2>2. Cardinality({c}) = 1
      BY FS_Singleton
    <2>3. Cardinality(Owners(t)) = 1
      BY <2>1, <2>2, Zenon
    <2> QED
      BY <2>3
  <1> QED
    BY <1>2, <1>3

\* Types: every link names a chain that exists, no link is numbered zero, and
\* there are never more chains than trades, however many callers there are, if
\* scans start while no other call runs.
THEOREM TypeCorrect == ContractSpec => []TypeOK
  BY ChainInvHolds, ChainInvTypes, PTL

\* A trade belongs to one chain at most, however many imports run at the same
\* time and beside a scan that was begun before them, and wherever they are cut
\* short: the lookup at the start of processTrade is enough because then no two
\* calls hold the same trade.  A scan begun beside an import may hold its trade
\* too, which ContractSpec excludes and the code does not.
THEOREM EveryTradeHasOneChain == ContractSpec => []OneChainPerTrade
  BY ChainInvHolds, ChainInvOneChain, PTL

-----------------------------------------------------------------------------
(* What a call answers, for any number of callers.                          *)

\* Only trades that close something, or hold shares, join a chain they did not
\* start.
Extends(t) ==
    \/ HasEffect(t, 1..Len(Legs[t]), "closing")
    \/ AllShares(t, 1..Len(Legs[t]))

JobAnswers(job) ==
    /\ job.pc \in {"stock", "newstock"} => AllShares(job.trade, 1..Len(Legs[job.trade]))
    /\ job.pc \in HasChain => Extends(job.trade)
    /\ job.pc \in {"check", "stamp", "get"} => Owns(job.chain, job.trade)

AnswerInv ==
    /\ \A k \in 1..Len(links) : Extends(links[k].trade)
    /\ \A w \in Worker : JobAnswers(call[w])

\* The answer for trade t is an error, or the chain of t, or "no chain" when t
\* opens nothing.
Answers(t, c) ==
    \/ c = Error
    \/ c = None /\ ~HasEffect(t, 1..Len(Legs[t]), "opening")
    \/ Owns(c, t) /\ (chains[c].trade = t \/ Extends(t))

\* Trades never leave their chain.
OwnersStay ==
    /\ \A c, t : Owns(c, t) => Owns(c, t)'
    /\ Len(chains) \in Nat /\ Len(chains') \in Nat /\ Len(chains) <= Len(chains')
    /\ \A c \in 1..Len(chains) : chains'[c].trade = chains[c].trade

\* A call goes on with its trade, or answers for it.
CallMoves(w) ==
    /\ \A v \in Worker : v # w => call'[v] = call[v]
    /\ IF call'[w].pc = "idle"
       THEN \A t, c : call[w].trade = t /\ call'[w].answer = c => Answers(t, c)'
       ELSE call[w].todo = {} => call'[w].todo = {} /\ call'[w].trade = call[w].trade

LEMMA ChainStepOwners ==
    ASSUME ChainInv, NEW w \in Worker, ChainStep(w)
    PROVE  OwnersStay
  <1>1. TablesOK /\ Len(chains) \in Nat
    BY JobFacts DEF ChainInv
  <1>2. ASSUME NEW row, chains' = Append(chains, row), links' = links
        PROVE  OwnersStay
    <2>1. /\ Len(chains') = Len(chains) + 1
          /\ \A t : \A c \in 1..Len(chains) : Owns(c, t)' <=> Owns(c, t)
      <3>1. PICK new : new = Len(chains) + 1
        OBVIOUS
      <3> QED
        BY <1>1, <1>2, <3>1, OwnersAfterNewChain
    <2>2. \A c \in 1..Len(chains) : chains'[c] = chains[c]
      BY <1>1, <1>2, AppendProperties DEF TablesOK
    <2>3. \A c, t : Owns(c, t) => c \in 1..Len(chains)
      BY DEF Owns
    <2> QED
      BY <1>1, <2>1, <2>2, <2>3 DEF OwnersStay
  <1>3. CASE CreateChainLink(w)
    <2>1. PICK row : links' = Append(links, row) /\ row.chain = call[w].chain
      BY <1>3 DEF CreateChainLink
    <2>2. call[w].chain \in 1..Len(chains) /\ chains' = chains
      BY <1>3, JobFacts DEF CreateChainLink, HasChain
    <2>3. \A c, t : Owns(c, t) => Owns(c, t)'
      BY <1>1, <2>1, <2>2, OwnersAfterNewLink
    <2> QED
      BY <1>1, <2>2, <2>3 DEF OwnersStay
  <1>4. CASE UpdateChainClosed(w)
    <2>1. PICK c0 : c0 = call[w].chain
      OBVIOUS
    <2>2. /\ chains' = [chains EXCEPT ![c0].closed = TRUE] /\ links' = links
          /\ c0 \in 1..Len(chains)
      BY <1>4, <2>1, JobFacts DEF UpdateChainClosed, HasChain
    <2>3. /\ Len(chains') = Len(chains)
          /\ \A c \in 1..Len(chains) : chains'[c].trade = chains[c].trade
      <3>1. chains[c0] \in [trade: Trade, at: Nat, closed: BOOLEAN, stock: BOOLEAN, gap: BOOLEAN]
        BY <1>1, <2>2, ElementOfSeq DEF TablesOK
      <3> DEFINE row == [chains[c0] EXCEPT !.closed = TRUE]
      <3>2. /\ row \in [trade: Trade, at: Nat, closed: BOOLEAN, stock: BOOLEAN, gap: BOOLEAN]
            /\ row.trade = chains[c0].trade
        BY <3>1
      <3>3. chains' = [chains EXCEPT ![c0] = row]
        BY <2>2
      <3> HIDE DEF row
      <3> QED
        BY <1>1, <2>2, <3>2, <3>3, ExceptSeq DEF TablesOK
    <2> QED
      BY <1>1, <2>2, <2>3, SameOwners DEF OwnersStay
  <1>5. CASE UNCHANGED <<chains, links>>
    BY <1>1, <1>5, SameOwners DEF OwnersStay
  <1>6. \/ UNCHANGED <<chains, links>> \/ CreateChainLink(w) \/ UpdateChainClosed(w)
        \/ \E row : chains' = Append(chains, row) /\ links' = links
    BY DEF ChainStep, Lookup, ListTransactions, AttributeChain, Unattributable, StartChain,
       ListChainLinks, CreateChainLink, ChainLinkRejected, CheckOpen, UpdateChainClosed,
       GetChainByID, FindStockChain, CreateStockChain, tables, NewChain
  <1> QED
    BY <1>2, <1>3, <1>4, <1>5, <1>6

\* A call that returns.
LEMMA ReturnAnswers ==
    ASSUME ChainInv, NEW w \in Worker, NEW t, t = call[w].trade, NEW c, Return(w, c),
           Answers(t, c)'
    PROVE  CallMoves(w) /\ JobAnswers(call[w])'
  <1>1. call = [v \in Worker |-> call[v]]
    BY DEF ChainInv
  <1>2. CASE call[w].todo = {}
    <2>1. /\ call'[w].pc = "idle" /\ call'[w].answer = c
          /\ \A v \in Worker : v # w => call'[v] = call[v]
      BY <1>1, <1>2 DEF Return, IdleJob
    <2> QED
      BY <2>1 DEF CallMoves, JobAnswers, HasChain
  <1>3. CASE call[w].todo # {}
    <2>1. /\ call'[w].pc = "lookup"
          /\ \A v \in Worker : v # w => call'[v] = call[v]
      BY <1>1, <1>3 DEF Return, IdleJob, Begin
    <2>2. CallMoves(w)
      BY <1>3, <2>1 DEF CallMoves
    <2>3. JobAnswers(call[w])'
      BY <2>1 DEF JobAnswers, HasChain
    <2> QED
      BY <2>2, <2>3
  <1> QED
    BY <1>2, <1>3

\* A call that goes on.
LEMMA GotoAnswers ==
    ASSUME ChainInv, NEW w \in Worker, NEW job, Goto(w, job), job.pc # "idle",
           job.trade = call[w].trade, job.todo = call[w].todo, JobAnswers(job)'
    PROVE  CallMoves(w) /\ JobAnswers(call[w])'
  <1>1. call'[w] = job /\ \A v \in Worker : v # w => call'[v] = call[v]
    BY DEF ChainInv, Goto
  <1> QED
    BY <1>1 DEF CallMoves

LEMMA FailAnswers ==
    ASSUME ChainInv, NEW w \in Worker, Fail(w)
    PROVE  CallMoves(w) /\ JobAnswers(call[w])'
  <1>1. /\ call'[w] = [IdleJob EXCEPT !.answer = Error]
        /\ \A v \in Worker : v # w => call'[v] = call[v]
    BY DEF ChainInv, Fail
  <1> QED
    BY <1>1 DEF CallMoves, JobAnswers, IdleJob, HasChain, Answers

\* A lookup answers a chain that owns the trade.
LEMMA OwnerAnswers ==
    ASSUME ChainInv, AnswerInv, NEW c, NEW t, Owns(c, t)
    PROVE  Answers(t, c)
  <1>1. chains[c].trade = t \/ Extends(t)
    BY DEF Owns, AnswerInv
  <1> QED
    BY <1>1 DEF Answers

\* Every link a step makes is for a trade that may join, and every answer it
\* gives is right.
LEMMA ChainStepAnswers ==
    ASSUME ChainInv, AnswerInv, NEW w \in Worker, ChainStep(w)
    PROVE  AnswerInv' /\ call[w].pc # "idle" /\ CallMoves(w) /\ OwnersStay
  <1>1. OwnersStay
    BY ChainStepOwners
  <1>2. PICK t, c : t = call[w].trade /\ c = call[w].chain
    OBVIOUS
  <1>3. /\ JobOK(call[w]) /\ JobAnswers(call[w]) /\ TablesOK
        /\ call = [v \in Worker |-> call[v]]
    BY DEF ChainInv, AnswerInv
  <1> DEFINE Moved == CallMoves(w) /\ JobAnswers(call[w])'
             Linked == \A k \in 1..Len(links') : Extends(links'[k].trade)
  <1> SUFFICES Moved /\ Linked
    <2>1. call[w].pc # "idle"
      BY DEF ChainStep, Lookup, ListTransactions, AttributeChain, Unattributable, StartChain,
         ListChainLinks, CreateChainLink, ChainLinkRejected, CheckOpen, UpdateChainClosed,
         GetChainByID, FindStockChain, CreateStockChain
    <2>2. ASSUME Moved, NEW v \in Worker, v # w
          PROVE  JobAnswers(call[v])'
      <3>1. call'[v] = call[v] /\ JobAnswers(call[v])
        BY <2>2 DEF CallMoves, AnswerInv
      <3> QED
        BY <1>1, <3>1 DEF OwnersStay, JobAnswers, Extends, HasEffect, AllShares, LegsOf
    <2> QED
      BY <1>1, <2>1, <2>2 DEF AnswerInv, Extends, HasEffect, AllShares, LegsOf
  <1>4. links' = links => Linked
    BY DEF AnswerInv
  <1>5. call[w].pc \in HasLegs => call[w].legs = 1..Len(Legs[t])
    BY <1>2, <1>3 DEF JobOK
  <1>6. ASSUME NEW d, Return(w, d), Answers(t, d)'
        PROVE  Moved
    BY <1>2, <1>6, ReturnAnswers
  <1>7. ASSUME NEW job, Goto(w, job), job.pc # "idle", job.trade = call[w].trade,
               job.todo = call[w].todo, JobAnswers(job)'
        PROVE  Moved
    BY <1>7, GotoAnswers
  <1>8. ASSUME Fail(w)
        PROVE  Moved
    BY <1>8, FailAnswers
  <1> HIDE DEF Moved, Linked
  <1>9. ASSUME NEW d, Return(w, d), UNCHANGED <<chains, links>>, Answers(t, d)
        PROVE  Moved /\ Linked
    <2>1. Answers(t, d)'
      BY <1>9 DEF Answers, Owns, Extends, HasEffect, AllShares, LegsOf
    <2> QED
      BY <1>4, <1>6, <1>9, <2>1
  <1>10. ASSUME NEW job, Goto(w, job), UNCHANGED <<chains, links>>, job.pc # "idle",
                job.trade = call[w].trade, job.todo = call[w].todo, JobAnswers(job)
         PROVE  Moved /\ Linked
    <2>1. JobAnswers(job)'
      BY <1>10 DEF JobAnswers, Owns, Extends, HasEffect, AllShares, LegsOf
    <2> QED
      BY <1>4, <1>7, <1>10, <2>1
  <1>11. ASSUME NEW pc, Goto(w, [call[w] EXCEPT !.pc = pc]), UNCHANGED <<chains, links>>,
                pc # "idle", JobAnswers([call[w] EXCEPT !.pc = pc])
         PROVE  Moved /\ Linked
    <2>1. /\ [call[w] EXCEPT !.pc = pc].pc = pc
          /\ [call[w] EXCEPT !.pc = pc].trade = call[w].trade
          /\ [call[w] EXCEPT !.pc = pc].todo = call[w].todo
          /\ [call[w] EXCEPT !.pc = pc].chain = call[w].chain
      BY <1>3 DEF JobOK
    <2> QED
      BY <1>10, <1>11, <2>1
  <1>12. CASE Lookup(w)
    <2>1. UNCHANGED <<chains, links>>
      BY <1>12 DEF Lookup, tables
    <2>2. ASSUME NEW d \in Owners(call[w].trade), Return(w, d)
          PROVE  Moved /\ Linked
      <3>1. Owns(d, t)
        BY <1>2, <2>2 DEF Owners, TradesOf, Owns
      <3>2. Answers(t, d)
        BY <3>1, OwnerAnswers
      <3> QED
        BY <1>9, <2>1, <2>2, <3>2
    <2>3. CASE Goto(w, [call[w] EXCEPT !.pc = "list"])
      <3>1. JobAnswers([call[w] EXCEPT !.pc = "list"])
        BY <1>3 DEF JobOK, JobAnswers, HasChain
      <3> QED
        BY <1>11, <2>1, <2>3, <3>1
    <2> QED
      BY <1>12, <2>2, <2>3 DEF Lookup
  <1>13. CASE ListTransactions(w)
    <2> DEFINE S == {k \in 1..Len(Legs[t]) : <<t, k>> \in txRows}
    <2>1. UNCHANGED <<chains, links>> /\ call[w].pc = "list"
      BY <1>13 DEF ListTransactions, tables
    <2>2. t \in Trade /\ (Legs[t] # <<>> => Complete(t))
      BY <1>2, <1>3, <2>1 DEF JobOK
    <2>3. S = 1..Len(Legs[t])
      <3>1. CASE Legs[t] # <<>>
        BY <2>2, <3>1, StoredRows
      <3>2. CASE Legs[t] = <<>>
        BY <2>2, <3>2, LegsFacts
      <3> QED
        BY <3>1, <3>2
    <2>4. ASSUME NEW pc \in {"stock", "attribute", "start"},
                 pc = "stock" => AllShares(t, 1..Len(Legs[t])),
                 Goto(w, [call[w] EXCEPT !.pc = pc, !.legs = S, !.leg = 1])
          PROVE  Moved /\ Linked
      <3> DEFINE job == [call[w] EXCEPT !.pc = pc, !.legs = S, !.leg = 1]
      <3>1. job.pc = pc /\ job.trade = t /\ job.todo = call[w].todo
        BY <1>2, <1>3 DEF JobOK
      <3> HIDE DEF job
      <3>2. JobAnswers(job)
        BY <2>4, <3>1 DEF JobAnswers, HasChain
      <3>3. Goto(w, job)
        BY <2>4 DEF job
      <3> QED
        BY <1>2, <1>10, <2>1, <2>4, <3>1, <3>2, <3>3
    <2>5. ASSUME Return(w, None), ~HasEffect(t, 1..Len(Legs[t]), "opening")
          PROVE  Moved /\ Linked
      BY <1>9, <2>1, <2>5 DEF Answers
    <2>6. \/ /\ AllShares(t, S)
             /\ Goto(w, [call[w] EXCEPT !.pc = "stock", !.legs = S, !.leg = 1])
          \/ Goto(w, [call[w] EXCEPT !.pc = "attribute", !.legs = S, !.leg = 1])
          \/ Goto(w, [call[w] EXCEPT !.pc = "start", !.legs = S, !.leg = 1])
          \/ Return(w, None) /\ ~HasEffect(t, S, "opening")
      BY <1>2, <1>13 DEF ListTransactions
    <2> HIDE DEF S
    <2> QED
      BY <2>3, <2>4, <2>5, <2>6
  <1>14. CASE AttributeChain(w)
    <2>1. UNCHANGED <<chains, links>> /\ call[w].pc = "attribute"
      BY <1>14 DEF AttributeChain, tables
    <2>2. ASSUME NEW d, call[w].leg \in call[w].legs,
                 Legs[t][call[w].leg].effect = "closing",
                 Goto(w, [call[w] EXCEPT !.pc = "links", !.chain = d])
          PROVE  Moved /\ Linked
      <3> DEFINE job == [call[w] EXCEPT !.pc = "links", !.chain = d]
      <3>1. job.pc = "links" /\ job.trade = t /\ job.todo = call[w].todo
        BY <1>2, <1>3 DEF JobOK
      <3>2. Goto(w, job)
        BY <2>2
      <3>3. Extends(t)
        BY <1>5, <2>1, <2>2 DEF HasLegs, CallPC, Extends, HasEffect, LegsOf
      <3> HIDE DEF job
      <3>4. JobAnswers(job)
        BY <3>1, <3>3 DEF JobAnswers, HasChain
      <3> QED
        BY <1>2, <1>10, <2>1, <3>1, <3>2, <3>4
    <2>3. ASSUME Goto(w, [call[w] EXCEPT !.leg = call[w].leg + 1])
          PROVE  Moved /\ Linked
      <3> DEFINE job == [call[w] EXCEPT !.leg = call[w].leg + 1]
      <3>1. job.pc = "attribute" /\ job.trade = t /\ job.todo = call[w].todo
        BY <1>2, <1>3, <2>1 DEF JobOK
      <3>2. Goto(w, job)
        BY <2>3
      <3> HIDE DEF job
      <3>3. JobAnswers(job)
        BY <3>1 DEF JobAnswers, HasChain
      <3> QED
        BY <1>2, <1>10, <2>1, <3>1, <3>2, <3>3
    <2> QED
      BY <1>2, <1>14, <2>2, <2>3 DEF AttributeChain
  <1>15. CASE Unattributable(w)
    <2>1. UNCHANGED <<chains, links>> /\ call[w].pc = "attribute"
      BY <1>15 DEF Unattributable, tables
    <2>2. CASE Goto(w, [call[w] EXCEPT !.pc = "start"])
      <3>1. JobAnswers([call[w] EXCEPT !.pc = "start"])
        BY <1>3 DEF JobOK, JobAnswers, HasChain
      <3> QED
        BY <1>11, <2>1, <2>2, <3>1
    <2>3. CASE Return(w, None) /\ ~HasEffect(t, call[w].legs, "opening")
      <3>1. call[w].legs = 1..Len(Legs[t])
        BY <1>5, <2>1 DEF HasLegs, CallPC
      <3> QED
        BY <1>9, <2>1, <2>3, <3>1 DEF Answers
    <2> QED
      BY <1>2, <1>15, <2>2, <2>3 DEF Unattributable
  <1>16. CASE StartChain(w) \/ CreateStockChain(w)
    <2>1. PICK row, new : /\ chains' = Append(chains, row) /\ row.trade = t /\ links' = links
                          /\ new = Len(chains) + 1 /\ Return(w, new)
      BY <1>2, <1>16 DEF StartChain, CreateStockChain, NewChain
    <2>2. Owns(new, t)'
      BY <1>3, <2>1, OwnersAfterNewChain
    <2>3. chains'[new] = row
      BY <1>3, <2>1, AppendProperties DEF TablesOK
    <2>4. Answers(t, new)'
      BY <2>1, <2>2, <2>3 DEF Answers
    <2> QED
      BY <1>4, <1>6, <2>1, <2>4
  <1>17. CASE ListChainLinks(w)
    <2> DEFINE job == [call[w] EXCEPT !.pc = "link", !.seq = Cardinality(LinksOf(call[w].chain)) + 1]
    <2>1. Goto(w, job) /\ UNCHANGED <<chains, links>> /\ call[w].pc = "links"
      BY <1>17 DEF ListChainLinks, tables
    <2>2. job.pc = "link" /\ job.trade = t /\ job.todo = call[w].todo
      BY <1>2, <1>3 DEF JobOK
    <2> HIDE DEF job
    <2>3. JobAnswers(job)
      BY <1>2, <1>3, <2>1, <2>2 DEF JobAnswers, HasChain
    <2> QED
      BY <1>2, <1>10, <2>1, <2>2, <2>3
  <1>18. CASE CreateChainLink(w)
    <2>1. PICK row : links' = Append(links, row) /\ row.chain = c /\ row.trade = t
      BY <1>2, <1>18 DEF CreateChainLink
    <2>2. chains' = chains /\ c \in 1..Len(chains) /\ call[w].pc = "link" /\ Extends(t)
      BY <1>2, <1>3, <1>18 DEF CreateChainLink, JobOK, JobAnswers, HasChain
    <2>3. Owns(c, t)'
      BY <1>3, <2>1, <2>2, OwnersAfterNewLink
    <2>4. Linked
      <3>1. /\ Len(links) \in Nat /\ Len(links') = Len(links) + 1
            /\ \A k \in 1..Len(links) : links'[k] = links[k]
            /\ links'[Len(links) + 1] = row
        BY <1>3, <2>1, AppendProperties, LenProperties DEF TablesOK
      <3> QED
        BY <2>1, <2>2, <3>1 DEF Linked, AnswerInv
    <2>5. CASE Return(w, c)
      BY <1>6, <2>2, <2>3, <2>4, <2>5 DEF Answers, Extends, HasEffect, AllShares, LegsOf
    <2>6. ASSUME NEW pc \in {"check", "get"}, Goto(w, [call[w] EXCEPT !.pc = pc])
          PROVE  Moved
      <3>2. PICK job : job = [call[w] EXCEPT !.pc = pc] /\ Goto(w, job)
        BY <2>6
      <3>1. job.pc = pc /\ job.trade = t /\ job.todo = call[w].todo /\ job.chain = c
        BY <1>2, <1>3, <3>2 DEF JobOK
      <3>3. JobAnswers(job)'
        BY <2>2, <2>3, <2>6, <3>1 DEF JobAnswers, HasChain
      <3> QED
        BY <1>2, <1>7, <2>6, <3>1, <3>2, <3>3
    <2> QED
      BY <1>2, <1>18, <2>4, <2>5, <2>6 DEF CreateChainLink
  <1>19. CASE ChainLinkRejected(w)
    BY <1>4, <1>8, <1>19 DEF ChainLinkRejected, tables
  <1>20. CASE CheckOpen(w)
    <2>1. PICK pc \in {"get", "stamp"} : Goto(w, [call[w] EXCEPT !.pc = pc])
      BY <1>20 DEF CheckOpen
    <2>2. call[w].pc = "check" /\ UNCHANGED <<chains, links>>
      BY <1>20 DEF CheckOpen, tables
    <2>3. JobAnswers([call[w] EXCEPT !.pc = pc])
      BY <1>3, <2>1, <2>2 DEF JobOK, JobAnswers, HasChain
    <2> QED
      BY <1>11, <2>1, <2>2, <2>3
  <1>21. CASE UpdateChainClosed(w)
    <2>1. call[w].pc = "stamp" /\ links' = links
      BY <1>21 DEF UpdateChainClosed
    <2>6. PICK job : job = [call[w] EXCEPT !.pc = "get"] /\ Goto(w, job)
      BY <1>21 DEF UpdateChainClosed
    <2>2. job.pc = "get" /\ job.trade = t /\ job.todo = call[w].todo /\ job.chain = c
      BY <1>2, <1>3, <2>6 DEF JobOK
    <2>3. Owns(c, t) /\ Extends(t)
      BY <1>2, <1>3, <2>1 DEF JobAnswers, HasChain
    <2>4. Owns(c, t)'
      BY <1>1, <2>3 DEF OwnersStay
    <2>5. JobAnswers(job)'
      BY <2>2, <2>3, <2>4 DEF JobAnswers, HasChain, Extends, HasEffect, AllShares, LegsOf
    <2> QED
      BY <1>2, <1>4, <1>7, <2>1, <2>2, <2>5, <2>6
  <1>22. CASE GetChainByID(w)
    <2>1. call[w].pc = "get" /\ Return(w, c) /\ UNCHANGED <<chains, links>>
      BY <1>2, <1>22 DEF GetChainByID, tables
    <2>2. Answers(t, c)
      BY <1>2, <1>3, <2>1 DEF JobAnswers, HasChain, Answers
    <2> QED
      BY <1>9, <2>1, <2>2
  <1>23. CASE FindStockChain(w)
    <2>1. UNCHANGED <<chains, links>> /\ call[w].pc = "stock"
      BY <1>23 DEF FindStockChain, tables
    <2>2. AllShares(t, 1..Len(Legs[t])) /\ Extends(t)
      BY <1>2, <1>3, <2>1 DEF JobAnswers, Extends
    <2>3. ASSUME NEW d, Goto(w, [call[w] EXCEPT !.pc = "links", !.chain = d])
          PROVE  Moved /\ Linked
      <3> DEFINE job == [call[w] EXCEPT !.pc = "links", !.chain = d]
      <3>1. job.pc = "links" /\ job.trade = t /\ job.todo = call[w].todo
        BY <1>2, <1>3 DEF JobOK
      <3>2. Goto(w, job)
        BY <2>3
      <3> HIDE DEF job
      <3>3. JobAnswers(job)
        BY <2>2, <3>1 DEF JobAnswers, HasChain
      <3> QED
        BY <1>2, <1>10, <2>1, <3>1, <3>2, <3>3
    <2>4. CASE Goto(w, [call[w] EXCEPT !.pc = "newstock"])
      <3>1. JobAnswers([call[w] EXCEPT !.pc = "newstock"])
        BY <1>2, <1>3, <2>2 DEF JobOK, JobAnswers, HasChain
      <3> QED
        BY <1>11, <2>1, <2>4, <3>1
    <2> QED
      BY <1>23, <2>3, <2>4 DEF FindStockChain
  <1> QED
    BY <1>12, <1>13, <1>14, <1>15, <1>16, <1>17, <1>18, <1>19, <1>20, <1>21, <1>22, <1>23
       DEF ChainStep

\* Everything else leaves the chains alone and at most begins or ends a call.
LEMMA QuietKeepsAnswers ==
    ASSUME ChainInv, AnswerInv, UNCHANGED <<chains, links>>,
           \A w \in Worker : call'[w] = call[w] \/ call'[w].pc \in {"idle", "lookup"}
    PROVE  AnswerInv' /\ OwnersStay
  <1>1. \A c, t : Owns(c, t)' <=> Owns(c, t)
    BY SameOwners
  <1>2. OwnersStay
    BY <1>1, JobFacts DEF ChainInv, OwnersStay
  <1>3. \A w \in Worker : JobAnswers(call[w])'
    <2> SUFFICES ASSUME NEW w \in Worker PROVE JobAnswers(call[w])'
      OBVIOUS
    <2>1. CASE call'[w] = call[w]
      BY <1>1, <2>1 DEF AnswerInv, JobAnswers, Extends, HasEffect, AllShares, LegsOf
    <2>2. CASE call'[w].pc \in {"idle", "lookup"}
      BY <2>2 DEF JobAnswers, HasChain
    <2> QED
      BY <2>1, <2>2
  <1> QED
    BY <1>2, <1>3 DEF AnswerInv, Extends, HasEffect, AllShares, LegsOf

LEMMA InitAnswers == Init => AnswerInv
  BY DEF Init, AnswerInv, JobAnswers, IdleJob, HasChain

\* The caller is gone, and its call with it.
LEMMA DroppedCallKeepsChainInv ==
    ASSUME ChainInv, NEW w \in Worker, call' = [call EXCEPT ![w] = IdleJob],
           UNCHANGED <<txRows, chains, links, scans>>, failures' \in 0..MaxFailures
    PROVE  ChainInv'
  <1>1. /\ call'[w] = IdleJob /\ call' = [v \in Worker |-> call'[v]]
        /\ \A v \in Worker : v # w => call'[v] = call[v]
    BY DEF ChainInv
  <1>2. JobOK(call[w])'
    BY <1>1 DEF JobOK, IdleJob, CallPC, Unlinked, HasLegs, HasChain
  <1>3. \A t \in Trade : Holds(w, t)' => Holds(w, t)
    BY <1>1 DEF Holds, IdleJob
  <1> QED
    BY <1>1, <1>2, <1>3, QuietKeepsChainInv DEF Quiet, ChainInv

-----------------------------------------------------------------------------
(* The numbers of links, for any number of callers.                         *)

\* The numbers of a chain's links leave no gap.
NoGap == \A c \in 1..Len(chains) : \A s \in 1..Cardinality(LinksOf(c)) :
            \E k \in LinksOf(c) : links[k].seq = s

\* A call about to insert a link has counted links that are still there.
Counted(c, n) == n \in 1..(Cardinality(LinksOf(c)) + 1)
CountedBefore ==
    \A w \in Worker : call[w].pc = "link" => Counted(call[w].chain, call[w].seq)

SeqInv == NoGap /\ CountedBefore /\ LinkSequenceDense

LEMMA ReturnedCall ==
    ASSUME ChainInv, NEW w \in Worker, NEW c, Return(w, c)
    PROVE  /\ call'[w].pc \in {"idle", "lookup"}
           /\ \A v \in Worker : v # w => call'[v] = call[v]
  <1>1. call = [v \in Worker |-> call[v]]
    BY DEF ChainInv
  <1>2. CASE call[w].todo = {}
    BY <1>1, <1>2 DEF Return, IdleJob
  <1>3. CASE call[w].todo # {}
    BY <1>1, <1>3 DEF Return, IdleJob, Begin
  <1> QED
    BY <1>2, <1>3

\* A step inserts a link, or counts the links of a chain, or does neither.
LEMMA LinkSteps ==
    ASSUME ChainInv, [Next]_vars
    PROVE  \/ \E w \in Worker : CreateChainLink(w)
           \/ \E w \in Worker : ListChainLinks(w)
           \/ /\ links' = links
              /\ \A w \in Worker : call'[w].pc = "link" => call'[w] = call[w]
  <1>1. call = [v \in Worker |-> call[v]]
    BY DEF ChainInv
  <1> DEFINE Neither == /\ links' = links
                        /\ \A w \in Worker : call'[w].pc = "link" => call'[w] = call[w]
  <1>2. CASE UNCHANGED vars
    BY <1>2 DEF vars
  <1>3. CASE StoreOnly
    BY <1>3 DEF StoreOnly
  <1>4. ASSUME NEW w \in Worker, Import(w) \/ DetectChains(w) \/ CutShort(w)
        PROVE  Neither
    BY <1>1, <1>4 DEF Import, ProcessTrade, DetectChains, CutShort, Goto, Fail, Begin, IdleJob,
       tables
  <1>5. ASSUME NEW w \in Worker, ChainStep(w), ~CreateChainLink(w), ~ListChainLinks(w)
        PROVE  Neither
    <2>1. links' = links
      BY <1>5 DEF ChainStep, Lookup, ListTransactions, AttributeChain, Unattributable, StartChain,
         ChainLinkRejected, CheckOpen, UpdateChainClosed, GetChainByID, FindStockChain,
         CreateStockChain, tables
    <2>2. \/ \E c : Return(w, c)
          \/ Fail(w)
          \/ \E pc \in CallPC \ {"link"} : Goto(w, [call[w] EXCEPT !.pc = pc])
          \/ \E c : Goto(w, [call[w] EXCEPT !.pc = "links", !.chain = c])
          \/ call[w].pc = "attribute" /\ \E n : Goto(w, [call[w] EXCEPT !.leg = n])
          \/ \E pc \in CallPC \ {"link"} : \E S :
                Goto(w, [call[w] EXCEPT !.pc = pc, !.legs = S, !.leg = 1])
      <3>1. CASE Lookup(w)
        BY <3>1 DEF Lookup, CallPC
      <3>2. CASE ListTransactions(w)
        BY <3>2 DEF ListTransactions, CallPC
      <3>3. CASE AttributeChain(w)
        BY <3>3 DEF AttributeChain, CallPC
      <3>4. CASE Unattributable(w)
        BY <3>4 DEF Unattributable, CallPC
      <3>5. CASE StartChain(w) \/ CreateStockChain(w) \/ GetChainByID(w) \/ ChainLinkRejected(w)
        BY <3>5 DEF StartChain, CreateStockChain, GetChainByID, ChainLinkRejected
      <3>6. CASE CheckOpen(w)
        BY <3>6 DEF CheckOpen, CallPC
      <3>7. CASE UpdateChainClosed(w)
        BY <3>7 DEF UpdateChainClosed, CallPC
      <3>8. CASE FindStockChain(w)
        BY <3>8 DEF FindStockChain, CallPC
      <3> QED
        BY <1>5, <3>1, <3>2, <3>3, <3>4, <3>5, <3>6, <3>7, <3>8 DEF ChainStep
    <2>3. CASE \E c : Return(w, c)
      BY <2>1, <2>3, ReturnedCall
    <2>4. CASE Fail(w)
      BY <1>1, <2>1, <2>4 DEF Fail, IdleJob
    <2>5. JobOK(call[w])
      BY JobFacts
    <2>6. ASSUME NEW job, Goto(w, job), job.pc # "link"
          PROVE  Neither
      BY <1>1, <2>1, <2>6 DEF Goto
    <2>7. ASSUME NEW pc \in CallPC \ {"link"}, Goto(w, [call[w] EXCEPT !.pc = pc])
          PROVE  Neither
      BY <2>5, <2>6, <2>7 DEF JobOK
    <2>8. ASSUME NEW c, Goto(w, [call[w] EXCEPT !.pc = "links", !.chain = c])
          PROVE  Neither
      BY <2>5, <2>6, <2>8 DEF JobOK
    <2>9. ASSUME call[w].pc = "attribute", NEW n, Goto(w, [call[w] EXCEPT !.leg = n])
          PROVE  Neither
      BY <2>5, <2>6, <2>9 DEF JobOK
    <2>10. ASSUME NEW pc \in CallPC \ {"link"}, NEW S,
                  Goto(w, [call[w] EXCEPT !.pc = pc, !.legs = S, !.leg = 1])
           PROVE  Neither
      BY <2>5, <2>6, <2>10 DEF JobOK
    <2> HIDE DEF Neither
    <2> QED
      BY <2>2, <2>3, <2>4, <2>7, <2>8, <2>9, <2>10
  <1> QED
    BY <1>2, <1>3, <1>4, <1>5 DEF Next

LEMMA NewChainHasNoLinks ==
    ASSUME TablesOK, NEW c, c \notin 1..Len(chains)
    PROVE  LinksOf(c) = {}
  BY DEF TablesOK, LinksOf

LEMMA SameLinksKeepSeqInv ==
    ASSUME ChainInv, ChainInv', SeqInv, links' = links, CountedBefore'
    PROVE  SeqInv'
  <1>1. NoGap'
    <2> SUFFICES ASSUME NEW c \in 1..Len(chains'), NEW s \in 1..Cardinality(LinksOf(c))
                 PROVE  \E k \in LinksOf(c) : links[k].seq = s
      BY DEF NoGap, LinksOf
    <2>1. CASE c \in 1..Len(chains)
      BY <2>1 DEF SeqInv, NoGap
    <2>2. CASE c \notin 1..Len(chains)
      <3>1. LinksOf(c) = {}
        BY <2>2, NewChainHasNoLinks DEF ChainInv
      <3>2. Cardinality(LinksOf(c)) = 0
        BY <3>1, FS_EmptySet
      <3> QED
        BY <3>2
    <2> QED
      BY <2>1, <2>2
  <1>2. LinkSequenceDense'
    BY DEF SeqInv, LinkSequenceDense
  <1> QED
    BY <1>1, <1>2 DEF SeqInv

LEMMA SameLinksCounted ==
    ASSUME links' = links
    PROVE  \A c, n : Counted(c, n)' <=> Counted(c, n)
  BY DEF Counted, LinksOf

LEMMA ListChainLinksKeepsSeqInv ==
    ASSUME ChainInv, ChainInv', SeqInv, NEW w \in Worker, ListChainLinks(w)
    PROVE  SeqInv'
  <1>1. PICK c0, n : c0 = call[w].chain /\ n = Cardinality(LinksOf(c0)) + 1
    OBVIOUS
  <1>2. /\ call[w].pc = "links" /\ links' = links
        /\ call' = [call EXCEPT ![w] = [call[w] EXCEPT !.pc = "link", !.seq = n]]
    BY <1>1 DEF ListChainLinks, tables, Goto
  <1>3. Counted(c0, n)
    BY <1>1, LinksFinite DEF ChainInv, Counted
  <1>4. call = [v \in Worker |-> call[v]] /\ JobOK(call[w])
    BY DEF ChainInv
  <1>5. ASSUME NEW v \in Worker, call'[v].pc = "link"
        PROVE  \E c, m : c = call'[v].chain /\ m = call'[v].seq /\ Counted(c, m)
    <2>1. CASE v = w
      BY <1>1, <1>2, <1>3, <1>4, <2>1 DEF JobOK
    <2>2. CASE v # w
      BY <1>2, <1>4, <1>5, <2>2 DEF SeqInv, CountedBefore
    <2> QED
      BY <2>1, <2>2
  <1>6. CountedBefore'
    BY <1>2, <1>5, SameLinksCounted DEF CountedBefore
  <1> QED
    BY <1>2, <1>6, SameLinksKeepSeqInv

\* The unique index turns a count that has gone stale into a failed call: the
\* numbers up to the count are all taken, and the one that is free is the next.
LEMMA CreateChainLinkKeepsSeqInv ==
    ASSUME ChainInv, ChainInv', SeqInv, NEW w \in Worker, CreateChainLink(w)
    PROVE  SeqInv'
  <1>1. PICK c0, n, new : /\ c0 = call[w].chain /\ n = call[w].seq /\ new = Len(links) + 1
    OBVIOUS
  <1>2. /\ call[w].pc = "link" /\ chains' = chains
        /\ \A k \in LinksOf(c0) : links[k].seq # n
        /\ links' = Append(links, [chain |-> c0, seq |-> n, trade |-> call[w].trade])
    BY <1>1 DEF CreateChainLink, SequenceTaken
  <1>3. /\ TablesOK /\ Len(links) \in Nat /\ c0 \in 1..Len(chains)
        /\ LinksOf(c0) \subseteq 1..Len(links)
    BY <1>1, <1>2, JobFacts, LenProperties DEF ChainInv, TablesOK, LinksOf, HasChain
  <1>4. /\ Len(links') = new
        /\ \A k \in 1..Len(links) : links'[k] = links[k]
        /\ links'[new].chain = c0 /\ links'[new].seq = n
    BY <1>1, <1>2, <1>3, AppendProperties DEF TablesOK
  <1>5. /\ LinksOf(c0)' = LinksOf(c0) \cup {new}
        /\ \A c : c # c0 => LinksOf(c)' = LinksOf(c)
    BY <1>1, <1>3, <1>4 DEF LinksOf
  <1>6. /\ Cardinality(LinksOf(c0)) \in Nat
        /\ Cardinality(LinksOf(c0) \cup {new}) = Cardinality(LinksOf(c0)) + 1
    <2>1. new \notin LinksOf(c0) /\ IsFiniteSet(LinksOf(c0)) /\ Cardinality(LinksOf(c0)) \in Nat
      BY <1>1, <1>3, LinksFinite
    <2> QED
      BY <2>1, FS_AddElement
  <1>7. Cardinality(LinksOf(c0)') = Cardinality(LinksOf(c0)) + 1
    BY <1>5, <1>6, Zenon
  <1>8. n = Cardinality(LinksOf(c0)) + 1
    <2>1. n \in 1..(Cardinality(LinksOf(c0)) + 1)
      BY <1>1, <1>2 DEF SeqInv, CountedBefore, Counted
    <2>2. n \notin 1..Cardinality(LinksOf(c0))
      BY <1>2, <1>3 DEF SeqInv, NoGap
    <2> QED
      BY <1>6, <2>1, <2>2
  <1>9. \A c : c # c0 => Cardinality(LinksOf(c)') = Cardinality(LinksOf(c))
    BY <1>5, Zenon
  <1>10. NoGap'
    <2> SUFFICES ASSUME NEW c \in 1..Len(chains), NEW s \in 1..Cardinality(LinksOf(c)')
                 PROVE  \E k \in LinksOf(c)' : links'[k].seq = s
      BY <1>2 DEF NoGap
    <2>1. CASE c # c0
      <3>1. PICK k \in LinksOf(c) : links[k].seq = s
        BY <1>9, <2>1 DEF SeqInv, NoGap
      <3>2. k \in LinksOf(c)' /\ k \in 1..Len(links)
        BY <1>5, <2>1 DEF LinksOf
      <3> QED
        BY <1>4, <3>1, <3>2
    <2>2. CASE c = c0 /\ s = n
      BY <1>4, <1>5, <2>2
    <2>3. CASE c = c0 /\ s # n
      <3>1. s \in 1..Cardinality(LinksOf(c0))
        BY <1>6, <1>7, <1>8, <2>3
      <3>2. PICK k \in LinksOf(c0) : links[k].seq = s
        BY <1>3, <3>1 DEF SeqInv, NoGap
      <3> QED
        BY <1>3, <1>4, <1>5, <2>3, <3>2
    <2> QED
      BY <2>1, <2>2, <2>3
  <1>11. CountedBefore'
    <2> SUFFICES ASSUME NEW v \in Worker, call'[v].pc = "link"
                 PROVE  Counted(call[v].chain, call[v].seq)'
      BY DEF CountedBefore
    <2>1. v # w /\ call'[v] = call[v]
      <3>1. call = [x \in Worker |-> call[x]] /\ JobOK(call[w])
        BY DEF ChainInv
      <3>2. \/ \E c : Return(w, c)
            \/ \E pc \in {"check", "get"} : Goto(w, [call[w] EXCEPT !.pc = pc])
        BY DEF CreateChainLink
      <3>3. CASE \E c : Return(w, c)
        BY <3>3, ReturnedCall
      <3>4. CASE \E pc \in {"check", "get"} : Goto(w, [call[w] EXCEPT !.pc = pc])
        BY <3>1, <3>4 DEF Goto, JobOK
      <3> QED
        BY <3>2, <3>3, <3>4
    <2>2. PICK c, m : c = call[v].chain /\ m = call[v].seq
      OBVIOUS
    <2>3. m \in 1..(Cardinality(LinksOf(c)) + 1)
      BY <2>1, <2>2 DEF SeqInv, CountedBefore, Counted
    <2>4. /\ Cardinality(LinksOf(c)) \in Nat
          /\ Cardinality(LinksOf(c)') \in {Cardinality(LinksOf(c)), Cardinality(LinksOf(c)) + 1}
      BY <1>3, <1>7, <1>9, LinksFinite
    <2>5. m \in 1..(Cardinality(LinksOf(c)') + 1)
      BY <2>3, <2>4
    <2> QED
      BY <2>1, <2>2, <2>5 DEF Counted
  <1>12. LinkSequenceDense'
    <2> DEFINE upto(k) == {j \in 1..k : links[j].chain = links[k].chain}
    <2> SUFFICES ASSUME NEW k \in 1..new
                 PROVE  links'[k].seq = Cardinality(upto(k)')
      BY <1>4 DEF LinkSequenceDense
    <2>1. CASE k = new
      <3>1. upto(k)' = LinksOf(c0)'
        BY <1>4, <2>1 DEF LinksOf
      <3>2. Cardinality(upto(k)') = Cardinality(LinksOf(c0)')
        BY <3>1, Zenon
      <3> QED
        BY <1>4, <1>7, <1>8, <2>1, <3>2
    <2>2. CASE k # new
      <3>1. k \in 1..Len(links)
        BY <1>1, <1>3, <2>2
      <3>2. upto(k)' = upto(k)
        BY <1>3, <1>4, <3>1
      <3>3. Cardinality(upto(k)') = Cardinality(upto(k))
        BY <3>2, Zenon
      <3>4. links[k].seq = Cardinality(upto(k))
        BY <3>1 DEF SeqInv, LinkSequenceDense
      <3> QED
        BY <1>4, <3>1, <3>3, <3>4
    <2> QED
      BY <2>1, <2>2
  <1> QED
    BY <1>10, <1>11, <1>12 DEF SeqInv

LEMMA NextSeqInv ==
    ASSUME ChainInv, ChainInv', SeqInv, [Next]_vars
    PROVE  SeqInv'
  <1>1. CASE /\ links' = links
             /\ \A w \in Worker : call'[w].pc = "link" => call'[w] = call[w]
    <2>1. CountedBefore'
      BY <1>1, SameLinksCounted DEF SeqInv, CountedBefore
    <2> QED
      BY <1>1, <2>1, SameLinksKeepSeqInv
  <1> QED
    BY <1>1, LinkSteps, ListChainLinksKeepsSeqInv, CreateChainLinkKeepsSeqInv

\* The links of a chain are numbered 1, 2, ... in the order they were made,
\* however many calls count the links of the same chain at the same time: the
\* unique index lets only the call whose count is still right insert.
THEOREM LinksAreDense == ContractSpec => []LinkSequenceDense
  <1>1. Init => SeqInv
    BY DEF Init, SeqInv, NoGap, CountedBefore, LinkSequenceDense, IdleJob
  <1>2. ChainInv /\ ChainInv' /\ SeqInv /\ [Next]_vars => SeqInv'
    BY NextSeqInv
  <1>3. SeqInv => LinkSequenceDense
    BY DEF SeqInv
  <1>4. [ContractNext]_vars => [Next]_vars
    BY ContractSteps
  <1> QED
    BY <1>1, <1>2, <1>3, <1>4, ChainInvHolds, PTL DEF ContractSpec

-----------------------------------------------------------------------------
(* The open balance of chains, with one caller at a time.                   *)

OneCaller == \E w : Worker = {w}

\* A single caller that starts a scan runs nothing else.
LEMMA OneCallerContract ==
    ASSUME OneCaller
    PROVE  Spec => ContractSpec
  <1>1. \A w \in Worker : DetectChains(w) => ScanAlone(w)
    BY DEF DetectChains, ScanAlone, AtRest, OneCaller
  <1>2. [Next]_vars => [ContractNext]_vars
    BY <1>1 DEF Next, ContractNext
  <1> QED
    BY <1>2, PTL DEF Spec, ContractSpec

\* The newest link of a chain, and the trade LastTrade names.
Newest(c, k) == k \in LinksOf(c) /\ \A j \in LinksOf(c) : j <= k
LastOf(c, t) == \/ LinksOf(c) = {} /\ chains[c].trade = t
                \/ \E k \in LinksOf(c) : Newest(c, k) /\ links[k].trade = t

OnlyCloses(t) == ~HasEffect(t, 1..Len(Legs[t]), "opening")

\* The call that is about to find out whether chain c is still open, or has.
Closing(c) == \E w \in Worker : call[w].pc \in {"check", "stamp"} /\ call[w].chain = c

ChainBalanced(c) ==
    /\ LinksOf(c) # {} => \E k \in LinksOf(c) : Newest(c, k)
    /\ ~chains[c].stock /\ chains[c].closed => ~ChainIsOpen(c)
    /\ ~chains[c].stock /\ failures = 0 /\ ~chains[c].closed /\ ~Closing(c) =>
          ChainIsOpen(c) \/ \A t \in Trade : LastOf(c, t) => ~OnlyCloses(t)

JobBalanced(job) ==
    /\ job.pc = "attribute" => ~AllShares(job.trade, job.legs)
    /\ job.pc \in {"links", "link"} /\ AllShares(job.trade, job.legs) => chains[job.chain].stock
    /\ job.pc \in HasChain \ {"get"} => chains[job.chain].stock \/ ~chains[job.chain].closed
    /\ job.pc = "stamp" => ~ChainIsOpen(job.chain)

BalanceInv ==
    /\ \A c \in 1..Len(chains) : ChainBalanced(c)
    /\ \A w \in Worker : JobBalanced(call[w])

\* The rows a chain's balance in an instrument sums.
RowsOfChain(c, inst) == {row \in txRows : row[1] \in TradesOf(c)
                                          /\ Legs[row[1]][row[2]].inst = inst}

\* Rows are only added for trades that had none.
RowsSettled == \A row : row \in txRows' /\ row \notin txRows => ~Stored(row[1])

\* A chain whose row and links a step leaves alone.
Untouched(c) ==
    /\ chains'[c] = chains[c]
    /\ LinksOf(c)' = LinksOf(c)
    /\ \A k \in LinksOf(c) : links'[k] = links[k]

LEMMA RowFacts ==
    ASSUME ChainInv
    PROVE  /\ Len(chains) \in Nat /\ Len(links) \in Nat
           /\ \A c \in 1..Len(chains) :
                 chains[c] \in [trade: Trade, at: Nat, closed: BOOLEAN, stock: BOOLEAN, gap: BOOLEAN]
           /\ \A k \in 1..Len(links) :
                 links[k] \in [chain: Nat \ {0}, seq: Nat \ {0}, trade: Trade]
  <1>1. /\ chains \in Seq([trade: Trade, at: Nat, closed: BOOLEAN, stock: BOOLEAN, gap: BOOLEAN])
        /\ links \in Seq([chain: Nat \ {0}, seq: Nat \ {0}, trade: Trade])
    BY DEF ChainInv, TablesOK
  <1> QED
    BY <1>1, LenProperties, ElementOfSeq

LEMMA TradesOfChain ==
    ASSUME NEW c
    PROVE  TradesOf(c) = {chains[c].trade} \cup {links[k].trade : k \in LinksOf(c)}
  BY DEF TradesOf, LinksOf

LEMMA UntouchedTrades ==
    ASSUME NEW c, chains'[c].trade = chains[c].trade, LinksOf(c)' = LinksOf(c),
           \A k \in LinksOf(c) : links'[k] = links[k]
    PROVE  TradesOf(c)' = TradesOf(c)
  <1>1. TradesOf(c)' = {chains'[c].trade} \cup {links'[k].trade : k \in LinksOf(c)'}
    BY DEF TradesOf, LinksOf
  <1> QED
    BY <1>1, TradesOfChain

LEMMA SameTradesSameBalance ==
    ASSUME ChainInv, NEW c \in 1..Len(chains), TradesOf(c)' = TradesOf(c),
           txRows \subseteq txRows', RowsSettled
    PROVE  ChainIsOpen(c)' <=> ChainIsOpen(c)
  <1>1. \A t \in TradesOf(c) : Stored(t)
    <2>1. \A t \in TradesOf(c) : Owns(c, t) /\ t \in Trade
      BY RowFacts DEF TradesOf, Owns
    <2> QED
      BY <2>1, LegsFacts DEF ChainInv, OwnersOK, Owns
  <1>2. \A inst : RowsOfChain(c, inst)' = RowsOfChain(c, inst)
    BY <1>1 DEF RowsOfChain, RowsSettled
  <1>3. ASSUME NEW inst
        PROVE  NetQty(c, inst)' = NetQty(c, inst)
    <2>1. NetQty(c, inst) = SumFunctionOnSet(SignedQty, RowsOfChain(c, inst))
      BY DEF NetQty, RowsOfChain
    <2>2. NetQty(c, inst)' = SumFunctionOnSet(SignedQty, RowsOfChain(c, inst)')
      BY DEF NetQty, RowsOfChain
    <2>3. SumFunctionOnSet(SignedQty, RowsOfChain(c, inst)')
             = SumFunctionOnSet(SignedQty, RowsOfChain(c, inst))
      BY <1>2, Zenon
    <2> QED
      BY <2>1, <2>2, <2>3
  <1> QED
    BY <1>3 DEF ChainIsOpen

LEMMA UntouchedChain ==
    ASSUME ChainInv, NEW c \in 1..Len(chains), Untouched(c),
           txRows \subseteq txRows', RowsSettled
    PROVE  /\ ChainIsOpen(c)' <=> ChainIsOpen(c)
           /\ \A k : Newest(c, k)' <=> Newest(c, k)
           /\ \A t : LastOf(c, t)' <=> LastOf(c, t)
  <1>1. TradesOf(c)' = TradesOf(c)
    BY UntouchedTrades DEF Untouched
  <1>2. \A k : Newest(c, k)' <=> Newest(c, k)
    BY DEF Untouched, Newest
  <1> QED
    BY <1>1, <1>2, SameTradesSameBalance DEF Untouched, LastOf

\* A chain the step leaves alone keeps its balance, unless the call that was
\* closing it has just given up.
LEMMA UntouchedBalanced ==
    ASSUME ChainInv, NEW c \in 1..Len(chains), Untouched(c), ChainBalanced(c),
           txRows \subseteq txRows', RowsSettled,
           failures' = 0 => failures = 0 /\ (Closing(c) => Closing(c)' \/ ChainIsOpen(c))
    PROVE  ChainBalanced(c)'
  BY UntouchedChain DEF Untouched, ChainBalanced

\* The steps that write neither chains nor links.
LEMMA QuietKeepsBalance ==
    ASSUME OneCaller, ChainInv, BalanceInv, NEW w \in Worker,
           UNCHANGED <<chains, links>>, txRows \subseteq txRows', RowsSettled,
           JobBalanced(call[w])',
           failures' = 0 => /\ failures = 0
                            /\ call[w].pc \in {"check", "stamp"} =>
                                 \/ ChainIsOpen(call[w].chain)
                                 \/ /\ call'[w].pc \in {"check", "stamp"}
                                    /\ call'[w].chain = call[w].chain
    PROVE  BalanceInv'
  <1>1. ASSUME NEW c \in 1..Len(chains)
        PROVE  ChainBalanced(c)'
    <2>1. Untouched(c)
      BY DEF Untouched, LinksOf
    <2>2. failures' = 0 => failures = 0 /\ (Closing(c) => Closing(c)' \/ ChainIsOpen(c))
      BY DEF Closing, OneCaller
    <2> QED
      BY <2>1, <2>2, UntouchedBalanced DEF BalanceInv
  <1> QED
    BY <1>1 DEF BalanceInv, OneCaller

\* The same for a step that writes no table at all.
LEMMA SameTablesBalance ==
    ASSUME ChainInv, UNCHANGED <<txRows, chains, links>>
    PROVE  /\ \A c \in 1..Len(chains) : ChainIsOpen(c)' <=> ChainIsOpen(c)
           /\ txRows \subseteq txRows' /\ RowsSettled
  <1>1. RowsSettled
    BY DEF RowsSettled
  <1>2. \A c \in 1..Len(chains) : Untouched(c)
    BY DEF Untouched, LinksOf
  <1> QED
    BY <1>1, <1>2, UntouchedChain

\* A call that moves on without writing: what it knows of its chain still holds.
LEMMA GotoKeepsBalance ==
    ASSUME OneCaller, ChainInv, BalanceInv, NEW w \in Worker, NEW job, Goto(w, job),
           UNCHANGED <<txRows, chains, links, failures, scans>>,
           job.pc \in HasChain => job.chain \in 1..Len(chains),
           JobBalanced(job),
           call[w].pc \in {"check", "stamp"} =>
               \/ ChainIsOpen(call[w].chain)
               \/ job.pc \in {"check", "stamp"} /\ job.chain = call[w].chain
    PROVE  BalanceInv'
  <1>1. call'[w] = job
    BY DEF Goto, ChainInv
  <1>2. JobBalanced(job)'
    BY SameTablesBalance DEF JobBalanced, AllShares, LegsOf, HasChain
  <1>3. JobBalanced(call[w])'
    BY <1>1, <1>2
  <1>4. failures' = 0 => /\ failures = 0
                         /\ call[w].pc \in {"check", "stamp"} =>
                              \/ ChainIsOpen(call[w].chain)
                              \/ /\ call'[w].pc \in {"check", "stamp"}
                                 /\ call'[w].chain = call[w].chain
    BY <1>1
  <1> QED
    BY <1>3, <1>4, SameTablesBalance, QuietKeepsBalance

\* A call that ends, or begins, without writing.
LEMMA ReturnKeepsBalance ==
    ASSUME OneCaller, ChainInv, BalanceInv, NEW w \in Worker,
           call'[w].pc \in {"idle", "lookup"},
           UNCHANGED <<chains, links>>, txRows \subseteq txRows', RowsSettled,
           failures' = 0 => failures = 0 /\ call[w].pc \notin {"check", "stamp"}
    PROVE  BalanceInv'
  <1>1. JobBalanced(call[w])'
    BY DEF JobBalanced, HasChain
  <1> QED
    BY <1>1, QuietKeepsBalance

LEMMA ReadsKeepBalance ==
    ASSUME OneCaller, ChainInv, BalanceInv, NEW w \in Worker,
           \/ Lookup(w) \/ ListTransactions(w) \/ AttributeChain(w) \/ Unattributable(w)
           \/ ListChainLinks(w) \/ CheckOpen(w) \/ FindStockChain(w) \/ GetChainByID(w)
           \/ ChainLinkRejected(w)
    PROVE  BalanceInv'
  <1>1. /\ JobOK(call[w]) /\ JobBalanced(call[w])
        /\ call = [v \in Worker |-> call[v]]
    BY DEF ChainInv, BalanceInv
  <1>2. UNCHANGED <<txRows, chains, links, failures, scans>>
    BY DEF Lookup, ListTransactions, AttributeChain, Unattributable, ListChainLinks, CheckOpen,
       FindStockChain, GetChainByID, ChainLinkRejected, tables
  <1>3. ASSUME NEW c, Return(w, c), call[w].pc \notin {"check", "stamp"}
        PROVE  BalanceInv'
    BY <1>2, <1>3, ReturnedCall, SameTablesBalance, ReturnKeepsBalance
  <1>4. CASE Lookup(w)
    <2>1. ASSUME Goto(w, [call[w] EXCEPT !.pc = "list"]), call[w].pc = "lookup"
          PROVE  BalanceInv'
      <3>1. JobBalanced([call[w] EXCEPT !.pc = "list"])
        BY <1>1 DEF JobBalanced, HasChain, JobOK
      <3> QED
        BY <1>1, <1>2, <2>1, <3>1, GotoKeepsBalance DEF JobOK, HasChain
    <2> QED
      BY <1>3, <1>4, <2>1 DEF Lookup
  <1>5. CASE ListTransactions(w)
    <2> DEFINE t == call[w].trade
               S == {k \in 1..Len(Legs[t]) : <<t, k>> \in txRows}
    <2>1. /\ call[w].pc = "list"
          /\ \/ \E pc \in {"stock", "attribute", "start"} :
                   /\ pc = "attribute" => ~AllShares(t, S)
                   /\ Goto(w, [call[w] EXCEPT !.pc = pc, !.legs = S, !.leg = 1])
             \/ Return(w, None)
      BY <1>5 DEF ListTransactions
    <2> HIDE DEF S
    <2>2. ASSUME NEW pc \in {"stock", "attribute", "start"}, pc = "attribute" => ~AllShares(t, S),
                 Goto(w, [call[w] EXCEPT !.pc = pc, !.legs = S, !.leg = 1])
          PROVE  BalanceInv'
      <3> DEFINE job == [call[w] EXCEPT !.pc = pc, !.legs = S, !.leg = 1]
      <3>1. job.pc = pc /\ job.legs = S /\ job.trade = t
        BY <1>1 DEF JobOK
      <3> HIDE DEF job
      <3>2. JobBalanced(job)
        BY <2>2, <3>1 DEF JobBalanced, HasChain
      <3>3. Goto(w, job)
        BY <2>2 DEF job
      <3> QED
        BY <1>2, <2>1, <3>1, <3>2, <3>3, GotoKeepsBalance DEF HasChain
    <2> QED
      BY <1>3, <2>1, <2>2
  <1>6. CASE AttributeChain(w)
    <2>1. /\ call[w].pc = "attribute"
          /\ \/ \E c \in 1..Len(chains) : /\ ~chains[c].closed
                                         /\ Goto(w, [call[w] EXCEPT !.pc = "links", !.chain = c])
             \/ \E n : Goto(w, [call[w] EXCEPT !.leg = n])
      BY <1>6 DEF AttributeChain, GetOpenChainForInstrument, OldestOf
    <2>2. ASSUME NEW c \in 1..Len(chains), ~chains[c].closed,
                 Goto(w, [call[w] EXCEPT !.pc = "links", !.chain = c])
          PROVE  BalanceInv'
      <3> DEFINE job == [call[w] EXCEPT !.pc = "links", !.chain = c]
      <3>1. job.pc = "links" /\ job.chain = c /\ job.legs = call[w].legs /\ job.trade = call[w].trade
        BY <1>1 DEF JobOK
      <3> HIDE DEF job
      <3>2. JobBalanced(job)
        BY <1>1, <2>1, <2>2, <3>1 DEF JobBalanced
      <3>3. Goto(w, job)
        BY <2>2 DEF job
      <3> QED
        BY <1>2, <2>1, <3>1, <3>2, <3>3, GotoKeepsBalance
    <2>3. ASSUME NEW n, Goto(w, [call[w] EXCEPT !.leg = n])
          PROVE  BalanceInv'
      <3> DEFINE job == [call[w] EXCEPT !.leg = n]
      <3>1. job.pc = "attribute" /\ job.legs = call[w].legs /\ job.trade = call[w].trade
        BY <1>1, <2>1 DEF JobOK
      <3> HIDE DEF job
      <3>2. JobBalanced(job)
        BY <1>1, <2>1, <3>1 DEF JobBalanced, HasChain
      <3>3. Goto(w, job)
        BY <2>3 DEF job
      <3> QED
        BY <1>2, <2>1, <3>1, <3>2, <3>3, GotoKeepsBalance DEF HasChain
    <2> QED
      BY <2>1, <2>2, <2>3
  <1>7. CASE Unattributable(w)
    <2>1. ASSUME Goto(w, [call[w] EXCEPT !.pc = "start"]), call[w].pc = "attribute"
          PROVE  BalanceInv'
      <3>1. JobBalanced([call[w] EXCEPT !.pc = "start"])
        BY <1>1 DEF JobBalanced, HasChain, JobOK
      <3> QED
        BY <1>1, <1>2, <2>1, <3>1, GotoKeepsBalance DEF JobOK, HasChain
    <2> QED
      BY <1>3, <1>7, <2>1 DEF Unattributable
  <1>8. CASE ListChainLinks(w)
    <2>1. PICK n : Goto(w, [call[w] EXCEPT !.pc = "link", !.seq = n])
      BY <1>8 DEF ListChainLinks
    <2> DEFINE job == [call[w] EXCEPT !.pc = "link", !.seq = n]
    <2>2. /\ job.pc = "link" /\ job.chain = call[w].chain /\ job.legs = call[w].legs
          /\ job.trade = call[w].trade /\ call[w].pc = "links"
      BY <1>1, <1>8 DEF JobOK, ListChainLinks
    <2>3. Goto(w, job)
      BY <2>1
    <2> HIDE DEF job
    <2>4. JobBalanced(job) /\ (job.pc \in HasChain => job.chain \in 1..Len(chains))
      BY <1>1, <2>2 DEF JobBalanced, HasChain, JobOK
    <2> QED
      BY <1>2, <2>2, <2>3, <2>4, GotoKeepsBalance
  <1>9. CASE CheckOpen(w)
    <2>1. PICK pc : /\ pc = IF ChainIsOpen(call[w].chain) THEN "get" ELSE "stamp"
                    /\ Goto(w, [call[w] EXCEPT !.pc = pc])
      BY <1>9 DEF CheckOpen
    <2> DEFINE job == [call[w] EXCEPT !.pc = pc]
    <2>2. /\ job.pc = pc /\ job.chain = call[w].chain /\ call[w].pc = "check"
      BY <1>1, <1>9 DEF JobOK, CheckOpen
    <2>3. Goto(w, job)
      BY <2>1
    <2> HIDE DEF job
    <2>4. JobBalanced(job) /\ (job.pc \in HasChain => job.chain \in 1..Len(chains))
      BY <1>1, <2>1, <2>2 DEF JobBalanced, HasChain, JobOK
    <2> QED
      BY <1>2, <2>1, <2>2, <2>3, <2>4, GotoKeepsBalance
  <1>10. CASE FindStockChain(w)
    <2>1. /\ call[w].pc = "stock"
          /\ \/ \E c \in 1..Len(chains) : /\ chains[c].stock
                                         /\ Goto(w, [call[w] EXCEPT !.pc = "links", !.chain = c])
             \/ Goto(w, [call[w] EXCEPT !.pc = "newstock"])
      BY <1>10 DEF FindStockChain, GetStockChainBySymbol
    <2>2. ASSUME NEW c \in 1..Len(chains), chains[c].stock,
                 Goto(w, [call[w] EXCEPT !.pc = "links", !.chain = c])
          PROVE  BalanceInv'
      <3> DEFINE job == [call[w] EXCEPT !.pc = "links", !.chain = c]
      <3>1. job.pc = "links" /\ job.chain = c
        BY <1>1 DEF JobOK
      <3> HIDE DEF job
      <3>2. JobBalanced(job)
        BY <2>2, <3>1 DEF JobBalanced
      <3>3. Goto(w, job)
        BY <2>2 DEF job
      <3> QED
        BY <1>2, <2>1, <3>1, <3>2, <3>3, GotoKeepsBalance
    <2>3. CASE Goto(w, [call[w] EXCEPT !.pc = "newstock"])
      <3>1. JobBalanced([call[w] EXCEPT !.pc = "newstock"])
        BY <1>1 DEF JobBalanced, HasChain, JobOK
      <3> QED
        BY <1>1, <1>2, <2>1, <2>3, <3>1, GotoKeepsBalance DEF JobOK, HasChain
    <2> QED
      BY <2>1, <2>2, <2>3
  <1>11. CASE GetChainByID(w)
    BY <1>3, <1>11 DEF GetChainByID
  <1>12. CASE ChainLinkRejected(w)
    <2>1. call'[w].pc = "idle" /\ call[w].pc = "link"
      BY <1>1, <1>12 DEF ChainLinkRejected, Fail, IdleJob
    <2> QED
      BY <1>2, <2>1, SameTablesBalance, ReturnKeepsBalance
  <1> QED
    BY <1>4, <1>5, <1>6, <1>7, <1>8, <1>9, <1>10, <1>11, <1>12

LEMMA EnvironmentKeepsBalance ==
    ASSUME OneCaller, ChainInv, BalanceInv, NEW w \in Worker,
           Import(w) \/ DetectChains(w) \/ CutShort(w) \/ StoreOnly
    PROVE  BalanceInv'
  <1>1. call = [v \in Worker |-> call[v]] /\ failures \in Nat
    BY BoundsAssumption DEF ChainInv
  <1>2. \A t \in Trade : ~Stored(t) =>
           \A row : row \in txRows \cup RowsOf(t) /\ row \notin txRows => ~Stored(row[1])
    BY DEF RowsOf
  <1>3. CASE Import(w)
    <2>1. /\ call[w].pc = "idle" /\ call'[w].pc = "lookup"
          /\ UNCHANGED <<chains, links, failures>>
          /\ \E t \in Trade : ~Stored(t) /\ txRows' = txRows \cup RowsOf(t)
      BY <1>1, <1>3 DEF Import, ProcessTrade, Goto, Begin, IdleJob
    <2>2. RowsSettled /\ txRows \subseteq txRows'
      BY <1>2, <2>1 DEF RowsSettled
    <2> QED
      BY <2>1, <2>2, ReturnKeepsBalance
  <1>4. CASE DetectChains(w)
    <2>1. call[w].pc = "idle" /\ UNCHANGED <<txRows, chains, links, failures>>
      BY <1>4 DEF DetectChains, tables
    <2>2. PICK job, t : call' = [call EXCEPT ![w] = Begin(job, t)]
      BY <1>4 DEF DetectChains, Goto
    <2>3. call'[w] = Begin(job, t)
      BY <1>1, <2>2
    <2>4. call'[w].pc = "lookup"
      BY <2>3 DEF Begin, IdleJob
    <2> QED
      BY <2>1, <2>4, SameTablesBalance, ReturnKeepsBalance
  <1>5. CASE CutShort(w)
    <2>1. /\ call'[w].pc = "idle" /\ failures' = failures + 1
          /\ UNCHANGED <<txRows, chains, links>>
      BY <1>1, <1>5 DEF CutShort, Fail, IdleJob, tables
    <2> QED
      BY <1>1, <2>1, SameTablesBalance, ReturnKeepsBalance
  <1>6. CASE StoreOnly
    <2>1. /\ UNCHANGED <<chains, links, call>> /\ failures' = failures + 1
          /\ \E t \in Trade : ~Stored(t) /\ txRows' = txRows \cup RowsOf(t)
      BY <1>6 DEF StoreOnly
    <2>2. RowsSettled /\ txRows \subseteq txRows'
      BY <1>2, <2>1 DEF RowsSettled
    <2>3. \A c \in 1..Len(chains) : ChainIsOpen(c)' <=> ChainIsOpen(c)
      BY <2>1, <2>2, UntouchedChain DEF Untouched, LinksOf
    <2>4. JobBalanced(call[w])'
      <3>1. JobBalanced(call[w]) /\ JobOK(call[w])
        BY DEF BalanceInv, ChainInv
      <3>2. PICK job : job = call[w]
        OBVIOUS
      <3>3. JobBalanced(job)'
        BY <2>1, <2>3, <3>1, <3>2
        DEF JobBalanced, AllShares, LegsOf, JobOK, HasChain
      <3> QED
        BY <2>1, <3>2, <3>3
    <2> QED
      BY <1>1, <2>1, <2>2, <2>4, QuietKeepsBalance
  <1> QED
    BY <1>3, <1>4, <1>5, <1>6

\* A chain in shares is left out; an episode chain starts with a trade that opens.
LEMMA NewChainKeepsBalance ==
    ASSUME OneCaller, ChainInv, BalanceInv, NEW w \in Worker, StartChain(w) \/ CreateStockChain(w)
    PROVE  BalanceInv'
  <1>1. PICK stock, gap, t, new, legs :
           /\ (stock = TRUE \/ stock = FALSE)
           /\ call[w].pc \in {"start", "newstock"} /\ (~stock => call[w].pc = "start")
           /\ t = call[w].trade /\ new = Len(chains) + 1 /\ legs = call[w].legs
           /\ NewChain(w, stock, gap) /\ Return(w, new)
           /\ UNCHANGED <<txRows, links, failures>>
    <2>1. CASE StartChain(w)
      BY <2>1 DEF StartChain, OpensSharesOnly
    <2>2. CASE CreateStockChain(w)
      BY <2>2 DEF CreateStockChain
    <2> QED
      BY <2>1, <2>2
  <1> DEFINE row == [trade |-> t, at |-> ExecutedAt[t], closed |-> FALSE, stock |-> stock,
                     gap |-> gap]
  <1>2. chains' = Append(chains, row)
    BY <1>1 DEF NewChain
  <1>3. row.trade = t /\ row.closed = FALSE /\ row.stock = stock
    OBVIOUS
  <1> HIDE DEF row
  <1>4. /\ Len(chains) \in Nat /\ Len(chains') = new
        /\ \A c \in 1..Len(chains) : chains'[c] = chains[c]
        /\ chains'[new] = row
    BY <1>1, <1>2, RowFacts, AppendProperties DEF ChainInv, TablesOK
  <1>5. RowsSettled /\ txRows \subseteq txRows'
    BY <1>1 DEF RowsSettled
  <1>6. call'[w].pc \in {"idle", "lookup"}
    BY <1>1, ReturnedCall
  <1>7. ASSUME NEW c \in 1..Len(chains)
        PROVE  ChainBalanced(c)'
    <2>1. Untouched(c) /\ ~Closing(c)
      BY <1>1, <1>4 DEF Untouched, LinksOf, Closing, OneCaller
    <2> QED
      BY <1>1, <1>5, <2>1, UntouchedBalanced DEF BalanceInv
  <1>8. ChainBalanced(new)'
    <2>1. LinksOf(new)' = {}
      BY <1>1, <1>4, NewChainHasNoLinks DEF ChainInv, LinksOf
    <2>2. \A u : LastOf(new, u)' => u = t
      BY <1>3, <1>4, <2>1 DEF LastOf
    <2>3. ~stock => ~OnlyCloses(t)
      BY <1>1, JobFacts DEF JobOK, OnlyCloses, HasLegs, CallPC
    <2> QED
      BY <1>3, <1>4, <2>1, <2>2, <2>3 DEF ChainBalanced
  <1>9. \A c \in 1..Len(chains') : c \in 1..Len(chains) \/ c = new
    BY <1>1, <1>4
  <1>10. JobBalanced(call[w])'
    BY <1>6 DEF JobBalanced, HasChain
  <1> QED
    BY <1>7, <1>8, <1>9, <1>10 DEF BalanceInv, OneCaller

LEMMA CreateChainLinkKeepsBalance ==
    ASSUME OneCaller, ChainInv, BalanceInv, NEW w \in Worker, CreateChainLink(w)
    PROVE  BalanceInv'
  <1>1. PICK t, c0, n, new, legs :
           /\ t = call[w].trade /\ c0 = call[w].chain /\ n = call[w].seq /\ legs = call[w].legs
           /\ new = Len(links) + 1
    OBVIOUS
  <1> DEFINE row == [chain |-> c0, seq |-> n, trade |-> t]
  <1>2. /\ call[w].pc = "link" /\ links' = Append(links, row)
        /\ UNCHANGED <<txRows, chains, failures>>
        /\ IF AllShares(t, legs) THEN Return(w, c0)
           ELSE Goto(w, [call[w] EXCEPT !.pc = IF ClosesOnly(w) THEN "check" ELSE "get"])
    BY <1>1 DEF CreateChainLink
  <1>3. row.chain = c0 /\ row.trade = t
    OBVIOUS
  <1> HIDE DEF row
  <1>4. /\ c0 \in 1..Len(chains) /\ t \in Trade /\ legs = 1..Len(Legs[t])
        /\ chains[c0].stock \/ ~chains[c0].closed
        /\ AllShares(t, legs) => chains[c0].stock
    BY <1>1, <1>2, JobFacts
    DEF BalanceInv, JobBalanced, JobOK, HasChain, HasLegs, CallPC
  <1>5. /\ Len(links) \in Nat /\ Len(links') = new
        /\ \A k \in 1..Len(links) : links'[k] = links[k]
        /\ links'[new] = row
    BY <1>1, <1>2, RowFacts, AppendProperties DEF ChainInv, TablesOK
  <1>6. /\ LinksOf(c0)' = LinksOf(c0) \cup {new}
        /\ \A c : c # c0 => LinksOf(c)' = LinksOf(c)
        /\ \A c : LinksOf(c) \subseteq 1..Len(links)
    BY <1>1, <1>3, <1>5 DEF LinksOf
  <1>7. RowsSettled /\ txRows \subseteq txRows'
    BY <1>2 DEF RowsSettled
  <1>8. ~Closing(c0) /\ \A c : ~Closing(c)
    BY <1>2 DEF Closing, OneCaller
  <1>9. ASSUME NEW c \in 1..Len(chains), c # c0
        PROVE  ChainBalanced(c)'
    <2>1. Untouched(c)
      BY <1>2, <1>5, <1>6, <1>9 DEF Untouched
    <2> QED
      BY <1>2, <1>7, <1>8, <2>1, UntouchedBalanced DEF BalanceInv
  <1>10. Newest(c0, new)' /\ \A k : Newest(c0, k)' => k = new
    <2>1. \A j \in LinksOf(c0) \cup {new} : j <= new
      BY <1>1, <1>5, <1>6
    <2>2. \A k \in LinksOf(c0) : ~(new <= k)
      BY <1>1, <1>5, <1>6
    <2> QED
      BY <1>6, <2>1, <2>2 DEF Newest
  <1>11. \A u : LastOf(c0, u)' => u = t
    BY <1>3, <1>5, <1>10 DEF LastOf, Newest
  <1>12. AllShares(t, legs) \/ ~OnlyCloses(t)
         \/ /\ call'[w].pc = "check" /\ call'[w].chain = c0
    <2>1. call = [v \in Worker |-> call[v]] /\ JobOK(call[w])
      BY DEF ChainInv
    <2> QED
      BY <1>1, <1>2, <1>4, <2>1 DEF Goto, ClosesOnly, OnlyCloses, JobOK
  <1>13. ChainBalanced(c0)'
    <2>1. chains[c0].stock \/ ~OnlyCloses(t) \/ Closing(c0)'
      BY <1>4, <1>12 DEF Closing
    <2> QED
      BY <1>2, <1>4, <1>10, <1>11, <2>1 DEF ChainBalanced, Newest
  <1>14. JobBalanced(call[w])'
    <2>1. call = [v \in Worker |-> call[v]] /\ JobOK(call[w])
      BY DEF ChainInv
    <2>2. CASE AllShares(t, legs)
      <3>1. call'[w].pc \in {"idle", "lookup"}
        BY <1>2, <2>2, ReturnedCall
      <3> QED
        BY <3>1 DEF JobBalanced, HasChain
    <2>3. CASE ~AllShares(t, legs)
      <3>1. call'[w].pc \in {"check", "get"} /\ call'[w].chain = c0
        BY <1>1, <1>2, <2>1, <2>3 DEF Goto, JobOK
      <3> QED
        BY <1>2, <1>4, <3>1 DEF JobBalanced, HasChain
    <2> QED
      BY <2>2, <2>3
  <1> QED
    BY <1>2, <1>9, <1>13, <1>14 DEF BalanceInv, OneCaller

LEMMA UpdateChainClosedKeepsBalance ==
    ASSUME OneCaller, ChainInv, BalanceInv, NEW w \in Worker, UpdateChainClosed(w)
    PROVE  BalanceInv'
  <1>1. PICK c0 : c0 = call[w].chain
    OBVIOUS
  <1>2. /\ call[w].pc = "stamp" /\ UNCHANGED <<txRows, links, failures>>
        /\ chains' = [chains EXCEPT ![c0].closed = TRUE]
        /\ Goto(w, [call[w] EXCEPT !.pc = "get"])
    BY <1>1 DEF UpdateChainClosed
  <1>3. c0 \in 1..Len(chains) /\ ~ChainIsOpen(c0) /\ JobOK(call[w])
    BY <1>1, <1>2, JobFacts DEF HasChain, BalanceInv, JobBalanced
  <1>4. /\ Len(chains') = Len(chains)
        /\ \A c \in 1..Len(chains) : c # c0 => chains'[c] = chains[c]
        /\ chains'[c0].trade = chains[c0].trade /\ chains'[c0].closed = TRUE
    <2>1. chains \in Seq([trade: Trade, at: Nat, closed: BOOLEAN, stock: BOOLEAN, gap: BOOLEAN])
      BY DEF ChainInv, TablesOK
    <2>2. chains[c0] \in [trade: Trade, at: Nat, closed: BOOLEAN, stock: BOOLEAN, gap: BOOLEAN]
      BY <1>3, RowFacts
    <2> DEFINE row == [chains[c0] EXCEPT !.closed = TRUE]
    <2>3. /\ row \in [trade: Trade, at: Nat, closed: BOOLEAN, stock: BOOLEAN, gap: BOOLEAN]
          /\ row.trade = chains[c0].trade /\ row.closed = TRUE
      BY <2>2
    <2>4. chains' = [chains EXCEPT ![c0] = row]
      BY <1>2
    <2> HIDE DEF row
    <2> QED
      BY <1>3, <2>1, <2>3, <2>4, ExceptSeq
  <1>5. RowsSettled /\ txRows \subseteq txRows'
    BY <1>2 DEF RowsSettled
  <1>6. \A c : LinksOf(c)' = LinksOf(c) /\ (Closing(c) => c = c0)
    BY <1>1, <1>2 DEF LinksOf, Closing, OneCaller
  <1>7. ASSUME NEW c \in 1..Len(chains), c # c0
        PROVE  ChainBalanced(c)'
    <2>1. Untouched(c)
      BY <1>2, <1>4, <1>6, <1>7 DEF Untouched
    <2> QED
      BY <1>2, <1>5, <1>6, <1>7, <2>1, UntouchedBalanced DEF BalanceInv
  <1>8. ChainBalanced(c0)'
    <2>1. TradesOf(c0)' = TradesOf(c0)
      BY <1>2, <1>4, <1>6, UntouchedTrades
    <2>2. ~ChainIsOpen(c0)'
      BY <1>3, <1>5, <2>1, SameTradesSameBalance
    <2>3. ChainBalanced(c0)
      BY <1>3 DEF BalanceInv
    <2>4. \A k : Newest(c0, k)' <=> Newest(c0, k)
      BY <1>6 DEF Newest
    <2> QED
      BY <1>4, <1>6, <2>2, <2>3, <2>4 DEF ChainBalanced
  <1>9. JobBalanced(call[w])'
    <2>1. call'[w].pc = "get"
      BY <1>2, <1>3 DEF Goto, ChainInv, JobOK
    <2> QED
      BY <2>1 DEF JobBalanced, HasChain
  <1> QED
    BY <1>4, <1>7, <1>8, <1>9 DEF BalanceInv, OneCaller

LEMMA NextBalanceInv ==
    ASSUME OneCaller, ChainInv, BalanceInv, [Next]_vars
    PROVE  BalanceInv'
  <1>1. CASE UNCHANGED vars
    <2>1. PICK w : w \in Worker
      BY DEF OneCaller
    <2>2. UNCHANGED <<txRows, chains, links, call, failures>>
      BY <1>1 DEF vars
    <2>3. PICK job : job = call[w]
      OBVIOUS
    <2>4. JobBalanced(job)'
      BY <2>1, <2>2, <2>3, SameTablesBalance, JobFacts
      DEF BalanceInv, JobBalanced, AllShares, LegsOf, JobOK, HasChain
    <2>5. JobBalanced(call[w])'
      BY <2>2, <2>3, <2>4
    <2> QED
      BY <2>1, <2>2, <2>5, SameTablesBalance, QuietKeepsBalance
  <1>2. CASE StoreOnly
    BY <1>2, EnvironmentKeepsBalance DEF OneCaller
  <1>3. ASSUME NEW w \in Worker, Import(w) \/ DetectChains(w) \/ ChainStep(w) \/ CutShort(w)
        PROVE  BalanceInv'
    BY <1>3, EnvironmentKeepsBalance, ReadsKeepBalance, NewChainKeepsBalance,
       CreateChainLinkKeepsBalance, UpdateChainClosedKeepsBalance DEF ChainStep
  <1> QED
    BY <1>1, <1>2, <1>3 DEF Next

LEMMA BalanceInvHolds ==
    ASSUME OneCaller
    PROVE  Spec => []BalanceInv
  <1>1. Init => BalanceInv
    BY DEF Init, BalanceInv, JobBalanced, IdleJob, HasChain
  <1>2. ChainInv /\ BalanceInv /\ [Next]_vars => BalanceInv'
    BY NextBalanceInv
  <1> QED
    BY <1>1, <1>2, ChainInvHolds, OneCallerContract, PTL DEF Spec

LEMMA BalanceInvImplies ==
    ASSUME ChainInv, BalanceInv
    PROVE  ClosedChainHasNoOpenBalance /\ FlatChainIsClosed
  <1>1. ClosedChainHasNoOpenBalance
    BY DEF ClosedChainHasNoOpenBalance, Episodes, BalanceInv, ChainBalanced
  <1>2. ASSUME NEW c \in Episodes, failures = 0, AtRest,
               ~ChainIsOpen(c), OnlyCloses(LastTrade(c))
        PROVE  chains[c].closed
    <2>1. c \in 1..Len(chains) /\ ~chains[c].stock /\ ChainBalanced(c)
      BY DEF Episodes, BalanceInv
    <2>2. ~Closing(c)
      BY <1>2 DEF Closing, AtRest
    <2>3. LastOf(c, LastTrade(c)) /\ LastTrade(c) \in Trade
      <3>1. CASE LinksOf(c) = {}
        BY <2>1, <3>1, RowFacts DEF LastTrade, LastOf
      <3>2. CASE LinksOf(c) # {}
        <4>1. LinksOf(c) \subseteq 1..Len(links) /\ Len(links) \in Nat
          BY RowFacts DEF LinksOf
        <4>2. PICK k \in LinksOf(c) : \A j \in LinksOf(c) : k >= j
          BY <2>1, <3>2, <4>1 DEF ChainBalanced, Newest
        <4>3. /\ Max(LinksOf(c)) \in LinksOf(c)
              /\ \A j \in LinksOf(c) : Max(LinksOf(c)) >= j
          BY <4>2, Zenon DEF Max
        <4>4. Newest(c, Max(LinksOf(c)))
          BY <4>1, <4>3 DEF Newest
        <4>5. LastTrade(c) = links[Max(LinksOf(c))].trade
          BY <3>2 DEF LastTrade
        <4>6. links[Max(LinksOf(c))].trade \in Trade
          BY <4>1, <4>3, RowFacts
        <4> QED
          BY <4>3, <4>4, <4>5, <4>6 DEF LastOf
      <3> QED
        BY <3>1, <3>2
    <2> QED
      BY <1>2, <2>1, <2>2, <2>3 DEF ChainBalanced
  <1>3. FlatChainIsClosed
    BY <1>2 DEF FlatChainIsClosed, OnlyCloses
  <1> QED
    BY <1>1, <1>3

\* As long as calls do not overlap, a chain that is stamped closed has nothing
\* left open and never gets anything open again, wherever calls are cut short:
\* no later trade is attributed to it, and no transaction of its trades is
\* stored after it was checked.
THEOREM ClosedChainsAreFlat ==
    ASSUME OneCaller
    PROVE  Spec => []ClosedChainHasNoOpenBalance
  BY ChainInvHolds, OneCallerContract, BalanceInvHolds, BalanceInvImplies, PTL

\* As long as calls do not overlap and none has been cut short, between calls
\* every chain that was closed out by its last trade has been stamped closed.
THEOREM FlatChainsAreClosed ==
    ASSUME OneCaller
    PROVE  Spec => []FlatChainIsClosed
  BY ChainInvHolds, OneCallerContract, BalanceInvHolds, BalanceInvImplies, PTL

\* What a step may write of a chain.
LEMMA ClosedChainStep ==
    ASSUME ChainInv, BalanceInv, OneCaller, [Next]_vars, NEW c \in Episodes, chains[c].closed
    PROVE  chains'[c] = chains[c] /\ TradesOf(c)' = TradesOf(c)
  <1>1. c \in 1..Len(chains) /\ ~chains[c].stock /\ ChainBalanced(c)
    BY DEF Episodes, BalanceInv
  <1>2. CASE UNCHANGED <<chains, links>>
    BY <1>2 DEF TradesOf
  <1>3. ASSUME NEW w \in Worker, StartChain(w) \/ CreateStockChain(w)
        PROVE  chains'[c] = chains[c] /\ TradesOf(c)' = TradesOf(c)
    <2>1. PICK row : chains' = Append(chains, row) /\ links' = links
      BY <1>3 DEF StartChain, CreateStockChain, NewChain
    <2>2. chains'[c] = chains[c]
      BY <1>1, <2>1, RowFacts, AppendProperties DEF ChainInv, TablesOK
    <2> QED
      BY <2>1, <2>2 DEF TradesOf
  <1>4. ASSUME NEW w \in Worker, UpdateChainClosed(w)
        PROVE  chains'[c] = chains[c] /\ TradesOf(c)' = TradesOf(c)
    <2>1. call[w].chain # c
      BY <1>1, <1>4 DEF UpdateChainClosed, BalanceInv, JobBalanced, HasChain
    <2>2. chains'[c] = chains[c] /\ links' = links
      BY <1>4, <2>1 DEF UpdateChainClosed
    <2> QED
      BY <2>2 DEF TradesOf
  <1>5. ASSUME NEW w \in Worker, CreateChainLink(w)
        PROVE  chains'[c] = chains[c] /\ TradesOf(c)' = TradesOf(c)
    <2>1. PICK row : row.chain = call[w].chain /\ links' = Append(links, row) /\ chains' = chains
      BY <1>5 DEF CreateChainLink
    <2>2. row.chain # c
      BY <1>1, <1>5, <2>1 DEF CreateChainLink, BalanceInv, JobBalanced, HasChain
    <2>3. /\ Len(links) \in Nat /\ Len(links') = Len(links) + 1
          /\ \A k \in 1..Len(links) : links'[k] = links[k]
          /\ links'[Len(links) + 1] = row
      BY <2>1, RowFacts, AppendProperties DEF ChainInv, TablesOK
    <2>4. LinksOf(c)' = LinksOf(c) /\ \A k \in LinksOf(c) : links'[k] = links[k]
      BY <2>2, <2>3 DEF LinksOf
    <2> QED
      BY <2>1, <2>4, UntouchedTrades
  <1> QED
    BY <1>2, <1>3, <1>4, <1>5
    DEF Next, ChainStep, vars, StoreOnly, Import, ProcessTrade, DetectChains, CutShort, Lookup,
        ListTransactions, AttributeChain, Unattributable, ListChainLinks, ChainLinkRejected,
        CheckOpen, GetChainByID, FindStockChain, tables

\* As long as calls do not overlap, a closed chain stays as it is: no step
\* writes its row or adds a trade to it.
THEOREM ClosedChainsAreFinal ==
    ASSUME OneCaller
    PROVE  Spec => ClosedChainIsFinal
  <1>1. ChainInv /\ BalanceInv /\ [Next]_vars =>
          [\A c \in Episodes : chains[c].closed =>
             chains'[c] = chains[c] /\ TradesOf(c)' = TradesOf(c)]_vars
    BY ClosedChainStep
  <1> QED
    BY <1>1, ChainInvHolds, OneCallerContract, BalanceInvHolds, PTL DEF Spec, ClosedChainIsFinal

=============================================================================
