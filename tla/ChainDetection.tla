--------------------------- MODULE ChainDetection ---------------------------
(***************************************************************************)
(* ChainService.processTrade and the chain repository it writes through:    *)
(* an opening trade starts a chain, a mixed trade (closing and opening      *)
(* legs) extends the chain its closing legs are attributed to, a            *)
(* closing-only trade is linked to that chain and closes it when no open    *)
(* balance is left; trades in shares go to one durable chain per symbol.    *)
(* ProcessTrade handles one trade, DetectChains every stored trade, oldest  *)
(* first.                                                                   *)
(*                                                                          *)
(* One SQL statement is one action.  call[w] is what the call running for   *)
(* worker w holds in local variables; a call may end between statements.    *)
(***************************************************************************)
EXTENDS Integers, Sequences, FiniteSets, FiniteSetsExt, Functions

CONSTANTS
    Worker,       \* concurrent callers
    Trade,        \* trade ids
    Instrument,   \* instrument ids
    Shares,       \* the instruments that are shares
    Legs,         \* Legs[t]: the transactions of trade t, as ListByTrade orders them
    ExecutedAt,   \* ExecutedAt[t]: execution time of trade t
    Symbol,       \* Symbol[t]: underlying symbol of trade t
    None,         \* "no chain"
    Error,        \* the answer of a call that failed
    MaxFailures,  \* bound: how many calls may end between two statements
    MaxScans      \* bound: how many times DetectChains is called

ASSUME TradeAssumption == IsFiniteSet(Trade)
ASSUME SharesAssumption == Shares \subseteq Instrument
ASSUME LegsAssumption ==
    \A t \in Trade : Legs[t] \in Seq([inst: Instrument, qty: Nat \ {0},
                                      effect: {"opening", "closing", "neutral"}])
ASSUME ExecutedAtAssumption == ExecutedAt \in [Trade -> Nat]
ASSUME BoundsAssumption == MaxFailures \in Nat /\ MaxScans \in Nat

VARIABLES
    txRows,    \* transactions: {<<trade, leg>>}
    chains,    \* chains; the chain id is the index
    links,     \* chain_links, in insertion order
    call,      \* local state of each running call
    failures,  \* calls cut short so far
    scans      \* calls of DetectChains so far

tables == <<txRows, chains, links>>
vars == <<txRows, chains, links, call, failures, scans>>

ChainId == 1..Cardinality(Trade)
ChainRow == [trade: Trade, at: Nat, closed: BOOLEAN, stock: BOOLEAN, gap: BOOLEAN]
LinkRow == [chain: ChainId, seq: Nat \ {0}, trade: Trade]

CallPC == {"idle", "lookup", "list", "attribute", "start", "stock", "newstock",
           "links", "link", "check", "stamp", "get"}

\* todo: trades DetectChains has still to visit; legs: the transactions read;
\* answer: the chain returned for the last trade.
Job == [pc: CallPC, trade: Trade \cup {None}, todo: SUBSET Trade, legs: SUBSET Nat,
        leg: Nat, chain: ChainId \cup {None}, seq: Nat, answer: ChainId \cup {None, Error}]

IdleJob == [pc |-> "idle", trade |-> None, todo |-> {}, legs |-> {}, leg |-> 0,
            chain |-> None, seq |-> 0, answer |-> None]

-----------------------------------------------------------------------------
(* Queries.                                                                 *)

LegsOf(t, S) == {Legs[t][k] : k \in S}
HasEffect(t, S, effect) == \E leg \in LegsOf(t, S) : leg.effect = effect
AllShares(t, S) == S # {} /\ \A leg \in LegsOf(t, S) : leg.inst \in Shares

\* The trades whose transactions count for a chain.
TradesOf(c) == {chains[c].trade} \cup {links[k].trade : k \in {k \in 1..Len(links) : links[k].chain = c}}

\* GetChainByTradeID returns one of these.
Owners(t) == {c \in 1..Len(chains) : t \in TradesOf(c)}

RowsOf(t) == {t} \X (1..Len(Legs[t]))
SignedQty ==
    [row \in UNION {RowsOf(t) : t \in Trade} |->
       LET leg == Legs[row[1]][row[2]]
       IN CASE leg.effect = "opening" -> leg.qty
            [] leg.effect = "closing" -> -leg.qty
            [] OTHER -> 0]

NetQty(c, inst) ==
    SumFunctionOnSet(SignedQty, {row \in txRows : row[1] \in TradesOf(c)
                                                   /\ Legs[row[1]][row[2]].inst = inst})

ChainIsOpen(c) == \E inst \in Instrument : NetQty(c, inst) > 0

OldestOf(S) == {c \in S : \A d \in S : chains[c].at <= chains[d].at}

\* Mutated form: any chain that opened the instrument, whatever is left of it.
ChainThatOpened(inst) ==
    OldestOf({c \in 1..Len(chains) : \E t \in TradesOf(c) :
                [inst |-> inst, effect |-> "opening"] \in
                   {[inst |-> leg.inst, effect |-> leg.effect] : leg \in LegsOf(t, 1..Len(Legs[t]))}})
GetOpenChainForInstrument(inst) ==
    OldestOf({c \in 1..Len(chains) : ~chains[c].closed /\ NetQty(c, inst) > 0})

GetStockChainBySymbol(symbol) ==
    {c \in 1..Len(chains) : chains[c].stock /\ Symbol[chains[c].trade] = symbol}

LinksOf(c) == {k \in 1..Len(links) : links[k].chain = c}

-----------------------------------------------------------------------------
(* A call begins, moves on and returns.                                     *)

Begin(job, t) == [IdleJob EXCEPT !.pc = "lookup", !.trade = t, !.todo = job.todo \ {t}]

Earliest(S) == {t \in S : \A u \in S : ExecutedAt[t] <= ExecutedAt[u]}

\* DetectChains goes on with the next trade; ProcessTrade returns the chain.
Return(w, c) ==
    IF call[w].todo = {}
    THEN call' = [call EXCEPT ![w] = [IdleJob EXCEPT !.answer = c]]
    ELSE \E t \in Earliest(call[w].todo) : call' = [call EXCEPT ![w] = Begin(call[w], t)]

Fail(w) == call' = [call EXCEPT ![w] = [IdleJob EXCEPT !.answer = Error]]

Goto(w, job) == call' = [call EXCEPT ![w] = job]

ProcessTrade(w, t) ==
    /\ call[w].pc = "idle"
    /\ Goto(w, Begin(IdleJob, t))
    /\ UNCHANGED <<chains, links, failures, scans>>

\* Nothing keeps a scan from starting beside other calls; see ContractNext.
DetectChains(w) ==
    /\ call[w].pc = "idle"
    /\ scans < MaxScans
    /\ scans' = scans + 1
    /\ LET stored == {row[1] : row \in txRows}
       IN \E t \in Earliest(stored) : Goto(w, Begin([IdleJob EXCEPT !.todo = stored], t))
    /\ UNCHANGED <<tables, failures>>

\* The call ends before its next statement; nothing is undone.
CutShort(w) ==
    /\ call[w].pc # "idle"
    /\ failures < MaxFailures
    /\ failures' = failures + 1
    /\ Fail(w)
    /\ UNCHANGED <<tables, scans>>

-----------------------------------------------------------------------------
(* processTrade.                                                            *)

\* Idempotency: a trade that already has a chain is left alone.
\* Mutated form: only the trade that started the chain is recognised.
LookupOriginalOnly(w) ==
    LET owners == {c \in 1..Len(chains) : chains[c].trade = call[w].trade}
    IN /\ call[w].pc = "lookup"
       /\ \/ \E c \in owners : Return(w, c)
          \/ owners = {} /\ Goto(w, [call[w] EXCEPT !.pc = "list"])
       /\ UNCHANGED <<tables, failures, scans>>
Lookup(w) ==
    /\ call[w].pc = "lookup"
    /\ \/ \E c \in Owners(call[w].trade) : Return(w, c)
       \/ Owners(call[w].trade) = {} /\ Goto(w, [call[w] EXCEPT !.pc = "list"])
    /\ UNCHANGED <<tables, failures, scans>>

\* The trade's transactions decide what becomes of it.
ListTransactions(w) ==
    LET t == call[w].trade
        S == {k \in 1..Len(Legs[t]) : <<t, k>> \in txRows}
        go(pc) == Goto(w, [call[w] EXCEPT !.pc = pc, !.legs = S, !.leg = 1])
    IN /\ call[w].pc = "list"
       /\ IF AllShares(t, S) THEN go("stock")
          ELSE IF HasEffect(t, S, "closing") THEN go("attribute")
          ELSE IF HasEffect(t, S, "opening") THEN go("start")
          ELSE Return(w, None)       \* neutral legs only
       /\ UNCHANGED <<tables, failures, scans>>

\* One query per closing leg, until one names an open chain.
AttributeChain(w) ==
    LET t == call[w].trade
        k == call[w].leg
        asks == k \in call[w].legs /\ Legs[t][k].effect = "closing"
        found == IF asks THEN GetOpenChainForInstrument(Legs[t][k].inst) ELSE {}
    IN /\ call[w].pc = "attribute"
       /\ k <= Len(Legs[t])
       /\ \/ \E c \in found : Goto(w, [call[w] EXCEPT !.pc = "links", !.chain = c])
          \/ found = {} /\ Goto(w, [call[w] EXCEPT !.leg = k + 1])
       /\ UNCHANGED <<tables, failures, scans>>

\* ErrUnattributableTrade: a closing-only trade is skipped, a mixed one starts
\* a chain of its own.
Unattributable(w) ==
    LET t == call[w].trade
    IN /\ call[w].pc = "attribute"
       /\ call[w].leg > Len(Legs[t])
       /\ IF HasEffect(t, call[w].legs, "opening")
          THEN Goto(w, [call[w] EXCEPT !.pc = "start"])
          ELSE Return(w, None)
       /\ UNCHANGED <<tables, failures, scans>>

NewChain(w, stock, gap) ==
    LET t == call[w].trade
    IN chains' = Append(chains, [trade |-> t, at |-> ExecutedAt[t], closed |-> FALSE,
                                 stock |-> stock, gap |-> gap])

\* The classifier sees the opening legs only and calls shares alone STOCK, also
\* in an order with other legs.  (Shares bought and sold to open in one order
\* net to nothing there; no broker takes such an order.)
OpensSharesOnly(t, S) ==
    /\ HasEffect(t, S, "opening")
    /\ \A leg \in LegsOf(t, S) : leg.effect = "opening" => leg.inst \in Shares

StartChain(w) ==
    /\ call[w].pc = "start"
    /\ NewChain(w, OpensSharesOnly(call[w].trade, call[w].legs),
                HasEffect(call[w].trade, call[w].legs, "closing"))
    /\ Return(w, Len(chains) + 1)
    /\ UNCHANGED <<txRows, links, failures, scans>>

\* Mutated form: links are numbered from zero.
NumberFromZero(w) ==
    /\ call[w].pc = "links"
    /\ Goto(w, [call[w] EXCEPT !.pc = "link", !.seq = Cardinality(LinksOf(call[w].chain))])
    /\ UNCHANGED <<tables, failures, scans>>

\* extendChain, maybeCloseChain and findOrCreateStockChain number the new link
\* by the links they have just read ...
ListChainLinks(w) ==
    /\ call[w].pc = "links"
    /\ Goto(w, [call[w] EXCEPT !.pc = "link", !.seq = Cardinality(LinksOf(call[w].chain)) + 1])
    /\ UNCHANGED <<tables, failures, scans>>

\* ... and insert it under UNIQUE (chain_id, sequence).
\* Mutated form: no unique index.
SequenceNeverTaken(w) == FALSE
SequenceTaken(w) == \E k \in LinksOf(call[w].chain) : links[k].seq = call[w].seq

\* Only a closing-only trade goes on to close the chain.
ClosesOnly(w) == ~HasEffect(call[w].trade, call[w].legs, "opening")

CreateChainLink(w) ==
    /\ call[w].pc = "link"
    /\ ~SequenceTaken(w)
    /\ links' = Append(links, [chain |-> call[w].chain, seq |-> call[w].seq,
                               trade |-> call[w].trade])
    /\ IF AllShares(call[w].trade, call[w].legs)
       THEN Return(w, call[w].chain)
       ELSE Goto(w, [call[w] EXCEPT !.pc = IF ClosesOnly(w) THEN "check" ELSE "get"])
    /\ UNCHANGED <<txRows, chains, failures, scans>>

ChainLinkRejected(w) ==
    /\ call[w].pc = "link"
    /\ SequenceTaken(w)
    /\ Fail(w)
    /\ UNCHANGED <<tables, failures, scans>>

\* Mutated form: the chain is closed as soon as a closing trade reaches it.
CheckNothing(w) ==
    /\ call[w].pc = "check"
    /\ Goto(w, [call[w] EXCEPT !.pc = "stamp"])
    /\ UNCHANGED <<tables, failures, scans>>
CheckOpen(w) ==
    /\ call[w].pc = "check"
    /\ Goto(w, [call[w] EXCEPT !.pc = IF ChainIsOpen(call[w].chain) THEN "get" ELSE "stamp"])
    /\ UNCHANGED <<tables, failures, scans>>

\* Mutated form: the stamp is forgotten.
StampNothing(w) ==
    /\ call[w].pc = "stamp"
    /\ Goto(w, [call[w] EXCEPT !.pc = "get"])
    /\ UNCHANGED <<tables, failures, scans>>
UpdateChainClosed(w) ==
    /\ call[w].pc = "stamp"
    /\ chains' = [chains EXCEPT ![call[w].chain].closed = TRUE]
    /\ Goto(w, [call[w] EXCEPT !.pc = "get"])
    /\ UNCHANGED <<txRows, links, failures, scans>>

\* The chain is read again for its strategy; an error here fails the call
\* although the link stands.
GetChainByID(w) ==
    /\ call[w].pc = "get"
    /\ Return(w, call[w].chain)
    /\ UNCHANGED <<tables, failures, scans>>

-----------------------------------------------------------------------------
(* findOrCreateStockChain.                                                  *)

FindStockChain(w) ==
    LET found == GetStockChainBySymbol(Symbol[call[w].trade])
    IN /\ call[w].pc = "stock"
       /\ \/ \E c \in found : Goto(w, [call[w] EXCEPT !.pc = "links", !.chain = c])
          \/ found = {} /\ Goto(w, [call[w] EXCEPT !.pc = "newstock"])
       /\ UNCHANGED <<tables, failures, scans>>

CreateStockChain(w) ==
    /\ call[w].pc = "newstock"
    /\ NewChain(w, TRUE, FALSE)
    /\ Return(w, Len(chains) + 1)
    /\ UNCHANGED <<txRows, links, failures, scans>>

ChainStep(w) ==
    \/ Lookup(w)
    \/ ListTransactions(w)
    \/ AttributeChain(w)
    \/ Unattributable(w)
    \/ StartChain(w)
    \/ ListChainLinks(w)
    \/ CreateChainLink(w)
    \/ ChainLinkRejected(w)
    \/ CheckOpen(w)
    \/ UpdateChainClosed(w)
    \/ GetChainByID(w)
    \/ FindStockChain(w)
    \/ CreateStockChain(w)

-----------------------------------------------------------------------------
(* The environment: imports store a trade's transactions and then call      *)
(* ProcessTrade, in any order of trades, or die before the call.            *)

Stored(t) == RowsOf(t) \cap txRows # {}

Import(w) == \E t \in Trade :
    /\ ~Stored(t)
    /\ txRows' = txRows \cup RowsOf(t)
    /\ ProcessTrade(w, t)

StoreOnly == \E t \in Trade :
    /\ ~Stored(t)
    /\ failures < MaxFailures
    /\ failures' = failures + 1
    /\ txRows' = txRows \cup RowsOf(t)
    /\ UNCHANGED <<chains, links, call, scans>>

Init ==
    /\ txRows = {}
    /\ chains = <<>>
    /\ links = <<>>
    /\ call = [w \in Worker |-> IdleJob]
    /\ failures = 0
    /\ scans = 0

Next ==
    \/ \E w \in Worker : Import(w) \/ DetectChains(w) \/ ChainStep(w) \/ CutShort(w)
    \/ StoreOnly

Spec == Init /\ [][Next]_vars

\* What the callers of DetectChains have to promise and nothing enforces: no
\* other call is running when a scan starts.  The comment on it (chain_service.go:53)
\* asks this of other scans only.
AtRest == \A w \in Worker : call[w].pc = "idle"
ScanAlone(w) == AtRest /\ DetectChains(w)
ContractNext ==
    \/ \E w \in Worker : Import(w) \/ ScanAlone(w) \/ ChainStep(w) \/ CutShort(w)
    \/ StoreOnly
ContractSpec == Init /\ [][ContractNext]_vars

-----------------------------------------------------------------------------
(* Properties.                                                              *)

TypeOK ==
    /\ txRows \subseteq Trade \X Nat
    /\ chains \in Seq(ChainRow)
    /\ links \in Seq(LinkRow)
    /\ Len(chains) <= Cardinality(Trade)
    /\ \A k \in 1..Len(links) : links[k].chain <= Len(chains)
    /\ call \in [Worker -> Job]
    /\ failures \in 0..MaxFailures
    /\ scans \in 0..MaxScans

Episodes == {c \in 1..Len(chains) : ~chains[c].stock}

\* However often a trade is processed, by imports and by DetectChains, it
\* belongs to one chain at most (the idempotency gate of chain_service.go:186).
\* The gate and the insert are separate statements: this holds under
\* ContractSpec, and under Spec a scan beside an import breaks it.
OneChainPerTrade == \A t \in Trade : Cardinality(Owners(t)) <= 1

\* The links of a chain are numbered 1, 2, ... in the order they were made,
\* although the number is computed from an earlier read.
LinkSequenceDense ==
    \A k \in 1..Len(links) :
        links[k].seq = Cardinality({j \in 1..k : links[j].chain = links[k].chain})

\* A closed episode chain has no open balance and never gets one again.
ClosedChainHasNoOpenBalance ==
    \A c \in Episodes : chains[c].closed => ~ChainIsOpen(c)

\* Between calls, unless one was cut short, an episode chain without open
\* balance whose last trade only closed has been stamped closed.
LastTrade(c) == LET mine == LinksOf(c)
                IN IF mine = {} THEN chains[c].trade ELSE links[Max(mine)].trade
FlatChainIsClosed ==
    failures = 0 /\ AtRest =>
    \A c \in Episodes :
        LET t == LastTrade(c)
        IN ~ChainIsOpen(c) /\ ~HasEffect(t, 1..Len(Legs[t]), "opening") => chains[c].closed

\* A closed chain stays closed and takes no further link.
ClosedChainIsFinal ==
    [][\A c \in Episodes : chains[c].closed =>
          chains'[c] = chains[c] /\ TradesOf(c)' = TradesOf(c)]_vars

\* Stock chains are "never closed at the chain level"
\* (internal/repository/interfaces.go:153).
StockChainNeverClosed == \A c \in 1..Len(chains) : chains[c].stock => ~chains[c].closed

=============================================================================
