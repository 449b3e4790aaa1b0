--------------------------- MODULE MCBrokerFiles ---------------------------
(* Rows of the kinds the two brokers export, one of each that the parsers    *)
(* treat differently, and a few that they refuse or leave out.  fill, value, *)
(* told and readable are what the broker knows of a row: contracts moved,    *)
(* dollars moved, whether the row reports the fill (all columns, an action), *)
(* and whether what it reports makes sense to the parser.                    *)
EXTENDS BrokerFiles, BrokerUtil

-----------------------------------------------------------------------------
(* Tastytrade: prices are dollars per contract, negative when paid.          *)

TastytradeRow(action, inst, symbol, order, fill, price) ==
    [flaw |-> "none", at |-> 0, type |-> "Trade", sub |-> "", action |-> action,
     inst |-> inst, symbol |-> symbol, qty |-> Absolute(fill), price |-> price,
     commissions |-> -1, fees |-> -1, mult |-> 0, order |-> order,
     fill |-> fill, value |-> Absolute(fill * price), told |-> TRUE,
     readable |-> TRUE]

BuyToOpen == TastytradeRow("BUY_TO_OPEN", "Equity Option", "P220", "o1", 2, -300)
SellToOpen == TastytradeRow("SELL_TO_OPEN", "Equity Option", "P230", "o1", -2, 500)
NextOrder == TastytradeRow("SELL_TO_OPEN", "Equity Option", "P230", "o2", -2, 500)
BuyBack == [TastytradeRow("BUY", "Future Option", "/MES", "o2", 1, -50)
                EXCEPT !.sub = "Buy to Close", !.mult = 5]
ShortFuture == [TastytradeRow("SELL", "Future", "/MCL", "o1", -1, 0)
                    EXCEPT !.sub = "Sell to Open"]
Expiration == [TastytradeRow("SELL_TO_CLOSE", "Equity Option", "P220", "", -2, 0)
                  EXCEPT !.type = "Receive Deliver"]
Dividend == [TastytradeRow("", "Equity", "SVOL", "", 0, 0)
                EXCEPT !.type = "Money Movement"]
Removal == [TastytradeRow("", "Equity Option", "P220", "", -2, 0)
               EXCEPT !.type = "Receive Deliver", !.told = FALSE]
ShortRow == [NextOrder EXCEPT !.flaw = "columns", !.told = FALSE]
Unknown == [TastytradeRow("EXERCISE", "Equity Option", "P220", "o2", 1, 0)
               EXCEPT !.readable = FALSE]

TastytradeEntries ==
    {<<r>> : r \in {BuyToOpen, SellToOpen, NextOrder, BuyBack, ShortFuture,
                    Expiration, Dividend, Removal, ShortRow, Unknown}}

-----------------------------------------------------------------------------
(* Schwab: quantities are signed, prices points and ticks; value is in 64ths.*)

Ticker(name) == [root |-> "", underlying |-> name, text |-> name]

Treasury == [root |-> "/ZN", underlying |-> "/ZNM26", text |-> "/ZNM26 1/1000"]

SchwabRow(side, effect, symbol, type, fill, whole) ==
    [flaw |-> "none", at |-> 0, first |-> TRUE, spread |-> "SINGLE", side |-> side,
     effect |-> effect, symbol |-> symbol, type |-> type, qty |-> fill,
     price |-> [whole |-> whole, ticks |-> 0], fill |-> fill,
     value |-> Absolute(fill) * whole * 64 * 100, told |-> TRUE,
     readable |-> TRUE]

ShortCall == SchwabRow("SELL", "TO OPEN", Ticker("MSFT"), "CALL", -1, 2)
LongPut == SchwabRow("BUY", "TO OPEN", Ticker("MSFT"), "PUT", 2, 3)
Etf == SchwabRow("BUY", "TO OPEN", Ticker("SLV"), "ETF", 7, 74)
ZnPut == [SchwabRow("BUY", "TO CLOSE", Treasury, "PUT", 1, 0)
             EXCEPT !.price = [whole |-> 0, ticks |-> 13], !.value = 13 * 1000]
BlankLine == [Etf EXCEPT !.flaw = "blank", !.fill = 0]
ShortLine == [Etf EXCEPT !.flaw = "columns", !.told = FALSE, !.readable = FALSE]
Rights == [SchwabRow("BUY", "TO OPEN", Ticker("SLV"), "RIGHT", 1, 1)
              EXCEPT !.readable = FALSE]

NextLeg(row) == [row EXCEPT !.first = FALSE, !.spread = ""]

SchwabEntries ==
    {<<ShortCall>>, <<LongPut>>, <<Etf>>, <<BlankLine>>, <<ShortLine>>, <<Rights>>,
     <<[LongPut EXCEPT !.spread = "STRADDLE"], NextLeg(ShortCall)>>,
     <<ZnPut, NextLeg([ZnPut EXCEPT !.side = "SELL", !.qty = -1, !.fill = -1])>>}

-----------------------------------------------------------------------------
MCEntries == [tastytrade |-> TastytradeEntries, schwab |-> SchwabEntries]

MCHeadings == {"title and header", "header", "other"}

=============================================================================
