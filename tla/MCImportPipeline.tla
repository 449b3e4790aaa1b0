-------------------------- MODULE MCImportPipeline --------------------------
(* Scenarios for ImportPipeline: exports of overlapping periods.            *)
EXTENDS ImportPipeline

CONSTANTS t1, t1part, t1late, t2, bad, A, B, X

Tx(inst, effect, cash, qty, price) ==
    [inst |-> inst, effect |-> effect, cash |-> cash, qty |-> qty, price |-> price]

\* t1 sells two A in two fills (t1part: an export with the first fill only,
\* t1late: with the second only, which takes the first one's place), t2 rolls an
\* A into a B, with the opening leg first in the file, bad mixes underlyings.
MCRows == [g \in Trade |->
    CASE g = t1 -> <<Tx(A, "opening", 1, 1, 3), Tx(A, "opening", 1, 1, 4)>>
      [] g = t1part -> <<Tx(A, "opening", 1, 1, 3)>>
      [] g = t1late -> <<Tx(A, "opening", 1, 1, 4)>>
      [] g = t2 -> <<Tx(B, "opening", 1, 1, 5), Tx(A, "closing", -1, 1, 2)>>
      [] OTHER -> <<Tx(A, "opening", 1, 1, 1), Tx(X, "opening", 1, 1, 1)>>]

MCTradeId == [g \in Trade |-> IF g \in {t1part, t1late} THEN t1 ELSE g]
MCExecutedAt == [g \in Trade |->
    CASE g = t2 -> 2 [] g = bad -> 3 [] OTHER -> 1]
MCUnderlying == [i \in Instrument |-> IF i = X THEN "QQQ" ELSE "SPY"]

\* A full export, one that ends within t1 and one that begins within it.
Exports == {{t1, t2}, {t1part}, {t1late, bad}}

=============================================================================
