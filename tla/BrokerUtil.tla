----------------------------- MODULE BrokerUtil -----------------------------
(* What the two broker parsers share: keys and the loop over a file.         *)
EXTENDS Integers, SequencesExt

\* The identifier of a trade or of a transaction is a digest of the parts
\* joined by "|".  Composite parts contain "|" themselves, so the digest sees
\* one flat sequence; no single part of a broker's keys contains the separator.
HashKey(parts) == FlattenSeq(parts)

\* Rows read so far under a group key (a Go map: zero when absent).
SeenUnder(counts, key) == IF key \in DOMAIN counts THEN counts[key] ELSE 0

Counted(counts, key) ==
    [k \in DOMAIN counts \cup {key} |->
        SeenUnder(counts, k) + IF k = key THEN 1 ELSE 0]

\* What a parser returns: transactions, or an error and nothing.
ParseFailed == [failed |-> TRUE, txs |-> <<>>]
Parsed(txs) == [failed |-> FALSE, txs |-> txs]

Absolute(n) == IF n < 0 THEN -n ELSE n

=============================================================================
