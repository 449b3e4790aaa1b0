-------------------------- MODULE MCStrategyRules --------------------------
(* Orders of up to four fills over option strikes 1..4 in one expiry and     *)
(* 1..2 in a later one, the shares and a future of one underlying.           *)
EXTENDS StrategyRules

Option(type, strike, exp) ==
    [class |-> "equity_option", type |-> type, strike |-> strike, exp |-> exp]

Options == {Option(type, strike, 1) : type \in {"P", "C"}, strike \in 1..4}
           \cup {Option(type, strike, 2) : type \in {"P", "C"}, strike \in 1..2}

Shares == [class |-> "equity", type |-> "", strike |-> 0, exp |-> 0]

Contracts == [class |-> "future", type |-> "", strike |-> 0, exp |-> 0]

Opening(on, action) == [on |-> on, action |-> action, effect |-> "opening"]

Closing(on, action) == [on |-> on, action |-> action, effect |-> "closing"]

MCKind ==
    {Opening(option, action) : option \in Options, action \in {"BTO", "STO"}}
    \cup {Opening(Shares, "BTO"), Opening(Shares, "STO"), Opening(Contracts, "BUY"),
          Closing(Option("P", 2, 1), "BTC"), Closing(Contracts, "SELL")}

=============================================================================
