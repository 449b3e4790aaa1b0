----------------------------- MODULE Inventory -----------------------------
(***************************************************************************)
(* What the lot ledger promises about quantities, without lots: for every   *)
(* instrument it counts the contracts ever opened, the contracts ever       *)
(* closed, and the contracts held, and closing never takes more than is     *)
(* held.  (domain/position.go: lots are matched on close; architecture.md    *)
(* calls them the source of truth.)                                         *)
(***************************************************************************)
EXTENDS Naturals

CONSTANTS Instrument

VARIABLES opened, closed, held

vars == <<opened, closed, held>>

Zero == [i \in Instrument |-> 0]

Init == opened = Zero /\ closed = Zero /\ held = Zero

Open(i) ==
    /\ opened'[i] > opened[i]
    /\ opened' = [opened EXCEPT ![i] = opened'[i]]
    /\ held' = [held EXCEPT ![i] = @ + (opened'[i] - opened[i])]
    /\ UNCHANGED closed

Close(i) == \E q \in 1..held[i] :
    /\ closed' = [closed EXCEPT ![i] = @ + q]
    /\ held' = [held EXCEPT ![i] = @ - q]
    /\ UNCHANGED opened

Next == \E i \in Instrument : Open(i) \/ Close(i)

Spec == Init /\ [][Next]_vars

=============================================================================
