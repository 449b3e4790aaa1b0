------------------------------ MODULE TuiState ------------------------------
(***************************************************************************)
(* State of the terminal UI.  Bubbletea runs one Update at a time, each an  *)
(* atomic step here; a command returned by Update runs in a goroutine of    *)
(* its own, so its calls and its answer are separate, unordered steps.      *)
(*                                                                          *)
(* Every view is reloaded when it becomes active and shows nothing of what  *)
(* it showed before until an answer arrives, so screen is the state of the  *)
(* active list view only.  What outlives a switch is filter (the symbol     *)
(* filter of the trades view), form (accounts view) and import (import      *)
(* view).                                                                   *)
(***************************************************************************)
EXTENDS TrackerServer

CONSTANTS
    AccountIds,   \* account ids in order of creation; all but the first are unused at start
    Inputs,       \* what is typed into the create form: [broker, number, name]
    Names,        \* what is typed into the rename form
    Symbols,      \* what is typed into the filter, "" among them
    None,
    MaxCommands   \* bound: commands run by the UI

ASSUME BoundAssumption == MaxCommands \in Nat

All == ""   \* AllAccountsID

VARIABLES
    phase,       \* "connecting", "ready", "failed" (initErr), "quit" or "crashed"
    activeView,
    selected,    \* SelectedAccountID
    accounts,    \* SharedState.Accounts
    screen,      \* the active list view
    filter,      \* [symbol, open]
    form,        \* AccountsView
    import,      \* ImportView
    net,         \* commands that have not answered yet, by number
    issued,      \* commands run so far
    db           \* accounts table of the server

vars == <<phase, activeView, selected, accounts, screen, filter, form, import, net, issued, db>>

View == {"accounts", "positions", "history", "trades", "analytics", "import"}

\* The SharedState handed to a view by value.
State == [accounts |-> accounts, selected |-> selected]

\* SelectedAccount, as a set of at most one account.
SelectedAccount(state) == {a \in ToSet(state.accounts) : a.id = state.selected}

\* The accounts a load asks for.
accountIDs(state) ==
    IF state.selected # All THEN <<state.selected>>
    ELSE [k \in DOMAIN state.accounts |-> state.accounts[k].id]

Running == phase \in {"connecting", "ready", "failed"}

\* The views are zero values until the first answer: their inputs and their
\* client are nil, and using them panics.
ZeroViews == phase # "ready"

-----------------------------------------------------------------------------
(* Commands.  answer is None until the server has been read.  late marks a   *)
(* chain detail asked for before the positions shown now were.               *)

Command(kind, ids, arg) ==
    [kind |-> kind, ids |-> ids, arg |-> arg, answer |-> None, late |-> FALSE]

Outstanding(kinds) == {n \in DOMAIN net : net[n].kind \in kinds}

\* cmds join the commands outstanding; the bound on them is a guard of the key.
RunOn(outstanding, cmds) ==
    /\ issued + Len(cmds) <= MaxCommands
    /\ issued' = issued + Len(cmds)
    /\ net' = [n \in DOMAIN outstanding \cup (issued + 1)..(issued + Len(cmds)) |->
                 IF n > issued THEN cmds[n - issued] ELSE outstanding[n]]
Run(cmds) == RunOn(net, cmds)
RunNone == UNCHANGED <<net, issued>>

\* The commands left when the answer of command n was delivered.
Without(n) == [m \in DOMAIN net \ {n} |-> net[m]]

\* One that follows up keeps the number.
FollowUp(n, cmd) == net' = [net EXCEPT ![n] = cmd] /\ UNCHANGED issued

\* One account fails or answers on its own; an error is reported only when
\* nothing at all was loaded.
LoadEach(ids, failing, answers) ==
    LET rows == FlattenSeq([k \in DOMAIN ids |->
                  IF ids[k] \in failing THEN <<>> ELSE answers[ids[k]].value])
    IN IF rows = <<>> /\ failing \cap ToSet(ids) # {} THEN Error("load") ELSE Ok(rows)

Loading(for) ==
    [loading |-> TRUE, err |-> FALSE, shown |-> <<>>, for |-> for,
     chains |-> [i \in {} |-> None], fetching |-> {}, expanded |-> {}]

=============================================================================
