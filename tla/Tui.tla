-------------------------------- MODULE Tui --------------------------------
(***************************************************************************)
(* The terminal UI: the root model (App) over its six views, the commands   *)
(* it runs and the server that answers them.  Keys, answers and window      *)
(* changes are delivered one at a time, answers in any order, and every     *)
(* message but a few goes to the view that is active when it arrives.       *)
(***************************************************************************)
EXTENDS ListViews, FormViews

CONSTANT InitialAccounts   \* accounts table at start, in order of creation

Account == [id: ToSet(AccountIds), broker: STRING, number: STRING, name: STRING]

ASSUME AccountsAssumption ==
    /\ AccountIds \in Seq(DOMAIN Books)
    /\ InitialAccounts \in Seq(Account) /\ Len(InitialAccounts) <= Len(AccountIds)
ASSUME TypedAssumption ==
    /\ Inputs \subseteq [broker: STRING, number: STRING, name: STRING]
    /\ Names \subseteq STRING
    /\ "" \in Symbols

-----------------------------------------------------------------------------
(* App.                                                                     *)

activeViewCapturingInput ==
    \/ activeView = "accounts" /\ AccountsInputActive
    \/ activeView = "trades" /\ filter.open
    \/ activeView = "import" /\ ImportInputActive

NoFilter == [symbol |-> "", open |-> FALSE]

LoadCommands(view, state) ==
    CASE view = "accounts" -> AccountsLoad(state)
      [] view = "positions" -> PositionsLoad(state)
      [] view = "history" -> HistoryLoad(state)
      [] view = "trades" -> TradesLoad(state)
      [] view = "analytics" -> AnalyticsLoad(state)
      [] OTHER -> <<>>

\* LoadMsg to the active view, whose accounts form is f; an import form is left
\* as it is.
loadView(view, state, f, outstanding) ==
    /\ screen' = Loading(state.selected)
    /\ form' = IF view = "accounts" THEN AccountsReload(f) ELSE f
    /\ RunOn(IF view = "positions" THEN MarkLate(outstanding) ELSE outstanding,
             LoadCommands(view, state))

\* Keys 1 to 6, tab and shift+tab.
switchView ==
    /\ Running /\ ~activeViewCapturingInput
    /\ \E view \in View : activeView' = view /\ loadView(view, State, form, net)
    /\ UNCHANGED <<phase, selected, accounts, filter, import, db>>

PlaceOf(id) == {k \in DOMAIN accounts : accounts[k].id = id}

\* "]": the first account after All, then round; All when the account is gone.
nextAccount ==
    IF accounts = <<>> THEN selected
    ELSE IF selected = All THEN accounts[1].id
    ELSE IF PlaceOf(selected) = {} THEN All
    ELSE accounts[(Min(PlaceOf(selected)) % Len(accounts)) + 1].id

\* "[".
prevAccount ==
    IF accounts = <<>> THEN selected
    ELSE IF selected = All THEN Last(accounts).id
    ELSE IF PlaceOf(selected) = {} THEN All
    ELSE accounts[((Min(PlaceOf(selected)) - 2 + Len(accounts)) % Len(accounts)) + 1].id

\* The active view is reloaded for the account now selected.
\* Mutated form: the view keeps what it has.
ChangeAccountOnly ==
    /\ Running /\ ~activeViewCapturingInput
    /\ selected' \in {nextAccount, prevAccount}
    /\ RunNone
    /\ UNCHANGED <<phase, activeView, accounts, screen, filter, form, import, db>>
ChangeAccount ==
    /\ Running /\ ~activeViewCapturingInput
    /\ \E account \in {nextAccount, prevAccount} :
          /\ selected' = account
          /\ loadView(activeView, [State EXCEPT !.selected = account], form, net)
    /\ UNCHANGED <<phase, activeView, accounts, filter, import, db>>

\* The size of a table is layout, but a resized accounts table loses its cursor.
WindowSize ==
    /\ Running
    /\ form' = AccountsResize
    /\ RunNone
    /\ UNCHANGED <<phase, activeView, selected, accounts, screen, filter, import, db>>

\* The process ends and its memory with it; commands in flight are abandoned.
Ended(how) ==
    /\ phase' = how
    /\ activeView' = "accounts" /\ selected' = All /\ accounts' = <<>>
    /\ screen' = Loading(All) /\ filter' = NoFilter
    /\ form' = NewAccountsView /\ import' = NewImportView
    /\ net' = [n \in {} |-> None]
    /\ UNCHANGED <<issued, db>>

\* "q" when no form captures it, ctrl+c always.
Quit == Running /\ Ended("quit")

\* An input of a view that has not been created panics when focused: "n" in the
\* accounts view, "/" in the trades view.
ZeroViewPanic ==
    /\ Running /\ ZeroViews
    /\ activeView \in {"accounts", "trades"}
    /\ Ended("crashed")

-----------------------------------------------------------------------------
(* The server, and the commands' use of it.                                 *)

Answer(n, answer) == net' = [net EXCEPT ![n].answer = answer] /\ UNCHANGED issued

NewAccount(id, in) ==
    [id |-> id, broker |-> in.broker, number |-> in.number, name |-> in.name]

\* A command reads or writes the accounts table; its call may fail before or
\* after the server has done its work.
ServeAccounts(n) ==
    LET cmd == net[n]
        fresh == IF Len(db) < Len(AccountIds) THEN AccountIds[Len(db) + 1] ELSE None
        result == CASE cmd.kind = "create" -> CreateAccount(db, NewAccount(fresh, cmd.arg))
                    [] cmd.kind = "rename" -> UpdateAccount(db, cmd.arg.id, cmd.arg.name)
                    [] OTHER -> [db |-> db, answer |-> ListAccounts(db)]
    IN /\ cmd.kind \in {"init", "fresh", "create", "rename"} /\ cmd.answer = None
       /\ Len(result.db) <= Len(AccountIds)   \* bound
       /\ \/ db' = result.db /\ Answer(n, result.answer)
          \/ db' \in {db, result.db} /\ Answer(n, Error("Unavailable"))
       /\ UNCHANGED <<phase, activeView, selected, accounts, screen, filter, form, import>>

-----------------------------------------------------------------------------
(* Answers.                                                                 *)

\* accountsLoadedMsg of the root: the views are created and the active one is
\* loaded, or the program keeps showing the error.
Initialized(n) ==
    LET ans == net[n].answer
    IN /\ net[n].kind = "init" /\ ans # None
       /\ IF ans.ok
          THEN /\ phase' = "ready"
               /\ accounts' = ans.value
               /\ import' = NewImportView
               /\ loadView(activeView, [State EXCEPT !.accounts = ans.value], NewAccountsView, Without(n))
          ELSE /\ phase' = "failed"
               /\ net' = Without(n)
               /\ UNCHANGED <<accounts, import, screen, form, issued>>
       /\ UNCHANGED <<activeView, selected, filter, db>>

\* What a list view reads does not change, so its read and its answer are one
\* step.  failing are the accounts whose calls fail.
ListLoaded(n) ==
    LET cmd == net[n]
        fits == cmd.kind = activeView
    IN /\ cmd.kind \in {"positions", "history", "trades", "analytics"}
       /\ \E failing \in SUBSET ToSet(cmd.ids) :
             screen' = IF ~fits THEN screen
                       ELSE CASE cmd.kind = "positions" -> PositionsLoaded(PositionsAnswer(cmd.ids, failing))
                              [] cmd.kind = "history" -> HistoryLoaded(HistoryAnswer(cmd.ids, failing))
                              [] cmd.kind = "trades" -> TradesLoaded(TradesAnswer(cmd.ids, cmd.arg, failing))
                              [] OTHER -> AnalyticsLoaded(AnalyticsAnswer(cmd.ids, failing))
       /\ net' = IF fits /\ cmd.kind = "positions" THEN MarkLate(Without(n)) ELSE Without(n)
       /\ UNCHANGED <<phase, activeView, selected, accounts, filter, form, import, issued, db>>

DetailLoaded(n) ==
    /\ net[n].kind = "detail"
    /\ \E reached \in BOOLEAN :
          screen' = IF activeView = "positions" THEN ChainDetailLoaded(net[n], reached) ELSE screen
    /\ net' = Without(n)
    /\ UNCHANGED <<phase, activeView, selected, accounts, filter, form, import, issued, db>>

AccountsLoaded(n) ==
    /\ net[n].kind = "accounts"
    /\ form' = IF activeView = "accounts" THEN Rebuilt(net[n].arg) ELSE form
    /\ net' = Without(n)
    /\ UNCHANGED <<phase, activeView, selected, accounts, screen, filter, import, issued, db>>

\* AccountsChangedMsg: the root takes the list, the accounts view its rows; a
\* failed list leaves the root's accounts and empties the table.
AccountsChanged(n) ==
    LET ans == net[n].answer
    IN /\ net[n].kind = "fresh" /\ ans # None
       /\ accounts' = IF ans.ok THEN ans.value ELSE accounts
       /\ form' = IF activeView # "accounts" THEN form
                  ELSE Rebuilt(IF ans.ok THEN ans.value ELSE <<>>)
       /\ net' = Without(n)
       /\ UNCHANGED <<phase, activeView, selected, screen, filter, import, issued, db>>

Mutated(n) ==
    /\ net[n].kind \in {"create", "rename"} /\ net[n].answer # None
    /\ IF activeView = "accounts" THEN AccountMutated(n, net[n].answer)
       ELSE net' = Without(n) /\ UNCHANGED <<form, issued>>
    /\ UNCHANGED <<phase, activeView, selected, accounts, screen, filter, import, db>>

\* The file may be unreadable, the server may refuse it and the stream may break.
ImportAnswered(n) ==
    LET cmd == net[n]
    IN /\ cmd.kind = "import"
       /\ \E ans \in {ImportTransactions(cmd.ids[1], cmd.arg), Error("file"), Error("stream")} :
             import' = IF activeView = "import" THEN ImportDone(ans) ELSE import
       /\ net' = Without(n)
       /\ UNCHANGED <<phase, activeView, selected, accounts, screen, filter, form, issued, db>>

CommandStep(n) ==
    /\ Running
    /\ \/ ServeAccounts(n) \/ Initialized(n) \/ ListLoaded(n) \/ DetailLoaded(n)
       \/ AccountsLoaded(n) \/ AccountsChanged(n) \/ Mutated(n) \/ ImportAnswered(n)

-----------------------------------------------------------------------------
\* The account list is asked for at start, as command 0.
Init ==
    /\ phase = "connecting"
    /\ activeView = "accounts"
    /\ selected = All
    /\ accounts = <<>>
    /\ screen = Loading(All)
    /\ filter = NoFilter
    /\ form = [NewAccountsView EXCEPT !.loading = FALSE]
    /\ import = NewImportView
    /\ net = [n \in {0} |-> Command("init", <<>>, None)]
    /\ issued = 0
    /\ db = InitialAccounts

Key == Running /\ (PositionsKey \/ TradesKey \/ AccountsKey \/ ImportKey)

Next ==
    \/ switchView \/ ChangeAccount \/ WindowSize \/ Key \/ Quit \/ ZeroViewPanic
    \/ \E n \in DOMAIN net : CommandStep(n)

Spec == Init /\ [][Next]_vars

\* Calls end, if only with an error, and their goroutines are scheduled: while
\* commands are out, one of them makes a step.
Fairness == WF_vars(\E n \in DOMAIN net : CommandStep(n))

FairSpec == Spec /\ Fairness

-----------------------------------------------------------------------------
(* Properties.                                                              *)

TypeOK ==
    /\ phase \in {"connecting", "ready", "failed", "quit", "crashed"}
    /\ activeView \in View
    /\ selected \in {All} \cup ToSet(AccountIds)
    /\ ToSet(accounts) \subseteq Account /\ ToSet(db) \subseteq Account
    /\ screen.loading \in BOOLEAN /\ screen.err \in BOOLEAN
    /\ screen.for \in {All} \cup ToSet(AccountIds)
    /\ screen.expanded \subseteq DOMAIN screen.shown
    /\ filter \in [symbol: Symbols, open: BOOLEAN]
    /\ form.step \in {"idle", "createBroker", "createNumber", "createName", "createConfirm",
                      "rename", "mutating", "error"}
    /\ ToSet(form.rows) \subseteq Account
    /\ form.cursor = 0 \/ form.cursor + 1 \in DOMAIN form.rows
    /\ import.step \in {"idle", "filePicker", "confirm", "running", "done"}
    /\ issued \in 0..MaxCommands
    /\ DOMAIN net \subseteq 0..issued

\* A form that shows "Saving..." or "Importing..." has exactly one command whose
\* answer will be delivered to it, and no other command of its kind is out: an
\* answer goes to the active view only, so while it is out nothing may leave the
\* view or start a second one.
FormsAwaitTheirAnswer ==
    Running =>
    /\ Cardinality(Outstanding({"import"})) = (IF import.step = "running" THEN 1 ELSE 0)
    /\ Cardinality(Outstanding({"create", "rename"})) = (IF form.step = "mutating" THEN 1 ELSE 0)
    /\ import.step = "running" => activeView = "import"
    /\ form.step = "mutating" => activeView = "accounts"

\* The last load of the active list view was asked for the account in the
\* header, whichever keys moved the selection, the view or the filter.  What is
\* shown is the answer that came last, whichever account it was asked for
\* (positions.go:61).
LoadedForSelection ==
    activeView \in {"positions", "history", "trades", "analytics"} => screen.for = selected

\* A chain detail stands below the position it belongs to, unless it was asked
\* for before the positions shown were (details are filed under an index).
DetailFitsUnlessLate ==
    activeView = "positions" =>
    \A idx \in DOMAIN screen.chains :
        ~screen.chains[idx].late =>
            /\ idx \in DOMAIN screen.shown
            /\ screen.chains[idx].detail.id = screen.shown[idx].chain

\* Every position is found at its own row of the table, whatever is expanded or
\* loading above it, unless a late detail was filed under a stock position.
RowsMatchCursor ==
    activeView = "positions" /\ (\A idx \in DOMAIN screen.shown \cap DOMAIN screen.chains : Expandable(idx)) =>
    LET table == buildPositionsTable
    IN \A idx \in DOMAIN screen.shown : table[visualRowOf(idx) + 1] = idx

\* An account is renamed only if it was the one the rename was started on, as
\* long as no load or resize rebuilt the table in between.
RenameHitsPicked ==
    \A n \in Outstanding({"rename"}) : net[n].arg.picked \in {None, net[n].arg.id}

\* The active view does not stay at "Loading...": every switch, change of account
\* or filter asks for an answer that will be delivered while the view is active.
ActiveLoading ==
    IF activeView = "accounts" THEN form.loading ELSE activeView # "import" /\ screen.loading
LoadingEnds == (phase = "ready" /\ ActiveLoading) ~> (~Running \/ ~ActiveLoading)

\* "Saving..." and "Importing..." end.
FormsReturn ==
    /\ import.step = "running" ~> (~Running \/ import.step = "done")
    /\ form.step = "mutating" ~> (~Running \/ form.step \in {"idle", "error"})

\* The "user reviews account + file + broker before running" (views/import.go:32):
\* what is uploaded goes to the account that was reviewed.
UploadOfReviewedAccount ==
    \A n \in Outstanding({"import"}) : net[n].ids = <<import.account>>

=============================================================================
