----------------------------- MODULE FormViews -----------------------------
(***************************************************************************)
(* AccountsView with its create and rename forms, and ImportView.           *)
(***************************************************************************)
EXTENDS TuiState

-----------------------------------------------------------------------------
(* AccountsView: form = [step, loading, rows, cursor, input, picked].        *)
(* rows and cursor are the table; picked is history: the account whose       *)
(* rename was started, or None once the table was rebuilt underneath it.     *)

NewAccountsView ==
    [step |-> "idle", loading |-> TRUE, rows |-> <<>>, cursor |-> 0,
     input |-> None, picked |-> None]

\* InputActive: the root's hotkeys are off.
\* Mutated form: a running mutation does not capture the keyboard.
AccountsInputActiveTyping == form.step \notin {"idle", "mutating"}
AccountsInputActive == form.step # "idle"

selectedAccount == {form.rows[k] : k \in DOMAIN form.rows \cap {form.cursor + 1}}

\* A rebuilt table has its cursor on the first row.
\* Mutated form: the cursor stays where it was.
RebuiltUnderCursor(rows) == [form EXCEPT !.loading = FALSE, !.rows = rows, !.picked = None]
Rebuilt(rows) == [form EXCEPT !.loading = FALSE, !.rows = rows, !.cursor = 0, !.picked = None]

AccountsResize ==
    IF form.rows = <<>> THEN form ELSE [form EXCEPT !.cursor = 0, !.picked = None]

AccountsLoad(state) == <<Command("accounts", <<>>, state.accounts)>>
AccountsReload(f) == [f EXCEPT !.loading = TRUE, !.step = "idle", !.picked = None]

\* A mutation that succeeded is followed by a fresh account list.
AccountMutated(n, ans) ==
    IF ans.ok
    THEN /\ form' = [form EXCEPT !.step = "idle", !.loading = TRUE, !.picked = None]
         /\ FollowUp(n, Command("fresh", <<>>, None))
    ELSE /\ form' = [form EXCEPT !.step = "error", !.picked = None]
         /\ net' = Without(n) /\ UNCHANGED issued

Goto(step) == form' = [form EXCEPT !.step = step] /\ RunNone

IdleKey ==
    /\ form.step = "idle"
    /\ \/ Goto("createBroker")
       \/ \E a \in selectedAccount :
             form' = [form EXCEPT !.step = "rename", !.picked = a.id] /\ RunNone
       \/ \E k \in DOMAIN form.rows :
             form' = [form EXCEPT !.cursor = k - 1] /\ RunNone

\* Broker, number and name are typed on the way to the confirmation; an empty
\* broker or number is not taken.
CreateKey ==
    \/ /\ form.step = "createBroker"
       /\ Goto("idle") \/ Goto("createNumber")
    \/ /\ form.step = "createNumber"
       /\ Goto("createBroker") \/ Goto("createName")
    \/ /\ form.step = "createName"
       /\ \/ Goto("createNumber")
          \/ \E in \in Inputs : /\ in.broker # "" /\ in.number # ""
                                /\ form' = [form EXCEPT !.step = "createConfirm", !.input = in]
                                /\ RunNone

\* runCreate.
ConfirmKey ==
    /\ form.step = "createConfirm"
    /\ \/ Goto("createName")
       \/ Goto("idle")
       \/ /\ form' = [form EXCEPT !.step = "mutating"]
          /\ Run(<<Command("create", <<>>, form.input)>>)

\* Mutated form: the account in the header is renamed.
RenameKeyOfHeader ==
    /\ form.step = "rename" /\ selected # All
    /\ form' = [form EXCEPT !.step = "mutating"]
    /\ \E name \in Names :
          Run(<<Command("rename", <<>>, [id |-> selected, name |-> name, picked |-> form.picked])>>)
\* The account is the one under the cursor when Enter is pressed (runRename).
RenameKey ==
    /\ form.step = "rename"
    /\ \/ form' = [form EXCEPT !.step = "idle", !.picked = None] /\ RunNone
       \/ /\ selectedAccount = {}
          /\ form' = [form EXCEPT !.step = "idle", !.picked = None] /\ RunNone
       \/ \E a \in selectedAccount, name \in Names :
             /\ form' = [form EXCEPT !.step = "mutating"]
             /\ Run(<<Command("rename", <<>>, [id |-> a.id, name |-> name, picked |-> form.picked])>>)

ErrorKey == form.step = "error" /\ Goto("idle")

AccountsKey ==
    /\ activeView = "accounts" /\ ~ZeroViews
    /\ IdleKey \/ CreateKey \/ ConfirmKey \/ RenameKey \/ ErrorKey
    /\ UNCHANGED <<phase, activeView, selected, accounts, screen, filter, import, db>>

-----------------------------------------------------------------------------
(* ImportView: import = [step, account, broker, blocked, result].  account   *)
(* and broker are those of the selection when the file was picked.           *)

NewImportView ==
    [step |-> "idle", account |-> None, broker |-> None, blocked |-> FALSE, result |-> None]

\* Mutated form: a running import does not capture the keyboard.
ImportInputActivePicking == import.step = "filePicker"
ImportInputActive == import.step \in {"filePicker", "running"}

ImportDone(ans) == [import EXCEPT !.step = "done", !.result = ans.ok]

brokerEnum(broker) == IF broker \in {"tastytrade", "schwab"} THEN broker ELSE "BROKER_UNSPECIFIED"

StartImport ==
    /\ import.step = "idle"
    /\ import' = IF selected = All THEN [import EXCEPT !.blocked = TRUE]
                 ELSE [import EXCEPT !.blocked = FALSE, !.step = "filePicker"]
    /\ RunNone

PickFile ==
    /\ import.step = "filePicker"
    /\ \/ import' = [import EXCEPT !.step = "idle"]
       \/ \E a \in SelectedAccount(State) :
             import' = [import EXCEPT !.step = "confirm", !.account = selected, !.broker = a.broker]
       \/ /\ SelectedAccount(State) = {}
          /\ import' = [import EXCEPT !.step = "confirm", !.account = selected, !.broker = ""]
    /\ RunNone

\* runImport: the account is read from the selection again.
ConfirmImport ==
    /\ import.step = "confirm"
    /\ \/ import' = [import EXCEPT !.step = "filePicker"] /\ RunNone
       \/ import' = [import EXCEPT !.step = "idle"] /\ RunNone
       \/ /\ import' = [import EXCEPT !.step = "running"]
          /\ Run(<<Command("import", <<selected>>, brokerEnum(import.broker))>>)

DismissResult ==
    /\ import.step = "done"
    /\ import' = [import EXCEPT !.step = "idle", !.result = None]
    /\ RunNone

ImportKey ==
    /\ activeView = "import"
    /\ StartImport \/ PickFile \/ ConfirmImport \/ DismissResult
    /\ UNCHANGED <<phase, activeView, selected, accounts, screen, filter, form, db>>

=============================================================================
