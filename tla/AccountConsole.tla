--------------------------- MODULE AccountConsole ---------------------------
(***************************************************************************)
(* The pages of the web console that list accounts: those of the users and   *)
(* those of the administrators are built alike.  An editor dialog, a delete  *)
(* dialog, for users a dialog with the subscription link, and a list that is *)
(* read one page at a time.  Requests overlap, their answers come in any     *)
(* order.  (NodeConsole says what a handler is.)                             *)
(***************************************************************************)
EXTENDS Naturals, FiniteSets

CONSTANTS
    OldAccounts, NewAccounts,   \* ids at the start, bound: ids for creations
    Pages,                      \* bound: pages of the list
    Slots,                      \* bound: handlers that wait at the same time
    MaxFailures,                \* bound: requests that fail
    None

\* What the constants are.
AccountAssumption ==
    /\ OldAccounts \cap NewAccounts = {} /\ None \notin OldAccounts \cup NewAccounts
    /\ Pages \subseteq Nat /\ 1 \in Pages /\ IsFiniteSet(Slots) /\ MaxFailures \in Nat

Accounts == OldAccounts \cup NewAccounts

VARIABLES
    kind,           \* "users" or "admins": the page the operator is on
    accounts,       \* panel: the accounts there are
    shown,          \* the rows, as far as accounts were there when they were read
    rowsPage,       \* the page they are of
    page,           \* userPage, adminPage: the page that is indicated
    loadError,      \* listLoadErrors
    loads,          \* pages that are being read for a paging button or the filter
    filterTimer,    \* userFilterTimer is running
    editing,        \* editingUserId, editingAdminId
    formOf,         \* whose data the form was filled with
    modal,          \* showUserModal, showAdminModal
    pendingDelete,  \* the account of the delete dialog
    subscription,   \* the dialog with the link: for whom, and whose link
    busy,           \* busyAction
    running,        \* handlers that wait: [Slots -> handler]
    failures

rows == <<shown, rowsPage, page, loadError>>
editor == <<editing, formOf, modal>>
vars == <<kind, accounts, rows, loads, filterTimer, editor, pendingDelete, subscription, busy,
          running, failures>>

Keys == {"save", "create", "delete", "subscription", "refresh"}
Idle == [key |-> "", at |-> "idle", id |-> None, of |-> None, page |-> 1]
NoLink == [for |-> None, link |-> None]

TypeOK ==
    /\ kind \in {"users", "admins"} /\ accounts \subseteq Accounts /\ shown \subseteq Accounts
    /\ rowsPage \in Pages /\ page \in Pages /\ loads \subseteq Pages
    /\ {loadError, filterTimer, modal} \subseteq BOOLEAN
    /\ {editing, formOf, pendingDelete, subscription.for, subscription.link}
          \subseteq Accounts \cup {None}
    /\ busy \in Keys \cup {""}
    /\ running \in [Slots -> {Idle} \cup
          [key : Keys, at : {"request", "list"}, id : Accounts \cup {None},
           of : Accounts \cup {None}, page : Pages]]
    /\ failures \in 0..MaxFailures

Init ==
    /\ kind \in {"users", "admins"} /\ accounts = OldAccounts /\ shown = OldAccounts
    /\ rowsPage = 1 /\ page = 1 /\ loadError = FALSE /\ loads = {} /\ filterTimer = FALSE
    /\ editing = None /\ formOf = None /\ modal = FALSE
    /\ pendingDelete = None /\ subscription = NoLink
    /\ busy = "" /\ running = [s \in Slots |-> Idle] /\ failures = 0

Fault == failures < MaxFailures /\ failures' = failures + 1
\* A dialog covers the page.
Reachable == ~modal /\ pendingDelete = None /\ subscription = NoLink

-----------------------------------------------------------------------------
(* The list.                                                               *)

Loaded_rowsOnly(p) == shown' = accounts /\ rowsPage' = p /\ UNCHANGED <<page, loadError>>
Loaded(p) ==
    shown' = accounts /\ rowsPage' = p /\ page' = p /\ UNCHANGED loadError

\* setUserPage, setAdminPage: the page is indicated before it is there (bound: a page is
\* read once at a time).
setPage(p) ==
    /\ Reachable /\ p # page /\ p \notin loads
    /\ page' = p /\ loadError' = FALSE /\ loads' = loads \cup {p}
    /\ UNCHANGED <<kind, accounts, shown, rowsPage, filterTimer, editor, pendingDelete,
                   subscription, busy, running, failures>>

handleUserFilterInput ==
    /\ Reachable /\ kind = "users" /\ filterTimer' = TRUE
    /\ UNCHANGED <<kind, accounts, rows, loads, editor, pendingDelete, subscription, busy,
                   running, failures>>

\* 280 ms after the last keystroke; the page of the list may be changing just then (a
\* second read of the first page and the one under way count as one).
FilterFires ==
    /\ filterTimer /\ filterTimer' = FALSE
    /\ page' = 1 /\ loadError' = FALSE /\ loads' = loads \cup {1}
    /\ UNCHANGED <<kind, accounts, shown, rowsPage, editor, pendingDelete, subscription, busy,
                   running, failures>>

\* loadUsers, loadAdmins for one of these
PageRead(p) ==
    /\ p \in loads /\ loads' = loads \ {p} /\ Loaded(p)
    /\ UNCHANGED <<kind, accounts, filterTimer, editor, pendingDelete, subscription, busy,
                   running, failures>>

PageNotRead(p) ==
    /\ p \in loads /\ loads' = loads \ {p} /\ loadError' = TRUE /\ Fault
    /\ UNCHANGED <<kind, accounts, shown, rowsPage, page, filterTimer, editor, pendingDelete,
                   subscription, busy, running>>

-----------------------------------------------------------------------------
(* The dialogs.                                                            *)

EditorReset_idOnly == editing' = None /\ UNCHANGED formOf
EditorReset == editing' = None /\ formOf' = None

openCreateModal ==
    /\ Reachable /\ busy = "" /\ EditorReset /\ modal' = TRUE
    /\ UNCHANGED <<kind, accounts, rows, loads, filterTimer, pendingDelete, subscription, busy,
                   running, failures>>

\* handleEditLogicalUser, handleEditAdmin
handleEdit(a) ==
    /\ Reachable /\ a \in shown
    /\ editing' = a /\ formOf' = a /\ modal' = TRUE
    /\ UNCHANGED <<kind, accounts, rows, loads, filterTimer, pendingDelete, subscription, busy,
                   running, failures>>

\* The button that empties the form makes a creation of an edit.
resetUserEditor ==
    /\ modal /\ kind = "users" /\ busy \notin {"save", "create"} /\ EditorReset
    /\ UNCHANGED <<kind, accounts, rows, loads, filterTimer, modal, pendingDelete, subscription,
                   busy, running, failures>>

closeModal ==
    /\ modal /\ busy \notin {"save", "create"} /\ modal' = FALSE
    /\ UNCHANGED <<kind, accounts, rows, loads, filterTimer, editing, formOf, pendingDelete,
                   subscription, busy, running, failures>>

handleDelete(a) ==
    /\ Reachable /\ a \in shown /\ pendingDelete' = a
    /\ UNCHANGED <<kind, accounts, rows, loads, filterTimer, editor, subscription, busy, running,
                   failures>>

closeDeleteModal ==
    /\ pendingDelete # None /\ busy # "delete" /\ pendingDelete' = None
    /\ UNCHANGED <<kind, accounts, rows, loads, filterTimer, editor, subscription, busy, running,
                   failures>>

closeSubscriptionModal ==
    /\ subscription # NoLink /\ subscription' = NoLink
    /\ UNCHANGED <<kind, accounts, rows, loads, filterTimer, editor, pendingDelete, busy, running,
                   failures>>

-----------------------------------------------------------------------------
(* Handlers that wait.                                                     *)

Starts(s, key, id, of) ==
    /\ running[s] = Idle /\ busy' = key
    /\ running' = [running EXCEPT ![s] = [key |-> key, at |-> "request", id |-> id, of |-> of,
                                          page |-> 1]]
    /\ UNCHANGED <<kind, accounts, rows, loads, filterTimer, editor, pendingDelete, subscription,
                   failures>>

\* handleSubmitUser, handleSubmitAdmin
handleSubmit(s) ==
    /\ modal /\ busy \notin {"save", "create"}
    /\ Starts(s, IF editing = None THEN "create" ELSE "save", editing, formOf)

confirmDelete(s) ==
    /\ pendingDelete # None /\ busy # "delete"
    /\ Starts(s, "delete", pendingDelete, None)

openSubscriptionModal(s, a) ==
    /\ Reachable /\ kind = "users" /\ busy # "subscription" /\ a \in shown
    /\ Starts(s, "subscription", a, None)

handleRefreshLogicalUserSubscription(s, a) ==
    /\ Reachable /\ kind = "users" /\ busy = "" /\ a \in shown
    /\ Starts(s, "refresh", a, None)

Waits(s, keys, at) == running[s].key \in keys /\ running[s].at = at
Finish(s) == running' = [running EXCEPT ![s] = Idle]

\* withBusyAction is over; then the list is read again, at the page indicated now.
Changed(s) ==
    /\ Waits(s, {"save", "create", "delete"}, "request")
    /\ LET h == running[s] IN
       \/ h.key = "create" /\ \E a \in NewAccounts \ accounts : accounts' = accounts \cup {a}
       \/ h.key = "save" /\ h.id \in accounts /\ UNCHANGED accounts
       \/ h.key = "delete" /\ h.id \in accounts /\ accounts' = accounts \ {h.id}
    /\ busy' = "" /\ loadError' = FALSE
    /\ running' = [running EXCEPT ![s].at = "list", ![s].page = page]
    /\ UNCHANGED <<kind, shown, rowsPage, page, loads, filterTimer, editor, pendingDelete,
                   subscription, failures>>

\* What follows the list: the editor is emptied and closed, or the delete dialog is.
\* The administrators' editor is left alone after a delete.
Listed(s) ==
    /\ Waits(s, {"save", "create", "delete"}, "list") /\ Loaded(running[s].page) /\ Finish(s)
    /\ IF running[s].key # "delete"
       THEN EditorReset /\ modal' = FALSE /\ UNCHANGED pendingDelete
       ELSE /\ pendingDelete' = IF busy = "delete" THEN pendingDelete ELSE None
            /\ IF kind = "users" /\ editing = running[s].id
               THEN EditorReset ELSE UNCHANGED <<editing, formOf>>
            /\ UNCHANGED modal
    /\ UNCHANGED <<kind, accounts, loads, filterTimer, subscription, busy, failures>>

LinkRead(s) ==
    /\ Waits(s, {"subscription"}, "request") /\ Finish(s) /\ busy' = ""
    /\ subscription' = [for |-> running[s].id, link |-> running[s].id]
    /\ UNCHANGED <<kind, accounts, rows, loads, filterTimer, editor, pendingDelete, failures>>

\* A link that was made anew replaces the one that is shown only if it is of the same user.
LinkAfterRefresh_any(a) == IF subscription = NoLink THEN NoLink ELSE [subscription EXCEPT !.link = a]
LinkAfterRefresh(a) ==
    IF subscription.for = a THEN [subscription EXCEPT !.link = a] ELSE subscription

LinkRefreshed(s) ==
    /\ Waits(s, {"refresh"}, "request") /\ Finish(s) /\ busy' = ""
    /\ subscription' = LinkAfterRefresh(running[s].id)
    /\ UNCHANGED <<kind, accounts, rows, loads, filterTimer, editor, pendingDelete, failures>>

\* A request fails, or the panel refuses it; what would follow is skipped.
RequestFails(s) ==
    /\ running[s] # Idle /\ Finish(s)
    /\ IF running[s].at = "request"
       THEN busy' = "" /\ UNCHANGED loadError ELSE loadError' = TRUE /\ UNCHANGED busy
    /\ IF running[s].at = "request" /\ running[s].id \notin accounts
       THEN UNCHANGED failures ELSE Fault
    /\ UNCHANGED <<kind, accounts, shown, rowsPage, page, loads, filterTimer, editor,
                   pendingDelete, subscription>>

-----------------------------------------------------------------------------
Next ==
    \/ \E p \in Pages : setPage(p) \/ PageRead(p) \/ PageNotRead(p)
    \/ handleUserFilterInput \/ FilterFires
    \/ openCreateModal \/ resetUserEditor \/ closeModal \/ closeDeleteModal \/ closeSubscriptionModal
    \/ \E a \in Accounts : handleEdit(a) \/ handleDelete(a)
    \/ \E s \in Slots :
          \/ handleSubmit(s) \/ confirmDelete(s)
          \/ Changed(s) \/ Listed(s) \/ LinkRead(s) \/ LinkRefreshed(s) \/ RequestFails(s)
          \/ \E a \in Accounts :
                openSubscriptionModal(s, a) \/ handleRefreshLogicalUserSubscription(s, a)

Spec == Init /\ [][Next]_vars

-----------------------------------------------------------------------------
(* Properties.                                                             *)

Reading == loads # {} \/ \E s \in Slots : running[s].at = "list"

\* When nothing is being read and no error is shown, the page that is indicated is the
\* page of the rows, in whatever order the answers of fast clicks came.
LabelMatchesRows == ~Reading /\ ~loadError => page = rowsPage

\* A request that changes an account carries a form that was filled from it; one that
\* creates an account was not filled from another.
SaveIsOwn ==
    \A s \in Slots : Waits(s, {"save", "create"}, "request") => running[s].of = running[s].id

\* The dialog of a subscription never shows the link of another user, although links
\* are made anew while it opens.
SubscriptionIsOwn == subscription.for = subscription.link

=============================================================================
