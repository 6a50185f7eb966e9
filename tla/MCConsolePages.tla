--------------------------- MODULE MCConsolePages ---------------------------
(***************************************************************************)
(* The pages of the console whose handlers overlap: nodes, accounts, the      *)
(* sections with the logs, the sign-in, and the data of the mock mode.        *)
(* They share no state, so a run checks them side by side: page says which   *)
(* of them a behaviour is of, and the others stay as they were at the start.  *)
(* Nodes and accounts are instances of the modules with their proofs, whose   *)
(* theorems can be cited of the composition.                                *)
(***************************************************************************)
EXTENDS Integers, TLC

CONSTANTS
    OldNodes, NewNodes, OldAccounts, NewAccounts, Pages, Slots, MaxEvents,
    MaxFailures,
    Roles, Sections, LogNodes, Agents, Administrators,
    MaxNodes, MaxUsers, Entered, Default, NotANumber, None

VARIABLES
    page,
    byUpdate, identity, unused, raced, list, form, editing, modal, locked, pending, busy, running,
    reveal, failures,
    kind, accounts, shown, rowsPage, listPage, loadError, loads, filterTimer, edited, formOf,
    dialog, pendingDelete, subscription, action, requests, lost,
    role, leaving, section, usersTimer, auditTimer, mode, logNode, source, text, loaded,
    logsBusy, waiting,
    installed, cookie, stored, expired, session, requiresSetup, boot, me, signIn, signOut,
    mockPanelConfig, defaultMockNodeId, month

Nodes == INSTANCE NodeConsoleProofs
Lists == INSTANCE AccountConsoleProofs WITH page <- listPage, editing <- edited, modal <- dialog,
                busy <- action, running <- requests, failures <- lost
Logs == INSTANCE ConsoleSections WITH session <- role, busy <- logsBusy
Auth == INSTANCE ConsoleAuth WITH Accounts <- Administrators
Mock == INSTANCE MockPanel

ASSUME PagesAssumption ==
    /\ Nodes!ConsoleAssumption /\ Lists!AccountAssumption /\ Logs!SectionsAssumption
    /\ Auth!AuthAssumption /\ Mock!MockAssumption

nodesVars == <<byUpdate, identity, unused, raced, list, form, editing, modal, locked, pending, busy,
               running, reveal, failures>>
accountsVars == <<kind, accounts, shown, rowsPage, listPage, loadError, loads, filterTimer, edited,
                  formOf, dialog, pendingDelete, subscription, action, requests, lost>>
logsVars == <<role, leaving, section, usersTimer, auditTimer, mode, logNode, source, text, loaded,
              logsBusy, waiting>>
authVars == <<installed, cookie, stored, expired, session, requiresSetup, boot, me, signIn,
              signOut>>
mockVars == <<mockPanelConfig, defaultMockNodeId, month>>
vars == <<page, nodesVars, accountsVars, logsVars, authVars, mockVars>>

\* Only the page a behaviour is of starts in all its ways.
Init ==
    /\ page \in {"nodes", "accounts", "logs", "auth", "mock"}
    /\ Nodes!Init /\ Lists!Init /\ Logs!Init /\ Auth!Init /\ Mock!Init
    /\ page # "accounts" => kind = "users"
    /\ page # "auth" => installed /\ cookie = None /\ stored = None /\ ~expired

Next ==
    \/ page = "nodes" /\ Nodes!Next
       /\ UNCHANGED <<page, accountsVars, logsVars, authVars, mockVars>>
    \/ page = "accounts" /\ Lists!Next
       /\ UNCHANGED <<page, nodesVars, logsVars, authVars, mockVars>>
    \/ page = "logs" /\ Logs!Next
       /\ UNCHANGED <<page, nodesVars, accountsVars, authVars, mockVars>>
    \/ page = "auth" /\ Auth!Next
       /\ UNCHANGED <<page, nodesVars, accountsVars, logsVars, mockVars>>
    \/ page = "mock" /\ Mock!Next
       /\ UNCHANGED <<page, nodesVars, accountsVars, logsVars, authVars>>

Spec == Init /\ [][Next]_vars

\* Which slot a handler waits in does not matter.
SlotSymmetry == Permutations(Slots)

OneNode == <<1>>
SomeNumbers == {-1, 0, 2, 9}
\* Four nodes, of which two run.
SmallDefault ==
    [node_count |-> 4, user_count |-> 5, running_node_count |-> 2, degraded_node_count |-> 1,
     stopped_node_count |-> 1, suspended_user_count |-> 1]

-----------------------------------------------------------------------------
\* Every variable of the page has its type.
TypeOK ==
    CASE page = "nodes" -> Nodes!TypeOK
      [] page = "accounts" -> Lists!TypeOK
      [] page = "logs" -> Logs!TypeOK
      [] page = "auth" -> Auth!TypeOK
      [] page = "mock" -> Mock!TypeOK

\* No two live nodes hold the same address: not so, as two saves that overlap show.
IdentityUnique == Nodes!IdentityUnique

\* Only two saves of one address that overlap between check and write share it.
OnlyRacesShareAddresses == Nodes!OnlyRacesShareAddresses

\* Buttons are disabled only as long as the handler that enables them is under way.
BusyIsOwned == Nodes!BusyIsOwned

\* A form never shows a secret of another node than the one it edits.
SecretStays == Nodes!SecretStays

\* With nothing being read, the indicated page is that of the rows.
LabelMatchesRows == Lists!LabelMatchesRows

\* An account is saved with a form that was filled from it.
SaveIsOwn == Lists!SaveIsOwn

\* The dialog of a subscription shows the link of its own user.
SubscriptionIsOwn == Lists!SubscriptionIsOwn

\* Logs are fetched by themselves in the automatic mode only.
AutoOnlyInAuto == Logs!AutoOnlyInAuto

\* Logs that count as loaded are of the selected source.
LogsMatchSource == Logs!LogsMatchSource

\* Whoever sees the form to sign in left no session in the storage.
SignedOutIsForgotten == Auth!SignedOutIsForgotten

\* The counts of a mock configuration fit together, whatever was entered.
MockCountsFit == Mock!MockCountsFit

\* Pages and groups of the mock users show each record once, and nobody is online on a
\* node shown as stopped.
MockPagesCover == Mock!MockPagesCover

=============================================================================
