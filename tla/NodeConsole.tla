---------------------------- MODULE NodeConsole ----------------------------
(***************************************************************************)
(* The node page of the web console: the list, the editor dialog, the       *)
(* delete dialog and the buttons of a row.  (NodeStatuses models the         *)
(* statuses that are shown beside a node.)                                  *)
(*                                                                         *)
(* A handler of App.vue runs until its first await and goes on when the      *)
(* answer is there; between two awaits everything else may happen.  All      *)
(* handlers share one slot busyAction and one nodeForm.  A dialog covers the *)
(* page: what lies beneath cannot be clicked.  The operator is signed in     *)
(* with all permissions.                                                   *)
(*                                                                         *)
(* In the panel a save reads, checks and writes with one statement each and  *)
(* no transaction around them.  Other administrators save too, and a request *)
(* this page has given up goes on there.                                    *)
(***************************************************************************)
EXTENDS Naturals, Sequences, SequencesExt, FiniteSets

CONSTANTS
    OldNodes,       \* nodes the panel knows at the start, as a sequence
    NewNodes,       \* bound: ids that creations may be given
    Slots,          \* bound: how many handlers, and saves of others, are under way
    MaxEvents       \* bound: failures and acts of others so far, and reads under way

\* What the constants are.
ConsoleAssumption ==
    /\ OldNodes \in Seq(Nat \ {0}) /\ IsInjective(OldNodes) /\ OldNodes # <<>>
    /\ IsFiniteSet(NewNodes) /\ NewNodes \subseteq Nat \ {0}
    /\ NewNodes \cap ToSet(OldNodes) = {}
    /\ IsFiniteSet(Slots)
    /\ MaxEvents \in Nat

Nodes == ToSet(OldNodes) \cup NewNodes
NoNode == 0

VARIABLES
    byUpdate,       \* panel: live nodes, the most recently updated first
    identity,       \* panel: whose address (host, ports) the row of a node holds
    unused,         \* panel: ids no creation has been given yet
    raced,          \* history: two saves of one address were between check and write
    list,           \* nodes.value: rows [node, identity] as last loaded
    form,           \* nodeForm: whose address and whose revealed secrets it holds
    editing,        \* editingNodeId
    modal,          \* showNodeModal
    locked,         \* nodeSaveLocked
    pending,        \* pendingDeleteNode, with showNodeDeleteModal
    busy,           \* busyAction
    running,        \* handlers that wait: [Slots -> handler]
    reveal,         \* reads of a secret under way: toggled field, obfuscation
    failures        \* requests that failed, acts of others, addresses typed over

panel == <<byUpdate, identity, unused, raced>>
editor == <<form, editing, modal, locked>>
vars == <<panel, list, editor, pending, busy, running, reveal, failures>>

\* The tasks of withBusyAction, and the background sync of the traffic page.
\* handleStartNode, handleStopNode and handleRestartNode differ in the word they send.
Keys == {"node-service", "node-save", "node-delete", "traffic-sync-enter"}

\* A handler that waits: for its own requests (upload, first, second), then for those
\* of loadState (state, nodes, totals), then for a refresh of the statuses (settle).
\* Its first save has got through the checks (checked) or has written (written).
\* It holds what it captured: its node, an address it read, and isEditing.
\* No handler of this page waits for a save that is unattended.  What got through the
\* checks names an address.
Idle == [key |-> "", at |-> "idle", node |-> NoNode, address |-> NoNode, edits |-> FALSE]
Handlers ==
    {Idle} \cup
    {h \in [key : Keys \cup {"unattended"},
            at : {"upload", "first", "checked", "written", "second", "state", "nodes",
                  "totals", "settle"},
            node : Nodes \cup {NoNode}, address : Nodes \cup {NoNode}, edits : BOOLEAN] :
        h.at = "checked" => h.address # NoNode}

\* createEmptyNodeForm: a fresh obfuscation password and nothing else
EmptyForm == [of |-> NoNode, secret |-> NoNode, obfs |-> NoNode, fresh |-> TRUE]
\* mapNodeToForm: secrets are masked in what the panel sends
FormOf(owner) == [of |-> owner, secret |-> NoNode, obfs |-> NoNode, fresh |-> FALSE]

TypeOK ==
    /\ byUpdate \in Seq(Nodes) /\ IsInjective(byUpdate)
    /\ identity \in [Nodes -> Nodes]
    /\ unused \subseteq NewNodes \ ToSet(byUpdate)
    /\ raced \in BOOLEAN
    /\ list \in Seq([node : Nodes, identity : Nodes])
    /\ form \in [of : Nodes \cup {NoNode}, secret : Nodes \cup {NoNode},
                 obfs : Nodes \cup {NoNode}, fresh : BOOLEAN]
    /\ editing \in Nodes \cup {NoNode} /\ modal \in BOOLEAN /\ locked \in BOOLEAN
    /\ pending \in Nodes \cup {NoNode}
    /\ busy \in Keys \cup {""}
    /\ running \in [Slots -> Handlers]
    /\ reveal \in [secret : Nodes \cup {NoNode}, obfs : SUBSET Nodes]
    /\ failures \in 0..MaxEvents

Rows == [i \in DOMAIN byUpdate |-> [node |-> byUpdate[i], identity |-> identity[byUpdate[i]]]]

\* The page after the first load, before anything was clicked.
Init ==
    /\ byUpdate = OldNodes
    /\ identity = [n \in Nodes |-> n]
    /\ unused = NewNodes
    /\ raced = FALSE
    /\ list = Rows
    /\ form = FormOf(Head(OldNodes))
    /\ editing = NoNode /\ modal = FALSE /\ locked = FALSE
    /\ pending = NoNode /\ busy = "" /\ running = [s \in Slots |-> Idle]
    /\ reveal = [secret |-> NoNode, obfs |-> {}]
    /\ failures = 0

Listed == {list[i].node : i \in DOMAIN list}
IdentityListed(n) == (CHOOSE row \in ToSet(list) : row.node = n).identity
Live(n) == n \in ToSet(byUpdate)

\* Where the buttons of the rows can be reached: no dialog is in front.
Reachable == ~modal /\ pending = NoNode

\* One more failure, or one more read of a secret
Spare ==
    Cardinality(reveal.obfs) + (IF reveal.secret = NoNode THEN 0 ELSE 1) + failures < MaxEvents
Fault == Spare /\ failures' = failures + 1

-----------------------------------------------------------------------------
(* The editor dialog.                                                      *)

handleCreateNode ==
    /\ Reachable /\ busy = "" /\ unused # {}
    /\ editing' = NoNode /\ form' = EmptyForm /\ modal' = TRUE
    /\ UNCHANGED <<panel, list, locked, pending, busy, running, reveal, failures>>

\* The button of a row; it is never disabled.
handleEditNode(n) ==
    /\ Reachable /\ n \in Listed
    /\ editing' = n /\ form' = FormOf(IdentityListed(n)) /\ modal' = TRUE
    /\ UNCHANGED <<panel, list, locked, pending, busy, running, reveal, failures>>

\* The fields of the address (deploy mode, host, ports, user) are never disabled.  Filling
\* an empty form is what everybody does; typing over an address counts (a bound).
typeAddress(address) ==
    /\ modal /\ form' = [form EXCEPT !.of = address]
    /\ IF form.of = NoNode THEN UNCHANGED failures ELSE Fault
    /\ UNCHANGED <<panel, list, editing, modal, locked, pending, busy, running, reveal>>

handleResetNodeForm ==
    /\ modal /\ busy # "node-save"
    /\ form' = IF editing \in Listed THEN FormOf(IdentityListed(editing)) ELSE EmptyForm
    /\ UNCHANGED <<panel, list, editing, modal, locked, pending, busy, running, reveal, failures>>

\* editingNodeId stays what it was.
closeNodeModal ==
    /\ modal /\ busy # "node-save"
    /\ modal' = FALSE
    /\ UNCHANGED <<panel, list, form, editing, locked, pending, busy, running, reveal, failures>>

\* togglePasswordVisibility of a secret the panel holds; nodeSecretLoading lets
\* one read through at a time.
togglePasswordVisibility ==
    /\ modal /\ editing \in Listed /\ form.secret = NoNode
    /\ reveal.secret = NoNode /\ Spare
    /\ reveal' = [reveal EXCEPT !.secret = editing]
    /\ UNCHANGED <<panel, list, editor, pending, busy, running, failures>>

\* A secret belongs only into the form it was asked for, if that is still open.
MayFill_open(asked, field) == modal /\ form[field] = NoNode
MayFill(asked, field) == editing = asked /\ modal /\ form[field] = NoNode

SecretRead ==
    /\ reveal.secret # NoNode
    /\ reveal' = [reveal EXCEPT !.secret = NoNode]
    /\ form' = IF MayFill(reveal.secret, "secret")
               THEN [form EXCEPT !.secret = reveal.secret] ELSE form
    /\ UNCHANGED <<panel, list, editing, modal, locked, pending, busy, running, failures>>

revealNodeObfs ==
    /\ modal /\ editing \in Listed /\ form.obfs = NoNode /\ ~form.fresh /\ Spare
    /\ reveal' = [reveal EXCEPT !.obfs = @ \cup {editing}]
    /\ UNCHANGED <<panel, list, editor, pending, busy, running, failures>>

ObfsRead(n) ==
    /\ n \in reveal.obfs
    /\ reveal' = [reveal EXCEPT !.obfs = @ \ {n}]
    /\ form' = IF MayFill(n, "obfs") /\ ~form.fresh
               THEN [form EXCEPT !.obfs = n] ELSE form
    /\ UNCHANGED <<panel, list, editing, modal, locked, pending, busy, running, failures>>

-----------------------------------------------------------------------------
(* Handlers that wait.                                                     *)

Start(s, handler) ==
    /\ running[s] = Idle
    /\ running' = [running EXCEPT ![s] = handler]

Advance(s, to) == running' = [running EXCEPT ![s].at = to]
Finish(s) == running' = [running EXCEPT ![s] = Idle]

Waits(s, key, at) == running[s].key = key /\ running[s].at = at

\* The finally of withBusyAction clears the slot whoever holds it; the background
\* sync clears only its own key.
Released_forgotten(key) == busy
Released(key) == IF key = "traffic-sync-enter" /\ busy # key THEN busy ELSE ""

\* What the handler leaves of the page when its request throws.
LetGo(s) ==
    /\ busy' = Released(running[s].key)
    /\ locked' = (locked /\ running[s].key # "node-save")
    /\ UNCHANGED <<list, form, editing, modal, pending, reveal>>

\* The request a handler waits for throws; what reads the totals and what polls the
\* statuses catches its errors itself.
HandlerFails(s) ==
    /\ running[s].key # "unattended"
    /\ running[s].at \in {"upload", "first", "checked", "written", "second", "state", "nodes"}
    /\ Finish(s) /\ LetGo(s)

Fails(s) == Fault /\ HandlerFails(s) /\ UNCHANGED panel

\* handleStartNode, handleRestartNode, handleStopNode
handleServiceAction(s, n) ==
    /\ Reachable /\ busy = "" /\ n \in Listed
    /\ Start(s, [Idle EXCEPT !.key = "node-service", !.at = "first", !.node = n])
    /\ busy' = "node-service"
    /\ UNCHANGED <<panel, list, editor, pending, reveal, failures>>

\* handleDeleteNode opens the confirmation.
handleDeleteNode(n) ==
    /\ Reachable /\ busy = "" /\ n \in Listed
    /\ pending' = n
    /\ UNCHANGED <<panel, list, editor, busy, running, reveal, failures>>

closeNodeDeleteModal ==
    /\ pending # NoNode /\ busy # "node-delete"
    /\ pending' = NoNode
    /\ UNCHANGED <<panel, list, editor, busy, running, reveal, failures>>

\* The service is uninstalled first, unless the row showed the agent offline.
confirmDeleteNode(s) ==
    /\ pending # NoNode /\ busy # "node-delete"
    /\ \E at \in {"first", "second"} :
          Start(s, [Idle EXCEPT !.key = "node-delete", !.at = at, !.node = pending])
    /\ busy' = "node-delete"
    /\ UNCHANGED <<panel, list, editor, pending, reveal, failures>>

\* A chosen key file is uploaded first; without one the form is sent at once.
MaySave == modal /\ busy # "node-save" /\ ~locked

handleSaveNode(s) ==
    /\ MaySave
    /\ \/ Start(s, [Idle EXCEPT !.key = "node-save", !.at = "upload",
                                !.edits = editing # NoNode])
       \/ Start(s, [Idle EXCEPT !.key = "node-save", !.at = "first", !.node = editing,
                                !.address = form.of, !.edits = editing # NoNode])
    /\ busy' = "node-save" /\ locked' = TRUE
    /\ UNCHANGED <<panel, list, form, editing, modal, pending, reveal, failures>>

\* After the upload the form and editingNodeId are read as they are then.
KeyUploaded(s) ==
    /\ Waits(s, "node-save", "upload")
    /\ running' = [running EXCEPT ![s].at = "first", ![s].address = form.of,
                                  ![s].node = IF running[s].edits THEN editing ELSE NoNode]
    /\ form' = [form EXCEPT !.secret = NoNode]
    /\ UNCHANGED <<panel, list, editing, modal, locked, pending, busy, reveal, failures>>

\* syncTrafficUsageForTrafficView, started when the operator comes through that page
syncTrafficUsageForTrafficView(s) ==
    /\ Reachable /\ busy = ""
    /\ Start(s, [Idle EXCEPT !.key = "traffic-sync-enter", !.at = "first"])
    /\ busy' = "traffic-sync-enter"
    /\ UNCHANGED <<panel, list, editor, pending, reveal, failures>>

-----------------------------------------------------------------------------
(* Saves inside the panel: saveNode for handleUpdateNode, handleCreateNode    *)
(* and handleCreateNodeAndInstall.                                         *)

\* assertNodeIdentityAvailable
AddressFree_unchecked(n, address) == TRUE
AddressFree(n, address) ==
    \A other \in ToSet(byUpdate) \ {n} : identity[other] # address

Saves(s) == running[s].key \in {"node-save", "unattended"} /\ running[s].at = "first"

\* getStoredNode, normalizeNodePayload, which refuses an empty host, and the address
Passes(h) ==
    /\ h.node = NoNode \/ Live(h.node)
    /\ h.address # NoNode /\ AddressFree(h.node, h.address)

\* The save other has passed the check for the address h asks for, and for another row.
Competes(h, other) ==
    /\ other.at = "checked" /\ other.address = h.address
    /\ h.node = NoNode \/ other.node # h.node

SaveChecked(s) ==
    /\ Saves(s) /\ Passes(running[s]) /\ Advance(s, "checked")
    /\ raced' = (raced \/ \E t \in Slots \ {s} : Competes(running[s], running[t]))
    /\ UNCHANGED <<byUpdate, identity, unused, list, editor, pending, busy, reveal, failures>>

\* The row is updated by its id, or inserted, and is the most recently updated one then.
\* A row that was deleted in between stays deleted.
Write_reused(h, n) ==
    /\ n \in IF h.node = NoNode THEN unused ELSE {h.node}
    /\ identity' = [identity EXCEPT ![n] = h.address]
    /\ byUpdate' = IF h.node = NoNode \/ Live(n)
                  THEN <<n>> \o RemoveFirst(byUpdate, n) ELSE byUpdate
    /\ UNCHANGED <<unused, raced>>
Write(h, n) ==
    /\ n \in IF h.node = NoNode THEN unused ELSE {h.node}
    /\ identity' = [identity EXCEPT ![n] = h.address]
    /\ byUpdate' = IF h.node = NoNode \/ Live(n)
                  THEN <<n>> \o RemoveFirst(byUpdate, n) ELSE byUpdate
    /\ unused' = unused \ {n}
    /\ UNCHANGED raced

SaveWritten(s) ==
    /\ running[s].at = "checked"
    /\ \E n \in Nodes :
          /\ Write(running[s], n)
          /\ running' = [running EXCEPT ![s].at = "written", ![s].node = n, ![s].address = NoNode]
    /\ UNCHANGED <<list, editor, pending, busy, reveal, failures>>

Forget(n) == byUpdate' = RemoveFirst(byUpdate, n) /\ UNCHANGED <<identity, unused, raced>>

\* The row is read once more and the form holds what was read.  A node that was edited
\* is deployed next, one that was created has been installed by the same request.
SaveAnswered(s) ==
    /\ Waits(s, "node-save", "written") /\ Live(running[s].node)
    /\ Advance(s, IF running[s].edits THEN "second" ELSE "state")
    /\ form' = FormOf(identity[running[s].node])
    /\ UNCHANGED <<panel, list, editing, modal, locked, pending, busy, reveal, failures>>

\* A node that could not be installed is deleted again.
InstallFails(s) ==
    /\ running[s].at = "written" /\ ~running[s].edits
    /\ Fault /\ Forget(running[s].node) /\ HandlerFails(s)

\* The connection breaks, but the panel may go on with the save.
GiveUp(s) ==
    /\ running[s].key = "node-save" /\ running[s].at \in {"first", "checked", "written"}
    /\ Fault /\ LetGo(s)
    /\ running' = [running EXCEPT ![s].key = "unattended"]
    /\ UNCHANGED panel

\* Another administrator edits a live node or creates one.
OtherAdminSaves(s, n, address) ==
    /\ IF n = NoNode THEN unused # {} ELSE Live(n)
    /\ Start(s, [Idle EXCEPT !.key = "unattended", !.at = "first", !.node = n,
                             !.address = address, !.edits = n # NoNode])
    /\ Fault
    /\ UNCHANGED <<panel, list, editor, pending, busy, reveal>>

\* Such a save is refused, stopped, or through; its installation may fail too.
UnattendedEnds(s) ==
    /\ running[s].key = "unattended" /\ Finish(s)
    /\ \/ UNCHANGED panel
       \/ running[s].at = "written" /\ ~running[s].edits /\ Forget(running[s].node)
    /\ UNCHANGED <<list, editor, pending, busy, reveal, failures>>

-----------------------------------------------------------------------------
(* The other requests: to start or stop, to uninstall and delete, to deploy.  *)

Asks(s) ==
    \/ running[s].key \in {"node-service", "node-delete"} /\ running[s].at \in {"first", "second"}
    \/ Waits(s, "node-save", "second")

Deletes(s) == Waits(s, "node-delete", "second")

\* deleteNode succeeds for a node that is deleted already.
Known(s) == Deletes(s) \/ Live(running[s].node)

Answered(s) ==
    /\ Asks(s) /\ Known(s)
    /\ IF Deletes(s) THEN Forget(running[s].node) ELSE UNCHANGED panel
    /\ Advance(s, IF Waits(s, "node-delete", "first") THEN "second" ELSE "state")
    /\ UNCHANGED <<list, editor, pending, busy, reveal, failures>>

\* A save that does not pass the checks, or for which no id is left (a bound), or a node
\* the panel does not know any more
Rejected(s) ==
    /\ \/ Saves(s) /\ ~Passes(running[s])
       \/ running[s].at = "checked" /\ running[s].node = NoNode /\ unused = {}
       \/ running[s].at = "written" /\ ~Live(running[s].node)
       \/ Asks(s) /\ ~Known(s)
    /\ HandlerFails(s)
    /\ UNCHANGED <<panel, failures>>

AnswerLost(s) ==
    /\ Deletes(s) /\ Fault
    /\ Forget(running[s].node) /\ HandlerFails(s)

TrafficSynced(s) ==
    /\ Waits(s, "traffic-sync-enter", "first") /\ Advance(s, "state")
    /\ UNCHANGED <<panel, list, editor, pending, busy, reveal, failures>>

\* Another administrator deletes a node.
OtherAdminDeletes(n) ==
    /\ Live(n) /\ Fault /\ Forget(n)
    /\ UNCHANGED <<list, editor, pending, busy, running, reveal>>

-----------------------------------------------------------------------------
(* loadState, and what a handler does when it is through.                  *)

\* data.node is the node that was updated last.
StateRead(s) ==
    /\ running[s].at = "state"
    /\ running' = [running EXCEPT ![s].at = "nodes",
                      ![s].address = IF byUpdate = <<>> THEN NoNode ELSE identity[Head(byUpdate)]]
    /\ UNCHANGED <<panel, list, editor, pending, busy, reveal, failures>>

\* loadNodes; then the form is overwritten, whatever dialog is open.
NodesRead(s) ==
    /\ running[s].at = "nodes"
    /\ list' = Rows
    /\ form' = IF running[s].address = NoNode THEN form ELSE FormOf(running[s].address)
    /\ running' = [running EXCEPT ![s].at = "totals", ![s].address = NoNode]
    /\ UNCHANGED <<panel, editing, modal, locked, pending, busy, reveal, failures>>

ServiceActionDone(s) ==
    /\ Waits(s, "node-service", "totals")
    /\ busy' = Released("node-service") /\ Finish(s)
    /\ UNCHANGED <<panel, list, editor, pending, reveal, failures>>

NodeDeleted(s) ==
    /\ Waits(s, "node-delete", "totals")
    /\ busy' = Released("node-delete") /\ Finish(s)
    /\ IF editing = running[s].node
       THEN editing' = NoNode /\ modal' = FALSE /\ form' = EmptyForm
       ELSE UNCHANGED <<editing, modal, form>>
    /\ pending' = NoNode
    /\ UNCHANGED <<panel, list, locked, reveal, failures>>

\* The statuses are refreshed, or not if that is under way; then the editor is closed.
NodeSaved(s) ==
    /\ Waits(s, "node-save", "totals")
    /\ busy' = Released("node-save") /\ Advance(s, "settle")
    /\ UNCHANGED <<panel, list, editor, pending, reveal, failures>>

EditorDone(s) ==
    /\ Waits(s, "node-save", "settle") /\ Finish(s)
    /\ editing' = NoNode /\ modal' = FALSE /\ locked' = FALSE
    /\ UNCHANGED <<panel, list, form, pending, busy, reveal, failures>>

\* Behind loadState the background sync reads the history and the statuses.
TrafficSyncDone(s) ==
    /\ Waits(s, "traffic-sync-enter", "totals")
    /\ busy' = Released("traffic-sync-enter") /\ Finish(s)
    /\ UNCHANGED <<panel, list, editor, pending, reveal, failures>>

-----------------------------------------------------------------------------
Answers(s) ==
    \/ KeyUploaded(s) \/ SaveChecked(s) \/ SaveWritten(s) \/ SaveAnswered(s)
    \/ Answered(s) \/ Rejected(s) \/ TrafficSynced(s)
    \/ StateRead(s) \/ NodesRead(s)
    \/ ServiceActionDone(s) \/ NodeDeleted(s) \/ NodeSaved(s) \/ EditorDone(s)
    \/ TrafficSyncDone(s)

Operator ==
    \/ handleCreateNode \/ handleResetNodeForm \/ closeNodeModal \/ closeNodeDeleteModal
    \/ togglePasswordVisibility \/ revealNodeObfs
    \/ \E n \in Nodes : handleEditNode(n) \/ handleDeleteNode(n) \/ typeAddress(n)
    \/ \E s \in Slots :
          \/ handleSaveNode(s) \/ confirmDeleteNode(s) \/ syncTrafficUsageForTrafficView(s)
          \/ \E n \in Nodes : handleServiceAction(s, n)

\* Requests that go wrong, and saves nobody on this page waits for.
Elsewhere(s) ==
    \/ Fails(s) \/ AnswerLost(s) \/ InstallFails(s) \/ GiveUp(s) \/ UnattendedEnds(s)
    \/ \E n \in Nodes \cup {NoNode}, address \in Nodes : OtherAdminSaves(s, n, address)

Next ==
    \/ Operator
    \/ \E s \in Slots : Answers(s) \/ Elsewhere(s)
    \/ SecretRead
    \/ \E n \in Nodes : ObfsRead(n) \/ OtherAdminDeletes(n)

Spec == Init /\ [][Next]_vars

-----------------------------------------------------------------------------
(* Properties.                                                             *)

\* Two live nodes never hold the same address, as the error of
\* assertNodeIdentityAvailable says.  Not so: two saves may pass it before either writes.
IdentityUnique ==
    \A m, n \in ToSet(byUpdate) : identity[m] = identity[n] => m = n

\* Two live nodes hold the same address only after two saves of one address, for
\* different rows, were between check and write at the same time: nothing else gets
\* past assertNodeIdentityAvailable, neither the row of another node that loadState
\* wrote into an open form nor a save that was given up or whose node was deleted.
OnlyRacesShareAddresses == ~raced => IdentityUnique

\* busyAction is never left behind: as long as buttons are disabled, the handler that
\* will enable them is under way.
BusyIsOwned ==
    busy # "" => \E s \in Slots : running[s].key = busy

\* A form that is shown holds revealed secrets of the node it edits only, however
\* late the panel answers.
SecretStays ==
    modal => /\ form.secret \in {NoNode, editing}
             /\ form.obfs \in {NoNode, editing}

=============================================================================
