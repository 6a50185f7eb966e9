# Hysteria2MX: specification and verification

Hysteria2MX is a control panel (`src/internal/panel`, Go and MySQL, with a Vue
front end) for nodes that run the Hysteria proxy. On every node an agent
(`src/cmd/mxinhy-agent`) polls the panel for tasks, reports heartbeats and
samples, admits the clients of Hysteria, and watches over its service. This
directory holds TLA+ modules for the parts of it in which processes, messages
and failures meet, the TLC runs that check them, and proofs checked by TLAPS.
`PROJECT.json` lists components, runs, mutants, findings, hazards, theorems and
the source lines every definition stands for.

Check a run with `tlc -config <cfg> <module>`, a proof with `tlapm <module>.tla`.

## 1. Inventory

| Component | State | Operations | Hard because of | Correct if |
|---|---|---|---|---|
| Task queue: `panel/agent.go`, agent `main.go` | `agent_tasks` rows; the agent's loop (in memory) | enqueueTask, waitForTask, pullTask (SELECT, UPDATE, SELECT), completeTask, processNextTask | requests given up go on in the panel; lost replies; expiry; ignored row counts | a task runs at most once, in order; results are those of the run; deliverable tasks are claimed |
| Node deletion: `hysteria.go` deleteNode, `agent.go`, `monitor.go`, agent `main.go` | `server_nodes.deleted_at`, `node_agents.shared_secret`, users in memory and on disk, heartbeat guard, detached script | deleteNode, authenticateRequest, writeAgentNodeDeleted, scheduleSelfUninstall, heartbeat guard | three request streams, lost 410, failed revocation, crash between steps, systemd | a deleted node ends up closed, a live one is never touched |
| Local authentication: `hysteria.go` queueLocalAuthRefresh, agent `main.go` | `hysteria_users`, queued snapshots, state file, `localAuthUsers`, connections | create/update/delete/suspend a user, sync (opcode 13), kick (12) | snapshot and INSERT not atomic, lost tasks, restart between file and memory, reconnecting clients | who was suspended ends up disconnected; no rollback |
| Traffic accounting: `hysteria.go`, `server.go` loop | Hysteria's counter, `used_bytes`, `used_gb`, `status`, last totals, `node_traffic_history` | syncTrafficUsage, applyTrafficUsagePayload, heartbeat and enforceRealtimeTrafficQuota | loop and API overlap, counter cleared but result lost, live and stored values added | each byte billed once, quota enforced, not early |
| Local credential check: agent `main.go` | `localAuthUsers`, guard, state file | handleLocalAuth, load/storeLocalAuthState | torn file at a crash, guard lives in memory | only active, unexpired users under quota are admitted |
| Service watchdog: agent `watchdog.go`, serviceAction, writeConfig | stop-intent file, unit state, flags | recoverService, start/stop/restart, writeConfig | ticker against tasks, uninstall and upgrade | an operator's stop is respected |
| CPU protection: `cpu_protection.go` on both sides | controller counters, ceiling file, unit property, configuration | next, applyGuardQuota, updateCPUProtection | crash between save and apply, rollback | the original ceiling is never lost |
| Monitoring: agent `monitor.go`, panel `monitor.go` | buffer of 12 samples | collect, upload, retry, discard after 45 s | drop-oldest against a concurrent reader | newest samples survive, no duplicates stored |
| Node alerts: `node_alerts.go` | alert state per node | checkNodeAlert | mail sent before the state is saved | one mail per outage |
| Login protection: `login_protection.go` | attempts file | assertAllowed, recordFailure, recordSuccess | load-modify-save without a lock | a lock is not undone |
| Users over all nodes, subscriptions: `hysteria.go` | a row per node and user | loops over nodes without a transaction | failure in the middle | nodes agree |
| Installation jobs, remote execution | job file, SSH session | create, run, markDone | the runner dies | a job does not stay running |
| Agent self-upgrade | upgrade flag, binary | download, replace, restart | against uninstall, failed restart | retried, never after uninstall |
| Panel upgrade, migrations, setup, administrators, SSH keys | files, `schema_migrations`, `admin_users` | see the sources | DDL commits implicitly; count-then-update | one super administrator remains; a migration runs once |
| Settings, audit, mail, cryptography | rows and files | reads and writes | – | not modelled: I/O and formatting |
| Console, node page: `App.vue`, `hysteriaService.ts` | `nodes`, `nodeForm`, `editingNodeId`, dialogs, `busyAction`, `nodeSaveLocked` | open, reset, save, delete, start/stop/restart, reveal a secret, loadState | handlers overlap between awaits and share one slot and one form; loadState overwrites the form; late answers; the panel checks an address and writes it in two statements, for several administrators | nodes share an address only through saves of it that overlap, no foreign secret in a form, no button disabled for ever |
| Console, node statuses: `App.vue` | `nodeRuntimeStatuses`, the lock of the refresh, a timer | refreshNodeRuntimeStatuses, what handlers write, start and stop of the timer | a poll replaces what was written meanwhile; the timer is started behind an await | statuses settle, the timer runs beside its own page |
| Console, users and administrators: `App.vue` | rows, page, filter timer, editor, delete and subscription dialogs | paging, filter, edit, save, delete, show and renew a link | answers in any order, a form that is reused, a dialog that changed meanwhile | label and rows agree; forms and links are of their account |
| Console, sections and logs: `App.vue` | `currentSection`, two timers, node, source and mode of the logs | setSection, the handlers of the log page, sign-out | everything continues behind awaits | no automatic fetch in manual mode, logs of the selected source |
| Console, sign-in: `App.vue`, `authService.ts`, `setupService.ts` | session of the page, copy in localStorage, cookie | bootstrap, login, logout, setup, reload | the form is there while bootstrap still waits for `/auth/me` | whoever sees the form after bootstrap left no session in the storage |
| Console, monitor page: `NodeMonitor.vue` | selection, data, `controller`, `revision` | refresh, select, hide, leave | aborted requests end late | shows what is selected, polls on |
| Console, CPU dialog: `CPUProtectionDialog.vue` | form, baseline, `applied` | check, save | check and save overtake each other | ends up with what the panel knows |
| Console, mock data: `mockPanelData.ts` | mode and configuration | normalise, build nodes, users, pages | counts that do not fit, pages, defaults | counts fit, pages show everything once |

How they interact: the panel talks to a node only through rows of `agent_tasks`
that the agent's single loop pulls; user operations and quota suspensions queue
snapshots and kicks there (LocalAuthSync), syncs queue a task that clears
Hysteria's counter and wait for its row to be finished (TrafficAccounting).
Heartbeats share the loop with the pulls, the monitor's uploader runs beside it
with the same credentials. A 410 to any of them is the only news of a deletion
(NodeDeletion), and the guard that the heartbeats maintain decides together with
the synchronised users whom the node admits.

The console (`src/web/src`) talks to the panel over HTTP only. It is one thread,
but each handler is cut into steps by its awaits, and between two of them
anything else may happen: another handler, a timer, the operator, the answer to
an older request. That is where its modules put the steps. The pages share the
session and `busyAction`, and little else.

## 2. Modules and how they correspond to the code

* **TaskDelivery** is the abstract specification of the queue: tasks are
  submitted with increasing identifiers, *taken* oldest first, *executed* at most
  once and *recorded*. A task may be taken and never executed, and executed and
  never recorded. Nothing else can happen.
* **AgentTasks** is the queue as implemented. `status`, `deadline`, `lastId` are
  columns of `agent_tasks`; `waiter` is what `runAgentTask` makes of a task;
  `handler` holds the requests inside the panel, at most one of which the agent
  still waits for (`agent.req`); `execs` and `outcome` are history variables.
  `PullTaskSelect` and `PullTaskUpdate` are the statements of `pullTask`, between
  which another handler may run; the UPDATE and the final read are one step, as
  nobody changes what the reply carries (identifier, opcode, payload).
  `Delivery` instantiates TaskDelivery with `Phase` and `Recorded`.
* **NodeDeletion** follows one node: `request[c]` is the request under way on a
  channel, `Verdict` the decision of `authenticateRequest`, `uninstall` the
  position inside `scheduleSelfUninstall`, `script` the detached shell script.
  A crash (`AgentCrash`) is possible at every step; `AgentStart` reads the users
  back and resets the guard as `main` and `run` do. A database error while
  authenticating answers 401 (`AuthenticateFails`).
* **LocalAuthSync** composes with TaskDelivery (its variables `phase`, `outcome`,
  `recorded`), not with AgentTasks: what it needs of the queue is what
  AgentTasksProofs proves of it. One account on one node stands for all, because
  snapshots replace the whole set and no two accounts are compared. `writer` is a
  panel operation between its UPDATE, the reading of the snapshot, and the two
  INSERTs.
* **TrafficAccounting** follows one user of one node, hence the node's totals are
  the user's. `sync[s]` is a sync from its task to the snapshot row;
  `traffic`, `lost` and `billed` are history variables. Overlapping syncs are the
  loop's and the API's. `GigabytesAfter` is what the two assignments of the
  UPDATE compute when MySQL evaluates them from left to right. A user who sent nothing
  since the counter was cleared is in no answer of Hysteria, so neither a sync nor a
  heartbeat looks at the row. `CheckFails` is the `continue` after a failed read or a
  failed suspension, `HeartbeatFails` the same in a heartbeat: nobody repeats the check, so
  a user over quota may stay active until the next byte (`Overlooked` in `QuotaEnforced`).

Of the console, in each module an action is what runs between two awaits:

* **NodeConsole** has a slot for every handler that waits (`running`): the key it
  gave to `withBusyAction`, the request it waits for, and what it captured
  (`isEditing`, the node, the address of the form). A node stands for the address it
  was listed with first, so `identity[n]` says whose address its row holds, and
  `form.of` whose address the form holds; `typeAddress` fills in any of them, or
  replaces it. A save in the panel is three steps: `SaveChecked` (the row is read, the
  SELECT of `assertNodeIdentityAvailable` finds nobody), `SaveWritten` (UPDATE or INSERT)
  and `SaveAnswered` (the read that is returned). Nothing in the panel keeps two
  saves apart, and they need not be of this page: `OtherAdminSaves` starts that of
  another administrator, and `GiveUp` turns one whose connection broke into one that
  goes on `unattended` while the operator may save again. `raced` is a history
  variable: two saves of one address, for different rows, were between check and write at
  the same time. `NodesRead` is the end of `loadState` that writes the most recently
  updated node into whatever form is open.
* **NodeStatuses** models the statuses apart, with the same handlers reduced to
  their requests: `refresh` is the poll under way, with the nodes it has still to
  ask and the map that replaces all statuses at its end.
* **AccountConsole** is the page of the users and that of the administrators,
  which are built alike; `kind` says which. `loads` are the pages being read for a
  paging button or the filter, `running` the handlers. `formOf` is the account
  whose data fill the form, next to `editing`, the id that goes into the request.
* **ConsoleSections** models roles, sections, the timers of users and logs and the
  log page; `waiting` holds what waits: setSection, a change of node or source, a
  tick of the interval. `text` is the source the shown logs were fetched from.
* **ConsoleAuth** models `session`, the saved copy with its expiry and the cookie.
  `me` is the answer to `/auth/me`, given at one moment and read at a later one.
* **MonitorView**: `controller` is the latest request, `overtaken` are those that
  were aborted and have not ended. **CpuDialog**: `check` and `save` are the two
  requests that may overlap; the panel answers at one step and the dialog reads
  the answer at another.
* **MockPanel** holds the functions of `mockPanelData.ts` and of the mock branch of
  `hysteriaService.ts` as operators, and the mode as state. With the default
  configuration of the code the degraded node is shown as running (every third
  node has no agent and so no status), and a configured number of users is not
  always reached (a user has one record per node, up to three).
* **MCConsolePages** and **MCConsoleViews** instantiate these modules side by side.
  They share no state, so a behaviour is of one of them and the sum of their
  states is explored, not the product.

## 3. Runs

| Run | Bounds | Shows |
|---|---|---|
| `MCAgentTasks_safety` | 2 tasks, 2 requests in the panel, time to 2, lifetimes 1 and 2 | at most once, true results, order, stable final status, lost tasks stay lost, refinement of TaskDelivery |
| `MCAgentTasks_live` | 2 tasks, 2 requests, frozen clock | a deliverable task is claimed (whether the reply that carries it arrives is another question: `LostStaysLost`) |
| `NodeDeletion` | 3 channels, 2 losses, 2 crashes, grace 3, script spared or killed | only deleted nodes are taken down; a deleted node ends up closed, and its service stops if the loop is told |
| `NodeDeletion_metrics` (violated) | 3 channels, no failures | the uploader alone learns of the deletion and the service runs on |
| `MCLocalAuthSync` | 2 operations at a time, 5 tasks, 1 loss | no rollback at a restart; one clean operation repairs; an undisturbed suspension ends in disconnection |
| `MCLocalAuthSync_overlap` (violated) | 2 operations, 4 tasks, no losses | snapshots queued in the wrong order |
| `MCTrafficAccounting` | 2 syncs, 1 heartbeat, 3 bytes, 1 failure | no byte billed twice, nobody suspended before half of the quota, the quota enforced although syncs clear the counter; after a failed check, when the user sends again |
| `MCTrafficAccounting_gigabytes`, `_early`, `_delta` (violated) | 1 sync, 1 heartbeat, no failures | `used_gb` differs from `used_bytes`; suspension below quota; wrong deltas |
| `MCConsolePages` | 2 handlers (or saves of others); nodes: 1 and 1 to create, 1 event (a failure, a read of a secret under way, an act of another administrator, an address typed over); accounts, with 1 failure: 1 and 1, 2 pages; operator and viewer, 4 sections, 2 nodes with logs, 1 of them with an agent; 2 administrators; mock: at most 5 nodes and 8 users, entered -1, 0, 2, 9 | only saves that overlap share an address, buttons come back, secrets, links, forms, pages and logs (of their source) stay with what they belong to, whoever sees the form to sign in left no session in the storage, mock counts fit, and mock pages and groups hold every record once |
| `MCConsoleViews` | 2 nodes, 1 handler, 1 failure or change, 2 ranges, 3 configurations of which 1 is invalid, 2 saves or failures | shown data is of the selection, the timer keeps to its page, statuses and confirmation settle, polling never stops |

Why the bounds are enough. Two tasks and two requests are what an overtaking or
a double claim takes, and the theorems lift the safety properties to every
number. Three channels are all the agent has; two losses can take the 410 and
the next answer, two crashes can hit the uninstall and the restart after it. Five
tasks are three operations, one or two of which kick: two that spoil and one that
repairs. Three bytes with a quota of 3 and a gigabyte of 2 cover usage below, at
and over the boundary of both units.

In the console every hazard is a pair: a handler that waits and one that
overtakes it, a selection and its successor, a node that exists and one that is
created or edited meanwhile; the second node of `MCConsolePages` is the one that
`loadState` may write into the form of the first. Two saves are under way at once within
these bounds (the operator's creation and the edit of another administrator, for instance), and two nodes do get one address then: `IdentityUnique`,
which no run lists, is refuted within the bounds of `MCConsolePages.cfg`. The theorems lift what is said of
pairs to any number. The numbers entered into a mock configuration lie below, at,
inside and above the limits, which are 5 and 8 instead of 200 and 5000.

The clock of the queue stops at `MaxTime`, operations at `MaxTasks`, traffic at
`MaxTraffic`; losses, crashes and failures are bounded by the constants of these
names. Only `MCConsoleViews` disables the deadlock check: a monitor page or a dialog that
was left (`disposed`) really stops. `MCAgentTasks_safety` and
`MCConsolePages` reduce by the symmetry of requests or handlers, which no definition
tells apart; the liveness runs use no symmetry. Reads of one page at the same time
count as one (`loads` is a set), likewise aborted requests for one selection.

### Fairness

* Task queue: the task ticker fires again and again even though heartbeats
  compete for the loop (`select` picks a ready case at random), a handler that
  entered a statement gets an answer or an error, and statements do not fail for
  ever (strong fairness of the two statements of a pull). Completion needs
  nothing stronger than "answered or failed". Nothing is assumed of time.
* Node deletion: tickers fire, the panel answers what it received, an interval
  passes, `Restart=always` restarts the agent, a script that was not killed runs
  to its end. Losses and crashes may always happen but not infinitely often.
* Local authentication: the panel finishes the operations it began and the agent
  works the queue off; applying a snapshot is strongly fair, as restarts that
  interrupt it again and again would leave no agent to speak of.
* Console: a fetch that was sent settles (the browser answers or fails it, the monitor
  gives up after eight seconds) and an interval that is set fires. The operator, the
  agent and other administrators need not do anything: `StatusesSettle` speaks of a node
  page that stays open, `PollingNeverStuck` of a page that is visible on a node,
  `ConfirmationSettles` of a dialog that stays open. A failure may happen at any
  request, but not infinitely often.
* Traffic: heartbeats are sent again and again and the panel finishes what it
  received; no sync is ever forced to start.

## 4. Findings

1. A node of which the monitor's uploader learns the deletion first is never
   uninstalled: `uploadMetrics` drops the 410, the panel has revoked the secret,
   and the loop only sees 401 (`NodeDeletion_metrics`). The guard still keeps new
   clients out (`DeletedServesNobody` holds), the service stays.
2. Two concurrent operations can leave a node with the older set of users
   (`MCLocalAuthSync_overlap`).
3. A lost or expired snapshot or kick is never repeated: only the next
   operation repairs the node (`RefreshHeals`), and the promises of
   `MCLocalAuthSync` hold only if nothing was lost.
4. `used_gb` counts the amount of a sync twice
   (`MCTrafficAccounting_gigabytes`).
5. A sync may suspend a user below the quota, as `nextUsedBytes` adds the amount
   to a row that holds it (`MCTrafficAccounting_early`); never before half of it
   (`SuspendedAfterHalf`).
6. Deltas of `node_traffic_history` subtract totals of different counting
   periods (`MCTrafficAccounting_delta`).
7. `assertNodeIdentityAvailable` refuses a save with the words that the same node
   exists already and must not be submitted twice (`hysteria.go:1802`). The
   SELECT (line 232) and the UPDATE or INSERT (245, 267) are statements of their own, without
   a transaction and without a UNIQUE index (`schema.sql:13`), so two saves that overlap may
   both pass and leave two live nodes with one address: TLC refutes `IdentityUnique` with the
   operator creating a node while another administrator edits a second one to the same
   address. There is no run of its own for it; to see the trace add `IdentityUnique` to
   the invariants of `MCConsolePages.cfg`. `OnlyRacesShareAddresses` says that there is no
   other way: neither a form that `loadState` overwrote nor a given-up, repeated or
   overtaken save gets past the check by itself.
8. Met in the console and not counted as disagreements with a document: `loadState`
   replaces the content of an editor that is open (the next save sends it for the node
   that is edited, and the panel refuses that unless saves race as above; what was typed
   is lost); the finally of one handler empties the slot of another that runs on and so
   enables its buttons (`BusyIsOwned` is about slots that are left behind and does not
   exclude this); `loadLogs` asks whether the source is still the selected one,
   but not whether the node is (so `LogsMatchSource` speaks of the source only);
   `fetchCurrentSession` takes a late 401 for news and throws out somebody who has
   signed in meanwhile (and forgets the saved session, so that
   `SignedOutIsForgotten` holds), and takes a late confirmation for news as well: given before
   a sign-out and read after it, it brings session and saved copy back, which
   `SignedOutIsForgotten` does not exclude; a timer of the nodes that is started during a
   sign-out stays set beside the overview, where it does nothing.

## 5. Proofs

Every safety property of a passing run but one (`MockPagesCover`) is a theorem, for
every value of the constants that satisfies the assumption of the module:
`BoundsAssumption`, `DeletionAssumption`, `SyncAssumption`, `AccountingAssumption`, for the
console `PagesAssumption` and `ViewsAssumption`, which only say that the assumptions of
the instances hold. Where a module is one of several in a composition, its
assumption stands as a hypothesis of the theorem and is discharged there. The bounds
(operations, tasks, losses, slots, upsets) are constants, so no theorem depends on how
large they are.

**Task queue.** None of the safety properties is inductive: that a task was not
run yet when a reply carries it depends on who else carries it, and the order
depends on which rows can still be selected. `IInv` adds

* `RowInv`: unclaimed rows were never run, results belong to runs;
* `HandlerInv`: what a request carries was selected from an existing row, a
  completion carries the result of a finished run, and a task in a reply is claimed;
* `AgentInv`: the reply the agent waits for, and the task it holds, are *fresh*:
  neither this task nor any later one was run;
* `OrderInv`: once a task is carried or claimed, nothing older can be selected.

The point is that several requests may carry the same task, but the agent waits
for at most one of them, and a reply that was given up is discarded. Frame lemmas
(`RowFrame`, `HandlerFrame`, `AgentFrame`, `OrderFrame`) settle the conjuncts that
an action does not touch; `IInvNext` has one step per action. From it follow
`NoTaskRunsTwice`, `ResultsAreTrue`, the action properties `TasksRunInOrder`,
`FinishedStaysFinished`, `LostForEver` (through the lemmas `ExecutionStep`,
`StatusStep` and `CarryStep`, which describe all steps that run a task, change a
row or put a task in somebody's hands) and
`ImplementsDelivery`: every step is one step of TaskDelivery or a stutter.

**Node deletion.** `DeletionFirst` adds to `LiveNodeUntouched` that no request was
answered 410; `Forgotten` says what is gone at each position of the uninstall and
that no answer which could restore the users is left once the script exists.
`LiveNodesStay` and `UninstalledIsClosed` follow. `ClosedForEver` says it over time: from the
start of the script on, nobody is admitted in any later state (`ScriptStays`, and `Forgotten`
at each of them), which is the half of `DeletedServesNobody` that needs no fairness.
`LoopHoldsTheAnswer` is the counterpart of finding 1: with the loop and the heartbeat as the
only requesters (`Channels` without `"metrics"`) and no losses or crashes, a revoked secret
means that the loop holds a 410 or has acted on it (`RevokedIsTold`, which `ToldNext` keeps). So the
service that runs on in `NodeDeletion_metrics` is the doing of the uploader alone.

**Local authentication.** The properties speak of what the agent admits at rest, and
that depends on everything under way. `IInv` of `LocalAuthSyncProofs` adds

* `QueueInv`: tasks are queued and taken in the order of their ids, and have their payload
  from the beginning;
* `AgentInv`: the task of the agent is later than all it completed (so the order
  TaskDelivery demands of `Execute` never holds the agent up), and memory is what the file
  says, except between the two halves of a snapshot;
* `FileInv`: the file is as new as any snapshot that was completed;
* `CurrentInv`: as long as the latest operation ran by itself and lost nothing, the last
  snapshot under way is the row, or the file is when none is;
* `KickInv`: as long as nothing was ever disturbed, a user who must go is out for good, or a
  writer will still queue a kick, or a kick is queued *behind* a snapshot that locks the
  user out. That is the order of the two INSERTs of `queueLocalAuthRefresh`: with the kick
  first, a client would reconnect before the snapshot is applied.

`FileInv` and `AgentInv` give `NeverRollsBack`, `CurrentInv` gives `RefreshRepairs`, `KickInv`
gives `LockedOutStaysOut`. `OneByOneAgrees` is the counterpart of finding 2: in a behaviour in
which operations never overlap (`OneByOne`, a hypothesis about the panel that the code does
not enforce), an agent that lost nothing admits what the row says once all is settled. It
follows from `CurrentInv` and `Orderly`: without losses only an overlap disturbs. `QueueAsSpecified` says that the module uses the queue as
TaskDelivery specifies it and in no other way; with `ImplementsDelivery` of the task queue,
what is proved here does not depend on how the queue is built.

**Traffic.** `Conservation` sums over the syncs with a fold. The library's induction over
finite sets takes an operator, which no installed prover instantiates; `MinimalMember`
replaces it: a family of finite sets has a member none of whose proper subsets is a
member, so a counterexample to a fact about sums has a minimal one. From that follow
`SumsExist`, `SumsRemove` (any element may be taken out first) and `SumsChange` (one term
changes), and `NothingBilledTwice` is one equation per action. `NotBeforeHalf` needs
`HalfInv`: the amount a sync checks the quota with is in the row by then, and the value of a
heartbeat was sent; each of the two numbers that are added is at most the traffic, so a
byte counts twice at most. `OverQuotaIsNoticed` (`Noticed`, inductive with the types) is the half
of `QuotaEnforced` that needs no fairness: unless something failed, a row that holds the quota is that
of a suspended user or of one whom a sync will check or suspend; a check that finds the user
suspended by another sync may leave, as nothing here takes the status back.
`GigabytesBounded` limits finding 4: `used_gb` lies between `used_bytes` and twice
`used_bytes` in gigabytes, as each UPDATE starts from the bytes again.

**Console.**

* `NodeConsoleProofs`: `Owned` needs `OwnedInv`: a slot is idle or holds a handler
  with its fields, and the slot named by `busyAction` is among those under way.
  The finally of any handler empties the slot whoever holds it, so the only danger
  is a handler that ends without emptying it, as the background sync does when it
  finds another key; that other key is then owned by another handler.
  `OwnSecrets` needs only that the form keeps its fields (`SecretInv`): whatever
  fills or empties a form masks its secrets, and late answers ask for the node.
  `TypeCorrect` carries that the list of the panel names no node twice (`Removed`,
  `Prepended`), which makes a deletion remove the node from the set as well. `Unique`
  rests on it. Check and write are two steps, so what the check saw must be kept up to the
  write: `Kept` says that live nodes have addresses of their own, that for every save
  which passed the check its address is still free, and that two such saves of one address
  are about the same row. `UniqueInv` demands this until the history variable `raced`
  says that the last part failed.
* `AccountConsoleProofs`: `OwnInv` says that the form is that of the account that is
  edited whether or not it is shown; `OwnForms` follows, as a request takes both
  along. `OwnLinks` and `Labels` (with `OwnInv` for the types) are inductive, and so are the
  types, once the dialog of the link is known to be a record (`TypeInv`).
* `ConsolePagesProofs` lifts these results to the composition that the run checks: a
  behaviour of MCConsolePages is one of every page (`NodesRun`, `ListsRun`, `LogsRun`,
  `AuthRuns`, `MockRuns`), since a step is a step of the page or leaves it alone. It also
  proves what holds of the other pages. Logs: `Automatic` and `OfSource` are inductive as
  they stand. Sign-in: `ForgottenOnceRead` says that page and storage agree from the moment
  the storage was read, not only at the end of bootstrap. Mock data: `ClampIs` and
  `FittedIs` say what `clampNumber` and the fitting of the node states compute, `Normalises`
  that a normalised configuration fits and is left alone by another normalisation, and
  `CountsFit` that this survives any sequence of entries; `PagesShowAll` that leafing through
  any list with any page size shows every item, in order and once.
* `ConsoleViewsProofs` proves about MCConsoleViews itself: `SelectionInv` adds to
  `ShownIsSelected` that the latest request is for the selection, too, and that
  nothing is requested as long as nothing is selected; `NodeTimerConfined` is
  inductive. For the types, `DialogInv` adds that an invalid configuration is never sent.

**Only model-checked.** Liveness (`QueueDrains`, `DeletedServesNobody`,
`LoopTakesNodeDown`, `SuspensionTakesEffect`, `QuotaEnforced`, `StatusesSettle`,
`PollingNeverStuck`, `ConfirmationSettles`), which needs fairness and ENABLED; and
`MockPagesCover` (pages show every group once and in order, groups hold every record once, and
nobody is online on a node shown as stopped), whose records are built with `FlattenSeq` and `SelectSeq`, recursive
definitions over sequences about which nothing can be proved by induction here (its part
about pages is `PagesShowAll`).

## 6. What is taken as given

* Outside of the repository: systemd (restart, and that `KillMode` by default
  kills the whole control group, so the script may die with the agent), Hysteria
  (counters restart at zero when read with `clear=1` or restarted; no
  authentication without the agent), MySQL (a statement is atomic, identifiers
  increase, assignments of an UPDATE run from left to right).
* The panel is one process and keeps nothing of the modelled parts in memory
  other than the requests under way.
* The browser: one thread, `localStorage` survives a reload, a dialog covers what lies
  beneath it. The operator has one tab of the console open; other administrators act
  on the panel. Nothing is assumed of
  the clock of the browser.
* Signatures are not forged; the clocks of panel and agent agree.
* Merged steps: the three statements of `recordTrafficSnapshot`; `heartbeat` with
  `enforceRealtimeTrafficQuota`, whose row can only grow between read and
  suspension; in `saveNode`, the read of the row that is edited with the check of the
  address (of the row only whether it is live matters, and a row deleted between the two
  may as well be deleted after both).

## 7. Not modelled

* Of the console: appearance, settings and notification forms (read once, written back
  whole), traffic charts, rates and history rows, rows of the audit log, the text of
  filters, checks of a form before it is sent, toasts and layout, a second tab.
  Answers for an older filter text that come after those for a newer one are not told
  apart (`AccountConsole` keeps no text).
* Of panel and agent: what `PROJECT.json` lists as `not_modelled`, with the reason.
  Cryptography, rendering of subscriptions, SSH sessions, archives and charts are I/O
  or formatting.

## 8. Plan

1. TaskDelivery, AgentTasks, AgentTasksProofs – done.
2. NodeDeletion, NodeDeletionProofs – done.
3. LocalAuthSync, LocalAuthSyncProofs – done.
4. TrafficAccounting, TrafficAccountingProofs – done; to add: an administrator editing a
   user during a sync.
5. NodeConsole, NodeStatuses, AccountConsole, ConsoleSections, ConsoleAuth, MonitorView,
   CpuDialog, MockPanel and their proofs – done; to add: the text of the filter.
6. HeartbeatGuard: the credential check with expiry, quota and the guard; the
   state file as whole, empty or torn; abstract specification "admits whom the
   last complete snapshot admits".
7. ServiceWatchdog: stop intent, configuration writes, upgrade and uninstall;
   theorem: a stopped service is started only by an operation that says so.
8. CpuProtection: controller, persisted ceiling, rollback; theorem: the baseline
   is never a limited quota.
9. MonitorQueue: buffer against uploader; theorem: samples are delivered in order.
10. NodeAlerts, LoginProtection, UserSync, AdminSafety, AgentUpgrade, JobRunner,
   Migrations, ReleasePrune, SshKeys, each with its hazard of `PROJECT.json`.
11. Compositions: deletion with the watchdog; traffic with local authentication.
