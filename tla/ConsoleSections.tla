-------------------------- MODULE ConsoleSections --------------------------
(***************************************************************************)
(* The sections of the web console: what setSection does behind its awaits,  *)
(* the two timers it starts and stops, and the log page, whose node, source  *)
(* and refresh mode may be changed while logs are being fetched.  What was    *)
(* started before a sign-out goes on behind it.                              *)
(***************************************************************************)
EXTENDS FiniteSets

CONSTANTS
    Roles,          \* roles of those who sign in
    Sections,       \* bound: the sections that are visited
    LogNodes,       \* nodes whose logs can be read
    Agents,         \* those of them that are managed by an agent
    Slots,          \* bound: continuations that wait at the same time
    None

\* What the constants are.
SectionsAssumption ==
    /\ Roles \subseteq {"super_admin", "operator", "auditor", "viewer"}
    /\ Sections \subseteq {"overview", "traffic", "monitor", "nodes", "users", "logsAudit",
                           "appearance", "notifications", "permissions"}
    /\ "overview" \in Sections /\ Agents \subseteq LogNodes /\ IsFiniteSet(Slots)
    /\ None \notin LogNodes \cup Roles

VARIABLES
    session,        \* the role of who is signed in, or None
    leaving,        \* handleLogout waits for its request
    section,        \* currentSection
    usersTimer,     \* userTrafficStatsTimer is set
    auditTimer,     \* auditLogAutoRefreshTimer is set
    mode,           \* auditLogRefreshMode
    logNode,        \* selectedLogNodeId
    source,         \* selectedLogSource
    text,           \* logsText: the source of the logs, or what is said instead
    loaded,         \* logsLoaded
    busy,           \* busyAction = 'logs'
    waiting         \* [Slots -> continuation]

choice == <<mode, logNode, source>>
logs == <<text, loaded>>
vars == <<session, leaving, section, usersTimer, auditTimer, choice, logs, busy, waiting>>

Nothing == [kind |-> "none", source |-> "service"]
\* Who waits: setSection for the log page or for another one, handleLogNodeChange, the
\* interval, handleLogSourceChange, the button of handleRefreshLogs.
LogKinds == {"logsAudit", "node", "tick", "source", "refresh"}

TypeOK ==
    /\ session \in Roles \cup {None} /\ section \in Sections
    /\ {leaving, usersTimer, auditTimer, loaded, busy} \subseteq BOOLEAN
    /\ mode \in {"auto", "manual"} /\ source \in {"service", "agent"}
    /\ logNode \in LogNodes \cup {None}
    /\ text \in {"", "service", "agent", "failed", "choose a node"}
    /\ waiting \in [Slots -> [kind : {"none", "users", "page", "audit", "node audit"} \cup LogKinds,
                              source : {"service", "agent"}]]

Init ==
    /\ session = None /\ leaving = FALSE /\ section = "overview"
    /\ usersTimer = FALSE /\ auditTimer = FALSE
    /\ mode = "auto" /\ logNode = None /\ source = "service"
    /\ text = "" /\ loaded = FALSE /\ busy = FALSE
    /\ waiting = [s \in Slots |-> Nothing]

-----------------------------------------------------------------------------
(* What a role may see.                                                    *)

permissions(role) ==
    CASE role = "super_admin" -> {"panel.view", "node.view", "user.view", "logs.view", "audit.view",
                                  "appearance.manage", "notification.manage", "admin.manage"}
      [] role = "operator" -> {"panel.view", "node.view", "user.view", "logs.view", "audit.view",
                               "appearance.manage", "notification.manage"}
      [] role = "auditor" -> {"panel.view", "node.view", "user.view", "logs.view", "audit.view"}
      [] role = "viewer" -> {"panel.view", "node.view", "user.view"}
      [] OTHER -> {}

hasPermission(permission) == permission \in permissions(session)

canAccessSection(id) ==
    CASE id \in {"overview", "traffic"} -> hasPermission("panel.view")
      [] id \in {"monitor", "nodes"} -> hasPermission("node.view")
      [] id = "users" -> hasPermission("user.view")
      [] id = "logsAudit" -> hasPermission("logs.view") \/ hasPermission("audit.view")
      [] id = "appearance" -> hasPermission("appearance.manage")
      [] id = "notifications" -> hasPermission("notification.manage")
      [] OTHER -> hasPermission("admin.manage")

-----------------------------------------------------------------------------
(* Timers.                                                                 *)

\* startUserTrafficStatsAutoRefresh stops the timer first.
startUserTrafficStatsAutoRefresh ==
    usersTimer' = (section = "users" /\ hasPermission("user.view"))

UsesAgent(n) == n \in Agents
startAuditLogAutoRefresh(n) == auditTimer' = UsesAgent(n)

\* Behind the awaits the mode of that moment counts.
AfterLogs_started == startAuditLogAutoRefresh(logNode)
AfterLogs ==
    IF mode = "auto" THEN startAuditLogAutoRefresh(logNode) ELSE UNCHANGED auditTimer

-----------------------------------------------------------------------------
(* Sections.                                                               *)

Wait(s, kind, from) ==
    /\ waiting[s] = Nothing
    /\ waiting' = [waiting EXCEPT ![s] = [kind |-> kind, source |-> from]]
Done(s) == waiting' = [waiting EXCEPT ![s] = Nothing]

\* Another section is chosen, or it is the one a sign-in ends with.  The log page reads
\* logs only when there are none; without a node there is nothing to wait for.
setSection(s, id) ==
    /\ canAccessSection(id) /\ section' = id
    /\ CASE id = "logsAudit" /\ ~loaded /\ logNode # None ->
              Wait(s, "logsAudit", source) /\ UNCHANGED logs
         [] id = "logsAudit" /\ ~loaded /\ logNode = None ->
              Wait(s, "audit", source) /\ text' = "choose a node" /\ loaded' = TRUE
         [] id = "logsAudit" /\ loaded -> Wait(s, "audit", source) /\ UNCHANGED logs
         [] id = "users" -> Wait(s, "users", source) /\ UNCHANGED logs
         [] OTHER -> Wait(s, "page", source) /\ UNCHANGED logs
    /\ UNCHANGED <<session, leaving, usersTimer, auditTimer, choice, busy>>

\* The page of the users was loaded, or only their traffic; or loadUsers throws.
UsersLoaded(s) ==
    /\ waiting[s].kind = "users" /\ Done(s)
    /\ startUserTrafficStatsAutoRefresh \/ UNCHANGED usersTimer
    /\ UNCHANGED <<session, leaving, section, auditTimer, choice, logs, busy>>

\* Whatever another section waited for, the timer of the users is stopped afterwards, also
\* when the operator has gone back to them.
PageLoaded(s) ==
    /\ waiting[s].kind = "page" /\ Done(s) /\ usersTimer' = FALSE
    /\ UNCHANGED <<session, leaving, section, auditTimer, choice, logs, busy>>

\* The audit log was read, or could not be, or was there: setSection goes on, or
\* handleLogNodeChange, which does not touch the timer of the users.
AuditLoaded(s) ==
    /\ waiting[s].kind \in {"audit", "node audit"} /\ Done(s) /\ AfterLogs
    /\ usersTimer' = (usersTimer /\ waiting[s].kind = "node audit")
    /\ UNCHANGED <<session, leaving, section, choice, logs, busy>>

\* A handler that started, stopped or restarted a node shows the nodes when it is through.
handleRestartNode ==
    /\ section' = "nodes" /\ "nodes" \in Sections
    /\ UNCHANGED <<session, leaving, usersTimer, auditTimer, choice, logs, busy, waiting>>

\* Any handler that reloads the nodes selects one when none is, or when the selected one
\* is gone.  The source stays.
loadNodes(n) ==
    /\ logNode' = n /\ n # logNode
    /\ UNCHANGED <<session, leaving, section, usersTimer, auditTimer, mode, source, logs, busy,
                   waiting>>

-----------------------------------------------------------------------------
(* The log page.                                                           *)

OnLogPage == session # None /\ section = "logsAudit"

handleAuditLogRefreshModeChange ==
    /\ OnLogPage
    /\ IF mode = "manual" THEN mode' = "auto" /\ startAuditLogAutoRefresh(logNode)
                          ELSE mode' = "manual" /\ auditTimer' = FALSE
    /\ UNCHANGED <<session, leaving, section, usersTimer, logNode, source, logs, busy, waiting>>

handleLogNodeChange(s, n) ==
    /\ OnLogPage /\ n # logNode /\ hasPermission("logs.view")
    /\ logNode' = n /\ source' = IF UsesAgent(n) THEN source ELSE "service"
    /\ loaded' = FALSE /\ auditTimer' = FALSE
    /\ Wait(s, "node", source')
    /\ UNCHANGED <<session, leaving, section, usersTimer, mode, text, busy>>

\* A source of logs was chosen: its button is disabled for nodes without an agent.
handleLogSourceChange(s, to) ==
    /\ OnLogPage /\ ~busy /\ to # source /\ (to = "agent" => UsesAgent(logNode))
    /\ source' = to
    /\ IF logNode = None
       THEN text' = "choose a node" /\ loaded' = TRUE /\ UNCHANGED <<busy, waiting>>
       ELSE loaded' = FALSE /\ busy' = TRUE /\ Wait(s, "source", to) /\ UNCHANGED text
    /\ UNCHANGED <<session, leaving, section, usersTimer, auditTimer, mode, logNode>>

handleRefreshLogs(s) ==
    /\ OnLogPage /\ ~busy /\ logNode # None /\ ~(mode = "auto" /\ UsesAgent(logNode))
    /\ busy' = TRUE /\ Wait(s, "refresh", source)
    /\ UNCHANGED <<session, leaving, section, usersTimer, auditTimer, choice, logs>>

\* The interval fires every second, whatever section is open.
Tick(s) ==
    /\ auditTimer /\ hasPermission("logs.view")
    /\ IF logNode = None
       THEN text' = "choose a node" /\ loaded' = TRUE /\ UNCHANGED waiting
       ELSE Wait(s, "tick", source) /\ UNCHANGED logs
    /\ UNCHANGED <<session, leaving, section, usersTimer, auditTimer, choice, busy>>

\* loadLogs and handleRefreshLogs keep an answer only if its source is still selected;
\* that the node is still selected they do not ask.
Kept_any(from) == text' = from /\ loaded' = TRUE
Kept(from) ==
    IF from = source THEN text' = from /\ loaded' = TRUE ELSE UNCHANGED logs

\* How the handler goes on that waited for logs.
Continue(s) ==
    LET kind == waiting[s].kind IN
    IF kind \in {"logsAudit", "node"} /\ hasPermission("audit.view")
    THEN /\ waiting' = [waiting EXCEPT ![s].kind = IF kind = "node" THEN "node audit" ELSE "audit"]
         /\ UNCHANGED <<auditTimer, usersTimer, busy>>
    ELSE /\ Done(s)
         /\ IF kind \in {"logsAudit", "node"} THEN AfterLogs ELSE UNCHANGED auditTimer
         /\ usersTimer' = (usersTimer /\ kind # "logsAudit")
         /\ busy' = (busy /\ kind \notin {"source", "refresh"})

LogsRead(s) ==
    /\ waiting[s].kind \in LogKinds
    /\ Kept(waiting[s].source) /\ Continue(s)
    /\ UNCHANGED <<session, leaving, section, choice>>

LogsNotRead(s) ==
    /\ waiting[s].kind \in LogKinds
    /\ text' = IF waiting[s].kind \in {"tick", "refresh"} THEN text ELSE "failed"
    /\ Continue(s)
    /\ UNCHANGED <<session, leaving, section, choice, loaded>>

-----------------------------------------------------------------------------
(* Signing in and out.                                                     *)

handleLogin(role) ==
    /\ session = None /\ session' = role /\ loaded' = FALSE
    /\ UNCHANGED <<leaving, section, usersTimer, auditTimer, choice, text, busy, waiting>>

\* The timer of the users is stopped before the request, that of the logs after it.
handleLogout ==
    /\ session # None /\ ~leaving /\ leaving' = TRUE /\ usersTimer' = FALSE
    /\ UNCHANGED <<session, section, auditTimer, choice, logs, busy, waiting>>

LoggedOut ==
    /\ leaving /\ leaving' = FALSE
    /\ session' = None /\ section' = "overview" /\ logNode' = None
    /\ text' = "" /\ loaded' = FALSE /\ auditTimer' = FALSE
    /\ UNCHANGED <<usersTimer, mode, source, busy, waiting>>

LogoutFails ==
    /\ leaving /\ leaving' = FALSE
    /\ UNCHANGED <<session, section, usersTimer, auditTimer, choice, logs, busy, waiting>>

Next ==
    \/ \E role \in Roles : handleLogin(role)
    \/ handleLogout \/ LoggedOut \/ LogoutFails
    \/ handleAuditLogRefreshModeChange \/ handleRestartNode
    \/ \E n \in LogNodes : loadNodes(n)
    \/ \E s \in Slots :
          \/ \E id \in Sections : setSection(s, id)
          \/ UsersLoaded(s) \/ PageLoaded(s) \/ AuditLoaded(s)
          \/ \E n \in LogNodes : handleLogNodeChange(s, n)
          \/ \E to \in {"service", "agent"} : handleLogSourceChange(s, to)
          \/ handleRefreshLogs(s) \/ Tick(s) \/ LogsRead(s) \/ LogsNotRead(s)

Spec == Init /\ [][Next]_vars

-----------------------------------------------------------------------------
(* Properties.                                                             *)

\* The logs are fetched by themselves only in the mode that says so, although a timer is
\* started behind awaits during which the mode, the node and the section may change.
AutoOnlyInAuto == auditTimer => mode = "auto"

\* Logs that count as loaded are of the source that is selected, in whatever order the
\* answers for one source and the other come.
LogsMatchSource == loaded /\ text \in {"service", "agent"} => text = source

=============================================================================
