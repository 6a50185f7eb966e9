------------------------- MODULE ConsolePagesProofs -------------------------
(***************************************************************************)
(* Proofs about the console as MCConsolePages composes it, for every value    *)
(* of the constants.  A behaviour of the console is a behaviour of each of    *)
(* its pages, so what was proved of a page holds of the console: of nodes and   *)
(* accounts in modules of their own, of the other pages here.                *)
(***************************************************************************)
EXTENDS MCConsolePages, Sequences, TLAPS

-----------------------------------------------------------------------------
(* Every step of the console is one of a page or leaves the page alone.      *)

\* The node page runs as NodeConsole says.
LEMMA NodesRun == Spec => Nodes!Spec
<1>1. Init => Nodes!Init
  BY DEF Init
<1>2. [Next]_vars => [Nodes!Next]_Nodes!vars
  BY DEF Next, vars, nodesVars, Nodes!vars, Nodes!panel, Nodes!editor
<1> QED
  BY <1>1, <1>2, PTL DEF Spec, Nodes!Spec

\* The lists of accounts run as AccountConsole says.
LEMMA ListsRun == Spec => Lists!Spec
<1>1. Init => Lists!Init
  BY DEF Init
<1>2. [Next]_vars => [Lists!Next]_Lists!vars
  BY DEF Next, vars, accountsVars, Lists!vars, Lists!rows, Lists!editor
<1> QED
  BY <1>1, <1>2, PTL DEF Spec, Lists!Spec

\* Sections and logs run as ConsoleSections says.
LEMMA LogsRun == Spec => Logs!Spec
<1>1. Init => Logs!Init
  BY DEF Init
<1>2. [Next]_vars => [Logs!Next]_Logs!vars
  BY DEF Next, vars, logsVars, Logs!vars, Logs!choice, Logs!logs
<1> QED
  BY <1>1, <1>2, PTL DEF Spec, Logs!Spec

\* The sign-in runs as ConsoleAuth says.
LEMMA AuthRuns == Spec => Auth!Spec
<1>1. Init => Auth!Init
  BY DEF Init
<1>2. [Next]_vars => [Auth!Next]_Auth!vars
  BY DEF Next, vars, authVars, Auth!vars, Auth!browser, Auth!volatile
<1> QED
  BY <1>1, <1>2, PTL DEF Spec, Auth!Spec

\* The mock data are configured as MockPanel says.
LEMMA MockRuns == Spec => Mock!Spec
<1>1. Init => Mock!Init
  BY DEF Init
<1>2. [Next]_vars => [Mock!Next]_Mock!vars
  BY DEF Next, vars, mockVars, Mock!vars
<1> QED
  BY <1>1, <1>2, PTL DEF Spec, Mock!Spec

\* What page may say.
PageStays == page \in {"nodes", "accounts", "logs", "auth", "mock"}

\* A behaviour stays on its page.
LEMMA OnAPage == Spec => []PageStays
<1>1. Init => PageStays
  BY DEF Init, PageStays
<1>2. PageStays /\ [Next]_vars => PageStays'
  BY DEF Next, vars, PageStays
<1> QED
  BY <1>1, <1>2, PTL DEF Spec

-----------------------------------------------------------------------------
(* Sections and logs.                                                        *)

\* Nothing runs and nothing is loaded at first.
LEMMA LogsInit == Logs!Init => Logs!AutoOnlyInAuto /\ Logs!LogsMatchSource
  BY DEF Logs!Init, Logs!AutoOnlyInAuto, Logs!LogsMatchSource

\* A continuation that waited for logs starts the timer in the automatic mode only.
LEMMA ContinueKeepsMode ==
    ASSUME NEW s \in Slots, Logs!AutoOnlyInAuto, Logs!Continue(s), UNCHANGED mode
    PROVE  Logs!AutoOnlyInAuto'
  BY DEF Logs!Continue, Logs!AutoOnlyInAuto, Logs!AfterLogs, Logs!startAuditLogAutoRefresh

\* Whatever starts the timer asks for the mode of that moment.
LEMMA AutoNext == Logs!AutoOnlyInAuto /\ [Logs!Next]_Logs!vars => Logs!AutoOnlyInAuto'
<1> SUFFICES ASSUME Logs!AutoOnlyInAuto, [Logs!Next]_Logs!vars
             PROVE  Logs!AutoOnlyInAuto'
  OBVIOUS
<1> USE DEF Logs!AutoOnlyInAuto, Logs!choice
<1>1. CASE \E r \in Roles : Logs!handleLogin(r)
  BY <1>1 DEF Logs!handleLogin
<1>2. CASE Logs!handleLogout \/ Logs!LoggedOut \/ Logs!LogoutFails
  BY <1>2 DEF Logs!handleLogout, Logs!LoggedOut, Logs!LogoutFails
<1>3. CASE Logs!handleAuditLogRefreshModeChange
  BY <1>3 DEF Logs!handleAuditLogRefreshModeChange
<1>4. CASE Logs!handleRestartNode \/ \E n \in LogNodes : Logs!loadNodes(n)
  BY <1>4 DEF Logs!handleRestartNode, Logs!loadNodes
<1>5. ASSUME NEW s \in Slots, NEW id \in Sections, Logs!setSection(s, id)
      PROVE  Logs!AutoOnlyInAuto'
  BY <1>5 DEF Logs!setSection
<1>6. ASSUME NEW s \in Slots, Logs!UsersLoaded(s) \/ Logs!PageLoaded(s)
      PROVE  Logs!AutoOnlyInAuto'
  BY <1>6 DEF Logs!UsersLoaded, Logs!PageLoaded
<1>7. ASSUME NEW s \in Slots, Logs!AuditLoaded(s)
      PROVE  Logs!AutoOnlyInAuto'
  BY <1>7 DEF Logs!AuditLoaded, Logs!AfterLogs
<1>8. ASSUME NEW s \in Slots, NEW n \in LogNodes, Logs!handleLogNodeChange(s, n)
      PROVE  Logs!AutoOnlyInAuto'
  BY <1>8 DEF Logs!handleLogNodeChange
<1>9. ASSUME NEW s \in Slots, NEW to \in {"service", "agent"}, Logs!handleLogSourceChange(s, to)
      PROVE  Logs!AutoOnlyInAuto'
  BY <1>9 DEF Logs!handleLogSourceChange
<1>10. ASSUME NEW s \in Slots, Logs!handleRefreshLogs(s) \/ Logs!Tick(s)
       PROVE  Logs!AutoOnlyInAuto'
  BY <1>10 DEF Logs!handleRefreshLogs, Logs!Tick
<1>11. ASSUME NEW s \in Slots, Logs!LogsRead(s) \/ Logs!LogsNotRead(s)
       PROVE  Logs!AutoOnlyInAuto'
  BY <1>11, ContinueKeepsMode DEF Logs!LogsRead, Logs!LogsNotRead
<1>12. CASE UNCHANGED Logs!vars
  BY <1>12 DEF Logs!vars
<1> QED
  BY <1>1, <1>2, <1>3, <1>4, <1>5, <1>6, <1>7, <1>8, <1>9, <1>10, <1>11, <1>12 DEF Logs!Next

\* A change of the source makes the logs count as not loaded; an answer is kept only for
\* the source that is selected.
LEMMA SourceNext == Logs!LogsMatchSource /\ [Logs!Next]_Logs!vars => Logs!LogsMatchSource'
<1> SUFFICES ASSUME Logs!LogsMatchSource, [Logs!Next]_Logs!vars
             PROVE  Logs!LogsMatchSource'
  OBVIOUS
<1> USE DEF Logs!LogsMatchSource, Logs!choice, Logs!logs
<1>1. CASE \E r \in Roles : Logs!handleLogin(r)
  BY <1>1 DEF Logs!handleLogin
<1>2. CASE Logs!handleLogout \/ Logs!LoggedOut \/ Logs!LogoutFails
  BY <1>2 DEF Logs!handleLogout, Logs!LoggedOut, Logs!LogoutFails
<1>3. CASE Logs!handleAuditLogRefreshModeChange
  BY <1>3 DEF Logs!handleAuditLogRefreshModeChange
<1>4. CASE Logs!handleRestartNode \/ \E n \in LogNodes : Logs!loadNodes(n)
  BY <1>4 DEF Logs!handleRestartNode, Logs!loadNodes
<1>5. ASSUME NEW s \in Slots, NEW id \in Sections, Logs!setSection(s, id)
      PROVE  Logs!LogsMatchSource'
  BY <1>5 DEF Logs!setSection
<1>6. ASSUME NEW s \in Slots, Logs!UsersLoaded(s) \/ Logs!PageLoaded(s) \/ Logs!AuditLoaded(s)
      PROVE  Logs!LogsMatchSource'
  BY <1>6 DEF Logs!UsersLoaded, Logs!PageLoaded, Logs!AuditLoaded
<1>7. ASSUME NEW s \in Slots, NEW n \in LogNodes, Logs!handleLogNodeChange(s, n)
      PROVE  Logs!LogsMatchSource'
  BY <1>7 DEF Logs!handleLogNodeChange
<1>8. ASSUME NEW s \in Slots, NEW to \in {"service", "agent"}, Logs!handleLogSourceChange(s, to)
      PROVE  Logs!LogsMatchSource'
  BY <1>8 DEF Logs!handleLogSourceChange
<1>9. ASSUME NEW s \in Slots, Logs!handleRefreshLogs(s) \/ Logs!Tick(s)
      PROVE  Logs!LogsMatchSource'
  BY <1>9 DEF Logs!handleRefreshLogs, Logs!Tick
<1>10. ASSUME NEW s \in Slots, Logs!LogsRead(s)
       PROVE  Logs!LogsMatchSource'
  BY <1>10 DEF Logs!LogsRead, Logs!Kept
<1>11. ASSUME NEW s \in Slots, Logs!LogsNotRead(s)
       PROVE  Logs!LogsMatchSource'
  BY <1>11 DEF Logs!LogsNotRead
<1>12. CASE UNCHANGED Logs!vars
  BY <1>12 DEF Logs!vars
<1> QED
  BY <1>1, <1>2, <1>3, <1>4, <1>5, <1>6, <1>7, <1>8, <1>9, <1>10, <1>11, <1>12 DEF Logs!Next

\* The logs are fetched by themselves in the automatic mode only, for any number of
\* sections, nodes and continuations.
LEMMA Automatic == Logs!Spec => []Logs!AutoOnlyInAuto
  BY LogsInit, AutoNext, PTL DEF Logs!Spec

\* Logs that count as loaded are of the source that is selected, for any number of sections,
\* nodes and continuations.
LEMMA OfSource == Logs!Spec => []Logs!LogsMatchSource
  BY LogsInit, SourceNext, PTL DEF Logs!Spec

-----------------------------------------------------------------------------
(* The types of sections and logs.                                          *)

\* Nothing waits at first.
LEMMA LogsTypeInit == ASSUME Logs!SectionsAssumption, Logs!Init PROVE Logs!TypeOK
<1>1. waiting \in [Slots -> [kind : {"none", "users", "page", "audit", "node audit"}
                                        \cup Logs!LogKinds, source : {"service", "agent"}]]
  BY DEF Logs!Init, Logs!Nothing
<1> QED
  BY <1>1 DEF Logs!SectionsAssumption, Logs!Init, Logs!TypeOK

\* What a continuation waits for.
Waitings == [kind : {"none", "users", "page", "audit", "node audit"} \cup Logs!LogKinds,
             source : {"service", "agent"}]

\* A continuation that starts to wait is one of the kinds.
LEMMA WaitType ==
    ASSUME waiting \in [Slots -> Waitings], NEW s \in Slots, NEW from \in {"service", "agent"},
           NEW what \in {"none", "users", "page", "audit", "node audit"} \cup Logs!LogKinds,
           Logs!Wait(s, what, from)
    PROVE  waiting' \in [Slots -> Waitings]
<1> DEFINE w == [kind |-> what, source |-> from]
<1>1. w \in Waitings /\ waiting' = [waiting EXCEPT ![s] = w]
  BY DEF Waitings, Logs!Wait
<1> HIDE DEF w
<1> QED
  BY <1>1

\* So is one that is done.
LEMMA DoneType ==
    ASSUME waiting \in [Slots -> Waitings], NEW s \in Slots, Logs!Done(s)
    PROVE  waiting' \in [Slots -> Waitings]
<1>1. Logs!Nothing \in Waitings
  BY DEF Logs!Nothing, Waitings
<1> QED
  BY <1>1 DEF Logs!Done

\* The timer of the logs is started or stopped, or left alone.
LEMMA TimerType ==
    ASSUME auditTimer \in BOOLEAN,
           Logs!AfterLogs \/ UNCHANGED auditTimer \/ \E n : Logs!startAuditLogAutoRefresh(n)
    PROVE  auditTimer' \in BOOLEAN
<1>1. ASSUME NEW n, Logs!startAuditLogAutoRefresh(n)
      PROVE  auditTimer' \in BOOLEAN
  <2>1. Logs!UsesAgent(n) \in BOOLEAN
    BY DEF Logs!UsesAgent
  <2>2. auditTimer' = Logs!UsesAgent(n)
    BY <1>1 DEF Logs!startAuditLogAutoRefresh
  <2> QED
    BY <2>1, <2>2
<1>2. CASE Logs!AfterLogs
  BY <1>1, <1>2 DEF Logs!AfterLogs
<1> QED
  BY <1>1, <1>2

\* What follows the reading of logs: it waits for the audit rows, or it is done.
LEMMA ContinueType ==
    ASSUME Logs!TypeOK, NEW s \in Slots, Logs!Continue(s)
    PROVE  /\ waiting' \in [Slots -> Waitings]
           /\ {auditTimer', usersTimer', logsBusy'} \subseteq BOOLEAN
<1>1. waiting \in [Slots -> Waitings] /\ {auditTimer, usersTimer, logsBusy} \subseteq BOOLEAN
  BY DEF Logs!TypeOK, Waitings
<1> DEFINE what == waiting[s].kind
<1>2. CASE what \in {"logsAudit", "node"} /\ Logs!hasPermission("audit.view")
  <2> DEFINE w == [waiting[s] EXCEPT !.kind = IF what = "node" THEN "node audit" ELSE "audit"]
  <2>1. waiting' = [waiting EXCEPT ![s] = w] /\ UNCHANGED <<auditTimer, usersTimer, logsBusy>>
    BY <1>2 DEF Logs!Continue
  <2>2. w \in Waitings
    BY <1>1 DEF Waitings
  <2> HIDE DEF w
  <2> QED
    BY <1>1, <2>1, <2>2
<1>3. CASE ~(what \in {"logsAudit", "node"} /\ Logs!hasPermission("audit.view"))
  <2>1. Logs!Done(s)
    BY <1>3 DEF Logs!Continue
  <2>2. /\ usersTimer' = (usersTimer /\ what # "logsAudit")
        /\ logsBusy' = (logsBusy /\ what \notin {"source", "refresh"})
        /\ Logs!AfterLogs \/ UNCHANGED auditTimer
    BY <1>3 DEF Logs!Continue
  <2>3. auditTimer' \in BOOLEAN
    BY <1>1, <2>2, TimerType
  <2> QED
    BY <1>1, <2>1, <2>2, <2>3, DoneType
<1> QED
  BY <1>2, <1>3

\* Every handler and every continuation keeps the types.
LEMMA LogsTypeNext ==
    ASSUME Logs!SectionsAssumption, Logs!TypeOK, [Logs!Next]_Logs!vars
    PROVE  Logs!TypeOK'
<1> USE DEF Logs!choice, Logs!logs
<1>0. waiting \in [Slots -> Waitings]
  BY DEF Logs!TypeOK, Waitings
<1>a. waiting' \in [Slots -> Waitings] <=>
        waiting' \in [Slots -> [kind : {"none", "users", "page", "audit", "node audit"}
                                          \cup Logs!LogKinds, source : {"service", "agent"}]]
  BY DEF Waitings
<1>1. CASE \E r \in Roles : Logs!handleLogin(r)
  BY <1>1 DEF Logs!handleLogin, Logs!TypeOK
<1>2. CASE Logs!handleLogout \/ Logs!LoggedOut \/ Logs!LogoutFails
  BY <1>2 DEF Logs!handleLogout, Logs!LoggedOut, Logs!LogoutFails, Logs!TypeOK,
              Logs!SectionsAssumption
<1>3. CASE Logs!handleAuditLogRefreshModeChange
  <2>1. auditTimer' \in BOOLEAN
    <3>1. Logs!startAuditLogAutoRefresh(logNode) \/ auditTimer' = FALSE
      BY <1>3 DEF Logs!handleAuditLogRefreshModeChange
    <3> QED
      BY <3>1, TimerType DEF Logs!TypeOK
  <2> QED
    BY <1>3, <2>1 DEF Logs!handleAuditLogRefreshModeChange, Logs!TypeOK
<1>4. CASE Logs!handleRestartNode \/ \E n \in LogNodes : Logs!loadNodes(n)
  BY <1>4 DEF Logs!handleRestartNode, Logs!loadNodes, Logs!TypeOK
<1>5. ASSUME NEW s \in Slots, NEW id \in Sections, Logs!setSection(s, id)
      PROVE  Logs!TypeOK'
  <2>1. waiting' \in [Slots -> Waitings]
    <3>1. \E what \in {"logsAudit", "audit", "users", "page"} : Logs!Wait(s, what, source)
      BY <1>5 DEF Logs!setSection
    <3>2. source \in {"service", "agent"}
      BY DEF Logs!TypeOK
    <3>3. {"logsAudit", "audit", "users", "page"} \subseteq
             {"none", "users", "page", "audit", "node audit"} \cup Logs!LogKinds
      BY DEF Logs!LogKinds
    <3> QED
      BY <1>0, <3>1, <3>2, <3>3, WaitType
  <2>2. text' \in {text, "choose a node"} /\ loaded' \in BOOLEAN
    BY <1>5 DEF Logs!setSection, Logs!TypeOK
  <2> QED
    BY <1>5, <1>a, <2>1, <2>2 DEF Logs!setSection, Logs!TypeOK
<1>6. ASSUME NEW s \in Slots, Logs!UsersLoaded(s)
      PROVE  Logs!TypeOK'
  <2>1. waiting' \in [Slots -> Waitings]
    BY <1>0, <1>6, DoneType DEF Logs!UsersLoaded
  <2>2. usersTimer' \in BOOLEAN
    BY <1>6 DEF Logs!UsersLoaded, Logs!startUserTrafficStatsAutoRefresh, Logs!hasPermission,
       Logs!TypeOK
  <2> QED
    BY <1>6, <1>a, <2>1, <2>2 DEF Logs!UsersLoaded, Logs!TypeOK
<1>7. ASSUME NEW s \in Slots, Logs!PageLoaded(s)
      PROVE  Logs!TypeOK'
  <2>1. waiting' \in [Slots -> Waitings]
    BY <1>0, <1>7, DoneType DEF Logs!PageLoaded
  <2> QED
    BY <1>7, <1>a, <2>1 DEF Logs!PageLoaded, Logs!TypeOK
<1>8. ASSUME NEW s \in Slots, Logs!AuditLoaded(s)
      PROVE  Logs!TypeOK'
  <2>1. waiting' \in [Slots -> Waitings]
    BY <1>0, <1>8, DoneType DEF Logs!AuditLoaded
  <2>2. auditTimer' \in BOOLEAN /\ usersTimer' \in BOOLEAN
    <3>1. Logs!AfterLogs /\ usersTimer' = (usersTimer /\ waiting[s].kind = "node audit")
      BY <1>8 DEF Logs!AuditLoaded
    <3>2. auditTimer' \in BOOLEAN
      BY <3>1, TimerType DEF Logs!TypeOK
    <3> QED
      BY <3>1, <3>2 DEF Logs!TypeOK
  <2> QED
    BY <1>8, <1>a, <2>1, <2>2 DEF Logs!AuditLoaded, Logs!TypeOK
<1>9. ASSUME NEW s \in Slots, NEW n \in LogNodes, Logs!handleLogNodeChange(s, n)
      PROVE  Logs!TypeOK'
  <2>1. source' \in {"service", "agent"}
    BY <1>9 DEF Logs!handleLogNodeChange, Logs!TypeOK
  <2>2. waiting' \in [Slots -> Waitings]
    <3>1. Logs!Wait(s, "node", source') /\ "node" \in Logs!LogKinds
      BY <1>9 DEF Logs!handleLogNodeChange, Logs!LogKinds
    <3> QED
      BY <1>0, <2>1, <3>1, WaitType
  <2> QED
    BY <1>9, <1>a, <2>1, <2>2 DEF Logs!handleLogNodeChange, Logs!TypeOK
<1>10. ASSUME NEW s \in Slots, NEW to \in {"service", "agent"}, Logs!handleLogSourceChange(s, to)
       PROVE  Logs!TypeOK'
  <2>1. waiting' \in [Slots -> Waitings]
    <3>1. CASE logNode = None
      BY <1>0, <1>10, <3>1 DEF Logs!handleLogSourceChange
    <3>2. CASE logNode # None
      <4>1. Logs!Wait(s, "source", to) /\ "source" \in Logs!LogKinds
        BY <1>10, <3>2 DEF Logs!handleLogSourceChange, Logs!LogKinds
      <4> QED
        BY <1>0, <4>1, WaitType
    <3> QED
      BY <3>1, <3>2
  <2>2. text' \in {text, "choose a node"} /\ loaded' \in BOOLEAN /\ logsBusy' \in BOOLEAN
    BY <1>10 DEF Logs!handleLogSourceChange, Logs!TypeOK
  <2> QED
    BY <1>10, <1>a, <2>1, <2>2 DEF Logs!handleLogSourceChange, Logs!TypeOK
<1>11. ASSUME NEW s \in Slots, Logs!handleRefreshLogs(s)
       PROVE  Logs!TypeOK'
  <2>1. waiting' \in [Slots -> Waitings]
    <3>1. Logs!Wait(s, "refresh", source) /\ "refresh" \in Logs!LogKinds
      BY <1>11 DEF Logs!handleRefreshLogs, Logs!LogKinds
    <3> QED
      BY <1>0, <3>1, WaitType DEF Logs!TypeOK
  <2> QED
    BY <1>11, <1>a, <2>1 DEF Logs!handleRefreshLogs, Logs!TypeOK
<1>12. ASSUME NEW s \in Slots, Logs!Tick(s)
       PROVE  Logs!TypeOK'
  <2>1. waiting' \in [Slots -> Waitings]
    <3>1. UNCHANGED waiting \/ Logs!Wait(s, "tick", source)
      BY <1>12 DEF Logs!Tick
    <3>2. "tick" \in Logs!LogKinds
      BY DEF Logs!LogKinds
    <3> QED
      BY <1>0, <3>1, <3>2, WaitType DEF Logs!TypeOK
  <2>2. text' \in {text, "choose a node"} /\ loaded' \in BOOLEAN
    BY <1>12 DEF Logs!Tick, Logs!TypeOK
  <2> QED
    BY <1>12, <1>a, <2>1, <2>2 DEF Logs!Tick, Logs!TypeOK
<1>13. ASSUME NEW s \in Slots, Logs!LogsRead(s)
       PROVE  Logs!TypeOK'
  <2>1. /\ waiting' \in [Slots -> Waitings]
        /\ {auditTimer', usersTimer', logsBusy'} \subseteq BOOLEAN
    BY <1>13, ContinueType DEF Logs!LogsRead
  <2>2. text' \in {text, "service", "agent"} /\ loaded' \in BOOLEAN
    BY <1>0, <1>13 DEF Logs!LogsRead, Logs!Kept, Logs!TypeOK, Waitings
  <2> QED
    BY <1>13, <1>a, <2>1, <2>2 DEF Logs!LogsRead, Logs!TypeOK
<1>14. ASSUME NEW s \in Slots, Logs!LogsNotRead(s)
       PROVE  Logs!TypeOK'
  <2>1. /\ waiting' \in [Slots -> Waitings]
        /\ {auditTimer', usersTimer', logsBusy'} \subseteq BOOLEAN
    BY <1>14, ContinueType DEF Logs!LogsNotRead
  <2> QED
    BY <1>14, <1>a, <2>1 DEF Logs!LogsNotRead, Logs!TypeOK
<1>15. CASE UNCHANGED Logs!vars
  BY <1>15 DEF Logs!vars, Logs!TypeOK
<1> QED
  BY <1>1, <1>2, <1>3, <1>4, <1>5, <1>6, <1>7, <1>8, <1>9, <1>10, <1>11, <1>12, <1>13, <1>14,
     <1>15 DEF Logs!Next

\* Every variable of sections and logs has its type.
LEMMA LogsTypes == Logs!Spec => []Logs!TypeOK
<1>1. Logs!Init => Logs!TypeOK
  BY PagesAssumption, LogsTypeInit
<1>2. Logs!TypeOK /\ [Logs!Next]_Logs!vars => Logs!TypeOK'
  BY PagesAssumption, LogsTypeNext
<1> QED
  BY <1>1, <1>2, PTL DEF Logs!Spec

-----------------------------------------------------------------------------
(* The sign-in.                                                              *)

\* SignedOutIsForgotten only speaks of the end of bootstrap; what makes it inductive is
\* that page and storage agree from the moment the storage was read.
StorageRead == boot \in {"me", "state", "done"}
ForgottenOnceRead == StorageRead /\ session = None => stored = None

\* Before bootstrap nothing was read.
LEMMA ForgottenInit == Auth!Init => ForgottenOnceRead
  BY DEF Auth!Init, ForgottenOnceRead, StorageRead

\* A step that empties the session of the page empties the storage as well.
LEMMA ForgottenNext == ForgottenOnceRead /\ [Auth!Next]_Auth!vars => ForgottenOnceRead'
<1> SUFFICES ASSUME ForgottenOnceRead, [Auth!Next]_Auth!vars
             PROVE  ForgottenOnceRead'
  OBVIOUS
<1> USE DEF ForgottenOnceRead, StorageRead, Auth!browser
<1>1. CASE Auth!fetchSetupStatus
  BY <1>1 DEF Auth!fetchSetupStatus
<1>2. CASE Auth!SettingsRead
  BY <1>2 DEF Auth!SettingsRead
<1>3. CASE Auth!PanelAnswersMe
  BY <1>3 DEF Auth!PanelAnswersMe
<1>4. CASE Auth!CurrentSession
  BY <1>4 DEF Auth!CurrentSession, Auth!StoredAfterUnauthorised, Auth!Show
<1>5. CASE Auth!CurrentSessionFails
  BY <1>5 DEF Auth!CurrentSessionFails
<1>6. CASE Auth!StateLoaded
  BY <1>6 DEF Auth!StateLoaded
<1>7. CASE Auth!handleInitializeSetup
  BY <1>7 DEF Auth!handleInitializeSetup
<1>8. ASSUME NEW account \in Administrators, Auth!handleLogin(account)
      PROVE  ForgottenOnceRead'
  BY <1>8 DEF Auth!handleLogin
<1>9. CASE Auth!ChallengeRead \/ Auth!PanelSignsIn \/ Auth!SignInEnds
  BY <1>9 DEF Auth!ChallengeRead, Auth!PanelSignsIn, Auth!SignInEnds
<1>10. CASE Auth!SignedIn
  BY <1>10 DEF Auth!SignedIn, Auth!Show
<1>11. CASE Auth!handleLogout \/ Auth!PanelSignsOut
  BY <1>11 DEF Auth!handleLogout, Auth!PanelSignsOut
<1>12. CASE Auth!SignedOut \/ Auth!SignOutFails
  BY <1>12 DEF Auth!SignedOut, Auth!SignOutFails
<1>13. CASE Auth!Reload
  BY <1>13 DEF Auth!Reload
<1>14. CASE Auth!TimePasses
  BY <1>14 DEF Auth!TimePasses, Auth!volatile
<1>15. CASE UNCHANGED Auth!vars
  BY <1>15 DEF Auth!vars, Auth!volatile
<1> QED
  BY <1>1, <1>2, <1>3, <1>4, <1>5, <1>6, <1>7, <1>8, <1>9, <1>10, <1>11, <1>12, <1>13, <1>14,
     <1>15 DEF Auth!Next

\* Once bootstrap is through, whoever sees the form to sign in has no session in the storage
\* that a reload would bring back, for any number of accounts.
LEMMA Forgotten == Auth!Spec => []Auth!SignedOutIsForgotten
<1>1. ForgottenOnceRead => Auth!SignedOutIsForgotten
  BY DEF ForgottenOnceRead, StorageRead, Auth!SignedOutIsForgotten
<1> QED
  BY <1>1, ForgottenInit, ForgottenNext, PTL DEF Auth!Spec

-----------------------------------------------------------------------------
(* The types of the sign-in.                                                *)

\* Nobody signs in at first.
LEMMA AuthTypeInit == ASSUME Auth!Init PROVE Auth!TypeOK
<1>1. signIn \in [at : {"none", "challenge", "request", "answered", "state"},
                  account : Administrators \cup {None}]
  BY DEF Auth!Init, Auth!NoSignIn
<1>2. cookie \in Administrators \cup {None}
  BY DEF Auth!Init
<1> QED
  BY <1>1, <1>2 DEF Auth!Init, Auth!TypeOK

\* Every step of bootstrap, of the sign-in and of the sign-out keeps the types.
LEMMA AuthTypeNext == ASSUME Auth!TypeOK, [Auth!Next]_Auth!vars PROVE Auth!TypeOK'
<1> DEFINE SignIns == [at : {"none", "challenge", "request", "answered", "state"},
                       account : Administrators \cup {None}]
<1>0. signIn \in SignIns /\ Auth!NoSignIn \in SignIns
  BY DEF Auth!TypeOK, Auth!NoSignIn
<1> USE DEF Auth!browser, Auth!TypeOK
<1>1. CASE Auth!fetchSetupStatus \/ Auth!SettingsRead
  BY <1>1 DEF Auth!fetchSetupStatus, Auth!SettingsRead
<1>2. CASE Auth!PanelAnswersMe
  BY <1>2 DEF Auth!PanelAnswersMe
<1>3. CASE Auth!CurrentSession
  <2>1. {stored', session'} \subseteq Administrators \cup {None} /\ expired' \in BOOLEAN
    <3>1. CASE me = Auth!Unauthorised
      BY <1>3, <3>1 DEF Auth!CurrentSession, Auth!StoredAfterUnauthorised
    <3>2. CASE me # Auth!Unauthorised
      BY <1>3, <3>2 DEF Auth!CurrentSession, Auth!Show
    <3> QED
      BY <3>1, <3>2
  <2> QED
    BY <1>3, <2>1 DEF Auth!CurrentSession
<1>4. CASE Auth!CurrentSessionFails \/ Auth!StateLoaded \/ Auth!handleInitializeSetup
  BY <1>4 DEF Auth!CurrentSessionFails, Auth!StateLoaded, Auth!handleInitializeSetup
<1>5. ASSUME NEW account \in Administrators, Auth!handleLogin(account)
      PROVE  Auth!TypeOK'
  <2>1. signIn' \in SignIns
    BY <1>5 DEF Auth!handleLogin
  <2> QED
    BY <1>5, <2>1 DEF Auth!handleLogin
<1>6. CASE Auth!ChallengeRead \/ Auth!PanelSignsIn \/ Auth!SignedIn \/ Auth!SignInEnds
  <2>1. signIn' \in SignIns
    BY <1>0, <1>6 DEF Auth!ChallengeRead, Auth!PanelSignsIn, Auth!SignedIn, Auth!SignInEnds
  <2>2. signIn.account \in Administrators \cup {None}
    BY <1>0
  <2>3. {cookie', stored', session'} \subseteq Administrators \cup {None} /\ expired' \in BOOLEAN
    BY <1>6, <2>2 DEF Auth!ChallengeRead, Auth!PanelSignsIn, Auth!SignedIn, Auth!SignInEnds,
                      Auth!Show
  <2> QED
    BY <1>6, <2>1, <2>3 DEF Auth!ChallengeRead, Auth!PanelSignsIn, Auth!SignedIn, Auth!SignInEnds
<1>7. CASE Auth!handleLogout \/ Auth!PanelSignsOut \/ Auth!SignedOut \/ Auth!SignOutFails
  BY <1>7 DEF Auth!handleLogout, Auth!PanelSignsOut, Auth!SignedOut, Auth!SignOutFails
<1>8. CASE Auth!Reload
  BY <1>0, <1>8 DEF Auth!Reload
<1>9. CASE Auth!TimePasses
  BY <1>9 DEF Auth!TimePasses, Auth!volatile
<1>10. CASE UNCHANGED Auth!vars
  BY <1>10 DEF Auth!vars, Auth!volatile
<1> QED
  BY <1>1, <1>2, <1>3, <1>4, <1>5, <1>6, <1>7, <1>8, <1>9, <1>10 DEF Auth!Next

\* Every variable of the sign-in has its type.
LEMMA AuthTypes == Auth!Spec => []Auth!TypeOK
  BY AuthTypeInit, AuthTypeNext, PTL DEF Auth!Spec

-----------------------------------------------------------------------------
(* The configuration of the mock mode.                                       *)

\* The larger of two.
LEMMA MaxIs == ASSUME NEW a \in Int, NEW b \in Int PROVE Mock!Max({a, b}) = IF a >= b THEN a ELSE b
  BY DEF Mock!Max

\* The smaller of two.
LEMMA MinIs == ASSUME NEW a \in Int, NEW b \in Int PROVE Mock!Min({a, b}) = IF a <= b THEN a ELSE b
  BY DEF Mock!Min

\* clampNumber stays within its limits and changes nothing that does.
LEMMA ClampIs ==
    ASSUME NEW value \in Int \cup {NotANumber}, NEW low \in Int, NEW high \in Int, low <= high,
           NEW fallback \in Int
    PROVE  /\ Mock!clampNumber(value, low, high, fallback) \in low..high
           /\ value # NotANumber /\ value \in low..high =>
                 Mock!clampNumber(value, low, high, fallback) = value
<1> DEFINE v == IF value = NotANumber THEN fallback ELSE value
<1>1. v \in Int
  OBVIOUS
<1> HIDE DEF v
<1>2. Mock!Min({high, v}) = IF high <= v THEN high ELSE v
  BY <1>1, MinIs
<1>3. Mock!Max({low, Mock!Min({high, v})}) = IF low >= Mock!Min({high, v}) THEN low
                                      ELSE Mock!Min({high, v})
  BY <1>1, <1>2, MaxIs
<1>4. Mock!clampNumber(value, low, high, fallback) = Mock!Max({low, Mock!Min({high, v})})
  BY DEF Mock!clampNumber, v
<1>5. Mock!clampNumber(value, low, high, fallback) \in low..high
  BY <1>1, <1>2, <1>3, <1>4
<1>6. v \in low..high => Mock!Max({low, Mock!Min({high, v})}) = v
  BY <1>1, <1>2, <1>3
<1> QED
  BY <1>4, <1>5, <1>6 DEF v

\* What FittedCounts takes from the states of nodes is what exceeds the nodes, no more: the
\* states fit afterwards, none becomes negative, and nothing is taken from states that fit.
LEMMA FittedIs ==
    ASSUME NEW n \in Nat, NEW r \in Nat, NEW d \in Nat, NEW s \in Nat
    PROVE  LET f == Mock!FittedCounts(n, r, d, s) IN
           /\ f.running \in 0..r /\ f.degraded \in 0..d /\ f.stopped \in 0..s
           /\ f.running + f.degraded + f.stopped <= n
           /\ r + d + s <= n => f.running = r /\ f.degraded = d /\ f.stopped = s
<1> DEFINE overflow == Mock!Max({0, r + d + s - n})
           ls == Mock!Min({overflow, s})
           ld == Mock!Min({overflow - ls, d})
           lr == Mock!Min({overflow - ls - ld, r})
<1>1. overflow = IF 0 >= r + d + s - n THEN 0 ELSE r + d + s - n
  BY MaxIs
<1>2. overflow \in Nat
  BY <1>1
<1>3. ls = (IF overflow <= s THEN overflow ELSE s) /\ ls \in 0..s /\ overflow - ls \in Nat
  <2> HIDE DEF overflow
  <2> QED
    BY <1>2, MinIs
<1>4. ld = (IF overflow - ls <= d THEN overflow - ls ELSE d) /\ ld \in 0..d
      /\ overflow - ls - ld \in Nat
  <2> HIDE DEF overflow, ls
  <2>1. overflow - ls \in Int
    BY <1>3
  <2>2. ld = IF overflow - ls <= d THEN overflow - ls ELSE d
    BY <2>1, MinIs
  <2> QED
    BY <1>2, <1>3, <2>2
<1>5. lr = (IF overflow - ls - ld <= r THEN overflow - ls - ld ELSE r) /\ lr \in 0..r
  <2> HIDE DEF overflow, ls, ld
  <2>1. overflow - ls - ld \in Int
    BY <1>4
  <2>2. lr = IF overflow - ls - ld <= r THEN overflow - ls - ld ELSE r
    BY <2>1, MinIs
  <2> QED
    BY <1>4, <2>2
<1> DEFINE f == Mock!FittedCounts(n, r, d, s)
<1>6. f.running = r - lr /\ f.degraded = d - ld /\ f.stopped = s - ls
  BY DEF Mock!FittedCounts
<1> HIDE DEF overflow, ls, ld, lr, f
<1>7. f.running \in 0..r /\ f.degraded \in 0..d /\ f.stopped \in 0..s
  BY <1>3, <1>4, <1>5, <1>6
<1>8. f.running + f.degraded + f.stopped <= n
  <2>1. CASE overflow = 0
    <3>1. r + d + s <= n
      BY <1>1, <2>1
    <3>2. ls = 0
      BY <1>3, <2>1
    <3>3. ld = 0
      BY <1>4, <2>1, <3>2
    <3>4. lr = 0
      BY <1>5, <2>1, <3>2, <3>3
    <3> QED
      BY <1>6, <3>1, <3>2, <3>3, <3>4
  <2>2. CASE overflow # 0
    <3>1. overflow = r + d + s - n /\ overflow <= r + d + s
      BY <1>1, <2>2
    <3>2. lr = overflow - ls - ld
      BY <1>3, <1>4, <1>5, <3>1
    <3> QED
      BY <1>2, <1>3, <1>4, <1>5, <1>6, <3>1, <3>2
  <2> QED
    BY <2>1, <2>2
<1>9. r + d + s <= n => f.running = r /\ f.degraded = d /\ f.stopped = s
  BY <1>1, <1>3, <1>4, <1>5, <1>6
<1> QED
  BY <1>7, <1>8, <1>9 DEF f

\* The nodes are numbered from 101.
LEMMA NodeIdsAre ==
    ASSUME NEW config, config.node_count \in Nat
    PROVE  Mock!NodeIds(config) = 101..(100 + config.node_count)
<1> DEFINE nodes == Mock!buildMockNodes(config)
           n == config.node_count
<1>1. nodes = [i \in 1..n |->
                 [id |-> 100 + i,
                  reported |-> IF (100 + i) % 3 = 0 THEN "none"
                              ELSE Mock!buildNodeStatuses(config)[i]]]
  BY DEF Mock!buildMockNodes
<1>2. DOMAIN nodes = 1..n /\ \A i \in 1..n : nodes[i].id = 100 + i
  BY <1>1
<1> HIDE DEF nodes
<1>3. Mock!NodeIds(config) = {nodes[i].id : i \in 1..n}
  BY <1>2 DEF Mock!NodeIds, Mock!ToSet, nodes
<1>4. Mock!NodeIds(config) = {100 + i : i \in 1..n}
  BY <1>2, <1>3
<1>5. ASSUME NEW id \in 101..(100 + n) PROVE id \in {100 + i : i \in 1..n}
  <2>1. id - 100 \in 1..n /\ id = 100 + (id - 100)
    OBVIOUS
  <2> QED
    BY <2>1
<1> QED
  BY <1>4, <1>5

\* A configuration in which everything fits.
Fits(c) ==
    /\ c.node_count \in 1..MaxNodes /\ c.user_count \in 1..MaxUsers
    /\ c.running_node_count \in Nat /\ c.degraded_node_count \in Nat /\ c.stopped_node_count \in Nat
    /\ c.running_node_count + c.degraded_node_count + c.stopped_node_count <= c.node_count
    /\ c.suspended_user_count \in 0..c.user_count

\* A normalised configuration fits, and one that fits is left as it is.
LEMMA Normalises ==
    ASSUME Mock!MockAssumption, NEW given,
           \A field \in Mock!Counts : given[field] \in Int \cup {NotANumber}
    PROVE  /\ Fits(Mock!normalizeMockPanelConfig(given))
           /\ Mock!normalizeMockPanelConfig(given) \in [Mock!Counts -> Nat]
           /\ given \in [Mock!Counts -> Nat] /\ Fits(given) =>
                 Mock!normalizeMockPanelConfig(given) = given
<1> DEFINE Clamped(field, low, high) == Mock!clampNumber(given[field], low, high, Default[field])
           nodes == Clamped("node_count", 1, MaxNodes)
           users == Clamped("user_count", 1, MaxUsers)
           runs == Clamped("running_node_count", 0, nodes)
           degrades == Clamped("degraded_node_count", 0, nodes)
           stops == Clamped("stopped_node_count", 0, nodes)
           suspended == Clamped("suspended_user_count", 0, users)
           fitted == Mock!FittedCounts(nodes, runs, degrades, stops)
           c == Mock!normalizeMockPanelConfig(given)
<1>1. MaxNodes \in Nat \ {0} /\ MaxUsers \in Nat \ {0} /\ NotANumber \notin Int
  BY DEF Mock!MockAssumption
<1>2. \A field \in Mock!Counts : Default[field] \in Int
  BY DEF Mock!MockAssumption
<1>3. ASSUME NEW field \in Mock!Counts, NEW low \in Int, NEW high \in Int, low <= high
      PROVE  /\ Clamped(field, low, high) \in low..high
             /\ given[field] \in low..high => Clamped(field, low, high) = given[field]
  <2> DEFINE value == given[field]
             fallback == Default[field]
  <2>1. value \in Int \cup {NotANumber} /\ fallback \in Int
    BY <1>2
  <2> HIDE DEF value, fallback
  <2>2. /\ Mock!clampNumber(value, low, high, fallback) \in low..high
        /\ value # NotANumber /\ value \in low..high =>
              Mock!clampNumber(value, low, high, fallback) = value
    BY <2>1, <1>3, ClampIs
  <2>3. value \in low..high => value # NotANumber
    BY <1>1
  <2> QED
    BY <2>2, <2>3 DEF value, fallback
<1>4. c = [node_count |-> nodes, user_count |-> users,
           running_node_count |-> fitted.running, degraded_node_count |-> fitted.degraded,
           stopped_node_count |-> fitted.stopped, suspended_user_count |-> suspended]
  BY DEF Mock!normalizeMockPanelConfig
<1> HIDE DEF Clamped, c
<1>5. Mock!Counts = {"node_count", "user_count", "running_node_count", "degraded_node_count",
                "stopped_node_count", "suspended_user_count"}
  BY DEF Mock!Counts
<1>6. /\ nodes \in 1..MaxNodes /\ users \in 1..MaxUsers
      /\ given["node_count"] \in 1..MaxNodes => nodes = given["node_count"]
      /\ given["user_count"] \in 1..MaxUsers => users = given["user_count"]
  <2>1. /\ "node_count" \in Mock!Counts /\ "user_count" \in Mock!Counts
        /\ 1 \in Int /\ MaxNodes \in Int /\ MaxUsers \in Int /\ 1 <= MaxNodes /\ 1 <= MaxUsers
    BY <1>1, <1>5
  <2>2. /\ Clamped("node_count", 1, MaxNodes) \in 1..MaxNodes
        /\ given["node_count"] \in 1..MaxNodes =>
              Clamped("node_count", 1, MaxNodes) = given["node_count"]
    BY <2>1, <1>3
  <2>3. /\ Clamped("user_count", 1, MaxUsers) \in 1..MaxUsers
        /\ given["user_count"] \in 1..MaxUsers =>
              Clamped("user_count", 1, MaxUsers) = given["user_count"]
    BY <2>1, <1>3
  <2> QED
    BY <2>2, <2>3
<1> HIDE DEF nodes, users
<1>7. /\ runs \in 0..nodes /\ degrades \in 0..nodes /\ stops \in 0..nodes
      /\ suspended \in 0..users
      /\ given["running_node_count"] \in 0..nodes => runs = given["running_node_count"]
      /\ given["degraded_node_count"] \in 0..nodes => degrades = given["degraded_node_count"]
      /\ given["stopped_node_count"] \in 0..nodes => stops = given["stopped_node_count"]
      /\ given["suspended_user_count"] \in 0..users => suspended = given["suspended_user_count"]
  <2>1. 0 \in Int /\ nodes \in Int /\ users \in Int /\ 0 <= nodes /\ 0 <= users
    BY <1>1, <1>6
  <2>2. \A field \in Mock!Counts :
           /\ Clamped(field, 0, nodes) \in 0..nodes
           /\ given[field] \in 0..nodes => Clamped(field, 0, nodes) = given[field]
    BY <2>1, <1>3
  <2>3. \A field \in Mock!Counts :
           /\ Clamped(field, 0, users) \in 0..users
           /\ given[field] \in 0..users => Clamped(field, 0, users) = given[field]
    BY <2>1, <1>3
  <2>4. {"running_node_count", "degraded_node_count", "stopped_node_count",
         "suspended_user_count"} \subseteq Mock!Counts
    BY <1>5
  <2> QED
    BY <2>2, <2>3, <2>4
<1> HIDE DEF runs, degrades, stops, suspended
<1>8. /\ fitted.running \in 0..runs /\ fitted.degraded \in 0..degrades
      /\ fitted.stopped \in 0..stops
      /\ fitted.running + fitted.degraded + fitted.stopped <= nodes
      /\ runs + degrades + stops <= nodes =>
            /\ fitted.running = runs /\ fitted.degraded = degrades
            /\ fitted.stopped = stops
  <2>1. nodes \in Nat /\ runs \in Nat /\ degrades \in Nat /\ stops \in Nat
    BY <1>1, <1>6, <1>7
  <2> QED
    BY <2>1, FittedIs
<1> HIDE DEF fitted
<1>9. Fits(c)
  BY <1>1, <1>4, <1>6, <1>7, <1>8 DEF Fits
<1>10. c \in [Mock!Counts -> Nat]
  BY <1>1, <1>4, <1>5, <1>6, <1>7, <1>8
<1>11. ASSUME given \in [Mock!Counts -> Nat], Fits(given)
       PROVE  c = given
  <2>1. \A field \in Mock!Counts : given[field] \in Nat
    BY <1>11
  <2>2. nodes = given["node_count"] /\ users = given["user_count"]
    BY <1>6, <1>11 DEF Fits
  <2>3. given["running_node_count"] + given["degraded_node_count"] + given["stopped_node_count"]
           <= nodes
    BY <2>2, <1>11 DEF Fits
  <2>4. runs = given["running_node_count"] /\ degrades = given["degraded_node_count"]
        /\ stops = given["stopped_node_count"]
    BY <1>1, <1>5, <1>6, <1>7, <2>1, <2>3
  <2>5. suspended = given["suspended_user_count"]
    BY <1>7, <2>2, <1>11 DEF Fits
  <2>6. \A field \in Mock!Counts : c[field] = given[field]
    BY <1>4, <1>5, <1>8, <2>2, <2>3, <2>4, <2>5
  <2> QED
    BY <1>10, <1>11, <2>6
<1> QED
  BY <1>9, <1>10, <1>11 DEF c

\* The configuration in force fits, and the default node is one of its nodes.
MockInv ==
    /\ Mock!TypeOK
    /\ mockPanelConfig # None =>
          /\ Fits(mockPanelConfig.counts)
          /\ defaultMockNodeId \in 101..(100 + mockPanelConfig.counts.node_count)

\* A configuration given in part, with whatever numbers, is applied as one that fits.
LEMMA Applies ==
    ASSUME Mock!MockAssumption, MockInv, NEW enabled \in BOOLEAN, NEW given,
           Mock!Apply(enabled, given),
           \A field \in Mock!Counts \cap DOMAIN given : given[field] \in Int \cup {NotANumber}
    PROVE  MockInv'
<1> DEFINE base == IF mockPanelConfig = None THEN Default ELSE mockPanelConfig.counts
           full == [f \in Mock!Counts |-> IF f \in DOMAIN given THEN given[f] ELSE base[f]]
           next == Mock!normalizeMockPanelConfig(full)
<1>1. base \in [Mock!Counts -> Nat]
  BY DEF MockInv, Mock!TypeOK, Mock!MockAssumption
<1>2. \A field \in Mock!Counts : full[field] \in Int \cup {NotANumber}
  <2> HIDE DEF base
  <2> QED
    BY <1>1
<1>3. /\ mockPanelConfig' = [enabled |-> enabled, counts |-> next]
      /\ defaultMockNodeId' =
            IF defaultMockNodeId \in Mock!NodeIds(next) THEN defaultMockNodeId ELSE 101
      /\ UNCHANGED month
  BY DEF Mock!Apply
<1> HIDE DEF full
<1>4. Fits(next) /\ next \in [Mock!Counts -> Nat]
  BY <1>2, Normalises
<1> HIDE DEF next
<1>5. next.node_count \in 1..MaxNodes /\ MaxNodes \in Nat
  BY <1>4 DEF Fits, Mock!MockAssumption
<1>6. Mock!NodeIds(next) = 101..(100 + next.node_count)
  BY <1>5, NodeIdsAre
<1>7. defaultMockNodeId' \in 101..(100 + next.node_count)
  BY <1>3, <1>5, <1>6
<1>8. Mock!TypeOK'
  BY <1>3, <1>4, <1>5, <1>7 DEF Mock!TypeOK, MockInv
<1> QED
  BY <1>3, <1>4, <1>7, <1>8 DEF MockInv

\* No configuration is in force at first.
LEMMA MockInit == ASSUME Mock!MockAssumption, Mock!Init PROVE MockInv
  BY DEF Mock!MockAssumption, Mock!Init, MockInv, Mock!TypeOK

\* Whatever asks for the mode or saves the settings leaves a configuration that fits.
LEMMA MockNext == ASSUME Mock!MockAssumption, MockInv, [Mock!Next]_Mock!vars PROVE MockInv'
<1>1. CASE Mock!resolveMockPanelEnabled
  <2>1. ASSUME NEW given \in Mock!Given, Mock!Apply(TRUE, given)
        PROVE  MockInv'
    <3>1. \A field \in Mock!Counts \cap DOMAIN given : given[field] \in Int \cup {NotANumber}
      BY DEF Mock!Given, Mock!MockAssumption
    <3> QED
      BY <2>1, <3>1, Applies
  <2>2. CASE Mock!Apply(FALSE, <<>>)
    <3>1. DOMAIN <<>> = {}
      OBVIOUS
    <3> QED
      BY <2>2, <3>1, Applies
  <2> QED
    BY <1>1, <2>1, <2>2 DEF Mock!resolveMockPanelEnabled
<1>2. CASE Mock!syncMockPanelConfigFromSettings
  <2>1. PICK field \in Mock!Counts, value \in Entered, enabled \in BOOLEAN :
           Mock!Apply(enabled, [f \in {field} |-> value])
    BY <1>2 DEF Mock!syncMockPanelConfigFromSettings
  <2>2. value \in Int
    BY DEF Mock!MockAssumption
  <2> DEFINE given == [f \in {field} |-> value]
  <2>3. \A f \in Mock!Counts \cap DOMAIN given : given[f] \in Int \cup {NotANumber}
    BY <2>2
  <2> HIDE DEF given
  <2>4. Mock!Apply(enabled, given)
    BY <2>1 DEF given
  <2> QED
    BY <2>3, <2>4, Applies
<1>3. CASE Mock!getMockPanelState
  <2> DEFINE c == mockPanelConfig.counts
  <2>1. Fits(c) /\ UNCHANGED <<mockPanelConfig, month>> /\ mockPanelConfig # None
    BY <1>3 DEF Mock!getMockPanelState, MockInv
  <2>2. c.node_count \in 1..MaxNodes /\ MaxNodes \in Nat
    BY <2>1 DEF Fits, Mock!MockAssumption
  <2>3. Mock!NodeIds(c) = 101..(100 + c.node_count)
    BY <2>2, NodeIdsAre
  <2>4. defaultMockNodeId' \in 101..(100 + c.node_count)
    BY <1>3, <2>2, <2>3 DEF Mock!getMockPanelState
  <2>5. Mock!TypeOK'
    BY <2>1, <2>2, <2>4 DEF Mock!TypeOK, MockInv
  <2> QED
    BY <2>1, <2>4, <2>5 DEF MockInv
<1>4. CASE Mock!MonthEnds
  BY <1>4 DEF Mock!MonthEnds, MockInv, Mock!TypeOK
<1>5. CASE UNCHANGED Mock!vars
  BY <1>5 DEF Mock!vars, MockInv, Mock!TypeOK
<1> QED
  BY <1>1, <1>2, <1>3, <1>4, <1>5 DEF Mock!Next

\* The counts of a configuration that fits are those the statistics show.
LEMMA MockFits == ASSUME Mock!MockAssumption, MockInv PROVE Mock!MockCountsFit
<1> SUFFICES ASSUME Mock!Enabled
             PROVE  LET c == mockPanelConfig.counts IN
                    /\ c.running_node_count + c.degraded_node_count + c.stopped_node_count
                          <= c.node_count
                    /\ Mock!normalizeMockPanelConfig(c) = c
                    /\ defaultMockNodeId \in Mock!NodeIds(c)
  BY DEF Mock!MockCountsFit
<1> DEFINE c == mockPanelConfig.counts
<1>1. mockPanelConfig # None
  BY DEF Mock!Enabled
<1>2. Fits(c) /\ c \in [Mock!Counts -> Nat] /\ defaultMockNodeId \in 101..(100 + c.node_count)
  BY <1>1 DEF MockInv, Mock!TypeOK
<1>3. Mock!normalizeMockPanelConfig(c) = c
  <2>1. \A field \in Mock!Counts : c[field] \in Int \cup {NotANumber}
    BY <1>2
  <2> HIDE DEF c
  <2> QED
    BY <1>2, <2>1, Normalises
<1>4. Mock!NodeIds(c) = 101..(100 + c.node_count)
  BY <1>2, NodeIdsAre DEF Fits
<1> QED
  BY <1>2, <1>3, <1>4 DEF Fits

\* The configuration in force fits, for any limits, defaults and numbers entered.
LEMMA MockTypes ==
    ASSUME Mock!MockAssumption
    PROVE  Mock!Spec => [](Mock!TypeOK /\ Mock!MockCountsFit)
<1>1. Mock!Init => MockInv
  BY MockInit
<1>2. MockInv /\ [Mock!Next]_Mock!vars => MockInv'
  BY MockNext
<1>3. MockInv => Mock!TypeOK /\ Mock!MockCountsFit
  BY MockFits DEF MockInv
<1> QED
  BY <1>1, <1>2, <1>3, PTL DEF Mock!Spec

-----------------------------------------------------------------------------
(* The pages of the mock lists.                                              *)

\* Division rounds down.
LEMMA Division ==
    ASSUME NEW n \in Nat, NEW size \in Nat \ {0}
    PROVE  /\ n \div size \in Nat
           /\ (n \div size) * size <= n /\ n < (n \div size) * size + size
<1>1. n \div size \in Nat
  OBVIOUS
<1>2. size * (n \div size) <= n
  OBVIOUS
<1>3. n < size * (n \div size) + size
  OBVIOUS
<1>4. size * (n \div size) = (n \div size) * size
  BY <1>1
<1> QED
  BY <1>1, <1>2, <1>3, <1>4

\* Where an item lies is determined by its position.
LEMMA OnePosition ==
    ASSUME NEW size \in Nat \ {0}, NEW p \in Nat, NEW q \in Nat,
           NEW j \in 1..size, NEW k \in 1..size, p * size + j = q * size + k
    PROVE  p = q /\ j = k
<1>1. p >= q + 1 => p * size >= q * size + size
  <2>1. ASSUME p >= q + 1 PROVE p * size >= (q + 1) * size
    BY <2>1
  <2>2. (q + 1) * size = q * size + size
    OBVIOUS
  <2> QED
    BY <2>1, <2>2
<1>2. q >= p + 1 => q * size >= p * size + size
  <2>1. ASSUME q >= p + 1 PROVE q * size >= (p + 1) * size
    BY <2>1
  <2>2. (p + 1) * size = p * size + size
    OBVIOUS
  <2> QED
    BY <2>1, <2>2
<1>3. p * size \in Nat /\ q * size \in Nat
  OBVIOUS
<1> DEFINE a == p * size
           b == q * size
<1>4. /\ a \in Nat /\ b \in Nat /\ a + j = b + k
      /\ (p >= q + 1 => a >= b + size) /\ (q >= p + 1 => b >= a + size)
  BY <1>1, <1>2, <1>3
<1>5. p = q => a = b
  OBVIOUS
<1> HIDE DEF a, b
<1> QED
  BY <1>4, <1>5

\* Multiples of a size are as far apart as the size.
LEMMA Multiples ==
    ASSUME NEW size \in Nat \ {0}, NEW p \in Nat, NEW q \in Nat, p * size < q * size
    PROVE  p < q
<1>1. ASSUME q <= p PROVE q * size <= p * size
  BY <1>1
<1> QED
  BY <1>1

\* A page holds the items behind those of the pages before it, and its size at most.
LEMMA PageHolds ==
    ASSUME NEW S, NEW items \in Seq(S), NEW size \in Nat \ {0}, NEW p \in Nat \ {0}
    PROVE  LET part == Mock!paginateMock(items, p, size).items
               before == (p - 1) * size
           IN  /\ before \in Nat
               /\ DOMAIN part = {j \in 1..size : before + j <= Len(items)}
               /\ \A j \in DOMAIN part : part[j] = items[before + j]
<1> DEFINE part == Mock!paginateMock(items, p, size).items
           before == (p - 1) * size
           end == Mock!Min({before + size, Len(items)})
<1>1. Mock!Max({1, p}) = p /\ Mock!Max({1, size}) = size
  BY MaxIs
<1>2. part = SubSeq(items, before + 1, end)
  BY <1>1 DEF Mock!paginateMock
<1>3. before \in Nat /\ Len(items) \in Nat
  OBVIOUS
<1> HIDE DEF before, part
<1>4. end = IF before + size <= Len(items) THEN before + size ELSE Len(items)
  BY <1>3, MinIs
<1> HIDE DEF end
<1>5. end \in Nat
  BY <1>3, <1>4
<1>6. SubSeq(items, before + 1, end) = [j \in 1..(end - before) |-> items[before + j]]
  BY <1>3, <1>5
<1>7. DOMAIN part = 1..(end - before) /\ \A j \in DOMAIN part : part[j] = items[before + j]
  BY <1>2, <1>6
<1>8. 1..(end - before) = {j \in 1..size : before + j <= Len(items)}
  BY <1>3, <1>4, <1>5
<1> QED
  BY <1>3, <1>7, <1>8 DEF before, part

\* Leafing through the pages shows every item, in its order and once.
THEOREM PagesShowAll ==
    ASSUME NEW S, NEW items \in Seq(S), NEW size \in Nat \ {0}
    PROVE  LET Page(p) == Mock!paginateMock(items, p, size)
               Position(p, j) == (p - 1) * size + j
           IN  /\ \A p \in Nat \ {0} : \A j \in DOMAIN Page(p).items :
                     /\ Position(p, j) \in 1..Len(items)
                     /\ Page(p).items[j] = items[Position(p, j)]
               /\ \A i \in 1..Len(items) : \E p \in 1..Page(1).totalPages :
                     \E j \in DOMAIN Page(p).items : Position(p, j) = i
               /\ \A p, q \in Nat \ {0} :
                     \A j \in DOMAIN Page(p).items, k \in DOMAIN Page(q).items :
                        Position(p, j) = Position(q, k) => p = q /\ j = k
<1> DEFINE Page(p) == Mock!paginateMock(items, p, size)
           Position(p, j) == (p - 1) * size + j
           n == Len(items)
           pages == (n + size - 1) \div size
<1>0. n \in Nat
  OBVIOUS
<1>1. ASSUME NEW p \in Nat \ {0}
      PROVE  /\ (p - 1) * size \in Nat
             /\ DOMAIN Page(p).items = {j \in 1..size : Position(p, j) <= n}
             /\ \A j \in DOMAIN Page(p).items : Page(p).items[j] = items[Position(p, j)]
  BY PageHolds
<1>2. Page(1).totalPages = Mock!Max({1, pages})
  <2>1. Mock!Max({1, size}) = size
    BY MaxIs
  <2> QED
    BY <2>1 DEF Mock!paginateMock
<1> HIDE DEF Page
<1>3. ASSUME NEW p \in Nat \ {0}, NEW j \in DOMAIN Page(p).items
      PROVE  Position(p, j) \in 1..n /\ Page(p).items[j] = items[Position(p, j)]
  <2>1. j \in 1..size /\ Position(p, j) <= n
    BY <1>1, <1>3
  <2>2. (p - 1) * size \in Nat
    BY <1>1
  <2>3. Position(p, j) \in 1..n
    BY <1>0, <2>1, <2>2
  <2> QED
    BY <1>1, <2>3
<1>4. ASSUME NEW i \in 1..n
      PROVE  \E p \in 1..Page(1).totalPages : \E j \in DOMAIN Page(p).items : Position(p, j) = i
  <2> DEFINE m == (i - 1) \div size
             before == m * size
  <2>1. i - 1 \in Nat /\ n + size - 1 \in Nat
    BY <1>0
  <2>2. m \in Nat /\ before <= i - 1 /\ i - 1 < before + size
    BY <2>1, Division
  <2>3. pages \in Nat /\ n + size - 1 < pages * size + size
    BY <2>1, Division
  <2> HIDE DEF m
  <2> HIDE DEF pages
  <2>4. before \in Nat /\ pages * size \in Nat
    BY <2>2, <2>3
  <2>5. m < pages
    <3>1. m * size < pages * size
      BY <1>0, <2>2, <2>3, <2>4
    <3> QED
      BY <2>2, <2>3, <3>1, Multiples
  <2>6. m + 1 \in 1..Page(1).totalPages
    BY <1>2, <2>2, <2>3, <2>5, MaxIs
  <2>7. (m + 1) - 1 = m /\ m + 1 \in Nat \ {0}
    BY <2>2
  <2>8. Position(m + 1, i - before) = i
    BY <2>4, <2>7
  <2>9. i - before \in 1..size
    BY <2>2, <2>4
  <2>10. i - before \in DOMAIN Page(m + 1).items
    BY <1>0, <1>1, <2>7, <2>8, <2>9
  <2> QED
    BY <2>6, <2>8, <2>10
<1>5. ASSUME NEW p \in Nat \ {0}, NEW q \in Nat \ {0}, NEW j \in DOMAIN Page(p).items,
             NEW k \in DOMAIN Page(q).items, Position(p, j) = Position(q, k)
      PROVE  p = q /\ j = k
  <2>1. j \in 1..size /\ k \in 1..size /\ p - 1 \in Nat /\ q - 1 \in Nat
    BY <1>1, <1>5
  <2>2. p - 1 = q - 1 /\ j = k
    BY <1>5, <2>1, OnePosition
  <2> QED
    BY <2>2
<1> QED
  BY <1>3, <1>4, <1>5 DEF Page

-----------------------------------------------------------------------------
(* What holds of the console.                                                *)

\* Every variable of the page has its type.
THEOREM TypeCorrect == Spec => []TypeOK
<1>1. Nodes!Spec => []Nodes!TypeOK
  BY PagesAssumption, Nodes!TypeCorrect
<1>2. Lists!Spec => []Lists!TypeOK
  BY PagesAssumption, Lists!TypeCorrect
<1>3. Mock!Spec => [](Mock!TypeOK /\ Mock!MockCountsFit)
  BY PagesAssumption, MockTypes
<1>4. /\ Nodes!TypeOK /\ Lists!TypeOK /\ Logs!TypeOK /\ Auth!TypeOK /\ Mock!TypeOK
      /\ PageStays
      => TypeOK
  BY DEF TypeOK, PageStays
<1> QED
  BY <1>1, <1>2, <1>3, <1>4, NodesRun, ListsRun, LogsRun, AuthRuns, MockRuns, OnAPage, LogsTypes,
     AuthTypes, PTL

\* Two live nodes hold the same address only after two saves of one address, for different
\* rows, overlapped between check and write, whatever loadState writes into an open form and
\* whoever else saves or deletes.
THEOREM AddressesShared == Spec => []OnlyRacesShareAddresses
<1>1. Nodes!Spec => []Nodes!OnlyRacesShareAddresses
  BY PagesAssumption, Nodes!Unique
<1> QED
  BY <1>1, NodesRun, PTL DEF OnlyRacesShareAddresses

\* Buttons of the node page are disabled only as long as a handler that enables them is
\* under way, for any number of handlers that overlap.
THEOREM ButtonsComeBack == Spec => []BusyIsOwned
  BY NodesRun, Nodes!Owned, PTL DEF BusyIsOwned

\* A node form never shows a secret of another node, however late the panel answers.
THEOREM SecretsStay == Spec => []SecretStays
  BY NodesRun, Nodes!OwnSecrets, PTL DEF SecretStays

\* An account is saved with a form that was filled from it.
THEOREM FormsAreOwn == Spec => []SaveIsOwn
<1>1. Lists!Spec => []Lists!SaveIsOwn
  BY PagesAssumption, Lists!OwnForms
<1> QED
  BY <1>1, ListsRun, PTL DEF SaveIsOwn

\* The dialog of a subscription shows the link of its own user.
THEOREM LinksAreOwn == Spec => []SubscriptionIsOwn
  BY ListsRun, Lists!OwnLinks, PTL DEF SubscriptionIsOwn

\* With nothing being read and no error shown, the indicated page is that of the rows.
THEOREM LabelsMatch == Spec => []LabelMatchesRows
<1>1. Lists!Spec => []Lists!LabelMatchesRows
  BY PagesAssumption, Lists!Labels
<1> QED
  BY <1>1, ListsRun, PTL DEF LabelMatchesRows

\* Logs are fetched by themselves in the automatic mode only.
THEOREM AutomaticOnly == Spec => []AutoOnlyInAuto
  BY LogsRun, Automatic, PTL DEF AutoOnlyInAuto

\* Logs that count as loaded are of the selected source.
THEOREM LogsOfSource == Spec => []LogsMatchSource
  BY LogsRun, OfSource, PTL DEF LogsMatchSource

\* Whoever sees the form to sign in after bootstrap left no session in the storage.
THEOREM SignOutForgets == Spec => []SignedOutIsForgotten
  BY AuthRuns, Forgotten, PTL DEF SignedOutIsForgotten

\* The counts of a mock configuration fit together, whatever was entered and whichever limits
\* and defaults are built in.
THEOREM CountsFit == Spec => []MockCountsFit
<1>1. Mock!Spec => [](Mock!TypeOK /\ Mock!MockCountsFit)
  BY PagesAssumption, MockTypes
<1> QED
  BY <1>1, MockRuns, PTL DEF MockCountsFit

=============================================================================
