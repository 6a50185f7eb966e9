------------------------------ MODULE MockPanel ------------------------------
(***************************************************************************)
(* The data the web console makes up when the panel is in mock mode:         *)
(* how many nodes, users and node states there are is configured, clamped,   *)
(* and turned into nodes, users, logical users and pages.  The mode itself   *)
(* is asked for once and then remembered until the settings are saved.       *)
(***************************************************************************)
EXTENDS Integers, Sequences, SequencesExt, FiniteSetsExt

CONSTANTS
    MaxNodes,       \* 200 in the code
    MaxUsers,       \* 5000 in the code
    Entered,        \* numbers that arrive in a configuration
    Default,        \* DEFAULT_MOCK_PANEL_CONFIG
    NotANumber,     \* what Number() makes of anything else
    None

Counts == {"node_count", "user_count", "running_node_count", "degraded_node_count",
           "stopped_node_count", "suspended_user_count"}

\* What the constants are.
MockAssumption ==
    /\ MaxNodes \in Nat \ {0} /\ MaxUsers \in Nat \ {0} /\ Entered \subseteq Int
    /\ Default \in [Counts -> Nat] /\ NotANumber \notin Int

VARIABLES
    mockPanelConfig,    \* None until the mode was asked for or configured
    defaultMockNodeId,
    month               \* the clock: expiry dates lie at the ends of months 1 to 6

vars == <<mockPanelConfig, defaultMockNodeId, month>>

-----------------------------------------------------------------------------
(* The configuration.                                                      *)

clampNumber(value, minValue, maxValue, fallback) ==
    Max({minValue, Min({maxValue, IF value = NotANumber THEN fallback ELSE value})})

\* What exceeds the nodes is taken from the stopped ones first, then from the
\* degraded ones, then from the running ones.
FittedCounts_once(nodeCount, running, degraded, stopped) ==
    LET overflow == Max({0, running + degraded + stopped - nodeCount})
        fewer == Min({overflow, stopped})
    IN  [stopped |-> stopped - fewer, degraded |-> degraded, running |-> running]
FittedCounts(nodeCount, running, degraded, stopped) ==
    LET overflow == Max({0, running + degraded + stopped - nodeCount})
        lessStopped == Min({overflow, stopped})
        lessDegraded == Min({overflow - lessStopped, degraded})
        lessRunning == Min({overflow - lessStopped - lessDegraded, running})
    IN  [stopped |-> stopped - lessStopped, degraded |-> degraded - lessDegraded,
         running |-> running - lessRunning]

normalizeMockPanelConfig(given) ==
    LET Clamped(field, low, high) == clampNumber(given[field], low, high, Default[field])
        nodes == Clamped("node_count", 1, MaxNodes)
        users == Clamped("user_count", 1, MaxUsers)
        fitted == FittedCounts(nodes, Clamped("running_node_count", 0, nodes),
                      Clamped("degraded_node_count", 0, nodes), Clamped("stopped_node_count", 0, nodes))
    IN  [node_count |-> nodes, user_count |-> users,
         running_node_count |-> fitted.running, degraded_node_count |-> fitted.degraded,
         stopped_node_count |-> fitted.stopped,
         suspended_user_count |-> Clamped("suspended_user_count", 0, users)]

-----------------------------------------------------------------------------
(* Nodes and users.  A record index starts at 0, as in the code.            *)

buildNodeStatuses(config) ==
    [i \in 1..config.node_count |->
        LET running == config.running_node_count
            degraded == running + config.degraded_node_count
        IN  IF i <= running THEN "running"
            ELSE IF i <= degraded THEN "degraded"
            ELSE IF i <= degraded + config.stopped_node_count THEN "stopped"
            ELSE "running"]

\* Every third node is managed over SSH and has no agent that could report a status.
buildMockNodes(config) ==
    [i \in 1..config.node_count |->
        [id |-> 100 + i,
         reported |-> IF (100 + i) % 3 = 0 THEN "none" ELSE buildNodeStatuses(config)[i]]]

deriveNodeStatus(node) ==
    IF node.reported \in {"degraded", "stopped"} THEN node.reported ELSE "running"

NodeIds(config) == {node.id : node \in ToSet(buildMockNodes(config))}

\* A logical user has one record on one to three nodes that follow each other.
buildMockUsers(config) ==
    LET n == config.node_count
        logicalUserCount == Max({1, (config.user_count + 1) \div 2})
        Copies(logical) == 1 + ((logical - 1) % Min({3, n}))
        RecordsOf(logical) ==
            [copy \in 1..Copies(logical) |->
                [username |-> logical, node |-> 101 + ((logical + copy - 2) % n)]]
        records == FlattenSeq([logical \in 1..logicalUserCount |-> RecordsOf(logical)])
    IN  [i \in 1..Min({config.user_count, Len(records)}) |->
            records[i] @@ [id |-> 1999 + i, active |-> i > config.suspended_user_count]]

\* The quota is never reached by what buildMockUsers makes up.
isAbnormalUserRecord(user) ==
    LET recordIndex == user.id - 2000 IN
    ~user.active \/ (recordIndex % 5 # 0 /\ (recordIndex % 6) + 1 < month)

getMockOnlineClients(config, id) ==
    LET status == IF id \in NodeIds(config)
                  THEN deriveNodeStatus(buildMockNodes(config)[id - 100]) ELSE "stopped"
        active == SelectSeq(buildMockUsers(config), LAMBDA user : user.node = id /\ user.active)
        divisor == IF status = "degraded" THEN 3 ELSE 2
        limit == Max({1, Min({Len(active), (Len(active) + divisor - 1) \div divisor})})
    IN  IF status = "stopped" THEN <<>> ELSE SubSeq(active, 1, Min({Len(active), limit, 24}))

-----------------------------------------------------------------------------
(* Logical users and pages.                                                *)

\* The groups appear in the order of their first record.
fetchLogicalUsers(config, filter) ==
    LET users == buildMockUsers(config)
        Details(name) == SelectSeq(users, LAMBDA user : user.username = name)
        names == [i \in 1..Max({user.username : user \in ToSet(users)}) |-> i]
        Group(name) == [username |-> name, details |-> Details(name),
                        abnormal |-> Len(SelectSeq(Details(name), isAbnormalUserRecord))]
    IN  SelectSeq([i \in DOMAIN names |-> Group(names[i])],
            LAMBDA group : CASE filter = "abnormal" -> group.abnormal > 0
                             [] filter = "single" -> Len(group.details) = 1
                             [] filter = "multi" -> Len(group.details) > 1
                             [] OTHER -> TRUE)

paginateMock_short(items, page, pageSize) ==
    LET start == (page - 1) * pageSize IN
    [items |-> SubSeq(items, start + 1, Min({start + pageSize - 1, Len(items)})),
     totalPages |-> Max({1, (Len(items) + pageSize - 1) \div pageSize})]
paginateMock(items, page, pageSize) ==
    LET safePage == Max({1, page})
        safePageSize == Max({1, pageSize})
        start == (safePage - 1) * safePageSize
    IN  [items |-> SubSeq(items, start + 1, Min({start + safePageSize, Len(items)})),
         totalPages |-> Max({1, (Len(items) + safePageSize - 1) \div safePageSize})]

-----------------------------------------------------------------------------
(* The mode.                                                               *)

TypeOK ==
    /\ mockPanelConfig \in {None} \cup [enabled : BOOLEAN, counts : [Counts -> Nat]]
    /\ defaultMockNodeId \in 101..(100 + MaxNodes)
    /\ month \in 1..7

Init == mockPanelConfig = None /\ defaultMockNodeId = 101 /\ month = 1

\* applyMockPanelConfig: given fields replace those of the configuration in force,
\* or of the default.
Apply(enabled, given) ==
    LET base == IF mockPanelConfig = None THEN Default ELSE mockPanelConfig.counts
        next == normalizeMockPanelConfig(
                    [f \in Counts |-> IF f \in DOMAIN given THEN given[f] ELSE base[f]])
    IN  /\ mockPanelConfig' = [enabled |-> enabled, counts |-> next]
        /\ defaultMockNodeId' = IF defaultMockNodeId \in NodeIds(next) THEN defaultMockNodeId ELSE 101
        /\ UNCHANGED month

Given == [Counts -> Entered \cup {NotANumber}]

\* resolveMockPanelEnabled: the first request asks the panel; a failure counts as off
\* and is remembered as well.
resolveMockPanelEnabled ==
    /\ mockPanelConfig = None
    /\ \/ \E given \in Given : Apply(TRUE, given)
       \/ Apply(FALSE, <<>>)

\* syncMockPanelConfigFromSettings
syncMockPanelConfigFromSettings ==
    /\ mockPanelConfig # None
    /\ \E field \in Counts, value \in Entered, enabled \in BOOLEAN :
          Apply(enabled, [f \in {field} |-> value])

\* getMockPanelState keeps the default node it finds.
getMockPanelState ==
    /\ mockPanelConfig # None /\ mockPanelConfig.enabled
    /\ defaultMockNodeId' = IF defaultMockNodeId \in NodeIds(mockPanelConfig.counts)
                            THEN defaultMockNodeId ELSE 101
    /\ UNCHANGED <<mockPanelConfig, month>>

MonthEnds == month < 7 /\ month' = month + 1 /\ UNCHANGED <<mockPanelConfig, defaultMockNodeId>>

Next == resolveMockPanelEnabled \/ syncMockPanelConfigFromSettings \/ getMockPanelState \/ MonthEnds

Spec == Init /\ [][Next]_vars

-----------------------------------------------------------------------------
(* Properties.                                                             *)

Enabled == mockPanelConfig # None /\ mockPanelConfig.enabled

\* Whatever numbers arrive, and in whatever order they are changed: the configured node
\* states fit into the nodes, nothing is left that another normalisation would change,
\* and the default node exists.
MockCountsFit ==
    Enabled =>
        LET c == mockPanelConfig.counts IN
        /\ c.running_node_count + c.degraded_node_count + c.stopped_node_count <= c.node_count
        /\ normalizeMockPanelConfig(c) = c
        /\ defaultMockNodeId \in NodeIds(c)

\* Leafing through the pages of the logical users shows every group once and in order;
\* the groups hold every user record once, and no user twice on a node.  Who is shown as
\* online on a node is an active user of it, and nobody is on a node shown as stopped.
MockPagesCover ==
    Enabled =>
        LET c == mockPanelConfig.counts
            users == buildMockUsers(c)
            groups == fetchLogicalUsers(c, "all")
            shown == FlattenSeq([i \in DOMAIN groups |-> groups[i].details])
            single == fetchLogicalUsers(c, "single")
            multi == fetchLogicalUsers(c, "multi")
            abnormal == fetchLogicalUsers(c, "abnormal")
        IN
        /\ \A size \in 1..3 :
              LET pages == paginateMock(groups, 1, size).totalPages IN
              FlattenSeq([p \in 1..pages |-> paginateMock(groups, p, size).items]) = groups
        /\ ToSet(shown) = ToSet(users) /\ Len(shown) = Len(users)
        /\ Len(single) + Len(multi) = Len(groups) /\ ToSet(abnormal) \subseteq ToSet(groups)
        /\ \A i, j \in DOMAIN users :
              users[i].username = users[j].username /\ users[i].node = users[j].node => i = j
        /\ \A node \in ToSet(buildMockNodes(c)) :
              \A user \in ToSet(getMockOnlineClients(c, node.id)) :
                 user.node = node.id /\ user.active /\ deriveNodeStatus(node) # "stopped"

=============================================================================
