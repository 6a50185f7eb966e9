-------------------------- MODULE TrafficAccounting --------------------------
(***************************************************************************)
(* How the panel accounts the traffic of one user of one node.              *)
(*                                                                         *)
(* Hysteria counts bytes until the counter is read with clear=1.  The       *)
(* panel's syncs (a 5-minute loop and an API call, not serialised) have the *)
(* agent read and clear it, add the result to the user's row and compare it *)
(* with the quota; in between, each heartbeat reports the running counter,  *)
(* which the panel compares with the quota on top of the row.  A sync whose *)
(* wait ended early leaves a task that still clears the counter.            *)
(* The user is the node's only one, so the node's totals are the user's.    *)
(***************************************************************************)
EXTENDS Integers, FiniteSetsExt

CONSTANTS
    Syncs,          \* syncs that may be under way at a time
    Heartbeats,     \* heartbeats that may be inside the panel at a time
    GB,             \* bytes in a gigabyte
    Quota,          \* quota_gb, in bytes
    MaxTraffic,     \* bound: bytes the user ever sends
    MaxFailures     \* bound: losses, timeouts and restarts of hysteria

ASSUME AccountingAssumption ==
    /\ GB \in Nat \ {0}
    /\ Quota \in Nat \ {0}
    /\ MaxTraffic \in Nat
    /\ MaxFailures \in Nat
    /\ IsFiniteSet(Syncs)

VARIABLES
    traffic,        \* history: bytes the user really sent
    lost,           \* history: bytes cleared or reset without being accounted
    counter,        \* hysteria's counter
    usedBytes, usedGB, status,      \* the row in hysteria_users
    lastTotal,      \* node_agents.last_total_rx/tx
    snapshot,       \* the latest total in node_traffic_history, or None
    history,        \* the sum of its deltas
    billed,         \* history: the amount of the sync that took the snapshot
    sync,           \* the syncs
    heartbeat,      \* the heartbeats
    failures

vars == <<traffic, lost, counter, usedBytes, usedGB, status, lastTotal, snapshot,
          history, billed, sync, heartbeat, failures>>
row == <<usedBytes, usedGB, status>>
node == <<lastTotal, snapshot, history, billed>>

None == -1
NoSync == [pc |-> "idle", amount |-> 0]
NoHeartbeat == [pc |-> "idle", value |-> 0]

TypeOK ==
    /\ traffic \in 0..MaxTraffic
    /\ lost \in Nat
    /\ counter \in Nat
    /\ usedBytes \in Nat
    /\ usedGB \in Nat
    /\ status \in {"active", "suspended"}
    /\ lastTotal \in Nat
    /\ snapshot \in Nat \cup {None}
    /\ history \in Nat
    /\ billed \in Nat
    /\ sync \in [Syncs -> [pc : {"idle", "queued", "abandoned", "update", "check",
                                 "suspend", "record"}, amount : Nat]]
    /\ heartbeat \in [Heartbeats -> [pc : {"idle", "sent", "abandoned"}, value : Nat]]
    /\ failures \in 0..MaxFailures

Init ==
    /\ traffic = 0
    /\ lost = 0
    /\ counter = 0
    /\ usedBytes = 0
    /\ usedGB = 0
    /\ status = "active"
    /\ lastTotal = 0
    /\ snapshot = None
    /\ history = 0
    /\ billed = 0
    /\ sync = [s \in Syncs |-> NoSync]
    /\ heartbeat = [h \in Heartbeats |-> NoHeartbeat]
    /\ failures = 0

Fail == failures < MaxFailures /\ failures' = failures + 1

-----------------------------------------------------------------------------
(* Hysteria.                                                               *)

\* The user may go on sending until it is disconnected, quota or not.
UseTraffic ==
    /\ traffic < MaxTraffic
    /\ traffic' = traffic + 1
    /\ counter' = counter + 1
    /\ UNCHANGED <<lost, row, node, sync, heartbeat, failures>>

HysteriaRestart ==
    /\ Fail
    /\ counter' = 0
    /\ lost' = lost + counter
    /\ UNCHANGED <<traffic, row, node, sync, heartbeat>>

-----------------------------------------------------------------------------
(* A sync: syncTrafficUsage, runAgentTask, the agent's syncTrafficUsage.    *)

StartSync(s) ==
    /\ sync[s].pc = "idle"
    /\ sync' = [sync EXCEPT ![s].pc = "queued"]
    /\ UNCHANGED <<traffic, lost, counter, row, node, heartbeat, failures>>

\* The wait ends before the agent answered; the task stays queued.
GiveUp(s) ==
    /\ Fail
    /\ sync[s].pc = "queued"
    /\ sync' = [sync EXCEPT ![s].pc = "abandoned"]
    /\ UNCHANGED <<traffic, lost, counter, row, node, heartbeat>>

\* An abandoned task expires before the agent asks for it.
TaskExpires(s) ==
    /\ sync[s].pc = "abandoned"
    /\ sync' = [sync EXCEPT ![s] = NoSync]
    /\ UNCHANGED <<traffic, lost, counter, row, node, heartbeat, failures>>

\* The agent's loop is not in the middle of a heartbeat.
AgentFree == \A h \in Heartbeats : heartbeat[h].pc # "sent"

AfterRead_kept == counter
AfterRead == 0

\* The agent reads and clears the counter; the result reaches the waiting sync,
\* which passes over a user who is not in it.
FetchTraffic(s) ==
    /\ AgentFree
    /\ sync[s].pc = "queued"
    /\ sync' = [sync EXCEPT ![s] = [pc |-> IF counter > 0 THEN "update" ELSE "record",
                                   amount |-> counter]]
    /\ counter' = AfterRead
    /\ UNCHANGED <<traffic, lost, row, node, heartbeat, failures>>

\* Hysteria does not answer, or its answer is lost: the agent reports an error
\* with no traffic in it, which the sync takes for an empty result.
FetchFails(s) ==
    /\ AgentFree
    /\ Fail
    /\ sync[s].pc = "queued"
    /\ sync' = [sync EXCEPT ![s] = [pc |-> "record", amount |-> 0]]
    /\ \/ UNCHANGED <<counter, lost>>
       \/ counter' = 0 /\ lost' = lost + counter
    /\ UNCHANGED <<traffic, row, node, heartbeat>>

\* The agent clears the counter and nobody uses the result: the sync gave up,
\* or the agent's answer is lost.
FetchInVain(s) ==
    /\ AgentFree
    /\ \/ sync[s].pc = "queued" /\ Fail
       \/ sync[s].pc = "abandoned" /\ UNCHANGED failures
    /\ sync' = [sync EXCEPT ![s] = NoSync]
    /\ counter' = 0
    /\ lost' = lost + counter
    /\ UNCHANGED <<traffic, row, node, heartbeat>>

\* applyTrafficUsagePayload: MySQL evaluates the assignments of the UPDATE from
\* left to right, so the second one reads the sum the first one wrote.
GigabytesAfter(amount) == (usedBytes + amount + amount) \div GB

UpdateUsage(s) ==
    LET amount == sync[s].amount IN
    /\ sync[s].pc = "update"
    /\ usedBytes' = usedBytes + amount
    /\ usedGB' = GigabytesAfter(amount)
    /\ sync' = [sync EXCEPT ![s].pc = "check"]
    /\ UNCHANGED <<traffic, lost, counter, status, node, heartbeat, failures>>

\* The UPDATE fails and the amount is dropped with the request.
UpdateFails(s) ==
    /\ Fail
    /\ sync[s].pc = "update"
    /\ lost' = lost + sync[s].amount
    /\ sync' = [sync EXCEPT ![s] = NoSync]
    /\ UNCHANGED <<traffic, counter, row, node, heartbeat>>

\* The row read back holds the amount already; the code adds it once more.
NextUsedBytes_displayed(s) == usedGB * GB + sync[s].amount
NextUsedBytes(s) == usedBytes + sync[s].amount

CheckQuota(s) ==
    /\ sync[s].pc = "check"
    /\ sync' = [sync EXCEPT ![s].pc =
            IF NextUsedBytes(s) >= Quota /\ status # "suspended"
            THEN "suspend" ELSE "record"]
    /\ UNCHANGED <<traffic, lost, counter, row, node, heartbeat, failures>>

\* The row cannot be read back, or not be suspended: the user is passed over.
CheckFails(s) ==
    /\ Fail
    /\ sync[s].pc \in {"check", "suspend"}
    /\ sync' = [sync EXCEPT ![s].pc = "record"]
    /\ UNCHANGED <<traffic, lost, counter, row, node, heartbeat>>

Suspend(s) ==
    /\ sync[s].pc = "suspend"
    /\ status' = "suspended"
    /\ sync' = [sync EXCEPT ![s].pc = "record"]
    /\ UNCHANGED <<traffic, lost, counter, usedBytes, usedGB, node, heartbeat, failures>>

\* computeTrafficDelta
Delta_noReset(current, previous) ==
    IF previous = None THEN 0 ELSE current - previous
Delta(current, previous) ==
    IF previous = None THEN 0
    ELSE IF current >= previous THEN current - previous ELSE current

\* recordTrafficSnapshot: the totals are those of the last heartbeat.  Its three
\* statements are one step: what is said of them assumes a single sync.
RecordSnapshot(s) ==
    /\ sync[s].pc = "record"
    /\ history' = history + Delta(lastTotal, snapshot)
    /\ snapshot' = lastTotal
    /\ billed' = sync[s].amount
    /\ sync' = [sync EXCEPT ![s] = NoSync]
    /\ UNCHANGED <<traffic, lost, counter, row, lastTotal, heartbeat, failures>>

-----------------------------------------------------------------------------
(* Heartbeats.                                                             *)

SendHeartbeat(h) ==
    /\ AgentFree
    /\ heartbeat[h].pc = "idle"
    /\ heartbeat' = [heartbeat EXCEPT ![h] = [pc |-> "sent", value |-> counter]]
    /\ UNCHANGED <<traffic, lost, counter, row, node, sync, failures>>

\* The agent's client times out; the panel still has the request.
HeartbeatTimesOut(h) ==
    /\ Fail
    /\ heartbeat[h].pc = "sent"
    /\ heartbeat' = [heartbeat EXCEPT ![h].pc = "abandoned"]
    /\ UNCHANGED <<traffic, lost, counter, row, node, sync>>

\* liveUsedBytesForUser
LiveUsedBytes_stored(value) == usedBytes
LiveUsedBytes(value) == usedBytes + value

\* heartbeat and enforceRealtimeTrafficQuota; the row it reads can only grow
\* before it writes the status, so that the statements make one step.  A user who
\* sent nothing since the counter was cleared is not in the payload.
HandleHeartbeat(h) ==
    /\ heartbeat[h].pc # "idle"
    /\ lastTotal' = heartbeat[h].value
    /\ status' = IF heartbeat[h].value > 0 /\ LiveUsedBytes(heartbeat[h].value) >= Quota
                 THEN "suspended" ELSE status
    /\ heartbeat' = [heartbeat EXCEPT ![h] = NoHeartbeat]
    /\ UNCHANGED <<traffic, lost, counter, usedBytes, usedGB, snapshot, history,
                   billed, sync, failures>>

\* The row of the agent is not updated, which ends the request, or the user's row cannot
\* be read or be suspended, which the agent does not learn.
HeartbeatFails(h) ==
    /\ Fail
    /\ heartbeat[h].pc # "idle"
    /\ lastTotal' \in {lastTotal, heartbeat[h].value}
    /\ heartbeat' = [heartbeat EXCEPT ![h] = NoHeartbeat]
    /\ UNCHANGED <<traffic, lost, counter, row, snapshot, history, billed, sync>>

-----------------------------------------------------------------------------
Next ==
    \/ UseTraffic
    \/ HysteriaRestart
    \/ \E s \in Syncs :
        \/ StartSync(s)
        \/ GiveUp(s)
        \/ TaskExpires(s)
        \/ FetchTraffic(s)
        \/ FetchFails(s)
        \/ FetchInVain(s)
        \/ UpdateUsage(s)
        \/ UpdateFails(s)
        \/ CheckQuota(s)
        \/ CheckFails(s)
        \/ Suspend(s)
        \/ RecordSnapshot(s)
    \/ \E h \in Heartbeats :
        \/ SendHeartbeat(h)
        \/ HeartbeatTimesOut(h)
        \/ HandleHeartbeat(h)
        \/ HeartbeatFails(h)

Spec == Init /\ [][Next]_vars

\* The agent keeps sending heartbeats and the panel finishes what it began.
FairSpec ==
    /\ Spec
    /\ SF_vars(\E h \in Heartbeats : SendHeartbeat(h))
    /\ \A h \in Heartbeats : WF_vars(HandleHeartbeat(h))
    /\ \A s \in Syncs :
        /\ WF_vars(UpdateUsage(s))
        /\ WF_vars(CheckQuota(s))
        /\ WF_vars(Suspend(s))
        /\ WF_vars(RecordSnapshot(s))

-----------------------------------------------------------------------------
(* Properties.                                                             *)

\* What syncs cleared and have not yet added to the row.
InHand(s) == IF sync[s].pc = "update" THEN sync[s].amount ELSE 0

\* Every byte is in the counter, in the hands of one sync, in the row or known
\* to be lost, and in one of them only: overlapping syncs bill nothing twice.
Conservation ==
    usedBytes + MapThenSumSet(InHand, Syncs) + counter + lost = traffic

\* A user may be suspended early, as a byte can count twice (the amount of a
\* sync, or a heartbeat handled late), but not before half of the quota.
SuspendedAfterHalf == status = "suspended" => 2 * traffic >= Quota

\* A check failed, and heartbeats report nothing of a user who sends nothing.
Overlooked == failures > 0 /\ usedBytes >= Quota /\ counter = 0

\* A user over quota is suspended, even if syncs keep taking from the counter
\* what heartbeats would have reported, unless the bytes themselves are lost; a
\* failed check is made up for as soon as the user sends again.
QuotaEnforced ==
    traffic - lost >= Quota ~>
        status = "suspended" \/ traffic - lost < Quota \/ Overlooked

\* used_gb is used_bytes in gigabytes.
UsedGBConsistent == usedGB = usedBytes \div GB

\* A user is suspended only after having used up the quota.
SuspendedAfterQuota == status = "suspended" => traffic >= Quota

\* From the second sync on, the delta recorded for the node is the traffic that
\* this sync found to be new, if the snapshots of this sync and of the one before
\* it hold all the traffic of their sync, as heartbeats reported it in time (the
\* totals differ, so that a heartbeat did come between the two).
DeltaIsNewTraffic ==
    [][\A s \in Syncs :
        /\ sync[s].pc = "record" /\ sync'[s].pc = "idle"
        /\ snapshot = billed /\ lastTotal = sync[s].amount
        /\ lastTotal # snapshot
        => history' - history = sync[s].amount]_vars
=============================================================================
