---------------------------- MODULE LocalAuthSync ----------------------------
(***************************************************************************)
(* How a change to a user account reaches a node that authenticates locally.*)
(*                                                                         *)
(* An operation of the panel changes the row and calls queueLocalAuthRefresh*)
(* which reads all users of the node, queues that snapshot (opcode 13) and,  *)
(* if the user must go, queues a kick (opcode 12).  Each of these is a       *)
(* database statement of its own and the operations are not serialised.  The *)
(* agent replaces the set of users it admits by the snapshot; a kick makes   *)
(* hysteria drop the user's connections.                                     *)
(*                                                                         *)
(* The module follows one account on one node and relies on the queue only  *)
(* as TaskDelivery specifies it.                                             *)
(***************************************************************************)
EXTENDS Integers, FiniteSets

CONSTANTS
    Writers,        \* concurrent panel operations on the account
    MaxTasks,       \* bound: how many tasks are ever queued
    MaxLosses       \* bound: tasks lost, expired, refused or failed

ASSUME SyncAssumption ==
    MaxTasks \in Nat /\ MaxLosses \in Nat /\ IsFiniteSet(Writers)

Tasks == 1..MaxTasks
NoTask == 0

\* What a row, a snapshot or the agent says of the account.
Accounts == {"active", "suspended", "absent"}
Kick == "kick"

VARIABLES
    row,            \* the account in hysteria_users
    writer,         \* the operations under way
    payload,        \* payload_json of each task: a snapshot or a kick
    phase, outcome, recorded,       \* the queue (TaskDelivery)
    agent,          \* the agent's loop
    stateFile,      \* the account in the agent's state file
    applied,        \* the account in localAuthUsers
    session,        \* the user is connected through hysteria
    losses,
    disturbed       \* history: whether something was lost or two operations
                    \* overlapped ("healed": not since the latest operation)

Delivery == INSTANCE TaskDelivery

queue == <<phase, outcome, recorded>>
vars == <<row, writer, payload, queue, agent, stateFile, applied, session,
          losses, disturbed>>
failures == <<losses, disturbed>>

IdleWriter == [pc |-> "idle", snapshot |-> "absent", kick |-> FALSE]
IdleAgent == [pc |-> "idle", task |-> NoTask]

TypeOK ==
    /\ row \in Accounts
    /\ writer \in [Writers -> [pc : {"idle", "read", "sync", "kick"},
                               snapshot : Accounts, kick : BOOLEAN]]
    /\ payload \in [Tasks -> Accounts \cup {Kick, "none"}]
    /\ Delivery!TypeOK
    /\ agent \in [pc : {"idle", "run", "apply"}, task : Tasks \cup {NoTask}]
    /\ stateFile \in Accounts
    /\ applied \in Accounts
    /\ session \in BOOLEAN
    /\ losses \in 0..MaxLosses
    /\ disturbed \in {"never", "healed", "yes"}

\* An account in use, on a node that knows it.
Init ==
    /\ row = "active"
    /\ writer = [w \in Writers |-> IdleWriter]
    /\ payload = [t \in Tasks |-> "none"]
    /\ Delivery!Init
    /\ agent = IdleAgent
    /\ stateFile = "active"
    /\ applied = "active"
    /\ session = FALSE
    /\ losses = 0
    /\ disturbed = "never"

Fail == losses < MaxLosses /\ losses' = losses + 1 /\ disturbed' = "yes"

-----------------------------------------------------------------------------
(* The panel.                                                              *)

\* An operation is started only if the tasks of all operations fit MaxTasks.
RoomForOperation ==
    2 + Cardinality({t \in Tasks : phase[t] # "none"})
      + 2 * Cardinality({w \in Writers : writer[w] # IdleWriter}) <= MaxTasks

\* createUser, updateUser (an edit may leave the status as it is), deleteUser
\* and the quota suspensions.  Only a user who may still be connected and must
\* not be is kicked.
ChangeAccount(w, to) ==
    /\ writer[w] = IdleWriter
    /\ RoomForOperation
    /\ row = "absent" => to # "absent"
    /\ row' = to
    /\ writer' = [writer EXCEPT ![w] =
            [pc |-> "read", snapshot |-> "absent",
             kick |-> row # "absent" /\ to # "active"]]
    /\ disturbed' = IF \E other \in Writers : writer[other] # IdleWriter THEN "yes"
                    ELSE IF disturbed = "never" THEN "never" ELSE "healed"
    /\ UNCHANGED <<payload, queue, agent, stateFile, applied, session, losses>>

\* buildLocalAuthTaskPayload
BuildSnapshot(w) ==
    /\ writer[w].pc = "read"
    /\ writer' = [writer EXCEPT ![w].pc = "sync", ![w].snapshot = row]
    /\ UNCHANGED <<row, payload, queue, agent, stateFile, applied, session, failures>>

Enqueue(t, content) ==
    /\ Delivery!Submit(t)
    /\ payload' = [payload EXCEPT ![t] = content]

AfterSync(w) == IF writer[w].kick THEN [writer[w] EXCEPT !.pc = "kick"] ELSE IdleWriter

Queued_kickOnly(w) == IF writer[w].kick THEN Kick ELSE writer[w].snapshot
Queued(w) == writer[w].snapshot

EnqueueSync(w) ==
    /\ writer[w].pc = "sync"
    /\ \E t \in Tasks : Enqueue(t, Queued(w))
    /\ writer' = [writer EXCEPT ![w] = AfterSync(w)]
    /\ UNCHANGED <<row, agent, stateFile, applied, session, failures>>

EnqueueKick(w) ==
    /\ writer[w].pc = "kick"
    /\ \E t \in Tasks : Enqueue(t, Kick)
    /\ writer' = [writer EXCEPT ![w] = IdleWriter]
    /\ UNCHANGED <<row, agent, stateFile, applied, session, failures>>

\* A statement of the refresh fails; the errors are dropped and a refresh that
\* queued no snapshot still queues the kick.
RefreshFails(w) ==
    /\ Fail
    /\ \/ /\ writer[w].pc \in {"read", "sync"}
          /\ writer' = [writer EXCEPT ![w] = AfterSync(w)]
       \/ /\ writer[w].pc = "kick"
          /\ writer' = [writer EXCEPT ![w] = IdleWriter]
    /\ UNCHANGED <<row, payload, queue, agent, stateFile, applied, session>>

-----------------------------------------------------------------------------
(* The agent.                                                              *)

NextTask(t) == phase[t] = "queued" /\ \A u \in Tasks : u < t => phase[u] # "queued"

PullTask(t) ==
    /\ agent.pc = "idle"
    /\ NextTask(t)
    /\ Delivery!Take(t)
    /\ agent' = [pc |-> "run", task |-> t]
    /\ UNCHANGED <<row, writer, payload, stateFile, applied, session, failures>>

\* The task expires (180 s for a kick, 300 s for a snapshot) or the reply that
\* carries it is lost.
LoseTask(t) ==
    /\ Fail
    /\ NextTask(t)
    /\ Delivery!Take(t)
    /\ UNCHANGED <<row, writer, payload, agent, stateFile, applied, session>>

\* executeTask, by opcode.
IsSnapshot_any(t) == TRUE
IsSnapshot(t) == payload[t] # Kick

\* storeLocalAuthState: first the file ...
WrittenFile_skipped(account) == stateFile
WrittenFile(account) == account

WriteState ==
    /\ agent.pc = "run"
    /\ IsSnapshot(agent.task)
    /\ stateFile' = WrittenFile(payload[agent.task])
    /\ agent' = [agent EXCEPT !.pc = "apply"]
    /\ UNCHANGED <<row, writer, payload, queue, applied, session, failures>>

\* ... then the set in memory.
SetLocalAuthState ==
    /\ agent.pc = "apply"
    /\ applied' = payload[agent.task]
    /\ Delivery!Execute(agent.task, "done")
    /\ agent' = IdleAgent
    /\ UNCHANGED <<row, writer, payload, stateFile, session, failures>>

KickClients ==
    /\ agent.pc = "run"
    /\ ~IsSnapshot(agent.task)
    /\ session' = FALSE
    /\ Delivery!Execute(agent.task, "done")
    /\ agent' = IdleAgent
    /\ UNCHANGED <<row, writer, payload, stateFile, applied, failures>>

\* The file cannot be written or hysteria refuses the kick: nobody looks at
\* the result.
TaskFails ==
    /\ Fail
    /\ agent.pc = "run"
    /\ Delivery!Execute(agent.task, "error")
    /\ agent' = IdleAgent
    /\ UNCHANGED <<row, writer, payload, stateFile, applied, session>>

\* A restart reads the file back; a task not yet begun is lost.
AgentRestart ==
    /\ IF agent.pc = "run"
       THEN Fail
       ELSE UNCHANGED failures
    /\ applied' = stateFile
    /\ agent' = IdleAgent
    /\ UNCHANGED <<row, writer, payload, queue, stateFile, session>>

-----------------------------------------------------------------------------
(* The user.                                                               *)

\* authorizeLocalCredential
Connect ==
    /\ applied = "active"
    /\ session' = TRUE
    /\ UNCHANGED <<row, writer, payload, queue, agent, stateFile, applied, failures>>

Disconnect ==
    /\ session' = FALSE
    /\ UNCHANGED <<row, writer, payload, queue, agent, stateFile, applied, failures>>

-----------------------------------------------------------------------------
Next ==
    \/ \E w \in Writers :
        \/ \E to \in Accounts : ChangeAccount(w, to)
        \/ BuildSnapshot(w)
        \/ EnqueueSync(w)
        \/ EnqueueKick(w)
        \/ RefreshFails(w)
    \/ \E t \in Tasks : PullTask(t) \/ LoseTask(t)
    \/ WriteState
    \/ SetLocalAuthState
    \/ KickClients
    \/ TaskFails
    \/ AgentRestart
    \/ Connect
    \/ Disconnect

Spec == Init /\ [][Next]_vars

\* The panel finishes what it began and the agent works the queue off; nothing
\* is assumed of the users, the administrators or the failures.
FairSpec ==
    /\ Spec
    /\ \A w \in Writers :
        /\ WF_vars(BuildSnapshot(w))
        /\ WF_vars(EnqueueSync(w))
        /\ WF_vars(EnqueueKick(w))
    /\ WF_vars(\E t \in Tasks : PullTask(t))
    /\ WF_vars(WriteState)
    /\ SF_vars(SetLocalAuthState)
    /\ WF_vars(KickClients)

-----------------------------------------------------------------------------
(* Properties.                                                             *)

Settled ==
    /\ \A w \in Writers : writer[w] = IdleWriter
    /\ \A t \in Tasks : phase[t] # "queued"
    /\ agent.pc = "idle"

\* The agent restarted, halfway through applying a snapshot or not, admits by
\* the newest snapshot it ever applied, or by one queued later.
NoRollback ==
    agent.pc = "idle" =>
        /\ applied = stateFile
        /\ \A s \in Tasks : outcome[s] = "done" /\ payload[s] # Kick =>
            \E t \in Tasks : /\ t >= s
                            /\ phase[t] \in {"taken", "executed"}
                            /\ payload[t] = applied

\* Nothing reconciles the node with the panel, so what a lost task or two
\* interleaved operations spoilt stays spoilt; but one more operation that runs
\* by itself and loses nothing puts it right.
RefreshHeals == Settled /\ disturbed # "yes" => applied = row /\ stateFile = row

\* A user who was suspended or deleted is not connected once nothing is under
\* way: a client that reconnects after the kick meets the new snapshot.
SettledDisconnected ==
    Settled /\ disturbed = "never" /\ row # "active" => ~session

\* A suspension or deletion that is not taken back ends in disconnection, if
\* operations do not overlap and nothing is lost.
SuspensionTakesEffect ==
    [](disturbed = "never") /\ <>[](row # "active") => <>[](~session)

\* Once nothing is under way and nothing was lost, the node admits what the
\* panel's row says: the agent updates its users in the order of the changes.
SettledAgrees == Settled /\ losses = 0 => applied = row
=============================================================================
