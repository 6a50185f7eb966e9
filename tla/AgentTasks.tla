----------------------------- MODULE AgentTasks -----------------------------
(***************************************************************************)
(* The task queue between the panel and the agent of one node.             *)
(*                                                                         *)
(* The panel inserts rows into agent_tasks (enqueueTask) and sometimes      *)
(* polls the row for its result (waitForTask).  The agent, a single loop,   *)
(* POSTs /agent/tasks/pull, runs the task it is given and POSTs its         *)
(* result.  A pull is handled by three separate statements (select the      *)
(* oldest pending row, mark it running, read it back); a request the agent  *)
(* gave up on, after its 15 s timeout or a restart, keeps executing in the  *)
(* panel next to the agent's later requests, and its reply goes nowhere.    *)
(***************************************************************************)
EXTENDS Integers

CONSTANTS
    MaxTasks,       \* bound: how many tasks are ever enqueued
    MaxTime,        \* bound: how far the clock goes
    Lifetimes,      \* the expiry delays callers pass to enqueueTask
    WaitTimeout,    \* how long runAgentTask waits for the result
    Handlers,       \* HTTP requests of the agent the panel handles at a time
    NoHandler       \* the agent is not waiting for a reply

ASSUME BoundsAssumption ==
    /\ MaxTasks \in Nat
    /\ MaxTime \in Nat
    /\ Lifetimes \subseteq Nat
    /\ WaitTimeout \in Nat
    /\ NoHandler \notin Handlers

Tasks == 1..MaxTasks
NoTask == 0
Outcomes == {"done", "error"}
Free == [pc |-> "free", task |-> NoTask, result |-> "none"]
Idle == [pc |-> "idle", task |-> NoTask, result |-> "none", req |-> NoHandler]

VARIABLES
    now,            \* the panel's clock
    lastId,         \* AUTO_INCREMENT of agent_tasks
    status,         \* agent_tasks.status ("none": no such row yet)
    deadline,       \* agent_tasks.expires_at
    waiter,         \* what runAgentTask makes of the task
    waitUntil,      \* the deadline of waitForTask
    handler,        \* the agent's requests inside the panel
    agent,          \* the agent's loop
    agentStatus,    \* node_agents.status
    execs,          \* history: how often the agent ran the task (2: twice
                    \* or more)
    outcome         \* history: what that run produced

panelVars == <<now, lastId, status, deadline, waiter, waitUntil, agentStatus>>
vars == <<now, lastId, status, deadline, waiter, waitUntil, handler, agent,
          agentStatus, execs, outcome>>

HandlerState ==
    [pc : {"free", "select", "update", "complete", "reply"},
     task : Tasks \cup {NoTask}, result : Outcomes \cup {"none"}]

AgentState ==
    [pc : {"idle", "pull", "run", "report", "complete"},
     task : Tasks \cup {NoTask}, result : Outcomes \cup {"none"},
     req : Handlers \cup {NoHandler}]

TypeOK ==
    /\ now \in 0..MaxTime
    /\ lastId \in 0..MaxTasks
    /\ status \in [Tasks -> {"none", "pending", "running"} \cup Outcomes]
    /\ deadline \in [Tasks -> Nat]
    /\ waiter \in [Tasks -> {"none", "waiting", "abandoned"} \cup Outcomes]
    /\ waitUntil \in [Tasks -> Nat]
    /\ handler \in [Handlers -> HandlerState]
    /\ agent \in AgentState
    /\ agentStatus \in {"pending", "online", "error"}
    /\ execs \in [Tasks -> 0..2]
    /\ outcome \in [Tasks -> Outcomes \cup {"none"}]

Init ==
    /\ now = 0
    /\ lastId = 0
    /\ status = [t \in Tasks |-> "none"]
    /\ deadline = [t \in Tasks |-> 0]
    /\ waiter = [t \in Tasks |-> "none"]
    /\ waitUntil = [t \in Tasks |-> 0]
    /\ handler = [h \in Handlers |-> Free]
    /\ agent = Idle
    /\ agentStatus = "pending"
    /\ execs = [t \in Tasks |-> 0]
    /\ outcome = [t \in Tasks |-> "none"]

-----------------------------------------------------------------------------
(* The panel: callers of the queue.                                        *)

Tick ==
    /\ now < MaxTime
    /\ now' = now + 1
    /\ UNCHANGED <<lastId, status, deadline, waiter, waitUntil, handler,
                   agent, agentStatus, execs, outcome>>

\* enqueueTask; `waits` tells runAgentTask, which then polls the row, from
\* queueLocalAuthRefresh, which does not look back.
EnqueueTask(ttl, waits) ==
    LET id == lastId + 1 IN
    /\ lastId < MaxTasks
    /\ lastId' = id
    /\ status' = [status EXCEPT ![id] = "pending"]
    /\ deadline' = [deadline EXCEPT ![id] = now + ttl]
    /\ IF waits
       THEN /\ waiter' = [waiter EXCEPT ![id] = "waiting"]
            /\ waitUntil' = [waitUntil EXCEPT ![id] = now + WaitTimeout]
       ELSE UNCHANGED <<waiter, waitUntil>>
    /\ UNCHANGED <<now, handler, agent, agentStatus, execs, outcome>>

Finished_claimed(t) == status[t] # "pending"
Finished(t) == status[t] \in Outcomes

\* One round of waitForTask, which looks at the deadline before the row.  It
\* gives up at the deadline, or sooner when reading the row fails.
WaitForTaskPoll(t) ==
    /\ waiter[t] = "waiting"
    /\ \/ /\ now < waitUntil[t]
          /\ Finished(t)
          /\ waiter' = [waiter EXCEPT ![t] = status[t]]
       \/ waiter' = [waiter EXCEPT ![t] = "abandoned"]
    /\ UNCHANGED <<now, lastId, status, deadline, waitUntil, handler, agent,
                   agentStatus, execs, outcome>>

-----------------------------------------------------------------------------
(* The panel: handlers of the agent's requests.                            *)

Available_rerun(t) == status[t] \in {"pending", "running"} /\ deadline[t] >= now
Available(t) == status[t] = "pending" /\ deadline[t] >= now

\* ORDER BY id ASC LIMIT 1
Selected_unordered(t) == Available(t)
Selected(t) == Available(t) /\ \A u \in Tasks : u < t => ~Available(u)

\* The SELECT of pullTask.
PullTaskSelect(h) ==
    /\ handler[h].pc = "select"
    /\ \/ /\ \A t \in Tasks : ~Available(t)
          /\ handler' = [handler EXCEPT ![h].pc = "reply"]
       \/ \E t \in Tasks :
            /\ Selected(t)
            /\ handler' = [handler EXCEPT ![h].pc = "update", ![h].task = t]
    /\ UNCHANGED <<panelVars, agent, execs, outcome>>

MarkRunning_always(s) == "running"
MarkRunning_never(s) == s
MarkRunning(s) == IF s = "pending" THEN "running" ELSE s

\* UPDATE ... WHERE id=? AND status='pending', whose row count is not looked
\* at, and the SELECT that reads the task back for the reply.
PullTaskUpdate(h) ==
    LET t == handler[h].task IN
    /\ handler[h].pc = "update"
    /\ status' = [status EXCEPT ![t] = MarkRunning(@)]
    /\ handler' = [handler EXCEPT ![h].pc = "reply"]
    /\ UNCHANGED <<now, lastId, deadline, waiter, waitUntil, agent,
                   agentStatus, execs, outcome>>

ReportedStatus_ignored(result) == "done"
ReportedStatus(result) == IF result = "error" THEN "error" ELSE "done"

\* completeTask: the row takes the reported status whatever it held before,
\* and a failed task marks the agent's record.
CompleteTask(h) ==
    /\ handler[h].pc = "complete"
    /\ status' = [status EXCEPT ![handler[h].task] =
                                            ReportedStatus(handler[h].result)]
    /\ agentStatus' = IF ReportedStatus(handler[h].result) = "error" 
                      THEN "error" ELSE agentStatus
    /\ handler' = [handler EXCEPT ![h] = [Free EXCEPT !.pc = "reply"]]
    /\ UNCHANGED <<now, lastId, deadline, waiter, waitUntil, agent, execs,
                   outcome>>

\* The request never arrived, its context was cancelled by the client going
\* away, or the database returned an error: the reply carries no task.
HandlerFails(h) ==
    /\ handler[h].pc \in {"select", "update", "complete"}
    /\ handler' = [handler EXCEPT ![h] = [Free EXCEPT !.pc = "reply"]]
    /\ UNCHANGED <<panelVars, agent, execs, outcome>>

\* A reply nobody waits for any more.
DiscardReply(h) ==
    /\ handler[h].pc = "reply"
    /\ agent.req # h
    /\ handler' = [handler EXCEPT ![h] = Free]
    /\ UNCHANGED <<panelVars, agent, execs, outcome>>

-----------------------------------------------------------------------------
(* The agent.                                                              *)

\* register and sendHeartbeat, as far as node_agents.status goes.
Heartbeat ==
    /\ agent.pc = "idle"
    /\ agentStatus' = "online"
    /\ UNCHANGED <<now, lastId, status, deadline, waiter, waitUntil, handler,
                   agent, execs, outcome>>

\* processNextTask: POST /agent/tasks/pull ...
ProcessNextTask(h) ==
    /\ agent.pc = "idle"
    /\ handler[h] = Free
    /\ handler' = [handler EXCEPT ![h].pc = "select"]
    /\ agent' = [Idle EXCEPT !.pc = "pull", !.req = h]
    /\ UNCHANGED <<panelVars, execs, outcome>>

\* ... the reply, with a task, without one, or the one to a completion ...
ReceiveReply(h) ==
    /\ agent.req = h
    /\ handler[h].pc = "reply"
    /\ agent' = IF handler[h].task = NoTask
                THEN Idle
                ELSE [Idle EXCEPT !.pc = "run", !.task = handler[h].task]
    /\ handler' = [handler EXCEPT ![h] = Free]
    /\ UNCHANGED <<panelVars, execs, outcome>>

\* ... executeTask, whatever the opcode ...
ExecuteTask(result) ==
    /\ agent.pc = "run"
    /\ execs' = [execs EXCEPT ![agent.task] = IF @ = 0 THEN 1 ELSE 2]
    /\ outcome' = [outcome EXCEPT ![agent.task] = result]
    /\ agent' = [agent EXCEPT !.pc = "report", !.result = result]
    /\ UNCHANGED <<panelVars, handler>>

\* ... and POST /agent/tasks/<id>/complete, once.
ReportResult(h) ==
    /\ agent.pc = "report"
    /\ handler[h] = Free
    /\ handler' = [handler EXCEPT ![h] = [pc |-> "complete",
                        task |-> agent.task, result |-> agent.result]]
    /\ agent' = [Idle EXCEPT !.pc = "complete", !.req = h]
    /\ UNCHANGED <<panelVars, execs, outcome>>

\* The client timeout, or a connection that broke: postJSON returns an error
\* and the loop goes on to its next tick.
LoseRequest ==
    /\ agent.pc \in {"pull", "complete"}
    /\ agent' = Idle
    /\ UNCHANGED <<panelVars, handler, execs, outcome>>

\* The process is restarted (opcode 11, an upgrade, a crash) with a task in
\* hand; what it held is in memory only.
AgentRestart ==
    /\ agent.pc \in {"run", "report"}
    /\ agent' = Idle
    /\ UNCHANGED <<panelVars, handler, execs, outcome>>

-----------------------------------------------------------------------------
Next ==
    \/ Tick
    \/ \E ttl \in Lifetimes, waits \in BOOLEAN : EnqueueTask(ttl, waits)
    \/ \E t \in Tasks : WaitForTaskPoll(t)
    \/ \E h \in Handlers :
        \/ PullTaskSelect(h)
        \/ PullTaskUpdate(h)
        \/ CompleteTask(h)
        \/ HandlerFails(h)
        \/ DiscardReply(h)
        \/ ProcessNextTask(h)
        \/ ReceiveReply(h)
        \/ ReportResult(h)
    \/ \E result \in Outcomes : ExecuteTask(result)
    \/ Heartbeat
    \/ LoseRequest
    \/ AgentRestart

Spec == Init /\ [][Next]_vars

(***************************************************************************)
(* Fairness: the agent's task ticker keeps firing, and neither the network  *)
(* nor the database fails for ever: a request or a statement attempted      *)
(* again and again succeeds at some point.  Nothing is assumed of the clock *)
(* or of the callers.                                                       *)
(***************************************************************************)
FairSpec ==
    /\ Spec
    /\ \A h \in Handlers :
        /\ SF_vars(PullTaskSelect(h))
        /\ SF_vars(PullTaskUpdate(h))
        /\ WF_vars(CompleteTask(h) \/ HandlerFails(h))
        /\ WF_vars(DiscardReply(h))
    /\ SF_vars(\E h \in Handlers : ProcessNextTask(h))
    /\ WF_vars(\E h \in Handlers : ReceiveReply(h))
    /\ WF_vars(\E result \in Outcomes : ExecuteTask(result))
    /\ WF_vars(\E h \in Handlers : ReportResult(h))

-----------------------------------------------------------------------------
(* Properties.                                                             *)

\* No task runs twice, although pullTask ignores whether its UPDATE matched a
\* row and a pull the agent gave up on may claim the same task as the next one.
AtMostOnce == \A t \in Tasks : execs[t] <= 1

\* What the panel shows of a task, and what runAgentTask returns to its
\* caller, is what the run of that very task produced: a completion that
\* arrives late is never recorded for a task that did not run.
ResultIsTrue ==
    \A t \in Tasks :
        /\ status[t] \in Outcomes => execs[t] = 1 /\ outcome[t] = status[t]
        /\ waiter[t] \in Outcomes => outcome[t] = waiter[t]

\* The agent runs tasks in the order they were enqueued, so of two
\* authorisation snapshots the one enqueued last is the one left in force.
ExecutedInOrder ==
    [][\A t, u \in Tasks :
            execs'[t] # execs[t] /\ t < u => execs[u] = 0]_vars

\* A finished task stays finished: a pull still under way in the panel does
\* not put it back to running.
FinalStatusStable ==
    [][\A t \in Tasks : status[t] \in Outcomes => status'[t] = status[t]]_vars

Held(t) == agent.task = t \/ \E h \in Handlers : handler[h].task = t

\* A task marked running whose delivery was lost is neither redelivered nor
\* expired: the row says running for ever.
LostStaysLost ==
    [][\A t \in Tasks :
            status[t] = "running" /\ execs[t] = 0 /\ ~Held(t)
                => status'[t] = "running" /\ execs'[t] = 0 /\ ~Held(t)']_vars

\* How far a task got, and what the panel knows of it, for an observer who
\* sees neither requests nor statements.
Phase ==
    [t \in Tasks |->
        IF status[t] = "none" THEN "none"
        ELSE IF status[t] = "pending" THEN "queued"
        ELSE IF execs[t] = 0 THEN "taken" ELSE "executed"]

Recorded == [t \in Tasks |-> IF status[t] \in Outcomes THEN status[t] ELSE "none"]

Delivery == INSTANCE TaskDelivery WITH phase <- Phase, recorded <- Recorded

\* The queue, the three-statement pull and the agent's loop implement
\* at-most-once delivery in order.
DeliverySpec == Delivery!Spec

\* A task that can be delivered does not stay so: it is claimed, or it
\* expires, however many requests the agent gives up on.
QueueDrains == \A t \in Tasks : Available(t) ~> ~Available(t)

-----------------------------------------------------------------------------
(* The inductive invariant behind the safety properties.                   *)

Unclaimed == {"none", "pending"}

\* The row against the history of the task.
RowInv ==
    \A t \in Tasks :
        /\ t > lastId <=> status[t] = "none"
        /\ status[t] \in Unclaimed => execs[t] = 0
        /\ execs[t] <= 1
        /\ status[t] \in Outcomes => execs[t] = 1 /\ outcome[t] = status[t]
        /\ waiter[t] \in Outcomes => execs[t] = 1 /\ outcome[t] = waiter[t]

\* What was run once, is claimed, and produced the result travelling with it.
Ran(t, result) ==
    /\ t \in Tasks
    /\ result \in Outcomes
    /\ status[t] \notin Unclaimed
    /\ execs[t] = 1
    /\ outcome[t] = result

HandlerInv ==
    \A h \in Handlers :
        /\ handler[h].pc \in {"free", "select"} =>
                handler[h].task = NoTask /\ handler[h].result = "none"
        /\ handler[h].pc = "update" =>
                handler[h].task \in Tasks /\ status[handler[h].task] # "none"
        /\ handler[h].pc = "reply" /\ handler[h].task # NoTask =>
                status[handler[h].task] \notin Unclaimed
        /\ handler[h].pc = "complete" => Ran(handler[h].task, handler[h].result)

\* Neither t nor anything enqueued after it has run.
Fresh(t) == \A u \in Tasks : u >= t => execs[u] = 0

AgentInv ==
    /\ agent.pc \in {"pull", "complete"} <=> agent.req # NoHandler
    /\ agent.pc \in {"run", "report"} <=> agent.task # NoTask
    /\ agent.pc = "pull" =>
            /\ handler[agent.req].pc \in {"select", "update", "reply"}
            /\ handler[agent.req].task # NoTask => Fresh(handler[agent.req].task)
    /\ agent.pc = "complete" =>
            /\ handler[agent.req].pc \in {"complete", "reply"}
            /\ handler[agent.req].pc = "reply" => handler[agent.req].task = NoTask
    /\ agent.pc = "run" => Fresh(agent.task) /\ status[agent.task] \notin Unclaimed
    /\ agent.pc = "report" => Ran(agent.task, agent.result)

\* Once a task is claimed, nothing older can be delivered any more.
OrderInv ==
    \A t, u \in Tasks :
        t < u /\ (Held(u) \/ status[u] \notin Unclaimed) => ~Available(t)

IInv == TypeOK /\ RowInv /\ HandlerInv /\ AgentInv /\ OrderInv
=============================================================================
