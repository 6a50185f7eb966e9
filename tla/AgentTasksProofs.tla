-------------------------- MODULE AgentTasksProofs --------------------------
(***************************************************************************)
(* Proofs about AgentTasks, for every number of tasks, handlers and         *)
(* lifetimes: the inductive invariant, the safety properties that follow    *)
(* from it, and the refinement of TaskDelivery.                             *)
(***************************************************************************)
EXTENDS AgentTasks, TLAPS

\* Every variable keeps its type: the first conjunct of the invariant.
LEMMA TypeInit == Init => TypeOK
  BY BoundsAssumption
  DEF Init, TypeOK, Tasks, NoTask, Outcomes, Free, Idle, HandlerState, AgentState

\* Every step of the panel, the network and the agent keeps the types.
LEMMA TypeNext == TypeOK /\ [Next]_vars => TypeOK'
<1> SUFFICES ASSUME TypeOK, [Next]_vars
             PROVE  TypeOK'
  OBVIOUS
<1> USE BoundsAssumption
    DEF TypeOK, Tasks, NoTask, Outcomes, Free, Idle, HandlerState, AgentState, panelVars
<1>1. CASE Tick
  BY <1>1 DEF Tick
<1>2. ASSUME NEW ttl \in Lifetimes, NEW waits \in BOOLEAN, EnqueueTask(ttl, waits)
      PROVE  TypeOK'
  <2> DEFINE id == lastId + 1
  <2>1. id \in 1..MaxTasks /\ now + ttl \in Nat /\ now + WaitTimeout \in Nat
    BY <1>2 DEF EnqueueTask
  <2>2. lastId' = id /\ status' = [status EXCEPT ![id] = "pending"]
        /\ deadline' = [deadline EXCEPT ![id] = now + ttl]
        /\ UNCHANGED <<now, handler, agent, agentStatus, execs, outcome>>
    BY <1>2 DEF EnqueueTask
  <2>3. waiter' \in [Tasks -> {"none", "waiting", "abandoned"} \cup Outcomes]
        /\ waitUntil' \in [Tasks -> Nat]
    <3>1. CASE waits = TRUE
      <4>1. /\ waiter' = [waiter EXCEPT ![id] = "waiting"]
            /\ waitUntil' = [waitUntil EXCEPT ![id] = now + WaitTimeout]
        BY <1>2, <3>1 DEF EnqueueTask
      <4>2. QED
        BY <4>1, <2>1
    <3>2. CASE waits = FALSE
      BY <1>2, <3>2 DEF EnqueueTask
    <3>3. QED
      BY <3>1, <3>2
  <2>4. QED
    BY <2>1, <2>2, <2>3
<1>3. ASSUME NEW t \in Tasks, WaitForTaskPoll(t)
      PROVE  TypeOK'
  <2> DEFINE Waiting == {"none", "waiting", "abandoned"} \cup Outcomes
  <2>1. /\ \E seen \in Waiting : waiter' = [waiter EXCEPT ![t] = seen]
        /\ UNCHANGED <<now, lastId, status, deadline, waitUntil, handler, agent,
                       agentStatus, execs, outcome>>
    BY <1>3 DEF WaitForTaskPoll, Finished
  <2>2. waiter' \in [Tasks -> Waiting]
    BY <2>1
  <2>3. QED
    BY <2>1, <2>2
<1>4. ASSUME NEW h \in Handlers, PullTaskSelect(h)
      PROVE  TypeOK'
  <2>1. /\ handler[h] \in HandlerState
        /\ UNCHANGED <<panelVars, agent, execs, outcome>>
    <3>1. UNCHANGED <<panelVars, agent, execs, outcome>>
      BY <1>4 DEF PullTaskSelect
    <3>2. QED
      BY <3>1
  <2>2. CASE handler' = [handler EXCEPT ![h].pc = "reply"]
    <3>1. [handler[h] EXCEPT !.pc = "reply"] \in HandlerState
      BY <2>1
    <3>2. handler' = [handler EXCEPT ![h] = [handler[h] EXCEPT !.pc = "reply"]]
      BY <2>2
    <3>3. handler' \in [Handlers -> HandlerState]
      BY <3>1, <3>2
    <3>4. QED
      BY <2>1, <3>3
  <2>3. ASSUME NEW t \in Tasks,
               handler' = [handler EXCEPT ![h].pc = "update", ![h].task = t]
        PROVE  TypeOK'
    <3> DEFINE bound == [handler[h] EXCEPT !.pc = "update", !.task = t]
    <3>1. bound \in HandlerState
      BY <2>1
    <3>2. handler' = [handler EXCEPT ![h] = bound]
      BY <2>3
    <3>3. handler' \in [Handlers -> HandlerState]
      BY <3>1, <3>2
    <3>4. QED
      BY <2>1, <3>3
  <2>4. QED
    BY <1>4, <2>2, <2>3 DEF PullTaskSelect
<1>5. ASSUME NEW h \in Handlers, PullTaskUpdate(h)
      PROVE  TypeOK'
  <2> DEFINE t == handler[h].task
  <2>1. /\ status' = [status EXCEPT ![t] = MarkRunning(status[t])]
        /\ handler' = [handler EXCEPT ![h].pc = "reply"]
        /\ UNCHANGED <<now, lastId, deadline, waiter, waitUntil, agent, agentStatus,
                       execs, outcome>>
    BY <1>5 DEF PullTaskUpdate
  <2>2. status' \in [Tasks -> {"none", "pending", "running"} \cup Outcomes]
    <3> DEFINE Rows == {"none", "pending", "running"} \cup Outcomes
    <3>1. \A s \in Rows : MarkRunning(s) \in Rows
      BY DEF MarkRunning
    <3>2. \A u \in Tasks : status'[u] \in Rows
      BY <2>1, <3>1
    <3> QED
      BY <2>1, <3>2
  <2>3. handler' \in [Handlers -> HandlerState]
    <3>0. handler[h] \in HandlerState
      OBVIOUS
    <3>1. [handler[h] EXCEPT !.pc = "reply"] \in HandlerState
      BY <3>0
    <3>2. handler' = [handler EXCEPT ![h] = [handler[h] EXCEPT !.pc = "reply"]]
      BY <2>1
    <3> QED
      BY <3>1, <3>2
  <2>4. QED
    BY <2>1, <2>2, <2>3
<1>6. ASSUME NEW h \in Handlers, CompleteTask(h)
      PROVE  TypeOK'
  BY <1>6 DEF CompleteTask, ReportedStatus
<1>7. ASSUME NEW h \in Handlers, HandlerFails(h)
      PROVE  TypeOK'
  BY <1>7 DEF HandlerFails
<1>8. ASSUME NEW h \in Handlers, DiscardReply(h)
      PROVE  TypeOK'
  BY <1>8 DEF DiscardReply
<1>9. ASSUME NEW h \in Handlers, ProcessNextTask(h)
      PROVE  TypeOK'
  BY <1>9 DEF ProcessNextTask
<1>10. ASSUME NEW h \in Handlers, ReceiveReply(h)
       PROVE  TypeOK'
  BY <1>10 DEF ReceiveReply
<1>11. ASSUME NEW h \in Handlers, ReportResult(h)
       PROVE  TypeOK'
  BY <1>11 DEF ReportResult
<1>12. ASSUME NEW result \in Outcomes, ExecuteTask(result)
       PROVE  TypeOK'
  <2>1. execs' = [execs EXCEPT ![agent.task] = IF execs[agent.task] = 0 THEN 1 ELSE 2]
    BY <1>12 DEF ExecuteTask
  <2> DEFINE count == IF execs[agent.task] = 0 THEN 1 ELSE 2
  <2>2. execs' \in [Tasks -> 0..2]
    <3>1. count \in 0..2
      OBVIOUS
    <3>2. execs' = [execs EXCEPT ![agent.task] = count]
      BY <2>1
    <3> HIDE DEF count
    <3>3. QED
      BY <3>1, <3>2
  <2>3. agent' \in AgentState
    BY <1>12 DEF ExecuteTask
  <2>4. outcome' \in [Tasks -> Outcomes \cup {"none"}]
    BY <1>12 DEF ExecuteTask
  <2>5. QED
    BY <1>12, <2>2, <2>3, <2>4 DEF ExecuteTask
<1>13. CASE Heartbeat
  BY <1>13 DEF Heartbeat
<1>14. CASE LoseRequest
  BY <1>14 DEF LoseRequest
<1>15. CASE AgentRestart
  BY <1>15 DEF AgentRestart
<1>16. CASE UNCHANGED vars
  BY <1>16 DEF vars
<1> HIDE DEF TypeOK, Tasks, NoTask, Outcomes, Free, Idle, HandlerState, AgentState, panelVars
<1>17. QED
  BY <1>1, <1>2, <1>3, <1>4, <1>5, <1>6, <1>7, <1>8, <1>9, <1>10, <1>11,
     <1>12, <1>13, <1>14, <1>15, <1>16 DEF Next

\* Type correctness.
THEOREM TypeCorrect == Spec => []TypeOK
  BY TypeInit, TypeNext, PTL DEF Spec

(***************************************************************************)
(* The inductive invariant.                                                *)
(***************************************************************************)
\* An empty queue and an idle agent satisfy the invariant.
LEMMA IInvInit == Init => IInv
<1> SUFFICES ASSUME Init PROVE IInv
  OBVIOUS
<1>1. TypeOK
  BY TypeInit
<1>2. RowInv
  BY BoundsAssumption DEF Init, RowInv, Tasks, Outcomes, Unclaimed
<1>3. HandlerInv
  BY DEF Init, HandlerInv, Free
<1>4. AgentInv
  BY DEF Init, AgentInv, Idle
<1>5. OrderInv
  BY DEF Init, OrderInv, Available
<1>6. QED
  BY <1>1, <1>2, <1>3, <1>4, <1>5 DEF IInv

\* Whatever is travelling or being run has a row.
LEMMA HeldHasRow ==
  ASSUME TypeOK, HandlerInv, AgentInv, NEW t \in Tasks, Held(t)
  PROVE  status[t] # "none"
<1>1. t # NoTask
  BY DEF Tasks, NoTask
<1>2. CASE agent.task = t
  BY <1>1, <1>2 DEF AgentInv, Ran, Unclaimed, TypeOK, AgentState
<1>3. ASSUME NEW h \in Handlers, handler[h].task = t
      PROVE  status[t] # "none"
  <2>1. handler[h].pc \in {"free", "select", "update", "complete", "reply"}
    BY DEF TypeOK, HandlerState
  <2>2. QED
    BY <1>1, <1>3, <2>1 DEF HandlerInv, Ran, Unclaimed
<1>4. QED
  BY <1>2, <1>3 DEF Held

\* What a step that leaves the rows or the carriers of tasks alone preserves.
LEMMA RowFrame ==
  ASSUME RowInv, UNCHANGED <<lastId, status, waiter, execs, outcome>>
  PROVE  RowInv'
  BY DEF RowInv

\* What a step that leaves the requests alone and unclaims nothing preserves.
LEMMA HandlerFrame ==
  ASSUME HandlerInv, UNCHANGED <<handler, status, execs, outcome>>
  PROVE  HandlerInv'
  BY DEF HandlerInv, Ran

\* What a step that leaves the agent and its request alone preserves.
LEMMA AgentFrame ==
  ASSUME AgentInv, UNCHANGED <<agent, handler, status, execs, outcome>>
  PROVE  AgentInv'
  BY DEF AgentInv, Ran, Fresh

\* Time only makes tasks unavailable, and nothing new is carried.
LEMMA OrderFrame ==
  ASSUME TypeOK, TypeOK', OrderInv, now' >= now, UNCHANGED <<status, deadline>>,
         \A t \in Tasks : Held(t)' => Held(t)
  PROVE  OrderInv'
<1>1. \A t \in Tasks : Available(t)' => Available(t)
  BY DEF TypeOK, Available
<1>2. QED
  BY <1>1 DEF OrderInv

\* Every step preserves the invariant; each action comes down to the conjuncts
\* it can disturb, the frames above settle the others.
LEMMA IInvNext == IInv /\ [Next]_vars => IInv'
<1> SUFFICES ASSUME IInv, [Next]_vars
             PROVE  IInv'
  OBVIOUS
<1> DEFINE Goal == RowInv' /\ HandlerInv' /\ AgentInv' /\ OrderInv'
<1>1. TypeOK /\ RowInv /\ HandlerInv /\ AgentInv /\ OrderInv
  BY DEF IInv
<1>2. TypeOK'
  BY <1>1, TypeNext
<1>3. ASSUME Tick
      PROVE  Goal
  <2>1. /\ UNCHANGED <<lastId, status, deadline, waiter, handler, agent, execs, outcome>>
        /\ now' >= now
    BY <1>1, <1>3 DEF Tick, TypeOK
  <2>2. \A t \in Tasks : Held(t)' => Held(t)
    BY <2>1 DEF Held
  <2>3. QED
    BY <1>1, <1>2, <2>1, <2>2, RowFrame, HandlerFrame, AgentFrame, OrderFrame
<1>4. ASSUME NEW ttl \in Lifetimes, NEW waits \in BOOLEAN, EnqueueTask(ttl, waits)
      PROVE  Goal
  <2> DEFINE id == lastId + 1
  <2>a. /\ id \in Tasks /\ status[id] = "none"
        /\ status'[id] = "pending"
        /\ \A t \in Tasks : t # id => status'[t] = status[t] /\ deadline'[t] = deadline[t]
        /\ lastId' = id
        /\ UNCHANGED <<now, handler, agent, execs, outcome>>
    <3>1. id \in Tasks /\ id > lastId
      BY <1>1, <1>4, BoundsAssumption DEF EnqueueTask, TypeOK, Tasks
    <3>2. /\ status' = [status EXCEPT ![id] = "pending"]
          /\ deadline' = [deadline EXCEPT ![id] = now + ttl]
          /\ lastId' = id
          /\ UNCHANGED <<now, handler, agent, execs, outcome>>
      BY <1>4 DEF EnqueueTask
    <3> HIDE DEF id
    <3>3. QED
      BY <1>1, <3>1, <3>2 DEF RowInv, TypeOK
  <2>b. \A t \in Tasks : waiter'[t] \in Outcomes => waiter'[t] = waiter[t]
    <3>1. CASE waits = TRUE
      BY <1>1, <1>4, <3>1 DEF EnqueueTask, TypeOK, Outcomes
    <3>2. CASE waits = FALSE
      BY <1>4, <3>2 DEF EnqueueTask
    <3>3. QED
      BY <3>1, <3>2
  <2> HIDE DEF id
  <2>1. RowInv'
    <3>1. id = lastId + 1 /\ lastId \in Int
      BY <1>1 DEF id, TypeOK
    <3>2. QED
      BY <1>1, <2>a, <2>b, <3>1 DEF RowInv, Unclaimed, Outcomes, Tasks
  <2>2. HandlerInv'
    BY <1>1, <2>a DEF HandlerInv, Ran, Unclaimed, Outcomes, TypeOK, HandlerState, NoTask
  <2>3. AgentInv'
    BY <1>1, <2>a DEF AgentInv, Ran, Fresh, Unclaimed, TypeOK, AgentState, NoTask
  <2>4. OrderInv'
    <3>1. ~Held(id)
      BY <1>1, <2>a, HeldHasRow
    <3>2. \A t \in Tasks : t > id => ~Held(t) /\ status'[t] = "none"
      <4>1. ASSUME NEW t \in Tasks, t > id
            PROVE  status[t] = "none" /\ t # id
        BY <1>1, <4>1 DEF RowInv, id, TypeOK, Tasks
      <4>2. QED
        BY <1>1, <2>a, <4>1, HeldHasRow
    <3>3. \A t \in Tasks : Held(t)' <=> Held(t)
      BY <2>a DEF Held
    <3>4. id \in Int /\ \A t \in Tasks : t \in Int
      BY <2>a DEF Tasks
    <3>5. QED
      BY <1>1, <2>a, <3>1, <3>2, <3>3, <3>4 DEF OrderInv, Available, Unclaimed
  <2>5. QED
    BY <2>1, <2>2, <2>3, <2>4
<1>5. ASSUME NEW t \in Tasks, WaitForTaskPoll(t)
      PROVE  Goal
  <2>1. RowInv'
    <3>1. UNCHANGED <<lastId, status, execs, outcome>>
      BY <1>5 DEF WaitForTaskPoll, Finished
    <3>2. \A u \in Tasks : waiter'[u] \in Outcomes =>
                              waiter'[u] = waiter[u] \/ waiter'[u] = status[u]
      BY <1>1, <1>5 DEF WaitForTaskPoll, Finished, TypeOK, Outcomes
    <3>3. QED
      BY <1>1, <3>1, <3>2 DEF RowInv, Unclaimed, Outcomes
  <2>2. UNCHANGED <<now, status, deadline, handler, agent, execs, outcome>>
    BY <1>5 DEF WaitForTaskPoll
  <2>3. now' >= now /\ \A u \in Tasks : Held(u)' => Held(u)
    BY <1>1, <2>2 DEF Held, TypeOK
  <2>4. QED
    BY <1>1, <1>2, <2>1, <2>2, <2>3, HandlerFrame, AgentFrame, OrderFrame
<1>6. ASSUME NEW h \in Handlers, PullTaskSelect(h)
      PROVE  Goal
  <2>a. handler[h].pc = "select" /\ UNCHANGED <<now, lastId, status, deadline, waiter, agent, execs, outcome>>
    BY <1>6 DEF PullTaskSelect, panelVars
  <2>b. \/ /\ \A t \in Tasks : ~Available(t)
           /\ handler' = [handler EXCEPT ![h].pc = "reply"]
        \/ \E t \in Tasks :
              /\ Selected(t)
              /\ handler' = [handler EXCEPT ![h].pc = "update", ![h].task = t]
    BY <1>6 DEF PullTaskSelect
  <2>c. /\ handler[h].task = NoTask
        /\ handler[h].result = "none"
    BY <1>1, <2>a DEF HandlerInv
  <2>1. RowInv'
    BY <1>1, <2>a DEF RowInv
  <2>2. HandlerInv'
    <3>1. CASE handler' = [handler EXCEPT ![h].pc = "reply"]
      BY <1>1, <2>a, <2>c, <3>1 DEF HandlerInv, Ran, TypeOK, HandlerState
    <3>2. ASSUME NEW t \in Tasks, Selected(t),
                 handler' = [handler EXCEPT ![h].pc = "update", ![h].task = t]
          PROVE  HandlerInv'
      BY <1>1, <2>a, <3>2 DEF HandlerInv, Ran, Selected, Available, TypeOK, HandlerState
    <3>3. QED
      BY <2>b, <3>1, <3>2
  <2>3. AgentInv'
    <3>1. CASE handler' = [handler EXCEPT ![h].pc = "reply"]
      BY <1>1, <2>a, <2>c, <3>1 DEF AgentInv, Ran, Fresh, TypeOK, AgentState, HandlerState
    <3>2. ASSUME NEW t \in Tasks, Selected(t),
                 handler' = [handler EXCEPT ![h].pc = "update", ![h].task = t]
          PROVE  AgentInv'
      <4>1. ASSUME NEW u \in Tasks, u > t PROVE execs[u] = 0
        BY <1>1, <3>2, <4>1
        DEF OrderInv, RowInv, Selected, Unclaimed, TypeOK, Tasks
      <4>2. Fresh(t)
        BY <1>1, <3>2, <4>1 DEF Fresh, RowInv, Selected, Available, Unclaimed, Tasks
      <4>3. QED
        BY <1>1, <2>a, <3>2, <4>2 DEF AgentInv, Ran, Fresh, TypeOK, AgentState, HandlerState
    <3>3. QED
      BY <2>b, <3>1, <3>2
  <2>4. OrderInv'
    <3>1. CASE handler' = [handler EXCEPT ![h].pc = "reply"]
      BY <1>1, <2>a, <2>c, <3>1 DEF OrderInv, Held, Available, TypeOK, HandlerState
    <3>2. ASSUME NEW t \in Tasks, Selected(t),
                 handler' = [handler EXCEPT ![h].pc = "update", ![h].task = t]
          PROVE  OrderInv'
      <4>1. \A u \in Tasks : Held(u)' => Held(u) \/ u = t
        BY <1>1, <2>a, <3>2 DEF Held, TypeOK, HandlerState
      <4>2. QED
        BY <1>1, <2>a, <3>2, <4>1 DEF OrderInv, Selected, Available
    <3>3. QED
      BY <2>b, <3>1, <3>2
  <2>5. QED
    BY <2>1, <2>2, <2>3, <2>4
<1>7. ASSUME NEW h \in Handlers, PullTaskUpdate(h)
      PROVE  Goal
  <2> DEFINE t == handler[h].task
  <2>1. /\ UNCHANGED <<now, lastId, deadline, waiter, agent, execs, outcome>>
        /\ handler' = [handler EXCEPT ![h].pc = "reply"]
        /\ handler[h].pc = "update"
    BY <1>7 DEF PullTaskUpdate
  <2>2. t \in Tasks /\ status[t] # "none"
    BY <1>1, <2>1 DEF HandlerInv
  <2>3. status' = [status EXCEPT ![t] =
                      IF status[t] = "pending" THEN "running" ELSE status[t]]
    BY <1>7 DEF PullTaskUpdate, MarkRunning
  <2>4. /\ status'[t] \notin Unclaimed
        /\ \A u \in Tasks :
              \/ status'[u] = status[u]
              \/ u = t /\ status[t] = "pending" /\ status'[t] = "running"
    <3> HIDE DEF t
    <3>1. QED
      BY <1>1, <2>2, <2>3 DEF Unclaimed, TypeOK
  <2>5. RowInv'
    BY <1>1, <2>1, <2>2, <2>4 DEF RowInv, Unclaimed, Outcomes, TypeOK
  <2>6. HandlerInv'
    BY <1>1, <2>1, <2>4 DEF HandlerInv, Ran, Unclaimed, TypeOK, HandlerState, NoTask
  <2>7. AgentInv'
    BY <1>1, <2>1, <2>4 DEF AgentInv, Ran, Fresh, Unclaimed, TypeOK, AgentState,
                            HandlerState, NoTask
  <2>8. OrderInv'
    <3>1. \A u \in Tasks : Held(u)' => Held(u)
      BY <1>1, <2>1 DEF Held, TypeOK
    <3>2. Held(t)
      BY DEF Held
    <3>3. \A u \in Tasks : Available(u)' => Available(u)
      BY <2>1, <2>4 DEF Available
    <3>4. QED
      BY <1>1, <2>2, <2>4, <3>1, <3>2, <3>3 DEF OrderInv
  <2>9. QED
    BY <2>5, <2>6, <2>7, <2>8
<1>8. ASSUME NEW h \in Handlers, CompleteTask(h)
      PROVE  Goal
  <2> DEFINE t == handler[h].task
  <2>1. /\ UNCHANGED <<now, lastId, deadline, waiter, agent, execs, outcome>>
        /\ handler' = [handler EXCEPT ![h] = [Free EXCEPT !.pc = "reply"]]
        /\ handler[h].pc = "complete"
    BY <1>8 DEF CompleteTask
  <2>2. Ran(t, handler[h].result)
    BY <1>1, <2>1 DEF HandlerInv
  <2>3. status' = [status EXCEPT ![t] = handler[h].result]
    BY <1>8, <2>2 DEF CompleteTask, ReportedStatus, Ran, Outcomes
  <2>4. RowInv'
    BY <1>1, <2>1, <2>2, <2>3 DEF RowInv, Ran, Unclaimed, Outcomes, TypeOK
  <2>5. HandlerInv'
    BY <1>1, <2>1, <2>2, <2>3
    DEF HandlerInv, Ran, Unclaimed, Outcomes, Free, TypeOK, HandlerState
  <2>6. AgentInv'
    BY <1>1, <2>1, <2>2, <2>3
    DEF AgentInv, Ran, Fresh, Unclaimed, Outcomes, Free, TypeOK, AgentState, NoTask
  <2>7. OrderInv'
    <3>1. \A u \in Tasks : Held(u)' => Held(u)
      BY <1>1, <2>1 DEF Held, Free, Tasks, NoTask, TypeOK
    <3>2. status'[t] \notin Unclaimed /\ \A u \in Tasks : u # t => status'[u] = status[u]
      BY <1>1, <2>2, <2>3 DEF Ran, Unclaimed, Outcomes, TypeOK
    <3>3. QED
      BY <1>1, <2>1, <2>2, <3>1, <3>2 DEF OrderInv, Available, Ran, Unclaimed
  <2>8. QED
    BY <2>4, <2>5, <2>6, <2>7
<1>9. ASSUME NEW h \in Handlers, HandlerFails(h)
       PROVE  Goal
  <2>1. UNCHANGED <<now, lastId, status, deadline, waiter, execs, outcome>>
    BY <1>9 DEF HandlerFails, panelVars
  <2>2. /\ handler[h].pc \in {"select", "update", "complete"}
        /\ handler' = [handler EXCEPT ![h] = [Free EXCEPT !.pc = "reply"]]
        /\ agent' = agent
    BY <1>9 DEF HandlerFails
  <2>3. HandlerInv'
    BY <1>1, <2>1, <2>2 DEF HandlerInv, Ran, Free, TypeOK
  <2>4. AgentInv'
    BY <1>1, <2>1, <2>2 DEF AgentInv, Ran, Fresh, Free, TypeOK
  <2>5. now' >= now /\ \A t \in Tasks : Held(t)' => Held(t)
    BY <1>1, <2>1, <2>2 DEF Held, Free, Tasks, NoTask, TypeOK
  <2>6. QED
    BY <1>1, <1>2, <2>1, <2>3, <2>4, <2>5, RowFrame, OrderFrame
<1>10. ASSUME NEW h \in Handlers, DiscardReply(h)
       PROVE  Goal
  <2>1. UNCHANGED <<now, lastId, status, deadline, waiter, execs, outcome>>
    BY <1>10 DEF DiscardReply, panelVars
  <2>2. /\ agent.req # h
        /\ handler' = [handler EXCEPT ![h] = Free]
        /\ agent' = agent
    BY <1>10 DEF DiscardReply
  <2>3. HandlerInv'
    BY <1>1, <2>1, <2>2 DEF HandlerInv, Ran, Free, TypeOK
  <2>4. AgentInv'
    BY <1>1, <2>1, <2>2 DEF AgentInv, Ran, Fresh, TypeOK
  <2>5. now' >= now /\ \A t \in Tasks : Held(t)' => Held(t)
    BY <1>1, <2>1, <2>2 DEF Held, Free, Tasks, NoTask, TypeOK
  <2>6. QED
    BY <1>1, <1>2, <2>1, <2>3, <2>4, <2>5, RowFrame, OrderFrame
<1>11. ASSUME NEW h \in Handlers, ProcessNextTask(h)
       PROVE  Goal
  <2>1. UNCHANGED <<now, lastId, status, deadline, waiter, execs, outcome>>
    BY <1>11 DEF ProcessNextTask, panelVars
  <2>2. /\ handler[h] = Free
        /\ handler' = [handler EXCEPT ![h].pc = "select"]
        /\ agent' = [Idle EXCEPT !.pc = "pull", !.req = h]
    BY <1>11 DEF ProcessNextTask
  <2>3. HandlerInv'
    BY <1>1, <2>1, <2>2 DEF HandlerInv, Ran, Free, TypeOK
  <2>4. AgentInv'
    BY <1>1, <2>1, <2>2, BoundsAssumption DEF AgentInv, Idle, Free, TypeOK
  <2>5. now' >= now /\ \A t \in Tasks : Held(t)' => Held(t)
    BY <1>1, <2>1, <2>2 DEF Held, Free, Idle, Tasks, NoTask, TypeOK
  <2>6. QED
    BY <1>1, <1>2, <2>1, <2>3, <2>4, <2>5, RowFrame, OrderFrame
<1>12. ASSUME NEW h \in Handlers, ReceiveReply(h)
       PROVE  Goal
  <2>1. UNCHANGED <<now, lastId, status, deadline, waiter, execs, outcome>>
    BY <1>12 DEF ReceiveReply, panelVars
  <2>2. /\ handler[h].pc = "reply"
        /\ handler' = [handler EXCEPT ![h] = Free]
        /\ agent' = IF handler[h].task = NoTask
                    THEN Idle
                    ELSE [Idle EXCEPT !.pc = "run", !.task = handler[h].task]
    BY <1>12 DEF ReceiveReply
  <2>3. HandlerInv'
    BY <1>1, <2>1, <2>2 DEF HandlerInv, Ran, Free, TypeOK
  <2>4. AgentInv'
    <3>1. agent.req = h /\ handler[h].pc = "reply" /\ agent.pc \in {"pull", "complete"}
          /\ UNCHANGED <<status, execs, outcome>>
      BY <1>1, <1>12, BoundsAssumption DEF ReceiveReply, AgentInv, panelVars
    <3>2. CASE handler[h].task = NoTask
      BY <3>1, <3>2, <1>12 DEF ReceiveReply, AgentInv, Idle, NoTask
    <3>3. CASE handler[h].task # NoTask
      <4>1. agent.pc = "pull" /\ Fresh(handler[h].task)
        BY <1>1, <3>1, <3>3 DEF AgentInv
      <4>2. status[handler[h].task] \notin Unclaimed
        BY <1>1, <3>1, <3>3 DEF HandlerInv
      <4>3. agent' = [Idle EXCEPT !.pc = "run", !.task = handler[h].task]
        BY <1>12, <3>3 DEF ReceiveReply
      <4>4. QED
        BY <3>1, <3>3, <4>1, <4>2, <4>3 DEF AgentInv, Idle, Fresh, NoTask
    <3>4. QED
      BY <3>2, <3>3
  <2>5. now' >= now /\ \A t \in Tasks : Held(t)' => Held(t)
    BY <1>1, <2>1, <2>2 DEF Held, Free, Idle, Tasks, NoTask, TypeOK
  <2>6. QED
    BY <1>1, <1>2, <2>1, <2>3, <2>4, <2>5, RowFrame, OrderFrame
<1>13. ASSUME NEW h \in Handlers, ReportResult(h)
       PROVE  Goal
  <2>1. UNCHANGED <<now, lastId, status, deadline, waiter, execs, outcome>>
    BY <1>13 DEF ReportResult, panelVars
  <2>2. /\ agent.pc = "report"
        /\ handler' = [handler EXCEPT ![h] = [pc |-> "complete", task |-> agent.task,
                                             result |-> agent.result]]
        /\ agent' = [Idle EXCEPT !.pc = "complete", !.req = h]
    BY <1>13 DEF ReportResult
  <2>3. HandlerInv'
    <3>1. Ran(agent.task, agent.result)
      BY <1>1, <2>2 DEF AgentInv
    <3>2. QED
      BY <1>1, <2>1, <2>2, <3>1 DEF HandlerInv, Ran, TypeOK
  <2>4. AgentInv'
    BY <1>1, <2>1, <2>2, BoundsAssumption DEF AgentInv, Idle, NoTask, TypeOK
  <2>5. now' >= now /\ \A t \in Tasks : Held(t)' => Held(t)
    BY <1>1, <2>1, <2>2 DEF Held, Idle, Tasks, NoTask, TypeOK
  <2>6. QED
    BY <1>1, <1>2, <2>1, <2>3, <2>4, <2>5, RowFrame, OrderFrame
<1>14. ASSUME NEW result \in Outcomes, ExecuteTask(result)
      PROVE  Goal
  <2>a. /\ agent.pc = "run" /\ agent.task \in Tasks /\ Fresh(agent.task)
        /\ status[agent.task] \notin Unclaimed
    BY <1>1, <1>14 DEF ExecuteTask, AgentInv, TypeOK, AgentState
  <2>b. execs[agent.task] = 0
    BY <2>a DEF Fresh, Tasks
  <2>c. /\ execs' = [execs EXCEPT ![agent.task] = 1]
        /\ outcome' = [outcome EXCEPT ![agent.task] = result]
        /\ UNCHANGED <<now, lastId, status, deadline, waiter, handler>>
    BY <1>14, <2>b DEF ExecuteTask, panelVars
  <2>1. RowInv'
    BY <1>1, <2>a, <2>b, <2>c DEF RowInv, Unclaimed, Outcomes, TypeOK
  <2>2. HandlerInv'
    BY <1>1, <2>a, <2>b, <2>c DEF HandlerInv, Ran, Unclaimed, Outcomes, TypeOK, HandlerState
  <2>d. agent' = [agent EXCEPT !.pc = "report", !.result = result]
    BY <1>14 DEF ExecuteTask
  <2>3. AgentInv'
    BY <1>1, <1>14, <2>a, <2>c, <2>d DEF AgentInv, Ran, TypeOK, AgentState, NoTask
  <2>4. now' >= now /\ \A t \in Tasks : Held(t)' => Held(t)
    BY <1>1, <2>c, <2>d DEF Held, TypeOK, AgentState
  <2>5. QED
    BY <1>1, <1>2, <2>1, <2>2, <2>3, <2>4, <2>c, OrderFrame
<1>15. ASSUME Heartbeat
       PROVE  Goal
  <2>1. UNCHANGED <<now, lastId, status, deadline, waiter, handler, agent, execs, outcome>>
    BY <1>15 DEF Heartbeat
  <2>2. now' >= now /\ \A t \in Tasks : Held(t)' => Held(t)
    BY <1>1, <2>1 DEF Held, TypeOK
  <2>3. QED
    BY <1>1, <1>2, <2>1, <2>2, RowFrame, HandlerFrame, AgentFrame, OrderFrame
<1>16. ASSUME LoseRequest
       PROVE  Goal
  <2>1. UNCHANGED <<now, lastId, status, deadline, waiter, handler, execs, outcome>>
    BY <1>16 DEF LoseRequest, panelVars
  <2>2. agent' = Idle
    BY <1>16 DEF LoseRequest
  <2>3. AgentInv'
    BY <2>2 DEF AgentInv, Idle
  <2>4. now' >= now /\ \A t \in Tasks : Held(t)' => Held(t)
    BY <1>1, <2>1, <2>2 DEF Held, TypeOK, Idle, Tasks, NoTask
  <2>5. QED
    BY <1>1, <1>2, <2>1, <2>3, <2>4, RowFrame, HandlerFrame, OrderFrame
<1>17. ASSUME AgentRestart
       PROVE  Goal
  <2>1. UNCHANGED <<now, lastId, status, deadline, waiter, handler, execs, outcome>>
    BY <1>17 DEF AgentRestart, panelVars
  <2>2. agent' = Idle
    BY <1>17 DEF AgentRestart
  <2>3. AgentInv'
    BY <2>2 DEF AgentInv, Idle
  <2>4. now' >= now /\ \A t \in Tasks : Held(t)' => Held(t)
    BY <1>1, <2>1, <2>2 DEF Held, TypeOK, Idle, Tasks, NoTask
  <2>5. QED
    BY <1>1, <1>2, <2>1, <2>3, <2>4, RowFrame, HandlerFrame, OrderFrame
<1>18. ASSUME UNCHANGED vars
       PROVE  Goal
  <2>1. UNCHANGED <<now, lastId, status, deadline, waiter, handler, agent, execs, outcome>>
    BY <1>18 DEF vars
  <2>2. now' >= now /\ \A t \in Tasks : Held(t)' => Held(t)
    BY <1>1, <2>1 DEF Held, TypeOK
  <2>3. QED
    BY <1>1, <1>2, <2>1, <2>2, RowFrame, HandlerFrame, AgentFrame, OrderFrame
<1>19. QED
  BY <1>2, <1>3, <1>4, <1>5, <1>6, <1>7, <1>8, <1>9, <1>10, <1>11, <1>12, <1>13,
     <1>14, <1>15, <1>16, <1>17, <1>18 DEF Next, IInv

\* The inductive invariant holds in every reachable state.
THEOREM Invariance == Spec => []IInv
  BY IInvInit, IInvNext, PTL DEF Spec

(***************************************************************************)
(* The safety properties.                                                  *)
(***************************************************************************)

\* However pulls overlap and whatever gets lost, no task runs twice.
THEOREM NoTaskRunsTwice == Spec => []AtMostOnce
<1>1. IInv => AtMostOnce
  BY DEF IInv, RowInv, AtMostOnce
<1>2. QED
  BY <1>1, Invariance, PTL

\* A result shown to a user was produced by the run of that task.
THEOREM ResultsAreTrue == Spec => []ResultIsTrue
<1>1. IInv => ResultIsTrue
  BY DEF IInv, RowInv, ResultIsTrue
<1>2. QED
  BY <1>1, Invariance, PTL

\* Only ExecuteTask counts a run, and at that point the task is fresh.
LEMMA ExecutionStep ==
  ASSUME IInv, [Next]_vars, NEW t \in Tasks, execs'[t] # execs[t]
  PROVE  /\ agent.pc = "run" /\ agent.task = t
         /\ Fresh(t)
         /\ status[t] \notin Unclaimed
         /\ \E result \in Outcomes : ExecuteTask(result)
<1>1. \E result \in Outcomes : ExecuteTask(result)
  BY DEF Next, vars, panelVars, Tick, EnqueueTask, WaitForTaskPoll, PullTaskSelect,
         PullTaskUpdate, CompleteTask, HandlerFails, DiscardReply, Heartbeat,
         ProcessNextTask, ReceiveReply, ReportResult, LoseRequest, AgentRestart
<1>2. agent.pc = "run" /\ agent.task = t
  BY <1>1 DEF ExecuteTask, IInv, TypeOK
<1>3. QED
  BY <1>1, <1>2 DEF IInv, AgentInv

\* Tasks run in the order in which they were enqueued.
THEOREM TasksRunInOrder == Spec => ExecutedInOrder
<1>1. IInv /\ [Next]_vars =>
        \A t, u \in Tasks : execs'[t] # execs[t] /\ t < u => execs[u] = 0
  <2> SUFFICES ASSUME IInv, [Next]_vars, NEW t \in Tasks, NEW u \in Tasks,
                      execs'[t] # execs[t], t < u
               PROVE  execs[u] = 0
    OBVIOUS
  <2>1. Fresh(t)
    BY ExecutionStep
  <2>2. QED
    BY <2>1 DEF Fresh, Tasks
<1>2. QED
  BY <1>1, Invariance, PTL DEF Spec, ExecutedInOrder

\* How a row may change in one step.
LEMMA StatusStep ==
  ASSUME IInv, [Next]_vars, NEW t \in Tasks, status'[t] # status[t]
  PROVE  \/ status[t] = "none" /\ status'[t] = "pending"
         \/ status[t] = "pending" /\ status'[t] = "running"
         \/ /\ \E h \in Handlers : CompleteTask(h) /\ handler[h].task = t
            /\ status'[t] = outcome[t]
            /\ Ran(t, outcome[t])
<1>1. CASE \E ttl \in Lifetimes, waits \in BOOLEAN : EnqueueTask(ttl, waits)
  <2>1. t = lastId + 1 /\ status'[t] = "pending"
    BY <1>1 DEF EnqueueTask, IInv, TypeOK
  <2>2. QED
    BY <2>1 DEF IInv, RowInv, TypeOK
<1>2. ASSUME NEW h \in Handlers, PullTaskUpdate(h)
      PROVE  status[t] = "pending" /\ status'[t] = "running"
  BY <1>2 DEF PullTaskUpdate, MarkRunning, IInv, TypeOK
<1>3. ASSUME NEW h \in Handlers, CompleteTask(h)
      PROVE  /\ handler[h].task = t
             /\ status'[t] = outcome[t]
             /\ Ran(t, outcome[t])
  <2>1. Ran(handler[h].task, handler[h].result)
    BY <1>3 DEF CompleteTask, IInv, HandlerInv
  <2>2. status' = [status EXCEPT ![handler[h].task] = handler[h].result]
    BY <1>3, <2>1 DEF CompleteTask, ReportedStatus, Ran, Outcomes
  <2>3. QED
    BY <2>1, <2>2 DEF Ran, IInv, TypeOK
<1>4. CASE UNCHANGED status
  BY <1>4
<1>5. QED
  BY <1>1, <1>2, <1>3, <1>4
  DEF Next, vars, panelVars, Tick, WaitForTaskPoll, PullTaskSelect, HandlerFails,
      DiscardReply, Heartbeat, ProcessNextTask, ReceiveReply, ExecuteTask,
      ReportResult, LoseRequest, AgentRestart

\* A pull still under way does not reopen a finished task.
THEOREM FinishedStaysFinished == Spec => FinalStatusStable
<1>1. IInv /\ [Next]_vars =>
        \A t \in Tasks : status[t] \in Outcomes => status'[t] = status[t]
  <2> SUFFICES ASSUME IInv, [Next]_vars, NEW t \in Tasks, status[t] \in Outcomes,
                      status'[t] # status[t]
               PROVE  FALSE
    OBVIOUS
  <2>1. status[t] = outcome[t]
    BY DEF IInv, RowInv
  <2>2. QED
    BY <2>1, StatusStep DEF Outcomes
<1>2. QED
  BY <1>1, Invariance, PTL DEF Spec, FinalStatusStable

\* Only the SELECT of a pull makes anybody hold a task nobody held.
LEMMA CarryStep ==
  ASSUME IInv, [Next]_vars, NEW t \in Tasks, ~Held(t), Held(t)'
  PROVE  Available(t)
<1> USE DEF Held
<1>1. t # NoTask
  BY DEF Tasks, NoTask
<1>2. TypeOK
  BY DEF IInv
<1>3. ASSUME NEW h \in Handlers, PullTaskSelect(h)
      PROVE  Available(t)
  BY <1>2, <1>3 DEF PullTaskSelect, Selected, TypeOK, HandlerState
<1>4. ASSUME NEW h \in Handlers, PullTaskUpdate(h)
      PROVE  FALSE
  BY <1>2, <1>4 DEF PullTaskUpdate, TypeOK, HandlerState
<1>5. ASSUME NEW h \in Handlers, CompleteTask(h) \/ HandlerFails(h) \/ DiscardReply(h)
      PROVE  FALSE
  BY <1>1, <1>2, <1>5 DEF CompleteTask, HandlerFails, DiscardReply, Free, TypeOK, HandlerState
<1>6. ASSUME NEW h \in Handlers, ProcessNextTask(h)
      PROVE  FALSE
  BY <1>1, <1>2, <1>6 DEF ProcessNextTask, Free, Idle, TypeOK, HandlerState
<1>7. ASSUME NEW h \in Handlers, ReceiveReply(h)
      PROVE  FALSE
  BY <1>1, <1>2, <1>7 DEF ReceiveReply, Free, Idle, TypeOK, HandlerState
<1>8. ASSUME NEW h \in Handlers, ReportResult(h)
      PROVE  FALSE
  BY <1>1, <1>2, <1>8 DEF ReportResult, Free, Idle, TypeOK, HandlerState
<1>9. ASSUME NEW result \in Outcomes, ExecuteTask(result)
      PROVE  FALSE
  BY <1>2, <1>9 DEF ExecuteTask, TypeOK, AgentState
<1>10. CASE LoseRequest \/ AgentRestart
  BY <1>1, <1>2, <1>10 DEF LoseRequest, AgentRestart, Idle, TypeOK, AgentState
<1>11. CASE UNCHANGED <<handler, agent>>
  BY <1>11
<1>12. QED
  BY <1>3, <1>4, <1>5, <1>6, <1>7, <1>8, <1>9, <1>10, <1>11
  DEF Next, vars, Tick, EnqueueTask, WaitForTaskPoll, Heartbeat

\* A task lost after it was claimed is neither delivered again nor expired.
THEOREM LostForEver == Spec => LostStaysLost
<1>1. IInv /\ [Next]_vars =>
        \A t \in Tasks : status[t] = "running" /\ execs[t] = 0 /\ ~Held(t)
            => status'[t] = "running" /\ execs'[t] = 0 /\ ~Held(t)'
  <2> SUFFICES ASSUME IInv, [Next]_vars, NEW t \in Tasks,
                      status[t] = "running", execs[t] = 0, ~Held(t)
               PROVE  status'[t] = "running" /\ execs'[t] = 0 /\ ~Held(t)'
    OBVIOUS
  <2>1. execs'[t] = execs[t]
    BY ExecutionStep DEF Held
  <2>2. status'[t] = status[t]
    BY StatusStep DEF Ran
  <2>3. ~Held(t)'
    BY CarryStep DEF Available
  <2>4. QED
    BY <2>1, <2>2, <2>3
<1>2. QED
  BY <1>1, Invariance, PTL DEF Spec, LostStaysLost

(***************************************************************************)
(* The refinement of TaskDelivery.                                         *)
(***************************************************************************)

\* An empty queue is an empty delivery.
LEMMA DeliveryInit == Init => Delivery!Init
  BY DEF Init, Delivery!Init, Delivery!Tasks, Tasks, Phase, Recorded, Outcomes

\* A step that changes neither the rows nor the history is invisible.
LEMMA DeliveryStutter ==
  ASSUME UNCHANGED <<status, execs, outcome>>
  PROVE  UNCHANGED Delivery!vars
  BY DEF Delivery!vars, Phase, Recorded

\* Every step of the queue is one step of the delivery, or none: enqueueing
\* submits, the UPDATE of a pull takes, the run executes, completing records.
LEMMA DeliveryNext == IInv /\ [Next]_vars => [Delivery!Next]_(Delivery!vars)
<1> SUFFICES ASSUME IInv, [Next]_vars
             PROVE  [Delivery!Next]_(Delivery!vars)
  OBVIOUS
<1>1. TypeOK /\ RowInv /\ HandlerInv /\ AgentInv
  BY DEF IInv
<1>2. ASSUME NEW ttl \in Lifetimes, NEW waits \in BOOLEAN, EnqueueTask(ttl, waits)
      PROVE  Delivery!Next
  <2> DEFINE id == lastId + 1
  <2>1. /\ id \in Tasks /\ status[id] = "none"
        /\ \A u \in Tasks : u < id => status[u] # "none"
    <3>1. id \in Tasks /\ id > lastId /\ lastId \in Int /\ id = lastId + 1
      BY <1>1, <1>2, BoundsAssumption DEF EnqueueTask, TypeOK, Tasks
    <3> HIDE DEF id
    <3>2. QED
      BY <1>1, <3>1 DEF RowInv, Tasks
  <2>2. status' = [status EXCEPT ![id] = "pending"] /\ UNCHANGED <<execs, outcome>>
    BY <1>2 DEF EnqueueTask
  <2> HIDE DEF id
  <2>3. /\ Phase[id] = "none"
        /\ \A u \in Tasks : u < id => Phase[u] # "none"
    BY <2>1 DEF Phase
  <2>4. Phase' = [Phase EXCEPT ![id] = "queued"]
    <3>1. \A u \in Tasks : status'[u] = IF u = id THEN "pending" ELSE status[u]
      BY <1>1, <2>2 DEF TypeOK
    <3>2. \A u \in Tasks : Phase'[u] = IF u = id THEN "queued" ELSE Phase[u]
      BY <2>2, <3>1 DEF Phase
    <3>3. Phase' = [u \in Tasks |-> Phase'[u]]
      BY DEF Phase
    <3>4. [Phase EXCEPT ![id] = "queued"] = [u \in Tasks |-> IF u = id THEN "queued" ELSE Phase[u]]
      BY DEF Phase
    <3>5. QED
      BY <3>2, <3>3, <3>4
  <2>5. Recorded' = Recorded
    BY <1>1, <2>1, <2>2 DEF Recorded, Outcomes, TypeOK
  <2>6. QED
    BY <2>1, <2>2, <2>3, <2>4, <2>5
    DEF Delivery!Next, Delivery!Submit, Delivery!Tasks, Tasks
<1>3. ASSUME NEW h \in Handlers, PullTaskUpdate(h)
      PROVE  Delivery!Next \/ UNCHANGED Delivery!vars
  <2> DEFINE t == handler[h].task
  <2>1. t \in Tasks /\ status[t] # "none" /\ UNCHANGED <<execs, outcome>>
    BY <1>1, <1>3 DEF PullTaskUpdate, HandlerInv
  <2>2. status' = [status EXCEPT ![t] =
                      IF status[t] = "pending" THEN "running" ELSE status[t]]
    BY <1>3 DEF PullTaskUpdate, MarkRunning
  <2> HIDE DEF t
  <2>3. CASE status[t] = "pending"
    <3>1. status' = [status EXCEPT ![t] = "running"] /\ execs[t] = 0
      BY <1>1, <2>1, <2>2, <2>3 DEF RowInv, Unclaimed
    <3>2. Delivery!Take(t)
      BY <1>1, <2>1, <2>3, <3>1 DEF Delivery!Take, Phase, Recorded, Outcomes, TypeOK
    <3>3. QED
      BY <2>1, <3>2 DEF Delivery!Next, Delivery!Tasks, Tasks
  <2>4. CASE status[t] # "pending"
    BY <1>1, <2>1, <2>2, <2>4, DeliveryStutter DEF TypeOK
  <2>5. QED
    BY <2>3, <2>4
<1>4. ASSUME NEW h \in Handlers, CompleteTask(h)
      PROVE  Delivery!Next
  <2> DEFINE t == handler[h].task
  <2>1. Ran(t, handler[h].result)
    BY <1>1, <1>4 DEF CompleteTask, HandlerInv
  <2>2. status' = [status EXCEPT ![t] = outcome[t]] /\ UNCHANGED <<execs, outcome>>
    BY <1>4, <2>1 DEF CompleteTask, ReportedStatus, Ran, Outcomes
  <2>3. t \in Tasks /\ outcome[t] \in Outcomes /\ status[t] \notin Unclaimed /\ execs[t] = 1
    BY <2>1 DEF Ran
  <2> HIDE DEF t
  <2>4. Phase' = Phase /\ Phase[t] = "executed"
    BY <1>1, <2>2, <2>3 DEF Phase, Unclaimed, Outcomes, TypeOK
  <2>5. Recorded' = [Recorded EXCEPT ![t] = outcome[t]]
    BY <1>1, <2>2, <2>3 DEF Recorded, TypeOK
  <2>6. QED
    BY <2>2, <2>3, <2>4, <2>5 DEF Delivery!Next, Delivery!Record, Delivery!Tasks, Tasks
<1>5. ASSUME NEW result \in Outcomes, ExecuteTask(result)
      PROVE  Delivery!Next
  <2> DEFINE t == agent.task
  <2>1. t \in Tasks /\ Fresh(t) /\ status[t] \notin Unclaimed
    BY <1>1, <1>5 DEF ExecuteTask, AgentInv, TypeOK, AgentState
  <2>2. execs[t] = 0 /\ \A u \in Tasks : u > t => execs[u] = 0
    BY <2>1 DEF Fresh, Tasks
  <2>3. /\ execs' = [execs EXCEPT ![t] = 1]
        /\ outcome' = [outcome EXCEPT ![t] = result]
        /\ UNCHANGED status
    BY <1>5, <2>2 DEF ExecuteTask, panelVars
  <2> HIDE DEF t
  <2>4. Phase[t] = "taken" /\ \A u \in Tasks : u > t => Phase[u] # "executed"
    BY <2>1, <2>2 DEF Phase, Unclaimed
  <2>5. Phase' = [Phase EXCEPT ![t] = "executed"] /\ Recorded' = Recorded
    <3>1. \A u \in Tasks : execs'[u] = IF u = t THEN 1 ELSE execs[u]
      BY <1>1, <2>1, <2>3 DEF TypeOK
    <3>2. \A u \in Tasks : Phase'[u] = IF u = t THEN "executed" ELSE Phase[u]
      BY <2>1, <2>3, <3>1 DEF Phase, Unclaimed
    <3>3. Phase' = [u \in Tasks |-> Phase'[u]]
      BY DEF Phase
    <3>4. [Phase EXCEPT ![t] = "executed"] = [u \in Tasks |-> IF u = t THEN "executed" ELSE Phase[u]]
      BY DEF Phase
    <3>5. Recorded' = Recorded
      BY <2>3 DEF Recorded
    <3>6. QED
      BY <3>2, <3>3, <3>4, <3>5
  <2>6. QED
    BY <2>1, <2>3, <2>4, <2>5
    DEF Delivery!Next, Delivery!Execute, Delivery!Tasks, Delivery!Outcomes, Tasks, Outcomes
<1>6. CASE UNCHANGED <<status, execs, outcome>>
  BY <1>6, DeliveryStutter
<1>7. QED
  BY <1>2, <1>3, <1>4, <1>5, <1>6
  DEF Next, vars, panelVars, Tick, WaitForTaskPoll, PullTaskSelect, HandlerFails,
      DiscardReply, Heartbeat, ProcessNextTask, ReceiveReply, ReportResult,
      LoseRequest, AgentRestart

\* The queue implements at-most-once delivery in order.
THEOREM ImplementsDelivery == Spec => DeliverySpec
  BY DeliveryInit, DeliveryNext, Invariance, PTL DEF Spec, DeliverySpec, Delivery!Spec
=============================================================================
