------------------------- MODULE LocalAuthSyncProofs -------------------------
(***************************************************************************)
(* Proofs about LocalAuthSync, for any operations, tasks and losses: the    *)
(* inductive invariant and the three safety properties it implies.          *)
(***************************************************************************)
EXTENDS LocalAuthSync, TLAPS

(***************************************************************************)
(* The inductive invariant.                                                *)
(***************************************************************************)
\* Tasks are queued and taken in the order of their ids, and a task has its
\* payload from the moment it is queued.
QueueInv ==
    /\ \A t, u \in Tasks : u < t /\ phase[t] # "none" => phase[u] # "none"
    /\ \A t \in Tasks : phase[t] # "none" => payload[t] # "none"
    /\ \A t, u \in Tasks :
        u < t /\ phase[t] \in {"taken", "executed"} => phase[u] \in {"taken", "executed"}
    /\ \A t \in Tasks : outcome[t] # "none" => phase[t] = "executed"

\* The agent's task is taken, and later than every task it ever completed.  The
\* set in memory is the file's, except between the two halves of a snapshot.
AgentInv ==
    /\ agent.pc # "idle" =>
        /\ agent.task \in Tasks
        /\ phase[agent.task] = "taken"
        /\ \A u \in Tasks : u > agent.task => phase[u] # "executed"
    /\ agent.pc \in {"idle", "run"} => applied = stateFile
    /\ agent.pc = "apply" =>
        payload[agent.task] # Kick /\ payload[agent.task] = stateFile

\* The file holds a snapshot as new as any the agent ever completed.
FileInv ==
    \A s \in Tasks : outcome[s] = "done" /\ payload[s] # Kick =>
        \E t \in Tasks : /\ t >= s
                        /\ phase[t] \in {"taken", "executed"}
                        /\ payload[t] = stateFile

\* Tasks whose effect is still to come.
ToRun(t) == phase[t] = "queued" \/ (agent.pc = "run" /\ agent.task = t)
Pending == {t \in Tasks : payload[t] # Kick /\ ToRun(t)}
PendingKicks == {t \in Tasks : payload[t] = Kick /\ ToRun(t)}

Refreshing(w) == writer[w].pc \in {"read", "sync"}

\* The last snapshot under way, or the file when there is none, is the row's.
NewestIsCurrent ==
    IF Pending = {} THEN stateFile = row
    ELSE \E u \in Pending : payload[u] = row /\ \A v \in Pending : v <= u

\* As long as the latest operation ran by itself and lost nothing: it is the
\* only one under way, and its snapshot is the row.
CurrentInv ==
    disturbed # "yes" =>
        /\ \A v, w \in Writers : v # w =>
            writer[v] = IdleWriter \/ writer[w] = IdleWriter
        /\ \A w \in Writers : writer[w].pc = "sync" => writer[w].snapshot = row
        /\ (\A w \in Writers : ~Refreshing(w)) => NewestIsCurrent

\* Whatever may still let the user in comes before k, and a snapshot that locks
\* the user out follows it before k does.
LockedOutBefore(k) ==
    /\ \A t \in Pending : payload[t] = "active" =>
        \E u \in Pending : t < u /\ u < k /\ payload[u] # "active"
    /\ stateFile = "active" => \E u \in Pending : u < k /\ payload[u] # "active"

\* Nothing admits the user any more.
LockedOut ==
    /\ ~session
    /\ stateFile # "active" /\ applied # "active"
    /\ \A t \in Pending : payload[t] # "active"

\* If nothing was ever disturbed, a user who must go is out for good, or a kick
\* is still to come that finds the user locked out.
KickInv ==
    disturbed = "never" /\ row # "active" =>
        \/ \E w \in Writers : writer[w] # IdleWriter /\ writer[w].kick
        \/ \E k \in PendingKicks : LockedOutBefore(k)
        \/ LockedOut

IInv == TypeOK /\ QueueInv /\ AgentInv /\ FileInv /\ CurrentInv /\ KickInv

(***************************************************************************)
(* Types.                                                                  *)
(***************************************************************************)
\* The constants the provers must see to type a task or an account.
LEMMA TaskFacts == Tasks \subseteq Nat /\ NoTask \notin Tasks /\ Kick \notin Accounts
                   /\ "none" \notin Accounts \cup {Kick} /\ Delivery!Tasks = Tasks
  BY SyncAssumption DEF Tasks, NoTask, Kick, Accounts, Delivery!Tasks

\* An account in use and an empty queue have the types.
LEMMA TypeInit == Init => TypeOK
<1> SUFFICES ASSUME Init PROVE TypeOK
  OBVIOUS
<1>1. Delivery!TypeOK
  BY DEF Init, Delivery!Init, Delivery!TypeOK, Delivery!Outcomes
<1>2. writer \in [Writers -> [pc : {"idle", "read", "sync", "kick"},
                              snapshot : Accounts, kick : BOOLEAN]]
  BY DEF Init, IdleWriter, Accounts
<1>3. agent \in [pc : {"idle", "run", "apply"}, task : Tasks \cup {NoTask}]
  BY DEF Init, IdleAgent
<1>4. losses \in 0..MaxLosses
  BY SyncAssumption DEF Init
<1>5. QED
  BY <1>1, <1>2, <1>3, <1>4 DEF Init, TypeOK, Accounts

\* What TypeOK says of one operation.
WriterState == [pc : {"idle", "read", "sync", "kick"}, snapshot : Accounts, kick : BOOLEAN]

\* Queueing a task keeps the types of the queue.
LEMMA EnqueueType ==
  ASSUME TypeOK, NEW t \in Tasks, NEW content \in Accounts \cup {Kick}, Enqueue(t, content)
  PROVE  payload' \in [Tasks -> Accounts \cup {Kick, "none"}] /\ Delivery!TypeOK'
  BY TaskFacts DEF TypeOK, Enqueue, Delivery!Submit, Delivery!TypeOK

\* So does taking one.
LEMMA TakeType ==
  ASSUME TypeOK, NEW t \in Tasks, Delivery!Take(t)
  PROVE  Delivery!TypeOK'
  BY TaskFacts DEF TypeOK, Delivery!Take, Delivery!TypeOK

\* So does running one.
LEMMA ExecuteType ==
  ASSUME TypeOK, NEW t \in Tasks, NEW result \in {"done", "error"},
         Delivery!Execute(t, result)
  PROVE  Delivery!TypeOK'
  BY TaskFacts DEF TypeOK, Delivery!Execute, Delivery!TypeOK, Delivery!Outcomes

\* A step that leaves the queue alone keeps its types.
LEMMA QueueTypeStutters == Delivery!TypeOK /\ UNCHANGED queue => Delivery!TypeOK'
  BY DEF queue, Delivery!TypeOK

\* The operation that follows a refresh is well formed.
LEMMA AfterSyncType ==
  ASSUME TypeOK, NEW w \in Writers
  PROVE  AfterSync(w) \in WriterState /\ IdleWriter \in WriterState
  BY DEF TypeOK, AfterSync, IdleWriter, WriterState, Accounts

\* Every step of the panel, the agent and the user keeps the types.
LEMMA TypeNext == TypeOK /\ QueueInv /\ AgentInv /\ [Next]_vars => TypeOK'
<1> SUFFICES ASSUME TypeOK, QueueInv, AgentInv, [Next]_vars
             PROVE  TypeOK'
  OBVIOUS
<1>t. /\ row \in Accounts
      /\ writer \in [Writers -> WriterState]
      /\ payload \in [Tasks -> Accounts \cup {Kick, "none"}]
      /\ Delivery!TypeOK
      /\ agent \in [pc : {"idle", "run", "apply"}, task : Tasks \cup {NoTask}]
      /\ stateFile \in Accounts /\ applied \in Accounts /\ session \in BOOLEAN
      /\ losses \in 0..MaxLosses /\ disturbed \in {"never", "healed", "yes"}
  BY DEF TypeOK, WriterState
<1>q. /\ row' \in Accounts
      /\ writer' \in [Writers -> WriterState]
      /\ payload' \in [Tasks -> Accounts \cup {Kick, "none"}]
      /\ Delivery!TypeOK'
      /\ agent' \in [pc : {"idle", "run", "apply"}, task : Tasks \cup {NoTask}]
      /\ stateFile' \in Accounts /\ applied' \in Accounts /\ session' \in BOOLEAN
      /\ losses' \in 0..MaxLosses /\ disturbed' \in {"never", "healed", "yes"}
      => TypeOK'
  BY DEF TypeOK, WriterState
<1>f. ASSUME Fail PROVE losses' \in 0..MaxLosses /\ disturbed' = "yes"
  BY <1>t, <1>f, SyncAssumption DEF Fail
<1>i. IdleAgent \in [pc : {"idle", "run", "apply"}, task : Tasks \cup {NoTask}]
  BY DEF IdleAgent
<1>1. ASSUME NEW w \in Writers, NEW to \in Accounts, ChangeAccount(w, to)
      PROVE  TypeOK'
  <2> DEFINE started == [pc |-> "read", snapshot |-> "absent",
                         kick |-> row # "absent" /\ to # "active"]
  <2>1. started \in WriterState
    BY DEF WriterState, Accounts
  <2>2. writer' = [writer EXCEPT ![w] = started]
    BY <1>1 DEF ChangeAccount
  <2> HIDE DEF started
  <2>3. writer' \in [Writers -> WriterState]
    BY <2>1, <2>2, <1>t
  <2>4. QED
    BY <1>1, <1>t, <1>q, <2>3, QueueTypeStutters DEF ChangeAccount, queue
<1>2. ASSUME NEW w \in Writers, BuildSnapshot(w)
      PROVE  TypeOK'
  <2> DEFINE built == [writer[w] EXCEPT !.pc = "sync", !.snapshot = row]
  <2>a. writer[w] \in WriterState /\ row \in Accounts
    BY <1>t
  <2>b. built \in WriterState
    BY <2>a DEF WriterState
  <2>c. writer' = [writer EXCEPT ![w] = built]
    BY <1>2 DEF BuildSnapshot
  <2> HIDE DEF built
  <2>1. writer' \in [Writers -> WriterState]
    BY <1>t, <2>b, <2>c
  <2>2. QED
    BY <1>2, <1>t, <1>q, <2>1, QueueTypeStutters DEF BuildSnapshot, queue, failures
<1>3. ASSUME NEW w \in Writers, EnqueueSync(w)
      PROVE  TypeOK'
  <2>1. writer' \in [Writers -> WriterState]
    BY <1>3, <1>t, AfterSyncType DEF EnqueueSync
  <2>2. Queued(w) \in Accounts
    BY <1>t DEF Queued, WriterState
  <2>3. QED
    BY <1>3, <1>t, <1>q, <2>1, <2>2, EnqueueType DEF EnqueueSync, failures
<1>4. ASSUME NEW w \in Writers, EnqueueKick(w)
      PROVE  TypeOK'
  <2>1. writer' \in [Writers -> WriterState]
    BY <1>4, <1>t, AfterSyncType DEF EnqueueKick
  <2>2. QED
    BY <1>4, <1>t, <1>q, <2>1, EnqueueType DEF EnqueueKick, failures
<1>5. ASSUME NEW w \in Writers, RefreshFails(w)
      PROVE  TypeOK'
  <2>1. writer' \in [Writers -> WriterState]
    BY <1>5, <1>t, AfterSyncType DEF RefreshFails
  <2>2. QED
    BY <1>5, <1>t, <1>q, <1>f, <2>1, QueueTypeStutters DEF RefreshFails, queue
<1>6. ASSUME NEW t \in Tasks, PullTask(t)
      PROVE  TypeOK'
  BY <1>6, <1>t, <1>q, TakeType DEF PullTask, failures
<1>7. ASSUME NEW t \in Tasks, LoseTask(t)
      PROVE  TypeOK'
  BY <1>7, <1>t, <1>q, <1>f, TakeType DEF LoseTask
<1>8. CASE WriteState
  <2>1. payload[agent.task] \in Accounts
    BY <1>8, <1>t, TaskFacts DEF WriteState, IsSnapshot, AgentInv, QueueInv
  <2>2. agent' \in [pc : {"idle", "run", "apply"}, task : Tasks \cup {NoTask}]
    BY <1>8, <1>t DEF WriteState
  <2>3. QED
    BY <1>8, <1>t, <1>q, <2>1, <2>2, QueueTypeStutters
    DEF WriteState, WrittenFile, queue, failures
<1>9. CASE SetLocalAuthState
  BY <1>9, <1>t, <1>q, <1>i, ExecuteType DEF SetLocalAuthState, AgentInv, failures
<1>10. CASE KickClients
  BY <1>10, <1>t, <1>q, <1>i, ExecuteType DEF KickClients, AgentInv, failures
<1>11. CASE TaskFails
  BY <1>11, <1>t, <1>q, <1>f, <1>i, ExecuteType DEF TaskFails, AgentInv
<1>12. CASE AgentRestart
  BY <1>12, <1>t, <1>q, <1>f, <1>i, QueueTypeStutters DEF AgentRestart, queue, failures
<1>13. CASE Connect \/ Disconnect
  BY <1>13, <1>t, <1>q, QueueTypeStutters DEF Connect, Disconnect, queue, failures
<1>14. CASE UNCHANGED vars
  BY <1>14, <1>t, <1>q, QueueTypeStutters DEF vars, queue
<1>15. QED
  BY <1>1, <1>2, <1>3, <1>4, <1>5, <1>6, <1>7, <1>8, <1>9, <1>10, <1>11, <1>12,
     <1>13, <1>14 DEF Next

(***************************************************************************)
(* What a step of the queue changes.                                       *)
(***************************************************************************)
\* A queued task is the latest one, and the others stay what they are.
LEMMA EnqueueEffect ==
  ASSUME TypeOK, NEW t \in Tasks, NEW content, Enqueue(t, content)
  PROVE  /\ phase[t] = "none" /\ phase'[t] = "queued"
         /\ payload'[t] = content
         /\ \A u \in Tasks : u < t => phase[u] # "none"
         /\ \A u \in Tasks : u # t => phase'[u] = phase[u] /\ payload'[u] = payload[u]
         /\ outcome' = outcome
  BY TaskFacts DEF TypeOK, Enqueue, Delivery!Submit, Delivery!TypeOK

\* Taking a task moves that task only.
LEMMA TakeEffect ==
  ASSUME TypeOK, NEW t \in Tasks, Delivery!Take(t)
  PROVE  /\ phase[t] = "queued" /\ phase'[t] = "taken"
         /\ \A u \in Tasks : u # t => phase'[u] = phase[u]
         /\ outcome' = outcome
  BY TaskFacts DEF TypeOK, Delivery!Take, Delivery!TypeOK

\* Running a task moves that task only.
LEMMA ExecuteEffect ==
  ASSUME TypeOK, NEW t \in Tasks, NEW result, Delivery!Execute(t, result)
  PROVE  /\ phase[t] = "taken" /\ phase'[t] = "executed"
         /\ outcome'[t] = result
         /\ \A u \in Tasks : u # t => phase'[u] = phase[u] /\ outcome'[u] = outcome[u]
  BY TaskFacts DEF TypeOK, Delivery!Execute, Delivery!TypeOK, Delivery!Outcomes

(***************************************************************************)
(* The queue, the agent and the file.                                      *)
(***************************************************************************)
\* At first nothing is queued and the agent idles over a current file.
LEMMA BaseInit == Init => QueueInv /\ AgentInv /\ FileInv
<1> SUFFICES ASSUME Init PROVE QueueInv /\ AgentInv /\ FileInv
  OBVIOUS
<1>1. \A t \in Tasks : phase[t] = "none" /\ outcome[t] = "none"
  BY TaskFacts DEF Init, Delivery!Init
<1>2. agent.pc = "idle" /\ applied = stateFile
  BY DEF Init, IdleAgent
<1>3. QED
  BY <1>1, <1>2 DEF QueueInv, AgentInv, FileInv

\* The three invariants are about the queue, the agent and what it admits.
LEMMA BaseStutters ==
  ASSUME QueueInv, AgentInv, FileInv,
         UNCHANGED <<payload, queue, agent, stateFile, applied>>
  PROVE  QueueInv' /\ AgentInv' /\ FileInv'
  BY DEF QueueInv, AgentInv, FileInv, queue

\* A task that is queued disturbs none of them.
LEMMA EnqueueKeepsBase ==
  ASSUME TypeOK, QueueInv, AgentInv, FileInv, UNCHANGED <<agent, stateFile, applied>>,
         NEW t \in Tasks, NEW content \in Accounts \cup {Kick}, Enqueue(t, content)
  PROVE  QueueInv' /\ AgentInv' /\ FileInv'
<1>e. /\ phase[t] = "none" /\ phase'[t] = "queued"
      /\ payload'[t] # "none"
      /\ \A u \in Tasks : u < t => phase[u] # "none"
      /\ \A u \in Tasks : u # t => phase'[u] = phase[u] /\ payload'[u] = payload[u]
      /\ outcome' = outcome
  BY EnqueueEffect, TaskFacts
<1>1. QueueInv'
  BY <1>e, TaskFacts DEF QueueInv
<1>2. AgentInv'
  <2>1. agent.pc # "idle" => agent.task \in Tasks /\ agent.task # t
    BY <1>e DEF AgentInv
  <2>2. agent.pc = "apply" => agent.pc # "idle"
    OBVIOUS
  <2>3. QED
    BY <1>e, <2>1, <2>2 DEF AgentInv
<1>3. FileInv'
  BY <1>e, TaskFacts DEF FileInv, QueueInv
<1>4. QED
  BY <1>1, <1>2, <1>3

\* The next task that leaves the queue keeps the order.
LEMMA TakeKeepsOrder ==
  ASSUME TypeOK, QueueInv, FileInv, UNCHANGED <<payload, stateFile>>,
         NEW t \in Tasks, NextTask(t), Delivery!Take(t)
  PROVE  QueueInv' /\ FileInv'
<1> USE TaskFacts, TakeEffect
<1>0. \A u \in Tasks : phase[u] \in {"none", "queued", "taken", "executed"}
  BY DEF TypeOK, Delivery!TypeOK
<1>1. QueueInv'
  BY <1>0 DEF QueueInv, NextTask
<1>2. FileInv'
  BY <1>0 DEF FileInv
<1>3. QED
  BY <1>1, <1>2

\* The end of the agent's task keeps the order.
LEMMA ExecuteKeepsOrder ==
  ASSUME TypeOK, QueueInv, AgentInv, UNCHANGED payload,
         NEW result \in {"done", "error"}, agent.pc # "idle",
         Delivery!Execute(agent.task, result)
  PROVE  QueueInv'
<1>1. agent.task \in Tasks
  BY DEF AgentInv
<1> DEFINE t == agent.task
<1>e. /\ phase[t] = "taken" /\ phase'[t] = "executed"
      /\ \A u \in Tasks : u # t => phase'[u] = phase[u] /\ outcome'[u] = outcome[u]
  BY <1>1, ExecuteEffect
<1> HIDE DEF t
<1>2. QED
  BY <1>1, <1>e, TaskFacts DEF QueueInv, t

\* Every step keeps the order of the queue, the agent's place in it and the age
\* of the file.
LEMMA BaseNext ==
  TypeOK /\ QueueInv /\ AgentInv /\ FileInv /\ [Next]_vars => QueueInv' /\ AgentInv' /\ FileInv'
<1> SUFFICES ASSUME TypeOK, QueueInv, AgentInv, FileInv, [Next]_vars
             PROVE  QueueInv' /\ AgentInv' /\ FileInv'
  OBVIOUS
<1>t. /\ agent \in [pc : {"idle", "run", "apply"}, task : Tasks \cup {NoTask}]
      /\ \A u \in Tasks : phase[u] \in {"none", "queued", "taken", "executed"}
  BY TaskFacts DEF TypeOK, Delivery!TypeOK
<1>1. ASSUME NEW w \in Writers, NEW to \in Accounts, ChangeAccount(w, to)
      PROVE  QueueInv' /\ AgentInv' /\ FileInv'
  BY <1>1, BaseStutters DEF ChangeAccount
<1>2. ASSUME NEW w \in Writers, BuildSnapshot(w) \/ RefreshFails(w)
      PROVE  QueueInv' /\ AgentInv' /\ FileInv'
  BY <1>2, BaseStutters DEF BuildSnapshot, RefreshFails
<1>3. ASSUME NEW w \in Writers, EnqueueSync(w)
      PROVE  QueueInv' /\ AgentInv' /\ FileInv'
  <2>1. Queued(w) \in Accounts
    BY DEF Queued, TypeOK
  <2>2. QED
    BY <1>3, <2>1, EnqueueKeepsBase DEF EnqueueSync
<1>4. ASSUME NEW w \in Writers, EnqueueKick(w)
      PROVE  QueueInv' /\ AgentInv' /\ FileInv'
  BY <1>4, EnqueueKeepsBase DEF EnqueueKick
<1>5. ASSUME NEW t \in Tasks, PullTask(t)
      PROVE  QueueInv' /\ AgentInv' /\ FileInv'
  <2>1. QueueInv' /\ FileInv'
    BY <1>5, TakeKeepsOrder DEF PullTask
  <2>2. agent'.pc = "run" /\ agent'.task = t /\ agent.pc = "idle"
        /\ UNCHANGED <<stateFile, applied>>
    BY <1>5 DEF PullTask
  <2>3. AgentInv'
    BY <1>5, <2>2, <1>t, TakeEffect, TaskFacts DEF PullTask, AgentInv, QueueInv
  <2>4. QED
    BY <2>1, <2>3
<1>6. ASSUME NEW t \in Tasks, LoseTask(t)
      PROVE  QueueInv' /\ AgentInv' /\ FileInv'
  <2>1. QueueInv' /\ FileInv'
    BY <1>6, TakeKeepsOrder DEF LoseTask
  <2>2. AgentInv'
    BY <1>6, <1>t, TakeEffect, TaskFacts DEF LoseTask, AgentInv
  <2>3. QED
    BY <2>1, <2>2
<1>7. CASE WriteState
  <2>1. /\ agent.pc = "run" /\ payload[agent.task] # Kick
        /\ stateFile' = payload[agent.task]
        /\ agent'.pc = "apply" /\ agent'.task = agent.task
        /\ UNCHANGED <<payload, phase, outcome, applied>>
    BY <1>7, <1>t DEF WriteState, IsSnapshot, WrittenFile, queue
  <2>2. QueueInv' /\ AgentInv'
    BY <2>1 DEF QueueInv, AgentInv
  <2>3. ASSUME NEW s \in Tasks, outcome[s] = "done"
        PROVE  s <= agent.task
    <3>1. agent.task \in Tasks /\ phase[s] = "executed"
      BY <2>1, <2>3 DEF QueueInv, AgentInv
    <3>2. ~(s > agent.task)
      BY <2>1, <3>1 DEF AgentInv
    <3>3. QED
      BY <3>1, <3>2, SyncAssumption DEF Tasks
  <2>4. FileInv'
    BY <2>1, <2>3 DEF FileInv, AgentInv
  <2>5. QED
    BY <2>2, <2>4
<1>8. CASE SetLocalAuthState
  <2>1. /\ agent.pc = "apply" /\ agent.task \in Tasks /\ agent'.pc = "idle"
        /\ applied' = payload[agent.task]
        /\ Delivery!Execute(agent.task, "done")
        /\ UNCHANGED <<payload, stateFile>>
    BY <1>8 DEF SetLocalAuthState, IdleAgent, AgentInv
  <2>2. QueueInv'
    BY <2>1, ExecuteKeepsOrder
  <2>3. AgentInv'
    BY <2>1 DEF AgentInv
  <2>4. FileInv'
    <3>e. /\ phase'[agent.task] = "executed"
          /\ \A u \in Tasks : u # agent.task => phase'[u] = phase[u] /\ outcome'[u] = outcome[u]
          /\ payload[agent.task] = stateFile
      BY <2>1, ExecuteEffect DEF AgentInv
    <3>1. ASSUME NEW s \in Tasks, outcome'[s] = "done", payload[s] # Kick
          PROVE  \E t \in Tasks : /\ t >= s
                                  /\ phase'[t] \in {"taken", "executed"}
                                  /\ payload[t] = stateFile
      <4>1. CASE s = agent.task
        BY <2>1, <3>e, <4>1, TaskFacts
      <4>2. CASE s # agent.task
        BY <2>1, <3>e, <3>1, <4>2 DEF FileInv
      <4>3. QED
        BY <4>1, <4>2
    <3>2. QED
      BY <2>1, <3>1 DEF FileInv
  <2>5. QED
    BY <2>2, <2>3, <2>4
<1>9. CASE KickClients \/ TaskFails
  <2>1. /\ agent.pc = "run" /\ agent.task \in Tasks /\ agent'.pc = "idle"
        /\ UNCHANGED <<payload, stateFile, applied>>
    BY <1>9 DEF KickClients, TaskFails, IdleAgent, AgentInv
  <2>2. PICK result \in {"done", "error"} :
          /\ Delivery!Execute(agent.task, result)
          /\ result = "done" => payload[agent.task] = Kick
    BY <1>9 DEF KickClients, TaskFails, IsSnapshot
  <2>3. QueueInv'
    BY <2>1, <2>2, ExecuteKeepsOrder
  <2>4. AgentInv'
    BY <2>1 DEF AgentInv
  <2>5. FileInv'
    <3>e. /\ phase'[agent.task] = "executed" /\ outcome'[agent.task] = result
          /\ \A u \in Tasks : u # agent.task => phase'[u] = phase[u] /\ outcome'[u] = outcome[u]
      BY <2>1, <2>2, ExecuteEffect
    <3>1. ASSUME NEW s \in Tasks, outcome'[s] = "done", payload[s] # Kick
          PROVE  \E t \in Tasks : /\ t >= s
                                  /\ phase'[t] \in {"taken", "executed"}
                                  /\ payload[t] = stateFile
      <4>1. s # agent.task
        BY <2>2, <3>e, <3>1
      <4>2. outcome[s] = "done"
        BY <3>e, <3>1, <4>1
      <4>3. PICK t \in Tasks : /\ t >= s
                               /\ phase[t] \in {"taken", "executed"}
                               /\ payload[t] = stateFile
        BY <3>1, <4>2 DEF FileInv
      <4>4. phase'[t] \in {"taken", "executed"}
        BY <3>e, <4>3
      <4>5. QED
        BY <4>3, <4>4
    <3>2. QED
      BY <2>1, <3>1 DEF FileInv
  <2>6. QED
    BY <2>3, <2>4, <2>5
<1>10. CASE AgentRestart
  <2>1. /\ agent'.pc = "idle" /\ applied' = stateFile
        /\ UNCHANGED <<payload, phase, outcome, stateFile>>
    BY <1>10 DEF AgentRestart, IdleAgent, queue
  <2>2. QED
    BY <2>1 DEF QueueInv, AgentInv, FileInv
<1>11. CASE Connect \/ Disconnect \/ UNCHANGED vars
  BY <1>11, BaseStutters DEF Connect, Disconnect, vars
<1>12. QED
  BY <1>1, <1>2, <1>3, <1>4, <1>5, <1>6, <1>7, <1>8, <1>9, <1>10, <1>11 DEF Next

(***************************************************************************)
(* What a step does to the tasks whose effect is still to come.             *)
(***************************************************************************)
\* A new task comes after all of them.
LEMMA EnqueueComesLast ==
  ASSUME TypeOK, QueueInv, AgentInv, UNCHANGED agent,
         NEW t \in Tasks, NEW content \in Accounts \cup {Kick}, Enqueue(t, content)
  PROVE  /\ Pending' = IF content = Kick THEN Pending ELSE Pending \cup {t}
         /\ PendingKicks' = IF content = Kick THEN PendingKicks \cup {t} ELSE PendingKicks
         /\ \A u \in Pending \cup PendingKicks : u < t
         /\ payload'[t] = content
         /\ \A u \in Pending \cup PendingKicks : payload'[u] = payload[u]
<1>e. /\ phase[t] = "none" /\ phase'[t] = "queued"
      /\ payload'[t] = content
      /\ \A u \in Tasks : u # t => phase'[u] = phase[u] /\ payload'[u] = payload[u]
  BY EnqueueEffect
<1>1. \A u \in Tasks : ToRun(u) => phase[u] # "none"
  BY DEF ToRun, AgentInv
<1>2. ToRun(t)' /\ \A u \in Tasks : u # t => (ToRun(u)' <=> ToRun(u))
  BY <1>e DEF ToRun
<1>3. \A u \in Tasks : ToRun(u) => u # t
  BY <1>1, <1>e
<1>4. \A u \in Tasks : ToRun(u) => u < t
  BY <1>1, <1>e, SyncAssumption DEF QueueInv, Tasks
<1>5. Pending' = IF content = Kick THEN Pending ELSE Pending \cup {t}
  BY <1>e, <1>2, <1>3 DEF Pending
<1>6. PendingKicks' = IF content = Kick THEN PendingKicks \cup {t} ELSE PendingKicks
  BY <1>e, <1>2, <1>3 DEF PendingKicks
<1>7. QED
  BY <1>e, <1>3, <1>4, <1>5, <1>6 DEF Pending, PendingKicks

\* The agent's task comes before all of them.
LEMMA AgentComesFirst ==
  ASSUME TypeOK, QueueInv, AgentInv, agent.pc = "run",
         NEW u \in Pending \cup PendingKicks
  PROVE  agent.task <= u
<1>1. /\ u \in Tasks /\ agent.task \in Tasks
      /\ phase[agent.task] = "taken"
      /\ phase[u] = "queued" \/ u = agent.task
  BY DEF Pending, PendingKicks, ToRun, AgentInv
<1>2. ~(u < agent.task)
  BY <1>1, SyncAssumption DEF QueueInv, Tasks
<1>3. QED
  BY <1>1, <1>2, SyncAssumption DEF Tasks

\* The task the agent is done with leaves, and no other.
LEMMA AgentLeaves ==
  ASSUME TypeOK, QueueInv, AgentInv, agent.pc = "run", agent'.pc # "run",
         UNCHANGED payload,
         \A u \in Tasks : u # agent.task => phase'[u] = phase[u],
         phase'[agent.task] # "queued"
  PROVE  /\ Pending' = Pending \ {agent.task}
         /\ PendingKicks' = PendingKicks \ {agent.task}
  BY DEF Pending, PendingKicks, ToRun, AgentInv

\* Pulling a task is no effect of it, and the second half of a snapshot none.
LEMMA PendingStays ==
  ASSUME TypeOK, AgentInv,
         \/ \E t \in Tasks : PullTask(t)
         \/ SetLocalAuthState
         \/ AgentRestart /\ agent.pc # "run"
         \/ UNCHANGED <<payload, queue, agent>>
  PROVE  Pending' = Pending /\ PendingKicks' = PendingKicks /\ UNCHANGED payload
<1>a. agent.pc # "idle" => agent.task \in Tasks
  BY DEF AgentInv
<1>1. ASSUME NEW t \in Tasks, PullTask(t)
      PROVE  /\ UNCHANGED payload
             /\ \A u \in Tasks : ToRun(u)' <=> ToRun(u)
  <2>1. /\ agent.pc = "idle" /\ agent'.pc = "run" /\ agent'.task = t
        /\ UNCHANGED payload
        /\ Delivery!Take(t)
    BY <1>1 DEF PullTask
  <2>2. QED
    BY <2>1, TakeEffect DEF ToRun
<1>2. ASSUME SetLocalAuthState
      PROVE  /\ UNCHANGED payload
             /\ \A u \in Tasks : ToRun(u)' <=> ToRun(u)
  <2>1. /\ agent.pc = "apply" /\ agent'.pc = "idle" /\ UNCHANGED payload
        /\ Delivery!Execute(agent.task, "done") /\ agent.task \in Tasks
    BY <1>2, <1>a DEF SetLocalAuthState, IdleAgent
  <2>2. /\ phase[agent.task] = "taken" /\ phase'[agent.task] = "executed"
        /\ \A u \in Tasks : u # agent.task => phase'[u] = phase[u]
    BY <2>1, ExecuteEffect
  <2>3. QED
    BY <2>1, <2>2 DEF ToRun
<1>3. ASSUME AgentRestart, agent.pc # "run"
      PROVE  /\ UNCHANGED payload
             /\ \A u \in Tasks : ToRun(u)' <=> ToRun(u)
  BY <1>3 DEF AgentRestart, IdleAgent, queue, ToRun
<1>4. ASSUME UNCHANGED <<payload, queue, agent>>
      PROVE  /\ UNCHANGED payload
             /\ \A u \in Tasks : ToRun(u)' <=> ToRun(u)
  BY <1>4 DEF queue, ToRun
<1>5. UNCHANGED payload /\ \A u \in Tasks : ToRun(u)' <=> ToRun(u)
  BY <1>1, <1>2, <1>3, <1>4
<1>6. QED
  BY <1>5 DEF Pending, PendingKicks

(***************************************************************************)
(* The latest operation and its kick.                                      *)
(***************************************************************************)
\* At first the file is the row, and the row is active.
LEMMA OperationInit == Init => CurrentInv /\ KickInv
<1> SUFFICES ASSUME Init PROVE CurrentInv /\ KickInv
  OBVIOUS
<1>1. Pending = {}
  BY TaskFacts DEF Init, Pending, ToRun, Delivery!Init, IdleAgent
<1>2. \A w \in Writers : writer[w] = IdleWriter /\ writer[w].pc = "idle"
  BY DEF Init, IdleWriter
<1>3. QED
  BY <1>1, <1>2 DEF Init, CurrentInv, KickInv, NewestIsCurrent

\* A loss, a failure or an overlap ends the promise.
LEMMA DisturbedKeeps == disturbed' = "yes" => CurrentInv' /\ KickInv'
  BY DEF CurrentInv, KickInv

\* CurrentInv speaks of nothing else than this.
LEMMA CurrentStutters ==
  ASSUME CurrentInv, UNCHANGED <<row, writer, payload, stateFile, disturbed>>,
         Pending' = Pending
  PROVE  CurrentInv'
  BY DEF CurrentInv, NewestIsCurrent, Refreshing

\* KickInv, too, and of the session.
LEMMA KickStutters ==
  ASSUME KickInv, UNCHANGED <<row, writer, payload, stateFile, disturbed>>,
         Pending' = Pending, PendingKicks' = PendingKicks,
         LockedOut => ~session' /\ applied' # "active"
  PROVE  KickInv'
<1>1. \A k : LockedOutBefore(k) => LockedOutBefore(k)'
  BY DEF LockedOutBefore
<1>2. LockedOut => LockedOut'
  BY DEF LockedOut
<1>3. QED
  BY <1>1, <1>2 DEF KickInv

\* A change of the account starts an operation that is to refresh the node and,
\* if the user must go, to kick.
LEMMA ChangeKeeps ==
  ASSUME TypeOK, CurrentInv, KickInv, NEW w \in Writers, NEW to \in Accounts,
         ChangeAccount(w, to)
  PROVE  CurrentInv' /\ KickInv'
<1> DEFINE kick == row # "absent" /\ to # "active"
<1>1. /\ writer[w] = IdleWriter /\ row' = to
      /\ row = "absent" => to # "absent"
      /\ writer' = [writer EXCEPT ![w] =
                      [pc |-> "read", snapshot |-> "absent", kick |-> kick]]
      /\ UNCHANGED <<payload, queue, agent, stateFile, applied, session>>
  BY DEF ChangeAccount
<1>2. /\ writer'[w].pc = "read" /\ (writer'[w].kick <=> kick)
      /\ \A v \in Writers : v # w => writer'[v] = writer[v]
  BY <1>1 DEF TypeOK
<1>3. CASE \E other \in Writers : writer[other] # IdleWriter
  BY <1>3, DisturbedKeeps DEF ChangeAccount
<1>4. CASE \A other \in Writers : writer[other] = IdleWriter
  <2>1. CurrentInv'
    <3>1. \A v \in Writers : v # w => writer'[v] = IdleWriter
      BY <1>2, <1>4
    <3>2. \A v \in Writers : writer'[v].pc # "sync"
      BY <1>2, <3>1 DEF IdleWriter
    <3>3. Refreshing(w)'
      BY <1>2 DEF Refreshing
    <3>4. QED
      BY <3>1, <3>2, <3>3 DEF CurrentInv
  <2>2. KickInv'
    <3>1. SUFFICES ASSUME disturbed' = "never", row' # "active"
                   PROVE  KickInv'
      BY DEF KickInv
    <3>2. disturbed = "never"
      BY <1>4, <3>1 DEF ChangeAccount
    <3>3. writer'[w] # IdleWriter
      BY <1>2 DEF IdleWriter
    <3>4. CASE kick
      BY <1>2, <3>3, <3>4 DEF KickInv
    <3>5. CASE ~kick
      <4>1. row # "active"
        BY <1>1, <3>1, <3>5
      <4>2. (\E k \in PendingKicks : LockedOutBefore(k)) \/ LockedOut
        BY <1>4, <3>2, <4>1 DEF KickInv
      <4>3. Pending' = Pending /\ PendingKicks' = PendingKicks
        BY <1>1 DEF Pending, PendingKicks, ToRun, queue
      <4>4. (\E k \in PendingKicks' : LockedOutBefore(k)') \/ LockedOut'
        BY <1>1, <4>2, <4>3 DEF LockedOutBefore, LockedOut
      <4>5. QED
        BY <4>4 DEF KickInv
    <3>6. QED
      BY <3>4, <3>5
  <2>3. QED
    BY <2>1, <2>2
<1>5. QED
  BY <1>3, <1>4

\* The snapshot is built from the row.
LEMMA BuildKeeps ==
  ASSUME TypeOK, CurrentInv, KickInv, NEW w \in Writers, BuildSnapshot(w)
  PROVE  CurrentInv' /\ KickInv'
<1>1. /\ writer[w].pc = "read"
      /\ writer' = [writer EXCEPT ![w] = [writer[w] EXCEPT !.pc = "sync", !.snapshot = row]]
      /\ UNCHANGED <<row, payload, queue, agent, stateFile, applied, session, disturbed>>
  BY DEF BuildSnapshot, failures
<1>2. writer[w] \in WriterState
  BY DEF TypeOK, WriterState
<1>3. /\ writer'[w].pc = "sync" /\ writer'[w].snapshot = row
      /\ writer'[w].kick = writer[w].kick
      /\ \A v \in Writers : v # w => writer'[v] = writer[v]
  BY <1>1, <1>2 DEF TypeOK, WriterState
<1>4. writer[w] # IdleWriter /\ writer'[w] # IdleWriter
  <2>1. writer[w].pc = "read" /\ writer'[w].pc = "sync" /\ IdleWriter.pc = "idle"
    BY <1>1, <1>3 DEF IdleWriter
  <2>2. QED
    BY <2>1
<1>5. Pending' = Pending /\ PendingKicks' = PendingKicks
  BY <1>1 DEF Pending, PendingKicks, ToRun, queue
<1>6. CurrentInv'
  <2>1. \A u, v \in Writers : u # v /\ disturbed # "yes" =>
          writer'[u] = IdleWriter \/ writer'[v] = IdleWriter
    BY <1>3, <1>4 DEF CurrentInv
  <2>2. Refreshing(w)'
    BY <1>3 DEF Refreshing
  <2>3. \A v \in Writers : disturbed # "yes" /\ writer'[v].pc = "sync" =>
          writer'[v].snapshot = row
    BY <1>3 DEF CurrentInv
  <2>4. QED
    BY <1>1, <2>1, <2>2, <2>3 DEF CurrentInv
<1>7. KickInv'
  <2>1. (\E v \in Writers : writer[v] # IdleWriter /\ writer[v].kick)
        => \E v \in Writers : writer'[v] # IdleWriter /\ writer'[v].kick
    BY <1>3, <1>4
  <2>2. \A k : LockedOutBefore(k) => LockedOutBefore(k)'
    BY <1>1, <1>5 DEF LockedOutBefore
  <2>3. LockedOut => LockedOut'
    BY <1>1, <1>5 DEF LockedOut
  <2>4. QED
    BY <1>1, <1>5, <2>1, <2>2, <2>3 DEF KickInv
<1>8. QED
  BY <1>6, <1>7

\* The snapshot that is queued is the newest and the row's.
LEMMA SyncKeeps ==
  ASSUME TypeOK, QueueInv, AgentInv, CurrentInv, KickInv, NEW w \in Writers, EnqueueSync(w)
  PROVE  CurrentInv' /\ KickInv'
<1>1. /\ writer[w].pc = "sync"
      /\ writer' = [writer EXCEPT ![w] = AfterSync(w)]
      /\ UNCHANGED <<row, agent, stateFile, applied, session, disturbed>>
  BY DEF EnqueueSync, failures
<1>2. writer[w] \in WriterState
  BY DEF TypeOK, WriterState
<1>3. /\ writer'[w].pc \in {"kick", "idle"}
      /\ writer[w].kick => writer'[w] # IdleWriter /\ writer'[w].kick
      /\ writer[w] # IdleWriter
      /\ \A v \in Writers : v # w => writer'[v] = writer[v]
  BY <1>1, <1>2 DEF TypeOK, WriterState, AfterSync, IdleWriter
<1>4. PICK t \in Tasks : Enqueue(t, writer[w].snapshot)
  BY DEF EnqueueSync, Queued
<1> DEFINE content == writer[w].snapshot
<1>5. content \in Accounts
  BY <1>2 DEF WriterState
<1>6. /\ Pending' = Pending \cup {t} /\ PendingKicks' = PendingKicks
      /\ payload'[t] = content
      /\ \A u \in Pending \cup PendingKicks : u < t /\ payload'[u] = payload[u]
  BY <1>1, <1>4, <1>5, TaskFacts, EnqueueComesLast
<1>7. SUFFICES ASSUME disturbed # "yes"
               PROVE  CurrentInv' /\ KickInv'
  BY <1>1, DisturbedKeeps DEF TypeOK
<1>8. /\ content = row
      /\ \A v \in Writers : v # w => writer[v] = IdleWriter
  BY <1>1, <1>3, <1>7 DEF CurrentInv
<1>9. CurrentInv'
  <2>1. \A v \in Writers : writer'[v].pc # "sync"
    BY <1>3, <1>8 DEF IdleWriter
  <2>2. NewestIsCurrent'
    <3>1. t \in Pending' /\ payload'[t] = row'
      BY <1>1, <1>6, <1>8
    <3>2. \A v \in Pending' : v <= t
      BY <1>6, SyncAssumption DEF Pending, Tasks
    <3>3. QED
      BY <3>1, <3>2 DEF NewestIsCurrent
  <2>3. QED
    BY <1>3, <1>8, <2>1, <2>2 DEF CurrentInv
<1>10. KickInv'
  <2>1. SUFFICES ASSUME disturbed = "never", row # "active"
                 PROVE  KickInv'
    BY <1>1 DEF KickInv
  <2>2. (\E v \in Writers : writer[v] # IdleWriter /\ writer[v].kick)
        => \E v \in Writers : writer'[v] # IdleWriter /\ writer'[v].kick
    BY <1>3
  <2>3. \A k : LockedOutBefore(k) => LockedOutBefore(k)'
    BY <1>1, <1>6, <1>8, <2>1 DEF LockedOutBefore
  <2>4. LockedOut => LockedOut'
    BY <1>1, <1>6, <1>8, <2>1 DEF LockedOut
  <2>5. QED
    BY <1>1, <1>6, <2>1, <2>2, <2>3, <2>4 DEF KickInv
<1>11. QED
  BY <1>9, <1>10

\* The kick comes after a snapshot that locks the user out.
LEMMA QueueKickKeeps ==
  ASSUME TypeOK, QueueInv, AgentInv, CurrentInv, KickInv, NEW w \in Writers, EnqueueKick(w)
  PROVE  CurrentInv' /\ KickInv'
<1>1. /\ writer[w].pc = "kick"
      /\ writer' = [writer EXCEPT ![w] = IdleWriter]
      /\ UNCHANGED <<row, agent, stateFile, applied, session, disturbed>>
  BY DEF EnqueueKick, failures
<1>3. /\ writer'[w] = IdleWriter
      /\ writer[w] # IdleWriter
      /\ \A v \in Writers : v # w => writer'[v] = writer[v]
  BY <1>1 DEF TypeOK, IdleWriter
<1>4. PICK t \in Tasks : Enqueue(t, Kick)
  BY DEF EnqueueKick
<1>6. /\ Pending' = Pending /\ PendingKicks' = PendingKicks \cup {t}
      /\ \A u \in Pending : u < t /\ payload'[u] = payload[u]
  BY <1>1, <1>4, EnqueueComesLast
<1>7. SUFFICES ASSUME disturbed # "yes"
               PROVE  CurrentInv' /\ KickInv'
  BY <1>1, DisturbedKeeps DEF TypeOK
<1>8. \A v \in Writers : v # w => writer[v] = IdleWriter
  BY <1>3, <1>7 DEF CurrentInv
<1>9. NewestIsCurrent
  BY <1>1, <1>7, <1>8 DEF CurrentInv, Refreshing, IdleWriter
<1>10. CurrentInv'
  <2>1. \A v \in Writers : writer'[v].pc # "sync"
    BY <1>3, <1>8 DEF IdleWriter
  <2>2. NewestIsCurrent'
    BY <1>1, <1>6, <1>9 DEF NewestIsCurrent
  <2>3. QED
    BY <1>3, <1>8, <2>1, <2>2 DEF CurrentInv
<1>11. KickInv'
  <2>1. SUFFICES ASSUME row # "active"
                 PROVE  KickInv'
    BY <1>1 DEF KickInv
  <2>2. LockedOutBefore(t)'
    <3>1. ASSUME NEW s \in Pending, payload[s] = "active"
          PROVE  \E u \in Pending : s < u /\ u < t /\ payload[u] # "active"
      <4>1. PICK u \in Pending : payload[u] = row /\ \A v \in Pending : v <= u
        BY <1>9, <3>1 DEF NewestIsCurrent
      <4>2. s < u
        BY <2>1, <3>1, <4>1, SyncAssumption DEF Pending, Tasks
      <4>3. QED
        BY <1>6, <2>1, <4>1, <4>2
    <3>2. ASSUME stateFile = "active"
          PROVE  \E u \in Pending : u < t /\ payload[u] # "active"
      BY <1>6, <1>9, <2>1, <3>2 DEF NewestIsCurrent
    <3>3. QED
      BY <1>1, <1>6, <3>1, <3>2 DEF LockedOutBefore
  <2>3. QED
    BY <1>6, <2>2 DEF KickInv
<1>12. QED
  BY <1>10, <1>11

\* Writing the file takes the first snapshot out of those to come.
LEMMA WriteKeeps ==
  ASSUME TypeOK, QueueInv, AgentInv, CurrentInv, KickInv, WriteState
  PROVE  CurrentInv' /\ KickInv'
<1> DEFINE a == agent.task
<1>1. /\ agent.pc = "run" /\ agent'.pc = "apply"
      /\ payload[a] # Kick
      /\ stateFile' = payload[a]
      /\ UNCHANGED <<row, writer, payload, phase, applied, session, disturbed>>
  BY DEF WriteState, IsSnapshot, WrittenFile, queue, failures, TypeOK
<1>2. a \in Tasks /\ phase[a] = "taken" /\ applied = stateFile
  BY <1>1 DEF AgentInv
<1>3. a \in Pending /\ a \notin PendingKicks
  BY <1>1, <1>2 DEF Pending, PendingKicks, ToRun
<1>4. Pending' = Pending \ {a} /\ PendingKicks' = PendingKicks
  BY <1>1, <1>2, <1>3, AgentLeaves
<1>5. \A u \in Pending \cup PendingKicks : a <= u
  BY <1>1, AgentComesFirst
<1>6. \A u, v \in Pending \cup PendingKicks : u \in Nat /\ v \in Nat
  BY TaskFacts DEF Pending, PendingKicks
<1> HIDE DEF a
<1>7. NewestIsCurrent => NewestIsCurrent'
  <2>1. SUFFICES ASSUME NewestIsCurrent PROVE NewestIsCurrent'
    OBVIOUS
  <2>2. PICK u \in Pending : payload[u] = row /\ \A v \in Pending : v <= u
    BY <1>3, <2>1 DEF NewestIsCurrent
  <2>3. CASE u = a
    <3>1. \A v \in Pending : v = a
      BY <1>5, <1>6, <2>2, <2>3
    <3>2. QED
      BY <1>1, <1>4, <2>2, <2>3, <3>1 DEF NewestIsCurrent
  <2>4. CASE u # a
    BY <1>1, <1>4, <2>2, <2>4 DEF NewestIsCurrent
  <2>5. QED
    BY <2>3, <2>4
<1>8. CurrentInv'
  BY <1>1, <1>7 DEF CurrentInv, Refreshing
<1>9. KickInv'
  <2>1. ASSUME NEW k \in PendingKicks, LockedOutBefore(k)
        PROVE  LockedOutBefore(k)'
    <3>1. ASSUME NEW t \in Pending', payload[t] = "active"
          PROVE  \E u \in Pending' : t < u /\ u < k /\ payload[u] # "active"
      <4>1. PICK u \in Pending : t < u /\ u < k /\ payload[u] # "active"
        BY <1>4, <2>1, <3>1 DEF LockedOutBefore
      <4>2. u # a
        BY <1>4, <1>5, <1>6, <1>3, <4>1
      <4>3. QED
        BY <1>4, <4>1, <4>2
    <3>2. ASSUME payload[a] = "active"
          PROVE  \E u \in Pending' : u < k /\ payload[u] # "active"
      BY <1>3, <1>4, <2>1, <3>2 DEF LockedOutBefore
    <3>3. QED
      BY <1>1, <1>4, <3>1, <3>2 DEF LockedOutBefore
  <2>2. LockedOut => LockedOut'
    BY <1>1, <1>3, <1>4 DEF LockedOut
  <2>3. QED
    BY <1>1, <1>4, <2>1, <2>2 DEF KickInv
<1>10. QED
  BY <1>8, <1>9

\* The kick drops a session that cannot come back, or another kick follows.
LEMMA KickKeeps ==
  ASSUME TypeOK, QueueInv, AgentInv, CurrentInv, KickInv, KickClients
  PROVE  CurrentInv' /\ KickInv'
<1> DEFINE a == agent.task
<1>1. /\ agent.pc = "run" /\ agent'.pc = "idle"
      /\ payload[a] = Kick /\ ~session'
      /\ Delivery!Execute(a, "done")
      /\ UNCHANGED <<row, writer, payload, stateFile, applied, disturbed>>
  BY DEF KickClients, IsSnapshot, IdleAgent, failures
<1>2. a \in Tasks /\ phase[a] = "taken" /\ applied = stateFile
  BY <1>1 DEF AgentInv
<1>3. /\ phase'[a] = "executed"
      /\ \A u \in Tasks : u # a => phase'[u] = phase[u]
  BY <1>1, <1>2, ExecuteEffect
<1>4. a \notin Pending
  BY <1>1 DEF Pending
<1>5. Pending' = Pending /\ PendingKicks' = PendingKicks \ {a}
  BY <1>1, <1>3, <1>4, AgentLeaves
<1>6. \A u \in Pending : a < u
  <2>1. \A u \in Pending : a <= u /\ a # u
    BY <1>1, <1>4, AgentComesFirst
  <2>2. QED
    BY <1>2, <2>1, SyncAssumption DEF Pending, Tasks
<1>7. CurrentInv'
  BY <1>1, <1>5, CurrentStutters
<1>8. KickInv'
  <2>1. \A k : LockedOutBefore(k) => LockedOutBefore(k)'
    BY <1>1, <1>5 DEF LockedOutBefore
  <2>2. LockedOut => LockedOut'
    BY <1>1, <1>5 DEF LockedOut
  <2>3. ASSUME LockedOutBefore(a)
        PROVE  LockedOut'
    <3>1. ~ \E u \in Pending : u < a
      BY <1>2, <1>6, SyncAssumption DEF Pending, Tasks
    <3>2. stateFile # "active" /\ \A t \in Pending : payload[t] # "active"
      BY <2>3, <3>1 DEF LockedOutBefore
    <3>3. QED
      BY <1>1, <1>2, <1>5, <3>2 DEF LockedOut
  <2>4. QED
    BY <1>1, <1>5, <2>1, <2>2, <2>3 DEF KickInv
<1>9. QED
  BY <1>7, <1>8

\* Every step keeps the promise made by the latest operation.
LEMMA OperationNext == IInv /\ [Next]_vars => CurrentInv' /\ KickInv'
<1> SUFFICES ASSUME TypeOK, QueueInv, AgentInv, FileInv, CurrentInv, KickInv, [Next]_vars
             PROVE  CurrentInv' /\ KickInv'
  BY DEF IInv
<1>f. ASSUME Fail PROVE CurrentInv' /\ KickInv'
  BY <1>f, DisturbedKeeps DEF Fail
<1>1. ASSUME NEW w \in Writers, NEW to \in Accounts, ChangeAccount(w, to)
      PROVE  CurrentInv' /\ KickInv'
  BY <1>1, ChangeKeeps
<1>2. ASSUME NEW w \in Writers, BuildSnapshot(w)
      PROVE  CurrentInv' /\ KickInv'
  BY <1>2, BuildKeeps
<1>3. ASSUME NEW w \in Writers, EnqueueSync(w)
      PROVE  CurrentInv' /\ KickInv'
  BY <1>3, SyncKeeps
<1>4. ASSUME NEW w \in Writers, EnqueueKick(w)
      PROVE  CurrentInv' /\ KickInv'
  BY <1>4, QueueKickKeeps
<1>5. ASSUME NEW w \in Writers, RefreshFails(w)
      PROVE  CurrentInv' /\ KickInv'
  BY <1>5, <1>f DEF RefreshFails
<1>6. ASSUME NEW t \in Tasks, PullTask(t)
      PROVE  CurrentInv' /\ KickInv'
  <2>1. UNCHANGED <<row, writer, payload, stateFile, applied, session, disturbed>>
    BY <1>6 DEF PullTask, failures
  <2>2. QED
    BY <1>6, <2>1, PendingStays, CurrentStutters, KickStutters DEF LockedOut
<1>7. ASSUME NEW t \in Tasks, LoseTask(t)
      PROVE  CurrentInv' /\ KickInv'
  BY <1>7, <1>f DEF LoseTask
<1>8. CASE WriteState
  BY <1>8, WriteKeeps
<1>9. CASE SetLocalAuthState
  <2>1. /\ UNCHANGED <<row, writer, payload, stateFile, session, disturbed>>
        /\ applied' = stateFile
    BY <1>9 DEF SetLocalAuthState, AgentInv, failures
  <2>2. QED
    BY <1>9, <2>1, PendingStays, CurrentStutters, KickStutters DEF LockedOut
<1>10. CASE KickClients
  BY <1>10, KickKeeps
<1>11. CASE TaskFails
  BY <1>11, <1>f DEF TaskFails
<1>12. CASE AgentRestart
  <2>1. CASE agent.pc = "run"
    BY <1>12, <2>1, <1>f DEF AgentRestart
  <2>2. CASE agent.pc # "run"
    <3>1. /\ UNCHANGED <<row, writer, payload, stateFile, session, disturbed>>
          /\ applied' = stateFile
      BY <1>12, <2>2 DEF AgentRestart, failures
    <3>2. QED
      BY <1>12, <2>2, <3>1, PendingStays, CurrentStutters, KickStutters DEF LockedOut
  <2>3. QED
    BY <2>1, <2>2
<1>13. CASE Connect \/ Disconnect \/ UNCHANGED vars
  <2>1. /\ UNCHANGED <<row, writer, payload, queue, agent, stateFile, applied, disturbed>>
        /\ session' = session \/ ~session' \/ applied = "active"
    BY <1>13 DEF Connect, Disconnect, vars, failures
  <2>2. QED
    BY <2>1, PendingStays, CurrentStutters, KickStutters DEF LockedOut
<1>14. QED
  BY <1>1, <1>2, <1>3, <1>4, <1>5, <1>6, <1>7, <1>8, <1>9, <1>10, <1>11, <1>12,
     <1>13 DEF Next

(***************************************************************************)
(* The theorems.                                                           *)
(***************************************************************************)
\* The invariant is inductive.
LEMMA Inductive == Spec => []IInv
<1>1. Init => IInv
  BY TypeInit, BaseInit, OperationInit DEF IInv
<1>2. IInv /\ [Next]_vars => IInv'
  BY TypeNext, BaseNext, OperationNext DEF IInv
<1>3. QED
  BY <1>1, <1>2, PTL DEF Spec

\* Every variable of panel, queue and agent keeps its type, whatever operations overlap.
THEOREM TypeCorrect == Spec => []TypeOK
<1>1. IInv => TypeOK
  BY DEF IInv
<1>2. QED
  BY <1>1, Inductive, PTL

\* storeLocalAuthState writes the file before the set in memory, and the agent
\* restarts at any moment: an agent that idles admits by the newest snapshot it
\* ever completed or by a later one, never by an older one.
THEOREM NeverRollsBack == Spec => []NoRollback
<1>1. IInv => NoRollback
  BY DEF IInv, NoRollback, AgentInv, FileInv
<1>2. QED
  BY <1>1, Inductive, PTL

\* queueLocalAuthRefresh of an operation that ran by itself and lost nothing
\* repairs whatever earlier losses and overlaps left on the node.
THEOREM RefreshRepairs == Spec => []RefreshHeals
<1>1. IInv => RefreshHeals
  <2>1. SUFFICES ASSUME IInv, Settled, disturbed # "yes"
                 PROVE  applied = row /\ stateFile = row
    BY DEF RefreshHeals
  <2>2. Pending = {}
    BY <2>1 DEF Settled, Pending, ToRun
  <2>3. \A w \in Writers : ~Refreshing(w)
    BY <2>1 DEF Settled, Refreshing, IdleWriter
  <2>4. QED
    BY <2>1, <2>2, <2>3 DEF IInv, CurrentInv, NewestIsCurrent, AgentInv, Settled
<1>2. QED
  BY <1>1, Inductive, PTL

\* The snapshot is queued before the kick: once nothing is under way, a user who
\* was suspended or deleted is not connected, however often the client came back
\* and however often the agent restarted in between.
THEOREM LockedOutStaysOut == Spec => []SettledDisconnected
<1>1. IInv => SettledDisconnected
  <2>1. SUFFICES ASSUME IInv, Settled, disturbed = "never", row # "active"
                 PROVE  ~session
    BY DEF SettledDisconnected
  <2>2. PendingKicks = {}
    BY <2>1 DEF Settled, PendingKicks, ToRun
  <2>3. \A w \in Writers : writer[w] = IdleWriter
    BY <2>1 DEF Settled
  <2>4. QED
    BY <2>1, <2>2, <2>3 DEF IInv, KickInv, LockedOut
<1>2. QED
  BY <1>1, Inductive, PTL

(***************************************************************************)
(* What overlapping operations are to blame for.                            *)
(***************************************************************************)
\* At most one operation of the panel is under way.
OneByOne == \A v, w \in Writers : v # w => writer[v] = IdleWriter \/ writer[w] = IdleWriter

\* Nothing is disturbed but by a failure or by two operations at a time.
Orderly == losses = 0 => disturbed # "yes"

\* An operation that starts beside another one is under way with it afterwards.
LEMMA OrderlyNext == TypeOK /\ Orderly /\ [Next]_vars /\ OneByOne' => Orderly'
<1> SUFFICES ASSUME TypeOK, Orderly, [Next]_vars, OneByOne', losses' = 0
             PROVE  disturbed' # "yes"
  BY DEF Orderly
<1>b. losses \in Nat
  BY SyncAssumption DEF TypeOK
<1>1. ~Fail
  BY <1>b DEF Fail
<1>2. ASSUME NEW w \in Writers, NEW to \in Accounts, ChangeAccount(w, to)
      PROVE  disturbed' # "yes"
  <2>1. writer \in [Writers -> WriterState]
    BY DEF TypeOK, WriterState
  <2>2. /\ writer[w] = IdleWriter /\ writer'[w].pc = "read"
        /\ \A v \in Writers : v # w => writer'[v] = writer[v]
    BY <1>2, <2>1 DEF ChangeAccount
  <2>3. \A v \in Writers : v # w => writer[v] = IdleWriter
    BY <2>2 DEF OneByOne, IdleWriter
  <2>4. \A v \in Writers : writer[v] = IdleWriter
    BY <2>2, <2>3
  <2>5. QED
    BY <1>2, <2>4 DEF ChangeAccount
<1>3. CASE \A w \in Writers, to \in Accounts : ~ChangeAccount(w, to)
  <2>1. UNCHANGED <<losses, disturbed>>
    BY <1>1, <1>3 DEF Next, vars, failures, BuildSnapshot, EnqueueSync, EnqueueKick, RefreshFails,
       PullTask, LoseTask, WriteState, SetLocalAuthState, KickClients, TaskFails, AgentRestart,
       Connect, Disconnect
  <2>2. QED
    BY <2>1 DEF Orderly
<1>4. QED
  BY <1>2, <1>3

\* The panel answers that the agent will update its users in the order of the changes.
\* Two operations that overlap break the promise without any failure (run sync_overlap);
\* nothing else does: as long as operations of the panel come one by one, an agent that
\* lost nothing admits what the row says once everything is settled.
THEOREM OneByOneAgrees == Spec /\ []OneByOne => []SettledAgrees
<1>1. Init => Orderly
  BY DEF Init, Orderly
<1>2. IInv /\ Orderly => SettledAgrees
  <2>1. SUFFICES ASSUME IInv, Orderly, Settled, losses = 0
                 PROVE  applied = row
    BY DEF SettledAgrees
  <2>2. disturbed # "yes"
    BY <2>1 DEF Orderly
  <2>3. Pending = {}
    BY <2>1 DEF Settled, Pending, ToRun
  <2>4. \A w \in Writers : ~Refreshing(w)
    BY <2>1 DEF Settled, Refreshing, IdleWriter
  <2>5. QED
    BY <2>1, <2>2, <2>3, <2>4 DEF IInv, CurrentInv, NewestIsCurrent, AgentInv, Settled
<1>3. QED
  BY <1>1, <1>2, OrderlyNext, TypeCorrect, Inductive, PTL DEF Spec

(***************************************************************************)
(* The queue.                                                              *)
(***************************************************************************)
\* Panel, agent and failures use the queue in no other way than TaskDelivery
\* describes.  AgentTasks implements TaskDelivery, so what is proved here holds
\* of the queue as the panel implements it.
THEOREM QueueAsSpecified == Spec => Delivery!Spec
<1>1. Init => Delivery!Init
  BY DEF Init
<1>2. IInv /\ [Next]_vars => [Delivery!Next]_Delivery!vars
  <2> SUFFICES ASSUME IInv, [Next]_vars, ~UNCHANGED queue
               PROVE  Delivery!Next
    BY DEF queue, Delivery!vars
  <2>1. agent.pc # "idle" => agent.task \in Delivery!Tasks
    BY TaskFacts DEF IInv, AgentInv
  <2>2. ASSUME NEW t \in Tasks, NEW content, Enqueue(t, content)
        PROVE  Delivery!Next
    BY <2>2, TaskFacts DEF Enqueue, Delivery!Next
  <2>3. ASSUME NEW w \in Writers, EnqueueSync(w) \/ EnqueueKick(w)
        PROVE  Delivery!Next
    BY <2>2, <2>3 DEF EnqueueSync, EnqueueKick
  <2>4. ASSUME NEW t \in Tasks, PullTask(t) \/ LoseTask(t)
        PROVE  Delivery!Next
    BY <2>4, TaskFacts DEF PullTask, LoseTask, Delivery!Next
  <2>5. CASE SetLocalAuthState \/ KickClients \/ TaskFails
    <3>1. \E result \in Delivery!Outcomes : Delivery!Execute(agent.task, result)
      BY <2>5 DEF SetLocalAuthState, KickClients, TaskFails, Delivery!Outcomes
    <3>2. agent.pc # "idle"
      BY <2>5 DEF SetLocalAuthState, KickClients, TaskFails
    <3> QED
      BY <2>1, <3>1, <3>2 DEF Delivery!Next
  <2>6. ASSUME NEW w \in Writers,
               BuildSnapshot(w) \/ RefreshFails(w) \/ \E to \in Accounts : ChangeAccount(w, to)
        PROVE  UNCHANGED queue
    BY <2>6 DEF BuildSnapshot, RefreshFails, ChangeAccount
  <2>7. WriteState \/ AgentRestart \/ Connect \/ Disconnect \/ UNCHANGED vars
        => UNCHANGED queue
    BY DEF WriteState, AgentRestart, Connect, Disconnect, vars
  <2> QED
    BY <2>3, <2>4, <2>5, <2>6, <2>7 DEF Next
<1> QED
  BY <1>1, <1>2, Inductive, PTL DEF Spec, Delivery!Spec
=============================================================================
