-------------------------- MODULE ConsoleViewsProofs --------------------------
(***************************************************************************)
(* Proofs about the console as MCConsoleViews composes it, for every set of  *)
(* nodes, ranges and configurations and for any number of handlers.          *)
(***************************************************************************)
EXTENDS MCConsoleViews, TLAPS

-----------------------------------------------------------------------------
(* The monitor page.                                                       *)

\* The latest request is for what is selected as well: a change of the selection replaces it.
\* While no node is selected, as before the list is there, nothing was requested.
OfSelection(request) == request # None => request = <<nodeId, range>>
SelectionInv ==
    /\ OfSelection(data) /\ OfSelection(controller)
    /\ nodeId = None => data = None /\ controller = None
    /\ listing # "there" => nodeId = None

\* Nothing was requested at first.
LEMMA SelectionInit == Init => SelectionInv
  BY DEF Init, Monitor!Init, SelectionInv, OfSelection

\* Whatever changes the selection drops the data and starts a request of its own.
LEMMA SelectionStep ==
    ASSUME SelectionInv, Monitor!Next
    PROVE  SelectionInv'
<1> USE DEF SelectionInv, OfSelection
<1>1. CASE Monitor!NodesListed
  BY <1>1 DEF Monitor!NodesListed, Monitor!Reset
<1>2. CASE Monitor!NodesNotListed
  BY <1>2 DEF Monitor!NodesNotListed
<1>3. CASE Monitor!Select
  BY <1>3, ViewsAssumption DEF Monitor!Select, Monitor!Reset, Monitor!MonitorAssumption
<1>4. CASE Monitor!refresh
  BY <1>4 DEF Monitor!refresh, Monitor!Refreshes
<1>5. CASE Monitor!Answered
  BY <1>5 DEF Monitor!Answered
<1>6. CASE Monitor!Failed
  BY <1>6 DEF Monitor!Failed
<1>7. CASE Monitor!Hide
  BY <1>7 DEF Monitor!Hide, Monitor!Refreshes
<1>8. CASE Monitor!onBeforeUnmount
  BY <1>8 DEF Monitor!onBeforeUnmount
<1>9. ASSUME NEW request \in Monitor!Requests, Monitor!Late(request)
      PROVE  SelectionInv'
  BY <1>9 DEF Monitor!Late, Monitor!Written
<1> QED
  BY <1>1, <1>2, <1>3, <1>4, <1>5, <1>6, <1>7, <1>8, <1>9 DEF Monitor!Next

\* The other views leave the monitor page alone.
LEMMA SelectionNext == ASSUME SelectionInv, [Next]_vars PROVE SelectionInv'
<1>1. CASE UNCHANGED monitorVars
  BY <1>1 DEF monitorVars, SelectionInv, OfSelection
<1>2. CASE Monitor!Next
  BY <1>2, SelectionStep
<1> QED
  BY <1>1, <1>2 DEF Next, vars

\* What is shown belongs to the node and the range that are selected, however late the
\* answers for an earlier selection come, for any number of nodes and ranges.
THEOREM Selected == Spec => []ShownIsSelected
<1>1. SelectionInv /\ [Next]_vars => SelectionInv'
  BY SelectionNext
<1>2. SelectionInv => ShownIsSelected
  BY DEF SelectionInv, OfSelection, ShownIsSelected, Monitor!ShownIsSelected
<1> QED
  BY <1>1, <1>2, SelectionInit, PTL DEF Spec

-----------------------------------------------------------------------------
(* The timer of the node page.                                             *)

\* No timer runs at first.
LEMMA TimerInit == Init => NodeTimerConfined
  BY DEF Init, Statuses!Init, NodeTimerConfined, Statuses!NodeTimerConfined

\* Whoever changes the section stops the timer, unless it is the page of the nodes or a
\* sign-out; the end of a refresh starts it only on that page.
LEMMA TimerStep ==
    ASSUME NodeTimerConfined, Statuses!Next
    PROVE  NodeTimerConfined'
<1> USE DEF NodeTimerConfined, Statuses!NodeTimerConfined
<1>1. ASSUME NEW s \in Slots, Statuses!Ran(s) \/ Statuses!Threw(s)
      PROVE  NodeTimerConfined'
  BY <1>1 DEF Statuses!Ran, Statuses!Threw, Statuses!page
<1>2. ASSUME NEW s \in Slots, Statuses!Reloaded(s)
      PROVE  NodeTimerConfined'
  <2>1. nodeTimer' = nodeTimer /\ section' \in {section, "nodes"}
    BY <1>2 DEF Statuses!Reloaded
  <2> QED
    BY <2>1
<1>3. ASSUME NEW s \in Slots, NEW key, NEW n \in Nodes, Statuses!Press(s, key, n)
      PROVE  NodeTimerConfined'
  BY <1>3 DEF Statuses!Press, Statuses!page
<1>4. CASE Statuses!Poll
  <2>1. section' = section /\ nodeTimer' \in {nodeTimer, session /\ section = "nodes"}
    BY <1>4 DEF Statuses!Poll, Statuses!TimerAfterRefresh
  <2> QED
    BY <2>1
<1>5. CASE Statuses!refreshTrafficNodeRuntimeStatuses \/ Statuses!syncNodeStatusesInBackground
  BY <1>5 DEF Statuses!refreshTrafficNodeRuntimeStatuses, Statuses!syncNodeStatusesInBackground,
              Statuses!page
<1>6. ASSUME NEW to, Statuses!setSection(to)
      PROVE  NodeTimerConfined'
  BY <1>6 DEF Statuses!setSection
<1>7. CASE Statuses!handleLogout \/ Statuses!LoggedOut \/ Statuses!LogoutFails
  BY <1>7 DEF Statuses!handleLogout, Statuses!LoggedOut, Statuses!LogoutFails
<1>8. CASE Statuses!handleLogin
  BY <1>8 DEF Statuses!handleLogin
<1>9. ASSUME NEW n \in Nodes, Statuses!NodeChanges(n)
      PROVE  NodeTimerConfined'
  BY <1>9 DEF Statuses!NodeChanges, Statuses!page
<1> QED
  BY <1>1, <1>2, <1>3, <1>4, <1>5, <1>6, <1>7, <1>8, <1>9 DEF Statuses!Next

\* The other views leave the timer alone.
LEMMA TimerNext == ASSUME NodeTimerConfined, [Next]_vars PROVE NodeTimerConfined'
<1>1. CASE UNCHANGED statusesVars
  BY <1>1 DEF statusesVars, NodeTimerConfined, Statuses!NodeTimerConfined
<1>2. CASE Statuses!Next
  BY <1>2, TimerStep
<1> QED
  BY <1>1, <1>2 DEF Next, vars

\* The polling timer of the node page is set on that page or beside the overview only, for
\* any number of nodes and of handlers that are under way when it is left.
THEOREM Confined == Spec => []NodeTimerConfined
<1>1. NodeTimerConfined /\ [Next]_vars => NodeTimerConfined'
  BY TimerNext
<1> QED
  BY <1>1, TimerInit, PTL DEF Spec

-----------------------------------------------------------------------------
(* Types of the statuses.                                                  *)

\* The records handlers and polls are written as.
Handlers == {Statuses!NoHandler} \cup Statuses!Waiting
Polls == [owner : Slots \cup {"nodes", "page"}, todo : (SUBSET Nodes) \ {{}},
          map : [Nodes -> Statuses!Status]]

\* A handler that waits is one of the kinds, and so is one that waits for something else.
LEMMA HandlerTypes ==
    ASSUME NEW h \in Handlers, h.key # "none"
    PROVE  /\ h \in Statuses!Waiting /\ h.node \in Nodes
           /\ \A ok \in BOOLEAN : [h EXCEPT !.ok = ok, !.at = "reload"] \in Handlers
           /\ [h EXCEPT !.at = "settle"] \in Handlers
<1>1. h \in Statuses!Waiting
  BY DEF Handlers, Statuses!NoHandler
<1> QED
  BY <1>1 DEF Handlers, Statuses!Waiting

\* Nobody polls at first, and no handler waits.
LEMMA StatusesTypeInit == Statuses!Init => Statuses!TypeOK
<1>1. 0 \in 0..MaxUpsets
  BY ViewsAssumption DEF Statuses!StatusesAssumption
<1> QED
  BY <1>1, ViewsAssumption
     DEF Statuses!Init, Statuses!TypeOK, Statuses!Unknown, Statuses!Status,
         Statuses!StatusesAssumption

\* What fails is counted up to the bound.
LEMMA UpsetTypes ==
    ASSUME upsets \in 0..MaxUpsets, Statuses!Upset \/ UNCHANGED upsets
    PROVE  upsets' \in 0..MaxUpsets
<1>1. MaxUpsets \in Nat
  BY ViewsAssumption DEF Statuses!StatusesAssumption
<1> QED
  BY <1>1 DEF Statuses!Upset

\* A poll that begins asks for at least one node.
LEMMA BeginTypes ==
    ASSUME NEW owner \in Slots \cup {"nodes", "page"}, NEW todo \in SUBSET Nodes, todo # {},
           NEW map \in [Nodes -> Statuses!Status]
    PROVE  [owner |-> owner, todo |-> todo, map |-> map] \in Polls
  BY DEF Polls

\* Every button, every answer and every poll keeps the types.
LEMMA StatusesTypeNext ==
    ASSUME Statuses!TypeOK, [Statuses!Next]_Statuses!vars
    PROVE  Statuses!TypeOK'
<1>t. /\ live \subseteq Nodes /\ listed \subseteq Nodes
      /\ service \in [Nodes -> {"running", "stopped"}]
      /\ status \in [Nodes -> Statuses!Status]
      /\ refresh \in {Statuses!Resting} \cup Polls
      /\ handler \in [Slots -> Handlers]
      /\ {busy, session, leaving, nodeTimer} \subseteq BOOLEAN
      /\ section \in {"nodes", "overview", "elsewhere"}
      /\ upsets \in 0..MaxUpsets
  BY DEF Statuses!TypeOK, Handlers, Polls
<1> SUFFICES
      /\ live' \subseteq Nodes /\ listed' \subseteq Nodes
      /\ service' \in [Nodes -> {"running", "stopped"}]
      /\ status' \in [Nodes -> Statuses!Status]
      /\ refresh' \in {Statuses!Resting} \cup Polls
      /\ handler' \in [Slots -> Handlers]
      /\ {busy', session', leaving', nodeTimer'} \subseteq BOOLEAN
      /\ section' \in {"nodes", "overview", "elsewhere"}
      /\ upsets' \in 0..MaxUpsets
  BY DEF Statuses!TypeOK, Handlers, Polls
<1>u. Statuses!Unknown \in [Nodes -> Statuses!Status] /\ Statuses!NoHandler \in Handlers
  BY DEF Statuses!Unknown, Statuses!Status, Handlers
<1>1. ASSUME NEW s \in Slots, NEW key \in Statuses!Buttons, NEW n \in Nodes,
             Statuses!Press(s, key, n)
      PROVE  handler' \in [Slots -> Handlers] /\ busy' \in BOOLEAN
             /\ UNCHANGED <<live, service, listed, status, refresh, Statuses!page, upsets>>
  <2> DEFINE h == [key |-> key, node |-> n, ok |-> TRUE, at |-> "request"]
  <2>1. h \in Handlers
    BY DEF Handlers, Statuses!Waiting
  <2>2. /\ handler' = [handler EXCEPT ![s] = h] /\ busy' = TRUE
        /\ UNCHANGED <<live, service, listed, status, refresh, Statuses!page, upsets>>
    BY <1>1 DEF Statuses!Press
  <2> HIDE DEF h
  <2> QED
    BY <1>t, <2>1, <2>2
<1>2. ASSUME NEW s \in Slots, Statuses!Ran(s)
      PROVE  /\ live' \subseteq Nodes /\ service' \in [Nodes -> {"running", "stopped"}]
             /\ handler' \in [Slots -> Handlers] /\ upsets' \in 0..MaxUpsets
             /\ UNCHANGED <<listed, status, refresh, busy, Statuses!page>>
  <2> DEFINE h == handler[s]
  <2>1. h \in Handlers /\ h.key # "none"
    BY <1>2, <1>t DEF Statuses!Ran
  <2>2. PICK ok \in BOOLEAN :
           /\ IF ok THEN UNCHANGED upsets ELSE Statuses!Upset
           /\ handler' = [handler EXCEPT ![s].ok = ok, ![s].at = "reload"]
           /\ service' = [service EXCEPT ![h.node] =
                  IF ~ok THEN @ ELSE IF h.key \in {"stop", "delete"} THEN "stopped" ELSE "running"]
    BY <1>2 DEF Statuses!Ran
  <2>3. handler' = [handler EXCEPT ![s] = [h EXCEPT !.ok = ok, !.at = "reload"]]
    BY <1>t, <2>2
  <2>4. handler' \in [Slots -> Handlers]
    <3> DEFINE g == [h EXCEPT !.ok = ok, !.at = "reload"]
    <3>1. g \in Handlers
      <4> HIDE DEF h
      <4> QED
        BY <2>1, HandlerTypes
    <3> HIDE DEF g
    <3> QED
      BY <1>t, <2>3, <3>1 DEF g
  <2>5. upsets' \in 0..MaxUpsets
    BY <1>t, <2>2, UpsetTypes
  <2>6. service' \in [Nodes -> {"running", "stopped"}]
    BY <1>t, <2>2
  <2>7. live' \subseteq Nodes /\ UNCHANGED <<listed, status, refresh, busy, Statuses!page>>
    BY <1>2, <1>t DEF Statuses!Ran
  <2> QED
    BY <2>4, <2>5, <2>6, <2>7
<1>3. ASSUME NEW s \in Slots, Statuses!Threw(s)
      PROVE  /\ handler' \in [Slots -> Handlers] /\ busy' \in BOOLEAN /\ upsets' \in 0..MaxUpsets
             /\ UNCHANGED <<live, service, listed, status, refresh, Statuses!page>>
  <2>1. Statuses!Upset \/ UNCHANGED upsets
    BY <1>3 DEF Statuses!Threw
  <2>2. upsets' \in 0..MaxUpsets
    BY <1>t, <2>1, UpsetTypes
  <2> QED
    BY <1>3, <1>t, <1>u, <2>2 DEF Statuses!Threw
<1>4. ASSUME NEW s \in Slots, Statuses!Reloaded(s)
      PROVE  /\ listed' \subseteq Nodes /\ status' \in [Nodes -> Statuses!Status]
             /\ busy' \in BOOLEAN /\ section' \in {"nodes", "overview", "elsewhere"}
             /\ refresh' \in {Statuses!Resting} \cup Polls /\ handler' \in [Slots -> Handlers]
             /\ UNCHANGED <<live, service, session, leaving, nodeTimer, upsets>>
  <2> DEFINE h == handler[s]
  <2>1. h \in Handlers /\ h.key # "none"
    BY <1>4, <1>t DEF Statuses!Reloaded
  <2>2. [h EXCEPT !.at = "settle"] \in Handlers /\ h.node \in Nodes
    <3> HIDE DEF h
    <3> QED
      BY <2>1, HandlerTypes
  <2>3. status' \in [Nodes -> Statuses!Status]
    <3>1. Statuses!StatusAfter(h) \in Statuses!Status
      BY DEF Statuses!StatusAfter, Statuses!Status
    <3>2. status' = [status EXCEPT ![h.node] = Statuses!StatusAfter(h)]
      BY <1>4 DEF Statuses!Reloaded
    <3> QED
      BY <1>t, <3>1, <3>2
  <2>4. refresh' \in {Statuses!Resting} \cup Polls /\ handler' \in [Slots -> Handlers]
    <3>1. CASE h.key = "save" /\ refresh = Statuses!Resting /\ live # {}
      <4>1. refresh' = [owner |-> s, todo |-> live, map |-> Statuses!Unknown]
        BY <1>4, <3>1 DEF Statuses!Reloaded
      <4>2. refresh' \in Polls
        BY <1>t, <1>u, <3>1, <4>1, BeginTypes
      <4>3. handler' = [handler EXCEPT ![s] = [h EXCEPT !.at = "settle"]]
        BY <1>4, <1>t, <3>1 DEF Statuses!Reloaded
      <4> DEFINE g == [h EXCEPT !.at = "settle"]
      <4>4. g \in Handlers
        BY <2>2
      <4> HIDE DEF g
      <4>5. handler' \in [Slots -> Handlers]
        BY <1>t, <4>3, <4>4 DEF g
      <4> QED
        BY <4>2, <4>5
    <3>2. CASE ~(h.key = "save" /\ refresh = Statuses!Resting /\ live # {})
      BY <1>4, <1>t, <1>u, <3>2 DEF Statuses!Reloaded
    <3> QED
      BY <3>1, <3>2
  <2> QED
    BY <1>4, <1>t, <2>3, <2>4 DEF Statuses!Reloaded
<1>5. CASE Statuses!Poll
  <2>1. refresh \in Polls
    BY <1>5, <1>t DEF Statuses!Poll
  <2>2. PICK n \in refresh.todo, lost \in BOOLEAN :
           LET map == [refresh.map EXCEPT ![n] = IF lost THEN "stopped" ELSE Statuses!Polled(n)] IN
           /\ IF lost THEN Statuses!Upset ELSE UNCHANGED upsets
           /\ IF refresh.todo # {n}
              THEN /\ refresh' = [refresh EXCEPT !.todo = @ \ {n}, !.map = map]
                   /\ UNCHANGED <<status, handler, nodeTimer>>
              ELSE /\ refresh' = Statuses!Resting /\ status' = map
                   /\ handler' = [s \in Slots |->
                         IF s = refresh.owner THEN Statuses!NoHandler ELSE handler[s]]
                   /\ nodeTimer' = Statuses!TimerAfterRefresh(refresh.owner)
    BY <1>5 DEF Statuses!Poll
  <2> DEFINE map == [refresh.map EXCEPT ![n] = IF lost THEN "stopped" ELSE Statuses!Polled(n)]
  <2>3. n \in Nodes /\ refresh.map \in [Nodes -> Statuses!Status]
    BY <2>1 DEF Polls
  <2>4. map \in [Nodes -> Statuses!Status]
    <3>1. Statuses!Polled(n) \in Statuses!Status
      BY <1>t, <2>3 DEF Statuses!Polled, Statuses!Status
    <3>2. "stopped" \in Statuses!Status
      BY DEF Statuses!Status
    <3> QED
      BY <2>3, <3>1, <3>2
  <2> HIDE DEF map
  <2>5. upsets' \in 0..MaxUpsets
    <3>1. Statuses!Upset \/ UNCHANGED upsets
      BY <2>2
    <3> QED
      BY <1>t, <3>1, UpsetTypes
  <2>6. CASE refresh.todo # {n}
    <3>1. refresh' = [refresh EXCEPT !.todo = @ \ {n}, !.map = map]
          /\ UNCHANGED <<status, handler, nodeTimer>>
      BY <2>2, <2>6 DEF map
    <3>2. refresh' \in Polls
      <4>1. refresh.todo \ {n} # {} /\ refresh.todo \ {n} \subseteq Nodes
        BY <2>1, <2>6 DEF Polls
      <4> QED
        BY <2>1, <2>4, <3>1, <4>1 DEF Polls
    <3> QED
      BY <1>5, <1>t, <2>5, <3>1, <3>2 DEF Statuses!Poll
  <2>7. CASE refresh.todo = {n}
    <3>1. refresh' = Statuses!Resting /\ status' = map
      BY <2>2, <2>7 DEF map
    <3>2. handler' = [s \in Slots |-> IF s = refresh.owner THEN Statuses!NoHandler ELSE handler[s]]
      BY <2>2, <2>7
    <3>3. nodeTimer' \in BOOLEAN
      <4>1. Statuses!TimerAfterRefresh(refresh.owner) \in BOOLEAN
        BY <1>t DEF Statuses!TimerAfterRefresh
      <4>2. nodeTimer' = Statuses!TimerAfterRefresh(refresh.owner)
        BY <2>2, <2>7
      <4> QED
        BY <4>1, <4>2
    <3>4. handler' \in [Slots -> Handlers]
      BY <1>t, <1>u, <3>2
    <3> QED
      BY <1>5, <1>t, <2>4, <2>5, <3>1, <3>3, <3>4 DEF Statuses!Poll
  <2> QED
    BY <2>6, <2>7
<1>6. ASSUME NEW owner \in {"nodes", "page"}, NEW base \in [Nodes -> Statuses!Status],
             Statuses!MayRefresh, Statuses!Begin(owner, base)
      PROVE  refresh' \in Polls
  BY <1>6, <1>t, BeginTypes DEF Statuses!MayRefresh, Statuses!Begin
<1>7. CASE Statuses!refreshTrafficNodeRuntimeStatuses
  <2>1. refresh' \in Polls
    BY <1>6, <1>7, <1>t DEF Statuses!refreshTrafficNodeRuntimeStatuses
  <2> QED
    BY <1>7, <1>t, <2>1 DEF Statuses!refreshTrafficNodeRuntimeStatuses, Statuses!page
<1>8. CASE Statuses!syncNodeStatusesInBackground
  <2>1. refresh' \in Polls
    BY <1>6, <1>8, <1>u DEF Statuses!syncNodeStatusesInBackground
  <2> QED
    BY <1>8, <1>t, <2>1 DEF Statuses!syncNodeStatusesInBackground, Statuses!page
<1>9. ASSUME NEW to \in {"nodes", "overview", "elsewhere"}, Statuses!setSection(to)
      PROVE  /\ section' = to /\ nodeTimer' \in BOOLEAN
             /\ refresh' \in {Statuses!Resting} \cup Polls
             /\ UNCHANGED <<live, service, listed, status, handler, busy, session, leaving, upsets>>
  <2>1. CASE to # "elsewhere" /\ Statuses!MayRefresh
    <3>1. /\ Statuses!Begin(IF to = "nodes" THEN to ELSE "page", Statuses!Unknown)
          /\ nodeTimer' = FALSE
      BY <1>9, <2>1 DEF Statuses!setSection
    <3>2. (IF to = "nodes" THEN to ELSE "page") \in {"nodes", "page"}
      OBVIOUS
    <3>3. refresh' \in Polls
      BY <1>6, <1>u, <2>1, <3>1, <3>2
    <3> QED
      BY <1>9, <3>1, <3>3 DEF Statuses!setSection
  <2>2. CASE ~(to # "elsewhere" /\ Statuses!MayRefresh)
    BY <1>9, <1>t, <2>2 DEF Statuses!setSection
  <2> QED
    BY <2>1, <2>2
<1>10. CASE Statuses!handleLogout \/ Statuses!LoggedOut \/ Statuses!handleLogin
  BY <1>10, <1>t, <1>u DEF Statuses!handleLogout, Statuses!LoggedOut, Statuses!handleLogin
<1>11. CASE Statuses!LogoutFails
  <2>1. upsets' \in 0..MaxUpsets
    BY <1>11, <1>t, UpsetTypes DEF Statuses!LogoutFails
  <2> QED
    BY <1>11, <1>t, <2>1 DEF Statuses!LogoutFails
<1>12. ASSUME NEW n \in Nodes, Statuses!NodeChanges(n)
       PROVE  /\ upsets' \in 0..MaxUpsets /\ live' \subseteq Nodes
              /\ service' \in [Nodes -> {"running", "stopped"}]
              /\ UNCHANGED <<listed, status, refresh, handler, busy, Statuses!page>>
  <2>1. upsets' \in 0..MaxUpsets
    BY <1>12, <1>t, UpsetTypes DEF Statuses!NodeChanges
  <2> QED
    BY <1>12, <1>t, <2>1 DEF Statuses!NodeChanges
<1>13. CASE UNCHANGED Statuses!vars
  BY <1>13, <1>t DEF Statuses!vars, Statuses!page
<1>14. CASE \E s \in Slots : Statuses!Ran(s) \/ Statuses!Threw(s) \/ Statuses!Reloaded(s)
               \/ \E key \in Statuses!Buttons, n \in Nodes : Statuses!Press(s, key, n)
  BY <1>14, <1>t, <1>1, <1>2, <1>3, <1>4 DEF Statuses!page
<1>15. CASE \E to \in {"nodes", "overview", "elsewhere"} : Statuses!setSection(to)
  BY <1>15, <1>t, <1>9
<1>16. CASE \E n \in Nodes : Statuses!NodeChanges(n)
  BY <1>16, <1>t, <1>12 DEF Statuses!page
<1> QED
  BY <1>5, <1>7, <1>8, <1>10, <1>11, <1>13, <1>14, <1>15, <1>16 DEF Statuses!Next

-----------------------------------------------------------------------------
(* Types of the monitor page.                                              *)

\* Nothing was requested at first.
LEMMA MonitorTypeInit == Monitor!Init => Monitor!TypeOK
  BY DEF Monitor!Init, Monitor!TypeOK

\* Requests are for a node and a range, whichever is overtaken.
LEMMA MonitorTypeNext ==
    ASSUME Monitor!TypeOK, [Monitor!Next]_Monitor!vars
    PROVE  Monitor!TypeOK'
<1> USE DEF Monitor!TypeOK, Monitor!Requests
<1>1. ASSUME NEW id \in Nodes \cup {None}, NEW chosen \in Ranges, Monitor!Reset(id, chosen)
      PROVE  /\ {data', controller'} \subseteq Monitor!Requests \cup {None}
             /\ overtaken' \subseteq Monitor!Requests /\ {error', loading'} \subseteq BOOLEAN
  <2>1. Monitor!Overtake(controller) \subseteq Monitor!Requests
    BY DEF Monitor!Overtake
  <2>2. CASE id = None \/ hidden
    BY <1>1, <2>2 DEF Monitor!Reset
  <2>3. CASE id # None /\ ~hidden
    <3>1. <<id, chosen>> \in Monitor!Requests
      BY <2>3
    <3> QED
      BY <1>1, <2>1, <2>3, <3>1 DEF Monitor!Reset
  <2> QED
    BY <2>2, <2>3
<1>2. CASE Monitor!NodesListed
  BY <1>1, <1>2 DEF Monitor!NodesListed
<1>3. CASE Monitor!NodesNotListed
  BY <1>3 DEF Monitor!NodesNotListed
<1>4. CASE Monitor!Select
  <2>1. nodeId' \in Nodes \cup {None} /\ range' \in Ranges
    BY <1>4 DEF Monitor!Select
  <2>2. Monitor!Reset(nodeId', range')
    BY <1>4 DEF Monitor!Select
  <2> QED
    BY <1>1, <1>4, <2>1, <2>2 DEF Monitor!Select
<1>5. CASE Monitor!refresh
  BY <1>5 DEF Monitor!refresh, Monitor!Refreshes
<1>6. CASE Monitor!Answered \/ Monitor!Failed
  BY <1>6 DEF Monitor!Answered, Monitor!Failed
<1>7. CASE Monitor!Hide
  BY <1>7 DEF Monitor!Hide, Monitor!Refreshes
<1>8. CASE Monitor!onBeforeUnmount
  BY <1>8 DEF Monitor!onBeforeUnmount, Monitor!Overtake
<1>9. ASSUME NEW request \in Monitor!Requests, Monitor!Late(request)
      PROVE  Monitor!TypeOK'
  BY <1>9 DEF Monitor!Late, Monitor!Written
<1>10. CASE UNCHANGED Monitor!vars
  BY <1>10 DEF Monitor!vars
<1> QED
  BY <1>2, <1>3, <1>4, <1>5, <1>6, <1>7, <1>8, <1>9, <1>10 DEF Monitor!Next

-----------------------------------------------------------------------------
(* Types of the dialog.                                                    *)

\* TypeOK of the dialog lets a save carry any configuration; what makes it inductive is that an
\* invalid one is never sent.
DialogInv == Dialog!TypeOK /\ (save.at = "sent" => save.config \notin Invalid)

\* The first check is under way at first.
LEMMA DialogTypeInit == Dialog!Init => DialogInv
<1>1. MaxSaves \in Nat /\ Default \in Configs
  BY ViewsAssumption DEF Dialog!DialogAssumption
<1> SUFFICES ASSUME Dialog!Init PROVE DialogInv
  OBVIOUS
<1>2. check \in {[at |-> at] : at \in Dialog!Sent}
  BY DEF Dialog!Init, Dialog!Sent
<1>3. save = [at |-> "none"]
  BY DEF Dialog!Init, Dialog!Quiet
<1>4. saves \in 0..MaxSaves /\ {configured, applied, reading, initial, closed} \subseteq BOOLEAN
  <2>1. /\ configured = FALSE /\ applied = FALSE /\ reading = TRUE /\ initial = TRUE
        /\ closed = FALSE /\ saves = 0
    BY DEF Dialog!Init
  <2>2. 0 \in 0..MaxSaves
    BY <1>1
  <2> QED
    BY <2>1, <2>2
<1>5. /\ stored \in (Configs \ Invalid) \cup {None} /\ reported \in Configs \cup {None}
      /\ form \in Configs /\ baseline \in Configs \cup {None}
  <2>1. stored \in (Configs \ Invalid) \cup {None} /\ reported \in {Default, stored, None}
    BY DEF Dialog!Init
  <2>2. form = Default /\ baseline = None
    BY DEF Dialog!Init
  <2>3. {Default, stored, None} \subseteq Configs \cup {None}
    BY <1>1, <2>1
  <2> QED
    BY <1>1, <2>1, <2>2, <2>3
<1> QED
  BY <1>2, <1>3, <1>4, <1>5 DEF Dialog!TypeOK, DialogInv

\* What the panel answers.
LEMMA StateTypes ==
    ASSUME NEW config \in Configs \cup {None}
    PROVE  /\ Dialog!State(config) \in Dialog!Answers
           /\ Dialog!State(config).config \in Configs
<1>1. Default \in Configs
  BY ViewsAssumption DEF Dialog!DialogAssumption
<1> QED
  BY <1>1 DEF Dialog!State, Dialog!Answers

\* Saves and failures are counted up to the bound.
LEMMA CountedTypes ==
    ASSUME saves \in 0..MaxSaves, Dialog!Counted \/ UNCHANGED saves
    PROVE  saves' \in 0..MaxSaves
<1>1. MaxSaves \in Nat
  BY ViewsAssumption DEF Dialog!DialogAssumption
<1> QED
  BY <1>1 DEF Dialog!Counted

\* Whatever is answered, entered, saved or reported keeps the types.
LEMMA DialogTypeNext ==
    ASSUME DialogInv, [Dialog!Next]_Dialog!vars
    PROVE  DialogInv'
<1> DEFINE Checks == {[at |-> at] : at \in Dialog!Sent}
                        \cup [at : {"answered"}, state : Dialog!Answers]
           Saves == {[at |-> "none"]} \cup [at : {"sent"}, config : Configs]
                       \cup [at : {"answered"}, state : Dialog!Answers]
<1>t. /\ stored \in (Configs \ Invalid) \cup {None} /\ reported \in Configs \cup {None}
      /\ form \in Configs /\ baseline \in Configs \cup {None}
      /\ {configured, applied, reading, initial, closed} \subseteq BOOLEAN
      /\ saves \in 0..MaxSaves
  BY DEF DialogInv, Dialog!TypeOK
<1>c. check \in Checks /\ save \in Saves /\ (save.at = "sent" => save.config \notin Invalid)
  BY DEF DialogInv, Dialog!TypeOK
<1>d. ASSUME check' \in Checks, save' \in Saves, save'.at = "sent" => save'.config \notin Invalid,
             stored' \in (Configs \ Invalid) \cup {None}, reported' \in Configs \cup {None},
             form' \in Configs, baseline' \in Configs \cup {None},
             {configured', applied', reading', initial', closed'} \subseteq BOOLEAN,
             saves' \in 0..MaxSaves
      PROVE  DialogInv'
  BY <1>d DEF DialogInv, Dialog!TypeOK
<1>q. Dialog!Quiet \in Checks /\ [at |-> "sent"] \in Checks /\ Dialog!Quiet \in Saves
      /\ Dialog!Quiet.at = "none"
  BY DEF Dialog!Quiet, Dialog!Sent
<1>e. check.at = "answered" => check.state \in Dialog!Answers
  BY <1>c DEF Dialog!Sent
<1>f. /\ save.at = "answered" => save.state \in Dialog!Answers
      /\ save.at = "sent" => save.config \in Configs \ Invalid
  BY <1>c
<1>g. ASSUME NEW state \in Dialog!Answers
      PROVE  /\ state.config \in Configs /\ {state.configured, state.applied} \subseteq BOOLEAN
             /\ [at |-> "answered", state |-> state] \in Checks \cap Saves
  BY DEF Dialog!Answers
<1> HIDE DEF Checks, Saves
<1>1. CASE Dialog!PanelReads
  <2>1. Dialog!State(stored) \in Dialog!Answers
    BY <1>t, StateTypes
  <2>2. check' \in Checks
    BY <1>1, <1>g, <2>1 DEF Dialog!PanelReads
  <2> QED
    BY <1>1, <1>t, <1>c, <1>d, <2>2 DEF Dialog!PanelReads, Dialog!view
<1>2. CASE Dialog!Checked
  <2>1. check.state \in Dialog!Answers
    BY <1>2, <1>e DEF Dialog!Checked
  <2>2. /\ check.state.config \in Configs
        /\ {check.state.configured, check.state.applied} \subseteq BOOLEAN
    BY <1>g, <2>1
  <2>3. /\ form' \in Configs /\ baseline' \in Configs \cup {None}
        /\ {configured', applied', reading'} \subseteq BOOLEAN
    BY <1>2, <1>t, <2>2 DEF Dialog!Checked, Dialog!FormAfterCheck, Dialog!view
  <2> QED
    BY <1>2, <1>t, <1>c, <1>d, <1>q, <2>3 DEF Dialog!Checked
<1>3. CASE Dialog!CheckFails
  <2>1. saves' \in 0..MaxSaves
    BY <1>3, <1>t, CountedTypes DEF Dialog!CheckFails
  <2>2. reading' \in BOOLEAN
    BY <1>3, <1>t DEF Dialog!CheckFails
  <2> QED
    BY <1>3, <1>t, <1>c, <1>d, <1>q, <2>1, <2>2 DEF Dialog!CheckFails
<1>4. CASE Dialog!Tick
  BY <1>4, <1>t, <1>c, <1>d, <1>q DEF Dialog!Tick, Dialog!view
<1>5. CASE Dialog!Edit
  BY <1>5, <1>t, <1>c, <1>d DEF Dialog!Edit
<1>6. CASE Dialog!Save
  <2>1. saves' \in 0..MaxSaves
    BY <1>6, <1>t, CountedTypes DEF Dialog!Save
  <2>2. save' = [at |-> "sent", config |-> form] /\ form \notin Invalid
    BY <1>6 DEF Dialog!Save
  <2>3. save' \in Saves /\ save'.config \notin Invalid
    BY <1>t, <2>2 DEF Saves
  <2> QED
    BY <1>6, <1>t, <1>c, <1>d, <2>1, <2>3 DEF Dialog!Save, Dialog!view
<1>7. CASE Dialog!PanelSaves
  <2>1. save.config \in Configs \ Invalid
    BY <1>7, <1>f DEF Dialog!PanelSaves
  <2>2. Dialog!State(save.config) \in Dialog!Answers
    BY <2>1, StateTypes
  <2>3. save' \in Saves /\ save'.at = "answered"
    BY <1>7, <1>g, <2>2 DEF Dialog!PanelSaves
  <2> QED
    BY <1>7, <1>t, <1>c, <1>d, <2>1, <2>3 DEF Dialog!PanelSaves, Dialog!view
<1>8. CASE Dialog!Saved
  <2>1. save.state \in Dialog!Answers
    BY <1>8, <1>f DEF Dialog!Saved
  <2>2. /\ save.state.config \in Configs
        /\ {save.state.configured, save.state.applied} \subseteq BOOLEAN
    BY <1>g, <2>1
  <2>3. /\ form' \in Configs /\ baseline' \in Configs \cup {None}
        /\ {configured', applied', reading'} \subseteq BOOLEAN
    BY <1>8, <1>t, <2>2 DEF Dialog!Saved, Dialog!view
  <2> QED
    BY <1>8, <1>t, <1>c, <1>d, <1>q, <2>3 DEF Dialog!Saved
<1>9. CASE Dialog!SaveFails
  <2>1. saves' \in 0..MaxSaves
    BY <1>9, <1>t, CountedTypes DEF Dialog!SaveFails
  <2> QED
    BY <1>9, <1>t, <1>c, <1>d, <1>q, <2>1 DEF Dialog!SaveFails, Dialog!view
<1>10. CASE Dialog!OtherSaves
  <2>1. saves' \in 0..MaxSaves
    BY <1>10, <1>t, CountedTypes DEF Dialog!OtherSaves
  <2> QED
    BY <1>10, <1>t, <1>c, <1>d, <2>1 DEF Dialog!OtherSaves, Dialog!view
<1>11. CASE Dialog!AgentReports
  BY <1>11, <1>t, <1>c, <1>d DEF Dialog!AgentReports, Dialog!view
<1>12. CASE Dialog!AgentOffline
  <2>1. saves' \in 0..MaxSaves
    BY <1>12, <1>t, CountedTypes DEF Dialog!AgentOffline
  <2> QED
    BY <1>12, <1>t, <1>c, <1>d, <2>1 DEF Dialog!AgentOffline, Dialog!view
<1>13. CASE Dialog!Close
  BY <1>13, <1>t, <1>c, <1>d DEF Dialog!Close, Dialog!view
<1>14. CASE UNCHANGED Dialog!vars
  BY <1>14, <1>t, <1>c, <1>d DEF Dialog!vars, Dialog!view
<1> QED
  BY <1>1, <1>2, <1>3, <1>4, <1>5, <1>6, <1>7, <1>8, <1>9, <1>10, <1>11, <1>12, <1>13, <1>14
     DEF Dialog!Next

-----------------------------------------------------------------------------
(* Types of the composition.                                               *)

\* A step of the console is one of a view or leaves the view alone.
LEMMA ViewSteps ==
    ASSUME [Next]_vars
    PROVE  /\ [Statuses!Next]_Statuses!vars /\ [Monitor!Next]_Monitor!vars
           /\ [Dialog!Next]_Dialog!vars
  BY DEF Next, vars, statusesVars, monitorVars, dialogVars, Statuses!vars, Statuses!page,
         Monitor!vars, Dialog!vars, Dialog!view

\* Every variable of the three views has its type, for any sets of nodes, ranges and
\* configurations and for any number of handlers.
THEOREM TypeCorrect == Spec => []TypeOK
<1> DEFINE Inv == Statuses!TypeOK /\ Monitor!TypeOK /\ DialogInv
<1>1. Init => Inv
  BY StatusesTypeInit, MonitorTypeInit, DialogTypeInit DEF Init
<1>2. Inv /\ [Next]_vars => Inv'
  BY ViewSteps, StatusesTypeNext, MonitorTypeNext, DialogTypeNext
<1>3. Inv => TypeOK
  BY DEF TypeOK, DialogInv
<1> HIDE DEF Inv
<1> QED
  BY <1>1, <1>2, <1>3, PTL DEF Spec

=============================================================================
