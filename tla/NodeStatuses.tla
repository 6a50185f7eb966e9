---------------------------- MODULE NodeStatuses ----------------------------
(***************************************************************************)
(* The statuses the web console shows beside the nodes: what a handler       *)
(* writes when it is through, what refreshNodeRuntimeStatuses polls one node *)
(* after the other, and the timer of the node page that starts the polling   *)
(* again.  Everything lies between awaits: a poll map is filled from the     *)
(* moment it is started and replaces all statuses when it is complete.       *)
(***************************************************************************)
EXTENDS Naturals, FiniteSets

CONSTANTS
    Nodes,
    Slots,          \* bound: handlers that wait at the same time
    MaxUpsets       \* bound: requests that fail, and what happens to nodes by themselves

\* What the constants are.
StatusesAssumption ==
    IsFiniteSet(Nodes) /\ Nodes # {} /\ IsFiniteSet(Slots) /\ MaxUpsets \in Nat

VARIABLES
    live,           \* nodes the panel knows
    service,        \* what hysteria does on a node
    listed,         \* nodes.value
    status,         \* nodeRuntimeStatuses
    refresh,        \* refreshNodeRuntimeStatuses under way, or Resting
    handler,        \* handlers of buttons that wait: [Slots -> ...]
    busy,           \* busyAction is set
    section,        \* currentSection
    session,        \* somebody is signed in
    leaving,        \* handleLogout waits for its request
    nodeTimer,      \* nodeStatusSyncTimer is set
    upsets

page == <<section, session, leaving, nodeTimer>>
vars == <<live, service, listed, status, refresh, handler, busy, page, upsets>>

Status == {"unknown", "running", "stopped", "degraded"}
\* A restart ends like a start.
Buttons == {"start", "stop", "save", "delete"}
\* A handler waits for its request, for loadState, or, after a save, for a refresh.
NoHandler == [key |-> "none"]
Waiting == [key : Buttons, node : Nodes, ok : BOOLEAN, at : {"request", "reload", "settle"}]

Resting == [owner |-> "none"]
Unknown == [n \in Nodes |-> "unknown"]

TypeOK ==
    /\ live \subseteq Nodes /\ listed \subseteq Nodes
    /\ service \in [Nodes -> {"running", "stopped"}]
    /\ status \in [Nodes -> Status]
    /\ refresh \in {Resting} \cup
         [owner : Slots \cup {"nodes", "page"}, todo : (SUBSET Nodes) \ {{}}, map : [Nodes -> Status]]
    /\ handler \in [Slots -> {NoHandler} \cup Waiting]
    /\ {busy, session, leaving, nodeTimer} \subseteq BOOLEAN
    /\ section \in {"nodes", "overview", "elsewhere"}
    /\ upsets \in 0..MaxUpsets

Init ==
    /\ live = Nodes /\ listed = Nodes
    /\ service \in [Nodes -> {"running", "stopped"}]
    /\ status = Unknown /\ refresh = Resting
    /\ handler = [s \in Slots |-> NoHandler] /\ busy = FALSE
    /\ section = "overview" /\ session = TRUE /\ leaving = FALSE /\ nodeTimer = FALSE
    /\ upsets = 0

Upset == upsets < MaxUpsets /\ upsets' = upsets + 1

-----------------------------------------------------------------------------
(* The buttons.                                                            *)

\* The buttons are disabled while busyAction is set, that of the editor only while
\* a save runs.
Press(s, key, n) ==
    /\ session /\ section = "nodes" /\ n \in listed /\ handler[s] = NoHandler
    /\ IF key = "save" THEN \A t \in Slots : handler[t].key # "save" ELSE ~busy
    /\ handler' = [handler EXCEPT ![s] = [key |-> key, node |-> n, ok |-> TRUE, at |-> "request"]]
    /\ busy' = TRUE
    /\ UNCHANGED <<live, service, listed, status, refresh, page, upsets>>

\* The command of a node ends with an exit code, or it is done.  A deleted node was
\* uninstalled before; a saved one is deployed, which restarts it.
Ran(s) ==
    LET h == handler[s] IN
    /\ h.key # "none" /\ h.at = "request" /\ h.node \in live
    /\ \E ok \in BOOLEAN :
          /\ IF ok THEN UNCHANGED upsets ELSE Upset
          /\ handler' = [handler EXCEPT ![s].ok = ok, ![s].at = "reload"]
          /\ service' = [service EXCEPT ![h.node] =
                  IF ~ok THEN @ ELSE IF h.key \in {"stop", "delete"} THEN "stopped" ELSE "running"]
    /\ live' = IF h.key = "delete" THEN live \ {h.node} ELSE live
    /\ UNCHANGED <<listed, status, refresh, busy, page>>

\* The request or loadState throws: withBusyAction passes it on, nothing is written.
Threw(s) ==
    /\ handler[s].key # "none" /\ handler[s].at # "settle"
    /\ IF handler[s].at = "request" /\ handler[s].node \notin live THEN UNCHANGED upsets ELSE Upset
    /\ handler' = [handler EXCEPT ![s] = NoHandler] /\ busy' = FALSE
    /\ UNCHANGED <<live, service, listed, status, refresh, page>>

\* refreshNodeRuntimeStatuses returns at once when one is under way.
MayRefresh_empty == refresh = Resting
MayRefresh == refresh = Resting /\ listed # {}
Begin(owner, base) == refresh' = [owner |-> owner, todo |-> listed, map |-> base]

\* What the handlers write about their own node when loadState is through.
StatusAfter(h) ==
    CASE h.key = "delete" -> "unknown"
      [] h.key = "save" \/ ~h.ok -> "degraded"
      [] h.key = "stop" -> "stopped"
      [] OTHER -> "running"

Reloaded(s) ==
    LET h == handler[s] IN
    /\ h.key # "none" /\ h.at = "reload"
    /\ listed' = live
    /\ status' = [status EXCEPT ![h.node] = StatusAfter(h)]
    /\ busy' = FALSE
    /\ section' = IF h.key \in {"save", "delete"} THEN section ELSE "nodes"
    /\ IF h.key = "save" /\ refresh = Resting /\ live # {}
       THEN /\ refresh' = [owner |-> s, todo |-> live, map |-> Unknown]
            /\ handler' = [handler EXCEPT ![s].at = "settle"]
       ELSE handler' = [handler EXCEPT ![s] = NoHandler] /\ UNCHANGED refresh
    /\ UNCHANGED <<live, service, session, leaving, nodeTimer, upsets>>

-----------------------------------------------------------------------------
(* The polling.                                                            *)

Polled_answered(n) == IF n \in live THEN "running" ELSE "stopped"
Polled(n) == IF n \in live THEN service[n] ELSE "stopped"

\* startNodeStatusSyncTimer looks at the session and the section of the moment.
TimerAfterRefresh_started(owner) == owner = "nodes" \/ nodeTimer
TimerAfterRefresh(owner) == IF owner = "nodes" THEN session /\ section = "nodes" ELSE nodeTimer

\* One node after the other; a failed request reads as stopped.  The last answer
\* releases the lock, and whoever waits for the refresh goes on.
Poll ==
    /\ refresh # Resting
    /\ \E n \in refresh.todo, lost \in BOOLEAN :
          LET map == [refresh.map EXCEPT ![n] = IF lost THEN "stopped" ELSE Polled(n)] IN
          /\ IF lost THEN Upset ELSE UNCHANGED upsets
          /\ IF refresh.todo # {n}
             THEN /\ refresh' = [refresh EXCEPT !.todo = @ \ {n}, !.map = map]
                  /\ UNCHANGED <<status, handler, nodeTimer>>
             ELSE /\ refresh' = Resting /\ status' = map
                  /\ handler' = [s \in Slots |-> IF s = refresh.owner THEN NoHandler ELSE handler[s]]
                  /\ nodeTimer' = TimerAfterRefresh(refresh.owner)
    /\ UNCHANGED <<live, service, listed, busy, section, session, leaving>>

\* refreshTrafficNodeRuntimeStatuses, behind whatever loads the traffic history
refreshTrafficNodeRuntimeStatuses ==
    /\ session /\ MayRefresh /\ Begin("page", status)
    /\ UNCHANGED <<live, service, listed, status, handler, busy, page, upsets>>

\* Another page stops the timer; the nodes start it once their statuses are there.
setSection(to) ==
    /\ session /\ section' = to
    /\ IF to # "elsewhere" /\ MayRefresh
       THEN Begin(IF to = "nodes" THEN to ELSE "page", Unknown) /\ nodeTimer' = FALSE
       ELSE UNCHANGED refresh /\ nodeTimer' = (to = "nodes")
    /\ UNCHANGED <<live, service, listed, status, handler, busy, session, leaving, upsets>>

syncNodeStatusesInBackground ==
    /\ nodeTimer /\ session /\ section = "nodes" /\ ~busy
    /\ MayRefresh /\ Begin("page", Unknown)
    /\ UNCHANGED <<live, service, listed, status, handler, busy, page, upsets>>

\* The timer is stopped before the request.  Handlers and polls that wait go on meanwhile
\* and behind the sign-out.
handleLogout ==
    /\ session /\ ~leaving /\ leaving' = TRUE /\ nodeTimer' = FALSE
    /\ UNCHANGED <<live, service, listed, status, refresh, handler, busy, section, session, upsets>>

LoggedOut ==
    /\ leaving /\ leaving' = FALSE /\ session' = FALSE
    /\ listed' = {} /\ status' = Unknown /\ section' = "overview"
    /\ UNCHANGED <<live, service, refresh, handler, busy, nodeTimer, upsets>>

LogoutFails ==
    /\ leaving /\ Upset /\ leaving' = FALSE
    /\ UNCHANGED <<live, service, listed, status, refresh, handler, busy, section, session, nodeTimer>>

handleLogin ==
    /\ ~session /\ session' = TRUE /\ listed' = live
    /\ UNCHANGED <<live, service, status, refresh, handler, busy, section, leaving, nodeTimer, upsets>>

\* A service stops or comes back without the console, or a node is deleted elsewhere.
NodeChanges(n) ==
    /\ n \in live /\ Upset
    /\ \/ \E to \in {"running", "stopped"} : service' = [service EXCEPT ![n] = to] /\ UNCHANGED live
       \/ live' = live \ {n} /\ UNCHANGED service
    /\ UNCHANGED <<listed, status, refresh, handler, busy, page>>

-----------------------------------------------------------------------------
Next ==
    \/ \E s \in Slots :
          Ran(s) \/ Threw(s) \/ Reloaded(s) \/ \E key \in Buttons, n \in Nodes : Press(s, key, n)
    \/ Poll \/ refreshTrafficNodeRuntimeStatuses \/ syncNodeStatusesInBackground
    \/ \E to \in {"nodes", "overview", "elsewhere"} : setSection(to)
    \/ handleLogout \/ LoggedOut \/ LogoutFails \/ handleLogin
    \/ \E n \in Nodes : NodeChanges(n)

Spec == Init /\ [][Next]_vars

\* A fetch settles and an interval fires; the operator need not do anything.
Fairness ==
    /\ WF_vars(Poll) /\ WF_vars(syncNodeStatusesInBackground)
    /\ \A s \in Slots : WF_vars(Ran(s) \/ Threw(s) \/ Reloaded(s))

-----------------------------------------------------------------------------
(* Properties.                                                             *)

\* The timer of the node page is started behind an await during which the operator may
\* leave the page or sign out: it runs beside no other page but the overview a sign-out ends
\* with (where the timer of a refresh that ends during the request is left).
NodeTimerConfined == nodeTimer => section \in {"nodes", "overview"}

\* While the node page stays open and no button is pressed, the statuses of the list
\* become those of the nodes, whatever was polled, guessed or overwritten before.
StatusesSettle ==
    <>[](nodeTimer /\ session /\ section = "nodes" /\ ~busy)
        => <>[](\A n \in listed \cap live : status[n] = service[n])

=============================================================================
