----------------------------- MODULE MonitorView -----------------------------
(***************************************************************************)
(* The monitor page of one node: a selection of node and range, a poll every *)
(* five seconds, and requests that are given up after eight.  A request that *)
(* was aborted or overtaken still ends some time; only the one whose revision*)
(* is the latest may write.                                                 *)
(***************************************************************************)
EXTENDS FiniteSets

CONSTANTS Nodes, Ranges, None

\* What the constants are.
MonitorAssumption ==
    /\ IsFiniteSet(Nodes) /\ IsFiniteSet(Ranges) /\ Ranges # {}
    /\ None \notin Nodes \cup (Nodes \X Ranges)

VARIABLES
    listing,        \* fetchMonitorNodes: "waiting", "there" or "failed"
    nodeId,
    range,
    data,           \* whose monitor data is shown, and for which range
    error,          \* the message about a failed refresh is shown
    loading,
    controller,     \* the latest request, until it has ended
    overtaken,      \* requests of earlier revisions that have not ended
    hidden,         \* document.hidden
    disposed

vars == <<listing, nodeId, range, data, error, loading, controller, overtaken, hidden, disposed>>

Requests == Nodes \X Ranges

TypeOK ==
    /\ listing \in {"waiting", "there", "failed"}
    /\ nodeId \in Nodes \cup {None} /\ range \in Ranges
    /\ data \in Requests \cup {None} /\ controller \in Requests \cup {None}
    /\ overtaken \subseteq Requests
    /\ {error, loading, hidden, disposed} \subseteq BOOLEAN

Init ==
    /\ listing = "waiting" /\ nodeId = None /\ range \in Ranges
    /\ data = None /\ error = FALSE /\ loading = FALSE
    /\ controller = None /\ overtaken = {}
    /\ hidden = FALSE /\ disposed = FALSE

Overtake(request) == IF request = None THEN overtaken ELSE overtaken \cup {request}

\* refresh(true), run by the watch on the selection
Reset(id, chosen) ==
    IF id = None \/ hidden
    THEN UNCHANGED <<data, error, loading, controller, overtaken>>
    ELSE /\ controller' = <<id, chosen>> /\ overtaken' = Overtake(controller)
         /\ data' = None /\ error' = FALSE /\ loading' = TRUE

\* refresh(), run by the interval and when the tab becomes visible
Refreshes_healthy == ~disposed /\ nodeId # None /\ controller = None /\ ~error
Refreshes == ~disposed /\ nodeId # None /\ controller = None

refresh ==
    /\ Refreshes /\ ~hidden
    /\ controller' = <<nodeId, range>>
    /\ UNCHANGED <<listing, nodeId, range, data, error, loading, overtaken, hidden, disposed>>

\* onMounted: the node the page was opened for, or the first one
NodesListed ==
    /\ listing = "waiting" /\ ~disposed /\ listing' = "there"
    /\ \E id \in Nodes \cup {None} : nodeId' = id /\ Reset(id, range)
    /\ UNCHANGED <<range, hidden, disposed>>

NodesNotListed ==
    /\ listing = "waiting" /\ ~disposed
    /\ listing' = "failed" /\ error' = TRUE
    /\ UNCHANGED <<nodeId, range, data, loading, controller, overtaken, hidden, disposed>>

\* The selection is changed; the select box needs the list, the ranges do not.
Select ==
    /\ ~hidden /\ ~disposed
    /\ \/ \E id \in Nodes \ {nodeId} : nodeId # None /\ nodeId' = id /\ UNCHANGED range
       \/ \E chosen \in Ranges \ {range} : range' = chosen /\ UNCHANGED nodeId
    /\ Reset(nodeId', range')
    /\ UNCHANGED <<listing, hidden, disposed>>

\* The latest request is answered, or it fails, the timeout of eight seconds included.
Answered ==
    /\ controller # None /\ ~disposed
    /\ data' = controller /\ error' = FALSE
    /\ loading' = FALSE /\ controller' = None
    /\ UNCHANGED <<listing, nodeId, range, overtaken, hidden, disposed>>

Failed ==
    /\ controller # None /\ ~disposed
    /\ error' = TRUE /\ loading' = FALSE
    /\ controller' = None
    /\ UNCHANGED <<listing, nodeId, range, data, overtaken, hidden, disposed>>

\* An earlier request ends.
Written_any(request) == IF disposed THEN data ELSE request
Written(request) == data

Late(request) ==
    /\ request \in overtaken /\ overtaken' = overtaken \ {request}
    /\ data' = Written(request)
    /\ UNCHANGED <<listing, nodeId, range, error, loading, controller, hidden, disposed>>

\* The interval goes on when the tab is hidden, and does nothing.
Hide ==
    /\ ~disposed /\ hidden' = ~hidden
    /\ IF hidden /\ Refreshes THEN controller' = <<nodeId, range>> ELSE UNCHANGED controller
    /\ UNCHANGED <<listing, nodeId, range, data, error, loading, overtaken, disposed>>

onBeforeUnmount ==
    /\ ~disposed /\ disposed' = TRUE
    /\ overtaken' = Overtake(controller) /\ controller' = None
    /\ UNCHANGED <<listing, nodeId, range, data, error, loading, hidden>>

Next ==
    \/ NodesListed \/ NodesNotListed \/ Select \/ refresh \/ Answered \/ Failed
    \/ Hide \/ onBeforeUnmount
    \/ \E request \in Requests : Late(request)

Spec == Init /\ [][Next]_vars

\* The interval fires, and the timeout ends what the panel does not answer.
Fairness == WF_vars(refresh) /\ WF_vars(Answered \/ Failed)

-----------------------------------------------------------------------------
(* Properties.                                                             *)

\* What is shown belongs to the node and the range that are selected, however late
\* the answers for an earlier selection come.
ShownIsSelected == data # None => data = <<nodeId, range>>

\* While the page is open on a node and visible, requests keep starting and ending:
\* no failure and no change of the selection leaves the poll blocked.
PollingNeverStuck ==
    <>[](nodeId # None /\ ~hidden /\ ~disposed)
        => []<>(controller = None) /\ []<>(controller # None)

=============================================================================
