--------------------------- MODULE MCConsoleViews ---------------------------
(***************************************************************************)
(* The parts of the console that poll: the statuses of the node page, the    *)
(* monitor page and the dialog of the CPU protection.  They share no state,   *)
(* so a run checks them side by side: view says which of them a behaviour is   *)
(* of, and the other two stay as they were when the page was opened.          *)
(***************************************************************************)
EXTENDS Naturals

CONSTANTS Nodes, Slots, MaxUpsets, Ranges, Configs, Invalid, Default, MaxSaves, None

VARIABLES
    view,
    live, service, listed, status, refresh, handler, busy, section, session, leaving, nodeTimer,
    upsets,
    listing, nodeId, range, data, error, loading, controller, overtaken, hidden, disposed,
    stored, reported, form, baseline, configured, applied, reading, check, initial, save, closed,
    saves

Statuses == INSTANCE NodeStatuses
Monitor == INSTANCE MonitorView
Dialog == INSTANCE CpuDialog WITH loading <- reading, disposed <- closed

ASSUME ViewsAssumption ==
    Statuses!StatusesAssumption /\ Monitor!MonitorAssumption /\ Dialog!DialogAssumption

statusesVars == <<live, service, listed, status, refresh, handler, busy, section, session, leaving,
                  nodeTimer, upsets>>
monitorVars == <<listing, nodeId, range, data, error, loading, controller, overtaken, hidden,
                 disposed>>
dialogVars == <<stored, reported, form, baseline, configured, applied, reading, check, initial,
                save, closed, saves>>
vars == <<view, statusesVars, monitorVars, dialogVars>>

\* Only the view a behaviour is of starts in all its ways.
Init ==
    /\ view \in {"statuses", "monitor", "dialog"}
    /\ Statuses!Init /\ Monitor!Init /\ Dialog!Init
    /\ view # "statuses" => service = [n \in Nodes |-> "running"]
    /\ view # "monitor" => range = CHOOSE r \in Ranges : TRUE
    /\ view # "dialog" => stored = None /\ reported = None

Next ==
    \/ view = "statuses" /\ Statuses!Next /\ UNCHANGED <<view, monitorVars, dialogVars>>
    \/ view = "monitor" /\ Monitor!Next /\ UNCHANGED <<view, statusesVars, dialogVars>>
    \/ view = "dialog" /\ Dialog!Next /\ UNCHANGED <<view, statusesVars, monitorVars>>

\* Each view is as fair as its module says, in the behaviours that are of it.
StatusesFairness ==
    /\ WF_statusesVars(view = "statuses" /\ Statuses!Poll)
    /\ WF_statusesVars(view = "statuses" /\ Statuses!syncNodeStatusesInBackground)
    /\ \A s \in Slots :
          WF_statusesVars(view = "statuses" /\ (Statuses!Ran(s) \/ Statuses!Threw(s) \/ Statuses!Reloaded(s)))
MonitorFairness ==
    /\ WF_monitorVars(view = "monitor" /\ Monitor!refresh)
    /\ WF_monitorVars(view = "monitor" /\ (Monitor!Answered \/ Monitor!Failed))
DialogFairness ==
    /\ WF_dialogVars(view = "dialog" /\ Dialog!PanelReads) /\ WF_dialogVars(view = "dialog" /\ Dialog!Checked)
    /\ WF_dialogVars(view = "dialog" /\ Dialog!Tick) /\ WF_dialogVars(view = "dialog" /\ Dialog!PanelSaves)
    /\ WF_dialogVars(view = "dialog" /\ Dialog!Saved)

Spec == Init /\ [][Next]_vars /\ StatusesFairness /\ MonitorFairness /\ DialogFairness

\* Every variable of the three views has its type.
TypeOK == Statuses!TypeOK /\ Monitor!TypeOK /\ Dialog!TypeOK

\* The polling timer of the node page runs beside that page or the overview only.
NodeTimerConfined == Statuses!NodeTimerConfined

\* The statuses of an open node page become those of the nodes.
StatusesSettle == Statuses!StatusesSettle

\* The monitor data that is shown is of the node and the range that are selected.
ShownIsSelected == Monitor!ShownIsSelected

\* The poll of an open and visible monitor page goes on forever.
PollingNeverStuck == Monitor!PollingNeverStuck

\* The CPU dialog ends up saying of the agent what the panel knows of it.
ConfirmationSettles == Dialog!ConfirmationSettles

=============================================================================
