------------------------------ MODULE CpuDialog ------------------------------
(***************************************************************************)
(* The dialog for the CPU protection of a node: it reads the configuration   *)
(* once, saves it, and asks every three seconds whether the agent has        *)
(* confirmed it.  A check that was sent before a save may be answered after  *)
(* it.  Another administrator may save as well.                             *)
(***************************************************************************)
EXTENDS Naturals

CONSTANTS
    Configs,        \* configurations an operator enters
    Invalid,        \* those with low >= high or min > max
    Default,        \* what the panel answers when nothing was configured
    None,
    MaxSaves        \* bound: saves and failures

\* What the constants are.
DialogAssumption ==
    /\ Invalid \subseteq Configs /\ Default \in Configs \ Invalid /\ None \notin Configs
    /\ MaxSaves \in Nat

VARIABLES
    stored,         \* panel: the configuration of the node, None if there is none
    reported,       \* panel: what the agent says it applies, None while it is offline
    form,
    baseline,       \* what the panel was last seen to hold, None at first
    configured,
    applied,
    loading,
    check,          \* the check under way: "none", "sent" or what the panel answered
    initial,        \* that check is the first one
    save,           \* the same for a save, with the configuration that was sent
    disposed,
    saves

view == <<form, baseline, configured, applied, loading>>
vars == <<stored, reported, view, check, initial, save, disposed, saves>>

Answers == [config : Configs, configured : BOOLEAN, applied : BOOLEAN]
Sent == {"none", "sent"}

TypeOK ==
    /\ stored \in (Configs \ Invalid) \cup {None} /\ reported \in Configs \cup {None}
    /\ form \in Configs /\ baseline \in Configs \cup {None}
    /\ {configured, applied, loading, initial, disposed} \subseteq BOOLEAN
    /\ check \in {[at |-> at] : at \in Sent} \cup [at : {"answered"}, state : Answers]
    /\ save \in {[at |-> "none"]} \cup [at : {"sent"}, config : Configs]
                \cup [at : {"answered"}, state : Answers]
    /\ saves \in 0..MaxSaves

Quiet == [at |-> "none"]

Init ==
    /\ stored \in (Configs \ Invalid) \cup {None}
    /\ reported \in {Default, stored, None}
    /\ form = Default /\ baseline = None
    /\ configured = FALSE /\ applied = FALSE /\ loading = TRUE
    /\ check = [at |-> "sent"] /\ initial = TRUE /\ save = Quiet
    /\ disposed = FALSE /\ saves = 0

Counted == saves < MaxSaves /\ saves' = saves + 1

\* handleCPUProtection: the configuration, and whether an agent that is online reports it
State(config) ==
    [config |-> IF config = None THEN Default ELSE config,
     configured |-> config # None,
     applied |-> config # None /\ reported = config]

Dirty == form # baseline

-----------------------------------------------------------------------------
PanelReads ==
    /\ check.at = "sent"
    /\ check' = [at |-> "answered", state |-> State(stored)]
    /\ UNCHANGED <<stored, reported, view, initial, save, disposed, saves>>

\* Only the first check fills the form.
FormAfterCheck(config) == IF initial THEN config ELSE form

Checked ==
    /\ check.at = "answered" /\ check' = Quiet /\ initial' = FALSE
    /\ IF disposed THEN UNCHANGED view
       ELSE /\ form' = FormAfterCheck(check.state.config)
            /\ baseline' = IF initial THEN check.state.config ELSE baseline
            /\ configured' = check.state.configured /\ applied' = check.state.applied
            /\ loading' = FALSE
    /\ UNCHANGED <<stored, reported, save, disposed, saves>>

\* Without a baseline the form counts as changed.
CheckFails ==
    /\ check.at # "none" /\ Counted
    /\ check' = Quiet /\ initial' = FALSE
    /\ loading' = (loading /\ disposed)
    /\ UNCHANGED <<stored, reported, form, baseline, configured, applied, save, disposed>>

\* The interval runs from the end of the first check.
MayCheck_clean == ~loading /\ ~disposed /\ check = Quiet /\ save = Quiet /\ ~applied
MayCheck == ~loading /\ ~disposed /\ check = Quiet /\ save = Quiet

Tick ==
    /\ MayCheck
    /\ check' = [at |-> "sent"]
    /\ UNCHANGED <<stored, reported, view, initial, save, disposed, saves>>

Edit ==
    /\ ~loading /\ save = Quiet /\ ~disposed
    /\ form' \in Configs \ {form}
    /\ UNCHANGED <<stored, reported, baseline, configured, applied, loading, check, initial,
                   save, disposed, saves>>

Save ==
    /\ ~loading /\ save = Quiet /\ Dirty /\ ~disposed /\ Counted
    /\ form \notin Invalid
    /\ save' = [at |-> "sent", config |-> form]
    /\ UNCHANGED <<stored, reported, view, check, initial, disposed>>

PanelSaves ==
    /\ save.at = "sent"
    /\ stored' = save.config
    /\ save' = [at |-> "answered", state |-> State(save.config)]
    /\ UNCHANGED <<reported, view, check, initial, disposed, saves>>

Saved ==
    /\ save.at = "answered" /\ save' = Quiet
    /\ IF disposed THEN UNCHANGED view
       ELSE /\ form' = save.state.config /\ baseline' = save.state.config
            /\ configured' = save.state.configured /\ applied' = save.state.applied
            /\ UNCHANGED loading
    /\ UNCHANGED <<stored, reported, check, initial, disposed, saves>>

\* The request, or only its answer, is lost.
SaveFails ==
    /\ save.at # "none" /\ Counted /\ save' = Quiet
    /\ UNCHANGED <<stored, reported, view, check, initial, disposed>>

OtherSaves ==
    /\ Counted /\ stored' \in Configs \ Invalid
    /\ UNCHANGED <<reported, view, check, initial, save, disposed>>

\* The agent fetches the configuration, applies it and reports it, or is offline.
AgentReports ==
    /\ reported # stored /\ stored # None /\ reported' = stored
    /\ UNCHANGED <<stored, view, check, initial, save, disposed, saves>>

AgentOffline ==
    /\ reported # None /\ Counted /\ reported' = None
    /\ UNCHANGED <<stored, view, check, initial, save, disposed>>

\* The close button is disabled while a save runs.
Close ==
    /\ ~disposed /\ save = Quiet /\ disposed' = TRUE
    /\ UNCHANGED <<stored, reported, view, check, initial, save, saves>>

Next ==
    \/ PanelReads \/ Checked \/ CheckFails \/ Tick
    \/ Edit \/ Save \/ PanelSaves \/ Saved \/ SaveFails \/ OtherSaves
    \/ AgentReports \/ AgentOffline \/ Close

Spec == Init /\ [][Next]_vars

\* Requests settle and the interval fires; the agent need not report.
Fairness ==
    /\ WF_vars(PanelReads) /\ WF_vars(Checked) /\ WF_vars(Tick)
    /\ WF_vars(PanelSaves) /\ WF_vars(Saved)

-----------------------------------------------------------------------------
(* Properties.                                                             *)

\* A dialog that stays open ends up saying of the agent what the panel knows of it,
\* although answers overtake each other and other administrators save.
ConfirmationSettles ==
    <>[](~disposed) => <>[](applied = (stored # None /\ reported = stored))

=============================================================================
