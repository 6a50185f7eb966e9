---------------------------- MODULE TaskDelivery ----------------------------
(***************************************************************************)
(* What the panel promises about a task it queues for a node: the agent     *)
(* runs it at most once, runs what it runs in the order of submission, and  *)
(* the result the panel records is the one the run produced.  A task may    *)
(* also never run: nothing here requires delivery.                          *)
(* AgentTasks implements this module.                                       *)
(***************************************************************************)
EXTENDS Naturals

CONSTANT MaxTasks       \* how many tasks are ever submitted

Tasks == 1..MaxTasks

Outcomes == {"done", "error"}

VARIABLES
    phase,      \* how far each task got
    outcome,    \* what its run produced
    recorded    \* what the panel knows of that

vars == <<phase, outcome, recorded>>

TypeOK ==
    /\ phase \in [Tasks -> {"none", "queued", "taken", "executed"}]
    /\ outcome \in [Tasks -> Outcomes \cup {"none"}]
    /\ recorded \in [Tasks -> Outcomes \cup {"none"}]

Init ==
    /\ phase = [t \in Tasks |-> "none"]
    /\ outcome = [t \in Tasks |-> "none"]
    /\ recorded = [t \in Tasks |-> "none"]

\* Ids are handed out in order.
Submit(t) ==
    /\ phase[t] = "none"
    /\ \A u \in Tasks : u < t => phase[u] # "none"
    /\ phase' = [phase EXCEPT ![t] = "queued"]
    /\ UNCHANGED <<outcome, recorded>>

\* A taken task is no longer on offer, whether it reached the node or not.
Take(t) ==
    /\ phase[t] = "queued"
    /\ phase' = [phase EXCEPT ![t] = "taken"]
    /\ UNCHANGED <<outcome, recorded>>

Execute(t, result) ==
    /\ phase[t] = "taken"
    /\ \A u \in Tasks : u > t => phase[u] # "executed"
    /\ phase' = [phase EXCEPT ![t] = "executed"]
    /\ outcome' = [outcome EXCEPT ![t] = result]
    /\ UNCHANGED recorded

Record(t) ==
    /\ phase[t] = "executed"
    /\ recorded' = [recorded EXCEPT ![t] = outcome[t]]
    /\ UNCHANGED <<phase, outcome>>

Next ==
    \E t \in Tasks :
        \/ Submit(t)
        \/ Take(t)
        \/ \E result \in Outcomes : Execute(t, result)
        \/ Record(t)

Spec == Init /\ [][Next]_vars
=============================================================================
