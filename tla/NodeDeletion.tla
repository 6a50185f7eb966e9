---------------------------- MODULE NodeDeletion ----------------------------
(***************************************************************************)
(* How a node removed in the panel goes out of service.                    *)
(*                                                                         *)
(* deleteNode only marks the row.  The agent learns of it from the 410 the  *)
(* panel answers its next request with; the panel then replaces the agent's *)
(* secret, so that later requests are refused (401).  The loop of the agent *)
(* reacts to a 410 by uninstalling itself: it forgets its users, removes    *)
(* their file, starts a detached script that stops the node's service, and  *)
(* exits.  The uploader of monitoring samples uses the same credentials but *)
(* takes a 410 for any other failure.  Until the script ran, the heartbeat  *)
(* guard is what keeps a node from admitting clients.                       *)
(***************************************************************************)
EXTENDS Integers

CONSTANTS
    Channels,       \* the agent's request streams, among AllChannels
    Grace,          \* heartbeatFailureGraceMultiplier, in report intervals
    ScriptSurvives, \* whether systemd spares the detached script when the
                    \* agent's service exits (BOOLEAN: either may happen)
    MaxLosses,      \* bound: requests or replies lost
    MaxCrashes      \* bound: crashes of the agent

\* control: register, tasks/pull and tasks/complete; heartbeat and control are
\* issued by the agent's single loop, metrics by the monitor's uploader.
AllChannels == {"heartbeat", "control", "metrics"}
Loop == {"heartbeat", "control"}

ASSUME DeletionAssumption ==
    /\ Channels \subseteq AllChannels
    /\ Grace \in Nat
    /\ ScriptSurvives \subseteq BOOLEAN
    /\ MaxLosses \in Nat
    /\ MaxCrashes \in Nat

VARIABLES
    deleted,        \* server_nodes.deleted_at is set
    secretValid,    \* node_agents.shared_secret is still the agent's
    request,        \* the request under way on each channel
    proc,           \* the agent's process
    uninstall,      \* how far scheduleSelfUninstall got
    users,          \* localAuthUsers holds someone
    stateFile,      \* the file behind it does
    guard,          \* heartbeatGuardActive
    silence,        \* intervals since lastHeartbeatSuccess, up to Grace
    script,         \* the detached script
    hysteria,       \* the node's service
    losses, crashes

vars == <<deleted, secretValid, request, proc, uninstall, users, stateFile,
          guard, silence, script, hysteria, losses, crashes>>
panel == <<deleted, secretValid>>
admission == <<users, stateFile, guard, silence>>
bounds == <<losses, crashes>>

Idle == [c \in Channels |-> "none"]

TypeOK ==
    /\ deleted \in BOOLEAN
    /\ secretValid \in BOOLEAN
    /\ request \in [Channels -> {"none", "sent", "revoking", "ok", "gone",
                                 "refused", "failed"}]
    /\ proc \in {"up", "exited", "removed"}
    /\ uninstall \in {"no", "begun", "forgotten"}
    /\ users \in BOOLEAN
    /\ stateFile \in BOOLEAN
    /\ guard \in BOOLEAN
    /\ silence \in 0..Grace
    /\ script \in {"none", "launched", "killed", "stopped", "done"}
    /\ hysteria \in {"running", "stopped"}
    /\ losses \in 0..MaxLosses
    /\ crashes \in 0..MaxCrashes

\* A node in service.
Init ==
    /\ deleted = FALSE
    /\ secretValid = TRUE
    /\ request = Idle
    /\ proc = "up"
    /\ uninstall = "no"
    /\ users = TRUE
    /\ stateFile = TRUE
    /\ guard = FALSE
    /\ silence = 0
    /\ script = "none"
    /\ hysteria = "running"
    /\ losses = 0
    /\ crashes = 0

-----------------------------------------------------------------------------
(* The panel.                                                              *)

DeleteNode ==
    /\ deleted' = TRUE
    /\ UNCHANGED <<secretValid, request, proc, uninstall, admission, script,
                   hysteria, bounds>>

\* authenticateRequest: the signature first, then the deletion mark.
Verdict_status == IF ~secretValid THEN "refused"
                  ELSE IF deleted THEN "notFound" ELSE "ok"
Verdict_eager == IF ~secretValid THEN "refused" ELSE "revoking"
Verdict_silent == IF ~secretValid \/ deleted THEN "refused" ELSE "ok"
Verdict == IF ~secretValid THEN "refused"
           ELSE IF deleted THEN "revoking" ELSE "ok"

\* The prologue of every agent handler; a database error answers 401 too.
Authenticate(c) ==
    /\ request[c] = "sent"
    /\ request' = [request EXCEPT ![c] = Verdict]
    /\ UNCHANGED <<panel, proc, uninstall, admission, script, hysteria, bounds>>

AuthenticateFails(c) ==
    /\ losses < MaxLosses
    /\ request[c] = "sent"
    /\ request' = [request EXCEPT ![c] = "refused"]
    /\ losses' = losses + 1
    /\ UNCHANGED <<panel, proc, uninstall, admission, script, hysteria, crashes>>

\* writeAgentNodeDeleted: the 410, then revokeAgentSecret, whose failure is
\* only logged.
RevokeAgentSecret(c) ==
    /\ request[c] = "revoking"
    /\ request' = [request EXCEPT ![c] = "gone"]
    /\ secretValid' = FALSE
    /\ UNCHANGED <<deleted, proc, uninstall, admission, script, hysteria, bounds>>

RevocationFails(c) ==
    /\ losses < MaxLosses
    /\ request[c] = "revoking"
    /\ request' = [request EXCEPT ![c] = "gone"]
    /\ losses' = losses + 1
    /\ UNCHANGED <<panel, proc, uninstall, admission, script, hysteria, crashes>>

-----------------------------------------------------------------------------
(* The agent's requests.                                                   *)

InLoop == proc = "up" /\ uninstall = "no"

\* The loop has one request under way at a time, the uploader its own.
Send(c) ==
    /\ InLoop
    /\ request[c] = "none"
    /\ c \in Loop => \A d \in Channels \cap Loop : request[d] = "none"
    /\ request' = [request EXCEPT ![c] = "sent"]
    /\ UNCHANGED <<panel, proc, uninstall, admission, script, hysteria, bounds>>

\* The request or its reply is lost, or the client's timeout strikes first.
Lose(c) ==
    /\ losses < MaxLosses
    /\ request[c] \in {"sent", "ok", "gone", "refused"}
    /\ request' = [request EXCEPT ![c] = "failed"]
    /\ losses' = losses + 1
    /\ UNCHANGED <<panel, proc, uninstall, admission, script, hysteria, crashes>>

Replied(c, answers) ==
    /\ InLoop
    /\ request[c] \in answers
    /\ request' = [request EXCEPT ![c] = "none"]

NoteHeartbeatSuccess ==
    /\ Replied("heartbeat", {"ok"})
    /\ silence' = 0
    /\ guard' = FALSE
    /\ UNCHANGED <<panel, proc, uninstall, users, stateFile, script, hysteria,
                   bounds>>

GuardAfterFailure_never == guard
GuardAfterFailure == guard \/ silence >= Grace

HandleHeartbeatFailure ==
    /\ Replied("heartbeat", {"refused", "failed"})
    /\ guard' = GuardAfterFailure
    /\ UNCHANGED <<panel, proc, uninstall, users, stateFile, silence, script,
                   hysteria, bounds>>

\* A pull may bring a new set of users (opcodes 10 and 13): syncLocalAuth
\* writes the file, then replaces the set in memory.
ControlReply ==
    /\ Replied("control", {"ok", "refused", "failed"})
    /\ \/ UNCHANGED <<users, stateFile>>
       \/ /\ request["control"] = "ok"
          /\ \E present \in BOOLEAN : users' = present /\ stateFile' = present
    /\ UNCHANGED <<panel, proc, uninstall, guard, silence, script, hysteria,
                   bounds>>

\* uploadMetrics: whatever is not a 200 is retried with the next sample.
MetricsReply ==
    /\ Replied("metrics", {"ok", "gone", "refused", "failed"})
    /\ UNCHANGED <<panel, proc, uninstall, admission, script, hysteria, bounds>>

\* A report interval without a heartbeat that succeeded.
IntervalPasses ==
    /\ proc = "up"
    /\ silence < Grace
    /\ silence' = silence + 1
    /\ UNCHANGED <<panel, request, proc, uninstall, users, stateFile, guard,
                   script, hysteria, bounds>>

-----------------------------------------------------------------------------
(* scheduleSelfUninstall, whose steps a crash may separate.                *)

Gone_any == {"gone", "refused"}
Gone == {"gone"}

ScheduleSelfUninstall(c) ==
    /\ c \in Loop
    /\ Replied(c, Gone)
    /\ uninstall' = "begun"
    /\ guard' = TRUE
    /\ users' = FALSE
    /\ UNCHANGED <<panel, proc, stateFile, silence, script, hysteria, bounds>>

FileAfterUninstall_kept == stateFile
FileAfterUninstall == FALSE

RemoveStateFile ==
    /\ proc = "up"
    /\ uninstall = "begun"
    /\ uninstall' = "forgotten"
    /\ stateFile' = FileAfterUninstall
    /\ UNCHANGED <<panel, request, proc, users, guard, silence, script,
                   hysteria, bounds>>

\* The script is started, run returns and the process ends.
LaunchScript ==
    /\ proc = "up"
    /\ uninstall = "forgotten"
    /\ \E spared \in ScriptSurvives :
        script' = IF script \in {"stopped", "done"} THEN script
                  ELSE IF spared \/ script = "launched" THEN "launched" ELSE "killed"
    /\ proc' = "exited"
    /\ request' = Idle
    /\ UNCHANGED <<panel, uninstall, admission, hysteria, bounds>>

ScriptStopsService ==
    /\ script = "launched"
    /\ script' = "stopped"
    /\ hysteria' = "stopped"
    /\ stateFile' = FALSE
    /\ UNCHANGED <<panel, request, proc, uninstall, users, guard, silence, bounds>>

ScriptRemovesAgent ==
    /\ script = "stopped"
    /\ script' = "done"
    /\ proc' = "removed"
    /\ request' = Idle
    /\ UNCHANGED <<panel, uninstall, admission, hysteria, bounds>>

-----------------------------------------------------------------------------
(* The agent's process: killed at any point, restarted by systemd.          *)

AgentCrash ==
    /\ crashes < MaxCrashes
    /\ proc = "up"
    /\ proc' = "exited"
    /\ request' = Idle
    /\ crashes' = crashes + 1
    /\ UNCHANGED <<panel, uninstall, admission, script, hysteria, losses>>

\* Restart=always; main reads the users back and run takes the start for the
\* last successful heartbeat.
AgentStart ==
    /\ proc = "exited"
    /\ proc' = "up"
    /\ uninstall' = "no"
    /\ users' = stateFile
    /\ guard' = FALSE
    /\ silence' = 0
    /\ UNCHANGED <<panel, request, stateFile, script, hysteria, bounds>>

-----------------------------------------------------------------------------
Next ==
    \/ DeleteNode
    \/ \E c \in Channels :
        \/ Authenticate(c)
        \/ AuthenticateFails(c)
        \/ RevokeAgentSecret(c)
        \/ RevocationFails(c)
        \/ Send(c)
        \/ Lose(c)
    \/ "heartbeat" \in Channels /\ (NoteHeartbeatSuccess \/ HandleHeartbeatFailure)
    \/ "control" \in Channels /\ ControlReply
    \/ "metrics" \in Channels /\ MetricsReply
    \/ \E c \in Channels : ScheduleSelfUninstall(c)
    \/ IntervalPasses
    \/ RemoveStateFile
    \/ LaunchScript
    \/ ScriptStopsService
    \/ ScriptRemovesAgent
    \/ AgentCrash
    \/ AgentStart

Spec == Init /\ [][Next]_vars

(***************************************************************************)
(* Fairness: the tickers of the agent fire (a heartbeat is sent again and   *)
(* again even if the other ticker competes for the loop), the panel answers *)
(* what it received, time passes, systemd restarts the agent and a script   *)
(* left alone runs to its end.  Nothing is assumed of the user or of         *)
(* failures, whose number the constants bound.                              *)
(***************************************************************************)
FairSpec ==
    /\ Spec
    /\ \A c \in Channels :
        /\ SF_vars(Send(c))
        /\ WF_vars(Authenticate(c))
        /\ WF_vars(RevokeAgentSecret(c))
        /\ WF_vars(ScheduleSelfUninstall(c))
    /\ WF_vars("heartbeat" \in Channels
               /\ (NoteHeartbeatSuccess \/ HandleHeartbeatFailure))
    /\ WF_vars("control" \in Channels /\ ControlReply)
    /\ WF_vars("metrics" \in Channels /\ MetricsReply)
    /\ WF_vars(IntervalPasses)
    /\ WF_vars(RemoveStateFile)
    /\ WF_vars(LaunchScript)
    /\ WF_vars(ScriptStopsService)
    /\ WF_vars(ScriptRemovesAgent)
    /\ WF_vars(AgentStart)

-----------------------------------------------------------------------------
(* Properties.                                                             *)

\* authorizeLocalCredential admits someone; without the agent's local server
\* hysteria cannot authenticate anyone.
Accepts == proc = "up" /\ users /\ ~guard

\* Whatever fails or gets lost, an agent never uninstalls itself, and is never
\* cut off from the panel, unless its node was deleted.
LiveNodeUntouched ==
    ~deleted => /\ secretValid
                /\ uninstall = "no"
                /\ script = "none"
                /\ hysteria = "running"

\* From the moment the uninstall script exists nobody is admitted any more,
\* not even by an agent that systemd restarts because the script was killed.
UninstalledServesNobody == script # "none" => ~Accepts /\ ~stateFile

\* Whichever channel is told, whatever is lost and wherever the agent crashes,
\* a deleted node ends up admitting nobody, and stays so.
DeletedServesNobody == deleted ~> []~Accepts

\* Unless something fails or the uploader is told first, the loop learns of the
\* deletion and the script stops the service, or systemd killed the script.
LoopTakesNodeDown ==
    deleted /\ secretValid ~>
        \/ hysteria = "stopped"
        \/ script = "killed"
        \/ losses + crashes > 0
        \/ "metrics" \in Channels /\ request["metrics"] = "gone"

\* The node of a deleted row stops its service.
DeletedNodeStops == deleted ~> hysteria = "stopped"

-----------------------------------------------------------------------------
(* The inductive invariant behind the safety properties.                   *)

\* Only a deletion starts the chain that ends a node.
DeletionFirst ==
    ~deleted => /\ LiveNodeUntouched
                /\ \A c \in Channels : request[c] \notin {"revoking", "gone"}

\* What is forgotten stays forgotten: no reply that could restore it is left.
Forgotten ==
    /\ uninstall # "no" => ~users
    /\ uninstall = "forgotten" => ~stateFile
    /\ script # "none" => /\ ~users
                          /\ ~stateFile
                          /\ deleted
                          /\ \A c \in Channels : request[c] # "ok"

IInv == TypeOK /\ DeletionFirst /\ Forgotten
=============================================================================
