-------------------------- MODULE NodeDeletionProofs -------------------------
(***************************************************************************)
(* Proofs about NodeDeletion, for every set of channels, every grace and    *)
(* every number of failures and crashes.                                    *)
(***************************************************************************)
EXTENDS NodeDeletion, TLAPS

\* The bounds of the counters.
LEMMA ZeroInBounds == 0 \in 0..Grace /\ 0 \in 0..MaxLosses /\ 0 \in 0..MaxCrashes
  BY DeletionAssumption

\* Every variable keeps its type.
LEMMA TypeInit == Init => TypeOK
  BY ZeroInBounds, Zenon DEF Init, TypeOK, Idle

\* Every step keeps the types.
LEMMA TypeNext == TypeOK /\ [Next]_vars => TypeOK'
<1> SUFFICES ASSUME TypeOK, [Next]_vars
             PROVE  TypeOK'
  OBVIOUS
<1> USE DeletionAssumption DEF TypeOK, panel, admission, bounds
<1>1. CASE DeleteNode
  BY <1>1 DEF DeleteNode
<1>2. ASSUME NEW c \in Channels, Authenticate(c)
      PROVE  TypeOK'
  BY <1>2 DEF Authenticate, Verdict
<1>3. ASSUME NEW c \in Channels, AuthenticateFails(c)
      PROVE  TypeOK'
  BY <1>3 DEF AuthenticateFails
<1>4. ASSUME NEW c \in Channels, RevokeAgentSecret(c)
      PROVE  TypeOK'
  BY <1>4 DEF RevokeAgentSecret
<1>5. ASSUME NEW c \in Channels, RevocationFails(c)
      PROVE  TypeOK'
  BY <1>5 DEF RevocationFails
<1>6. ASSUME NEW c \in Channels, Send(c)
      PROVE  TypeOK'
  BY <1>6 DEF Send, InLoop
<1>7. ASSUME NEW c \in Channels, Lose(c)
      PROVE  TypeOK'
  BY <1>7 DEF Lose
<1>8. ASSUME "heartbeat" \in Channels, NoteHeartbeatSuccess
      PROVE  TypeOK'
  BY <1>8, ZeroInBounds, Zenon DEF NoteHeartbeatSuccess, Replied, InLoop
<1>9. ASSUME "heartbeat" \in Channels, HandleHeartbeatFailure
      PROVE  TypeOK'
  BY <1>9 DEF HandleHeartbeatFailure, Replied, InLoop, GuardAfterFailure
<1>10. ASSUME "control" \in Channels, ControlReply
       PROVE  TypeOK'
  BY <1>10 DEF ControlReply, Replied, InLoop
<1>11. ASSUME "metrics" \in Channels, MetricsReply
       PROVE  TypeOK'
  BY <1>11 DEF MetricsReply, Replied, InLoop
<1>12. ASSUME NEW c \in Channels, ScheduleSelfUninstall(c)
       PROVE  TypeOK'
  BY <1>12 DEF ScheduleSelfUninstall, Replied, InLoop, Gone
<1>13. CASE IntervalPasses
  BY <1>13 DEF IntervalPasses
<1>14. CASE RemoveStateFile
  BY <1>14 DEF RemoveStateFile, FileAfterUninstall
<1>15. CASE LaunchScript
  BY <1>15 DEF LaunchScript, Idle
<1>16. CASE ScriptStopsService
  BY <1>16 DEF ScriptStopsService
<1>17. CASE ScriptRemovesAgent
  BY <1>17 DEF ScriptRemovesAgent, Idle
<1>18. CASE AgentCrash
  BY <1>18 DEF AgentCrash, Idle
<1>19. CASE AgentStart
  BY <1>19, ZeroInBounds, Zenon DEF AgentStart
<1>20. CASE UNCHANGED vars
  BY <1>20 DEF vars
<1> HIDE DEF TypeOK
<1>21. QED
  BY <1>1, <1>2, <1>3, <1>4, <1>5, <1>6, <1>7, <1>8, <1>9, <1>10, <1>11, <1>12, <1>13,
     <1>14, <1>15, <1>16, <1>17, <1>18, <1>19, <1>20 DEF Next

\* Type correctness.
THEOREM TypeCorrect == Spec => []TypeOK
  BY TypeInit, TypeNext, PTL DEF Spec

(***************************************************************************)
(* The inductive invariant.                                                *)
(***************************************************************************)
\* A node in service satisfies the invariant.
LEMMA IInvInit == Init => IInv
  BY TypeInit DEF Init, IInv, DeletionFirst, LiveNodeUntouched, Forgotten, Idle

\* Every step, failures and crashes included, preserves the invariant.
LEMMA IInvNext == IInv /\ [Next]_vars => IInv'
<1> SUFFICES ASSUME IInv, [Next]_vars
             PROVE  DeletionFirst' /\ Forgotten'
  BY TypeNext DEF IInv
<1> USE DEF IInv, TypeOK, DeletionFirst, LiveNodeUntouched, Forgotten, panel, admission, bounds
<1>1. CASE DeleteNode
  BY <1>1 DEF DeleteNode
<1>2. ASSUME NEW c \in Channels, Authenticate(c)
      PROVE  DeletionFirst' /\ Forgotten'
  BY <1>2 DEF Authenticate, Verdict
<1>3. ASSUME NEW c \in Channels, AuthenticateFails(c)
      PROVE  DeletionFirst' /\ Forgotten'
  BY <1>3 DEF AuthenticateFails
<1>4. ASSUME NEW c \in Channels, RevokeAgentSecret(c)
      PROVE  DeletionFirst' /\ Forgotten'
  BY <1>4 DEF RevokeAgentSecret
<1>5. ASSUME NEW c \in Channels, RevocationFails(c)
      PROVE  DeletionFirst' /\ Forgotten'
  BY <1>5 DEF RevocationFails
<1>6. ASSUME NEW c \in Channels, Send(c)
      PROVE  DeletionFirst' /\ Forgotten'
  BY <1>6 DEF Send, InLoop
<1>7. ASSUME NEW c \in Channels, Lose(c)
      PROVE  DeletionFirst' /\ Forgotten'
  BY <1>7 DEF Lose
<1>8. ASSUME "heartbeat" \in Channels, NoteHeartbeatSuccess
      PROVE  DeletionFirst' /\ Forgotten'
  BY <1>8 DEF NoteHeartbeatSuccess, Replied, InLoop
<1>9. ASSUME "heartbeat" \in Channels, HandleHeartbeatFailure
      PROVE  DeletionFirst' /\ Forgotten'
  BY <1>9 DEF HandleHeartbeatFailure, Replied, InLoop, GuardAfterFailure
<1>10. ASSUME "control" \in Channels, ControlReply
       PROVE  DeletionFirst' /\ Forgotten'
  BY <1>10 DEF ControlReply, Replied, InLoop
<1>11. ASSUME "metrics" \in Channels, MetricsReply
       PROVE  DeletionFirst' /\ Forgotten'
  BY <1>11 DEF MetricsReply, Replied, InLoop
<1>12. ASSUME NEW c \in Channels, ScheduleSelfUninstall(c)
       PROVE  DeletionFirst' /\ Forgotten'
  BY <1>12 DEF ScheduleSelfUninstall, Replied, InLoop, Gone
<1>13. CASE IntervalPasses
  BY <1>13 DEF IntervalPasses
<1>14. CASE RemoveStateFile
  BY <1>14 DEF RemoveStateFile, FileAfterUninstall
<1>15. CASE LaunchScript
  BY <1>15 DEF LaunchScript, Idle
<1>16. CASE ScriptStopsService
  BY <1>16 DEF ScriptStopsService
<1>17. CASE ScriptRemovesAgent
  BY <1>17 DEF ScriptRemovesAgent, Idle
<1>18. CASE AgentCrash
  BY <1>18 DEF AgentCrash, Idle
<1>19. CASE AgentStart
  BY <1>19 DEF AgentStart
<1>20. CASE UNCHANGED vars
  BY <1>20 DEF vars
<1> HIDE DEF DeletionFirst, Forgotten
<1>21. QED
  BY <1>1, <1>2, <1>3, <1>4, <1>5, <1>6, <1>7, <1>8, <1>9, <1>10, <1>11, <1>12, <1>13,
     <1>14, <1>15, <1>16, <1>17, <1>18, <1>19, <1>20 DEF Next

\* The inductive invariant holds in every reachable state.
THEOREM Invariance == Spec => []IInv
  BY IInvInit, IInvNext, PTL DEF Spec

\* Failures alone never uninstall a node or cut it off.
THEOREM LiveNodesStay == Spec => []LiveNodeUntouched
<1>1. IInv => LiveNodeUntouched
  BY DEF IInv, DeletionFirst, LiveNodeUntouched
<1>2. QED
  BY <1>1, Invariance, PTL

\* An agent that uninstalls itself admits nobody any more, restarted or not.
THEOREM UninstalledIsClosed == Spec => []UninstalledServesNobody
<1>1. IInv => UninstalledServesNobody
  BY DEF IInv, Forgotten, UninstalledServesNobody, Accepts
<1>2. QED
  BY <1>1, Invariance, PTL

(***************************************************************************)
(* For ever, and by whom the agent is told.                                 *)
(***************************************************************************)
\* The script is never taken back, whatever becomes of it.
LEMMA ScriptStays == script # "none" /\ [Next]_vars => script' # "none"
<1> SUFFICES ASSUME script # "none", [Next]_vars
             PROVE  script' # "none"
  OBVIOUS
<1>1. CASE LaunchScript
  BY <1>1 DEF LaunchScript
<1>2. CASE ScriptStopsService \/ ScriptRemovesAgent
  BY <1>2 DEF ScriptStopsService, ScriptRemovesAgent
<1>3. CASE ~(LaunchScript \/ ScriptStopsService \/ ScriptRemovesAgent)
  <2>1. UNCHANGED script
    BY <1>3 DEF Next, vars, DeleteNode, Authenticate, AuthenticateFails, RevokeAgentSecret,
       RevocationFails, Send, Lose, NoteHeartbeatSuccess, HandleHeartbeatFailure, ControlReply,
       MetricsReply, ScheduleSelfUninstall, IntervalPasses, RemoveStateFile, AgentCrash, AgentStart
  <2>2. QED
    BY <2>1
<1>4. QED
  BY <1>1, <1>2, <1>3

\* From the moment scheduleSelfUninstall has started the script, the node admits nobody
\* until the end of its days: neither a late reply nor a restart by systemd brings a user
\* back.  This is the half of DeletedServesNobody that needs no fairness.
THEOREM ClosedForEver == Spec => [](script # "none" => []~Accepts)
<1>1. IInv /\ script # "none" => ~Accepts
  BY DEF IInv, Forgotten, Accepts
<1>2. script # "none" /\ [Next]_vars => (script # "none")'
  BY ScriptStays
<1>3. QED
  BY <1>1, <1>2, Invariance, PTL DEF Spec

\* The loop has a 410 in its hands or has acted on one.
Told ==
    \/ uninstall # "no"
    \/ script # "none"
    \/ \E c \in Channels : request[c] = "gone"

\* What the panel has revoked, the loop was told of, if the uploader of monitoring samples
\* does not run and nothing failed; the process then ends by its own hand only.
RevokedIsTold ==
    losses = 0 /\ crashes = 0 /\ "metrics" \notin Channels =>
        /\ ~secretValid => Told
        /\ proc = "exited" => script # "none"

\* Every step keeps the 410 with the loop until it acts on it.
LEMMA ToldNext == IInv /\ RevokedIsTold /\ [Next]_vars => RevokedIsTold'
<1> SUFFICES ASSUME IInv, RevokedIsTold, [Next]_vars,
                    losses' = 0, crashes' = 0, "metrics" \notin Channels
             PROVE  (~secretValid' => Told') /\ (proc' = "exited" => script' # "none")
  BY DEF RevokedIsTold
<1>b. /\ losses \in Nat /\ crashes \in Nat
      /\ request \in [Channels -> {"none", "sent", "revoking", "ok", "gone", "refused", "failed"}]
  BY DeletionAssumption DEF IInv, TypeOK
<1> USE DEF Told, panel, admission, bounds
<1>1. CASE UNCHANGED <<losses, crashes>>
  <2>0. /\ ~secretValid => Told
        /\ proc = "exited" => script # "none"
    BY <1>1 DEF RevokedIsTold
  <2>1. CASE DeleteNode \/ IntervalPasses \/ UNCHANGED vars
    BY <2>0, <2>1 DEF DeleteNode, IntervalPasses, vars
  <2>2. ASSUME NEW c \in Channels, Authenticate(c) \/ Send(c)
        PROVE  (~secretValid' => Told') /\ (proc' = "exited" => script' # "none")
    <3>1. /\ \A d \in Channels : request[d] = "gone" => request'[d] = "gone"
          /\ UNCHANGED <<secretValid, uninstall, script, proc>>
      BY <1>b, <2>2 DEF Authenticate, Send
    <3>2. QED
      BY <2>0, <3>1
  <2>3. ASSUME NEW c \in Channels, RevokeAgentSecret(c)
        PROVE  (~secretValid' => Told') /\ (proc' = "exited" => script' # "none")
    <3>1. request'[c] = "gone" /\ UNCHANGED <<script, proc>>
      BY <1>b, <2>3 DEF RevokeAgentSecret
    <3>2. QED
      BY <2>0, <3>1
  <2>4. ASSUME NoteHeartbeatSuccess \/ HandleHeartbeatFailure \/ ControlReply
        PROVE  (~secretValid' => Told') /\ (proc' = "exited" => script' # "none")
    <3>1. /\ \A d \in Channels : request[d] = "gone" => request'[d] = "gone"
          /\ UNCHANGED <<secretValid, uninstall, script, proc>>
      BY <1>b, <2>4 DEF NoteHeartbeatSuccess, HandleHeartbeatFailure, ControlReply, Replied
    <3>2. QED
      BY <2>0, <3>1
  <2>5. ASSUME NEW c \in Channels, ScheduleSelfUninstall(c)
        PROVE  (~secretValid' => Told') /\ (proc' = "exited" => script' # "none")
    BY <2>0, <2>5 DEF ScheduleSelfUninstall
  <2>6. CASE RemoveStateFile \/ ScriptStopsService \/ ScriptRemovesAgent
    BY <2>0, <2>6 DEF RemoveStateFile, ScriptStopsService, ScriptRemovesAgent
  <2>7. CASE LaunchScript
    BY <2>7 DEF LaunchScript
  <2>8. CASE AgentStart
    BY <2>0, <2>8 DEF AgentStart
  <2>9. QED
    BY <1>1, <1>b, <2>1, <2>2, <2>3, <2>4, <2>5, <2>6, <2>7, <2>8
    DEF Next, AuthenticateFails, RevocationFails, Lose, AgentCrash
<1>2. CASE ~UNCHANGED <<losses, crashes>>
  <2>1. losses' = losses + 1 \/ crashes' = crashes + 1
    BY <1>2 DEF Next, vars, DeleteNode, Authenticate, AuthenticateFails, RevokeAgentSecret,
       RevocationFails, Send, Lose, NoteHeartbeatSuccess, HandleHeartbeatFailure, ControlReply,
       MetricsReply, ScheduleSelfUninstall, IntervalPasses, RemoveStateFile, LaunchScript,
       ScriptStopsService, ScriptRemovesAgent, AgentCrash, AgentStart
  <2>2. QED
    BY <1>b, <2>1
<1>3. QED
  BY <1>1, <1>2

\* revokeAgentSecret makes every later request fail with 401, so the loop must have the 410
\* by then.  Without the uploader it has, as only the loop is answered 410; with it, the 410
\* may be the uploader's alone, as the run deletion_metrics shows.
THEOREM LoopHoldsTheAnswer == Spec => []RevokedIsTold
<1>1. Init => RevokedIsTold
  BY DEF Init, RevokedIsTold
<1>2. QED
  BY <1>1, ToldNext, Invariance, PTL DEF Spec
=============================================================================
