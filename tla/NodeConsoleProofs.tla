-------------------------- MODULE NodeConsoleProofs --------------------------
(***************************************************************************)
(* Proofs about NodeConsole, for all nodes and for any number of handlers     *)
(* that wait, of reads under way and of requests that fail.                 *)
(***************************************************************************)
EXTENDS NodeConsole, FiniteSetTheorems, TLAPS

\* The form keeps its fields.
IsForm(f) == f = [of |-> f.of, secret |-> f.secret, obfs |-> f.obfs, fresh |-> f.fresh]
SecretInv == IsForm(form) /\ SecretStays

\* A form that was filled from a row, or emptied, holds no secret.
LEMMA MaskedForms ==
    ASSUME NEW owner
    PROVE  /\ IsForm(FormOf(owner)) /\ FormOf(owner).secret = NoNode /\ FormOf(owner).obfs = NoNode
           /\ IsForm(EmptyForm) /\ EmptyForm.secret = NoNode /\ EmptyForm.obfs = NoNode
  BY DEF IsForm, FormOf, EmptyForm

\* The form and the editor stay as they are.
LEMMA FormKept == ASSUME SecretInv, UNCHANGED <<form, editing, modal>> PROVE SecretInv'
  BY DEF SecretInv, IsForm, SecretStays

\* The form is filled from a row, or emptied, whatever the editor becomes.
LEMMA FormMasked ==
    ASSUME IsForm(form'), form'.secret = NoNode, form'.obfs = NoNode
    PROVE  SecretInv'
  BY DEF SecretInv, SecretStays

\* The editor is closed.
LEMMA EditorClosed == ASSUME IsForm(form), form' = form, ~modal' PROVE SecretInv'
  BY DEF SecretInv, IsForm, SecretStays

\* What is in the form at first was masked.
LEMMA SecretInit == Init => SecretInv
  BY MaskedForms DEF Init, SecretInv, SecretStays

\* Handlers that wait fill the form from a row only, or clear the secret.
LEMMA SecretAnswers ==
    ASSUME SecretInv, NEW s \in Slots, Answers(s)
    PROVE  SecretInv'
<1>1. CASE KeyUploaded(s)
  BY <1>1 DEF KeyUploaded, SecretInv, IsForm, SecretStays
<1>2. CASE SaveAnswered(s)
  BY <1>2, MaskedForms, FormMasked DEF SaveAnswered
<1>3. CASE Rejected(s)
  BY <1>3, FormKept DEF Rejected, HandlerFails, LetGo
<1>4. CASE SaveChecked(s) \/ SaveWritten(s) \/ Answered(s) \/ TrafficSynced(s)
  BY <1>4, FormKept DEF SaveChecked, SaveWritten, Answered, TrafficSynced, editor
<1>8. CASE StateRead(s) \/ ServiceActionDone(s) \/ NodeSaved(s) \/ TrafficSyncDone(s)
  BY <1>8, FormKept DEF StateRead, ServiceActionDone, NodeSaved, TrafficSyncDone, editor
<1>5. CASE NodesRead(s)
  <2>1. CASE running[s].address = NoNode
    BY <1>5, <2>1, FormKept DEF NodesRead
  <2>2. CASE running[s].address # NoNode
    BY <1>5, <2>2, MaskedForms, FormMasked DEF NodesRead
  <2> QED
    BY <2>1, <2>2
<1>6. CASE NodeDeleted(s)
  <2>1. CASE editing = running[s].node
    BY <1>6, <2>1, MaskedForms, FormMasked DEF NodeDeleted
  <2>2. CASE editing # running[s].node
    BY <1>6, <2>2, FormKept DEF NodeDeleted
  <2> QED
    BY <2>1, <2>2
<1>7. CASE EditorDone(s)
  BY <1>7, EditorClosed DEF EditorDone, SecretInv
<1> QED
  BY <1>1, <1>2, <1>3, <1>4, <1>5, <1>6, <1>7, <1>8 DEF Answers

\* What the operator clicks opens a masked form, closes one or leaves its secrets alone.
LEMMA SecretOperator == ASSUME SecretInv, Operator PROVE SecretInv'
<1> USE DEF editor
<1>1. CASE handleCreateNode
  BY <1>1, MaskedForms, FormMasked DEF handleCreateNode
<1>2. CASE handleResetNodeForm
  BY <1>2, MaskedForms, FormMasked DEF handleResetNodeForm
<1>3. CASE closeNodeModal
  BY <1>3, EditorClosed DEF closeNodeModal, SecretInv
<1>4. CASE closeNodeDeleteModal \/ togglePasswordVisibility \/ revealNodeObfs
  BY <1>4, FormKept DEF closeNodeDeleteModal, togglePasswordVisibility, revealNodeObfs
<1>5. ASSUME NEW n \in Nodes, handleEditNode(n)
      PROVE  SecretInv'
  BY <1>5, MaskedForms, FormMasked DEF handleEditNode
<1>6. ASSUME NEW n \in Nodes, handleDeleteNode(n)
      PROVE  SecretInv'
  BY <1>6, FormKept DEF handleDeleteNode
<1>7. ASSUME NEW s \in Slots,
             handleSaveNode(s) \/ confirmDeleteNode(s) \/ syncTrafficUsageForTrafficView(s)
      PROVE  SecretInv'
  BY <1>7, FormKept DEF handleSaveNode, confirmDeleteNode, syncTrafficUsageForTrafficView
<1>8. ASSUME NEW s \in Slots, NEW n \in Nodes, handleServiceAction(s, n)
      PROVE  SecretInv'
  BY <1>8, FormKept DEF handleServiceAction
<1>9. ASSUME NEW n \in Nodes, typeAddress(n)
      PROVE  SecretInv'
  BY <1>9 DEF typeAddress, SecretInv, IsForm, SecretStays
<1> QED
  BY <1>1, <1>2, <1>3, <1>4, <1>5, <1>6, <1>7, <1>8, <1>9 DEF Operator

\* Every step leaves a shown form with secrets of its own node.
LEMMA SecretNext == SecretInv /\ [Next]_vars => SecretInv'
<1> SUFFICES ASSUME SecretInv, [Next]_vars
             PROVE  SecretInv'
  OBVIOUS
<1>1. ASSUME NEW s \in Slots, Elsewhere(s)
      PROVE  SecretInv'
  <2>1. UNCHANGED <<form, editing, modal>>
    BY <1>1 DEF Elsewhere, Fails, AnswerLost, InstallFails, GiveUp, UnattendedEnds,
       OtherAdminSaves, HandlerFails, LetGo, editor
  <2> QED
    BY <2>1, FormKept
<1>2. CASE SecretRead
  BY <1>2 DEF SecretRead, MayFill, SecretInv, IsForm, SecretStays
<1>3. ASSUME NEW n \in Nodes, ObfsRead(n)
      PROVE  SecretInv'
  BY <1>3 DEF ObfsRead, MayFill, SecretInv, IsForm, SecretStays
<1>4. ASSUME NEW n \in Nodes, OtherAdminDeletes(n)
      PROVE  SecretInv'
  BY <1>4, FormKept DEF OtherAdminDeletes, editor
<1>5. CASE UNCHANGED vars
  BY <1>5, FormKept DEF vars, editor
<1> QED
  BY <1>1, <1>2, <1>3, <1>4, <1>5, SecretAnswers, SecretOperator DEF Next

\* A form that is shown holds revealed secrets of the node it edits only, however late the
\* panel answers, for any number of nodes and handlers.
THEOREM OwnSecrets == Spec => []SecretStays
<1>1. SecretInv => SecretStays
  BY DEF SecretInv
<1> QED
  BY <1>1, SecretInit, SecretNext, PTL DEF Spec

-----------------------------------------------------------------------------
\* A handler keeps its fields.
IsHandler(h) == DOMAIN h = {"key", "at", "node", "address", "edits"}
Handled == running = [s \in Slots |-> running[s]] /\ \A s \in Slots : IsHandler(running[s])

\* The handler that holds busyAction has not got beyond withBusyAction: what follows a save
\* no longer does.  A save nobody waits for never holds it.
OwnedInv ==
    /\ Handled
    /\ busy # "unattended"
    /\ busy # "" => \E s \in Slots : running[s].key = busy /\ running[s].at # "settle"

\* A handler that starts takes busyAction.
LEMMA OwnedStart ==
    ASSUME OwnedInv, NEW s \in Slots, NEW h, IsHandler(h), Start(s, h), h.at # "settle",
           busy' = h.key, h.key # "unattended"
    PROVE  OwnedInv'
<1>1. running' = [running EXCEPT ![s] = h]
  BY DEF Start
<1>2. running'[s] = h /\ \A t \in Slots \ {s} : running'[t] = running[t]
  BY <1>1 DEF OwnedInv, Handled
<1>3. Handled'
  BY <1>1, <1>2 DEF OwnedInv, Handled
<1> QED
  BY <1>2, <1>3 DEF OwnedInv

\* A handler that goes on within withBusyAction, or beyond it without a say in busyAction,
\* leaves whoever holds it in place.
LEMMA OwnedStep ==
    ASSUME OwnedInv, NEW s \in Slots, NEW h, IsHandler(h), h.key = running[s].key,
           running' = [running EXCEPT ![s] = h], h.at # "settle", busy' = busy
    PROVE  OwnedInv'
<1>1. running'[s] = h /\ \A t \in Slots \ {s} : running'[t] = running[t]
  BY DEF OwnedInv, Handled
<1>2. Handled'
  BY <1>1 DEF OwnedInv, Handled
<1> QED
  BY <1>1, <1>2 DEF OwnedInv

\* A handler that is through with withBusyAction frees the slot, or it never held it.
LEMMA OwnedRelease ==
    ASSUME OwnedInv, NEW s \in Slots, NEW h, IsHandler(h),
           running' = [running EXCEPT ![s] = h], busy' = Released(running[s].key)
    PROVE  OwnedInv'
<1>1. running'[s] = h /\ \A t \in Slots \ {s} : running'[t] = running[t]
  BY DEF OwnedInv, Handled
<1>2. Handled'
  BY <1>1 DEF OwnedInv, Handled
<1>3. busy' # "" => busy' = busy /\ busy # running[s].key
  BY DEF Released
<1> QED
  BY <1>1, <1>2, <1>3 DEF OwnedInv

\* A slot that is idle, or of a save nobody waits for, has no say in busyAction.
LEMMA OwnedBeside ==
    ASSUME OwnedInv, NEW s \in Slots, NEW h, IsHandler(h), running[s].key \in {"", "unattended"},
           running' = [running EXCEPT ![s] = h], busy' = busy
    PROVE  OwnedInv'
<1>1. running'[s] = h /\ \A t \in Slots \ {s} : running'[t] = running[t]
  BY DEF OwnedInv, Handled
<1>2. Handled'
  BY <1>1 DEF OwnedInv, Handled
<1> QED
  BY <1>1, <1>2 DEF OwnedInv

\* Neither the handlers nor busyAction are concerned.
LEMMA OwnedKept == ASSUME OwnedInv, UNCHANGED <<running, busy>> PROVE OwnedInv'
  BY DEF OwnedInv, Handled

\* What starts, and what goes on, has the fields of a handler.
LEMMA IdleIsHandler == IsHandler(Idle) /\ Idle.at = "idle" /\ Idle.key = ""
  BY DEF IsHandler, Idle

\* No handler waits at first.
LEMMA OwnedInit == Init => OwnedInv
<1> SUFFICES ASSUME Init PROVE OwnedInv
  OBVIOUS
<1>1. running = [s \in Slots |-> Idle] /\ busy = ""
  BY DEF Init
<1> QED
  BY <1>1, IdleIsHandler DEF OwnedInv, Handled

\* What the operator clicks starts a handler that takes busyAction, or none.
LEMMA OwnedOperator == ASSUME OwnedInv, Operator PROVE OwnedInv'
<1>1. CASE \/ handleCreateNode \/ handleResetNodeForm \/ closeNodeModal \/ closeNodeDeleteModal
           \/ togglePasswordVisibility \/ revealNodeObfs
           \/ \E n \in Nodes : handleEditNode(n) \/ handleDeleteNode(n) \/ typeAddress(n)
  BY <1>1, OwnedKept DEF handleCreateNode, handleResetNodeForm, closeNodeModal,
     closeNodeDeleteModal, togglePasswordVisibility, revealNodeObfs, handleEditNode,
     handleDeleteNode, typeAddress
<1>2. ASSUME NEW s \in Slots, handleSaveNode(s)
      PROVE  OwnedInv'
  <2> DEFINE upload == [Idle EXCEPT !.key = "node-save", !.at = "upload",
                                    !.edits = editing # NoNode]
             save == [Idle EXCEPT !.key = "node-save", !.at = "first", !.node = editing,
                                  !.address = form.of, !.edits = editing # NoNode]
  <2>1. Start(s, upload) \/ Start(s, save)
    BY <1>2 DEF handleSaveNode
  <2>2. IsHandler(upload) /\ upload.key = "node-save" /\ upload.at # "settle"
    BY DEF IsHandler, Idle
  <2>3. IsHandler(save) /\ save.key = "node-save" /\ save.at # "settle"
    BY DEF IsHandler, Idle
  <2>4. busy' = "node-save"
    BY <1>2 DEF handleSaveNode
  <2> HIDE DEF upload, save
  <2> QED
    BY <2>1, <2>2, <2>3, <2>4, OwnedStart
<1>3. ASSUME NEW s \in Slots, confirmDeleteNode(s)
      PROVE  OwnedInv'
  <2> DEFINE h(at) == [Idle EXCEPT !.key = "node-delete", !.at = at, !.node = pending]
  <2>1. Start(s, h("first")) \/ Start(s, h("second"))
    BY <1>3 DEF confirmDeleteNode
  <2>2. ASSUME NEW at \in {"first", "second"}
        PROVE  IsHandler(h(at)) /\ h(at).key = "node-delete" /\ h(at).at # "settle"
    BY DEF IsHandler, Idle
  <2>3. busy' = "node-delete"
    BY <1>3 DEF confirmDeleteNode
  <2> HIDE DEF h
  <2> QED
    BY <2>1, <2>2, <2>3, OwnedStart
<1>4. ASSUME NEW s \in Slots, syncTrafficUsageForTrafficView(s)
      PROVE  OwnedInv'
  <2> DEFINE h == [Idle EXCEPT !.key = "traffic-sync-enter", !.at = "first"]
  <2>1. IsHandler(h) /\ h.key = "traffic-sync-enter" /\ h.at # "settle"
    BY DEF IsHandler, Idle
  <2> QED
    BY <1>4, <2>1, OwnedStart DEF syncTrafficUsageForTrafficView
<1>5. ASSUME NEW s \in Slots, NEW n \in Nodes, handleServiceAction(s, n)
      PROVE  OwnedInv'
  <2> DEFINE h == [Idle EXCEPT !.key = "node-service", !.at = "first", !.node = n]
  <2>1. IsHandler(h) /\ h.key = "node-service" /\ h.at # "settle"
    BY DEF IsHandler, Idle
  <2> QED
    BY <1>5, <2>1, OwnedStart DEF handleServiceAction
<1> QED
  BY <1>1, <1>2, <1>3, <1>4, <1>5 DEF Operator

\* An answer moves its handler on, releases the slot or ends what follows a save.
LEMMA OwnedAnswers == ASSUME OwnedInv, NEW s \in Slots, Answers(s) PROVE OwnedInv'
<1> USE DEF IsHandler, Handled, OwnedInv
<1>1. CASE KeyUploaded(s)
  <2> DEFINE h == [running[s] EXCEPT !.at = "first", !.address = form.of,
                                     !.node = IF running[s].edits THEN editing ELSE NoNode]
  <2>1. running' = [running EXCEPT ![s] = h] /\ busy' = busy
    BY <1>1 DEF KeyUploaded
  <2>2. IsHandler(h) /\ h.key = running[s].key /\ h.at # "settle"
    OBVIOUS
  <2> QED
    BY <2>1, <2>2, OwnedStep
<1>2. CASE Answered(s) \/ SaveAnswered(s)
  <2> DEFINE h(to) == [running[s] EXCEPT !.at = to]
  <2>1. PICK to \in {"second", "state"} : running' = [running EXCEPT ![s] = h(to)] /\ busy' = busy
    BY <1>2 DEF Answered, SaveAnswered, Advance
  <2>2. IsHandler(h(to)) /\ h(to).key = running[s].key /\ h(to).at # "settle"
    OBVIOUS
  <2> HIDE DEF h
  <2> QED
    BY <2>1, <2>2, OwnedStep
<1>10. CASE SaveChecked(s)
  <2> DEFINE h == [running[s] EXCEPT !.at = "checked"]
  <2>1. running' = [running EXCEPT ![s] = h] /\ busy' = busy
    BY <1>10 DEF SaveChecked, Advance
  <2>2. IsHandler(h) /\ h.key = running[s].key /\ h.at # "settle"
    OBVIOUS
  <2> QED
    BY <2>1, <2>2, OwnedStep
<1>11. CASE SaveWritten(s)
  <2> DEFINE h(n) == [running[s] EXCEPT !.at = "written", !.node = n, !.address = NoNode]
  <2>1. PICK n \in Nodes : running' = [running EXCEPT ![s] = h(n)]
    BY <1>11 DEF SaveWritten
  <2>2. IsHandler(h(n)) /\ h(n).key = running[s].key /\ h(n).at # "settle"
    OBVIOUS
  <2>3. busy' = busy
    BY <1>11 DEF SaveWritten
  <2> HIDE DEF h
  <2> QED
    BY <2>1, <2>2, <2>3, OwnedStep
<1>3. CASE Rejected(s)
  BY <1>3, OwnedRelease, IdleIsHandler DEF Rejected, HandlerFails, LetGo, Finish
<1>4. CASE TrafficSynced(s)
  <2> DEFINE h == [running[s] EXCEPT !.at = "state"]
  <2>1. running' = [running EXCEPT ![s] = h] /\ busy' = busy
    BY <1>4 DEF TrafficSynced, Advance
  <2>2. IsHandler(h) /\ h.key = running[s].key /\ h.at # "settle"
    OBVIOUS
  <2> QED
    BY <2>1, <2>2, OwnedStep
<1>5. CASE StateRead(s)
  <2> DEFINE address == IF byUpdate = <<>> THEN NoNode ELSE identity[Head(byUpdate)]
             h == [running[s] EXCEPT !.at = "nodes", !.address = address]
  <2>1. running' = [running EXCEPT ![s] = h] /\ busy' = busy
    BY <1>5 DEF StateRead
  <2>2. IsHandler(h) /\ h.key = running[s].key /\ h.at # "settle"
    OBVIOUS
  <2> QED
    BY <2>1, <2>2, OwnedStep
<1>6. CASE NodesRead(s)
  <2> DEFINE h == [running[s] EXCEPT !.at = "totals", !.address = NoNode]
  <2>1. running' = [running EXCEPT ![s] = h] /\ busy' = busy
    BY <1>6 DEF NodesRead
  <2>2. IsHandler(h) /\ h.key = running[s].key /\ h.at # "settle"
    OBVIOUS
  <2> QED
    BY <2>1, <2>2, OwnedStep
<1>7. CASE ServiceActionDone(s) \/ NodeDeleted(s) \/ TrafficSyncDone(s)
  <2>1. running' = [running EXCEPT ![s] = Idle] /\ busy' = Released(running[s].key)
    BY <1>7 DEF ServiceActionDone, NodeDeleted, TrafficSyncDone, Waits, Finish
  <2> QED
    BY <2>1, OwnedRelease, IdleIsHandler
<1>8. CASE NodeSaved(s)
  <2> DEFINE h == [running[s] EXCEPT !.at = "settle"]
  <2>1. running' = [running EXCEPT ![s] = h] /\ busy' = Released(running[s].key)
    BY <1>8 DEF NodeSaved, Waits, Advance
  <2>2. IsHandler(h)
    OBVIOUS
  <2> QED
    BY <2>1, <2>2, OwnedRelease
<1>9. CASE EditorDone(s)
  <2>1. running[s].at = "settle" /\ running' = [running EXCEPT ![s] = Idle] /\ busy' = busy
    BY <1>9 DEF EditorDone, Waits, Finish
  <2>2. \A t \in Slots \ {s} : running'[t] = running[t]
    BY <2>1
  <2>3. Handled'
    BY <2>1, IdleIsHandler
  <2> QED
    BY <2>1, <2>2, <2>3
<1> QED
  BY <1>1, <1>2, <1>3, <1>4, <1>5, <1>6, <1>7, <1>8, <1>9, <1>10, <1>11 DEF Answers

\* A handler whose request goes wrong releases the slot; what others do is beside it.
LEMMA OwnedElsewhere == ASSUME OwnedInv, NEW s \in Slots, Elsewhere(s) PROVE OwnedInv'
<1>1. CASE Fails(s) \/ AnswerLost(s) \/ InstallFails(s)
  <2>1. HandlerFails(s)
    BY <1>1 DEF Fails, AnswerLost, InstallFails
  <2> QED
    BY <2>1, OwnedRelease, IdleIsHandler DEF HandlerFails, LetGo, Finish
<1>2. CASE GiveUp(s)
  <2> DEFINE h == [running[s] EXCEPT !.key = "unattended"]
  <2>1. running' = [running EXCEPT ![s] = h] /\ busy' = Released(running[s].key)
    BY <1>2 DEF GiveUp, LetGo
  <2>2. IsHandler(h)
    BY DEF IsHandler, OwnedInv, Handled
  <2> HIDE DEF h
  <2> QED
    BY <2>1, <2>2, OwnedRelease
<1>3. CASE UnattendedEnds(s)
  <2>1. running[s].key = "unattended" /\ running' = [running EXCEPT ![s] = Idle] /\ busy' = busy
    BY <1>3 DEF UnattendedEnds, Finish
  <2> QED
    BY <2>1, OwnedBeside, IdleIsHandler
<1>4. ASSUME NEW n \in Nodes \cup {NoNode}, NEW address \in Nodes, OtherAdminSaves(s, n, address)
      PROVE  OwnedInv'
  <2> DEFINE h == [Idle EXCEPT !.key = "unattended", !.at = "first", !.node = n,
                               !.address = address, !.edits = n # NoNode]
  <2>1. running[s] = Idle /\ running' = [running EXCEPT ![s] = h] /\ busy' = busy
    BY <1>4 DEF OtherAdminSaves, Start
  <2>2. IsHandler(h)
    BY DEF IsHandler, Idle
  <2> HIDE DEF h
  <2> QED
    BY <2>1, <2>2, OwnedBeside, IdleIsHandler
<1> QED
  BY <1>1, <1>2, <1>3, <1>4 DEF Elsewhere

\* Every step leaves busyAction with a handler that will release it.
LEMMA OwnedNext == OwnedInv /\ [Next]_vars => OwnedInv'
<1> SUFFICES ASSUME OwnedInv, [Next]_vars
             PROVE  OwnedInv'
  OBVIOUS
<1>2. CASE SecretRead \/ \E n \in Nodes : ObfsRead(n) \/ OtherAdminDeletes(n)
  BY <1>2, OwnedKept DEF SecretRead, ObfsRead, OtherAdminDeletes
<1>3. CASE UNCHANGED vars
  BY <1>3, OwnedKept DEF vars
<1> QED
  BY <1>2, <1>3, OwnedAnswers, OwnedElsewhere, OwnedOperator DEF Next

\* As long as buttons are disabled the handler that will enable them is under way, for any
\* number of nodes and handlers.
THEOREM Owned == Spec => []BusyIsOwned
<1>1. OwnedInv => BusyIsOwned
  BY DEF OwnedInv, BusyIsOwned
<1> QED
  BY <1>1, OwnedInit, OwnedNext, PTL DEF Spec

-----------------------------------------------------------------------------
(* Lists without repetition.                                                 *)

\* The position of an element, as RemoveFirst looks it up, in a sequence that repeats nothing.
LEMMA Position ==
    ASSUME NEW S, NEW s \in Seq(S), IsInjective(s), NEW i \in 1..Len(s)
    PROVE  RemoveFirst(s, s[i]) = SubSeq(s, 1, i - 1) \o SubSeq(s, i + 1, Len(s))
<1> DEFINE at == {j \in 1..Len(s) : s[j] = s[i]}
<1>1. \A j \in at : j = i
  BY DEF IsInjective
<1>2. i \in at
  OBVIOUS
<1>3. at = {i}
  BY <1>1, <1>2
<1>4. Min({i}) = i
  BY DEF Min
<1>5. SelectInSeq(s, LAMBDA v : v = s[i]) = i
  BY <1>3, <1>4 DEF SelectInSeq
<1> QED
  BY <1>5 DEF RemoveFirst, RemoveAt

\* Removing an element leaves the others, each once.
LEMMA Removed ==
    ASSUME NEW S, NEW s \in Seq(S), IsInjective(s), NEW e
    PROVE  /\ RemoveFirst(s, e) \in Seq(S) /\ IsInjective(RemoveFirst(s, e))
           /\ ToSet(RemoveFirst(s, e)) = ToSet(s) \ {e}
<1>1. CASE e \notin ToSet(s)
  <2>1. RemoveFirst(s, e) = s
    BY <1>1 DEF RemoveFirst, ToSet
  <2> QED
    BY <1>1, <2>1
<1>2. CASE e \in ToSet(s)
  <2>1. PICK i \in 1..Len(s) : s[i] = e
    BY <1>2 DEF ToSet
  <2> DEFINE r == SubSeq(s, 1, i - 1) \o SubSeq(s, i + 1, Len(s))
  <2>2. RemoveFirst(s, e) = r
    BY <2>1, Position
  <2>3. /\ r \in Seq(S) /\ Len(r) = Len(s) - 1
        /\ \A j \in 1..Len(r) : r[j] = IF j < i THEN s[j] ELSE s[j + 1]
    <3> DEFINE a == SubSeq(s, 1, i - 1)
               b == SubSeq(s, i + 1, Len(s))
    <3>1. a \in Seq(S) /\ Len(a) = i - 1 /\ \A j \in 1..(i - 1) : a[j] = s[j]
      OBVIOUS
    <3>2. b \in Seq(S) /\ Len(b) = Len(s) - i
      OBVIOUS
    <3>3. \A j \in 1..(Len(s) - i) : b[j] = s[i + j]
      OBVIOUS
    <3> HIDE DEF a, b
    <3>4. a \o b \in Seq(S) /\ Len(a \o b) = Len(s) - 1
      <4>1. a \in Seq(S) /\ b \in Seq(S)
        BY <3>1, <3>2
      <4>2. a \o b \in Seq(S) /\ Len(a \o b) = Len(a) + Len(b)
        BY <4>1
      <4> QED
        BY <3>1, <3>2, <4>2
    <3>5. ASSUME NEW j \in 1..(Len(s) - 1)
          PROVE  (a \o b)[j] = IF j < i THEN s[j] ELSE s[j + 1]
      <4>1. CASE j < i
        BY <3>1, <3>2, <4>1
      <4>2. CASE ~(j < i)
        <5> j >= i
          BY <4>2
        <5>1. (a \o b)[j] = b[j - (i - 1)]
          BY <3>1, <3>2
        <5>2. j - (i - 1) \in 1..(Len(s) - i) /\ i + (j - (i - 1)) = j + 1
          OBVIOUS
        <5> QED
          BY <3>3, <4>2, <5>1, <5>2
      <4> QED
        BY <4>1, <4>2
    <3> QED
      BY <3>4, <3>5 DEF a, b
  <2> HIDE DEF r
  <2>4. IsInjective(r)
    <3> SUFFICES ASSUME NEW j \in DOMAIN r, NEW k \in DOMAIN r, r[j] = r[k]
                 PROVE  j = k
      BY DEF IsInjective
    <3> DEFINE source(m) == IF m < i THEN m ELSE m + 1
    <3>1. j \in 1..Len(r) /\ k \in 1..Len(r) /\ Len(s) \in Nat
      BY <2>3
    <3>2. source(j) \in DOMAIN s /\ source(k) \in DOMAIN s
      BY <2>3, <3>1
    <3>3. r[j] = s[source(j)] /\ r[k] = s[source(k)]
      BY <2>3, <3>1
    <3>4. source(j) = source(k)
      BY <3>2, <3>3 DEF IsInjective
    <3> QED
      BY <3>1, <3>4
  <2>5. ASSUME NEW x \in ToSet(r) PROVE x \in ToSet(s) \ {e}
    <3>1. PICK j \in 1..Len(r) : r[j] = x
      BY <2>3 DEF ToSet
    <3> DEFINE source == IF j < i THEN j ELSE j + 1
    <3>2. source \in DOMAIN s /\ source # i /\ s[source] = x
      BY <2>1, <2>3, <3>1
    <3>3. s[source] # s[i]
      BY <2>1, <3>2 DEF IsInjective
    <3> QED
      BY <2>1, <3>2, <3>3 DEF ToSet
  <2>6. ASSUME NEW x \in ToSet(s) \ {e} PROVE x \in ToSet(r)
    <3>1. PICK j \in 1..Len(s) : s[j] = x
      BY DEF ToSet
    <3>2. j # i
      BY <2>1, <3>1
    <3>3. CASE j < i
      <4>1. j \in 1..Len(r) /\ r[j] = x
        BY <2>3, <3>1, <3>3
      <4> QED
        BY <4>1, <2>3 DEF ToSet
    <3>4. CASE j > i
      <4>1. j - 1 \in 1..Len(r) /\ r[j - 1] = x
        BY <2>3, <3>1, <3>4
      <4> QED
        BY <4>1, <2>3 DEF ToSet
    <3> QED
      BY <3>2, <3>3, <3>4
  <2> QED
    BY <2>2, <2>3, <2>4, <2>5, <2>6
<1> QED
  BY <1>1, <1>2

\* Putting an element in front of a sequence without it.
LEMMA Prepended ==
    ASSUME NEW S, NEW s \in Seq(S), IsInjective(s), NEW e \in S, e \notin ToSet(s)
    PROVE  /\ <<e>> \o s \in Seq(S) /\ IsInjective(<<e>> \o s)
           /\ ToSet(<<e>> \o s) = ToSet(s) \cup {e}
<1> DEFINE r == <<e>> \o s
<1>1. /\ r \in Seq(S) /\ Len(r) = Len(s) + 1 /\ r[1] = e
      /\ \A j \in 2..Len(r) : r[j] = s[j - 1]
  OBVIOUS
<1> HIDE DEF r
<1>2. IsInjective(r)
  <2> SUFFICES ASSUME NEW j \in DOMAIN r, NEW k \in DOMAIN r, r[j] = r[k]
               PROVE  j = k
    BY DEF IsInjective
  <2>1. j \in 1..Len(r) /\ k \in 1..Len(r) /\ Len(s) \in Nat
    BY <1>1
  <2>2. \A m \in 2..Len(r) : m - 1 \in DOMAIN s /\ r[m] = s[m - 1]
    BY <1>1
  <2>3. \A m \in 2..Len(r) : r[m] # e
    BY <2>2 DEF ToSet
  <2>4. CASE j = 1 \/ k = 1
    BY <1>1, <2>1, <2>3, <2>4
  <2>5. CASE j # 1 /\ k # 1
    <3>1. j \in 2..Len(r) /\ k \in 2..Len(r)
      BY <2>1, <2>5
    <3>2. j - 1 \in DOMAIN s /\ k - 1 \in DOMAIN s /\ s[j - 1] = s[k - 1]
      BY <2>2, <3>1
    <3>3. j - 1 = k - 1
      BY <3>2 DEF IsInjective
    <3> QED
      BY <2>1, <3>3
  <2> QED
    BY <2>4, <2>5
<1>3. ASSUME NEW x \in ToSet(r) PROVE x \in ToSet(s) \cup {e}
  <2>0. DOMAIN r = 1..Len(r)
    BY <1>1
  <2>1. PICK j \in 1..Len(r) : r[j] = x
    BY <2>0 DEF ToSet
  <2>2. CASE j = 1
    BY <1>1, <2>1, <2>2
  <2>3. CASE j # 1
    <3>1. j \in 2..Len(r) /\ j - 1 \in DOMAIN s
      BY <1>1, <2>1, <2>3
    <3>2. s[j - 1] = x
      BY <1>1, <2>1, <3>1
    <3> QED
      BY <3>1, <3>2 DEF ToSet
  <2> QED
    BY <2>2, <2>3
<1>4. e \in ToSet(r)
  BY <1>1 DEF ToSet
<1>5. ASSUME NEW x \in ToSet(s) PROVE x \in ToSet(r)
  <2>1. PICK j \in 1..Len(s) : s[j] = x
    BY DEF ToSet
  <2>2. j + 1 \in 1..Len(r) /\ r[j + 1] = x
    BY <1>1, <2>1
  <2>3. j + 1 \in DOMAIN r
    BY <1>1, <2>2
  <2> QED
    BY <2>2, <2>3 DEF ToSet
<1>6. ToSet(r) = ToSet(s) \cup {e}
  BY <1>3, <1>4, <1>5
<1> QED
  BY <1>1, <1>2, <1>6 DEF r

-----------------------------------------------------------------------------
(* Types.  TypeOK is inductive; its parts are named for the frame lemmas.     *)

\* Where a handler waits, a handler that is under way, and what a form may hold.
Places == {"upload", "first", "checked", "written", "second", "state", "nodes", "totals", "settle"}
Shapes == [key : Keys \cup {"unattended"}, at : Places, node : Nodes \cup {NoNode},
           address : Nodes \cup {NoNode}, edits : BOOLEAN]
Active == {h \in Shapes : h.at = "checked" => h.address # NoNode}
Forms == [of : Nodes \cup {NoNode}, secret : Nodes \cup {NoNode},
          obfs : Nodes \cup {NoNode}, fresh : BOOLEAN]

\* A slot is idle or holds a handler under way.
LEMMA HandlersAre == Handlers = Active \cup {Idle} /\ Idle \notin Active
<1>1. Idle \notin Active
  <2>1. Idle.at = "idle" /\ "idle" \notin Places
    BY DEF Idle, Places
  <2> QED
    BY <2>1 DEF Active, Shapes
<1> QED
  BY <1>1 DEF Handlers, Active, Shapes, Places

\* Whoever waits for something is under way.
LEMMA Underway ==
    ASSUME TypeOK, NEW s \in Slots, running[s].at # "idle"
    PROVE  running[s] \in Active
<1>1. running[s] \in Active \cup {Idle} /\ Idle.at = "idle"
  BY HandlersAre DEF TypeOK, Idle
<1> QED
  BY <1>1

\* A handler that goes on stays one.
LEMMA Moves ==
    ASSUME NEW h \in Active, NEW to \in Places \ {"checked"}, NEW m \in Nodes \cup {NoNode},
           NEW a \in Nodes \cup {NoNode}
    PROVE  /\ [h EXCEPT !.at = to] \in Active
           /\ [h EXCEPT !.at = to, !.address = a] \in Active
           /\ [h EXCEPT !.at = to, !.address = a, !.node = m] \in Active
<1>1. h \in Shapes
  BY DEF Active
<1>2. ASSUME NEW g \in Shapes, g.at = to
      PROVE  g \in Active
  BY <1>2 DEF Active
<1>3. [h EXCEPT !.at = to] \in Shapes /\ [h EXCEPT !.at = to].at = to
  BY <1>1 DEF Shapes
<1>4. /\ [h EXCEPT !.at = to, !.address = a] \in Shapes
      /\ [h EXCEPT !.at = to, !.address = a].at = to
  BY <1>1 DEF Shapes
<1>5. /\ [h EXCEPT !.at = to, !.address = a, !.node = m] \in Shapes
      /\ [h EXCEPT !.at = to, !.address = a, !.node = m].at = to
  BY <1>1 DEF Shapes
<1> QED
  BY <1>2, <1>3, <1>4, <1>5

\* A save that passes the checks stays a handler.
LEMMA Passing ==
    ASSUME NEW h \in Active, h.address # NoNode
    PROVE  [h EXCEPT !.at = "checked"] \in Active
<1>1. h \in Shapes
  BY DEF Active
<1>2. [h EXCEPT !.at = "checked"] \in Shapes /\ [h EXCEPT !.at = "checked"].address # NoNode
  BY <1>1 DEF Shapes, Places
<1> QED
  BY <1>2 DEF Active

\* So does a save the page lets go of.
LEMMA Abandoned ==
    ASSUME NEW h \in Active
    PROVE  [h EXCEPT !.key = "unattended"] \in Active
<1>1. h \in Shapes /\ (h.at = "checked" => h.address # NoNode)
  BY DEF Active
<1> DEFINE g == [h EXCEPT !.key = "unattended"]
<1>2. g \in Shapes /\ g.at = h.at /\ g.address = h.address
  BY <1>1 DEF Shapes
<1> QED
  BY <1>1, <1>2 DEF Active

\* A handler that starts is one.
LEMMA Starting == ASSUME NEW h \in Shapes, h.at # "checked" PROVE h \in Active
  BY DEF Active

\* What fills, empties or completes a form leaves a form.
LEMMA FormsAre ==
    /\ EmptyForm \in Forms
    /\ \A n \in Nodes \cup {NoNode} : FormOf(n) \in Forms
    /\ \A f \in Forms, n \in Nodes \cup {NoNode} :
          /\ [f EXCEPT !.secret = n] \in Forms /\ [f EXCEPT !.obfs = n] \in Forms
          /\ [f EXCEPT !.of = n] \in Forms
  BY DEF EmptyForm, FormOf, Forms, NoNode

\* The parts of TypeOK: the panel, the page, the handlers, the bound.
PanelOK ==
    /\ byUpdate \in Seq(Nodes) /\ IsInjective(byUpdate)
    /\ identity \in [Nodes -> Nodes]
    /\ unused \subseteq NewNodes \ ToSet(byUpdate)
    /\ raced \in BOOLEAN
PageOK ==
    /\ list \in Seq([node : Nodes, identity : Nodes])
    /\ form \in Forms
    /\ editing \in Nodes \cup {NoNode} /\ modal \in BOOLEAN /\ locked \in BOOLEAN
    /\ pending \in Nodes \cup {NoNode}
    /\ busy \in Keys \cup {""}
    /\ reveal \in [secret : Nodes \cup {NoNode}, obfs : SUBSET Nodes]
RunsOK == running \in [Slots -> Handlers]
CountOK == failures \in 0..MaxEvents

\* The parts are the whole.
LEMMA TypeIs == TypeOK <=> PanelOK /\ PageOK /\ RunsOK /\ CountOK
  BY DEF TypeOK, PanelOK, PageOK, RunsOK, CountOK, Forms

\* A listed node has a row that holds an address.
LEMMA RowOf ==
    ASSUME PageOK, NEW n \in Listed
    PROVE  n \in Nodes /\ IdentityListed(n) \in Nodes
<1>1. PICK i \in DOMAIN list : list[i].node = n
  BY DEF Listed
<1>2. list[i] \in ToSet(list) /\ \A row \in ToSet(list) : row \in [node : Nodes, identity : Nodes]
  <2> DEFINE R == [node : Nodes, identity : Nodes]
  <2>0. list \in Seq(R)
    BY DEF PageOK
  <2> HIDE DEF R
  <2>1. \A j \in DOMAIN list : list[j] \in R
    BY <2>0
  <2> USE DEF R
  <2> QED
    BY <2>1 DEF ToSet
<1> DEFINE r == CHOOSE row \in ToSet(list) : row.node = n
<1>3. r \in ToSet(list) /\ r.node = n
  BY <1>1, <1>2
<1> QED
  BY <1>2, <1>3 DEF IdentityListed

\* What the panel lists are rows.
LEMMA RowsAre == ASSUME PanelOK PROVE Rows \in Seq([node : Nodes, identity : Nodes])
<1>1. \A i \in 1..Len(byUpdate) : byUpdate[i] \in Nodes /\ identity[byUpdate[i]] \in Nodes
  BY DEF PanelOK
<1>2. DOMAIN byUpdate = 1..Len(byUpdate) /\ Len(byUpdate) \in Nat
  BY DEF PanelOK
<1> QED
  BY <1>1, <1>2 DEF Rows

\* Deleting a row leaves the panel well-typed.
LEMMA PanelForgets == ASSUME PanelOK, NEW n, Forget(n) PROVE PanelOK'
  BY Removed DEF PanelOK, Forget

\* Writing a row leaves the panel well-typed: the row moves to the front, once, unless it
\* was deleted.
LEMMA PanelWrites ==
    ASSUME PanelOK, NEW h, h.address \in Nodes, NEW n \in Nodes, Write(h, n)
    PROVE  PanelOK'
<1>1. /\ RemoveFirst(byUpdate, n) \in Seq(Nodes) /\ IsInjective(RemoveFirst(byUpdate, n))
      /\ ToSet(RemoveFirst(byUpdate, n)) = ToSet(byUpdate) \ {n}
  BY Removed DEF PanelOK
<1>2. /\ byUpdate' \in Seq(Nodes) /\ IsInjective(byUpdate')
      /\ ToSet(byUpdate') \subseteq ToSet(byUpdate) \cup {n}
  <2>1. CASE h.node = NoNode \/ Live(n)
    <3>1. byUpdate' = <<n>> \o RemoveFirst(byUpdate, n)
      BY <2>1 DEF Write
    <3> QED
      BY <1>1, <3>1, Prepended
  <2>2. CASE ~(h.node = NoNode \/ Live(n))
    <3>1. byUpdate' = byUpdate
      BY <2>2 DEF Write
    <3> QED
      BY <3>1 DEF PanelOK
  <2> QED
    BY <2>1, <2>2
<1>3. identity' \in [Nodes -> Nodes] /\ unused' = unused \ {n} /\ raced' = raced
  BY DEF Write, PanelOK
<1> QED
  BY <1>2, <1>3 DEF PanelOK

\* The page after the first load is well-typed.
LEMMA TypeInit == ConsoleAssumption /\ Init => TypeOK
<1> SUFFICES ASSUME ConsoleAssumption, Init PROVE TypeOK
  OBVIOUS
<1>1. PanelOK
  <2>1. OldNodes \in Seq(Nodes)
    BY DEF ConsoleAssumption, Nodes, ToSet
  <2> QED
    BY <2>1 DEF Init, PanelOK, ConsoleAssumption, Nodes
<1>2. PageOK
  <2>1. list \in Seq([node : Nodes, identity : Nodes])
    BY <1>1, RowsAre DEF Init
  <2>2. Head(OldNodes) \in Nodes
    <3>1. OldNodes \in Seq(Nodes) /\ OldNodes # <<>>
      BY <1>1 DEF PanelOK, Init, ConsoleAssumption
    <3> QED
      BY <3>1
  <2> QED
    BY <2>1, <2>2, FormsAre DEF Init, PageOK
<1>3. RunsOK /\ CountOK
  <2>1. MaxEvents \in Nat /\ failures = 0
    BY DEF Init, ConsoleAssumption
  <2>2. running = [s \in Slots |-> Idle] /\ Idle \in Handlers
    BY HandlersAre DEF Init
  <2> QED
    BY <2>1, <2>2 DEF RunsOK, CountOK
<1> QED
  BY <1>1, <1>2, <1>3, TypeIs

\* One slot changes to idle or to a handler under way.
LEMMA OneHandler ==
    ASSUME RunsOK, NEW s \in Slots, NEW h \in Active \cup {Idle},
           running' = [running EXCEPT ![s] = h]
    PROVE  RunsOK'
  BY HandlersAre DEF RunsOK

\* What did not change of the panel keeps its type.
LEMMA PanelFrame == ASSUME PanelOK, UNCHANGED panel PROVE PanelOK'
  BY DEF PanelOK, panel

\* So does the page,
LEMMA PageFrame ==
    ASSUME PageOK, UNCHANGED <<list, form, editing, modal, locked, pending, busy, reveal>>
    PROVE  PageOK'
  BY DEF PageOK

\* also when a handler lets go of it,
LEMMA PageReleased == ASSUME PageOK, NEW s \in Slots, LetGo(s) PROVE PageOK'
  BY DEF PageOK, LetGo, Released

\* and so do the handlers,
LEMMA RunsFrame == ASSUME RunsOK, UNCHANGED running PROVE RunsOK'
  BY DEF RunsOK

\* and the failures, of which a fault adds one within the bound.
LEMMA CountFrame ==
    ASSUME ConsoleAssumption, PageOK, CountOK, UNCHANGED failures \/ Fault PROVE CountOK'
<1>1. IsFiniteSet(Nodes)
  <2>1. OldNodes \in Seq(Nat \ {0})
    BY DEF ConsoleAssumption
  <2>2. DOMAIN OldNodes = 1..Len(OldNodes) /\ Len(OldNodes) \in Nat
    BY <2>1
  <2>3. IsFiniteSet(DOMAIN OldNodes)
    BY <2>2, FS_Interval
  <2>4. IsFiniteSet(ToSet(OldNodes))
    <3>1. OldNodes \in [DOMAIN OldNodes -> ToSet(OldNodes)]
      BY <2>1 DEF ToSet
    <3>2. \A n \in ToSet(OldNodes) : \E i \in DOMAIN OldNodes : OldNodes[i] = n
      BY DEF ToSet
    <3>3. OldNodes \in Surjection(DOMAIN OldNodes, ToSet(OldNodes))
      BY <3>1, <3>2 DEF Surjection
    <3> QED
      BY <2>3, <3>3, FS_Surjection
  <2> QED
    BY <2>4, FS_Union DEF ConsoleAssumption, Nodes
<1>2. Cardinality(reveal.obfs) \in Nat
  <2>1. reveal.obfs \subseteq Nodes
    BY DEF PageOK
  <2> QED
    BY <1>1, <2>1, FS_Subset, FS_CardinalityType
<1> DEFINE read == IF reveal.secret = NoNode THEN 0 ELSE 1
           obfs == Cardinality(reveal.obfs)
<1>3. failures' = failures \/ (obfs + read + failures < MaxEvents /\ failures' = failures + 1)
  BY DEF Fault, Spare
<1>4. read \in Nat /\ obfs \in Nat /\ failures \in 0..MaxEvents /\ MaxEvents \in Nat
  BY <1>2 DEF CountOK, ConsoleAssumption
<1> HIDE DEF read, obfs
<1>5. failures' \in 0..MaxEvents
  BY <1>3, <1>4
<1> QED
  BY <1>5 DEF CountOK

\* A request that fails frees what its handler held.
LEMMA TypeFails ==
    ASSUME TypeOK, NEW s \in Slots, HandlerFails(s)
    PROVE  PageOK' /\ RunsOK'
<1>1. running[s] \in Active
  BY Underway DEF HandlerFails
<1>2. PageOK'
  BY <1>1, PageReleased, TypeIs DEF HandlerFails
<1> QED
  BY <1>2, OneHandler, TypeIs DEF HandlerFails, Finish

\* Every step of a handler that waits keeps the types.
LEMMA TypeAnswers ==
    ASSUME ConsoleAssumption, TypeOK, NEW s \in Slots, Answers(s)
    PROVE  TypeOK'
<1> PanelOK /\ PageOK /\ RunsOK /\ CountOK
  BY TypeIs
<1> SUFFICES PanelOK' /\ PageOK' /\ RunsOK' /\ CountOK'
  BY TypeIs DEF TypeOK, PanelOK, PageOK, RunsOK, CountOK, Forms
<1> USE DEF editor
<1>1. CASE KeyUploaded(s)
  <2> DEFINE h == [running[s] EXCEPT !.at = "first", !.address = form.of,
                                     !.node = IF running[s].edits THEN editing ELSE NoNode]
  <2>1. running' = [running EXCEPT ![s] = h]
    BY <1>1 DEF KeyUploaded
  <2>2. running[s] \in Active
    BY <1>1, Underway DEF KeyUploaded, Waits
  <2>3. form \in Forms /\ form.of \in Nodes \cup {NoNode} /\ editing \in Nodes \cup {NoNode}
    BY DEF PageOK, Forms
  <2>4. h \in Active
    <3>1. "first" \in Places \ {"checked"}
      BY DEF Places
    <3>2. (IF running[s].edits THEN editing ELSE NoNode) \in Nodes \cup {NoNode}
      BY <2>3
    <3> QED
      BY <2>2, <2>3, <3>1, <3>2, Moves
  <2> HIDE DEF h
  <2>5. RunsOK'
    BY <2>1, <2>4, OneHandler
  <2>6. form' \in Forms
    BY <1>1, <2>3, FormsAre DEF KeyUploaded
  <2>7. PageOK'
    BY <1>1, <2>6 DEF KeyUploaded, PageOK
  <2> QED
    BY <1>1, <2>5, <2>7, PanelFrame, CountFrame DEF KeyUploaded
<1>2. CASE Answered(s)
  <2> DEFINE h(to) == [running[s] EXCEPT !.at = to]
  <2>1. PICK to \in {"second", "state"} : running' = [running EXCEPT ![s] = h(to)]
    BY <1>2 DEF Answered, Advance
  <2>2. running[s] \in Active
    BY <1>2, Underway DEF Answered, Asks, Waits
  <2>3. h(to) \in Active
    <3>1. to \in Places \ {"checked"}
      BY DEF Places
    <3> QED
      BY <2>2, <3>1, Moves
  <2> HIDE DEF h
  <2>4. RunsOK'
    BY <2>1, <2>3, OneHandler
  <2>5. PanelOK'
    BY <1>2, PanelForgets, PanelFrame DEF Answered
  <2> QED
    BY <1>2, <2>4, <2>5, PageFrame, CountFrame DEF Answered
<1>11. CASE SaveChecked(s)
  <2> DEFINE h == [running[s] EXCEPT !.at = "checked"]
  <2>1. running' = [running EXCEPT ![s] = h]
    BY <1>11 DEF SaveChecked, Advance
  <2>2. running[s] \in Active /\ running[s].address # NoNode
    BY <1>11, Underway DEF SaveChecked, Saves, Passes
  <2>3. h \in Active
    BY <2>2, Passing
  <2> HIDE DEF h
  <2>4. RunsOK'
    BY <2>1, <2>3, OneHandler
  <2>5. PanelOK'
    BY <1>11 DEF SaveChecked, PanelOK
  <2> QED
    BY <1>11, <2>4, <2>5, PageFrame, CountFrame DEF SaveChecked
<1>12. CASE SaveWritten(s)
  <2> DEFINE h(n) == [running[s] EXCEPT !.at = "written", !.address = NoNode, !.node = n]
  <2>1. PICK n \in Nodes :
           /\ Write(running[s], n)
           /\ running' = [running EXCEPT ![s].at = "written", ![s].node = n, ![s].address = NoNode]
    BY <1>12 DEF SaveWritten
  <2>2. running' = [running EXCEPT ![s] = h(n)]
    BY <2>1
  <2>3. running[s] \in Active /\ running[s].address \in Nodes
    <3>1. running[s].at = "checked"
      BY <1>12 DEF SaveWritten
    <3>2. running[s] \in Active
      BY <3>1, Underway
    <3> QED
      BY <3>1, <3>2 DEF Active, Shapes
  <2>4. h(n) \in Active
    <3>1. "written" \in Places \ {"checked"}
      BY DEF Places
    <3> QED
      BY <2>3, <3>1, Moves
  <2> HIDE DEF h
  <2>5. RunsOK'
    BY <2>2, <2>4, OneHandler
  <2>6. PanelOK'
    BY <2>1, <2>3, PanelWrites
  <2> QED
    BY <1>12, <2>5, <2>6, PageFrame, CountFrame DEF SaveWritten
<1>13. CASE SaveAnswered(s)
  <2> DEFINE h(to) == [running[s] EXCEPT !.at = to]
  <2>1. PICK to \in {"second", "state"} : running' = [running EXCEPT ![s] = h(to)]
    BY <1>13 DEF SaveAnswered, Advance
  <2>2. running[s] \in Active
    BY <1>13, Underway DEF SaveAnswered, Waits
  <2>3. h(to) \in Active
    <3>1. to \in Places \ {"checked"}
      BY DEF Places
    <3> QED
      BY <2>2, <3>1, Moves
  <2> HIDE DEF h
  <2>4. RunsOK'
    BY <2>1, <2>3, OneHandler
  <2>5. running[s].node \in Nodes
    <3>1. running[s].node \in ToSet(byUpdate)
      BY <1>13 DEF SaveAnswered, Live
    <3> QED
      BY <3>1 DEF PanelOK, ToSet
  <2>6. form' \in Forms
    BY <1>13, <2>5, FormsAre DEF SaveAnswered, PanelOK
  <2>7. PageOK'
    BY <1>13, <2>6 DEF SaveAnswered, PageOK
  <2> QED
    BY <1>13, <2>4, <2>7, PanelFrame, CountFrame DEF SaveAnswered
<1>3. CASE Rejected(s)
  BY <1>3, TypeFails, PanelFrame, CountFrame DEF Rejected
<1>4. CASE TrafficSynced(s)
  <2> DEFINE h == [running[s] EXCEPT !.at = "state"]
  <2>1. running' = [running EXCEPT ![s] = h]
    BY <1>4 DEF TrafficSynced, Advance
  <2>2. running[s] \in Active
    BY <1>4, Underway DEF TrafficSynced, Waits
  <2>3. h \in Active
    BY <2>2, Moves DEF Places
  <2> HIDE DEF h
  <2> QED
    BY <1>4, <2>1, <2>3, OneHandler, PanelFrame, PageFrame, CountFrame DEF TrafficSynced
<1>5. CASE StateRead(s)
  <2> DEFINE address == IF byUpdate = <<>> THEN NoNode ELSE identity[Head(byUpdate)]
             h == [running[s] EXCEPT !.at = "nodes", !.address = address]
  <2>1. running' = [running EXCEPT ![s] = h]
    BY <1>5 DEF StateRead
  <2>2. running[s] \in Active
    BY <1>5, Underway DEF StateRead
  <2>3. address \in Nodes \cup {NoNode}
    BY DEF PanelOK
  <2> HIDE DEF address
  <2>4. h \in Active
    BY <2>2, <2>3, Moves DEF Places
  <2> HIDE DEF h
  <2> QED
    BY <1>5, <2>1, <2>4, OneHandler, PanelFrame, PageFrame, CountFrame DEF StateRead
<1>6. CASE NodesRead(s)
  <2> DEFINE h == [running[s] EXCEPT !.at = "totals", !.address = NoNode]
  <2>1. running' = [running EXCEPT ![s] = h]
    BY <1>6 DEF NodesRead
  <2>2. running[s] \in Active
    BY <1>6, Underway DEF NodesRead
  <2>3. h \in Active
    BY <2>2, Moves DEF Places
  <2> HIDE DEF h
  <2>4. form' \in Forms
    <3>1. running[s].address \in Nodes \cup {NoNode} /\ form \in Forms
      BY <2>2 DEF Active, Shapes, PageOK
    <3> QED
      BY <1>6, <3>1, FormsAre DEF NodesRead
  <2>5. PageOK'
    BY <1>6, <2>4, RowsAre DEF NodesRead, PageOK
  <2> QED
    BY <1>6, <2>1, <2>3, <2>5, OneHandler, PanelFrame, CountFrame DEF NodesRead
<1>7. CASE ServiceActionDone(s) \/ TrafficSyncDone(s)
  <2>1. running' = [running EXCEPT ![s] = Idle] /\ UNCHANGED <<panel, failures>>
    BY <1>7 DEF ServiceActionDone, TrafficSyncDone, Finish
  <2>2. PageOK'
    BY <1>7 DEF ServiceActionDone, TrafficSyncDone, Released, PageOK
  <2> QED
    BY <2>1, <2>2, OneHandler, PanelFrame, CountFrame
<1>8. CASE NodeDeleted(s)
  <2>1. running' = [running EXCEPT ![s] = Idle] /\ UNCHANGED <<panel, failures>>
    BY <1>8 DEF NodeDeleted, Finish
  <2>2. PageOK'
    <3>1. form' \in Forms /\ editing' \in Nodes \cup {NoNode} /\ modal' \in BOOLEAN
      BY <1>8, FormsAre DEF NodeDeleted, PageOK
    <3> QED
      BY <1>8, <3>1 DEF NodeDeleted, Released, PageOK
  <2> QED
    BY <2>1, <2>2, OneHandler, PanelFrame, CountFrame
<1>9. CASE NodeSaved(s)
  <2> DEFINE h == [running[s] EXCEPT !.at = "settle"]
  <2>1. running' = [running EXCEPT ![s] = h]
    BY <1>9 DEF NodeSaved, Advance
  <2>2. running[s] \in Active
    BY <1>9, Underway DEF NodeSaved, Waits
  <2>3. h \in Active
    BY <2>2, Moves DEF Places
  <2> HIDE DEF h
  <2>4. PageOK'
    BY <1>9 DEF NodeSaved, Released, PageOK
  <2> QED
    BY <1>9, <2>1, <2>3, <2>4, OneHandler, PanelFrame, CountFrame DEF NodeSaved
<1>10. CASE EditorDone(s)
  <2>1. PageOK'
    BY <1>10 DEF EditorDone, PageOK
  <2> QED
    BY <1>10, <2>1, OneHandler, PanelFrame, CountFrame DEF EditorDone, Finish
<1> QED
  BY <1>1, <1>2, <1>3, <1>4, <1>5, <1>6, <1>7, <1>8, <1>9, <1>10, <1>11, <1>12, <1>13 DEF Answers

\* So does what goes wrong, and what others do.
LEMMA TypeElsewhere ==
    ASSUME ConsoleAssumption, TypeOK, NEW s \in Slots, Elsewhere(s)
    PROVE  TypeOK'
<1> PanelOK /\ PageOK /\ RunsOK /\ CountOK
  BY TypeIs
<1> SUFFICES PanelOK' /\ PageOK' /\ RunsOK' /\ CountOK'
  BY TypeIs DEF TypeOK, PanelOK, PageOK, RunsOK, CountOK, Forms
<1> USE DEF editor
<1>1. CASE Fails(s)
  BY <1>1, TypeFails, PanelFrame, CountFrame DEF Fails
<1>2. CASE AnswerLost(s) \/ InstallFails(s)
  <2>1. Forget(running[s].node) /\ HandlerFails(s) /\ Fault
    BY <1>2 DEF AnswerLost, InstallFails
  <2> QED
    BY <2>1, PanelForgets, TypeFails, CountFrame
<1>3. CASE GiveUp(s)
  <2> DEFINE h == [running[s] EXCEPT !.key = "unattended"]
  <2>1. running' = [running EXCEPT ![s] = h] /\ LetGo(s) /\ Fault /\ UNCHANGED panel
    BY <1>3 DEF GiveUp
  <2>2. running[s] \in Active
    BY <1>3, Underway DEF GiveUp
  <2>3. h \in Active
    BY <2>2, Abandoned
  <2> HIDE DEF h
  <2> QED
    BY <2>1, <2>3, OneHandler, PageReleased, PanelFrame, CountFrame
<1>4. CASE UnattendedEnds(s)
  <2>1. PanelOK'
    BY <1>4, PanelForgets, PanelFrame DEF UnattendedEnds
  <2> QED
    BY <1>4, <2>1, OneHandler, PageFrame, CountFrame DEF UnattendedEnds, Finish
<1>5. ASSUME NEW n \in Nodes \cup {NoNode}, NEW address \in Nodes, OtherAdminSaves(s, n, address)
      PROVE  PanelOK' /\ PageOK' /\ RunsOK' /\ CountOK'
  <2> DEFINE h == [Idle EXCEPT !.key = "unattended", !.at = "first", !.node = n,
                               !.address = address, !.edits = n # NoNode]
  <2>1. running' = [running EXCEPT ![s] = h]
    BY <1>5 DEF OtherAdminSaves, Start
  <2>2. h \in Shapes /\ h.at # "checked"
    BY DEF Shapes, Idle, Places
  <2>4. h \in Active
    BY <2>2, Starting
  <2> HIDE DEF h
  <2>3. RunsOK'
    BY <2>1, <2>4, OneHandler
  <2> QED
    BY <1>5, <2>3, PanelFrame, PageFrame, CountFrame DEF OtherAdminSaves
<1> QED
  BY <1>1, <1>2, <1>3, <1>4, <1>5 DEF Elsewhere

\* A handler that starts is one under way.
LEMMA Starts ==
    ASSUME TypeOK, NEW s \in Slots, NEW h \in Active, Start(s, h)
    PROVE  RunsOK'
  BY OneHandler, TypeIs DEF Start

\* Whatever the operator clicks keeps the types.
LEMMA TypeOperator ==
    ASSUME ConsoleAssumption, TypeOK, Operator
    PROVE  TypeOK'
<1> PanelOK /\ PageOK /\ RunsOK /\ CountOK
  BY TypeIs
<1> SUFFICES PanelOK' /\ PageOK' /\ RunsOK' /\ CountOK'
  BY TypeIs DEF TypeOK, PanelOK, PageOK, RunsOK, CountOK, Forms
<1> USE DEF editor
<1>1. CASE handleCreateNode
  <2>1. PageOK'
    BY <1>1, FormsAre DEF handleCreateNode, PageOK
  <2> QED
    BY <1>1, <2>1, PanelFrame, RunsFrame, CountFrame DEF handleCreateNode
<1>2. CASE handleResetNodeForm
  <2>1. form' \in Forms
    BY <1>2, FormsAre, RowOf DEF handleResetNodeForm
  <2>2. PageOK'
    BY <1>2, <2>1 DEF handleResetNodeForm, PageOK
  <2> QED
    BY <1>2, <2>2, PanelFrame, RunsFrame, CountFrame DEF handleResetNodeForm
<1>3. CASE closeNodeModal \/ closeNodeDeleteModal
  <2>1. PageOK'
    BY <1>3 DEF closeNodeModal, closeNodeDeleteModal, PageOK
  <2> QED
    BY <1>3, <2>1, PanelFrame, RunsFrame, CountFrame DEF closeNodeModal, closeNodeDeleteModal
<1>4. CASE togglePasswordVisibility \/ revealNodeObfs
  <2>1. editing \in Nodes
    BY <1>4, RowOf DEF togglePasswordVisibility, revealNodeObfs
  <2> DEFINE Reveals == [secret : Nodes \cup {NoNode}, obfs : SUBSET Nodes]
  <2>a. reveal \in Reveals
    BY DEF PageOK
  <2>2. reveal' \in Reveals
    <3>1. CASE togglePasswordVisibility
      <4>1. reveal' = [reveal EXCEPT !.secret = editing]
        BY <3>1 DEF togglePasswordVisibility
      <4> QED
        BY <2>1, <2>a, <4>1
    <3>2. CASE revealNodeObfs
      <4>1. reveal' = [reveal EXCEPT !.obfs = reveal.obfs \cup {editing}]
        BY <3>2 DEF revealNodeObfs
      <4>2. reveal.obfs \cup {editing} \in SUBSET Nodes
        BY <2>1, <2>a
      <4> QED
        BY <2>a, <4>1, <4>2
    <3> QED
      BY <1>4, <3>1, <3>2
  <2>b. UNCHANGED <<list, form, editing, modal, locked, pending, busy>>
    BY <1>4 DEF togglePasswordVisibility, revealNodeObfs
  <2>3. PageOK'
    BY <2>2, <2>b DEF PageOK
  <2> QED
    BY <1>4, <2>3, PanelFrame, RunsFrame, CountFrame DEF togglePasswordVisibility, revealNodeObfs
<1>5. ASSUME NEW n \in Nodes, handleEditNode(n)
      PROVE  PanelOK' /\ PageOK' /\ RunsOK' /\ CountOK'
  <2>1. form' \in Forms
    BY <1>5, FormsAre, RowOf DEF handleEditNode
  <2>2. PageOK'
    BY <1>5, <2>1 DEF handleEditNode, PageOK
  <2> QED
    BY <1>5, <2>2, PanelFrame, RunsFrame, CountFrame DEF handleEditNode
<1>6. ASSUME NEW n \in Nodes, handleDeleteNode(n)
      PROVE  PanelOK' /\ PageOK' /\ RunsOK' /\ CountOK'
  <2>1. PageOK'
    BY <1>6 DEF handleDeleteNode, PageOK
  <2> QED
    BY <1>6, <2>1, PanelFrame, RunsFrame, CountFrame DEF handleDeleteNode
<1>7. ASSUME NEW s \in Slots, handleSaveNode(s)
      PROVE  PanelOK' /\ PageOK' /\ RunsOK' /\ CountOK'
  <2> DEFINE upload == [Idle EXCEPT !.key = "node-save", !.at = "upload",
                                    !.edits = editing # NoNode]
             save == [Idle EXCEPT !.key = "node-save", !.at = "first", !.node = editing,
                                  !.address = form.of, !.edits = editing # NoNode]
  <2>1. Start(s, upload) \/ Start(s, save)
    BY <1>7 DEF handleSaveNode
  <2>2. editing \in Nodes \cup {NoNode} /\ form.of \in Nodes \cup {NoNode}
    BY DEF PageOK, Forms
  <2>a. upload \in Shapes /\ upload.at # "checked"
    BY <2>2 DEF Shapes, Idle, Keys, Places
  <2>b. save \in Shapes /\ save.at # "checked"
    BY <2>2 DEF Shapes, Idle, Keys, Places
  <2>3. upload \in Active /\ save \in Active
    BY <2>a, <2>b, Starting
  <2> HIDE DEF upload, save
  <2>4. RunsOK'
    BY <2>1, <2>3, Starts
  <2>5. PageOK'
    BY <1>7 DEF handleSaveNode, PageOK, Keys
  <2> QED
    BY <1>7, <2>4, <2>5, PanelFrame, CountFrame DEF handleSaveNode
<1>8. ASSUME NEW s \in Slots, confirmDeleteNode(s)
      PROVE  PanelOK' /\ PageOK' /\ RunsOK' /\ CountOK'
  <2> DEFINE h(at) == [Idle EXCEPT !.key = "node-delete", !.at = at, !.node = pending]
  <2>1. Start(s, h("first")) \/ Start(s, h("second"))
    BY <1>8 DEF confirmDeleteNode
  <2>2. pending \in Nodes \cup {NoNode}
    BY DEF PageOK
  <2>a. ASSUME NEW at \in {"first", "second"}
        PROVE  h(at) \in Shapes /\ h(at).at # "checked"
    BY <2>2 DEF Shapes, Idle, Keys, Places
  <2>3. h("first") \in Active /\ h("second") \in Active
    BY <2>a, Starting
  <2> HIDE DEF h
  <2>4. RunsOK'
    BY <2>1, <2>3, Starts
  <2>5. PageOK'
    BY <1>8 DEF confirmDeleteNode, PageOK, Keys
  <2> QED
    BY <1>8, <2>4, <2>5, PanelFrame, CountFrame DEF confirmDeleteNode
<1>9. ASSUME NEW s \in Slots, syncTrafficUsageForTrafficView(s)
      PROVE  PanelOK' /\ PageOK' /\ RunsOK' /\ CountOK'
  <2> DEFINE h == [Idle EXCEPT !.key = "traffic-sync-enter", !.at = "first"]
  <2>a. h \in Shapes /\ h.at # "checked"
    BY DEF Shapes, Idle, Keys, Places
  <2>1. h \in Active
    BY <2>a, Starting
  <2>2. RunsOK'
    BY <1>9, <2>1, Starts DEF syncTrafficUsageForTrafficView
  <2>3. PageOK'
    BY <1>9 DEF syncTrafficUsageForTrafficView, PageOK, Keys
  <2> QED
    BY <1>9, <2>2, <2>3, PanelFrame, CountFrame DEF syncTrafficUsageForTrafficView
<1>10. ASSUME NEW s \in Slots, NEW n \in Nodes, handleServiceAction(s, n)
       PROVE  PanelOK' /\ PageOK' /\ RunsOK' /\ CountOK'
  <2> DEFINE h == [Idle EXCEPT !.key = "node-service", !.at = "first", !.node = n]
  <2>a. h \in Shapes /\ h.at # "checked"
    BY DEF Shapes, Idle, Keys, Places
  <2>1. h \in Active
    BY <2>a, Starting
  <2>2. RunsOK'
    BY <1>10, <2>1, Starts DEF handleServiceAction
  <2>3. PageOK'
    BY <1>10 DEF handleServiceAction, PageOK, Keys
  <2> QED
    BY <1>10, <2>2, <2>3, PanelFrame, CountFrame DEF handleServiceAction
<1>11. ASSUME NEW n \in Nodes, typeAddress(n)
       PROVE  PanelOK' /\ PageOK' /\ RunsOK' /\ CountOK'
  <2>1. form' \in Forms
    BY <1>11, FormsAre DEF typeAddress, PageOK
  <2>2. PageOK'
    BY <1>11, <2>1 DEF typeAddress, PageOK
  <2> QED
    BY <1>11, <2>2, PanelFrame, RunsFrame, CountFrame DEF typeAddress
<1> QED
  BY <1>1, <1>2, <1>3, <1>4, <1>5, <1>6, <1>7, <1>8, <1>9, <1>10, <1>11 DEF Operator

\* Every step keeps the types.
LEMMA TypeNext == ConsoleAssumption /\ TypeOK /\ [Next]_vars => TypeOK'
<1> SUFFICES ASSUME ConsoleAssumption, TypeOK, [Next]_vars
             PROVE  TypeOK'
  OBVIOUS
<1> PanelOK /\ PageOK /\ RunsOK /\ CountOK
  BY TypeIs
<1> DEFINE Ok == PanelOK' /\ PageOK' /\ RunsOK' /\ CountOK'
<1> USE DEF editor
<1>1. Ok => TypeOK'
  BY TypeIs DEF TypeOK, PanelOK, PageOK, RunsOK, CountOK, Forms
<1>2. CASE SecretRead
  <2>1. form' \in Forms
    BY <1>2, FormsAre DEF SecretRead, PageOK
  <2>2. reveal' \in [secret : Nodes \cup {NoNode}, obfs : SUBSET Nodes]
    BY <1>2 DEF SecretRead, PageOK
  <2>3. PageOK'
    BY <1>2, <2>1, <2>2 DEF SecretRead, PageOK
  <2> QED
    BY <1>1, <1>2, <2>3, PanelFrame, RunsFrame, CountFrame DEF SecretRead
<1>3. ASSUME NEW n \in Nodes, ObfsRead(n)
      PROVE  TypeOK'
  <2>1. form' \in Forms
    BY <1>3, FormsAre DEF ObfsRead, PageOK
  <2>2. reveal' \in [secret : Nodes \cup {NoNode}, obfs : SUBSET Nodes]
    BY <1>3 DEF ObfsRead, PageOK
  <2>3. PageOK'
    BY <1>3, <2>1, <2>2 DEF ObfsRead, PageOK
  <2> QED
    BY <1>1, <1>3, <2>3, PanelFrame, RunsFrame, CountFrame DEF ObfsRead
<1>4. ASSUME NEW n \in Nodes, OtherAdminDeletes(n)
      PROVE  TypeOK'
  BY <1>1, <1>4, PanelForgets, PageFrame, RunsFrame, CountFrame DEF OtherAdminDeletes
<1>5. CASE UNCHANGED vars
  BY <1>1, <1>5, PanelFrame, PageFrame, RunsFrame, CountFrame DEF vars
<1> QED
  BY <1>2, <1>3, <1>4, <1>5, TypeAnswers, TypeElsewhere, TypeOperator DEF Next

\* The node page is type correct, and the panel lists every node once, for any number of nodes
\* and handlers.
THEOREM TypeCorrect == ASSUME ConsoleAssumption PROVE Spec => []TypeOK
  BY TypeInit, TypeNext, PTL DEF Spec

-----------------------------------------------------------------------------
(* Addresses.                                                                *)

\* What a save that passed the check saw of its address is still so, and two of them are
\* about the same row.
Kept ==
    /\ IdentityUnique
    /\ \A s \in Slots : running[s].at = "checked" =>
          AddressFree(running[s].node, running[s].address)
    /\ \A s, t \in Slots :
          /\ s # t /\ running[s].at = "checked" /\ running[t].at = "checked"
          /\ running[s].address = running[t].address
          => running[s].node = running[t].node /\ running[s].node # NoNode
UniqueInv == ~raced => Kept

\* No node is called NoNode.
LEMMA NoNodeIsNone == ASSUME ConsoleAssumption PROVE NoNode \notin Nodes
<1>1. OldNodes \in Seq(Nat \ {0}) /\ NewNodes \subseteq Nat \ {0}
  BY DEF ConsoleAssumption
<1>2. \A i \in DOMAIN OldNodes : OldNodes[i] # 0
  BY <1>1
<1> QED
  BY <1>1, <1>2 DEF Nodes, NoNode, ToSet

\* Handlers keep their fields.
LEMMA TypesHandled == ASSUME TypeOK PROVE Handled
<1>1. running \in [Slots -> Active \cup {Idle}]
  BY HandlersAre DEF TypeOK
<1>2. \A h \in Active : IsHandler(h)
  BY DEF Active, Shapes, IsHandler
<1> QED
  BY <1>1, <1>2, IdleIsHandler DEF Handled

\* No save passes the check, and no row gets another address.
LEMMA UniqueStep ==
    ASSUME UniqueInv, Handled, NEW s \in Slots, NEW h,
           running' = [running EXCEPT ![s] = h],
           h.at = "checked" => h = [running[s] EXCEPT !.key = h.key],
           UNCHANGED <<identity, raced>>, ToSet(byUpdate') \subseteq ToSet(byUpdate)
    PROVE  UniqueInv'
<1> SUFFICES ASSUME ~raced PROVE Kept'
  BY DEF UniqueInv
<1>1. Kept
  BY DEF UniqueInv
<1>2. ASSUME NEW t \in Slots, running'[t].at = "checked"
      PROVE  /\ running[t].at = "checked"
             /\ running'[t].node = running[t].node /\ running'[t].address = running[t].address
  <2>1. running'[t] = IF t = s THEN h ELSE running[t]
    BY DEF Handled
  <2>2. CASE t # s
    BY <1>2, <2>1, <2>2
  <2>3. CASE t = s
    <3>1. h = [running[s] EXCEPT !.key = h.key] /\ IsHandler(running[s])
      BY <1>2, <2>1, <2>3 DEF Handled
    <3>2. h.at = running[s].at /\ h.node = running[s].node /\ h.address = running[s].address
      BY <3>1 DEF IsHandler
    <3> QED
      BY <1>2, <2>1, <2>3, <3>2
  <2> QED
    BY <2>2, <2>3
<1>3. IdentityUnique'
  BY <1>1 DEF Kept, IdentityUnique
<1>5. ASSUME NEW t \in Slots, running'[t].at = "checked",
             NEW other \in ToSet(byUpdate') \ {running'[t].node}
      PROVE  identity'[other] # running'[t].address
  BY <1>1, <1>2, <1>5 DEF Kept, AddressFree
<1>6. ASSUME NEW t \in Slots, NEW u \in Slots, t # u,
             running'[t].at = "checked", running'[u].at = "checked",
             running'[t].address = running'[u].address
      PROVE  running'[t].node = running'[u].node /\ running'[t].node # NoNode
  BY <1>1, <1>2, <1>6 DEF Kept
<1> QED
  BY <1>3, <1>5, <1>6 DEF Kept, AddressFree

\* Neither the handlers nor the rows are concerned.
LEMMA UniqueKept ==
    ASSUME UniqueInv, UNCHANGED <<running, identity, raced>>,
           ToSet(byUpdate') \subseteq ToSet(byUpdate)
    PROVE  UniqueInv'
  BY DEF UniqueInv, Kept, IdentityUnique, AddressFree

\* A row is deleted, or nothing happens in the panel.
LEMMA Fewer ==
    ASSUME TypeOK, NEW n, Forget(n) \/ UNCHANGED panel
    PROVE  UNCHANGED <<identity, raced>> /\ ToSet(byUpdate') \subseteq ToSet(byUpdate)
<1>1. byUpdate \in Seq(Nodes) /\ IsInjective(byUpdate)
  BY DEF TypeOK
<1>2. ToSet(RemoveFirst(byUpdate, n)) = ToSet(byUpdate) \ {n}
  BY <1>1, Removed
<1> QED
  BY <1>2 DEF Forget, panel

\* A save passes the check: its address is free, and no other save has passed for it unless
\* that is about the same row.
LEMMA UniqueChecked ==
    ASSUME UniqueInv, TypeOK, NEW s \in Slots, SaveChecked(s)
    PROVE  UniqueInv'
<1> SUFFICES ASSUME ~raced' PROVE Kept'
  BY DEF UniqueInv
<1>1. ~raced /\ \A t \in Slots \ {s} : ~Competes(running[s], running[t])
  BY DEF SaveChecked
<1>2. Kept
  BY <1>1 DEF UniqueInv
<1>3. running' = [running EXCEPT ![s] = [running[s] EXCEPT !.at = "checked"]]
  BY DEF SaveChecked, Advance
<1>4. Handled
  BY TypesHandled
<1>5. \A t \in Slots \ {s} : running'[t] = running[t]
  BY <1>3, <1>4 DEF Handled
<1>6. running'[s].node = running[s].node /\ running'[s].address = running[s].address
  BY <1>3, <1>4 DEF Handled, IsHandler
<1>7. AddressFree(running[s].node, running[s].address)
  BY DEF SaveChecked, Passes
<1>8. UNCHANGED <<byUpdate, identity>>
  BY DEF SaveChecked
<1>10. IdentityUnique'
  BY <1>2, <1>8 DEF Kept, IdentityUnique
<1>11. ASSUME NEW t \in Slots, running'[t].at = "checked",
              NEW other \in ToSet(byUpdate') \ {running'[t].node}
       PROVE  identity'[other] # running'[t].address
  <2>1. CASE t = s
    BY <1>6, <1>7, <1>8, <1>11, <2>1 DEF AddressFree
  <2>2. CASE t # s
    BY <1>2, <1>5, <1>8, <1>11, <2>2 DEF Kept, AddressFree
  <2> QED
    BY <2>1, <2>2
<1>12. ASSUME NEW t \in Slots \ {s}, running[t].at = "checked",
              running[t].address = running[s].address
       PROVE  running[t].node = running[s].node /\ running[s].node # NoNode
  BY <1>1, <1>12 DEF Competes
<1>13. ASSUME NEW t \in Slots, NEW u \in Slots, t # u,
              running'[t].at = "checked", running'[u].at = "checked",
              running'[t].address = running'[u].address
       PROVE  running'[t].node = running'[u].node /\ running'[t].node # NoNode
  <2>1. CASE t = s
    BY <1>5, <1>6, <1>12, <1>13, <2>1
  <2>2. CASE u = s
    BY <1>5, <1>6, <1>12, <1>13, <2>2
  <2>3. CASE t # s /\ u # s
    BY <1>2, <1>5, <1>13, <2>3 DEF Kept
  <2> QED
    BY <2>1, <2>2, <2>3
<1> QED
  BY <1>10, <1>11, <1>13 DEF Kept, AddressFree

\* A save writes: no other live row has its address still, and whoever else passed the check
\* for that address writes the same row.
LEMMA UniqueWritten ==
    ASSUME ConsoleAssumption, UniqueInv, TypeOK, NEW s \in Slots, SaveWritten(s)
    PROVE  UniqueInv'
<1> DEFINE node == running[s].node
           address == running[s].address
<1>1. PICK n \in Nodes :
         /\ Write(running[s], n)
         /\ running' = [running EXCEPT ![s].at = "written", ![s].node = n, ![s].address = NoNode]
  BY DEF SaveWritten
<1>2. raced' = raced
  BY <1>1 DEF Write
<1> SUFFICES ASSUME ~raced PROVE Kept'
  BY <1>2 DEF UniqueInv
<1>3. Kept /\ running[s].at = "checked"
  BY DEF UniqueInv, SaveWritten
<1>4. Handled
  BY TypesHandled
<1>5. running'[s].at # "checked" /\ \A t \in Slots \ {s} : running'[t] = running[t]
  BY <1>1, <1>4 DEF Handled, IsHandler
<1>6. identity'[n] = address /\ \A m \in Nodes \ {n} : identity'[m] = identity[m]
  BY <1>1 DEF Write, TypeOK
<1>7. (node = NoNode /\ n \notin ToSet(byUpdate)) \/ node = n
  BY <1>1 DEF Write, TypeOK
<1>8. byUpdate \in Seq(Nodes) /\ IsInjective(byUpdate) /\ ToSet(byUpdate) \subseteq Nodes
  <2>1. byUpdate \in Seq(Nodes) /\ IsInjective(byUpdate)
    BY DEF TypeOK
  <2> QED
    BY <2>1 DEF ToSet
<1>9. ToSet(byUpdate') \subseteq ToSet(byUpdate) \cup {n}
  <2>1. CASE node = NoNode \/ Live(n)
    <3>1. byUpdate' = <<n>> \o RemoveFirst(byUpdate, n)
      BY <1>1, <2>1 DEF Write
    <3> QED
      BY <1>8, <3>1, Removed, Prepended
  <2>2. CASE ~(node = NoNode \/ Live(n))
    <3>1. byUpdate' = byUpdate
      BY <1>1, <2>2 DEF Write
    <3> QED
      BY <3>1
  <2> QED
    BY <2>1, <2>2
<1> HIDE DEF node, address
<1>10. \A m \in ToSet(byUpdate') \ {n} : m \in ToSet(byUpdate) /\ identity'[m] = identity[m]
  BY <1>6, <1>8, <1>9
<1>11. \A m \in ToSet(byUpdate') \ {n} : identity'[m] # address
  <2>1. AddressFree(node, address)
    BY <1>3 DEF Kept, node, address
  <2>2. node \notin ToSet(byUpdate) \/ node = n
    BY <1>7, <1>8, NoNodeIsNone
  <2> QED
    BY <1>10, <2>1, <2>2 DEF AddressFree
<1>12. IdentityUnique'
  <2> SUFFICES ASSUME NEW m \in ToSet(byUpdate'), NEW k \in ToSet(byUpdate'),
                      identity'[m] = identity'[k]
               PROVE  m = k
    BY DEF IdentityUnique
  <2>1. CASE m # n /\ k # n
    BY <1>3, <1>10, <2>1 DEF Kept, IdentityUnique
  <2>2. CASE m = n \/ k = n
    BY <1>6, <1>11, <2>2
  <2> QED
    BY <2>1, <2>2
<1>13. ASSUME NEW t \in Slots, running'[t].at = "checked",
              NEW other \in ToSet(byUpdate') \ {running'[t].node}
       PROVE  identity'[other] # running'[t].address
  <2>1. t # s /\ running'[t] = running[t]
    BY <1>5, <1>13
  <2>2. running[t].at = "checked" /\ AddressFree(running[t].node, running[t].address)
    BY <1>3, <1>13, <2>1 DEF Kept
  <2>3. running[t].address = address => node = running[t].node /\ node # NoNode
    BY <1>3, <2>1, <2>2 DEF Kept, node, address
  <2>4. CASE other # n
    BY <1>10, <1>13, <2>1, <2>2, <2>4 DEF AddressFree
  <2>5. CASE other = n
    BY <1>6, <1>7, <1>13, <2>1, <2>3, <2>5
  <2> QED
    BY <2>4, <2>5
<1>14. ASSUME NEW t \in Slots, NEW u \in Slots, t # u,
              running'[t].at = "checked", running'[u].at = "checked",
              running'[t].address = running'[u].address
       PROVE  running'[t].node = running'[u].node /\ running'[t].node # NoNode
  <2>1. running'[t] = running[t] /\ running'[u] = running[u]
    BY <1>5, <1>14
  <2> QED
    BY <1>3, <1>14, <2>1 DEF Kept
<1> QED
  BY <1>12, <1>13, <1>14 DEF Kept, AddressFree

\* The other steps of handlers that wait write no address.
LEMMA UniqueAnswers ==
    ASSUME ConsoleAssumption, UniqueInv, TypeOK, NEW s \in Slots, Answers(s)
    PROVE  UniqueInv'
<1> DEFINE Step(h) == /\ running' = [running EXCEPT ![s] = h] /\ h.at # "checked"
                      /\ UNCHANGED <<identity, raced>> /\ ToSet(byUpdate') \subseteq ToSet(byUpdate)
<1>0. Handled
  BY TypesHandled
<1>s. ASSUME NEW h, Step(h)
      PROVE  UniqueInv'
  BY <1>0, <1>s, UniqueStep
<1>i. Idle.at # "checked" /\ IsHandler(running[s])
  BY <1>0 DEF Idle, Handled
<1> USE DEF panel
<1>1. CASE KeyUploaded(s)
  <2> DEFINE h == [running[s] EXCEPT !.at = "first", !.address = form.of,
                                     !.node = IF running[s].edits THEN editing ELSE NoNode]
  <2>1. Step(h)
    BY <1>1, <1>i DEF KeyUploaded, IsHandler
  <2> QED
    BY <1>s, <2>1
<1>2. CASE SaveChecked(s) \/ SaveWritten(s)
  BY <1>2, UniqueChecked, UniqueWritten
<1>3. CASE SaveAnswered(s)
  <2> DEFINE h(to) == [running[s] EXCEPT !.at = to]
  <2>1. PICK to \in {"second", "state"} : Step(h(to))
    BY <1>3, <1>i DEF SaveAnswered, Advance, IsHandler
  <2> QED
    BY <1>s, <2>1
<1>4. CASE Answered(s)
  <2> DEFINE h(to) == [running[s] EXCEPT !.at = to]
  <2>1. PICK to \in {"second", "state"} : running' = [running EXCEPT ![s] = h(to)]
    BY <1>4 DEF Answered, Advance
  <2>2. h(to).at # "checked"
    BY <1>i DEF IsHandler
  <2>3. UNCHANGED <<identity, raced>> /\ ToSet(byUpdate') \subseteq ToSet(byUpdate)
    BY <1>4, Fewer DEF Answered
  <2> QED
    BY <1>s, <2>1, <2>2, <2>3
<1>5. CASE Rejected(s) \/ ServiceActionDone(s) \/ NodeDeleted(s) \/ EditorDone(s)
           \/ TrafficSyncDone(s)
  <2>1. Step(Idle)
    BY <1>5, <1>i DEF Rejected, HandlerFails, ServiceActionDone, NodeDeleted, EditorDone,
       TrafficSyncDone, Finish
  <2> QED
    BY <1>s, <2>1
<1>6. CASE TrafficSynced(s) \/ NodeSaved(s)
  <2> DEFINE h(to) == [running[s] EXCEPT !.at = to]
  <2>1. PICK to \in {"state", "settle"} : Step(h(to))
    BY <1>6, <1>i DEF TrafficSynced, NodeSaved, Advance, IsHandler
  <2> QED
    BY <1>s, <2>1
<1>7. CASE StateRead(s)
  <2> DEFINE a == IF byUpdate = <<>> THEN NoNode ELSE identity[Head(byUpdate)]
             h == [running[s] EXCEPT !.at = "nodes", !.address = a]
  <2>1. Step(h)
    BY <1>7, <1>i DEF StateRead, IsHandler
  <2> QED
    BY <1>s, <2>1
<1>8. CASE NodesRead(s)
  <2> DEFINE h == [running[s] EXCEPT !.at = "totals", !.address = NoNode]
  <2>1. Step(h)
    BY <1>8, <1>i DEF NodesRead, IsHandler
  <2> QED
    BY <1>s, <2>1
<1> QED
  BY <1>1, <1>2, <1>3, <1>4, <1>5, <1>6, <1>7, <1>8 DEF Answers

\* What goes wrong deletes a row at most, and what others ask for has to pass the check first.
LEMMA UniqueElsewhere ==
    ASSUME UniqueInv, TypeOK, NEW s \in Slots, Elsewhere(s)
    PROVE  UniqueInv'
<1>0. Handled
  BY TypesHandled
<1>1. CASE Fails(s) \/ AnswerLost(s) \/ InstallFails(s) \/ UnattendedEnds(s)
  <2>1. running' = [running EXCEPT ![s] = Idle]
    BY <1>1 DEF Fails, AnswerLost, InstallFails, UnattendedEnds, HandlerFails, Finish
  <2>2. Forget(running[s].node) \/ UNCHANGED panel
    BY <1>1 DEF Fails, AnswerLost, InstallFails, UnattendedEnds
  <2>3. Idle.at # "checked"
    BY DEF Idle
  <2> QED
    BY <1>0, <2>1, <2>2, <2>3, Fewer, UniqueStep
<1>2. CASE GiveUp(s)
  <2> DEFINE h == [running[s] EXCEPT !.key = "unattended"]
  <2>1. running' = [running EXCEPT ![s] = h] /\ UNCHANGED panel
    BY <1>2 DEF GiveUp
  <2>2. h = [running[s] EXCEPT !.key = h.key]
    BY <1>0 DEF Handled, IsHandler
  <2> HIDE DEF h
  <2> QED
    BY <1>0, <2>1, <2>2, Fewer, UniqueStep
<1>3. ASSUME NEW n \in Nodes \cup {NoNode}, NEW address \in Nodes, OtherAdminSaves(s, n, address)
      PROVE  UniqueInv'
  <2> DEFINE h == [Idle EXCEPT !.key = "unattended", !.at = "first", !.node = n,
                               !.address = address, !.edits = n # NoNode]
  <2>1. running' = [running EXCEPT ![s] = h] /\ UNCHANGED panel
    BY <1>3 DEF OtherAdminSaves, Start
  <2>2. h.at # "checked"
    BY DEF Idle
  <2> HIDE DEF h
  <2> QED
    BY <1>0, <2>1, <2>2, Fewer, UniqueStep
<1> QED
  BY <1>1, <1>2, <1>3 DEF Elsewhere

\* What the operator clicks starts a handler, or none.
LEMMA UniqueOperator == ASSUME UniqueInv, TypeOK, Operator PROVE UniqueInv'
<1>0. Handled
  BY TypesHandled
<1>1. ASSUME NEW s \in Slots, NEW h, h.at # "checked", Start(s, h), UNCHANGED panel
      PROVE  UniqueInv'
  BY <1>0, <1>1, Fewer, UniqueStep DEF Start
<1>2. UNCHANGED <<panel, running>> => UniqueInv'
  BY UniqueKept DEF panel
<1>3. CASE \/ handleCreateNode \/ handleResetNodeForm \/ closeNodeModal \/ closeNodeDeleteModal
           \/ togglePasswordVisibility \/ revealNodeObfs
           \/ \E n \in Nodes : handleEditNode(n) \/ handleDeleteNode(n) \/ typeAddress(n)
  BY <1>2, <1>3 DEF handleCreateNode, handleResetNodeForm, closeNodeModal,
     closeNodeDeleteModal, togglePasswordVisibility, revealNodeObfs, handleEditNode,
     handleDeleteNode, typeAddress
<1>4. ASSUME NEW s \in Slots, handleSaveNode(s)
      PROVE  UniqueInv'
  <2> DEFINE upload == [Idle EXCEPT !.key = "node-save", !.at = "upload",
                                    !.edits = editing # NoNode]
             save == [Idle EXCEPT !.key = "node-save", !.at = "first", !.node = editing,
                                  !.address = form.of, !.edits = editing # NoNode]
  <2>1. (Start(s, upload) \/ Start(s, save)) /\ UNCHANGED panel
    BY <1>4 DEF handleSaveNode
  <2>2. upload.at # "checked" /\ save.at # "checked"
    BY DEF Idle
  <2> HIDE DEF upload, save
  <2> QED
    BY <1>1, <2>1, <2>2
<1>5. ASSUME NEW s \in Slots, confirmDeleteNode(s)
      PROVE  UniqueInv'
  <2> DEFINE h(at) == [Idle EXCEPT !.key = "node-delete", !.at = at, !.node = pending]
  <2>1. (Start(s, h("first")) \/ Start(s, h("second"))) /\ UNCHANGED panel
    BY <1>5 DEF confirmDeleteNode
  <2>2. h("first").at # "checked" /\ h("second").at # "checked"
    BY DEF Idle
  <2> HIDE DEF h
  <2> QED
    BY <1>1, <2>1, <2>2
<1>6. ASSUME NEW s \in Slots, syncTrafficUsageForTrafficView(s)
      PROVE  UniqueInv'
  <2> DEFINE h == [Idle EXCEPT !.key = "traffic-sync-enter", !.at = "first"]
  <2>1. Start(s, h) /\ UNCHANGED panel
    BY <1>6 DEF syncTrafficUsageForTrafficView
  <2>2. h.at # "checked"
    BY DEF Idle
  <2> HIDE DEF h
  <2> QED
    BY <1>1, <2>1, <2>2
<1>7. ASSUME NEW s \in Slots, NEW n \in Nodes, handleServiceAction(s, n)
      PROVE  UniqueInv'
  <2> DEFINE h == [Idle EXCEPT !.key = "node-service", !.at = "first", !.node = n]
  <2>1. Start(s, h) /\ UNCHANGED panel
    BY <1>7 DEF handleServiceAction
  <2>2. h.at # "checked"
    BY DEF Idle
  <2> HIDE DEF h
  <2> QED
    BY <1>1, <2>1, <2>2
<1> QED
  BY <1>3, <1>4, <1>5, <1>6, <1>7 DEF Operator

\* Every step keeps the addresses apart, unless two saves raced.
LEMMA UniqueNext == ConsoleAssumption /\ TypeOK /\ UniqueInv /\ [Next]_vars => UniqueInv'
<1> SUFFICES ASSUME ConsoleAssumption, TypeOK, UniqueInv, [Next]_vars
             PROVE  UniqueInv'
  OBVIOUS
<1>1. CASE SecretRead \/ (\E n \in Nodes : ObfsRead(n)) \/ UNCHANGED vars
  BY <1>1, UniqueKept DEF SecretRead, ObfsRead, vars, panel
<1>2. ASSUME NEW n \in Nodes, OtherAdminDeletes(n)
      PROVE  UniqueInv'
  BY <1>2, Fewer, UniqueKept DEF OtherAdminDeletes
<1> QED
  BY <1>1, <1>2, UniqueAnswers, UniqueElsewhere, UniqueOperator DEF Next

\* Two live nodes hold the same address only after two saves of one address, for different
\* rows, were between check and write at the same time: for any number of nodes, handlers,
\* administrators and requests that were given up, and whatever loadState writes into an open
\* form.
THEOREM Unique == ASSUME ConsoleAssumption PROVE Spec => []OnlyRacesShareAddresses
<1>1. Init => UniqueInv
  <2> SUFFICES ASSUME Init PROVE Kept
    BY DEF UniqueInv
  <2>1. ToSet(byUpdate) \subseteq Nodes /\ identity = [n \in Nodes |-> n]
    BY DEF Init, Nodes
  <2>2. \A s \in Slots : running[s].at # "checked"
    BY DEF Init, Idle
  <2> QED
    BY <2>1, <2>2 DEF Kept, IdentityUnique
<1>2. UniqueInv => OnlyRacesShareAddresses
  BY DEF UniqueInv, Kept, OnlyRacesShareAddresses
<1> QED
  BY <1>1, <1>2, UniqueNext, TypeCorrect, PTL DEF Spec

=============================================================================
