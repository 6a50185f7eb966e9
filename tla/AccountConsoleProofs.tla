------------------------- MODULE AccountConsoleProofs ------------------------
(***************************************************************************)
(* Proofs about AccountConsole, for all accounts and pages, and for any       *)
(* number of handlers that wait and of requests that fail.                  *)
(***************************************************************************)
EXTENDS AccountConsole, TLAPS

\* What a handler is made of.
Fields == [key : Keys \cup {""}, at : {"idle", "request", "list"}, id : Accounts \cup {None},
           of : Accounts \cup {None}, page : Pages]

\* The form is always that of the account that is edited, and a request takes both along.
OwnInv ==
    /\ page \in Pages /\ running \in [Slots -> Fields]
    /\ editing = formOf /\ editing \in Accounts \cup {None}
    /\ pendingDelete \in Accounts \cup {None}
    /\ SaveIsOwn

\* The editor is empty at first and nothing waits.
LEMMA OwnInit == ASSUME AccountAssumption, Init PROVE OwnInv
  BY DEF AccountAssumption, Init, OwnInv, SaveIsOwn, Fields, Idle, Waits

\* A handler that starts with the account and the form of the editor, or with none of both
\* in question, leaves the rest alone.
LEMMA OwnStarts ==
    ASSUME OwnInv, AccountAssumption, NEW s \in Slots, NEW key \in Keys,
           NEW id \in Accounts \cup {None}, NEW of \in Accounts \cup {None},
           key \in {"save", "create"} => of = id, Starts(s, key, id, of)
    PROVE  OwnInv'
  BY DEF OwnInv, SaveIsOwn, Starts, Waits, Fields, editor, rows, AccountAssumption

\* A handler that ends leaves the others as they are.
LEMMA OwnFinish ==
    ASSUME OwnInv, AccountAssumption, NEW s \in Slots, Finish(s)
    PROVE  running' \in [Slots -> Fields] /\ SaveIsOwn'
  BY DEF OwnInv, SaveIsOwn, Finish, Waits, Fields, Idle, AccountAssumption

\* Every step keeps editor, form and requests together.
LEMMA OwnNext == ASSUME AccountAssumption, OwnInv, [Next]_vars PROVE OwnInv'
<1> USE DEF OwnInv, SaveIsOwn, Waits, rows, editor, Fault
<1>1. ASSUME NEW p \in Pages, setPage(p) \/ PageRead(p) \/ PageNotRead(p)
      PROVE  OwnInv'
  BY <1>1 DEF setPage, PageRead, PageNotRead, Loaded
<1>2. CASE handleUserFilterInput \/ FilterFires
  BY <1>2 DEF handleUserFilterInput, FilterFires, AccountAssumption
<1>3. CASE openCreateModal \/ resetUserEditor
  BY <1>3 DEF openCreateModal, resetUserEditor, EditorReset
<1>4. CASE closeModal \/ closeDeleteModal \/ closeSubscriptionModal
  BY <1>4 DEF closeModal, closeDeleteModal, closeSubscriptionModal
<1>5. ASSUME NEW a \in Accounts, handleEdit(a) \/ handleDelete(a)
      PROVE  OwnInv'
  BY <1>5 DEF handleEdit, handleDelete
<1>6. ASSUME NEW s \in Slots, handleSubmit(s)
      PROVE  OwnInv'
  <2>1. CASE editing = None
    BY <1>6, <2>1, OwnStarts DEF handleSubmit, Keys
  <2>2. CASE editing # None
    BY <1>6, <2>2, OwnStarts DEF handleSubmit, Keys
  <2> QED
    BY <2>1, <2>2
<1>7. ASSUME NEW s \in Slots, confirmDelete(s)
      PROVE  OwnInv'
  BY <1>7, OwnStarts DEF confirmDelete, Keys
<1>8. ASSUME NEW s \in Slots, Changed(s)
      PROVE  OwnInv'
  <2> DEFINE listing == [running[s] EXCEPT !.at = "list", !.page = page]
  <2>1. listing \in Fields /\ listing.at = "list"
    <3>1. running[s] \in Fields /\ page \in Pages
      OBVIOUS
    <3>2. QED
      BY <3>1 DEF Fields
  <2>2. /\ running' = [running EXCEPT ![s] = listing]
        /\ UNCHANGED <<page, editing, formOf, pendingDelete>>
    BY <1>8 DEF Changed
  <2> HIDE DEF listing
  <2>3. running' \in [Slots -> Fields]
    BY <2>1, <2>2
  <2>4. ASSUME NEW u \in Slots, Waits(u, {"save", "create"}, "request")'
        PROVE  running'[u].of = running'[u].id
    <3>1. u # s
      BY <2>1, <2>2, <2>4
    <3> QED
      BY <2>2, <2>4, <3>1
  <2> QED
    BY <2>2, <2>3, <2>4
<1>9. ASSUME NEW s \in Slots, Listed(s)
      PROVE  OwnInv'
  <2>1. running[s].page \in Pages
    BY DEF Fields
  <2>2. page' \in Pages /\ pendingDelete' \in Accounts \cup {None}
    BY <1>9, <2>1 DEF Listed, Loaded
  <2>3. editing' = formOf' /\ editing' \in Accounts \cup {None}
    BY <1>9 DEF Listed, EditorReset
  <2> QED
    BY <1>9, <2>2, <2>3, OwnFinish DEF Listed
<1>10. ASSUME NEW s \in Slots, LinkRead(s) \/ LinkRefreshed(s) \/ RequestFails(s)
       PROVE  OwnInv'
  BY <1>10, OwnFinish DEF LinkRead, LinkRefreshed, RequestFails
<1>11. ASSUME NEW s \in Slots, NEW a \in Accounts,
              openSubscriptionModal(s, a) \/ handleRefreshLogicalUserSubscription(s, a)
       PROVE  OwnInv'
  BY <1>11, OwnStarts DEF openSubscriptionModal, handleRefreshLogicalUserSubscription, Keys
<1>12. CASE UNCHANGED vars
  BY <1>12 DEF vars
<1> QED
  BY <1>1, <1>2, <1>3, <1>4, <1>5, <1>6, <1>7, <1>8, <1>9, <1>10, <1>11, <1>12 DEF Next

\* A request that changes an account carries a form that was filled from it, and one that
\* creates an account one that was not, for any number of accounts and handlers.
THEOREM OwnForms == ASSUME AccountAssumption PROVE Spec => []SaveIsOwn
<1>1. Init => OwnInv
  BY OwnInit
<1>2. OwnInv /\ [Next]_vars => OwnInv'
  BY OwnNext
<1>3. OwnInv => SaveIsOwn
  BY DEF OwnInv
<1> QED
  BY <1>1, <1>2, <1>3, PTL DEF Spec

-----------------------------------------------------------------------------
\* A link is opened for its own user, and replaced by one of the same user only.
LEMMA LinkNext == SubscriptionIsOwn /\ [Next]_vars => SubscriptionIsOwn'
<1> SUFFICES ASSUME SubscriptionIsOwn, [Next]_vars
             PROVE  SubscriptionIsOwn'
  OBVIOUS
<1> USE DEF SubscriptionIsOwn
<1>1. ASSUME NEW s \in Slots, LinkRefreshed(s)
      PROVE  SubscriptionIsOwn'
  <2>1. CASE subscription.for = running[s].id
    <3>1. subscription' = [subscription EXCEPT !.link = running[s].id]
      BY <1>1, <2>1 DEF LinkRefreshed, LinkAfterRefresh
    <3>2. subscription.link = running[s].id
      BY <2>1
    <3>3. subscription'.for = subscription.for
      BY <3>1
    <3> QED
      BY <2>1, <3>1, <3>2, <3>3
  <2>2. CASE subscription.for # running[s].id
    BY <1>1, <2>2 DEF LinkRefreshed, LinkAfterRefresh
  <2> QED
    BY <2>1, <2>2
<1>2. ASSUME NEW s \in Slots, LinkRead(s)
      PROVE  SubscriptionIsOwn'
  BY <1>2 DEF LinkRead
<1>3. CASE closeSubscriptionModal
  BY <1>3 DEF closeSubscriptionModal, NoLink
<1>4. ASSUME ~(\E s \in Slots : LinkRefreshed(s) \/ LinkRead(s)), ~closeSubscriptionModal
      PROVE  UNCHANGED subscription
  BY <1>4 DEF Next, vars, setPage, PageRead, PageNotRead, handleUserFilterInput, FilterFires,
     openCreateModal, resetUserEditor, closeModal, closeDeleteModal, handleEdit, handleDelete,
     Starts, handleSubmit, confirmDelete, openSubscriptionModal,
     handleRefreshLogicalUserSubscription, Changed, Listed, RequestFails
<1> QED
  BY <1>1, <1>2, <1>3, <1>4

\* The dialog of a subscription never shows the link of another user, for any number of
\* users and of links that are made anew.
THEOREM OwnLinks == Spec => []SubscriptionIsOwn
<1>1. Init => SubscriptionIsOwn
  <2>1. NoLink.for = NoLink.link
    BY DEF NoLink
  <2> QED
    BY <2>1 DEF Init, SubscriptionIsOwn
<1> QED
  BY <1>1, LinkNext, PTL DEF Spec

-----------------------------------------------------------------------------
\* A page that is read makes rows and indication agree; the indication changes otherwise
\* only when another read starts, and a read that fails leaves its error.
\* Rows and indication agree at first.
LEMMA LabelInit == ASSUME AccountAssumption, Init PROVE LabelMatchesRows
  BY DEF Init, LabelMatchesRows

\* Every step that ends a read brings its page or its error.
LEMMA LabelNext ==
    ASSUME AccountAssumption, OwnInv, LabelMatchesRows, [Next]_vars
    PROVE  LabelMatchesRows'
<1> USE DEF LabelMatchesRows, Reading, rows, editor
<1>1. ASSUME NEW p \in Pages, setPage(p) \/ PageRead(p) \/ PageNotRead(p)
      PROVE  LabelMatchesRows'
  BY <1>1 DEF setPage, PageRead, PageNotRead, Loaded
<1>2. CASE handleUserFilterInput
  BY <1>2 DEF handleUserFilterInput
<1>3. CASE FilterFires
  BY <1>3 DEF FilterFires
<1>4. CASE openCreateModal \/ resetUserEditor \/ closeModal \/ closeDeleteModal
             \/ closeSubscriptionModal
  BY <1>4 DEF openCreateModal, resetUserEditor, closeModal, closeDeleteModal,
     closeSubscriptionModal
<1>5. ASSUME NEW a \in Accounts, handleEdit(a) \/ handleDelete(a)
      PROVE  LabelMatchesRows'
  BY <1>5 DEF handleEdit, handleDelete
<1>6. ASSUME NEW s \in Slots, NEW key, NEW id, NEW of, Starts(s, key, id, of)
      PROVE  LabelMatchesRows'
  <2>1. running[s].at # "list"
    <3>1. Idle.at = "idle"
      BY DEF Idle
    <3>2. running[s] = Idle
      BY <1>6 DEF Starts
    <3> QED
      BY <3>1, <3>2
  <2>2. \A t \in Slots \ {s} : running'[t] = running[t]
    BY <1>6 DEF Starts, OwnInv
  <2>3. UNCHANGED <<loads, page, rowsPage, loadError>>
    BY <1>6 DEF Starts
  <2> QED
    BY <2>1, <2>2, <2>3
<1>7. ASSUME NEW s \in Slots, Changed(s)
      PROVE  LabelMatchesRows'
  <2>1. running'[s].at = "list"
    BY <1>7 DEF Changed, OwnInv, Fields
  <2> QED
    BY <2>1
<1>8. ASSUME NEW s \in Slots, Listed(s)
      PROVE  LabelMatchesRows'
  BY <1>8 DEF Listed, Loaded
<1>9. ASSUME NEW s \in Slots, LinkRead(s) \/ LinkRefreshed(s) \/ RequestFails(s)
      PROVE  LabelMatchesRows'
  BY <1>9 DEF LinkRead, LinkRefreshed, RequestFails, Waits, Finish, Idle, OwnInv, Fields
<1>10. CASE UNCHANGED vars
  BY <1>10 DEF vars
<1> QED
  BY <1>1, <1>2, <1>3, <1>4, <1>5, <1>6, <1>7, <1>8, <1>9, <1>10
     DEF Next, handleSubmit, confirmDelete, openSubscriptionModal,
         handleRefreshLogicalUserSubscription

\* With nothing being read and no error, the indicated page is that of the rows, in whatever
\* order answers come, for any number of pages and handlers.
THEOREM Labels == ASSUME AccountAssumption PROVE Spec => []LabelMatchesRows
<1>1. Init => OwnInv /\ LabelMatchesRows
  BY OwnInit, LabelInit
<1>2. OwnInv /\ LabelMatchesRows /\ [Next]_vars => (OwnInv /\ LabelMatchesRows)'
  BY OwnNext, LabelNext
<1> QED
  BY <1>1, <1>2, PTL DEF Spec

-----------------------------------------------------------------------------
(* Types.                                                                   *)

\* What the dialog of the link shows, and what a handler is that was started.
Links == [for : Accounts \cup {None}, link : Accounts \cup {None}]
Active == [key : Keys, at : {"request", "list"}, id : Accounts \cup {None},
           of : Accounts \cup {None}, page : Pages]

\* TypeOK, with the dialog of the link as a record.
TypeInv == TypeOK /\ subscription \in Links

\* A handler that waits is one that was started.
LEMMA Underway ==
    ASSUME TypeInv, NEW s \in Slots, running[s] # Idle
    PROVE  running[s] \in Active
  BY DEF TypeInv, TypeOK, Active

\* Who waits for something was started.
LEMMA WaitsIs ==
    ASSUME NEW s \in Slots, NEW keys, NEW at, keys \subseteq Keys, Waits(s, keys, at)
    PROVE  running[s] # Idle
<1>1. Idle.key = "" /\ "" \notin Keys
  BY DEF Idle, Keys
<1> QED
  BY <1>1 DEF Waits

\* The page as it is opened is well-typed.
LEMMA TypeInit == ASSUME AccountAssumption, Init PROVE TypeInv
<1>1. running \in [Slots -> {Idle} \cup Active]
  BY DEF Init
<1>2. subscription \in Links /\ subscription.for = None /\ subscription.link = None
  BY DEF Init, Links, NoLink
<1>3. 1 \in Pages /\ failures \in 0..MaxFailures
  <2>1. 1 \in Pages /\ MaxFailures \in Nat
    BY DEF AccountAssumption
  <2>2. failures = 0
    BY DEF Init
  <2> QED
    BY <2>1, <2>2
<1> QED
  BY <1>1, <1>2, <1>3 DEF Init, TypeInv, TypeOK, Accounts, Active

\* A handler that starts is well-typed.
LEMMA TypeStarts ==
    ASSUME TypeInv, AccountAssumption, NEW s \in Slots, NEW key \in Keys,
           NEW id \in Accounts \cup {None}, NEW of \in Accounts \cup {None},
           Starts(s, key, id, of)
    PROVE  TypeInv'
<1> DEFINE h == [key |-> key, at |-> "request", id |-> id, of |-> of, page |-> 1]
<1>1. h \in Active
  BY DEF Active, AccountAssumption
<1>2. running' = [running EXCEPT ![s] = h]
  BY DEF Starts
<1> HIDE DEF h
<1>3. running' \in [Slots -> {Idle} \cup Active]
  BY <1>1, <1>2 DEF TypeInv, TypeOK, Active
<1> QED
  BY <1>3 DEF TypeInv, TypeOK, Starts, Active, rows, editor

\* A handler that ends leaves an idle slot.
LEMMA TypeFinish ==
    ASSUME TypeInv, NEW s \in Slots, Finish(s)
    PROVE  running' \in [Slots -> {Idle} \cup Active]
  BY DEF TypeInv, TypeOK, Finish, Active

\* A fault adds one failure within the bound.
LEMMA Counts ==
    ASSUME AccountAssumption, TypeInv, Fault \/ UNCHANGED failures
    PROVE  failures' \in 0..MaxFailures
<1>1. MaxFailures \in Nat
  BY DEF AccountAssumption
<1>2. failures \in 0..MaxFailures
  BY DEF TypeInv, TypeOK
<1>3. CASE Fault
  BY <1>1, <1>2, <1>3 DEF Fault
<1>4. CASE UNCHANGED failures
  BY <1>2, <1>4
<1> QED
  BY <1>3, <1>4

\* Every step keeps the types.
LEMMA TypeNext == ASSUME AccountAssumption, TypeInv, [Next]_vars PROVE TypeInv'
<1> USE DEF rows, editor
<1>1. ASSUME NEW p \in Pages, setPage(p) \/ PageRead(p) \/ PageNotRead(p)
      PROVE  TypeInv'
  <2>1. failures' \in 0..MaxFailures
    BY <1>1, Counts DEF setPage, PageRead, PageNotRead
  <2>2. CASE setPage(p)
    BY <2>1, <2>2 DEF setPage, TypeInv, TypeOK
  <2>3. CASE PageRead(p)
    BY <2>1, <2>3 DEF PageRead, Loaded, TypeInv, TypeOK
  <2>4. CASE PageNotRead(p)
    BY <2>1, <2>4 DEF PageNotRead, TypeInv, TypeOK
  <2> QED
    BY <1>1, <2>2, <2>3, <2>4
<1>2. CASE handleUserFilterInput \/ FilterFires
  BY <1>2 DEF handleUserFilterInput, FilterFires, AccountAssumption, TypeInv, TypeOK
<1>3. CASE openCreateModal \/ resetUserEditor
  BY <1>3 DEF openCreateModal, resetUserEditor, EditorReset, TypeInv, TypeOK
<1>4. CASE closeModal \/ closeDeleteModal
  BY <1>4 DEF closeModal, closeDeleteModal, TypeInv, TypeOK
<1>5. CASE closeSubscriptionModal
  BY <1>5 DEF closeSubscriptionModal, TypeInv, TypeOK, NoLink, Links
<1>6. ASSUME NEW a \in Accounts, handleEdit(a) \/ handleDelete(a)
      PROVE  TypeInv'
  BY <1>6 DEF handleEdit, handleDelete, TypeInv, TypeOK
<1>7. ASSUME NEW s \in Slots, handleSubmit(s)
      PROVE  TypeInv'
  <2>1. editing \in Accounts \cup {None} /\ formOf \in Accounts \cup {None}
    BY DEF TypeInv, TypeOK
  <2>2. "create" \in Keys /\ "save" \in Keys
    BY DEF Keys
  <2> QED
    BY <1>7, <2>1, <2>2, TypeStarts DEF handleSubmit
<1>8. ASSUME NEW s \in Slots, confirmDelete(s)
      PROVE  TypeInv'
  <2>1. pendingDelete \in Accounts \cup {None}
    BY DEF TypeInv, TypeOK
  <2> QED
    BY <1>8, <2>1, TypeStarts DEF confirmDelete, Keys
<1>9. ASSUME NEW s \in Slots, NEW a \in Accounts,
             openSubscriptionModal(s, a) \/ handleRefreshLogicalUserSubscription(s, a)
      PROVE  TypeInv'
  BY <1>9, TypeStarts DEF openSubscriptionModal, handleRefreshLogicalUserSubscription, Keys
<1>10. ASSUME NEW s \in Slots, Changed(s)
       PROVE  TypeInv'
  <2>1. running[s] \in Active
    BY <1>10, Underway, WaitsIs DEF Changed, Keys
  <2> DEFINE h == [running[s] EXCEPT !.at = "list", !.page = page]
  <2>2. page \in Pages
    BY DEF TypeInv, TypeOK
  <2>3. h \in Active
    BY <2>1, <2>2 DEF Active
  <2>4. running' = [running EXCEPT ![s] = h]
    BY <1>10 DEF Changed
  <2> HIDE DEF h
  <2>5. running' \in [Slots -> {Idle} \cup Active]
    BY <2>3, <2>4 DEF TypeInv, TypeOK, Active
  <2>6. accounts' \subseteq Accounts
    BY <1>10 DEF Changed, TypeInv, TypeOK, Accounts
  <2> QED
    BY <1>10, <2>5, <2>6 DEF Changed, TypeInv, TypeOK, Active
<1>11. ASSUME NEW s \in Slots, Listed(s)
       PROVE  TypeInv'
  <2>1. running[s] \in Active
    BY <1>11, Underway, WaitsIs DEF Listed, Keys
  <2>2. running[s].page \in Pages
    BY <2>1 DEF Active
  <2>3. page' \in Pages /\ rowsPage' \in Pages /\ shown' \subseteq Accounts
    BY <1>11, <2>2 DEF Listed, Loaded, TypeInv, TypeOK
  <2>4. /\ editing' \in Accounts \cup {None} /\ formOf' \in Accounts \cup {None}
        /\ pendingDelete' \in Accounts \cup {None} /\ modal' \in BOOLEAN
    BY <1>11 DEF Listed, EditorReset, TypeInv, TypeOK
  <2>5. running' \in [Slots -> {Idle} \cup Active]
    BY <1>11, TypeFinish DEF Listed
  <2> QED
    BY <1>11, <2>3, <2>4, <2>5 DEF Listed, Loaded, TypeInv, TypeOK, Active
<1>12. ASSUME NEW s \in Slots, LinkRead(s) \/ LinkRefreshed(s)
       PROVE  TypeInv'
  <2>1. running[s] \in Active
    BY <1>12, Underway, WaitsIs DEF LinkRead, LinkRefreshed, Keys
  <2>2. running[s].id \in Accounts \cup {None}
    BY <2>1 DEF Active
  <2>3. subscription' \in Links
    <3>1. CASE LinkRead(s)
      BY <2>2, <3>1 DEF LinkRead, Links
    <3>2. CASE LinkRefreshed(s)
      <4>1. subscription \in Links
        BY DEF TypeInv
      <4>2. [subscription EXCEPT !.link = running[s].id] \in Links
        BY <2>2, <4>1 DEF Links
      <4> QED
        BY <3>2, <4>1, <4>2 DEF LinkRefreshed, LinkAfterRefresh
    <3> QED
      BY <1>12, <3>1, <3>2
  <2>4. running' \in [Slots -> {Idle} \cup Active]
    BY <1>12, TypeFinish DEF LinkRead, LinkRefreshed
  <2> QED
    BY <1>12, <2>3, <2>4 DEF LinkRead, LinkRefreshed, TypeInv, TypeOK, Active, Links
<1>13. ASSUME NEW s \in Slots, RequestFails(s)
       PROVE  TypeInv'
  <2>1. running' \in [Slots -> {Idle} \cup Active]
    BY <1>13, TypeFinish DEF RequestFails
  <2>2. failures' \in 0..MaxFailures
    BY <1>13, Counts DEF RequestFails
  <2> QED
    BY <1>13, <2>1, <2>2 DEF RequestFails, TypeInv, TypeOK, Active
<1>14. CASE UNCHANGED vars
  BY <1>14 DEF vars, TypeInv, TypeOK
<1> QED
  BY <1>1, <1>2, <1>3, <1>4, <1>5, <1>6, <1>7, <1>8, <1>9, <1>10, <1>11, <1>12, <1>13, <1>14
     DEF Next

\* The pages of the accounts are type correct: whatever order answers come in, rows, forms, dialogs
\* and requests are of accounts there are, for any number of accounts, pages and handlers.
THEOREM TypeCorrect == ASSUME AccountAssumption PROVE Spec => []TypeOK
<1>1. Init => TypeInv
  BY TypeInit
<1>2. TypeInv /\ [Next]_vars => TypeInv'
  BY TypeNext
<1>3. TypeInv => TypeOK
  BY DEF TypeInv
<1> QED
  BY <1>1, <1>2, <1>3, PTL DEF Spec

=============================================================================
