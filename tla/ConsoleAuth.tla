---------------------------- MODULE ConsoleAuth ----------------------------
(***************************************************************************)
(* Who the web console takes the operator for: the session of the page, the  *)
(* copy in localStorage that survives a reload for twelve hours, and the      *)
(* cookie the panel gave.  The form to sign in is there as soon as the setup   *)
(* status is known, while bootstrap still asks for the current session.       *)
(***************************************************************************)
EXTENDS FiniteSets

CONSTANTS Accounts, None

\* What the constants are.
AuthAssumption == None \notin Accounts

VARIABLES
    installed,      \* panel: the setup is done
    cookie,         \* panel: the account of the session the cookie names
    stored,         \* localStorage: the account of the saved session
    expired,        \* that session has expired
    session,        \* session.value
    requiresSetup,  \* setupStatus says so
    boot,           \* where bootstrap is
    me,             \* the answer to /auth/me: "none" as long as there is none
    signIn,         \* handleLogin: where it is, and for whom
    signOut         \* handleLogout: where it is

browser == <<stored, expired>>
volatile == <<session, requiresSetup, boot, me, signIn, signOut>>
vars == <<installed, cookie, browser, volatile>>

Unauthorised == "401"
NoSignIn == [at |-> "none", account |-> None]

TypeOK ==
    /\ {installed, expired, requiresSetup} \subseteq BOOLEAN
    /\ {cookie, stored, session} \subseteq Accounts \cup {None}
    /\ boot \in {"status", "settings", "me", "state", "done", "returned"}
    /\ me \in Accounts \cup {"none", Unauthorised}
    /\ signIn \in [at : {"none", "challenge", "request", "answered", "state"},
                   account : Accounts \cup {None}]
    /\ signOut \in {"none", "sent", "answered"}

\* A page that was just opened, whatever an earlier one left in the browser.
Init ==
    /\ installed \in BOOLEAN
    /\ cookie \in IF installed THEN Accounts \cup {None} ELSE {None}
    /\ stored \in Accounts \cup {None} /\ expired \in BOOLEAN
    /\ session = None /\ requiresSetup = FALSE /\ boot = "status" /\ me = "none"
    /\ signIn = NoSignIn /\ signOut = "none"

Show(account) == session' = account /\ stored' = account /\ expired' = FALSE

-----------------------------------------------------------------------------
(* bootstrap                                                               *)

fetchSetupStatus ==
    /\ boot = "status"
    /\ \/ installed /\ boot' = "settings" /\ UNCHANGED requiresSetup
       \/ ~installed /\ boot' = "returned" /\ requiresSetup' = TRUE
       \/ boot' = "returned" /\ UNCHANGED requiresSetup    \* the request fails
    /\ UNCHANGED <<installed, cookie, browser, session, me, signIn, signOut>>

\* getStoredSession, once the public settings are there or cannot be read
SettingsRead ==
    /\ boot = "settings" /\ boot' = "me"
    /\ stored' = IF expired THEN None ELSE stored
    /\ expired' = FALSE /\ session' = stored'
    /\ UNCHANGED <<installed, cookie, requiresSetup, me, signIn, signOut>>

PanelAnswersMe ==
    /\ boot = "me" /\ me = "none"
    /\ me' = IF cookie = None THEN Unauthorised ELSE cookie
    /\ UNCHANGED <<installed, cookie, browser, session, requiresSetup, boot, signIn, signOut>>

\* fetchCurrentSession: the answer counts, whatever has happened since it was given.
StoredAfterUnauthorised_kept == stored
StoredAfterUnauthorised == None

CurrentSession ==
    /\ boot = "me" /\ me # "none" /\ me' = "none"
    /\ IF me = Unauthorised
       THEN session' = None /\ stored' = StoredAfterUnauthorised /\ UNCHANGED expired
       ELSE Show(me)
    /\ boot' = IF session' = None THEN "done" ELSE "state"
    /\ UNCHANGED <<installed, cookie, requiresSetup, signIn, signOut>>

\* Any other failure leaves the session of the storage in force.
CurrentSessionFails ==
    /\ boot = "me" /\ me' = "none"
    /\ boot' = IF session = None THEN "done" ELSE "state"
    /\ UNCHANGED <<installed, cookie, browser, session, requiresSetup, signIn, signOut>>

\* loadState and what follows; a failure is only shown.
StateLoaded ==
    /\ boot = "state" /\ boot' = "done"
    /\ UNCHANGED <<installed, cookie, browser, session, requiresSetup, me, signIn, signOut>>

handleInitializeSetup ==
    /\ requiresSetup /\ ~installed
    /\ installed' = TRUE /\ requiresSetup' = FALSE
    /\ UNCHANGED <<cookie, browser, session, boot, me, signIn, signOut>>

-----------------------------------------------------------------------------
(* Signing in and out.                                                     *)

handleLogin(account) ==
    /\ boot # "status" /\ ~requiresSetup /\ session = None /\ signIn = NoSignIn
    /\ signIn' = [at |-> "challenge", account |-> account]
    /\ UNCHANGED <<installed, cookie, browser, session, requiresSetup, boot, me, signOut>>

ChallengeRead ==
    /\ signIn.at = "challenge" /\ signIn' = [signIn EXCEPT !.at = "request"]
    /\ UNCHANGED <<installed, cookie, browser, session, requiresSetup, boot, me, signOut>>

PanelSignsIn ==
    /\ signIn.at = "request" /\ installed
    /\ signIn' = [signIn EXCEPT !.at = "answered"] /\ cookie' = signIn.account
    /\ UNCHANGED <<installed, browser, session, requiresSetup, boot, me, signOut>>

\* login returns; the log page and the state are loaded next.
SignedIn ==
    /\ signIn.at = "answered" /\ signIn' = [signIn EXCEPT !.at = "state"]
    /\ Show(signIn.account)
    /\ UNCHANGED <<installed, cookie, requiresSetup, boot, me, signOut>>

\* It is through, was refused, or a request or its answer was lost.
SignInEnds ==
    /\ signIn # NoSignIn /\ signIn' = NoSignIn
    /\ UNCHANGED <<installed, cookie, browser, session, requiresSetup, boot, me, signOut>>

handleLogout ==
    /\ session # None /\ signOut = "none" /\ signOut' = "sent"
    /\ UNCHANGED <<installed, cookie, browser, session, requiresSetup, boot, me, signIn>>

\* An answer that reports an error counts as an answer.
PanelSignsOut ==
    /\ signOut = "sent" /\ signOut' = "answered"
    /\ cookie' \in {cookie, None}
    /\ UNCHANGED <<installed, browser, session, requiresSetup, boot, me, signIn>>

SignedOut ==
    /\ signOut = "answered" /\ signOut' = "none"
    /\ stored' = None /\ session' = None
    /\ UNCHANGED <<installed, cookie, expired, requiresSetup, boot, me, signIn>>

\* The storage is emptied in any case, the page stays as it is.
SignOutFails ==
    /\ signOut # "none" /\ signOut' = "none" /\ stored' = None
    /\ UNCHANGED <<installed, cookie, expired, session, requiresSetup, boot, me, signIn>>

-----------------------------------------------------------------------------
\* The operator reloads the page, or performUpgrade does; what was under way is gone.
Reload ==
    /\ boot # "status"
    /\ session' = None /\ requiresSetup' = FALSE /\ boot' = "status" /\ me' = "none"
    /\ signIn' = NoSignIn /\ signOut' = "none"
    /\ UNCHANGED <<installed, cookie, browser>>

TimePasses ==
    /\ \/ cookie' = None /\ cookie # None /\ UNCHANGED expired
       \/ expired' = TRUE /\ ~expired /\ stored # None /\ UNCHANGED cookie
    /\ UNCHANGED <<installed, stored, volatile>>

Next ==
    \/ fetchSetupStatus \/ SettingsRead \/ PanelAnswersMe \/ CurrentSession \/ CurrentSessionFails
    \/ StateLoaded \/ handleInitializeSetup
    \/ \E account \in Accounts : handleLogin(account)
    \/ ChallengeRead \/ PanelSignsIn \/ SignedIn \/ SignInEnds
    \/ handleLogout \/ PanelSignsOut \/ SignedOut \/ SignOutFails
    \/ Reload \/ TimePasses

Spec == Init /\ [][Next]_vars

-----------------------------------------------------------------------------
(* Properties.                                                             *)

\* Once bootstrap is through, whoever sees the form to sign in has no session in the
\* storage that a reload would bring back, however sign-ins, sign-outs and the late
\* answer about the current session were mixed.
SignedOutIsForgotten == boot = "done" /\ session = None => stored = None

=============================================================================
