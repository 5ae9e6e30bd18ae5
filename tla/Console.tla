-------------------------------- MODULE Console --------------------------------
(***************************************************************************)
(* The District Command console of the browser build, frontend/standalone/ *)
(* src/auth.js and the one privileged write of actions.js: the session and *)
(* its two expiries, the throttle of failed passwords, the step-up prompt  *)
(* and the action it defers, and the drawer whose form that action reads.  *)
(*                                                                         *)
(* Time passes in ticks.  An instant of the code (issuedAt, lastActivity,  *)
(* stepUpAt, lockedUntil) is kept as the ticks since or until it, up to    *)
(* the first value past the limit it is compared with.  Every click or key *)
(* reaches the document first, where touchSession moves lastActivity: the  *)
(* handlers of the operator below run with an idle time of 0.              *)
(***************************************************************************)
EXTENDS Naturals, FiniteSets, FiniteSetsExt

CONSTANTS
  Users,        \* OPERATORS
  Shelters,
  NoUser, NoShelter,
  MayWrite,     \* the users whose `can` has update_shelter_status
  Scope,        \* Scope[u]: the shelters u may update; no scope is all of them
  IdleMax,      \* AUTH.idleMs
  AbsoluteMax,  \* AUTH.absoluteMs
  StepUpMax,    \* AUTH.stepUpMs
  MaxAttempts,  \* AUTH.maxAttempts
  LockBase, LockCap,   \* 60 s, doubled by each further failure, and its cap
  MaxFailures,  \* bound: failed passwords per user
  MaxChecks     \* bound: step-up passwords being checked at once

ASSUME ConsoleAssumption ==
  /\ NoUser \notin Users /\ NoShelter \notin Shelters
  /\ MayWrite \subseteq Users
  /\ Scope \in [Users -> SUBSET Shelters]
  /\ IdleMax \in Nat /\ AbsoluteMax \in Nat /\ StepUpMax \in Nat \ {0}
  /\ MaxAttempts \in Nat \ {0} /\ MaxFailures \in Nat
  /\ LockBase \in Nat /\ LockCap \in Nat /\ MaxChecks \in Nat

VARIABLES
  session,   \* AUTH.session
  role,      \* S.role
  watching,  \* the five-second interval of startSessionWatch is set
  fails,     \* AUTH.attempts[u].n
  lock,      \* AUTH.attempts[u].lockedUntil, as the ticks left
  signing,   \* the user whose sign-in password is being checked (AUTH.busy)
  checks,    \* checks[u]: step-up passwords of u being checked
  deferred,  \* AUTH.stepUpRun: the shelter its closure updates
  modal,     \* what the modal layer shows
  drawer,    \* open, and the shelter whose form the drawer's DOM holds
  rows       \* the shelter rows: whose form was written, and by whom

authVars == <<session, role, watching>>
throttleVars == <<fails, lock>>
verifyVars == <<signing, checks>>
vars == <<authVars, throttleVars, verifyVars, deferred, modal, drawer, rows>>

NoSession == [user |-> NoUser, idle |-> 0, age |-> 0, since |-> 0]
SignedIn == session.user # NoUser
AbsoluteOver == session.age > AbsoluteMax
IdleOver == session.idle > IdleMax
Locked(u) == lock[u] > 0

Init ==
  /\ session = NoSession /\ role = "citizen" /\ watching = FALSE
  /\ fails = [u \in Users |-> 0] /\ lock = [u \in Users |-> 0]
  /\ signing = NoUser /\ checks = [u \in Users |-> 0]
  /\ deferred = NoShelter /\ modal = "none"
  /\ drawer = [open |-> FALSE, form |-> NoShelter]
  /\ rows = [s \in Shelters |-> [form |-> s, by |-> NoUser]]

-----------------------------------------------------------------------------
(* What the handlers share *)

Older(n, limit) == IF n > limit THEN n ELSE n + 1

\* Mutation: the session goes, the command screen stays.
EndSessionOnly == session' = NoSession /\ UNCHANGED <<role, drawer>>

\* endSession: the store and the screen go back to the public portal together.
EndSession ==
  /\ session' = NoSession
  /\ role' = "citizen"
  /\ drawer' = IF role = "gov" THEN [drawer EXCEPT !.open = FALSE] ELSE drawer

\* Mutation: activity starts the session over.
ActiveExtends == session' = [session EXCEPT !.idle = 0, !.age = 0]

Active == session' = [session EXCEPT !.idle = 0]

\* A click of a signed-in operator: it goes through as `act`, or the session
\* turns out to be over and the sign-in screen opens instead.
IfSignedIn(act) ==
  IF SignedIn /\ ~AbsoluteOver
    THEN act
    ELSE /\ IF SignedIn THEN EndSession ELSE UNCHANGED <<session, role, drawer>>
         /\ modal' = "signin"
         /\ UNCHANGED <<rows, deferred>>

LockFor(n) == Min({LockBase * 2 ^ (n - MaxAttempts), LockCap})

\* True whatever the limits are; named because the provers do not know powers.
ASSUME LockAssumption == \A n \in MaxAttempts..MaxFailures : LockFor(n) \in Nat

RecordFailure(u) ==
  /\ fails[u] < MaxFailures
  /\ fails' = [fails EXCEPT ![u] = @ + 1]
  /\ lock' = IF fails[u] + 1 >= MaxAttempts
               THEN [lock EXCEPT ![u] = LockFor(fails[u] + 1)] ELSE lock

ClearFailures(u) ==
  /\ fails' = [fails EXCEPT ![u] = 0]
  /\ lock' = [lock EXCEPT ![u] = 0]

\* Mutation: the scope is not looked at.
SaveRowAnywhere(id, who) ==
  rows' = IF drawer.form # NoShelter
            THEN [rows EXCEPT ![id] = [form |-> drawer.form, by |-> who]] ELSE rows

\* doSaveShelter takes the figures of the form that is in the drawer; without
\* one it throws before it has written anything.  The audit row comes after the
\* repaint, which ends a session that ran out during the password check.
SaveRow(id, who) ==
  rows' = IF id \in Scope[session.user] /\ drawer.form # NoShelter
            THEN [rows EXCEPT ![id] = [form |-> drawer.form, by |-> who]] ELSE rows

Saves(id) == id \in Scope[session.user] /\ drawer.form # NoShelter

-----------------------------------------------------------------------------
(* Signing in and out *)

\* requestRole('gov'), also behind the gate's Command button.
RequestCommand ==
  /\ modal = "none"
  /\ IfSignedIn(Active /\ UNCHANGED <<role, drawer, modal, rows, deferred>>)
  /\ UNCHANGED <<watching, throttleVars, verifyVars>>

\* requestRole('citizen'): a running session is asked about, never dropped.
RequestPublic ==
  /\ SignedIn /\ modal = "none"
  /\ IF AbsoluteOver THEN EndSession /\ modal' = "none"
                     ELSE Active /\ modal' = "signout" /\ UNCHANGED <<role, drawer>>
  /\ UNCHANGED <<watching, throttleVars, verifyVars, deferred, rows>>

ConfirmSignOut ==
  /\ modal = "signout"
  /\ modal' = "none"
  /\ EndSession
  /\ UNCHANGED <<watching, throttleVars, verifyVars, deferred, rows>>

\* closeM: the prompt is put away, a password check under way goes on.
CloseModal ==
  /\ modal # "none"
  /\ modal' = "none"
  /\ Active
  /\ UNCHANGED <<role, watching, throttleVars, verifyVars, deferred, drawer, rows>>

SubmitSignIn(u) ==
  /\ modal = "signin" /\ signing = NoUser
  /\ ~Locked(u)
  /\ signing' = u
  /\ UNCHANGED <<authVars, throttleVars, checks, deferred, modal, drawer, rows>>

SignInAccepted ==
  /\ signing # NoUser
  /\ ClearFailures(signing)
  /\ session' = [user |-> signing, idle |-> 0, age |-> 0, since |-> 0]
  /\ role' = "gov" /\ watching' = TRUE /\ modal' = "none"
  /\ signing' = NoUser
  /\ UNCHANGED <<checks, deferred, drawer, rows>>

SignInRejected ==
  /\ signing # NoUser
  /\ RecordFailure(signing)
  /\ signing' = NoUser
  /\ UNCHANGED <<authVars, checks, deferred, modal, drawer, rows>>

SignInUnreachable ==
  /\ signing # NoUser
  /\ signing' = NoUser
  /\ UNCHANGED <<authVars, throttleVars, checks, deferred, modal, drawer, rows>>

-----------------------------------------------------------------------------
(* The drawer and the privileged write *)

OpenDrawer(form) ==
  /\ modal = "none"
  /\ drawer' = [open |-> TRUE, form |-> form]
  /\ Active
  /\ UNCHANGED <<role, watching, throttleVars, verifyVars, deferred, modal, rows>>

\* closeDw hides the drawer; its form stays in the document.
CloseDrawer ==
  /\ modal = "none" /\ drawer.open
  /\ drawer' = [drawer EXCEPT !.open = FALSE]
  /\ Active
  /\ UNCHANGED <<role, watching, throttleVars, verifyVars, deferred, modal, rows>>

\* A screen of the navigation: go().
Go ==
  /\ role = "gov" /\ modal = "none"
  /\ IfSignedIn(Active /\ UNCHANGED <<role, drawer, modal, rows, deferred>>)
  /\ UNCHANGED <<watching, throttleVars, verifyVars>>

\* requirePrivilege with the permission held and the step-up still valid.
SaveAtOnce(id) ==
  /\ session.since < StepUpMax
  /\ Active
  /\ SaveRow(id, session.user)
  /\ drawer' = IF Saves(id) THEN [drawer EXCEPT !.open = FALSE] ELSE drawer
  /\ UNCHANGED <<role, modal, deferred>>

\* stepUpPrompt: the write waits in AUTH.stepUpRun for the password.
DeferSave(id) ==
  /\ session.since >= StepUpMax
  /\ Active
  /\ deferred' = id
  /\ modal' = "stepup"
  /\ UNCHANGED <<role, drawer, rows>>

RefuseSave ==
  /\ session.user \notin MayWrite
  /\ Active
  /\ UNCHANGED <<role, drawer, modal, rows, deferred>>

\* Mutation: the button of a form the drawer no longer shows.
SaveShelterLate(id) ==
  /\ modal = "none" /\ drawer.open
  /\ IfSignedIn(\/ RefuseSave
                \/ session.user \in MayWrite /\ (SaveAtOnce(id) \/ DeferSave(id)))
  /\ UNCHANGED <<watching, throttleVars, verifyVars>>

\* The Submit button of a shelter's form: saveShelter.
SaveShelter(id) ==
  /\ modal = "none" /\ drawer = [open |-> TRUE, form |-> id]
  /\ IfSignedIn(\/ RefuseSave
                \/ session.user \in MayWrite /\ (SaveAtOnce(id) \/ DeferSave(id)))
  /\ UNCHANGED <<watching, throttleVars, verifyVars>>

\* submitStepUp up to its await.  Nothing keeps it from being sent twice.
SubmitStepUp ==
  /\ modal = "stepup"
  /\ ~Locked(session.user)
  /\ FoldSet(LAMBDA u, n : checks[u] + n, 0, Users) < MaxChecks
  /\ checks' = [checks EXCEPT ![session.user] = @ + 1]
  /\ Active
  /\ UNCHANGED <<role, watching, throttleVars, signing, deferred, modal, drawer, rows>>

\* The rest of submitStepUp: AUTH.session is read again, whoever it is now, and
\* the deferred write runs for it.  With no session left it throws.
StepUpAccepted(u) ==
  /\ checks[u] > 0
  /\ checks' = [checks EXCEPT ![u] = @ - 1]
  /\ ClearFailures(u)
  /\ IF ~SignedIn
       THEN UNCHANGED <<authVars, deferred, modal, drawer, rows>>
       ELSE LET runs == deferred # NoShelter
                over == runs /\ Saves(deferred) /\ (AbsoluteOver \/ IdleOver)
            IN /\ modal' = "none"
               /\ deferred' = NoShelter
               /\ drawer' = [drawer EXCEPT !.open = @ /\ ~(runs /\ Saves(deferred))]
               /\ IF runs THEN SaveRow(deferred, IF over THEN NoUser ELSE session.user)
                          ELSE UNCHANGED rows
               /\ session' = IF over THEN NoSession ELSE [session EXCEPT !.since = 0]
               /\ role' = IF over THEN "citizen" ELSE role
               /\ UNCHANGED watching
  /\ UNCHANGED signing

StepUpRejected(u) ==
  /\ checks[u] > 0
  /\ checks' = [checks EXCEPT ![u] = @ - 1]
  /\ RecordFailure(u)
  /\ UNCHANGED <<authVars, signing, deferred, modal, drawer, rows>>

StepUpUnreachable(u) ==
  /\ checks[u] > 0
  /\ checks' = [checks EXCEPT ![u] = @ - 1]
  /\ UNCHANGED <<authVars, throttleVars, signing, deferred, modal, drawer, rows>>

-----------------------------------------------------------------------------
(* Time *)

Tick ==
  /\ session' = IF SignedIn
       THEN [session EXCEPT !.idle = Older(@, IdleMax), !.age = Older(@, AbsoluteMax),
                            !.since = Min({@ + 1, StepUpMax})]
       ELSE session
  /\ lock' = [u \in Users |-> IF lock[u] > 0 THEN lock[u] - 1 ELSE 0]
  /\ UNCHANGED <<role, watching, fails, verifyVars, deferred, modal, drawer, rows>>

\* A pointer, key or wheel event that no handler above belongs to.
TouchSession ==
  /\ SignedIn
  /\ Active
  /\ UNCHANGED <<role, watching, throttleVars, verifyVars, deferred, modal, drawer, rows>>

\* One beat of the session watch that has something to do.
Watch ==
  /\ watching
  /\ ~SignedIn \/ IdleOver \/ session.age >= AbsoluteMax
  /\ watching' = FALSE
  /\ IF SignedIn THEN EndSession /\ modal' = "none"
                 ELSE UNCHANGED <<session, role, drawer, modal>>
  /\ UNCHANGED <<throttleVars, verifyVars, deferred, rows>>

\* A repaint driven by the pipeline, in render() or in the role switch of the top
\* bar, finds the session over.
RenderExpired ==
  /\ role = "gov"
  /\ AbsoluteOver \/ IdleOver
  /\ EndSession
  /\ modal' = "none"
  /\ UNCHANGED <<watching, throttleVars, verifyVars, deferred, rows>>

Operator ==
  \/ RequestCommand \/ RequestPublic \/ ConfirmSignOut \/ CloseModal
  \/ \E u \in Users : SubmitSignIn(u)
  \/ \E f \in Shelters \union {NoShelter} : OpenDrawer(f)
  \/ CloseDrawer \/ Go \/ SubmitStepUp \/ TouchSession
  \/ \E id \in Shelters : SaveShelter(id)

Answer ==
  \/ SignInAccepted \/ SignInRejected \/ SignInUnreachable
  \/ \E u \in Users : StepUpAccepted(u) \/ StepUpRejected(u) \/ StepUpUnreachable(u)

Next == Operator \/ Answer \/ Tick \/ Watch \/ RenderExpired

Spec == Init /\ [][Next]_vars

\* The interval of startSessionWatch keeps firing.
FairSpec == Spec /\ WF_vars(Watch)

-----------------------------------------------------------------------------
(* Properties *)

TypeOK ==
  /\ session \in [user : Users \union {NoUser}, idle : 0..IdleMax + 1,
                  age : 0..AbsoluteMax + 1, since : 0..StepUpMax]
  /\ role \in {"gov", "citizen"} /\ watching \in BOOLEAN
  /\ fails \in [Users -> 0..MaxFailures] /\ lock \in [Users -> Nat]
  /\ signing \in Users \union {NoUser} /\ checks \in [Users -> Nat]
  /\ deferred \in Shelters \union {NoShelter}
  /\ modal \in {"none", "signin", "signout", "stepup"}
  /\ drawer \in [open : BOOLEAN, form : Shelters \union {NoShelter}]
  /\ rows \in [Shelters -> [form : Shelters, by : Users \union {NoUser}]]

\* The screen and the store agree about who the viewer is (views.js, go): the
\* command screens are up exactly while there is a session, which a watch will
\* end, and the two prompts that need a session are never up without one.
CommandIffSession ==
  /\ role = "gov" <=> SignedIn
  /\ SignedIn => watching
  /\ modal \in {"signout", "stepup"} => SignedIn

\* auth.js, requirePrivilege and saveShelter: a shelter's row is written for a
\* session whose scope has the shelter.  Its user holds the permission and is
\* within the step-up window, or the password of somebody who holds the
\* permission has just been verified, whoever's session it is by then.
WritesConfirmed ==
  [][\A id \in Shelters : rows'[id] # rows[id] =>
       /\ id \in Scope[session.user]
       /\ \/ session.user \in MayWrite /\ session.since < StepUpMax
          \/ \E u \in MayWrite : checks'[u] < checks[u]]_vars

\* A save that needs no password writes the figures of its own shelter's form;
\* only one that waited for the password may find another form in the drawer.
ForeignFormOnlyDeferred ==
  [][\A id \in Shelters :
       rows'[id] # rows[id] /\ rows'[id].form # id => deferred = id]_vars

\* No activity keeps a session past its absolute limit, and one left alone ends.
ExpiredSessionEnds ==
  /\ AbsoluteOver ~> ~SignedIn
  /\ IdleOver ~> ~IdleOver
================================================================================
