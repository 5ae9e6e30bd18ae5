----------------------------- MODULE ConsoleProofs -----------------------------
(***************************************************************************)
(* For every set of operators and shelters, every scope and every limit:   *)
(* the command screens are up exactly while a session stands, and every    *)
(* write has the permission behind it.  Neither follows from one handler:  *)
(* a session ends in six of them, and the password that releases a write   *)
(* is answered after any of the others.                                    *)
(***************************************************************************)
EXTENDS Console, TLAPS

\* The prompt for a password, and a password on its way, stand for somebody who
\* holds the permission: only such a user is ever asked.
HoldersOnly ==
  /\ modal = "stepup" => session.user \in MayWrite
  /\ \A u \in Users : checks[u] > 0 => u \in MayWrite

IInv == TypeOK /\ CommandIffSession /\ HoldersOnly

-----------------------------------------------------------------------------
\* The smaller of two numbers is one of them, and below both.
LEMMA MinOfTwo ==
  ASSUME NEW a \in Nat, NEW b \in Nat
  PROVE  Min({a, b}) \in {a, b} /\ Min({a, b}) <= a /\ Min({a, b}) <= b
BY SMT DEF Min

\* An instant counted in ticks stays within one of the limit it is compared with.
LEMMA OlderInRange ==
  ASSUME NEW limit \in Nat, NEW n \in 0..limit + 1
  PROVE  Older(n, limit) \in 0..limit + 1
BY DEF Older

LEMMA InitIInv == Init => IInv
<1> SUFFICES ASSUME Init PROVE IInv
  OBVIOUS
<1>1. TypeOK
  <2>1. session \in [user : Users \union {NoUser}, idle : 0..IdleMax + 1,
                     age : 0..AbsoluteMax + 1, since : 0..StepUpMax]
    BY ConsoleAssumption DEF Init, NoSession
  <2>2. /\ fails \in [Users -> 0..MaxFailures] /\ lock \in [Users -> Nat]
        /\ checks \in [Users -> Nat]
    BY ConsoleAssumption DEF Init
  <2>3. /\ drawer \in [open : BOOLEAN, form : Shelters \union {NoShelter}]
        /\ rows \in [Shelters -> [form : Shelters, by : Users \union {NoUser}]]
    BY DEF Init
  <2> QED
    BY <2>1, <2>2, <2>3 DEF Init, TypeOK
<1>2. CommandIffSession
  BY DEF Init, CommandIffSession, NoSession, SignedIn
<1>3. HoldersOnly
  BY DEF Init, HoldersOnly
<1> QED
  BY <1>1, <1>2, <1>3 DEF IInv

-----------------------------------------------------------------------------
(* What the handlers share *)

\* Activity moves nothing but the idle time.
LEMMA ActiveKeeps ==
  ASSUME TypeOK, Active
  PROVE  /\ session' \in [user : Users \union {NoUser}, idle : 0..IdleMax + 1,
                          age : 0..AbsoluteMax + 1, since : 0..StepUpMax]
         /\ session'.user = session.user
BY ConsoleAssumption DEF TypeOK, Active

\* A session that ends leaves the public portal and no form in sight.
LEMMA EndSessionKeeps ==
  ASSUME TypeOK, EndSession
  PROVE  /\ session' \in [user : Users \union {NoUser}, idle : 0..IdleMax + 1,
                          age : 0..AbsoluteMax + 1, since : 0..StepUpMax]
         /\ session'.user = NoUser /\ role' = "citizen"
         /\ drawer' \in [open : BOOLEAN, form : Shelters \union {NoShelter}]
<1>1. /\ session' \in [user : Users \union {NoUser}, idle : 0..IdleMax + 1,
                      age : 0..AbsoluteMax + 1, since : 0..StepUpMax]
      /\ session'.user = NoUser /\ role' = "citizen"
  BY ConsoleAssumption DEF TypeOK, EndSession, NoSession
<1>2. drawer' \in [open : BOOLEAN, form : Shelters \union {NoShelter}]
  BY DEF TypeOK, EndSession
<1> QED
  BY <1>1, <1>2

\* Failures and their locks stay in range.
LEMMA RecordFailureKeeps ==
  ASSUME TypeOK, NEW u \in Users, RecordFailure(u)
  PROVE  fails' \in [Users -> 0..MaxFailures] /\ lock' \in [Users -> Nat]
<1>1. fails[u] + 1 \in 0..MaxFailures
  BY ConsoleAssumption DEF TypeOK, RecordFailure
<1>2. fails' \in [Users -> 0..MaxFailures]
  BY <1>1 DEF TypeOK, RecordFailure
<1>3. fails[u] + 1 >= MaxAttempts => LockFor(fails[u] + 1) \in Nat
  BY <1>1, LockAssumption, ConsoleAssumption
<1>4. lock' \in [Users -> Nat]
  BY <1>3 DEF TypeOK, RecordFailure
<1> QED
  BY <1>2, <1>4

LEMMA ClearFailuresKeeps ==
  ASSUME TypeOK, NEW u \in Users, ClearFailures(u)
  PROVE  fails' \in [Users -> 0..MaxFailures] /\ lock' \in [Users -> Nat]
BY ConsoleAssumption DEF TypeOK, ClearFailures

\* A write keeps the rows' type: it copies a form of the drawer.
LEMMA SaveRowKeeps ==
  ASSUME TypeOK, NEW id \in Shelters, NEW who \in Users \union {NoUser}, SaveRow(id, who)
  PROVE  rows' \in [Shelters -> [form : Shelters, by : Users \union {NoUser}]]
BY DEF TypeOK, SaveRow

-----------------------------------------------------------------------------
(* The operator *)

\* Going somewhere only needs a session, or finds it over.
LEMMA NavigationKeeps ==
  ASSUME IInv, RequestCommand \/ RequestPublic \/ ConfirmSignOut \/ CloseModal \/ Go \/ TouchSession
  PROVE  IInv'
<1> USE DEF IInv, CommandIffSession, HoldersOnly, SignedIn, throttleVars, verifyVars
<1>1. CASE RequestCommand
  BY <1>1, ActiveKeeps, EndSessionKeeps DEF RequestCommand, IfSignedIn, TypeOK
<1>2. CASE RequestPublic
  BY <1>2, ActiveKeeps, EndSessionKeeps DEF RequestPublic, TypeOK
<1>3. CASE ConfirmSignOut
  BY <1>3, EndSessionKeeps DEF ConfirmSignOut, TypeOK
<1>4. CASE CloseModal
  BY <1>4, ActiveKeeps DEF CloseModal, TypeOK
<1>5. CASE Go
  BY <1>5, ActiveKeeps, EndSessionKeeps DEF Go, IfSignedIn, TypeOK
<1>6. CASE TouchSession
  BY <1>6, ActiveKeeps DEF TouchSession, TypeOK
<1> QED
  BY <1>1, <1>2, <1>3, <1>4, <1>5, <1>6

\* The drawer opens and closes under whatever session there is.
LEMMA DrawerKeeps ==
  ASSUME IInv, \/ \E f \in Shelters \union {NoShelter} : OpenDrawer(f)
               \/ CloseDrawer
  PROVE  IInv'
<1> USE DEF IInv, CommandIffSession, HoldersOnly, SignedIn, throttleVars, verifyVars
<1>1. CASE \E f \in Shelters \union {NoShelter} : OpenDrawer(f)
  BY <1>1, ActiveKeeps DEF OpenDrawer, TypeOK
<1>2. CASE CloseDrawer
  BY <1>2, ActiveKeeps DEF CloseDrawer, TypeOK
<1> QED
  BY <1>1, <1>2

\* A save writes at once, waits for a password, or is refused; the prompt only
\* comes up for a user who holds the permission.
LEMMA SaveShelterKeeps ==
  ASSUME IInv, NEW id \in Shelters, SaveShelter(id)
  PROVE  IInv'
<1> USE DEF IInv, CommandIffSession, HoldersOnly, SignedIn, throttleVars, verifyVars
<1>1. CASE ~(SignedIn /\ ~AbsoluteOver)
  BY <1>1, EndSessionKeeps DEF SaveShelter, IfSignedIn, TypeOK
<1>2. CASE SignedIn /\ ~AbsoluteOver
  <2>0. session.user \in Users
    BY <1>2 DEF TypeOK
  <2>1. CASE RefuseSave
    BY <1>2, <2>1, ActiveKeeps DEF SaveShelter, RefuseSave, TypeOK
  <2>2. CASE session.user \in MayWrite /\ SaveAtOnce(id)
    BY <1>2, <2>0, <2>2, ActiveKeeps, SaveRowKeeps DEF SaveShelter, SaveAtOnce, TypeOK
  <2>3. CASE session.user \in MayWrite /\ DeferSave(id)
    BY <1>2, <2>3, ActiveKeeps DEF SaveShelter, DeferSave, TypeOK
  <2> QED
    BY <1>2, <2>1, <2>2, <2>3 DEF SaveShelter, IfSignedIn
<1> QED
  BY <1>1, <1>2

\* Passwords are sent: nothing but who is being checked changes.
LEMMA SubmitKeeps ==
  ASSUME IInv, SubmitStepUp \/ \E u \in Users : SubmitSignIn(u)
  PROVE  IInv'
<1> USE DEF IInv, CommandIffSession, HoldersOnly, SignedIn, throttleVars
<1>1. CASE SubmitStepUp
  <2>1. session.user \in Users /\ session.user \in MayWrite
    BY <1>1 DEF SubmitStepUp, TypeOK
  <2>2. checks' = [checks EXCEPT ![session.user] = @ + 1]
    BY <1>1 DEF SubmitStepUp
  <2>3. checks' \in [Users -> Nat] /\ \A u \in Users : checks'[u] > 0 => u \in MayWrite
    BY <2>1, <2>2 DEF TypeOK
  <2> QED
    BY <1>1, <2>3, ActiveKeeps DEF SubmitStepUp, TypeOK
<1>2. CASE \E u \in Users : SubmitSignIn(u)
  BY <1>2 DEF SubmitSignIn, TypeOK, authVars
<1> QED
  BY <1>1, <1>2

-----------------------------------------------------------------------------
(* The answers *)

LEMMA SignInKeeps ==
  ASSUME IInv, SignInAccepted \/ SignInRejected \/ SignInUnreachable
  PROVE  IInv'
<1> USE ConsoleAssumption
    DEF IInv, CommandIffSession, HoldersOnly, SignedIn, authVars, throttleVars
<1>1. CASE SignInAccepted
  BY <1>1, ClearFailuresKeeps DEF SignInAccepted, TypeOK
<1>2. CASE SignInRejected
  BY <1>2, RecordFailureKeeps DEF SignInRejected, TypeOK
<1>3. CASE SignInUnreachable
  BY <1>3 DEF SignInUnreachable, TypeOK
<1> QED
  BY <1>1, <1>2, <1>3

\* The answer to a step-up: the deferred write runs for the session there is by
\* then, and the repaint after it may end that session.
LEMMA StepUpKeeps ==
  ASSUME IInv, NEW u \in Users,
         StepUpAccepted(u) \/ StepUpRejected(u) \/ StepUpUnreachable(u)
  PROVE  IInv'
<1> USE DEF IInv, CommandIffSession, HoldersOnly, SignedIn, authVars, throttleVars
<1>1. checks[u] > 0 /\ checks' = [checks EXCEPT ![u] = @ - 1] /\ signing' = signing
  BY DEF StepUpAccepted, StepUpRejected, StepUpUnreachable
<1>2. checks' \in [Users -> Nat] /\ \A v \in Users : checks'[v] > 0 => v \in MayWrite
  BY <1>1 DEF TypeOK
<1>3. CASE StepUpAccepted(u)
  <2>1. fails' \in [Users -> 0..MaxFailures] /\ lock' \in [Users -> Nat]
    BY <1>3, ClearFailuresKeeps DEF StepUpAccepted
  <2>2. CASE ~SignedIn
    BY <1>1, <1>2, <1>3, <2>1, <2>2 DEF StepUpAccepted, TypeOK
  <2>3. CASE SignedIn
    <3> DEFINE runs == deferred # NoShelter
               over == runs /\ Saves(deferred) /\ (AbsoluteOver \/ IdleOver)
    <3>1. /\ modal' = "none" /\ deferred' = NoShelter /\ watching' = watching
          /\ drawer' = [drawer EXCEPT !.open = @ /\ ~(runs /\ Saves(deferred))]
          /\ session' = IF over THEN NoSession ELSE [session EXCEPT !.since = 0]
          /\ role' = IF over THEN "citizen" ELSE role
          /\ IF runs THEN SaveRow(deferred, IF over THEN NoUser ELSE session.user)
                     ELSE UNCHANGED rows
      BY <1>3, <2>3 DEF StepUpAccepted
    <3>2. rows' \in [Shelters -> [form : Shelters, by : Users \union {NoUser}]]
      <4>1. CASE runs
        <5>1. deferred \in Shelters
          BY <4>1 DEF TypeOK
        <5>2. (IF over THEN NoUser ELSE session.user) \in Users \union {NoUser}
          BY DEF TypeOK
        <5> HIDE DEF over
        <5> QED
          BY <3>1, <4>1, <5>1, <5>2, SaveRowKeeps
      <4> QED
        BY <3>1, <4>1 DEF TypeOK
    <3>3. /\ session' \in [user : Users \union {NoUser}, idle : 0..IdleMax + 1,
                           age : 0..AbsoluteMax + 1, since : 0..StepUpMax]
          /\ session'.user = IF over THEN NoUser ELSE session.user
      <4> HIDE DEF over
      <4> QED BY <3>1, ConsoleAssumption DEF TypeOK, NoSession
    <3>4. drawer' \in [open : BOOLEAN, form : Shelters \union {NoShelter}]
      <4> DEFINE saved == runs /\ Saves(deferred)
      <4> HIDE DEF saved
      <4> QED BY <3>1 DEF TypeOK, saved
    <3> HIDE DEF over
    <3>5. TypeOK'
      BY <1>1, <1>2, <2>1, <3>1, <3>2, <3>3, <3>4 DEF TypeOK
    <3> QED
      BY <1>2, <2>3, <3>1, <3>3, <3>5
  <2> QED
    BY <2>2, <2>3
<1>4. CASE StepUpRejected(u)
  BY <1>1, <1>2, <1>4, RecordFailureKeeps DEF StepUpRejected, TypeOK
<1>5. CASE StepUpUnreachable(u)
  BY <1>1, <1>2, <1>5 DEF StepUpUnreachable, TypeOK
<1> QED
  BY <1>3, <1>4, <1>5

-----------------------------------------------------------------------------
(* Time *)

LEMMA TimeKeeps ==
  ASSUME IInv, Tick \/ Watch \/ RenderExpired
  PROVE  IInv'
<1> USE DEF IInv, CommandIffSession, HoldersOnly, SignedIn, throttleVars, verifyVars
<1>1. CASE Tick
  <2>1. /\ session' \in [user : Users \union {NoUser}, idle : 0..IdleMax + 1,
                         age : 0..AbsoluteMax + 1, since : 0..StepUpMax]
        /\ session'.user = session.user
    <3>1. CASE SignedIn
      <4>1. Older(session.idle, IdleMax) \in 0..IdleMax + 1
        BY OlderInRange, ConsoleAssumption DEF TypeOK
      <4>2. Older(session.age, AbsoluteMax) \in 0..AbsoluteMax + 1
        BY OlderInRange, ConsoleAssumption DEF TypeOK
      <4>3. Min({session.since + 1, StepUpMax}) \in 0..StepUpMax
        BY MinOfTwo, ConsoleAssumption DEF TypeOK
      <4> QED
        BY <1>1, <3>1, <4>1, <4>2, <4>3 DEF Tick, TypeOK
    <3>2. CASE ~SignedIn
      BY <1>1, <3>2 DEF Tick, TypeOK
    <3> QED
      BY <3>1, <3>2
  <2>2. lock' \in [Users -> Nat]
    BY <1>1 DEF Tick, TypeOK
  <2> QED
    BY <1>1, <2>1, <2>2 DEF Tick, TypeOK
<1>2. CASE Watch
  BY <1>2, EndSessionKeeps DEF Watch, TypeOK
<1>3. CASE RenderExpired
  BY <1>3, EndSessionKeeps DEF RenderExpired, TypeOK
<1> QED
  BY <1>1, <1>2, <1>3

LEMMA NextIInv == IInv /\ [Next]_vars => IInv'
<1> SUFFICES ASSUME IInv, [Next]_vars PROVE IInv'
  OBVIOUS
<1>1. CASE Operator
  BY <1>1, NavigationKeeps, DrawerKeeps, SaveShelterKeeps, SubmitKeeps DEF Operator
<1>2. CASE Answer
  BY <1>2, SignInKeeps, StepUpKeeps DEF Answer
<1>3. CASE Tick \/ Watch \/ RenderExpired
  BY <1>3, TimeKeeps
<1>4. CASE UNCHANGED vars
  BY <1>4 DEF vars, authVars, throttleVars, verifyVars, IInv, TypeOK, CommandIffSession,
              HoldersOnly, SignedIn
<1> QED
  BY <1>1, <1>2, <1>3, <1>4 DEF Next

THEOREM Invariance == Spec => []IInv
BY InitIInv, NextIInv, PTL DEF Spec

\* The session, the throttle, the prompts and the rows keep their types.
THEOREM TypeCorrect == Spec => []TypeOK
<1>1. IInv => TypeOK
  BY DEF IInv
<1> QED
  BY <1>1, Invariance, PTL

\* views.js, go: the command screens are up exactly while somebody is signed in
\* and watched, and no prompt outlives its session.
THEOREM CommandNeedsSession == Spec => []CommandIffSession
<1>1. IInv => CommandIffSession
  BY DEF IInv
<1> QED
  BY <1>1, Invariance, PTL

-----------------------------------------------------------------------------
(* The writes *)

\* Two actions of the console write rows.
LEMMA WriterIsSaveOrStepUp ==
  ASSUME [Next]_vars, NEW id \in Shelters, rows'[id] # rows[id]
  PROVE  \/ \E i \in Shelters : SaveShelter(i)
         \/ \E u \in Users : StepUpAccepted(u)
BY DEF Next, Operator, Answer, vars, RequestCommand, RequestPublic, ConfirmSignOut,
       CloseModal, SubmitSignIn, OpenDrawer, CloseDrawer, Go, SubmitStepUp, TouchSession,
       IfSignedIn, SignInAccepted, SignInRejected, SignInUnreachable, StepUpRejected,
       StepUpUnreachable, Tick, Watch, RenderExpired

\* One step writes only with the permission and the scope.
LEMMA WriteHasPermission ==
  ASSUME IInv, [Next]_vars, NEW id \in Shelters, rows'[id] # rows[id]
  PROVE  /\ id \in Scope[session.user]
         /\ \/ session.user \in MayWrite /\ session.since < StepUpMax
            \/ \E u \in MayWrite : checks'[u] < checks[u]
<1> USE DEF IInv
<1>1. \/ \E i \in Shelters : SaveShelter(i)
      \/ \E u \in Users : StepUpAccepted(u)
  BY WriterIsSaveOrStepUp
\* SaveRow touches the row of its own shelter, inside the scope.
<1>2. ASSUME NEW i \in Shelters, NEW who \in Users \union {NoUser}, SaveRow(i, who)
      PROVE  id = i /\ id \in Scope[session.user]
  BY <1>2 DEF SaveRow, TypeOK
<1>3. CASE \E i \in Shelters : SaveShelter(i)
  <2>1. PICK i \in Shelters : SaveShelter(i)
    BY <1>3
  <2>2. SignedIn /\ session.user \in MayWrite /\ SaveAtOnce(i)
    BY <2>1 DEF SaveShelter, IfSignedIn, RefuseSave, DeferSave
  <2>3. session.user \in Users \union {NoUser}
    BY DEF TypeOK
  <2> QED
    BY <1>2, <2>2, <2>3 DEF SaveAtOnce
<1>4. CASE \E u \in Users : StepUpAccepted(u)
  <2>1. PICK u \in Users : StepUpAccepted(u)
    BY <1>4
  <2>2. u \in MayWrite /\ checks'[u] < checks[u]
    BY <2>1 DEF StepUpAccepted, HoldersOnly, TypeOK
  <2>3. /\ deferred \in Shelters
        /\ SaveRow(deferred, NoUser) \/ SaveRow(deferred, session.user)
    BY <2>1 DEF StepUpAccepted, TypeOK
  <2>4. session.user \in Users \union {NoUser}
    BY DEF TypeOK
  <2> QED
    BY <1>2, <2>2, <2>3, <2>4
<1> QED
  BY <1>1, <1>3, <1>4

\* auth.js, requirePrivilege: no write of a shelter's row without the scope, and
\* none without somebody's permission and a password given for it.
THEOREM WritesNeedPermission == Spec => WritesConfirmed
<1>1. IInv /\ [Next]_vars =>
        [\A id \in Shelters : rows'[id] # rows[id] =>
           /\ id \in Scope[session.user]
           /\ \/ session.user \in MayWrite /\ session.since < StepUpMax
              \/ \E u \in MayWrite : checks'[u] < checks[u]]_vars
  BY WriteHasPermission
<1> QED
  BY <1>1, Invariance, PTL DEF Spec, WritesConfirmed

\* One step that writes another form's figures writes for the deferred shelter:
\* the Submit button belongs to the form that is in the drawer.
LEMMA ForeignFormIsDeferred ==
  ASSUME IInv, [Next]_vars, NEW id \in Shelters,
         rows'[id] # rows[id], rows'[id].form # id
  PROVE  deferred = id
<1> USE DEF IInv
<1>1. \/ \E i \in Shelters : SaveShelter(i)
      \/ \E u \in Users : StepUpAccepted(u)
  BY WriterIsSaveOrStepUp
<1>2. CASE \E i \in Shelters : SaveShelter(i)
  <2>1. PICK i \in Shelters : SaveShelter(i)
    BY <1>2
  <2>2. drawer.form = i /\ SaveAtOnce(i)
    BY <2>1 DEF SaveShelter, IfSignedIn, RefuseSave, DeferSave
  <2>3. id = i /\ rows'[id].form = drawer.form
    BY <2>2 DEF SaveAtOnce, SaveRow, TypeOK
  <2> QED
    BY <2>2, <2>3
<1>3. CASE \E u \in Users : StepUpAccepted(u)
  <2>1. \E who \in Users \union {NoUser} : SaveRow(deferred, who)
    BY <1>3 DEF StepUpAccepted, TypeOK
  <2> QED
    BY <2>1 DEF SaveRow, TypeOK
<1> QED
  BY <1>1, <1>2, <1>3

\* actions.js, doSaveShelter: only a save that waited for a password may write
\* the figures of a form the operator has turned to meanwhile.
THEOREM OnlyDeferredSavesStray == Spec => ForeignFormOnlyDeferred
<1>1. IInv /\ [Next]_vars =>
        [\A id \in Shelters :
           rows'[id] # rows[id] /\ rows'[id].form # id => deferred = id]_vars
  BY ForeignFormIsDeferred
<1> QED
  BY <1>1, Invariance, PTL DEF Spec, ForeignFormOnlyDeferred
================================================================================
