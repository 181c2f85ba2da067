------------------------- MODULE TabBrowser_proofs -------------------------
(***************************************************************************)
(* Proofs about TabBrowser, for any set of tasks and any number of         *)
(* launches.                                                               *)
(***************************************************************************)
EXTENDS TabBrowser, FiniteSetTheorems, TLAPS

USE CallsAssumption, BoundsAssumption

(***************************************************************************)
(* The inductive invariant.                                                *)
(***************************************************************************)

\* _init_lock is held while Chrome is launched, and _lock from the first
\* navigation on, through a relaunch in the middle.
LocksHeld ==
  \A t \in Calls :
    /\ initLock = t <=> call[t].pc \in {"starting", "opening"}
    /\ lock = t <=> call[t].pc \in {"nav", "reset", "read"} \/ call[t].again
    /\ call[t].pc \in {"idle", "lock"} => ~call[t].again

\* Who has navigated, or is about to, has the tab of the current browser;
\* who resets found it dead; who launches has no tab yet.
TabKnown ==
  \A t \in Calls :
    /\ call[t].pc \in {"nav", "reset", "read"} => Started
    /\ call[t].pc = "reset" => ~Up(browser)
    /\ call[t].pc \in {"starting", "opening"} => tab = 0
    /\ call[t].pc = "opening" => browser # 0

\* A Chrome that runs without a tab is being opened, or its launch ended
\* between the two awaits.
Halfway ==
  Up(browser) /\ tab = 0 =>
    browser \in spoilt \/ \E t \in Calls : call[t].pc = "opening"

IInv ==
  /\ TypeOK
  /\ LocksHeld
  /\ TabKnown
  /\ Halfway
  /\ NoOtherLeak

LEMMA InitInv == Init => IInv
<1> SUFFICES ASSUME Init PROVE IInv
  OBVIOUS
<1>1. browser \in {0, 1} /\ tab \in {0, browser} /\ spoilt \in {{}, {1}}
  BY DEF Init
<1>2. chrome = [i \in Ids |-> IF i = browser THEN "up" ELSE "unused"]
  BY DEF Init
<1>3. TypeOK
  <2>1. Idle \in Call
    BY DEF Idle, Call
  <2>2. call \in [Calls -> Call]
    BY <2>1 DEF Init
  <2>3. chrome \in [Ids -> {"unused", "up", "dead", "stopped"}]
    BY <1>2
  <2>4. browser \in 0 .. MaxStarts /\ spoilt \subseteq Ids
    BY <1>1 DEF Ids
  <2>5. initLock = None /\ lock = None /\ closed \in BOOLEAN
    BY DEF Init
  <2>6. QED
    BY <1>1, <2>2, <2>3, <2>4, <2>5 DEF TypeOK
<1>4. LocksHeld /\ TabKnown
  BY DEF Init, LocksHeld, TabKnown, Idle
<1>5. Halfway
  <2>1. browser # 0 /\ tab = 0 => spoilt = {browser}
    BY DEF Init
  <2>2. QED
    BY <2>1 DEF Halfway, Up
<1>6. NoOtherLeak
  BY <1>2 DEF NoOtherLeak, Up
<1>7. QED
  BY <1>3, <1>4, <1>5, <1>6 DEF IInv

(***************************************************************************)
(* The steps of one call.                                                  *)
(***************************************************************************)

\* Leaving a call: the locks that it held are free, the tab is untouched.
LEMMA LeaveLocks ==
  ASSUME TypeOK, LocksHeld, NEW t \in Calls, Leave(t)
  PROVE  /\ LocksHeld'
         /\ initLock' \in Calls \cup {None} /\ lock' \in Calls \cup {None}
         /\ call' \in [Calls -> Call]
         /\ call'[t] = Idle
         /\ \A u \in Calls : u # t => call'[u] = call[u]
<1>1. Idle \in Call
  BY DEF Idle, Call
<1>2. QED
  BY <1>1 DEF TypeOK, LocksHeld, Leave, Freed, Idle

\* What is said of the tabs survives when a call is left and at most a
\* Chrome that nobody knows is launched.
LEMMA LeaveTab ==
  ASSUME TypeOK, LocksHeld, TabKnown, NEW t \in Calls, Leave(t),
         UNCHANGED browserVars,
         chrome' = chrome \/ call[t].pc = "starting"
  PROVE  TabKnown'
<1>1. CASE chrome' = chrome
  BY <1>1, LeaveLocks DEF TabKnown, Idle, Started, Up, browserVars
<1>2. CASE call[t].pc = "starting"
  <2>1. tab = 0
    BY <1>2 DEF TabKnown
  <2>2. \A u \in Calls : call'[u].pc \notin {"nav", "reset", "read"}
    BY <2>1, LeaveLocks DEF TabKnown, Started, Idle
  <2>3. QED
    BY <2>2, LeaveLocks DEF TabKnown, Idle, browserVars
<1>3. QED
  BY <1>1, <1>2

\* A step of a call that moves it along and touches neither Chromes nor tab.
LEMMA MoveTab ==
  ASSUME TypeOK, Halfway, NoOtherLeak, NEW t \in Calls,
         call[t].pc # "opening", \A u \in Calls : u # t => call'[u] = call[u],
         UNCHANGED <<chrome, browserVars, spoilt>>
  PROVE  Halfway' /\ NoOtherLeak'
BY DEF Halfway, NoOtherLeak, Up, browserVars

LEMMA BeginStep == ASSUME IInv, NEW t \in Calls, Begin(t) PROVE IInv'
<1>1. PICK kind \in {"search", "resolve"} :
        call' = [call EXCEPT ![t] =
                   [Idle EXCEPT !.pc = IF Started THEN "lock" ELSE "ensure", !.kind = kind]]
  BY DEF Begin
<1>2. call' \in [Calls -> Call]
  BY <1>1 DEF IInv, TypeOK, Call, Idle
<1>3. TypeOK' /\ LocksHeld' /\ TabKnown'
  <2>1. TypeOK'
    BY <1>2 DEF IInv, Begin, TypeOK, browserVars, lockVars
  <2>2. call'[t].pc \in {"lock", "ensure"} /\ call'[t].again = FALSE
        /\ \A u \in Calls : u # t => call'[u] = call[u]
    BY <1>1 DEF IInv, TypeOK, Idle
  <2>3. call[t].pc = "idle" /\ UNCHANGED <<chrome, browserVars, lockVars>>
    BY DEF Begin
  <2>4. LocksHeld'
    <3>1. initLock # t
      BY <2>3 DEF IInv, LocksHeld
    <3>2. lock # t
      BY <2>3 DEF IInv, LocksHeld
    <3>3. QED
      BY <2>2, <2>3, <3>1, <3>2 DEF IInv, LocksHeld, lockVars
  <2>5. TabKnown'
    BY <2>2, <2>3 DEF IInv, TabKnown, Started, Up, browserVars
  <2>6. QED
    BY <2>1, <2>4, <2>5
<1>4. Halfway' /\ NoOtherLeak'
  BY <1>1, MoveTab DEF IInv, Begin, TypeOK
<1>5. QED
  BY <1>3, <1>4 DEF IInv

LEMMA EnsureStep == ASSUME IInv, NEW t \in Calls, Ensure(t) PROVE IInv'
<1> USE DEF IInv
<1>1. CASE Started /\ Goto(t, AfterEnsure(t)) /\ UNCHANGED initLock
  <2>1. call' \in [Calls -> Call]
    BY <1>1 DEF Goto, AfterEnsure, TypeOK, Call
  <2>2. TypeOK'
    BY <1>1, <2>1 DEF Ensure, TypeOK, browserVars
  <2>3. LocksHeld' /\ TabKnown'
    BY <1>1
    DEF Ensure, Goto, AfterEnsure, TypeOK, Call, LocksHeld, TabKnown, Started, Up, browserVars
  <2>4. Halfway' /\ NoOtherLeak'
    BY <1>1, MoveTab DEF Ensure, Goto, TypeOK
  <2>5. QED
    BY <2>2, <2>3, <2>4
<1>2. CASE ~Started /\ initLock' = t /\ Goto(t, "starting")
  <2>1. call' \in [Calls -> Call]
    BY <1>2 DEF Goto, TypeOK, Call
  <2>2. TypeOK'
    BY <1>2, <2>1 DEF Ensure, TypeOK, browserVars
  <2>3. LocksHeld' /\ TabKnown'
    BY <1>2 DEF Ensure, Goto, TypeOK, Call, LocksHeld, TabKnown, Started, Up, browserVars
  <2>4. Halfway' /\ NoOtherLeak'
    BY <1>2, MoveTab DEF Ensure, Goto, TypeOK
  <2>5. QED
    BY <2>2, <2>3, <2>4
<1>3. QED
  BY <1>1, <1>2 DEF Ensure

LEMMA StartStep == ASSUME IInv, NEW t \in Calls, StartOk(t) PROVE IInv'
<1> USE DEF IInv
<1>1. PICK i \in Ids : Launch(i) /\ browser' = i
  BY DEF StartOk, Launch
<1>2. call' \in [Calls -> Call]
  BY DEF StartOk, Goto, TypeOK, Call
<1>3. tab = 0 /\ tab' = 0
  BY DEF StartOk, TabKnown
<1>4. TypeOK'
  <2>1. chrome' \in [Ids -> {"unused", "up", "dead", "stopped"}]
    BY <1>1 DEF Launch, TypeOK
  <2>2. i \in 0 .. MaxStarts
    BY DEF Ids
  <2>3. QED
    BY <1>1, <1>2, <1>3, <2>1, <2>2 DEF StartOk, TypeOK, lockVars
<1>5. LocksHeld'
  BY DEF StartOk, Goto, TypeOK, Call, LocksHeld, lockVars
<1>6. TabKnown'
  BY <1>1, <1>3 DEF StartOk, Goto, TypeOK, Call, TabKnown, Started, Ids
<1>7. call'[t].pc = "opening"
  BY DEF StartOk, Goto, TypeOK, Call
<1>8. NoOtherLeak'
  <2>1. \A u \in Calls : call[u].pc # "opening"
    BY DEF StartOk, LocksHeld
  <2>2. Up(browser) => browser \in spoilt
    BY <1>3, <2>1 DEF Halfway
  <2>3. QED
    BY <1>1, <2>2 DEF StartOk, Launch, NoOtherLeak, TypeOK, Up, Ids
<1>9. QED
  BY <1>4, <1>5, <1>6, <1>7, <1>8 DEF Halfway

LEMMA OpenStep == ASSUME IInv, NEW t \in Calls, OpenOk(t) PROVE IInv'
<1> USE DEF IInv
<1>1. call' \in [Calls -> Call]
  BY DEF OpenOk, Goto, AfterEnsure, TypeOK, Call
<1>2. browser # 0
  BY DEF OpenOk, Up
<1>3. TypeOK'
  BY <1>1 DEF OpenOk, TypeOK
<1>4. LocksHeld'
  BY DEF OpenOk, Goto, AfterEnsure, TypeOK, Call, LocksHeld
<1>5. TabKnown'
  <2>1. \A u \in Calls : u # t => call[u].pc \notin {"starting", "opening", "nav", "reset", "read"}
    BY DEF OpenOk, LocksHeld, TabKnown, Started
  <2>2. call'[t].pc \in {"nav", "lock"} /\ \A u \in Calls : u # t => call'[u] = call[u]
    BY DEF OpenOk, Goto, AfterEnsure, TypeOK, Call
  <2>3. QED
    BY <1>2, <2>1, <2>2 DEF OpenOk, TabKnown, Started
<1>6. Halfway' /\ NoOtherLeak'
  BY <1>2 DEF OpenOk, Halfway, NoOtherLeak, Up
<1>7. QED
  BY <1>3, <1>4, <1>5, <1>6

\* The steps that end a call.
LEMMA LeaveStep ==
  ASSUME IInv, NEW t \in Calls,
         \/ StartFails(t) \/ OpenFails(t) \/ NavFails(t) \/ Read(t) \/ Cancel(t)
         \/ TakeLock(t) /\ tab = 0
  PROVE  IInv'
<1> USE DEF IInv
<1>1. Leave(t) /\ UNCHANGED <<browserVars, closed>>
  BY DEF StartFails, OpenFails, NavFails, Read, Cancel, TakeLock
<1>2. LocksHeld'
  BY <1>1, LeaveLocks
<1>3. CASE UNCHANGED <<chrome, spoilt>> /\ call[t].pc # "opening"
  <2>1. TypeOK' /\ TabKnown' /\ Halfway' /\ NoOtherLeak'
    BY <1>1, <1>3, LeaveLocks, LeaveTab, MoveTab DEF TypeOK, browserVars
  <2>2. QED
    BY <1>2, <2>1
<1>4. CASE UNCHANGED chrome /\ spoilt' = spoilt \cup {browser} /\ call[t].pc = "opening"
  <2>1. browser \in Ids
    BY <1>4 DEF TabKnown, TypeOK, Ids
  <2>2. TypeOK'
    BY <1>1, <1>4, <2>1, LeaveLocks DEF TypeOK, browserVars
  <2>3. TabKnown'
    BY <1>1, <1>4, LeaveTab
  <2>4. Halfway' /\ NoOtherLeak'
    BY <1>1, <1>4 DEF Halfway, NoOtherLeak, Up, browserVars
  <2>5. QED
    BY <1>2, <2>2, <2>3, <2>4
<1>5. CASE call[t].pc = "starting" /\ \E i \in Ids : Launch(i) /\ spoilt' = spoilt \cup {i}
  <2>1. PICK i \in Ids : Launch(i) /\ spoilt' = spoilt \cup {i}
    BY <1>5
  <2>2. TypeOK'
    <3>1. chrome' \in [Ids -> {"unused", "up", "dead", "stopped"}]
      BY <2>1 DEF Launch, TypeOK
    <3>2. QED
      BY <1>1, <2>1, <3>1, LeaveLocks DEF TypeOK, browserVars
  <2>3. TabKnown'
    BY <1>1, <1>5, LeaveTab
  <2>4. \A u \in Calls : call[u].pc # "opening"
    BY <1>5 DEF LocksHeld
  <2>5. \A j \in Ids : j # i => chrome'[j] = chrome[j]
    BY <2>1 DEF Launch, TypeOK
  <2>6. Halfway' /\ NoOtherLeak'
    BY <1>1, <2>1, <2>4, <2>5 DEF Halfway, NoOtherLeak, Up, TypeOK, Ids, browserVars
  <2>7. QED
    BY <1>2, <2>2, <2>3, <2>6
<1>6. QED
  BY <1>3, <1>4, <1>5 DEF StartFails, OpenFails, NavFails, Read, Cancel, TakeLock

\* The steps between _lock and the page.
LEMMA NavStep ==
  ASSUME IInv, NEW t \in Calls,
         NavOk(t) \/ NavDead(t) \/ (TakeLock(t) /\ tab # 0)
  PROVE  IInv'
<1> USE DEF IInv
<1>1. CASE TakeLock(t) /\ tab # 0
  <2>1. lock = None /\ lock' = t /\ Goto(t, "nav") /\ UNCHANGED initLock
    BY <1>1 DEF TakeLock
  <2>2. call' \in [Calls -> Call]
    BY <2>1 DEF Goto, TypeOK, Call
  <2>3. TypeOK'
    BY <1>1, <2>1, <2>2 DEF TakeLock, TypeOK, browserVars
  <2>4. LocksHeld'
    BY <1>1, <2>1 DEF TakeLock, Goto, TypeOK, Call, LocksHeld
  <2>5. TabKnown'
    BY <1>1, <2>1 DEF TakeLock, Goto, TypeOK, Call, TabKnown, Started, Up, browserVars
  <2>6. Halfway' /\ NoOtherLeak'
    BY <1>1, <2>1, MoveTab DEF TakeLock, Goto, TypeOK
  <2>7. QED
    BY <2>3, <2>4, <2>5, <2>6
<1>2. CASE NavOk(t)
  <2>1. TypeOK'
    BY <1>2 DEF NavOk, Goto, TypeOK, Call, browserVars, lockVars
  <2>2. LocksHeld' /\ TabKnown'
    BY <1>2
    DEF NavOk, Goto, TypeOK, Call, LocksHeld, TabKnown, Started, Up, browserVars, lockVars
  <2>3. Halfway' /\ NoOtherLeak'
    BY <1>2, MoveTab DEF NavOk, Goto, TypeOK
  <2>4. QED
    BY <2>1, <2>2, <2>3
<1>3. CASE NavDead(t)
  <2>1. TypeOK'
    BY <1>3 DEF NavDead, Goto, TypeOK, Call, browserVars, lockVars
  <2>2. ~Up(browser)
    BY <1>3 DEF NavDead, TabKnown, Started, TypeOK
  <2>3. LocksHeld' /\ TabKnown'
    BY <1>3, <2>2
    DEF NavDead, Goto, TypeOK, Call, LocksHeld, TabKnown, Started, Up, browserVars, lockVars
  <2>4. Halfway' /\ NoOtherLeak'
    BY <1>3, MoveTab DEF NavDead, Goto, TypeOK
  <2>5. QED
    BY <2>1, <2>3, <2>4
<1>4. QED
  BY <1>1, <1>2, <1>3

LEMMA ResetStep == ASSUME IInv, NEW t \in Calls, Reset(t) PROVE IInv'
<1> USE DEF IInv
<1>1. call' \in [Calls -> Call] /\ call'[t].pc = "ensure" /\ call'[t].again
      /\ \A u \in Calls : u # t => call'[u] = call[u]
  BY DEF Reset, TypeOK, Call
<1>2. TypeOK'
  <2>1. chrome' \in [Ids -> {"unused", "up", "dead", "stopped"}]
    BY DEF Reset, TypeOK
  <2>2. QED
    BY <1>1, <2>1 DEF Reset, TypeOK, lockVars
<1>3. LocksHeld'
  BY <1>1 DEF Reset, LocksHeld, lockVars
<1>4. TabKnown'
  <2>1. \A u \in Calls : u # t => call[u].pc \notin {"nav", "reset", "read", "starting", "opening"}
    BY DEF Reset, LocksHeld
  <2>2. QED
    BY <1>1, <2>1 DEF TabKnown
<1>5. Halfway' /\ NoOtherLeak'
  BY DEF Reset, Halfway, NoOtherLeak, TypeOK, Up, Ids
<1>6. QED
  BY <1>2, <1>3, <1>4, <1>5

(***************************************************************************)
(* Every step preserves the invariant.                                     *)
(***************************************************************************)

LEMMA NextInv == IInv /\ [Next]_vars => IInv'
<1> SUFFICES ASSUME IInv, [Next]_vars PROVE IInv'
  OBVIOUS
<1>1. CASE \E t \in Calls : Begin(t) \/ Waits(t) \/ Proceeds(t) \/ Cancel(t)
  <2>1. PICK t \in Calls : Begin(t) \/ Waits(t) \/ Proceeds(t) \/ Cancel(t)
    BY <1>1
  <2>2. CASE Begin(t) \/ Ensure(t) \/ Reset(t) \/ StartOk(t) \/ OpenOk(t)
    BY <2>2, BeginStep, EnsureStep, StartStep, OpenStep, ResetStep
  <2>3. CASE StartFails(t) \/ OpenFails(t) \/ NavFails(t) \/ Read(t) \/ Cancel(t)
    BY <2>3, LeaveStep
  <2>4. CASE NavOk(t) \/ NavDead(t)
    BY <2>4, NavStep
  <2>5. CASE TakeLock(t)
    <3>1. CASE tab # 0
      BY <2>5, <3>1, NavStep
    <3>2. CASE tab = 0
      BY <2>5, <3>2, LeaveStep
    <3>3. QED
      BY <3>1, <3>2
  <2>6. QED
    BY <2>1, <2>2, <2>3, <2>4, <2>5 DEF Waits, Proceeds
<1>2. CASE \E i \in Ids : Die(i)
  <2>1. PICK i \in Ids : Die(i)
    BY <1>2
  <2>2. \A j \in Ids : chrome'[j] = "up" => chrome[j] = "up"
    BY <2>1 DEF Die, IInv, TypeOK
  <2>3. TypeOK'
    BY <2>1 DEF Die, IInv, TypeOK, browserVars, lockVars
  <2>4. LocksHeld' /\ TabKnown' /\ Halfway' /\ NoOtherLeak'
    BY <2>1, <2>2
    DEF Die, IInv, TypeOK, LocksHeld, TabKnown, Halfway, NoOtherLeak, Started, Up, Ids,
        browserVars, lockVars
  <2>5. QED
    BY <2>3, <2>4 DEF IInv
<1>3. CASE Close
  <2>1. TypeOK'
    <3>1. chrome' \in [Ids -> {"unused", "up", "dead", "stopped"}]
      BY <1>3 DEF Close, IInv, TypeOK
    <3>2. QED
      BY <1>3, <3>1 DEF Close, IInv, TypeOK, lockVars
  <2>2. LocksHeld' /\ TabKnown' /\ Halfway' /\ NoOtherLeak'
    BY <1>3
    DEF Close, IInv, TypeOK, LocksHeld, TabKnown, Halfway, NoOtherLeak, Up, Ids, lockVars
  <2>3. QED
    BY <2>1, <2>2 DEF IInv
<1>4. CASE UNCHANGED vars
  BY <1>4
  DEF vars, IInv, TypeOK, LocksHeld, TabKnown, Halfway, NoOtherLeak, Started, Up,
      browserVars, lockVars
<1>5. QED
  BY <1>1, <1>2, <1>3, <1>4 DEF Next

LEMMA Invariance == Spec => []IInv
BY InitInv, NextInv, PTL DEF Spec

(***************************************************************************)
(* The theorems.                                                           *)
(***************************************************************************)

\* _browser, _tab and the locks keep their types; the tab is that of the
\* browser, or there is none.
THEOREM TypeCorrect == Spec => []TypeOK
<1>1. IInv => TypeOK
  BY DEF IInv
<1>2. QED
  BY Invariance, <1>1, PTL

\* _lock and _init_lock together, though they are taken one by one, keep all
\* others away from a tab in use.
THEOREM TabSerialised == Spec => []OneAtTheTab
<1>1. ASSUME IInv PROVE OneAtTheTab
  <2>1. SUFFICES ASSUME NEW t \in Calls, call[t].pc \in {"nav", "read"}
                 PROVE  /\ Started /\ tab = browser
                        /\ \A u \in Calls \ {t} :
                             call[u].pc \notin {"starting", "opening", "nav", "reset", "read"}
    BY DEF OneAtTheTab
  <2>2. Started /\ tab = browser
    BY <1>1, <2>1 DEF IInv, TabKnown, Started, TypeOK
  <2>3. \A u \in Calls \ {t} : call[u].pc \notin {"starting", "opening"}
    BY <1>1, <2>2 DEF IInv, TabKnown, Started
  <2>4. \A u \in Calls \ {t} : call[u].pc \notin {"nav", "reset", "read"}
    BY <1>1, <2>1 DEF IInv, LocksHeld
  <2>5. QED
    BY <2>2, <2>3, <2>4
<1>2. QED
  BY Invariance, <1>1, PTL

\* Whatever fails or is cancelled, the only Chromes that run unknown to
\* _browser are those whose launch ended between its two awaits.
THEOREM LeaksExplained == Spec => []NoOtherLeak
<1>1. IInv => NoOtherLeak
  BY DEF IInv
<1>2. QED
  BY Invariance, <1>1, PTL

\* _reset never stops a live Chrome: the lock is held from the navigation
\* that failed.
THEOREM ResetOnlyDead == Spec => ResetDropsDead
<1>1. ASSUME IInv, [Next]_vars, NEW i \in Ids, Up(i), chrome'[i] = "stopped"
      PROVE  closed'
  <2>1. chrome[i] = "up"
    BY <1>1 DEF Up
  <2>2. CASE \E t \in Calls : Reset(t)
    <3>1. ~Up(browser)
      BY <1>1, <2>2 DEF Reset, IInv, TabKnown
    <3>2. QED
      BY <1>1, <2>1, <2>2, <3>1 DEF Reset, IInv, TypeOK
  <2>3. CASE ~\E t \in Calls : Reset(t)
    BY <1>1, <2>1, <2>3
    DEF Next, vars, IInv, TypeOK, Ids, Begin, Waits, Proceeds, Ensure, TakeLock, StartOk,
        StartFails, OpenOk, OpenFails, NavOk, NavDead, NavFails, Read, Cancel, Launch, Die,
        Close
  <2>4. QED
    BY <2>2, <2>3
<1>2. IInv /\ [Next]_vars =>
        [\A i \in Ids : Up(i) /\ chrome'[i] = "stopped" => closed']_vars
  BY <1>1
<1>3. QED
  BY Invariance, <1>2, PTL DEF Spec, ResetDropsDead

(***************************************************************************)
(* The browser implements SharedBrowser, for one call at a time.           *)
(***************************************************************************)

LEMMA InitRefined == Init => Browser!Init
<1> SUFFICES ASSUME Init PROVE Browser!Init
  OBVIOUS
<1>1. browser \in 0 .. 1 /\ spoilt \in SUBSET ({browser} \ {0})
  BY DEF Init
<1>2. chrome = [i \in 1 .. MaxStarts |-> IF i = browser THEN "up" ELSE "unused"]
  BY DEF Init, Ids
<1>3. Users = {} /\ Page = [t \in Calls |-> 0]
  BY DEF Init, Idle, Users, Page
<1>4. QED
  BY <1>1, <1>2, <1>3 DEF Browser!Init

LEMMA LeaveRefined ==
  ASSUME TypeOK, NEW t \in Calls, Leave(t), tab' = tab
  PROVE  Browser!Leave(t)
<1>1. Users' = Users \ {t}
  BY DEF Leave, Freed, Users
<1>2. Page' = [Page EXCEPT ![t] = 0]
  BY DEF Leave, Idle, Page, TypeOK
<1>3. QED
  BY <1>1, <1>2 DEF Browser!Leave

\* A step of the calls that takes or frees no lock, and neither gets nor
\* gives back a page.
LEMMA SameCalls ==
  ASSUME lock' = lock, tab' = tab,
         \A u \in Calls : call'[u].pc = "read" <=> call[u].pc = "read"
  PROVE  UNCHANGED Browser!callVars
BY DEF Users, Page, Browser!callVars

LEMMA LaunchRefined ==
  ASSUME NEW i \in Ids, Launch(i)
  PROVE  i \in 1 .. MaxStarts /\ Browser!Start(i)
BY DEF Launch, Browser!Start, Ids

\* Who launches has _init_lock, so that no other call is halfway through it:
\* a Chrome that runs by then has strayed.
LEMMA StartRefined ==
  ASSUME IInv, NEW t \in Calls, StartOk(t)
  PROVE  Browser!Launch /\ UNCHANGED Browser!callVars
<1>1. TypeOK
  BY DEF IInv
<1>2. call[t].pc = "starting" /\ tab = 0
  BY DEF StartOk, IInv, TabKnown
<1>3. \A u \in Calls : call[u].pc # "opening"
  BY <1>2 DEF IInv, LocksHeld
<1>4. \A i \in 1 .. MaxStarts : chrome[i] = "up" => i \in spoilt
  BY <1>2, <1>3 DEF IInv, Halfway, NoOtherLeak, Up, Ids
<1>5. \E i \in 1 .. MaxStarts : Browser!Start(i) /\ browser' = i
  BY LaunchRefined DEF StartOk, Ids
<1>6. \A u \in Calls : call'[u].pc = "read" <=> call[u].pc = "read"
  BY <1>1, <1>2 DEF StartOk, Goto, TypeOK, Call
<1>7. UNCHANGED Browser!callVars
  BY <1>6, SameCalls DEF StartOk, lockVars
<1>8. QED
  BY <1>4, <1>5, <1>7 DEF Browser!Launch, StartOk

\* While there is no tab, nobody reads.
LEMMA OpenRefined ==
  ASSUME IInv, NEW t \in Calls, OpenOk(t)
  PROVE  UNCHANGED <<Browser!chromeVars, Browser!callVars>>
<1>1. TypeOK
  BY DEF IInv
<1>2. call[t].pc = "opening" /\ tab = 0
  BY DEF OpenOk, IInv, TabKnown
<1>3. \A u \in Calls : call[u].pc # "read"
  BY <1>2 DEF IInv, TabKnown, Started
<1>4. \A u \in Calls : call'[u].pc # "read"
  BY <1>1, <1>3 DEF OpenOk, Goto, AfterEnsure, TypeOK, Call
<1>5. Page' = Page
  BY <1>3, <1>4 DEF Page
<1>6. QED
  BY <1>5 DEF OpenOk, Users, Browser!chromeVars, Browser!callVars

LEMMA EnterRefined ==
  ASSUME TypeOK, NEW t \in Calls, TakeLock(t), tab # 0
  PROVE  Browser!Enter(t) /\ UNCHANGED Browser!chromeVars
<1>1. lock = None /\ lock' = t /\ call' = [call EXCEPT ![t].pc = "nav"] /\ call[t].pc = "lock"
  BY DEF TakeLock, Goto, Leave
<1>2. Users = {} /\ Users' = {t}
  BY <1>1 DEF Users
<1>3. Browser!Cardinality(Users) = 0
  BY <1>2, FS_EmptySet DEF Browser!Cardinality, Cardinality
<1>4. Page' = Page
  BY <1>1 DEF Page, TypeOK, Call, TakeLock, browserVars
<1>5. QED
  BY <1>2, <1>3, <1>4 DEF Browser!Enter, TakeLock, browserVars, Browser!chromeVars

LEMMA ServeRefined ==
  ASSUME IInv, NEW t \in Calls, NavOk(t)
  PROVE  Browser!Serve(t) /\ UNCHANGED Browser!chromeVars
<1>1. TypeOK
  BY DEF IInv
<1>2. call[t].pc = "nav" /\ call' = [call EXCEPT ![t].pc = "read"] /\ Up(tab)
  BY DEF NavOk, Goto
<1>3. tab = browser /\ browser # 0 /\ chrome[browser] = "up"
  BY <1>1, <1>2 DEF Up, TypeOK
<1>4. t \in Users
  BY <1>2 DEF IInv, LocksHeld, Users
<1>5. Page' = [Page EXCEPT ![t] = browser]
  BY <1>1, <1>2, <1>3 DEF Page, TypeOK, Call, NavOk, browserVars
<1>6. Users' = Users
  BY DEF Users, NavOk, lockVars
<1>7. QED
  BY <1>3, <1>4, <1>5, <1>6 DEF Browser!Serve, NavOk, browserVars, Browser!chromeVars

\* Who resets has _lock, so that nobody reads.
LEMMA ResetRefined ==
  ASSUME IInv, NEW t \in Calls, Reset(t)
  PROVE  /\ Browser!Stop \/ UNCHANGED Browser!chromeVars
         /\ UNCHANGED Browser!callVars
<1>1. TypeOK
  BY DEF IInv
<1>2. call[t].pc = "reset"
  BY DEF Reset
<1>3. \A u \in Calls : call[u].pc # "read"
  BY <1>2 DEF IInv, LocksHeld
<1>4. tab' = 0
  BY DEF Reset
<1>5. Page' = Page
  BY <1>3, <1>4 DEF Page
<1>6. Browser!Stop \/ UNCHANGED Browser!chromeVars
  BY <1>1 DEF TypeOK, Reset, Browser!Stop, Browser!chromeVars
<1>7. QED
  BY <1>5, <1>6 DEF Reset, lockVars, Users, Browser!callVars

LEMMA CancelRefined ==
  ASSUME IInv, NEW t \in Calls, Cancel(t)
  PROVE  /\ Browser!Leave(t)
         /\ Browser!Stray \/ UNCHANGED Browser!chromeVars
<1>1. TypeOK
  BY DEF IInv
<1>2. Browser!Leave(t)
  BY <1>1, LeaveRefined DEF Cancel, browserVars
<1>3. CASE UNCHANGED <<chrome, spoilt>>
  BY <1>2, <1>3 DEF Cancel, browserVars, Browser!chromeVars
<1>4. CASE call[t].pc = "opening" /\ spoilt' = spoilt \cup {browser} /\ UNCHANGED chrome
  <2>1. browser # 0
    BY <1>4 DEF IInv, TabKnown
  <2>2. QED
    BY <1>2, <1>4, <2>1 DEF Cancel, browserVars, Browser!Stray
<1>5. CASE \E i \in Ids : Launch(i) /\ spoilt' = spoilt \cup {i}
  <2>1. \E i \in 1 .. MaxStarts : Browser!Start(i) /\ spoilt' = spoilt \cup {i}
    BY <1>5, LaunchRefined
  <2>2. QED
    BY <1>2, <2>1 DEF Cancel, browserVars, Browser!Stray
<1>6. QED
  BY <1>3, <1>4, <1>5 DEF Cancel

LEMMA NextRefined ==
  IInv /\ [Next]_vars => [Browser!Next]_<<Browser!chromeVars, Browser!callVars>>
<1> SUFFICES ASSUME IInv, [Next]_vars
             PROVE  Browser!Next \/ UNCHANGED <<Browser!chromeVars, Browser!callVars>>
  OBVIOUS
<1>1. TypeOK
  BY DEF IInv
<1>2. CASE UNCHANGED vars
  BY <1>2 DEF vars, browserVars, lockVars, Browser!chromeVars, Browser!callVars, Users, Page
<1>3. CASE Close
  <2>1. \A u \in Calls : call[u].pc # "read" /\ call'[u].pc # "read"
    BY <1>3 DEF Close
  <2>2. UNCHANGED Browser!callVars
    BY <1>3, <2>1 DEF Close, lockVars, Users, Page, Browser!callVars
  <2>3. Browser!Stop \/ UNCHANGED Browser!chromeVars
    BY <1>1, <1>3 DEF TypeOK, Close, Browser!Stop, Browser!chromeVars
  <2>4. QED
    BY <2>2, <2>3 DEF Browser!Next
<1>4. CASE \E i \in Ids : Die(i)
  <2>1. Browser!Die
    BY <1>4 DEF Die, Up, Browser!Die, Ids, browserVars
  <2>2. UNCHANGED Browser!callVars
    BY <1>4 DEF Die, Browser!callVars, Users, Page, browserVars, lockVars
  <2>3. QED
    BY <2>1, <2>2 DEF Browser!Next
<1>5. ASSUME NEW t \in Calls, Begin(t) \/ Waits(t) \/ Proceeds(t) \/ Cancel(t)
      PROVE  Browser!Next \/ UNCHANGED <<Browser!chromeVars, Browser!callVars>>
  <2>1. CASE StartOk(t)
    BY <2>1, StartRefined DEF Browser!Next
  <2>2. CASE OpenOk(t)
    BY <2>2, OpenRefined
  <2>3. CASE TakeLock(t) /\ tab # 0
    BY <1>1, <2>3, EnterRefined DEF Browser!Next
  <2>4. CASE NavOk(t)
    BY <2>4, ServeRefined DEF Browser!Next
  <2>5. CASE Reset(t)
    BY <2>5, ResetRefined DEF Browser!Next
  <2>6. CASE Cancel(t)
    BY <2>6, CancelRefined DEF Browser!Next
  <2>7. CASE OpenFails(t)
    <3>1. browser # 0
      BY <2>7 DEF OpenFails, IInv, TabKnown
    <3>2. Browser!Leave(t)
      BY <1>1, <2>7, LeaveRefined DEF OpenFails, browserVars
    <3>3. Browser!Stray
      BY <2>7, <3>1 DEF OpenFails, browserVars, Browser!Stray
    <3>4. QED
      BY <3>2, <3>3 DEF Browser!Next
  <2>8. CASE StartFails(t) \/ NavFails(t) \/ Read(t) \/ (TakeLock(t) /\ tab = 0)
    <3>1. Leave(t) /\ tab' = tab /\ UNCHANGED Browser!chromeVars
      BY <2>8 DEF StartFails, NavFails, Read, TakeLock, browserVars, Browser!chromeVars
    <3>2. QED
      BY <1>1, <3>1, LeaveRefined DEF Browser!Next
  <2>9. CASE Begin(t) \/ Ensure(t) \/ NavDead(t)
    <3>1. \A u \in Calls : call'[u].pc = "read" <=> call[u].pc = "read"
      BY <1>1, <2>9 DEF Begin, Ensure, NavDead, Goto, AfterEnsure, Idle, TypeOK, Call
    <3>2. lock' = lock /\ UNCHANGED browserVars /\ UNCHANGED <<chrome, spoilt>>
      BY <2>9 DEF Begin, Ensure, NavDead, lockVars, browserVars
    <3>3. UNCHANGED Browser!callVars
      BY <3>1, <3>2, SameCalls DEF browserVars
    <3>4. QED
      BY <3>2, <3>3 DEF browserVars, Browser!chromeVars
  <2>10. QED
    BY <1>5, <2>1, <2>2, <2>3, <2>4, <2>5, <2>6, <2>7, <2>8, <2>9 DEF Waits, Proceeds
<1>6. QED
  BY <1>2, <1>3, <1>4, <1>5 DEF Next

\* TabBrowser with its two locks, one taken inside the other when it
\* relaunches, does what SharedBrowser says, for any number of tasks.
THEOREM TabIsShared == Spec => ImplementsSharedBrowser
BY Invariance, InitRefined, NextRefined, PTL DEF Spec, ImplementsSharedBrowser, Browser!Spec

=============================================================================
