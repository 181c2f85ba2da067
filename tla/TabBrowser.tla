----------------------------- MODULE TabBrowser -----------------------------
(***************************************************************************)
(* A browser with one tab: antibot/wb_browser.py and, alike but for what   *)
(* they do with the page, yandex_browser.py and google_browser.py.         *)
(*                                                                         *)
(* A search first makes sure, outside _lock, that browser and tab are      *)
(* there (_ensure_started, under _init_lock, checked before and after the  *)
(* lock is taken); then, under _lock, it navigates the tab and reads the   *)
(* page.  A navigation that finds Chrome dead resets the browser, makes    *)
(* sure again and navigates once more.  resolve_card_url of the Google     *)
(* browser does without that recovery.  Launching is two awaits, uc.start  *)
(* and the first navigation, and _browser is assigned between them.        *)
(*                                                                         *)
(* An operator that is used nowhere, like EnsureUnchecked, is the one that *)
(* follows it with a mistake the code could well have made: put in its     *)
(* place, it shows which property would notice.                            *)
(***************************************************************************)
EXTENDS Integers, FiniteSets

CONSTANTS
  Calls,      \* the tasks that search or resolve, each again and again
  MaxStarts,  \* bound of the model: Chrome processes ever launched
  None        \* no holder of a lock

ASSUME CallsAssumption == IsFiniteSet(Calls) /\ None \notin Calls
ASSUME BoundsAssumption == MaxStarts \in Nat \ {0}

VARIABLES
  chrome,   \* chrome[i]: the i-th Chrome launched
  browser,  \* _browser: the number of a Chrome, or 0 for None
  tab,      \* _tab: the number of the Chrome it belongs to, or 0 for None
  initLock, \* who holds _init_lock
  lock,     \* who holds _lock
  call,     \* call[t]: where the call of task t stands
  closed,   \* aclose has run
  \* What follows observes the browser and never guards a step of it.
  spoilt    \* Chromes whose launch failed or was cancelled halfway

browserVars == <<browser, tab>>
lockVars == <<initLock, lock>>
vars == <<chrome, browserVars, lockVars, call, closed, spoilt>>

Ids == 1 .. MaxStarts

Call == [pc: {"idle", "ensure", "starting", "opening", "lock", "nav", "reset", "read"},
         kind: {"search", "resolve"},
         again: BOOLEAN]  \* the browser was found dead once, _lock is held

Idle == [pc |-> "idle", kind |-> "search", again |-> FALSE]

TypeOK ==
  /\ chrome \in [Ids -> {"unused", "up", "dead", "stopped"}]
  /\ browser \in 0 .. MaxStarts
  /\ tab \in {0, browser}
  /\ initLock \in Calls \cup {None}
  /\ lock \in Calls \cup {None}
  /\ call \in [Calls -> Call]
  /\ closed \in BOOLEAN
  /\ spoilt \subseteq Ids

Up(i) == i # 0 /\ chrome[i] = "up"

\* The pre-warm of the lifespan ran before the first request.  It succeeded,
\* or one of its two awaits raised, which is caught there.
Init ==
  /\ \E prewarm \in {"failed", "halfway", "ok"} :
        /\ browser = IF prewarm = "failed" THEN 0 ELSE 1
        /\ tab = IF prewarm = "ok" THEN 1 ELSE 0
        /\ spoilt = IF prewarm = "halfway" THEN {1} ELSE {}
        /\ chrome = [i \in Ids |-> IF i = browser THEN "up" ELSE "unused"]
  /\ initLock = None
  /\ lock = None
  /\ call = [t \in Calls |-> Idle]
  /\ closed = FALSE

Started == browser # 0 /\ tab # 0

Freed(held, t) == IF held = t THEN None ELSE held

\* The call is over, by a result or an exception, and its locks are free.
Leave(t) ==
  /\ call' = [call EXCEPT ![t] = Idle]
  /\ initLock' = Freed(initLock, t)
  /\ lock' = Freed(lock, t)

\* _ensure_started returns: on to _lock or, with _lock held, straight to the
\* second navigation.
AfterEnsure(t) == IF call[t].again THEN "nav" ELSE "lock"

Goto(t, pc) == call' = [call EXCEPT ![t].pc = pc]

-----------------------------------------------------------------------------
(***************************************************************************)
(* The steps of dom_search, serp_search, shopping_search and               *)
(* resolve_card_url.                                                       *)
(***************************************************************************)

Begin(t) ==
  /\ ~closed
  /\ call[t].pc = "idle"
  /\ \E kind \in {"search", "resolve"} :
        call' = [call EXCEPT ![t] =
                   [Idle EXCEPT !.pc = IF Started THEN "lock" ELSE "ensure", !.kind = kind]]
  /\ UNCHANGED <<chrome, browserVars, lockVars, closed, spoilt>>

EnsureUnchecked(t) ==
  /\ call[t].pc = "ensure"
  /\ initLock = None
  /\ initLock' = t
  /\ Goto(t, "starting")
  /\ UNCHANGED <<chrome, browserVars, lock, closed, spoilt>>

\* _init_lock is free: somebody else has started the browser meanwhile, or
\* it is launched under the lock.
Ensure(t) ==
  /\ call[t].pc = "ensure"
  /\ initLock = None
  /\ \/ /\ Started
        /\ Goto(t, AfterEnsure(t))
        /\ UNCHANGED initLock
     \/ /\ ~Started
        /\ initLock' = t
        /\ Goto(t, "starting")
  /\ UNCHANGED <<chrome, browserVars, lock, closed, spoilt>>

Launch(i) ==
  /\ i \in Ids
  /\ chrome[i] = "unused"
  /\ \A j \in Ids : j < i => chrome[j] # "unused"
  /\ chrome' = [chrome EXCEPT ![i] = "up"]

\* uc.start returns.  A _browser whose tab never came is overwritten, not
\* stopped.  What Chrome makes of a profile that another one still uses is
\* left open: it may start all the same, or uc.start raises.
StartOk(t) ==
  /\ call[t].pc = "starting"
  /\ \E i \in Ids : Launch(i) /\ browser' = i
  /\ Goto(t, "opening")
  /\ UNCHANGED <<tab, lockVars, closed, spoilt>>

StartFails(t) ==
  /\ call[t].pc = "starting"
  /\ Leave(t)
  /\ UNCHANGED <<chrome, browserVars, closed, spoilt>>

\* The first page is loaded; injecting the stealth script may fail and is
\* caught.
OpenOk(t) ==
  /\ call[t].pc = "opening"
  /\ Up(browser)
  /\ tab' = browser
  /\ initLock' = None
  /\ Goto(t, AfterEnsure(t))
  /\ UNCHANGED <<chrome, browser, lock, closed, spoilt>>

OpenFails(t) ==
  /\ call[t].pc = "opening"
  /\ spoilt' = spoilt \cup {browser}
  /\ Leave(t)
  /\ UNCHANGED <<chrome, browserVars, closed>>

\* _lock is free.  Should the tab have been lost while t waited, the call on
\* None raises, which is caught and ends the call.
TakeLock(t) ==
  /\ call[t].pc = "lock"
  /\ lock = None
  /\ \/ /\ tab # 0
        /\ lock' = t
        /\ Goto(t, "nav")
        /\ UNCHANGED initLock
     \/ /\ tab = 0
        /\ Leave(t)
  /\ UNCHANGED <<chrome, browserVars, closed, spoilt>>

NavOk(t) ==
  /\ call[t].pc = "nav"
  /\ Up(tab)
  /\ Goto(t, "read")
  /\ UNCHANGED <<chrome, browserVars, lockVars, closed, spoilt>>

NavDeadAnyError(t) ==
  /\ call[t].pc = "nav"
  /\ call[t].kind = "search" /\ ~call[t].again
  /\ Goto(t, "reset")
  /\ UNCHANGED <<chrome, browserVars, lockVars, closed, spoilt>>

\* The error of a search's first navigation is that of a dropped connection.
NavDead(t) ==
  /\ call[t].pc = "nav"
  /\ ~Up(tab)
  /\ call[t].kind = "search" /\ ~call[t].again
  /\ Goto(t, "reset")
  /\ UNCHANGED <<chrome, browserVars, lockVars, closed, spoilt>>

\* Any other error ends the call; a cancellation of the first navigation of
\* a search, too, which `except BaseException` takes for one.
NavFails(t) ==
  /\ call[t].pc = "nav"
  /\ Leave(t)
  /\ UNCHANGED <<chrome, browserVars, closed, spoilt>>

ResetKeepsTab(t) ==
  /\ call[t].pc = "reset"
  /\ initLock = None
  /\ browser' = 0
  /\ chrome' = IF browser = 0 THEN chrome ELSE [chrome EXCEPT ![browser] = "stopped"]
  /\ call' = [call EXCEPT ![t].pc = "ensure", ![t].again = TRUE]
  /\ UNCHANGED <<tab, lockVars, closed, spoilt>>

ResetHolding(t) ==
  /\ call[t].pc = "reset"
  /\ initLock = None
  /\ initLock' = t
  /\ browser' = 0
  /\ tab' = 0
  /\ chrome' = IF browser = 0 THEN chrome ELSE [chrome EXCEPT ![browser] = "stopped"]
  /\ call' = [call EXCEPT ![t].pc = "ensure", ![t].again = TRUE]
  /\ UNCHANGED <<lock, closed, spoilt>>

\* _reset: no await under _init_lock.
Reset(t) ==
  /\ call[t].pc = "reset"
  /\ initLock = None
  /\ browser' = 0
  /\ tab' = 0
  /\ chrome' = IF browser = 0 THEN chrome ELSE [chrome EXCEPT ![browser] = "stopped"]
  /\ call' = [call EXCEPT ![t].pc = "ensure", ![t].again = TRUE]
  /\ UNCHANGED <<lockVars, closed, spoilt>>

\* The page is read, or the card clicked and followed, or that fails.
Read(t) ==
  /\ call[t].pc = "read"
  /\ Leave(t)
  /\ UNCHANGED <<chrome, browserVars, closed, spoilt>>

\* The task is cancelled at its await.  A launch that is interrupted may
\* have left a Chrome.
Cancel(t) ==
  /\ call[t].pc # "idle"
  /\ Leave(t)
  /\ \/ /\ call[t].pc # "opening"
        /\ UNCHANGED <<chrome, spoilt>>
     \/ /\ call[t].pc = "opening"
        /\ spoilt' = spoilt \cup {browser}
        /\ UNCHANGED chrome
     \/ /\ call[t].pc = "starting"
        /\ \E i \in Ids : Launch(i) /\ spoilt' = spoilt \cup {i}
  /\ UNCHANGED <<browserVars, closed>>

-----------------------------------------------------------------------------

\* The user closes the window, or Chrome crashes.
Die(i) ==
  /\ Up(i)
  /\ chrome' = [chrome EXCEPT ![i] = "dead"]
  /\ UNCHANGED <<browserVars, lockVars, call, closed, spoilt>>

\* aclose at the end of the lifespan, when the server has drained its
\* requests.
Close ==
  /\ ~closed
  /\ \A t \in Calls : call[t].pc = "idle"
  /\ closed' = TRUE
  /\ browser' = 0
  /\ tab' = 0
  /\ chrome' = IF browser = 0 THEN chrome ELSE [chrome EXCEPT ![browser] = "stopped"]
  /\ UNCHANGED <<lockVars, call, spoilt>>

Waits(t) == Ensure(t) \/ TakeLock(t) \/ Reset(t)

Proceeds(t) ==
  \/ StartOk(t)
  \/ StartFails(t)
  \/ OpenOk(t)
  \/ OpenFails(t)
  \/ NavOk(t)
  \/ NavDead(t)
  \/ NavFails(t)
  \/ Read(t)

Next ==
  \/ \E t \in Calls : Begin(t) \/ Waits(t) \/ Proceeds(t) \/ Cancel(t)
  \/ \E i \in Ids : Die(i)
  \/ Close

Spec == Init /\ [][Next]_vars

\* Waiters of an asyncio lock are served in turn; what a call awaits of
\* Chrome ends one way or the other.
Fairness == \A t \in Calls : SF_vars(Waits(t)) /\ WF_vars(Proceeds(t))

FairSpec == Spec /\ Fairness

-----------------------------------------------------------------------------
(***************************************************************************)
(* What the browser promises.                                              *)
(***************************************************************************)

\* "the lock serialises dom_search calls on the single tab": while a call
\* navigates or reads, the tab is that of the current browser and no other
\* call launches, resets or navigates, though launching takes another lock.
OneAtTheTab ==
  \A t \in Calls : call[t].pc \in {"nav", "read"} =>
    /\ Started /\ tab = browser
    /\ \A u \in Calls \ {t} : call[u].pc \notin {"starting", "opening", "nav", "reset", "read"}

\* "Auto-recovers from a dead browser": only a dead one.  No reset stops a
\* Chrome that runs and has its tab.
ResetDropsDead ==
  [][\A i \in Ids : Up(i) /\ chrome'[i] = "stopped" => closed']_vars

\* A Chrome that runs is the current one, unless its launch was spoilt
\* between the two awaits.
NoOtherLeak == \A i \in Ids : Up(i) => i = browser \/ i \in spoilt

\* The call that has the tab, and the Chrome in which it reads its page.
Users == {t \in Calls : lock = t}
Page == [t \in Calls |-> IF call[t].pc = "read" THEN tab ELSE 0]

Browser == INSTANCE SharedBrowser WITH
  MaxUsers <- 1, current <- browser, stray <- spoilt, users <- Users, page <- Page

\* "Persistent nodriver browser", "singleton": it is a browser that one call
\* has at a time, which reads its page in the Chrome that is the current one
\* then, and alive, with none launched beside it.
ImplementsSharedBrowser == Browser!Spec

\* Every call returns: a launch inside a search, holding both locks, never
\* deadlocks with those that wait for either.
CallReturns == \A t \in Calls : call[t].pc # "idle" ~> call[t].pc = "idle"

\* "Lifecycle: singleton - one nodriver browser": none is launched while one
\* runs on the profile.
NoSecondLaunch ==
  \A t \in Calls : call[t].pc = "starting" => \A i \in Ids : ~Up(i)

=============================================================================
