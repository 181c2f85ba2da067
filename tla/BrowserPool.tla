---------------------------- MODULE BrowserPool ----------------------------
(***************************************************************************)
(* The pooled Chrome of antibot/browser_pool.py, and its two users in      *)
(* antibot/browser_fetch.py: the same-origin fetch of Ozon's adapter, and  *)
(* the cookie warmer.                                                      *)
(*                                                                         *)
(* acquire() takes a permit of the semaphore, makes sure that there is a   *)
(* browser, and opens a tab in it; when the browser turns out to be dead   *)
(* it drops the browser, makes sure again and opens once more.  The lock   *)
(* covers _ensure_browser and _reset_browser one by one, not the           *)
(* sequence.  The warmer holds a lock of its own around acquire, exports   *)
(* the cookies of whatever browser the pool has by then, and drops that    *)
(* browser when it is dead.  The calls interleave at their awaits; a       *)
(* Chrome may die, and the client of a search may disconnect and so cancel *)
(* a call, any time.                                                       *)
(*                                                                         *)
(* An operator that is used nowhere, like ResetUnstopped, is the one that  *)
(* follows it with a mistake the code could well have made: put in its     *)
(* place, it shows which property would notice.                            *)
(***************************************************************************)
EXTENDS Integers, FiniteSets

CONSTANTS
  Calls,      \* the tasks that fetch or ask for cookies, again and again
  MaxTabs,    \* permits of the semaphore
  MaxStarts,  \* bound of the model: Chrome processes ever launched
  None        \* no holder of a lock

ASSUME CallsAssumption == IsFiniteSet(Calls) /\ None \notin Calls
ASSUME BoundsAssumption == MaxTabs \in Nat \ {0} /\ MaxStarts \in Nat

VARIABLES
  chrome,   \* chrome[i]: the i-th Chrome launched
  browser,  \* _browser: the number of a Chrome, or 0 for None
  holder,   \* who holds _lock
  permits,  \* the value of _sem
  warmer,   \* who holds the warmer's _lock
  call,     \* call[t]: where task t stands
  closed,   \* close_browser_pool has run
  \* What follows observes the pool and never guards a step of it.
  orphaned  \* Chromes launched by a uc.start() that was cancelled

vars == <<chrome, browser, holder, permits, warmer, call, closed, orphaned>>

Ids == 1 .. MaxStarts

Call == [pc: {"idle", "cookies", "permit", "ensure", "starting", "opening", "reset",
              "using", "export", "drop"},
         on: 0 .. MaxStarts,  \* the Chrome that is asked for a tab or cookies
         again: BOOLEAN]      \* this is the second attempt

TypeOK ==
  /\ chrome \in [Ids -> {"unused", "up", "dead", "stopped"}]
  /\ browser \in 0 .. MaxStarts
  /\ holder \in Calls \cup {None}
  /\ permits \in 0 .. MaxTabs
  /\ warmer \in Calls \cup {None}
  /\ call \in [Calls -> Call]
  /\ closed \in BOOLEAN
  /\ orphaned \subseteq Ids

Idle == [pc |-> "idle", on |-> 0, again |-> FALSE]

Up(i) == i # 0 /\ chrome[i] = "up"

Init ==
  /\ chrome = [i \in Ids |-> "unused"]
  /\ browser = 0
  /\ holder = None
  /\ permits = MaxTabs
  /\ warmer = None
  /\ call = [t \in Calls |-> Idle]
  /\ closed = FALSE
  /\ orphaned = {}

Goto(t, pc) == call' = [call EXCEPT ![t].pc = pc]

\* get("about:blank", new_tab=True) is sent to Chrome i.
Open(t, i) == call' = [call EXCEPT ![t].pc = "opening", ![t].on = i]

\* _browser is stopped and forgotten, whichever it is by now.
Discard ==
  /\ browser' = 0
  /\ chrome' = IF browser = 0 THEN chrome ELSE [chrome EXCEPT ![browser] = "stopped"]

LeaveKeepsPermit(t) ==
  /\ call' = [call EXCEPT ![t] = Idle]
  /\ holder' = IF holder = t THEN None ELSE holder
  /\ warmer' = IF warmer = t THEN None ELSE warmer
  /\ UNCHANGED permits

\* Task t is done, normally or by an exception: its tab is closed, and the
\* locks and the permit it holds are released on the way.
Leave(t) ==
  /\ call' = [call EXCEPT ![t] = Idle]
  /\ holder' = IF holder = t THEN None ELSE holder
  /\ warmer' = IF warmer = t THEN None ELSE warmer
  /\ permits' = IF call[t].pc \in {"idle", "cookies", "permit"} THEN permits
                                                                ELSE permits + 1

-----------------------------------------------------------------------------
(***************************************************************************)
(* acquire                                                                 *)
(***************************************************************************)

Acquire(t) ==
  /\ ~closed
  /\ call[t].pc = "idle"
  /\ Goto(t, "permit")
  /\ UNCHANGED <<chrome, browser, holder, permits, warmer, closed, orphaned>>

TakePermitUnbounded(t) ==
  /\ call[t].pc = "permit"
  /\ permits' = permits - 1
  /\ Goto(t, "ensure")
  /\ UNCHANGED <<chrome, browser, holder, warmer, closed, orphaned>>

TakePermit(t) ==
  /\ call[t].pc = "permit"
  /\ permits > 0
  /\ permits' = permits - 1
  /\ Goto(t, "ensure")
  /\ UNCHANGED <<chrome, browser, holder, warmer, closed, orphaned>>

\* _ensure_browser gets the lock: the browser is there, and the lock is
\* released at once, or Chrome is launched under the lock.
Ensure(t) ==
  /\ call[t].pc = "ensure"
  /\ holder = None
  /\ \/ /\ browser # 0
        /\ Open(t, browser)
        /\ UNCHANGED holder
     \/ /\ browser = 0
        /\ holder' = t
        /\ Goto(t, "starting")
  /\ UNCHANGED <<chrome, browser, permits, warmer, closed, orphaned>>

Launch(i) ==
  /\ i \in Ids
  /\ chrome[i] = "unused"
  /\ \A j \in Ids : j < i => chrome[j] # "unused"
  /\ chrome' = [chrome EXCEPT ![i] = "up"]

StartOk(t) ==
  /\ call[t].pc = "starting"
  /\ \E i \in Ids :
        /\ Launch(i)
        /\ browser' = i
        /\ Open(t, i)
  /\ holder' = None
  /\ UNCHANGED <<permits, warmer, closed, orphaned>>

\* uc.start raises: "Failed to connect to browser" and the like.
StartFails(t) ==
  /\ call[t].pc = "starting"
  /\ Leave(t)
  /\ UNCHANGED <<chrome, browser, closed, orphaned>>

\* The tab is there, and the caller works with it.
OpenOk(t) ==
  /\ call[t].pc = "opening"
  /\ Up(call[t].on)
  /\ Goto(t, "using")
  /\ UNCHANGED <<chrome, browser, holder, permits, warmer, closed, orphaned>>

OpenDeadAnyError(t) ==
  /\ call[t].pc = "opening"
  /\ ~call[t].again
  /\ Goto(t, "reset")
  /\ UNCHANGED <<chrome, browser, holder, permits, warmer, closed, orphaned>>

\* The error is that of a dropped connection: once, relaunch.
OpenDead(t) ==
  /\ call[t].pc = "opening"
  /\ ~Up(call[t].on)
  /\ ~call[t].again
  /\ Goto(t, "reset")
  /\ UNCHANGED <<chrome, browser, holder, permits, warmer, closed, orphaned>>

\* Any other error, or the second one, is raised.
OpenFails(t) ==
  /\ call[t].pc = "opening"
  /\ Leave(t)
  /\ UNCHANGED <<chrome, browser, closed, orphaned>>

ResetForever(t) ==
  /\ call[t].pc = "reset"
  /\ holder = None
  /\ Discard
  /\ holder' = t
  /\ call' = [call EXCEPT ![t].pc = "ensure", ![t].again = TRUE]
  /\ UNCHANGED <<permits, warmer, closed, orphaned>>

ResetUnstopped(t) ==
  /\ call[t].pc = "reset"
  /\ holder = None
  /\ browser' = 0
  /\ call' = [call EXCEPT ![t].pc = "ensure", ![t].again = TRUE]
  /\ UNCHANGED <<chrome, holder, permits, warmer, closed, orphaned>>

\* _reset_browser gets the lock and stops whatever _browser is by now.  No
\* await under the lock.
Reset(t) ==
  /\ call[t].pc = "reset"
  /\ holder = None
  /\ Discard
  /\ call' = [call EXCEPT ![t].pc = "ensure", ![t].again = TRUE]
  /\ UNCHANGED <<holder, permits, warmer, closed, orphaned>>

\* The fetch is done, or failed.
Release(t) ==
  /\ call[t].pc = "using"
  /\ warmer # t
  /\ Leave(t)
  /\ UNCHANGED <<chrome, browser, closed, orphaned>>

-----------------------------------------------------------------------------
(***************************************************************************)
(* The cookie warmer                                                       *)
(***************************************************************************)

GetCookies(t) ==
  /\ ~closed
  /\ call[t].pc = "idle"
  /\ Goto(t, "cookies")
  /\ UNCHANGED <<chrome, browser, holder, permits, warmer, closed, orphaned>>

\* get_cookies has the lock: the cookies are fresh, in memory or on disk.
CookiesKept(t) ==
  /\ call[t].pc = "cookies"
  /\ warmer = None
  /\ Leave(t)
  /\ UNCHANGED <<chrome, browser, closed, orphaned>>

\* They are not: _warm calls acquire, and the lock is held till its end.
Warm(t) ==
  /\ call[t].pc = "cookies"
  /\ warmer = None
  /\ warmer' = t
  /\ Goto(t, "permit")
  /\ UNCHANGED <<chrome, browser, holder, permits, closed, orphaned>>

\* The pages are visited, or failed to load.  The cookies are asked of the
\* browser that the pool has now, if it has one.
Export(t) ==
  /\ call[t].pc = "using"
  /\ warmer = t
  /\ \/ /\ browser # 0
        /\ call' = [call EXCEPT ![t].pc = "export", ![t].on = browser]
        /\ UNCHANGED <<holder, permits, warmer>>
     \/ /\ browser = 0
        /\ Leave(t)
  /\ UNCHANGED <<chrome, browser, closed, orphaned>>

\* The cookies are there, or the error is not that of a dropped connection.
ExportEnds(t) ==
  /\ call[t].pc = "export"
  /\ Leave(t)
  /\ UNCHANGED <<chrome, browser, closed, orphaned>>

ExportDead(t) ==
  /\ call[t].pc = "export"
  /\ ~Up(call[t].on)
  /\ Goto(t, "drop")
  /\ UNCHANGED <<chrome, browser, holder, permits, warmer, closed, orphaned>>

\* The warmer's call of _reset_browser.
Drop(t) ==
  /\ call[t].pc = "drop"
  /\ holder = None
  /\ Discard
  /\ Leave(t)
  /\ UNCHANGED <<closed, orphaned>>

-----------------------------------------------------------------------------

\* The task is cancelled at its await.  A uc.start() that is interrupted may
\* have launched its Chrome, which is assigned to nothing.
Cancel(t) ==
  /\ call[t].pc # "idle"
  /\ Leave(t)
  /\ \/ UNCHANGED <<chrome, orphaned>>
     \/ /\ call[t].pc = "starting"
        /\ \E i \in Ids : Launch(i) /\ orphaned' = orphaned \cup {i}
  /\ UNCHANGED <<browser, closed>>

\* The user closes the window, or Chrome crashes.
Die(i) ==
  /\ Up(i)
  /\ chrome' = [chrome EXCEPT ![i] = "dead"]
  /\ UNCHANGED <<browser, holder, permits, warmer, call, closed, orphaned>>

\* close_browser_pool at the end of the lifespan, when the server has
\* drained its requests.
Close ==
  /\ ~closed
  /\ \A t \in Calls : call[t].pc = "idle"
  /\ closed' = TRUE
  /\ Discard
  /\ UNCHANGED <<holder, permits, warmer, call, orphaned>>

Starts(t) == Acquire(t) \/ GetCookies(t)

Waits(t) ==
  \/ TakePermit(t)
  \/ Ensure(t)
  \/ Reset(t)
  \/ CookiesKept(t)
  \/ Warm(t)
  \/ Drop(t)

Proceeds(t) ==
  \/ StartOk(t)
  \/ StartFails(t)
  \/ OpenOk(t)
  \/ OpenDead(t)
  \/ OpenFails(t)
  \/ Release(t)
  \/ Export(t)
  \/ ExportEnds(t)
  \/ ExportDead(t)

Next ==
  \/ \E t \in Calls :
        \/ Starts(t)
        \/ Waits(t)
        \/ Proceeds(t)
        \/ Cancel(t)
  \/ \E i \in Ids : Die(i)
  \/ Close

Spec == Init /\ [][Next]_vars

\* Waiters of asyncio's semaphore and lock are served in turn; a launch and
\* an open end one way or the other; callers give their tabs back.
Fairness == \A t \in Calls : SF_vars(Waits(t)) /\ WF_vars(Proceeds(t))

FairSpec == Spec /\ Fairness

-----------------------------------------------------------------------------
(***************************************************************************)
(* What the pool promises.                                                 *)
(***************************************************************************)

\* The calls that hold a permit.
Users == {t \in Calls : call[t].pc \notin {"idle", "cookies", "permit"}}

\* However acquire is left, by a launch that fails, a second dead browser or
\* a cancellation at any await, its permit comes back: the tabs in use never
\* exceed max_tabs, and the pool never shrinks.
PermitsConserved == permits + Cardinality(Users) = MaxTabs

\* "A single nodriver browser is shared per-process": a Chrome that runs is
\* the shared one, unless a cancellation struck while it was launched.
SingleBrowser == \A i \in Ids : Up(i) => i = browser \/ i \in orphaned

\* A Chrome that runs is stopped, before the pool is closed, only by an
\* acquire or a warm-up that found another one dead, earlier, and was late
\* to say so.
LostToLateReset ==
  [][\A i \in Ids : Up(i) /\ chrome'[i] = "stopped" /\ ~closed' =>
       \E t \in Calls : /\ call[t].pc \in {"reset", "drop"}
                        /\ call[t].on \notin {0, i}
                        /\ ~Up(call[t].on)]_vars

\* The Chrome in which a call has its tab.
Page == [t \in Calls |-> IF call[t].pc = "using" THEN call[t].on ELSE 0]

Browser == INSTANCE SharedBrowser WITH
  MaxUsers <- MaxTabs, current <- browser, stray <- orphaned, users <- Users, page <- Page

\* "One shared stealth browser, many tabs, bounded by a semaphore": the pool
\* is a browser that max_tabs calls share, each of whom gets its tab in the
\* Chrome that is the shared one then, and alive, with none launched beside
\* it.
ImplementsSharedBrowser == Browser!Spec

\* Every fetch and every warm-up ends: the semaphore, the pool's lock and the
\* warmer's lock, which is held while waiting for both, never deadlock.
AcquireEnds == \A t \in Calls : call[t].pc # "idle" ~> call[t].pc = "idle"

\* "Drop the dead browser reference": what a reset stops is dead.
ResetDropsDead ==
  [][\A i \in Ids : Up(i) /\ chrome'[i] = "stopped" => closed']_vars

=============================================================================
