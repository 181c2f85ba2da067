------------------------ MODULE BrowserPool_proofs ------------------------
(***************************************************************************)
(* Proofs about BrowserPool, for any finite set of tasks, any number of    *)
(* permits and any number of launches.                                     *)
(***************************************************************************)
EXTENDS BrowserPool, FiniteSetTheorems, TLAPS

USE CallsAssumption, BoundsAssumption

(***************************************************************************)
(* The inductive invariant.  What the pool promises rests on two facts of  *)
(* the lock and the tabs that no run asks for by itself.                   *)
(***************************************************************************)

\* The lock is held by the call that launches, and by no other; while it
\* launches there is no browser.
LockHeld ==
  \A t \in Calls : /\ call[t].pc = "starting" <=> holder = t
                   /\ call[t].pc = "starting" => browser = 0

\* The Chrome of a tab was launched at some time, and the one that a call is
\* about to reset for is not running.
TabsLaunched ==
  /\ browser # 0 => chrome[browser] # "unused"
  /\ \A t \in Calls :
       /\ call[t].pc \in {"opening", "reset", "using", "export", "drop"} =>
            call[t].on # 0 /\ chrome[call[t].on] # "unused"
       /\ call[t].pc \in {"reset", "drop"} => ~Up(call[t].on)

IInv ==
  /\ TypeOK
  /\ LockHeld
  /\ TabsLaunched
  /\ PermitsConserved
  /\ SingleBrowser

(***************************************************************************)
(* Permits.                                                                *)
(***************************************************************************)

LEMMA UsersFinite == IsFiniteSet(Users) /\ Cardinality(Users) \in Nat
<1>1. IsFiniteSet(Users)
  BY FS_Subset DEF Users
<1>2. QED
  BY <1>1, FS_CardinalityType

\* A step that leaves the users alone.
LEMMA SameUsers ==
  ASSUME PermitsConserved, permits' = permits,
         \A u \in Calls :
           call'[u].pc \in {"idle", "cookies", "permit"} <=> call[u].pc \in {"idle", "cookies", "permit"}
  PROVE  PermitsConserved'
<1>1. Users' = Users
  BY DEF Users
<1>2. QED
  BY <1>1 DEF PermitsConserved

LEMMA LeaveConserves ==
  ASSUME TypeOK, PermitsConserved, NEW t \in Calls, Leave(t)
  PROVE  /\ PermitsConserved'
         /\ permits' \in 0 .. MaxTabs
<1>1. CASE call[t].pc \in {"idle", "cookies", "permit"}
  <2>1. PermitsConserved'
    BY <1>1, SameUsers DEF Leave, Idle, TypeOK
  <2>2. QED
    BY <1>1, <2>1 DEF Leave, TypeOK
<1>2. CASE call[t].pc \notin {"idle", "cookies", "permit"}
  <2>1. Users' = Users \ {t} /\ t \in Users
    BY <1>2 DEF Leave, Users, TypeOK, Idle
  <2>2. Cardinality(Users') = Cardinality(Users) - 1
    BY <2>1, UsersFinite, FS_RemoveElement
  <2>3. IsFiniteSet(Users') /\ Cardinality(Users') \in Nat
    BY <2>1, UsersFinite, FS_RemoveElement, FS_CardinalityType
  <2>4. permits' = permits + 1
    BY <1>2 DEF Leave
  <2>5. QED
    BY <2>2, <2>3, <2>4, UsersFinite DEF PermitsConserved, TypeOK
<1>3. QED
  BY <1>1, <1>2

\* A task that ends, whatever becomes of the Chromes meanwhile.
LEMMA LeaveLock ==
  ASSUME TypeOK, LockHeld, NEW t \in Calls, Leave(t), browser' \in {0, browser}
  PROVE  /\ LockHeld'
         /\ holder' \in Calls \cup {None}
         /\ warmer' \in Calls \cup {None}
         /\ call' \in [Calls -> Call]
         /\ \A u \in Calls : call'[u] = call[u] \/ call'[u] = Idle
BY DEF TypeOK, LockHeld, Leave, Idle, Call

\* A step that launches no Chrome, revives none and moves no call along
\* leaves what is said of the tabs as it was.
LEMMA TabsKept ==
  ASSUME TypeOK, TabsLaunched,
         \A i \in Ids : chrome'[i] = "unused" => chrome[i] = "unused",
         \A i \in Ids : chrome'[i] = "up" => chrome[i] \in {"up", "unused"},
         browser' = browser \/ browser' = 0,
         \A u \in Calls : call'[u] = call[u] \/ call'[u] = Idle
  PROVE  TabsLaunched'
<1>1. browser' # 0 => chrome'[browser'] # "unused"
  BY DEF TypeOK, TabsLaunched, Ids
<1>2. ASSUME NEW u \in Calls
      PROVE  /\ call'[u].pc \in {"opening", "reset", "using", "export", "drop"} =>
                  call'[u].on # 0 /\ chrome'[call'[u].on] # "unused"
             /\ call'[u].pc \in {"reset", "drop"} => ~Up(call[u].on)'
  <2>1. CASE call'[u] = Idle
    BY <2>1 DEF Idle
  <2>2. CASE call'[u] = call[u]
    <3>1. call[u].on \in 0 .. MaxStarts
      BY DEF TypeOK, Call
    <3>2. QED
      BY <2>2, <3>1 DEF TabsLaunched, Up, Ids
  <2>3. QED
    BY <2>1, <2>2
<1>3. QED
  BY <1>1, <1>2 DEF TabsLaunched

(***************************************************************************)
(* The invariant holds initially and every step preserves it.              *)
(***************************************************************************)

LEMMA InitInv == Init => IInv
<1> SUFFICES ASSUME Init PROVE IInv
  OBVIOUS
<1>1. Users = {}
  BY DEF Init, Users, Idle
<1>2. PermitsConserved
  BY <1>1, FS_EmptySet DEF Init, PermitsConserved
<1>3. TypeOK
  <2>1. Idle \in Call
    BY DEF Idle, Call
  <2>2. call \in [Calls -> Call]
    BY <2>1 DEF Init
  <2>3. chrome \in [Ids -> {"unused", "up", "dead", "stopped"}]
    BY DEF Init
  <2>4. browser \in 0 .. MaxStarts /\ permits \in 0 .. MaxTabs
    BY DEF Init
  <2>5. /\ holder \in Calls \cup {None} /\ warmer \in Calls \cup {None}
        /\ closed \in BOOLEAN /\ orphaned \subseteq Ids
    BY DEF Init
  <2>6. QED
    BY <2>2, <2>3, <2>4, <2>5 DEF TypeOK
<1>4. LockHeld /\ TabsLaunched /\ SingleBrowser
  BY DEF Init, LockHeld, TabsLaunched, SingleBrowser, Idle, Up
<1>5. QED
  BY <1>2, <1>3, <1>4 DEF IInv

\* The steps of one call.
LEMMA CallStep ==
  ASSUME IInv, NEW t \in Calls, Starts(t) \/ Waits(t) \/ Proceeds(t) \/ Cancel(t)
  PROVE  IInv'
<1> USE DEF IInv
<1>1. CASE Starts(t)
  <2>1. PermitsConserved'
    BY <1>1, SameUsers DEF Starts, Acquire, GetCookies, Goto, TypeOK, Call
  <2>2. QED
    BY <1>1, <2>1 DEF Starts, Acquire, GetCookies, Goto, TypeOK, Call, LockHeld, TabsLaunched, SingleBrowser, Up
<1>2. CASE TakePermit(t)
  <2>1. Users' = Users \cup {t} /\ t \notin Users
    BY <1>2 DEF TakePermit, Goto, Users, TypeOK, Call
  <2>2. Cardinality(Users') = Cardinality(Users) + 1
    BY <2>1, UsersFinite, FS_AddElement
  <2>3. PermitsConserved' /\ permits' \in 0 .. MaxTabs
    BY <1>2, <2>2, UsersFinite DEF TakePermit, PermitsConserved, TypeOK
  <2>4. QED
    BY <1>2, <2>3 DEF TakePermit, Goto, TypeOK, Call, LockHeld, TabsLaunched, SingleBrowser, Up
<1>3. CASE Ensure(t)
  <2>1. CASE browser # 0 /\ Open(t, browser) /\ UNCHANGED holder
    <3>1. PermitsConserved'
      BY <1>3, <2>1, SameUsers DEF Ensure, Open, TypeOK, Call
    <3>2. TypeOK'
      BY <1>3, <2>1 DEF Ensure, Open, TypeOK, Call
    <3>3. LockHeld' /\ TabsLaunched' /\ SingleBrowser'
      BY <1>3, <2>1
      DEF Ensure, Open, TypeOK, Call, LockHeld, TabsLaunched, SingleBrowser, Up
    <3>4. QED
      BY <3>1, <3>2, <3>3
  <2>2. CASE browser = 0 /\ holder' = t /\ Goto(t, "starting")
    <3>1. PermitsConserved'
      BY <1>3, <2>2, SameUsers DEF Ensure, Goto, TypeOK, Call
    <3>2. TypeOK'
      BY <1>3, <2>2 DEF Ensure, Goto, TypeOK, Call
    <3>3. LockHeld' /\ TabsLaunched' /\ SingleBrowser'
      BY <1>3, <2>2
      DEF Ensure, Goto, TypeOK, Call, LockHeld, TabsLaunched, SingleBrowser, Up
    <3>4. QED
      BY <3>1, <3>2, <3>3
  <2>3. QED
    BY <1>3, <2>1, <2>2 DEF Ensure
<1>4. CASE Reset(t)
  <2>1. PermitsConserved'
    BY <1>4, SameUsers DEF Reset, TypeOK, Call
  <2>2. TypeOK'
    <3>1. call' \in [Calls -> Call]
      BY <1>4 DEF Reset, TypeOK, Call
    <3>2. chrome' \in [Ids -> {"unused", "up", "dead", "stopped"}]
      BY <1>4 DEF Reset, Discard, TypeOK, Ids
    <3>3. QED
      BY <1>4, <3>1, <3>2 DEF Reset, Discard, TypeOK
  <2>3. LockHeld'
    BY <1>4 DEF Reset, Discard, TypeOK, Call, LockHeld
  <2>4. TabsLaunched'
    BY <1>4 DEF Reset, Discard, TypeOK, Call, TabsLaunched, Up, Ids
  <2>5. SingleBrowser'
    BY <1>4 DEF Reset, Discard, TypeOK, SingleBrowser, Up, Ids
  <2>6. QED
    BY <2>1, <2>2, <2>3, <2>4, <2>5
<1>5. CASE StartOk(t)
  <2>1. PICK i \in Ids : Launch(i) /\ browser' = i /\ Open(t, i)
    BY <1>5 DEF StartOk
  <2>2. PermitsConserved'
    BY <1>5, <2>1, SameUsers DEF StartOk, Open, TypeOK, Call
  <2>3. TypeOK'
    <3>1. call' \in [Calls -> Call]
      <4>1. i \in 0 .. MaxStarts
        BY DEF Ids
      <4>2. QED
        BY <4>1, <2>1 DEF Open, TypeOK, Call
    <3>2. chrome' \in [Ids -> {"unused", "up", "dead", "stopped"}]
      BY <2>1 DEF Launch, TypeOK
    <3>3. browser' \in 0 .. MaxStarts
      BY <2>1 DEF Ids
    <3>4. QED
      BY <1>5, <3>1, <3>2, <3>3 DEF StartOk, TypeOK
  <2>4. LockHeld'
    BY <1>5, <2>1 DEF StartOk, Open, TypeOK, Call, LockHeld
  <2>5. TabsLaunched'
    <3>1. browser' # 0 /\ chrome'[browser'] # "unused"
      BY <2>1 DEF Launch, TypeOK, Ids
    <3>2. ASSUME NEW u \in Calls, u # t
          PROVE  /\ call[u].pc \in {"opening", "reset", "using", "export", "drop"} =>
                      call[u].on # 0 /\ chrome'[call[u].on] # "unused"
                 /\ call[u].pc \in {"reset", "drop"} => ~Up(call[u].on)'
      BY <2>1, <3>2 DEF Open, Launch, TypeOK, Call, TabsLaunched, Up, Ids
    <3>3. call'[t].pc = "opening" /\ call'[t].on = i
      BY <2>1 DEF Open, TypeOK, Call
    <3>4. \A u \in Calls : u # t => call'[u] = call[u]
      BY <2>1 DEF Open, TypeOK
    <3>5. QED
      BY <2>1, <3>1, <3>2, <3>3, <3>4 DEF TabsLaunched, Up, Ids
  <2>6. SingleBrowser'
    BY <1>5, <2>1 DEF StartOk, Launch, LockHeld, SingleBrowser, TypeOK, Up, Ids
  <2>7. QED
    BY <2>2, <2>3, <2>4, <2>5, <2>6
<1>6. CASE Leave(t) /\ UNCHANGED <<chrome, browser, closed, orphaned>>
  <2>1. Leave(t) /\ UNCHANGED <<chrome, browser, closed, orphaned>>
    BY <1>6
  <2>2. TypeOK' /\ LockHeld' /\ PermitsConserved'
    BY <2>1, LeaveLock, LeaveConserves DEF TypeOK
  <2>3. TabsLaunched' /\ SingleBrowser'
    BY <2>1, LeaveLock, TabsKept DEF SingleBrowser, Up
  <2>4. QED
    BY <2>2, <2>3
<1>7. CASE OpenOk(t)
  <2>1. PermitsConserved'
    BY <1>7, SameUsers DEF OpenOk, Goto, TypeOK, Call
  <2>2. QED
    BY <1>7, <2>1 DEF OpenOk, Goto, TypeOK, Call, LockHeld, TabsLaunched, SingleBrowser, Up
<1>8. CASE OpenDead(t)
  <2>1. PermitsConserved'
    BY <1>8, SameUsers DEF OpenDead, Goto, TypeOK, Call
  <2>2. QED
    BY <1>8, <2>1 DEF OpenDead, Goto, TypeOK, Call, LockHeld, TabsLaunched, SingleBrowser, Up
<1>9. CASE Cancel(t)
  <2>1. Leave(t) /\ UNCHANGED <<browser, closed>>
    BY <1>9 DEF Cancel
  <2>2. LockHeld' /\ PermitsConserved' /\ call' \in [Calls -> Call]
        /\ holder' \in Calls \cup {None} /\ warmer' \in Calls \cup {None}
        /\ permits' \in 0 .. MaxTabs
    BY <2>1, LeaveLock, LeaveConserves
  <2>3. CASE UNCHANGED <<chrome, orphaned>>
    <3>1. TabsLaunched' /\ SingleBrowser'
      BY <2>1, <2>3, LeaveLock, TabsKept DEF SingleBrowser, Up
    <3>2. QED
      BY <2>1, <2>2, <2>3, <3>1 DEF TypeOK
  <2>4. CASE \E i \in Ids : Launch(i) /\ orphaned' = orphaned \cup {i}
    <3>1. PICK i \in Ids : Launch(i) /\ orphaned' = orphaned \cup {i}
      BY <2>4
    <3>2. TypeOK'
      BY <2>1, <2>2, <3>1 DEF TypeOK, Launch
    <3>3. \A k \in Ids : /\ chrome'[k] = "unused" => chrome[k] = "unused"
                         /\ chrome'[k] = "up" => chrome[k] \in {"up", "unused"}
      BY <3>1 DEF Launch, TypeOK
    <3>4. TabsLaunched'
      BY <2>1, <3>3, LeaveLock, TabsKept
    <3>5. SingleBrowser'
      BY <2>1, <3>1 DEF SingleBrowser, Launch, TypeOK, Up, Ids
    <3>6. QED
      BY <2>2, <3>2, <3>4, <3>5
  <2>5. QED
    BY <1>9, <2>3, <2>4 DEF Cancel
<1>10. CASE Warm(t)
  <2>1. PermitsConserved'
    BY <1>10, SameUsers DEF Warm, Goto, TypeOK, Call
  <2>2. QED
    BY <1>10, <2>1 DEF Warm, Goto, TypeOK, Call, LockHeld, TabsLaunched, SingleBrowser, Up
<1>11. CASE /\ call[t].pc = "using"
            /\ browser # 0
            /\ call' = [call EXCEPT ![t].pc = "export", ![t].on = browser]
            /\ UNCHANGED <<chrome, browser, holder, permits, warmer, closed, orphaned>>
  <2>1. PermitsConserved'
    BY <1>11, SameUsers DEF TypeOK, Call
  <2>2. QED
    BY <1>11, <2>1 DEF TypeOK, Call, LockHeld, TabsLaunched, SingleBrowser, Up
<1>12. CASE ExportDead(t)
  <2>1. PermitsConserved'
    BY <1>12, SameUsers DEF ExportDead, Goto, TypeOK, Call
  <2>2. QED
    BY <1>12, <2>1
    DEF ExportDead, Goto, TypeOK, Call, LockHeld, TabsLaunched, SingleBrowser, Up
<1>13. CASE Drop(t)
  <2>1. Leave(t) /\ Discard /\ UNCHANGED <<closed, orphaned>>
    BY <1>13 DEF Drop
  <2>2. browser' \in {0, browser}
    BY <2>1 DEF Discard
  <2>3. LockHeld' /\ PermitsConserved' /\ call' \in [Calls -> Call]
        /\ holder' \in Calls \cup {None} /\ warmer' \in Calls \cup {None}
        /\ permits' \in 0 .. MaxTabs
    BY <2>1, <2>2, LeaveLock, LeaveConserves
  <2>4. chrome' \in [Ids -> {"unused", "up", "dead", "stopped"}] /\ browser' = 0
    BY <2>1 DEF Discard, TypeOK, Ids
  <2>5. \A i \in Ids : /\ chrome'[i] = "unused" => chrome[i] = "unused"
                       /\ chrome'[i] = "up" => chrome[i] = "up" /\ i # browser
    BY <2>1 DEF Discard, TypeOK, Ids
  <2>6. TypeOK'
    BY <2>1, <2>3, <2>4 DEF TypeOK
  <2>7. TabsLaunched'
    BY <2>1, <2>4, <2>5, LeaveLock, <2>2, TabsKept
  <2>8. SingleBrowser'
    BY <2>1, <2>5 DEF SingleBrowser, Up, Ids
  <2>9. QED
    BY <2>3, <2>6, <2>7, <2>8
<1>14. QED
  <2>1. CASE Starts(t) \/ Cancel(t)
    BY <2>1, <1>1, <1>9
  <2>2. CASE Waits(t)
    BY <2>2, <1>2, <1>3, <1>4, <1>6, <1>10, <1>13 DEF Waits, CookiesKept
  <2>3. CASE Proceeds(t)
    BY <2>3, <1>5, <1>6, <1>7, <1>8, <1>11, <1>12
    DEF Proceeds, StartFails, OpenFails, Release, Export, ExportEnds
  <2>4. QED
    BY <2>1, <2>2, <2>3

LEMMA NextInv == IInv /\ [Next]_vars => IInv'
<1> SUFFICES ASSUME IInv, [Next]_vars PROVE IInv'
  OBVIOUS
<1>1. CASE \E t \in Calls : Starts(t) \/ Waits(t) \/ Proceeds(t) \/ Cancel(t)
  BY <1>1, CallStep
<1>2. CASE \E i \in Ids : Die(i)
  <2>1. PermitsConserved'
    BY <1>2 DEF IInv, Die, PermitsConserved, Users
  <2>2. QED
    BY <1>2, <2>1
    DEF IInv, Die, TypeOK, Call, LockHeld, TabsLaunched, SingleBrowser, Up, Ids
<1>3. CASE Close
  <2>1. PermitsConserved'
    BY <1>3 DEF IInv, Close, PermitsConserved, Users
  <2>2. QED
    BY <1>3, <2>1
    DEF IInv, Close, Discard, TypeOK, Call, LockHeld, TabsLaunched, SingleBrowser, Up, Ids
<1>4. CASE UNCHANGED vars
  BY <1>4 DEF IInv, vars, TypeOK, LockHeld, TabsLaunched, PermitsConserved, Users,
              SingleBrowser, Up
<1>5. QED
  BY <1>1, <1>2, <1>3, <1>4 DEF Next

LEMMA Invariance == Spec => []IInv
BY InitInv, NextInv, PTL DEF Spec

(***************************************************************************)
(* The theorems.                                                           *)
(***************************************************************************)

\* The variables of browser_pool.py keep their types: among them, the
\* semaphore's value stays between 0 and max_tabs.
THEOREM TypeCorrect == Spec => []TypeOK
<1>1. IInv => TypeOK
  BY DEF IInv
<1>2. QED
  BY Invariance, <1>1, PTL

\* However acquire() is left, its permit comes back.
THEOREM PermitsComeBack == Spec => []PermitsConserved
<1>1. IInv => PermitsConserved
  BY DEF IInv
<1>2. QED
  BY Invariance, <1>1, PTL

\* _ensure_browser, _reset_browser and close leave no Chrome running beside
\* the shared one, but for a launch that was cancelled.
THEOREM OneBrowser == Spec => []SingleBrowser
<1>1. IInv => SingleBrowser
  BY DEF IInv
<1>2. QED
  BY Invariance, <1>1, PTL

\* _reset_browser stops a live Chrome only when its caller found another
\* one dead earlier.
THEOREM LateReset == Spec => LostToLateReset
<1>1. ASSUME IInv, [Next]_vars, NEW i \in Ids, Up(i), chrome'[i] = "stopped", ~closed'
      PROVE  \E t \in Calls : /\ call[t].pc \in {"reset", "drop"}
                              /\ call[t].on \notin {0, i}
                              /\ ~Up(call[t].on)
  <2>1. chrome[i] = "up"
    BY <1>1 DEF Up
  <2>2. PICK t \in Calls : Reset(t) \/ Drop(t)
    BY <1>1, <2>1
    DEF Next, vars, IInv, TypeOK, Ids, Starts, Acquire, GetCookies, Waits, Proceeds,
        TakePermit, Ensure, CookiesKept, Warm, StartOk, StartFails, OpenOk, OpenDead,
        OpenFails, Release, Export, ExportEnds, ExportDead, Cancel, Launch, Die, Close
  <2>3. call[t].pc \in {"reset", "drop"}
    BY <2>2 DEF Reset, Drop
  <2>4. call[t].on # 0 /\ ~Up(call[t].on)
    BY <1>1, <2>3 DEF IInv, TabsLaunched
  <2>5. QED
    BY <1>1, <2>3, <2>4
<1>2. IInv /\ [Next]_vars =>
        [\A i \in Ids : Up(i) /\ chrome'[i] = "stopped" /\ ~closed' =>
           \E t \in Calls : /\ call[t].pc \in {"reset", "drop"}
                            /\ call[t].on \notin {0, i}
                            /\ ~Up(call[t].on)]_vars
  BY <1>1
<1>3. QED
  BY Invariance, <1>2, PTL DEF Spec, LostToLateReset

(***************************************************************************)
(* The pool implements SharedBrowser: every step is one of it, or nothing. *)
(***************************************************************************)

\* No Chrome that strayed is, or will be, given to a call.
GivenOut ==
  /\ \A i \in orphaned : i \in Ids /\ chrome[i] # "unused"
  /\ browser \notin orphaned
  /\ \A t \in Calls : call[t].pc = "opening" => call[t].on \notin orphaned

LEMMA InitGivenOut == Init => GivenOut
  BY DEF Init, GivenOut, Idle

\* A step that launches nothing.
LEMMA GivenOutKept ==
  ASSUME TypeOK, GivenOut, orphaned' = orphaned, browser' \in {browser, 0},
         \A i \in Ids : chrome'[i] = "unused" => chrome[i] = "unused",
         \A u \in Calls : call'[u].pc = "opening" =>
                            call'[u] = call[u] \/ call'[u].on = browser
  PROVE  GivenOut'
<1>1. 0 \notin orphaned
  BY DEF GivenOut, Ids
<1>2. QED
  BY <1>1 DEF GivenOut, TypeOK

LEMMA NextGivenOut == IInv /\ GivenOut /\ [Next]_vars => GivenOut'
<1> SUFFICES ASSUME IInv, GivenOut, [Next]_vars PROVE GivenOut'
  OBVIOUS
<1>1. TypeOK
  BY DEF IInv
<1>2. CASE UNCHANGED vars
  BY <1>1, <1>2, GivenOutKept DEF vars
<1>3. CASE Close
  BY <1>1, <1>3, GivenOutKept DEF Close, Discard, TypeOK
<1>4. CASE \E i \in Ids : Die(i)
  BY <1>1, <1>4, GivenOutKept DEF Die, TypeOK
<1>5. ASSUME NEW t \in Calls, Starts(t) \/ Waits(t) \/ Proceeds(t) \/ Cancel(t)
      PROVE  GivenOut'
  <2>1. CASE StartOk(t)
    <3>1. PICK i \in Ids : /\ chrome[i] = "unused" /\ chrome' = [chrome EXCEPT ![i] = "up"]
                           /\ browser' = i
                           /\ call' = [call EXCEPT ![t].pc = "opening", ![t].on = i]
      BY <2>1 DEF StartOk, Launch, Open
    <3>2. i \notin orphaned /\ orphaned' = orphaned
      BY <3>1, <2>1 DEF GivenOut, StartOk
    <3>3. \A u \in Calls : call'[u] = call[u] \/ call'[u].on = i
      BY <3>1, <1>1 DEF TypeOK, Call
    <3>4. QED
      BY <3>1, <3>2, <3>3, <1>1 DEF GivenOut, TypeOK
  <2>2. CASE Cancel(t)
    <3>1. call' = [call EXCEPT ![t] = Idle] /\ browser' = browser
      BY <2>2 DEF Cancel, Leave
    <3>2. \A u \in Calls : call'[u].pc = "opening" => call'[u] = call[u]
      BY <3>1, <1>1 DEF TypeOK, Idle
    <3>3. CASE UNCHANGED <<chrome, orphaned>>
      BY <3>1, <3>2, <3>3, <1>1, GivenOutKept
    <3>4. CASE \E i \in Ids : Launch(i) /\ orphaned' = orphaned \cup {i}
      <4>1. PICK i \in Ids : /\ chrome[i] = "unused" /\ chrome' = [chrome EXCEPT ![i] = "up"]
                             /\ orphaned' = orphaned \cup {i}
        BY <3>4 DEF Launch
      <4>2. browser # i
        BY <4>1 DEF IInv, TabsLaunched, Ids
      <4>3. \A u \in Calls : call[u].pc = "opening" => call[u].on # i
        BY <4>1 DEF IInv, TabsLaunched
      <4>4. QED
        BY <3>1, <3>2, <4>1, <4>2, <4>3, <1>1 DEF GivenOut, TypeOK
    <3>5. QED
      BY <2>2, <3>3, <3>4 DEF Cancel
  <2>3. CASE ~StartOk(t) /\ ~Cancel(t)
    <3>1. \A u \in Calls : call'[u].pc = "opening" =>
                              call'[u] = call[u] \/ call'[u].on = browser
      BY <1>1, <1>5, <2>3
      DEF TypeOK, Call, Idle, Starts, Waits, Proceeds, Acquire, GetCookies, TakePermit, Ensure,
          Open, Reset, CookiesKept, Warm, Drop, StartFails, OpenOk, OpenDead, OpenFails, Release,
          Export, ExportEnds, ExportDead, Leave, Goto
    <3>2. orphaned' = orphaned /\ browser' \in {browser, 0}
      BY <1>5, <2>3
      DEF Starts, Waits, Proceeds, Acquire, GetCookies, TakePermit, Ensure, Reset, CookiesKept,
          Warm, Drop, Discard, StartFails, OpenOk, OpenDead, OpenFails, Release, Export,
          ExportEnds, ExportDead
    <3>3. \A i \in Ids : chrome'[i] = "unused" => chrome[i] = "unused"
      BY <1>1, <1>5, <2>3
      DEF TypeOK, Starts, Waits, Proceeds, Acquire, GetCookies, TakePermit, Ensure, Reset,
          CookiesKept, Warm, Drop, Discard, StartFails, OpenOk, OpenDead, OpenFails, Release,
          Export, ExportEnds, ExportDead
    <3>4. QED
      BY <1>1, <3>1, <3>2, <3>3, GivenOutKept
  <2>4. QED
    BY <2>1, <2>2, <2>3
<1>6. QED
  BY <1>2, <1>3, <1>4, <1>5 DEF Next

LEMMA InitRefined == Init => Browser!Init
<1> SUFFICES ASSUME Init PROVE Browser!Init
  OBVIOUS
<1>1. browser = 0 /\ chrome = [i \in 1 .. MaxStarts |-> IF i = browser THEN "up" ELSE "unused"]
  BY DEF Init, Ids
<1>2. orphaned \in SUBSET ({browser} \ {0})
  BY DEF Init
<1>3. Users = {} /\ Page = [t \in Calls |-> 0]
  BY DEF Init, Idle, Users, Page
<1>4. QED
  BY <1>1, <1>2, <1>3 DEF Browser!Init

\* A step of t that keeps it in the pool or out of it, with no page before
\* and after, is none of the calls.
LEMMA SameCalls ==
  ASSUME TypeOK, \A u \in Calls :
           /\ call'[u].pc \in {"idle", "cookies", "permit"} <=> call[u].pc \in {"idle", "cookies", "permit"}
           /\ call'[u].pc = "using" <=> call[u].pc = "using"
           /\ call[u].pc = "using" => call'[u].on = call[u].on
  PROVE  UNCHANGED Browser!callVars
<1>1. Users' = Users
  BY DEF Users
<1>2. Page' = Page
  BY DEF Page
<1>3. QED
  BY <1>1, <1>2 DEF Browser!callVars

LEMMA LeaveRefined ==
  ASSUME TypeOK, NEW t \in Calls, Leave(t)
  PROVE  Browser!Leave(t)
<1>1. call' = [call EXCEPT ![t] = Idle]
  BY DEF Leave
<1>2. Users' = Users \ {t}
  BY <1>1 DEF Users, Idle, TypeOK
<1>3. Page' = [Page EXCEPT ![t] = 0]
  BY <1>1 DEF Page, Idle, TypeOK
<1>4. QED
  BY <1>2, <1>3 DEF Browser!Leave

LEMMA DiscardRefined ==
  ASSUME TypeOK, Discard, UNCHANGED orphaned
  PROVE  Browser!Stop \/ UNCHANGED Browser!chromeVars
BY DEF TypeOK, Discard, Browser!Stop, Browser!chromeVars

LEMMA LaunchRefined ==
  ASSUME TypeOK, NEW i \in Ids, Launch(i)
  PROVE  i \in 1 .. MaxStarts /\ Browser!Start(i)
BY DEF Launch, Browser!Start, Ids

\* SharedBrowser counts as this module does.
LEMMA SameCount == Browser!Cardinality(Users) = Cardinality(Users)
  BY DEF Browser!Cardinality, Cardinality

\* A permit is free: there is room.
LEMMA EnterRefined ==
  ASSUME IInv, NEW t \in Calls, TakePermit(t)
  PROVE  Browser!Enter(t) /\ UNCHANGED Browser!chromeVars
<1>1. call' = [call EXCEPT ![t].pc = "ensure"] /\ call[t].pc = "permit"
  BY DEF TakePermit, Goto
<1>2. TypeOK
  BY DEF IInv
<1>3. t \notin Users /\ Users' = Users \cup {t}
  BY <1>1, <1>2 DEF Users, TypeOK, Call
<1>4. Page' = Page
  BY <1>1, <1>2 DEF Page, TypeOK, Call
<1>5. permits > 0 /\ permits \in Nat /\ permits + Cardinality(Users) = MaxTabs
  BY <1>2 DEF TakePermit, IInv, PermitsConserved, TypeOK
<1>6. Cardinality(Users) < MaxTabs
  BY <1>5, UsersFinite
<1>7. QED
  BY <1>3, <1>4, <1>6, SameCount DEF Browser!Enter, TakePermit, Browser!chromeVars

\* The tab opens in a Chrome that is up, and that is the shared one: it was
\* given out as such, and no stray ever is.
LEMMA ServeRefined ==
  ASSUME IInv, GivenOut, NEW t \in Calls, OpenOk(t)
  PROVE  Browser!Serve(t) /\ UNCHANGED Browser!chromeVars
<1>1. call' = [call EXCEPT ![t].pc = "using"] /\ call[t].pc = "opening"
  BY DEF OpenOk, Goto
<1>2. TypeOK
  BY DEF IInv
<1>3. call[t].on \in Ids /\ chrome[call[t].on] = "up"
  BY <1>2 DEF OpenOk, Up, TypeOK, Call, Ids
<1>4. call[t].on = browser
  BY <1>1, <1>3 DEF IInv, SingleBrowser, GivenOut, Up, Ids
<1>5. Users' = Users /\ t \in Users
  BY <1>1, <1>2 DEF Users, TypeOK, Call
<1>6. Page' = [Page EXCEPT ![t] = browser]
  BY <1>1, <1>2, <1>4 DEF Page, TypeOK, Call
<1>7. QED
  BY <1>3, <1>4, <1>5, <1>6 DEF Browser!Serve, OpenOk, Browser!chromeVars, Ids

LEMMA NextRefined ==
  IInv /\ GivenOut /\ [Next]_vars => [Browser!Next]_<<Browser!chromeVars, Browser!callVars>>
<1> SUFFICES ASSUME IInv, GivenOut, [Next]_vars
             PROVE  Browser!Next \/ UNCHANGED <<Browser!chromeVars, Browser!callVars>>
  OBVIOUS
<1>1. TypeOK
  BY DEF IInv
<1>2. CASE UNCHANGED vars
  BY <1>2 DEF vars, Browser!chromeVars, Browser!callVars, Users, Page
<1>3. CASE Close
  <2>1. Discard /\ UNCHANGED orphaned /\ UNCHANGED Browser!callVars
    BY <1>3 DEF Close, Browser!callVars, Users, Page
  <2>2. QED
    BY <1>1, <2>1, DiscardRefined DEF Browser!Next
<1>4. CASE \E i \in Ids : Die(i)
  <2>1. Browser!Die
    BY <1>4 DEF Die, Up, Browser!Die, Ids
  <2>2. UNCHANGED Browser!callVars
    BY <1>4 DEF Die, Browser!callVars, Users, Page
  <2>3. QED
    BY <2>1, <2>2 DEF Browser!Next
<1>5. ASSUME NEW t \in Calls, Starts(t) \/ Waits(t) \/ Proceeds(t) \/ Cancel(t)
      PROVE  Browser!Next \/ UNCHANGED <<Browser!chromeVars, Browser!callVars>>
  <2>1. CASE TakePermit(t)
    BY <2>1, EnterRefined DEF Browser!Next
  <2>2. CASE OpenOk(t)
    BY <2>2, ServeRefined DEF Browser!Next
  <2>3. CASE StartOk(t)
    <3>1. UNCHANGED Browser!callVars
      BY <1>1, <2>3, SameCalls DEF StartOk, Open, TypeOK, Call
    <3>2. browser = 0
      BY <2>3 DEF StartOk, IInv, LockHeld
    <3>3. \A i \in 1 .. MaxStarts : chrome[i] = "up" => i \in orphaned
      BY <3>2 DEF IInv, SingleBrowser, Up, Ids
    <3>4. \E i \in 1 .. MaxStarts : Browser!Start(i) /\ browser' = i
      BY <1>1, <2>3, LaunchRefined DEF StartOk, Ids
    <3>5. Browser!Launch
      BY <2>3, <3>3, <3>4 DEF StartOk, Browser!Launch
    <3>6. QED
      BY <3>1, <3>5 DEF Browser!Next
  <2>4. CASE Reset(t)
    <3>1. UNCHANGED Browser!callVars
      BY <1>1, <2>4, SameCalls DEF Reset, TypeOK, Call
    <3>2. Browser!Stop \/ UNCHANGED Browser!chromeVars
      BY <1>1, <2>4, DiscardRefined DEF Reset
    <3>3. QED
      BY <3>1, <3>2 DEF Browser!Next
  <2>5. CASE Drop(t)
    <3>1. Browser!Leave(t)
      BY <1>1, <2>5, LeaveRefined DEF Drop
    <3>2. Browser!Stop \/ UNCHANGED Browser!chromeVars
      BY <1>1, <2>5, DiscardRefined DEF Drop
    <3>3. QED
      BY <3>1, <3>2 DEF Browser!Next
  <2>6. CASE Cancel(t)
    <3>1. Browser!Leave(t)
      BY <1>1, <2>6, LeaveRefined DEF Cancel
    <3>2. Browser!Stray \/ UNCHANGED Browser!chromeVars
      <4>1. CASE UNCHANGED <<chrome, orphaned>>
        BY <2>6, <4>1 DEF Cancel, Browser!chromeVars
      <4>2. CASE \E i \in Ids : Launch(i) /\ orphaned' = orphaned \cup {i}
        <5>1. \E i \in 1 .. MaxStarts : Browser!Start(i) /\ orphaned' = orphaned \cup {i}
          BY <1>1, <4>2, LaunchRefined
        <5>2. QED
          BY <2>6, <5>1 DEF Cancel, Browser!Stray
      <4>3. QED
        BY <2>6, <4>1, <4>2 DEF Cancel
    <3>3. QED
      BY <3>1, <3>2 DEF Browser!Next
  <2>7. CASE Export(t) /\ browser # 0
    <3>1. call' = [call EXCEPT ![t].pc = "export", ![t].on = browser] /\ call[t].pc = "using"
      BY <2>7 DEF Export
    <3>2. Users' = Users
      BY <1>1, <3>1 DEF Users, TypeOK, Call
    <3>3. Page' = [Page EXCEPT ![t] = 0]
      BY <1>1, <3>1 DEF Page, TypeOK, Call
    <3>4. Browser!Finish(t)
      BY <3>2, <3>3 DEF Browser!Finish
    <3>5. UNCHANGED Browser!chromeVars
      BY <2>7 DEF Export, Browser!chromeVars
    <3>6. QED
      BY <3>4, <3>5 DEF Browser!Next
  <2>8. CASE \/ CookiesKept(t) \/ StartFails(t) \/ OpenFails(t) \/ Release(t)
             \/ ExportEnds(t) \/ (Export(t) /\ browser = 0)
    <3>1. Leave(t) /\ UNCHANGED Browser!chromeVars
      BY <2>8 DEF CookiesKept, StartFails, OpenFails, Release, ExportEnds, Export,
                  Browser!chromeVars
    <3>2. QED
      BY <1>1, <3>1, LeaveRefined DEF Browser!Next
  <2>9. CASE \/ Acquire(t) \/ GetCookies(t) \/ Ensure(t) \/ Warm(t)
             \/ OpenDead(t) \/ ExportDead(t)
    <3>1. UNCHANGED Browser!callVars
      BY <1>1, <2>9, SameCalls
      DEF Acquire, GetCookies, Ensure, Warm, OpenDead, ExportDead, Goto, Open, TypeOK, Call
    <3>2. UNCHANGED Browser!chromeVars
      BY <2>9 DEF Acquire, GetCookies, Ensure, Warm, OpenDead, ExportDead, Browser!chromeVars
    <3>3. QED
      BY <3>1, <3>2
  <2>10. QED
    BY <1>5, <2>1, <2>2, <2>3, <2>4, <2>5, <2>6, <2>7, <2>8, <2>9 DEF Starts, Waits, Proceeds
<1>6. QED
  BY <1>2, <1>3, <1>4, <1>5 DEF Next

\* BrowserPool, its locks, second attempts and cancellations, does what
\* SharedBrowser says, for any number of tasks and permits.
THEOREM PoolIsShared == Spec => ImplementsSharedBrowser
<1>1. Spec => [](IInv /\ GivenOut)
  BY Invariance, InitGivenOut, NextGivenOut, PTL DEF Spec
<1>2. QED
  BY <1>1, InitRefined, NextRefined, PTL DEF Spec, ImplementsSharedBrowser, Browser!Spec

=============================================================================
